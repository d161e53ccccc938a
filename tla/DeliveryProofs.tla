--------------------------- MODULE DeliveryProofs ---------------------------
(***************************************************************************)
(* What Delivery guarantees for any commands, workers, configurations and  *)
(* capacity; first of its queues and slots, then of a clean CloseDelivery, *)
(* then that the lanes account for every slot and implement Outbox.        *)
(***************************************************************************)
EXTENDS Delivery, TLAPS, FiniteSetTheorems, SequenceTheorems

-----------------------------------------------------------------------------
(* Types *)

LEMMA InitType == Init => TypeOK
  <1> SUFFICES ASSUME Init PROVE TypeOK
    OBVIOUS
  <1>1. ProducersOK
    BY DEF Init, ProducersOK, PcStates
  <1>2. LanesOK
    <2>1. slots \in [Lanes -> 0..Capacity]
      BY DeliveryConstants DEF Init, DeliveryConstants
    <2>2. queue \in [Lanes -> Seq(Producers)] /\ holder \in [Lanes -> Producers \cup {None}]
      BY DEF Init
    <2>3. running \in [Lanes -> BOOLEAN]
      BY Zenon DEF Init
    <2> QED
      BY <2>1, <2>2, <2>3 DEF LanesOK
  <1>3. WorkersOK
    BY DEF Init, WorkersOK, WorkerRecord, Idle
  <1>4. ClosingOK
    BY DEF Init, ClosingOK, Closed
  <1>5. HistoryOK
    BY DEF Init, HistoryOK
  <1> QED
    BY <1>1, <1>2, <1>3, <1>4, <1>5 DEF TypeOK

\* Giving a slot back keeps the count within the channel's capacity.
LEMMA FreeSlotType ==
  ASSUME slots \in [Lanes -> 0..Capacity], NEW l \in Lanes, FreeSlot(l)
  PROVE  slots' \in [Lanes -> 0..Capacity]
  <1>1. Capacity \in Nat
    BY DeliveryConstants DEF DeliveryConstants
  <1>2. slots[l] \in 0..Capacity /\ slots[l] > 0
    BY DEF FreeSlot
  <1>3. slots[l] - 1 \in 0..Capacity
    BY <1>1, <1>2
  <1> QED
    BY <1>3 DEF FreeSlot

\* A part of the state that a step leaves alone keeps its type.
LEMMA UnchangedTypes ==
  /\ ProducersOK /\ UNCHANGED <<pc, hasEvents, cancelled, inFlight>> => ProducersOK'
  /\ LanesOK /\ UNCHANGED laneVars => LanesOK'
  /\ WorkersOK /\ UNCHANGED <<wk, alive, doneBatch, cutOff>> => WorkersOK'
  /\ ClosingOK /\ UNCHANGED shutVars => ClosingOK'
  /\ HistoryOK /\ UNCHANGED <<generated, attempted>> => HistoryOK'
  BY DEF ProducersOK, LanesOK, WorkersOK, ClosingOK, HistoryOK, laneVars, shutVars

\* A command that moves on stays in a known place.
LEMMA GotoType ==
  ASSUME ProducersOK, NEW p \in Producers, NEW label \in PcStates, Goto(p, label)
  PROVE  pc' \in [Producers -> PcStates]
  BY DEF ProducersOK, Goto

LEMMA ProducerType ==
  ASSUME TypeOK, NEW p \in Producers, Enter(p) \/ Running(p) \/ CancelRequest(p)
  PROVE  TypeOK'
  <1> USE UnchangedTypes DEF TypeOK
  <1>0. LaneOf[p] \in Lanes /\ Capacity \in Nat
    BY DeliveryConstants DEF DeliveryConstants
  <1>1. CASE Enter(p)
    <2>1. ProducersOK'
      BY <1>1 DEF Enter, ProducersOK, Goto, PcStates
    <2>2. ClosingOK'
      BY <1>1 DEF Enter, ClosingOK
    <2> QED
      BY <1>1, <2>1, <2>2 DEF Enter, workVars
  <1>2. CASE TakeSlot(p)
    <2>1. ProducersOK'
      BY <1>2 DEF TakeSlot, ProducersOK, Goto, PcStates
    <2>2. LanesOK'
      BY <1>0, <1>2 DEF TakeSlot, LanesOK
    <2> QED
      BY <1>2, <2>1, <2>2 DEF TakeSlot, workVars, laneVars
  <1>3. CASE GiveUp(p)
    <2>1. ProducersOK'
      BY <1>3 DEF GiveUp, ProducersOK, Goto, PcStates
    <2> QED
      BY <1>3, <2>1 DEF GiveUp, workVars, laneVars
  <1>4. CASE Reserve(p)
    <2>1. ProducersOK'
      BY <1>4 DEF Reserve, ProducersOK, Goto, PcStates
    <2> QED
      BY <1>4, <2>1 DEF Reserve, workVars, laneVars
  <1>5. CASE GiveBack(p)
    <2>1. ProducersOK'
      BY <1>5 DEF GiveBack, ProducersOK, Goto, PcStates
    <2>2. slots' \in [Lanes -> 0..Capacity]
      BY <1>0, <1>5, FreeSlotType DEF GiveBack, LanesOK
    <2>3. LanesOK'
      BY <1>5, <2>2 DEF GiveBack, LanesOK
    <2> QED
      BY <1>5, <2>1, <2>3 DEF GiveBack, workVars
  <1>6. CASE Lock(p)
    <2>1. ProducersOK'
      BY <1>6 DEF Lock, ProducersOK, Goto, PcStates
    <2>2. LanesOK'
      BY <1>0, <1>6 DEF Lock, LanesOK
    <2> QED
      BY <1>6, <2>1, <2>2 DEF Lock, workVars, laneVars
  <1>7. CASE Enqueue(p)
    <2>1. ProducersOK'
      BY <1>7 DEF Enqueue, ProducersOK, Goto, PcStates
    <2>2. LanesOK'
      BY <1>0, <1>7 DEF Enqueue, LanesOK
    <2>3. HistoryOK'
      BY <1>0, <1>7 DEF Enqueue, HistoryOK, workVars
    <2> QED
      BY <1>7, <2>1, <2>2, <2>3 DEF Enqueue, workVars, laneVars
  <1>8. CASE NoEvents(p)
    <2>1. ProducersOK'
      BY <1>8 DEF NoEvents, ProducersOK, Goto, PcStates
    <2> QED
      BY <1>8, <2>1 DEF NoEvents, workVars, laneVars
  <1>9. CASE Unlock(p)
    <2>1. ProducersOK'
      BY <1>9 DEF Unlock, ProducersOK, Goto, PcStates
    <2>2. LanesOK'
      BY <1>0, <1>9 DEF Unlock, LanesOK
    <2> QED
      BY <1>9, <2>1, <2>2 DEF Unlock, workVars, laneVars
  <1>10. CASE StartWorker(p)
    <2> USE <1>10 DEF StartWorker, StartWhen
    <2>1. ProducersOK'
      BY DEF ProducersOK, Goto, PcStates
    <2>2. LanesOK'
      BY <1>0 DEF LanesOK
    <2>3. [Idle EXCEPT !.pc = "check", !.lane = LaneOf[p]] \in WorkerRecord
      BY <1>0 DEF Idle, WorkerRecord
    <2>4. WorkersOK'
      BY <2>3 DEF WorkersOK
    <2> QED
      BY <2>1, <2>2, <2>4
  <1>11. CASE ProducerDone(p)
    <2>1. ProducersOK'
      BY <1>11 DEF ProducerDone, ProducersOK, Goto, PcStates
    <2> QED
      BY <1>11, <2>1 DEF ProducerDone, workVars, laneVars
  <1>12. CASE Flush(p)
    <2>1. ProducersOK'
      BY <1>12 DEF Flush, ProducersOK, Goto, PcStates
    <2>2. slots' \in [Lanes -> 0..Capacity]
      BY <1>0, <1>12, FreeSlotType DEF Flush, LanesOK
    <2>3. LanesOK'
      BY <1>12, <2>2 DEF Flush, LanesOK
    <2> QED
      BY <1>12, <2>1, <2>3 DEF Flush, workVars
  <1>13. CASE CancelRequest(p)
    <2>1. ProducersOK'
      BY <1>13 DEF CancelRequest, ProducersOK
    <2> QED
      BY <1>13, <2>1 DEF CancelRequest, workVars, laneVars
  <1> QED
    BY <1>1, <1>2, <1>3, <1>4, <1>5, <1>6, <1>7, <1>8, <1>9, <1>10, <1>11, <1>12, <1>13
    DEF Running

\* A worker at its work has a configuration, and a batch once it took one.
LEMMA WorkerShape ==
  ASSUME TypeOK, NEW w \in Workers
  PROVE  /\ wk[w] # Idle => wk[w].lane \in Lanes
         /\ wk[w].pc = "unused" <=> wk[w] = Idle
         /\ wk[w].pc \in {"publish", "close", "release"} =>
              wk[w] = [pc |-> wk[w].pc, lane |-> wk[w].lane, batch |-> wk[w].batch]
              /\ wk[w].batch \in Producers
         /\ wk[w].pc \in {"check", "exiting"} =>
              wk[w] = [pc |-> wk[w].pc, lane |-> wk[w].lane, batch |-> None]
  BY DEF TypeOK, WorkersOK, WorkerRecord, Idle

LEMMA WorkerType ==
  ASSUME TypeOK, NEW w \in Workers, Worker(w)
  PROVE  TypeOK'
  <1> USE UnchangedTypes DEF TypeOK
  <1> DEFINE l == wk[w].lane
  <1>0. wk[w] \in WorkerRecord /\ wk \in [Workers -> WorkerRecord]
    BY DEF WorkersOK
  <1>1. CASE TakeBatch(w)
    <2>1. l \in Lanes /\ wk[w] = [pc |-> "check", lane |-> l, batch |-> None]
      BY <1>1, WorkerShape DEF TakeBatch, Idle
    <2>2. queue[l] # <<>> => Head(queue[l]) \in Producers /\ Tail(queue[l]) \in Seq(Producers)
      BY <2>1 DEF LanesOK
    <2>3. LanesOK'
      BY <1>1, <2>1, <2>2 DEF TakeBatch, LanesOK
    <2>4. wk'[w] \in WorkerRecord
      BY <1>0, <1>1, <2>1, <2>2 DEF TakeBatch, WorkerRecord
    <2>5. WorkersOK'
      BY <1>0, <1>1, <2>4 DEF TakeBatch, WorkersOK
    <2> QED
      BY <1>1, <2>3, <2>5 DEF TakeBatch
  <1>2. CASE Publish(w)
    <2>1. l \in Lanes /\ wk[w] = [pc |-> "publish", lane |-> l, batch |-> wk[w].batch]
          /\ wk[w].batch \in Producers
      BY <1>2, WorkerShape DEF Publish, Idle
    <2>2. HistoryOK'
      BY <1>2, <2>1 DEF Publish, HistoryOK
    <2>3. wk'[w] \in WorkerRecord
      BY <1>0, <1>2, <2>1 DEF Publish, WorkerRecord
    <2>4. WorkersOK'
      BY <1>0, <1>2, <2>1, <2>3 DEF Publish, WorkersOK
    <2> QED
      BY <1>2, <2>2, <2>4 DEF Publish
  <1>3. CASE CloseBatch(w)
    <2>1. l \in Lanes /\ wk[w] = [pc |-> "close", lane |-> l, batch |-> wk[w].batch]
          /\ wk[w].batch \in Producers
      BY <1>3, WorkerShape DEF CloseBatch, Idle
    <2>2. wk'[w] \in WorkerRecord
      BY <1>0, <1>3, <2>1 DEF CloseBatch, WorkerRecord
    <2>3. WorkersOK'
      BY <1>0, <1>3, <2>1, <2>2 DEF CloseBatch, WorkersOK
    <2> QED
      BY <1>3, <2>3 DEF CloseBatch
  <1>4. CASE Release(w)
    <2>1. l \in Lanes /\ wk[w] = [pc |-> "release", lane |-> l, batch |-> wk[w].batch]
      BY <1>4, WorkerShape DEF Release, Idle
    <2>2. slots' \in [Lanes -> 0..Capacity]
      BY <1>4, <2>1, FreeSlotType DEF Release, LanesOK
    <2>3. LanesOK'
      BY <1>4, <2>2 DEF Release, LanesOK
    <2>4. wk'[w] \in WorkerRecord
      BY <1>0, <1>4, <2>1 DEF Release, WorkerRecord
    <2>5. WorkersOK'
      BY <1>0, <1>4, <2>4 DEF Release, WorkersOK
    <2> QED
      BY <1>4, <2>3, <2>5 DEF Release
  <1>5. CASE WorkerDone(w)
    <2>1. WorkersOK'
      BY <1>0, <1>5 DEF WorkerDone, WorkersOK, WorkerRecord
    <2> QED
      BY <1>5, <2>1 DEF WorkerDone
  <1> QED
    BY <1>1, <1>2, <1>3, <1>4, <1>5 DEF Worker

LEMMA CloserType ==
  ASSUME TypeOK, BeginClose \/ ProducersGone \/ WorkersGone \/ DrainTimeout
  PROVE  TypeOK'
  <1>1. ClosingOK'
    BY DEF TypeOK, ClosingOK, BeginClose, ProducersGone, WorkersGone, DrainTimeout,
           CloseStep, Closed
  <1> QED
    BY <1>1, UnchangedTypes
    DEF TypeOK, BeginClose, ProducersGone, WorkersGone, DrainTimeout, CloseStep, workVars

LEMMA NextType == TypeOK /\ [Next]_vars => TypeOK'
  <1>1. TypeOK /\ UNCHANGED vars => TypeOK'
    BY UnchangedTypes DEF TypeOK, vars, laneVars, workVars, shutVars
  <1> QED
    BY <1>1, ProducerType, WorkerType, CloserType DEF Next, Terminated

\* No interleaving of commands, workers and CloseDelivery takes a variable out
\* of its type; in particular no lane ever hands out more than Capacity slots.
THEOREM TypeCorrect == Spec => []TypeOK
  BY InitType, NextType, PTL DEF Spec

-----------------------------------------------------------------------------
(* One worker per lane *)

\* Only these steps touch a lane's queue, its worker or its history.
LEMMA LaneSteps ==
  ASSUME [Next]_vars
  PROVE  \/ \E p \in Producers : Enqueue(p) \/ StartWorker(p)
         \/ \E w \in Workers : Worker(w)
         \/ UNCHANGED <<wk, running, queue, generated, attempted>>
  BY DEF Next, Running, Enter, TakeSlot, GiveUp, Reserve, GiveBack, Lock, NoEvents,
         Unlock, ProducerDone, Flush, CancelRequest, BeginClose, ProducersGone,
         WorkersGone, DrainTimeout, CloseStep, Terminated, vars, laneVars, workVars

LEMMA OneWorkerInit == Init => OneWorker
  BY DEF Init, OneWorker, Delivering, Idle

LEMMA OneWorkerStep ==
  ASSUME TypeOK, OneWorker, [Next]_vars
  PROVE  OneWorker'
  <1>1. CASE \E p \in Producers : Enqueue(p)
    BY <1>1 DEF Enqueue, OneWorker, Delivering, workVars
  <1>2. CASE \E p \in Producers : StartWorker(p)
    <2>1. PICK p \in Producers : StartWorker(p)
      BY <1>2
    <2>2. CASE UNCHANGED <<running, wk>>
      BY <2>2 DEF OneWorker, Delivering
    <2>3. CASE ~UNCHANGED <<running, wk>>
      <3>1. LaneOf[p] \in Lanes
        BY DeliveryConstants DEF DeliveryConstants
      <3>2. PICK w \in Workers :
              /\ ~running[LaneOf[p]]
              /\ running' = [running EXCEPT ![LaneOf[p]] = TRUE]
              /\ wk[w] = Idle
              /\ wk' = [wk EXCEPT ![w] = [Idle EXCEPT !.pc = "check", !.lane = LaneOf[p]]]
        BY <2>1, <2>3 DEF StartWorker, StartWhen
      <3>3. wk'[w].pc = "check" /\ wk'[w].lane = LaneOf[p]
        BY <3>2 DEF TypeOK, WorkersOK, Idle
      <3>4. \A v \in Workers : v # w => wk'[v] = wk[v]
        BY <3>2 DEF TypeOK, WorkersOK
      <3>5. ~Delivering(w)
        BY <3>2 DEF Delivering, Idle
      <3>6. \A v \in Workers : Delivering(v) => wk[v].lane # LaneOf[p]
        BY <3>1, <3>2 DEF OneWorker
      <3>7. \A l \in Lanes : running'[l] <=> (l = LaneOf[p] \/ running[l])
        BY <3>1, <3>2 DEF TypeOK, LanesOK
      <3> QED
        BY <3>1, <3>3, <3>4, <3>5, <3>6, <3>7 DEF OneWorker, Delivering
    <2> QED
      BY <2>2, <2>3
  <1>3. CASE \E w \in Workers : Worker(w)
    <2>1. PICK w \in Workers : Worker(w)
      BY <1>3
    <2>2. CASE TakeBatch(w)
      <3>1. wk[w].lane \in Lanes /\ Delivering(w)
        BY <2>2, WorkerShape DEF TakeBatch, Delivering, Idle
      <3>2. \A v \in Workers : v # w => wk'[v] = wk[v]
        BY <2>2 DEF TakeBatch, TypeOK, WorkersOK
      <3>3. wk'[w].lane = wk[w].lane
        BY <2>2, WorkerShape DEF TakeBatch, TypeOK, WorkersOK
      <3>4. CASE queue[wk[w].lane] = <<>>
        <4>1. wk'[w].pc = "exiting"
          BY <2>2, <3>4, WorkerShape DEF TakeBatch, TypeOK, WorkersOK
        <4>2. \A l \in Lanes : running'[l] <=> (l # wk[w].lane /\ running[l])
          BY <2>2, <3>4, <3>1 DEF TakeBatch, TypeOK, LanesOK
        <4> QED
          BY <3>1, <3>2, <3>3, <4>1, <4>2 DEF OneWorker, Delivering
      <3>5. CASE queue[wk[w].lane] # <<>>
        <4>1. wk'[w].pc = "publish" /\ running' = running
          BY <2>2, <3>5, WorkerShape DEF TakeBatch, TypeOK, WorkersOK
        <4> QED
          BY <3>1, <3>2, <3>3, <4>1 DEF OneWorker, Delivering
      <3> QED
        BY <3>4, <3>5
    <2>3. CASE Publish(w) \/ CloseBatch(w) \/ Release(w) \/ WorkerDone(w)
      <3>1. running' = running
        BY <2>3 DEF Publish, CloseBatch, Release, WorkerDone, laneVars
      <3>2. \A v \in Workers : v # w => wk'[v] = wk[v]
        BY <2>3 DEF Publish, CloseBatch, Release, WorkerDone, TypeOK, WorkersOK
      <3>3. Delivering(w)' <=> Delivering(w)
        BY <2>3, WorkerShape
        DEF Publish, CloseBatch, Release, WorkerDone, Delivering, TypeOK, WorkersOK, Idle
      <3>4. Delivering(w) => wk'[w].lane = wk[w].lane
        BY <2>3, WorkerShape
        DEF Publish, CloseBatch, Release, WorkerDone, Delivering, TypeOK, WorkersOK
      <3> QED
        BY <3>1, <3>2, <3>3, <3>4 DEF OneWorker, Delivering
    <2> QED
      BY <2>1, <2>2, <2>3 DEF Worker
  <1>4. CASE UNCHANGED <<wk, running, queue, generated, attempted>>
    BY <1>4 DEF OneWorker, Delivering
  <1> QED
    BY <1>1, <1>2, <1>3, <1>4, LaneSteps

\* A lane never has two workers, and lane.running tells exactly whether it has
\* one: stopping a worker and starting the next do not race.
THEOREM OneWorkerAlways == Spec => []OneWorker
  <1>1. TypeOK /\ OneWorker /\ [Next]_vars => OneWorker'
    BY OneWorkerStep
  <1> QED
    BY <1>1, OneWorkerInit, TypeCorrect, PTL DEF Spec

-----------------------------------------------------------------------------
(* Order of publication *)

\* Publish moves a batch from the worker's hands to the history.
LEMMA PublishHistory ==
  ASSUME NEW a \in Seq(Producers), NEW b \in Producers
  PROVE  Append(a, b) = a \o <<b>>
  BY AppendIsConcat

\* Enqueue extends the generated batches and the queue alike.
LEMMA EnqueueHistory ==
  ASSUME NEW a \in Seq(Producers), NEW q \in Seq(Producers), NEW b \in Producers
  PROVE  Append(a \o q, b) = a \o Append(q, b)
  <1>1. Append(a \o q, b) = (a \o q) \o <<b>> /\ Append(q, b) = q \o <<b>>
    BY AppendIsConcat, ConcatProperties
  <1>2. <<b>> \in Seq(Producers)
    OBVIOUS
  <1> QED
    BY <1>1, <1>2, ConcatAssociative

\* TakeBatch moves the head of the queue to the worker's hands.
LEMMA TakeHistory ==
  ASSUME NEW a \in Seq(Producers), NEW q \in Seq(Producers), q # <<>>
  PROVE  a \o q = (a \o <<Head(q)>>) \o Tail(q)
  <1>1. Head(q) \in Producers /\ Tail(q) \in Seq(Producers)
    OBVIOUS
  <1>2. q = <<Head(q)>> \o Tail(q)
    BY <1>1
  <1>3. <<Head(q)>> \in Seq(Producers)
    BY <1>1
  <1> QED
    BY <1>1, <1>2, <1>3, ConcatAssociative

\* InGenerationOrder of one lane.
LaneInOrder(l) ==
  /\ \A w \in Workers :
       Publishing(w, l) => generated[l] = (attempted[l] \o <<wk[w].batch>>) \o queue[l]
  /\ (\A w \in Workers : ~Publishing(w, l)) => generated[l] = attempted[l] \o queue[l]

LEMMA LaneByLane == /\ InGenerationOrder <=> \A l \in Lanes : LaneInOrder(l)
                    /\ InGenerationOrder' <=> \A l \in Lanes : LaneInOrder(l)'
  BY Zenon DEF InGenerationOrder, LaneInOrder

\* A lane whose history, queue and publishing worker stay the same stays in
\* order.
LEMMA SameLane ==
  ASSUME NEW l \in Lanes, LaneInOrder(l),
         generated'[l] = generated[l], attempted'[l] = attempted[l], queue'[l] = queue[l],
         \A w \in Workers : \/ wk'[w] = wk[w]
                            \/ ~Publishing(w, l) /\ ~Publishing(w, l)'
  PROVE  LaneInOrder(l)'
  BY Zenon DEF LaneInOrder, Publishing

LEMMA OrderInit == Init => InGenerationOrder
  BY DEF Init, InGenerationOrder, Publishing, Idle

LEMMA OrderStep ==
  ASSUME TypeOK, OneWorker, InGenerationOrder, [Next]_vars
  PROVE  InGenerationOrder'
  <1>0. \A l \in Lanes : queue[l] \in Seq(Producers) /\ attempted[l] \in Seq(Producers)
    BY DEF TypeOK, LanesOK, HistoryOK
  <1>a. \A l \in Lanes : LaneInOrder(l)
    BY LaneByLane
  <1>1. ASSUME NEW p \in Producers, Enqueue(p) PROVE InGenerationOrder'
    <2> DEFINE k == LaneOf[p]
    <2>1. k \in Lanes
      BY DeliveryConstants DEF DeliveryConstants
    <2>2. /\ wk' = wk /\ attempted' = attempted
          /\ generated' = [generated EXCEPT ![k] = Append(@, p)]
          /\ queue' = [queue EXCEPT ![k] = Append(@, p)]
      BY <1>1 DEF Enqueue, workVars
    <2>3. \A l \in Lanes : l # k => generated'[l] = generated[l] /\ queue'[l] = queue[l]
      BY <2>2 DEF TypeOK, LanesOK, HistoryOK
    <2>4. generated'[k] = Append(generated[k], p) /\ queue'[k] = Append(queue[k], p)
      BY <2>1, <2>2 DEF TypeOK, LanesOK, HistoryOK
    <2>5. \A w \in Workers : Publishing(w, k) => wk[w].batch \in Producers
      BY WorkerShape DEF Publishing
    <2>6. ASSUME NEW w \in Workers, Publishing(w, k)
          PROVE  generated'[k] = (attempted[k] \o <<wk[w].batch>>) \o queue'[k]
      <3> DEFINE a == attempted[k] \o <<wk[w].batch>>
      <3>1. a \in Seq(Producers)
        BY <1>0, <2>1, <2>5, <2>6
      <3>2. generated[k] = a \o queue[k]
        BY <1>a, <2>1, <2>6, Zenon DEF LaneInOrder
      <3>3. Append(a \o queue[k], p) = a \o Append(queue[k], p)
        BY <1>0, <2>1, <3>1, EnqueueHistory
      <3> QED
        BY <2>4, <3>2, <3>3, Zenon
    <2>7. ASSUME \A w \in Workers : ~Publishing(w, k)
          PROVE  generated'[k] = attempted[k] \o queue'[k]
      <3>1. generated[k] = attempted[k] \o queue[k]
        BY <1>a, <2>1, <2>7, Zenon DEF LaneInOrder
      <3>2. Append(attempted[k] \o queue[k], p) = attempted[k] \o Append(queue[k], p)
        BY <1>0, <2>1, EnqueueHistory
      <3> QED
        BY <2>4, <3>1, <3>2, Zenon
    <2>8. LaneInOrder(k)'
      BY <2>2, <2>6, <2>7, Zenon DEF LaneInOrder, Publishing
    <2>9. ASSUME NEW l \in Lanes, l # k PROVE LaneInOrder(l)'
      BY <1>a, <2>2, <2>3, <2>9, SameLane, Zenon
    <2> QED
      BY <2>8, <2>9, LaneByLane, Zenon
  <1>2. ASSUME NEW p \in Producers, StartWorker(p) PROVE InGenerationOrder'
    <2>1. UNCHANGED <<queue, generated, attempted>>
      BY <1>2 DEF StartWorker, StartWhen
    <2>2. \A w \in Workers : wk'[w] = wk[w] \/ (wk[w] = Idle /\ wk'[w].pc = "check")
      BY <1>2 DEF StartWorker, StartWhen, TypeOK, WorkersOK, Idle
    <2>3. \A l \in Lanes, w \in Workers :
            wk'[w] = wk[w] \/ (~Publishing(w, l) /\ ~Publishing(w, l)')
      BY <2>2 DEF Publishing, Idle
    <2>4. ASSUME NEW l \in Lanes PROVE LaneInOrder(l)'
      BY <1>a, <2>1, <2>3, SameLane, Zenon
    <2> QED
      BY <2>4, LaneByLane, Zenon
  <1>3. ASSUME NEW w \in Workers, TakeBatch(w) PROVE InGenerationOrder'
    <2>1. PICK k \in Lanes : k = wk[w].lane /\ Delivering(w) /\ wk[w].pc = "check"
      BY <1>3, WorkerShape DEF TakeBatch, Delivering, Idle
    <2>2. \A v \in Workers : ~Publishing(v, k)
      BY <2>1 DEF OneWorker, Publishing, Delivering
    <2>3. generated[k] = attempted[k] \o queue[k]
      BY <1>a, <2>1, <2>2, Zenon DEF LaneInOrder
    <2>4. UNCHANGED <<generated, attempted>>
      BY <1>3 DEF TakeBatch
    <2>5. \A v \in Workers : v # w => wk'[v] = wk[v]
      BY <1>3 DEF TakeBatch, TypeOK, WorkersOK
    <2>6. wk'[w].lane = k
      BY <1>3, <2>1, WorkerShape DEF TakeBatch, TypeOK, WorkersOK
    <2>7. CASE queue[k] = <<>>
      <3>1. wk'[w].pc = "exiting" /\ queue' = queue
        BY <1>3, <2>1, <2>7, WorkerShape DEF TakeBatch, TypeOK, WorkersOK
      <3>2. \A v \in Workers : wk'[v] = wk[v] \/ \A l \in Lanes :
              ~Publishing(v, l) /\ ~Publishing(v, l)'
        BY <2>1, <2>5, <3>1 DEF Publishing
      <3>3. ASSUME NEW l \in Lanes PROVE LaneInOrder(l)'
        BY <1>a, <2>4, <3>1, <3>2, SameLane, Zenon
      <3> QED
        BY <3>3, LaneByLane, Zenon
    <2>8. CASE queue[k] # <<>>
      <3>1. wk'[w].pc = "publish" /\ wk'[w].batch = Head(queue[k])
        BY <1>3, <2>1, <2>8, WorkerShape DEF TakeBatch, TypeOK, WorkersOK
      <3>2. queue'[k] = Tail(queue[k]) /\ \A l \in Lanes : l # k => queue'[l] = queue[l]
        BY <1>3, <2>1, <2>8 DEF TakeBatch, TypeOK, LanesOK
      <3>3. Head(queue[k]) \in Producers
        BY <1>0, <2>1, <2>8
      <3>4. generated[k] = (attempted[k] \o <<Head(queue[k])>>) \o Tail(queue[k])
        BY <1>0, <2>1, <2>3, <2>8, TakeHistory
      <3>5. \A v \in Workers : Publishing(v, k)' => v = w
        BY <2>2, <2>5 DEF Publishing
      <3>6. Publishing(w, k)'
        BY <2>6, <3>1 DEF Publishing
      <3>7. LaneInOrder(k)'
        BY <2>4, <3>1, <3>2, <3>4, <3>5, <3>6, Zenon DEF LaneInOrder
      <3>8. ASSUME NEW l \in Lanes, l # k PROVE LaneInOrder(l)'
        <4>1. \A v \in Workers : wk'[v] = wk[v] \/ (~Publishing(v, l) /\ ~Publishing(v, l)')
          BY <2>1, <2>5, <2>6, <3>8 DEF Publishing
        <4> QED
          BY <1>a, <2>4, <3>2, <3>8, <4>1, SameLane, Zenon
      <3> QED
        BY <3>7, <3>8, LaneByLane, Zenon
    <2> QED
      BY <2>7, <2>8
  <1>4. ASSUME NEW w \in Workers, Publish(w) PROVE InGenerationOrder'
    <2>1. PICK k \in Lanes, b \in Producers :
            k = wk[w].lane /\ b = wk[w].batch /\ Delivering(w) /\ Publishing(w, k)
      BY <1>4, WorkerShape DEF Publish, Delivering, Publishing, Idle
    <2>2. UNCHANGED <<generated, queue>>
      BY <1>4 DEF Publish, laneVars
    <2>3. \A v \in Workers : v # w => wk'[v] = wk[v]
      BY <1>4 DEF Publish, TypeOK, WorkersOK
    <2>4. wk'[w].pc = "close" /\ wk'[w].lane = k
      BY <1>4, <2>1, WorkerShape DEF Publish, TypeOK, WorkersOK
    <2>5. attempted'[k] = Append(attempted[k], b)
          /\ \A l \in Lanes : l # k => attempted'[l] = attempted[l]
      BY <1>4, <2>1 DEF Publish, TypeOK, HistoryOK
    <2>6. generated[k] = (attempted[k] \o <<b>>) \o queue[k]
      BY <1>a, <2>1, Zenon DEF LaneInOrder
    <2>7. Append(attempted[k], b) = attempted[k] \o <<b>>
      BY <1>0, <2>1, PublishHistory
    <2>8. \A v \in Workers : ~Publishing(v, k)'
      BY <2>1, <2>3, <2>4 DEF OneWorker, Publishing, Delivering
    <2>9. LaneInOrder(k)'
      BY <2>2, <2>5, <2>6, <2>7, <2>8, Zenon DEF LaneInOrder
    <2>10. ASSUME NEW l \in Lanes, l # k PROVE LaneInOrder(l)'
      <3>1. \A v \in Workers : wk'[v] = wk[v] \/ (~Publishing(v, l) /\ ~Publishing(v, l)')
        BY <2>1, <2>3, <2>4, <2>10 DEF Publishing
      <3> QED
        BY <1>a, <2>2, <2>5, <2>10, <3>1, SameLane, Zenon
    <2> QED
      BY <2>9, <2>10, LaneByLane, Zenon
  <1>5. ASSUME NEW w \in Workers, CloseBatch(w) \/ Release(w) \/ WorkerDone(w)
        PROVE  InGenerationOrder'
    <2>1. UNCHANGED <<generated, queue, attempted>>
      BY <1>5 DEF CloseBatch, Release, WorkerDone, laneVars
    <2>2. \A v \in Workers : v # w => wk'[v] = wk[v]
      BY <1>5 DEF CloseBatch, Release, WorkerDone, TypeOK, WorkersOK
    <2>3. wk[w].pc # "publish" /\ wk'[w].pc # "publish"
      BY <1>5, WorkerShape DEF CloseBatch, Release, WorkerDone, TypeOK, WorkersOK, Idle
    <2>4. \A v \in Workers, l \in Lanes :
            wk'[v] = wk[v] \/ (~Publishing(v, l) /\ ~Publishing(v, l)')
      BY <2>2, <2>3 DEF Publishing
    <2>5. ASSUME NEW l \in Lanes PROVE LaneInOrder(l)'
      BY <1>a, <2>1, <2>4, SameLane, Zenon
    <2> QED
      BY <2>5, LaneByLane, Zenon
  <1>6. CASE UNCHANGED <<wk, running, queue, generated, attempted>>
    BY <1>6 DEF InGenerationOrder, Publishing
  <1> QED
    BY <1>1, <1>2, <1>3, <1>4, <1>5, <1>6, LaneSteps DEF Worker

\* Whatever the interleaving, the notifications of a configuration are
\* published in the order in which its commands changed state, each one once.
THEOREM OrderAlways == Spec => []InGenerationOrder
  <1>1. TypeOK /\ OneWorker /\ InGenerationOrder /\ [Next]_vars => InGenerationOrder'
    BY OrderStep
  <1> QED
    BY <1>1, OrderInit, TypeCorrect, OneWorkerAlways, PTL DEF Spec

-----------------------------------------------------------------------------
(* A clean CloseDelivery: a queued batch has somebody to deliver it. *)

LEMMA NoStrandedInit == Init => NoStrandedBatch
  BY DEF Init, NoStrandedBatch

\* A command that is about to start the worker of lane l.
AboutToStart(p, l) == p \in hasEvents /\ LaneOf[p] = l /\ pc[p] \in {"unlocking", "unlocked"}

LEMMA NoStrandedStep ==
  ASSUME TypeOK, NoStrandedBatch, [Next]_vars
  PROVE  NoStrandedBatch'
  <1> SUFFICES ASSUME NEW l \in Lanes, queue'[l] # <<>>
               PROVE  running'[l] \/ \E p \in Producers : AboutToStart(p, l)'
    <2>1. hasEvents' \subseteq Producers
      BY NextType DEF TypeOK, ProducersOK
    <2> QED
      BY <2>1 DEF NoStrandedBatch, AboutToStart
  <1>0. queue[l] # <<>> => running[l] \/ \E p \in Producers : AboutToStart(p, l)
    BY DEF NoStrandedBatch, AboutToStart, TypeOK, ProducersOK
  <1>1. ASSUME NEW p \in Producers, Enqueue(p)
        PROVE  running'[l] \/ \E q \in Producers : AboutToStart(q, l)'
    <2>1. CASE l = LaneOf[p]
      BY <1>1, <2>1 DEF Enqueue, Goto, AboutToStart, TypeOK, ProducersOK
    <2>2. CASE l # LaneOf[p]
      <3>1. queue'[l] = queue[l] /\ running' = running
        BY <1>1, <2>2 DEF Enqueue, TypeOK, LanesOK
      <3>2. \A q \in Producers : AboutToStart(q, l) => AboutToStart(q, l)'
        BY <1>1 DEF Enqueue, Goto, AboutToStart, TypeOK, ProducersOK
      <3> QED
        BY <1>0, <3>1, <3>2
    <2> QED
      BY <2>1, <2>2
  <1>2. ASSUME NEW p \in Producers, StartWorker(p)
        PROVE  running'[l] \/ \E q \in Producers : AboutToStart(q, l)'
    <2>1. queue' = queue
      BY <1>2 DEF StartWorker, StartWhen
    <2>2. running[l] => running'[l]
      BY <1>2 DEF StartWorker, StartWhen, TypeOK, LanesOK
    <2>3. \A q \in Producers : q # p /\ AboutToStart(q, l) => AboutToStart(q, l)'
      BY <1>2 DEF StartWorker, StartWhen, Goto, AboutToStart, TypeOK, ProducersOK
    <2>4. AboutToStart(p, l) => running'[l]
      BY <1>2 DEF StartWorker, StartWhen, AboutToStart, TypeOK, LanesOK
    <2> QED
      BY <1>0, <2>1, <2>2, <2>3, <2>4
  <1>3. ASSUME NEW w \in Workers, Worker(w)
        PROVE  running'[l] \/ \E q \in Producers : AboutToStart(q, l)'
    <2>1. \A q \in Producers : AboutToStart(q, l) => AboutToStart(q, l)'
      BY <1>3 DEF Worker, TakeBatch, Publish, CloseBatch, Release, WorkerDone, AboutToStart
    <2>2. queue[l] # <<>> /\ (running[l] => running'[l])
      <3>1. CASE TakeBatch(w)
        <4>1. wk[w].lane \in Lanes
          BY <3>1, WorkerShape DEF TakeBatch, Idle
        <4> QED
          BY <3>1, <4>1 DEF TakeBatch, TypeOK, LanesOK
      <3>2. CASE ~TakeBatch(w)
        BY <1>3, <3>2 DEF Worker, Publish, CloseBatch, Release, WorkerDone, laneVars
      <3> QED
        BY <3>1, <3>2
    <2> QED
      BY <1>0, <2>1, <2>2
  <1>4. ASSUME NEW p \in Producers, Unlock(p)
        PROVE  running'[l] \/ \E q \in Producers : AboutToStart(q, l)'
    <2>1. UNCHANGED <<queue, running>>
      BY <1>4 DEF Unlock
    <2>2. \A q \in Producers : AboutToStart(q, l) => AboutToStart(q, l)'
      BY <1>4 DEF Unlock, Goto, AboutToStart, TypeOK, ProducersOK
    <2> QED
      BY <1>0, <2>1, <2>2
  <1>5. ASSUME NEW p \in Producers,
               \/ Enter(p) \/ TakeSlot(p) \/ GiveUp(p) \/ Reserve(p) \/ GiveBack(p) \/ Lock(p)
               \/ NoEvents(p) \/ ProducerDone(p) \/ Flush(p) \/ CancelRequest(p)
        PROVE  running'[l] \/ \E q \in Producers : AboutToStart(q, l)'
    <2>1. UNCHANGED <<queue, running, hasEvents>>
      BY <1>5 DEF Enter, TakeSlot, GiveUp, Reserve, GiveBack, Lock, NoEvents, ProducerDone,
                  Flush, CancelRequest, laneVars
    <2>2. \A q \in Producers : q # p => pc'[q] = pc[q]
      BY <1>5 DEF Enter, TakeSlot, GiveUp, Reserve, GiveBack, Lock, NoEvents, ProducerDone,
                  Flush, CancelRequest, Goto, TypeOK, ProducersOK
    <2>3. pc'[p] = pc[p] \/ pc[p] \notin {"unlocking", "unlocked"}
      BY <1>5 DEF Enter, TakeSlot, GiveUp, Reserve, GiveBack, Lock, NoEvents, ProducerDone,
                  Flush, CancelRequest
    <2> QED
      BY <1>0, <2>1, <2>2, <2>3 DEF AboutToStart
  <1>6. CASE UNCHANGED <<queue, running, hasEvents, pc>>
    BY <1>0, <1>6 DEF AboutToStart
  <1>7. BeginClose \/ ProducersGone \/ WorkersGone \/ DrainTimeout \/ UNCHANGED vars
        => UNCHANGED <<queue, running, hasEvents, pc>>
    BY DEF BeginClose, ProducersGone, WorkersGone, DrainTimeout, CloseStep, vars, laneVars
  <1> QED
    BY <1>1, <1>2, <1>3, <1>4, <1>5, <1>6, <1>7 DEF Next, Running, Terminated

\* A queued batch is never left without a worker or a command that is about to
\* start one.
THEOREM NoStrandedAlways == Spec => []NoStrandedBatch
  <1>1. TypeOK /\ NoStrandedBatch /\ [Next]_vars => NoStrandedBatch'
    BY NoStrandedStep
  <1> QED
    BY <1>1, NoStrandedInit, TypeCorrect, PTL DEF Spec

-----------------------------------------------------------------------------
(* The WaitGroups *)

\* The workers that count in deliveryWorkers.
Busy == {w \in Workers : wk[w] # Idle}

\* CloseDelivery first refuses new commands.
ClosedFirst == closer \notin {"idle", "nothing"} => closed

LEMMA FiniteParts ==
  IsFiniteSet(Reserved) /\ IsFiniteSet(Reserved') /\ IsFiniteSet(Busy) /\ IsFiniteSet(Busy')
  <1>1. Reserved \subseteq Producers /\ Reserved' \subseteq Producers
    BY DEF Reserved
  <1>2. Busy \subseteq Workers /\ Busy' \subseteq Workers
    BY DEF Busy
  <1> QED
    BY <1>1, <1>2, DeliveryConstants, FS_Subset DEF DeliveryConstants

LEMMA DrainInit == Init => DrainSound /\ ClosedFirst
  <1> SUFFICES ASSUME Init PROVE DrainSound /\ ClosedFirst
    OBVIOUS
  <1>1. Reserved = {} /\ {w \in Workers : wk[w] # Idle} = {}
    BY DEF Init, Reserved
  <1> QED
    BY <1>1, FS_EmptySet DEF Init, DrainSound, ClosedFirst

LEMMA ClosedFirstStep ==
  ASSUME ClosedFirst, [Next]_vars
  PROVE  ClosedFirst'
  BY DEF ClosedFirst, Next, Running, Enter, TakeSlot, GiveUp, Reserve, GiveBack, Lock,
         Enqueue, NoEvents, Unlock, StartWorker, StartWhen, ProducerDone, Flush,
         CancelRequest, Worker, TakeBatch, Publish, CloseBatch, Release, WorkerDone,
         BeginClose, ProducersGone, WorkersGone, DrainTimeout, CloseStep, Terminated,
         vars, shutVars

\* How a step changes the set of commands CloseDelivery waits for.
LEMMA ReservedSteps ==
  ASSUME TypeOK, [Next]_vars
  PROVE  \/ Reserved' = Reserved /\ inFlight' = inFlight
         \/ \E p \in Producers : /\ ~closed /\ UNCHANGED closer
                                 /\ p \notin Reserved /\ Reserved' = Reserved \cup {p}
                                 /\ inFlight' = inFlight + 1
         \/ \E p \in Producers : /\ UNCHANGED closer
                                 /\ p \in Reserved /\ Reserved' = Reserved \ {p}
                                 /\ inFlight' = inFlight - 1
  <1> DEFINE R == {"reserved", "locked", "unlocking", "unlocked", "started"}
  <1>1. ASSUME NEW p \in Producers, Reserve(p), ~closed
        PROVE  /\ UNCHANGED closer /\ inFlight' = inFlight + 1
               /\ p \notin Reserved /\ Reserved' = Reserved \cup {p}
    BY <1>1 DEF Reserve, Goto, Reserved, TypeOK, ProducersOK, shutVars
  <1>2. ASSUME NEW p \in Producers, ProducerDone(p)
        PROVE  /\ UNCHANGED closer /\ inFlight' = inFlight - 1
               /\ p \in Reserved /\ Reserved' = Reserved \ {p}
    BY <1>2 DEF ProducerDone, Goto, Reserved, TypeOK, ProducersOK, shutVars
  <1>3. ASSUME NEW p \in Producers,
               \/ Enter(p) \/ TakeSlot(p) \/ GiveUp(p) \/ GiveBack(p) \/ Lock(p)
               \/ Enqueue(p) \/ NoEvents(p) \/ Unlock(p) \/ StartWorker(p) \/ Flush(p)
               \/ (Reserve(p) /\ closed)
        PROVE  Reserved' = Reserved /\ inFlight' = inFlight
    <2>1. /\ inFlight' = inFlight
          /\ \E label \in PcStates : Goto(p, label) /\ (pc[p] \in R <=> label \in R)
      BY <1>3 DEF Enter, TakeSlot, GiveUp, GiveBack, Lock, Enqueue, NoEvents, Unlock,
                  StartWorker, StartWhen, Flush, Reserve, PcStates
    <2> QED
      BY <2>1 DEF Goto, Reserved, TypeOK, ProducersOK
  <1>4. UNCHANGED <<pc, inFlight>> => Reserved' = Reserved /\ inFlight' = inFlight
    BY DEF Reserved
  <1>5. ASSUME NEW w \in Workers, Worker(w) PROVE UNCHANGED <<pc, inFlight>>
    BY <1>5 DEF Worker, TakeBatch, Publish, CloseBatch, Release, WorkerDone
  <1>6. ASSUME NEW p \in Producers, CancelRequest(p) PROVE UNCHANGED <<pc, inFlight>>
    BY <1>6 DEF CancelRequest
  <1>7. BeginClose \/ ProducersGone \/ WorkersGone \/ DrainTimeout \/ UNCHANGED vars
        => UNCHANGED <<pc, inFlight>>
    BY DEF BeginClose, ProducersGone, WorkersGone, DrainTimeout, CloseStep, vars
  <1> QED
    BY <1>1, <1>2, <1>3, <1>4, <1>5, <1>6, <1>7 DEF Next, Running, Terminated

\* How a step changes the set of workers CloseDelivery waits for.
LEMMA BusySteps ==
  ASSUME TypeOK, [Next]_vars
  PROVE  \/ Busy' = Busy /\ alive' = alive
         \/ \E w \in Workers : w \notin Busy /\ Busy' = Busy \cup {w} /\ alive' = alive + 1
         \/ \E w \in Workers : w \in Busy /\ Busy' = Busy \ {w} /\ alive' = alive - 1
  <1>1. ASSUME NEW p \in Producers, StartWorker(p)
        PROVE  \/ Busy' = Busy /\ alive' = alive
               \/ \E w \in Workers : w \notin Busy /\ Busy' = Busy \cup {w} /\ alive' = alive + 1
    <2>1. [Idle EXCEPT !.pc = "check", !.lane = LaneOf[p]] # Idle
      BY DEF Idle
    <2>2. CASE UNCHANGED <<running, alive, wk>>
      BY <2>2 DEF Busy
    <2>3. CASE ~UNCHANGED <<running, alive, wk>>
      <3>1. PICK w \in Workers :
              /\ alive' = alive + 1 /\ wk[w] = Idle
              /\ wk' = [wk EXCEPT ![w] = [Idle EXCEPT !.pc = "check", !.lane = LaneOf[p]]]
        BY <1>1, <2>3 DEF StartWorker, StartWhen
      <3>2. wk'[w] # Idle /\ \A v \in Workers : v # w => wk'[v] = wk[v]
        BY <2>1, <3>1 DEF TypeOK, WorkersOK
      <3> QED
        BY <3>1, <3>2 DEF Busy
    <2> QED
      BY <2>2, <2>3
  <1>2. ASSUME NEW w \in Workers, WorkerDone(w)
        PROVE  w \in Busy /\ Busy' = Busy \ {w} /\ alive' = alive - 1
    BY <1>2 DEF WorkerDone, Busy, TypeOK, WorkersOK, Idle
  <1>3. ASSUME NEW w \in Workers, TakeBatch(w) \/ Publish(w) \/ CloseBatch(w) \/ Release(w)
        PROVE  Busy' = Busy /\ alive' = alive
    <2>1. alive' = alive /\ \A v \in Workers : v # w => wk'[v] = wk[v]
      BY <1>3 DEF TakeBatch, Publish, CloseBatch, Release, TypeOK, WorkersOK
    <2>2. wk[w].pc # "unused" /\ wk'[w].pc # "unused"
      BY <1>3, WorkerShape DEF TakeBatch, Publish, CloseBatch, Release, TypeOK, WorkersOK
    <2>3. wk[w] # Idle /\ wk'[w] # Idle
      BY <2>2 DEF Idle
    <2> QED
      BY <2>1, <2>3 DEF Busy
  <1>4. ASSUME NEW p \in Producers, (Enter(p) \/ Running(p) \/ CancelRequest(p)), ~StartWorker(p)
        PROVE  Busy' = Busy /\ alive' = alive
    BY <1>4 DEF Running, Enter, TakeSlot, GiveUp, Reserve, GiveBack, Lock, Enqueue, NoEvents,
                Unlock, ProducerDone, Flush, CancelRequest, workVars, Busy
  <1>5. BeginClose \/ ProducersGone \/ WorkersGone \/ DrainTimeout \/ UNCHANGED vars
        => Busy' = Busy /\ alive' = alive
    BY DEF BeginClose, ProducersGone, WorkersGone, DrainTimeout, CloseStep, vars, workVars, Busy
  <1> QED
    BY <1>1, <1>2, <1>3, <1>4, <1>5 DEF Next, Worker, Terminated

LEMMA DrainStep ==
  ASSUME TypeOK, DrainSound, ClosedFirst, [Next]_vars
  PROVE  DrainSound'
  <1> DEFINE Waiting == {"workers", "stopping", "clean", "late"}
  <1>0. /\ inFlight = Cardinality(Reserved) /\ alive = Cardinality(Busy)
        /\ closer \in Waiting => Reserved = {}
    BY DEF DrainSound, Busy
  <1>1. inFlight' = Cardinality(Reserved')
    BY <1>0, ReservedSteps, FiniteParts, FS_AddElement, FS_RemoveElement
  <1>2. alive' = Cardinality(Busy')
    BY <1>0, BusySteps, FiniteParts, FS_AddElement, FS_RemoveElement
  <1>3. ASSUME closer' \in Waiting PROVE Reserved' = {}
    <2>1. CASE closer \in Waiting
      BY <1>0, <2>1, ReservedSteps DEF ClosedFirst
    <2>2. CASE closer \notin Waiting
      <3>1. ProducersGone
        BY <1>3, <2>2
        DEF Next, Running, Enter, TakeSlot, GiveUp, Reserve, GiveBack, Lock,
            Enqueue, NoEvents, Unlock, StartWorker, StartWhen, ProducerDone, Flush,
            CancelRequest, Worker, TakeBatch, Publish, CloseBatch, Release, WorkerDone,
            BeginClose, WorkersGone, DrainTimeout, CloseStep, Terminated, vars, shutVars
      <3>2. inFlight = 0 /\ Reserved' = Reserved
        BY <3>1 DEF ProducersGone, CloseStep, Reserved
      <3> QED
        BY <1>0, <3>2, FiniteParts, FS_EmptySet
    <2> QED
      BY <2>1, <2>2
  <1> QED
    BY <1>1, <1>2, <1>3 DEF DrainSound, Busy

\* Both WaitGroups are exact, and once CloseDelivery waits for the workers no
\* command is left that could add to what it waits for.
THEOREM DrainSoundAlways == Spec => []DrainSound
  <1>1. TypeOK /\ DrainSound /\ ClosedFirst /\ [Next]_vars => DrainSound' /\ ClosedFirst'
    BY DrainStep, ClosedFirstStep
  <1> QED
    BY <1>1, DrainInit, TypeCorrect, PTL DEF Spec

-----------------------------------------------------------------------------
(* A clean close *)

\* Deliveries are not cut off before CloseDelivery gives up, and after a clean
\* close no worker is left.
CutOffLast ==
  /\ closer \in {"idle", "nothing", "producers", "workers"} => ~stopped /\ cutOff = {}
  /\ closer = "clean" => cutOff = {} /\ Busy = {}

\* Nothing that was generated is forgotten: a batch is queued, in the hands of
\* a worker, or done.
Queued(p) == \E l \in Lanes : \E i \in 1..Len(queue[l]) : queue[l][i] = p

Accounted == \A p \in hasEvents :
               p \in doneBatch \/ Queued(p) \/ \E w \in Workers : wk[w].batch = p

\* A worker gives its slot back for a batch that is done.
ReleasedLast == \A w \in Workers : wk[w].pc = "release" => wk[w].batch \in doneBatch

LEMMA CleanInit == Init => CutOffLast /\ Accounted /\ ReleasedLast
  <1>1. Init => CutOffLast /\ Accounted
    BY DEF Init, CutOffLast, Accounted
  <1>2. Init => ReleasedLast
    BY DEF Init, ReleasedLast, Idle
  <1> QED
    BY <1>1, <1>2

\* Only Publish cuts a batch off, and only a worker publishes.
LEMMA CutOffSteps ==
  ASSUME TypeOK, [Next]_vars
  PROVE  \/ cutOff' = cutOff
         \/ stopped /\ closer' = closer /\ Busy # {}
  <1>1. ASSUME NEW w \in Workers, Publish(w)
        PROVE  cutOff' = cutOff \/ (stopped /\ closer' = closer /\ Busy # {})
    BY <1>1 DEF Publish, Busy, Idle, shutVars
  <1>2. ASSUME NEW w \in Workers, Worker(w), ~Publish(w)
        PROVE  cutOff' = cutOff
    BY <1>2 DEF Worker, TakeBatch, CloseBatch, Release, WorkerDone
  <1>3. ASSUME NEW p \in Producers, Enter(p) \/ Running(p) \/ CancelRequest(p)
        PROVE  cutOff' = cutOff
    BY <1>3 DEF Running, Enter, TakeSlot, GiveUp, Reserve, GiveBack, Lock, Enqueue, NoEvents,
                Unlock, StartWorker, StartWhen, ProducerDone, Flush, CancelRequest, workVars
  <1>4. BeginClose \/ ProducersGone \/ WorkersGone \/ DrainTimeout \/ UNCHANGED vars
        => cutOff' = cutOff
    BY DEF BeginClose, ProducersGone, WorkersGone, DrainTimeout, CloseStep, vars, workVars
  <1> QED
    BY <1>1, <1>2, <1>3, <1>4 DEF Next, Terminated

\* CloseDelivery alone moves closer and stopped.
LEMMA CloserSteps ==
  ASSUME [Next]_vars
  PROVE  \/ UNCHANGED <<closer, stopped>>
         \/ BeginClose \/ ProducersGone \/ WorkersGone \/ DrainTimeout
  BY DEF Next, Running, Enter, TakeSlot, GiveUp, Reserve, GiveBack, Lock, Enqueue, NoEvents,
         Unlock, StartWorker, StartWhen, ProducerDone, Flush, CancelRequest, Worker,
         TakeBatch, Publish, CloseBatch, Release, WorkerDone, Terminated, vars, shutVars

LEMMA CutOffStep ==
  ASSUME TypeOK, DrainSound, CutOffLast, [Next]_vars
  PROVE  CutOffLast'
  <1>0. alive = Cardinality(Busy) /\ (closer = "clean" => Reserved = {})
    BY DEF DrainSound, Busy
  <1>1. CASE UNCHANGED <<closer, stopped>>
    <2>1. ASSUME closer = "clean" PROVE Busy' = {}
      <3>1. Busy = {} /\ Reserved = {}
        BY <1>0, <2>1 DEF CutOffLast
      <3>2. \A p \in Producers : ~StartWorker(p)
        BY <3>1 DEF StartWorker, StartWhen, Reserved
      <3>3. \A w \in Workers : wk[w] = Idle
        BY <3>1 DEF Busy
      <3>4. \A w \in Workers : ~Worker(w)
        BY <3>3 DEF Worker, TakeBatch, Publish, CloseBatch, Release, WorkerDone, Idle
      <3>5. wk' = wk
        BY <3>2, <3>4, LaneSteps DEF Enqueue, workVars
      <3> QED
        BY <3>1, <3>5 DEF Busy
    <2> QED
      BY <1>1, <2>1, CutOffSteps DEF CutOffLast
  <1>2. CASE BeginClose \/ ProducersGone \/ DrainTimeout
    <2>1. stopped \in BOOLEAN
      BY DEF TypeOK, ClosingOK
    <2>2. CASE BeginClose
      BY <2>2 DEF BeginClose, CutOffLast, workVars
    <2>3. CASE ProducersGone
      BY <2>1, <2>3 DEF ProducersGone, CloseStep, CutOffLast, workVars
    <2>4. CASE DrainTimeout
      BY <2>4 DEF DrainTimeout, CloseStep, CutOffLast
    <2> QED
      BY <1>2, <2>2, <2>3, <2>4
  <1>3. CASE WorkersGone
    <2>1. Busy = {} /\ Busy' = Busy /\ cutOff' = cutOff
      BY <1>0, <1>3, FiniteParts, FS_EmptySet DEF WorkersGone, CloseStep, Busy, workVars
    <2> QED
      BY <1>3, <2>1 DEF WorkersGone, CloseStep, CutOffLast
  <1> QED
    BY <1>1, <1>2, <1>3, CloserSteps

\* Outside a delivery a worker holds no batch.
LEMMA EmptyHanded ==
  ASSUME TypeOK, NEW w \in Workers
  PROVE  /\ wk[w].pc \in {"unused", "check", "exiting"} => wk[w].batch = None
         /\ wk[w].pc # "unused" => wk[w].lane \in Lanes
  BY DEF TypeOK, WorkersOK, WorkerRecord, Idle

\* A step keeps the account when it keeps the batches and their queues and
\* a worker lets go only of what is done.
LEMMA AccountedFrame ==
  ASSUME TypeOK, Accounted, UNCHANGED <<queue, hasEvents>>,
         doneBatch \subseteq doneBatch',
         \A w \in Workers : \/ wk[w].batch = None
                           \/ wk'[w].batch = wk[w].batch
                           \/ wk[w].batch \in doneBatch
  PROVE  Accounted'
  <1>1. SUFFICES ASSUME NEW p \in hasEvents
                 PROVE  p \in doneBatch' \/ Queued(p)' \/ \E w \in Workers : wk'[w].batch = p
    BY DEF Accounted
  <1>2. p # None
    BY DeliveryConstants DEF DeliveryConstants, TypeOK, ProducersOK
  <1>3. CASE p \in doneBatch
    BY <1>3
  <1>4. CASE Queued(p)
    BY <1>4 DEF Queued
  <1>5. CASE \E w \in Workers : wk[w].batch = p
    <2>1. PICK w \in Workers : wk[w].batch = p
      BY <1>5
    <2> QED
      BY <1>2, <2>1
  <1> QED
    BY <1>1, <1>3, <1>4, <1>5 DEF Accounted

\* The steps that move a batch.
LEMMA BatchSteps ==
  ASSUME [Next]_vars
  PROVE  \/ \E p \in Producers : Enqueue(p) \/ StartWorker(p)
         \/ \E w \in Workers : \/ TakeBatch(w) \/ Publish(w) \/ CloseBatch(w)
                              \/ Release(w) \/ WorkerDone(w)
         \/ UNCHANGED <<queue, hasEvents, doneBatch, wk>>
  BY DEF Next, Running, Enter, TakeSlot, GiveUp, Reserve, GiveBack, Lock, NoEvents, Unlock,
         ProducerDone, Flush, CancelRequest, Worker, BeginClose, ProducersGone,
         WorkersGone, DrainTimeout, CloseStep, Terminated, vars, laneVars, workVars

LEMMA ReleasedStep ==
  ASSUME TypeOK, ReleasedLast, [Next]_vars
  PROVE  ReleasedLast'
  <1>1. ASSUME NEW p \in Producers, Enqueue(p) \/ StartWorker(p) PROVE ReleasedLast'
    BY <1>1 DEF Enqueue, StartWorker, StartWhen, ReleasedLast, Idle, workVars, TypeOK, WorkersOK
  <1>2. ASSUME NEW w \in Workers,
               TakeBatch(w) \/ Publish(w) \/ CloseBatch(w) \/ Release(w) \/ WorkerDone(w)
        PROVE  ReleasedLast'
    <2>1. doneBatch \subseteq doneBatch' /\ \A v \in Workers : v # w => wk'[v] = wk[v]
      BY <1>2 DEF TakeBatch, Publish, CloseBatch, Release, WorkerDone, TypeOK, WorkersOK
    <2>2. wk'[w].pc = "release" => wk'[w].batch \in doneBatch'
      BY <1>2, WorkerShape DEF TakeBatch, Publish, CloseBatch, Release, WorkerDone, Idle,
                               TypeOK, WorkersOK
    <2> QED
      BY <2>1, <2>2 DEF ReleasedLast
  <1> QED
    BY <1>1, <1>2, BatchSteps DEF ReleasedLast

LEMMA AccountedStep ==
  ASSUME TypeOK, Accounted, ReleasedLast, [Next]_vars
  PROVE  Accounted'
  <1>1. ASSUME NEW p \in Producers, Enqueue(p) PROVE Accounted'
    <2>1. PICK k \in Lanes : k = LaneOf[p]
      BY DeliveryConstants DEF DeliveryConstants
    <2>2. queue'[k] = Append(queue[k], p) /\ \A l \in Lanes : l # k => queue'[l] = queue[l]
      BY <1>1, <2>1 DEF Enqueue, TypeOK, LanesOK
    <2>3. queue[k] \in Seq(Producers)
      BY DEF TypeOK, LanesOK
    <2>4. /\ Len(queue'[k]) = Len(queue[k]) + 1
          /\ queue'[k][Len(queue[k]) + 1] = p
          /\ \A i \in 1..Len(queue[k]) : queue'[k][i] = queue[k][i]
      BY <2>2, <2>3
    <2>5. Len(queue[k]) \in Nat
      BY <2>3
    <2>6. Queued(p)'
      BY <2>4, <2>5 DEF Queued
    <2>7. ASSUME NEW q, Queued(q) PROVE Queued(q)'
      BY <2>2, <2>4, <2>5, <2>7 DEF Queued
    <2>8. hasEvents' = hasEvents \cup {p} /\ doneBatch' = doneBatch /\ wk' = wk
      BY <1>1 DEF Enqueue, workVars
    <2> QED
      BY <2>6, <2>7, <2>8 DEF Accounted
  <1>2. ASSUME NEW p \in Producers, StartWorker(p) PROVE Accounted'
    <2>1. UNCHANGED <<queue, hasEvents, doneBatch>>
      BY <1>2 DEF StartWorker, StartWhen
    <2>2. \A w \in Workers : wk[w] = Idle \/ wk'[w] = wk[w]
      BY <1>2 DEF StartWorker, StartWhen, TypeOK, WorkersOK
    <2>3. Idle.batch = None
      BY DEF Idle
    <2> QED
      BY <2>1, <2>2, <2>3, AccountedFrame
  <1>3. ASSUME NEW w \in Workers, TakeBatch(w) PROVE Accounted'
    <2>1. PICK k \in Lanes : k = wk[w].lane /\ wk[w].batch = None
      BY <1>3, EmptyHanded DEF TakeBatch
    <2>2. UNCHANGED <<hasEvents, doneBatch>> /\ \A v \in Workers : v # w => wk'[v] = wk[v]
      BY <1>3 DEF TakeBatch, TypeOK, WorkersOK
    <2>3. hasEvents \subseteq Producers /\ None \notin Producers
      BY DeliveryConstants DEF TypeOK, ProducersOK, DeliveryConstants
    <2>4. CASE queue[k] = <<>>
      BY <1>3, <2>1, <2>2, <2>3, <2>4 DEF TakeBatch, Accounted, Queued
    <2>5. CASE queue[k] # <<>>
      <3>1. wk'[w].batch = Head(queue[k])
        BY <1>3, <2>1, <2>5, WorkerShape DEF TakeBatch, TypeOK, WorkersOK
      <3>2. queue'[k] = Tail(queue[k]) /\ \A l \in Lanes : l # k => queue'[l] = queue[l]
        BY <1>3, <2>1, <2>5 DEF TakeBatch, TypeOK, LanesOK
      <3>3. queue[k] \in Seq(Producers) /\ Len(queue[k]) \in Nat
        BY DEF TypeOK, LanesOK
      <3>4. ASSUME NEW i \in 1..Len(queue[k]), i # 1
            PROVE  i - 1 \in 1..Len(queue'[k]) /\ queue'[k][i - 1] = queue[k][i]
        BY <2>5, <3>2, <3>3, <3>4
      <3>5. Head(queue[k]) = queue[k][1]
        BY <2>5, <3>3
      <3>6. ASSUME NEW q, Queued(q) PROVE Queued(q)' \/ wk'[w].batch = q
        <4>0. PICK l \in Lanes : \E j \in 1..Len(queue[l]) : queue[l][j] = q
          BY <3>6 DEF Queued
        <4>1. PICK i \in 1..Len(queue[l]) : queue[l][i] = q
          BY <4>0
        <4>2. CASE l # k
          BY <3>2, <4>1, <4>2 DEF Queued
        <4>3. CASE l = k /\ i = 1
          BY <3>1, <3>5, <4>1, <4>3
        <4>4. CASE l = k /\ i # 1
          <5>1. i - 1 \in 1..Len(queue'[k]) /\ queue'[k][i - 1] = q
            BY <3>4, <4>1, <4>4
          <5> QED
            BY <5>1 DEF Queued
        <4> QED
          BY <4>2, <4>3, <4>4
      <3> QED
        BY <2>1, <2>2, <2>3, <3>6 DEF Accounted
    <2> QED
      BY <2>4, <2>5
  <1>4. ASSUME NEW w \in Workers, Publish(w) \/ CloseBatch(w) PROVE Accounted'
    <2>1. UNCHANGED <<queue, hasEvents>> /\ doneBatch \subseteq doneBatch'
      BY <1>4 DEF Publish, CloseBatch, laneVars
    <2>2. \A v \in Workers : v # w => wk'[v] = wk[v]
      BY <1>4 DEF Publish, CloseBatch, TypeOK, WorkersOK
    <2>3. wk'[w].batch = wk[w].batch
      BY <1>4, WorkerShape DEF Publish, CloseBatch, TypeOK, WorkersOK
    <2> QED
      BY <2>1, <2>2, <2>3, AccountedFrame
  <1>5. ASSUME NEW w \in Workers, Release(w) \/ WorkerDone(w) PROVE Accounted'
    <2>1. UNCHANGED <<queue, hasEvents, doneBatch>>
      BY <1>5 DEF Release, WorkerDone, laneVars
    <2>2. \A v \in Workers : v # w => wk'[v] = wk[v]
      BY <1>5 DEF Release, WorkerDone, TypeOK, WorkersOK
    <2>3. wk[w].batch = None \/ wk[w].batch \in doneBatch
      BY <1>5, EmptyHanded DEF Release, WorkerDone, ReleasedLast
    <2> QED
      BY <2>1, <2>2, <2>3, AccountedFrame
  <1>6. CASE UNCHANGED <<queue, hasEvents, doneBatch, wk>>
    BY <1>6, AccountedFrame
  <1> QED
    BY <1>1, <1>2, <1>3, <1>4, <1>5, <1>6, BatchSteps

\* What the four invariants say together once CloseDelivery has reported
\* success: no worker means empty queues, so all that was generated is out.
LEMMA CleanFromParts ==
  ASSUME TypeOK, OneWorker, InGenerationOrder, NoStrandedBatch, DrainSound, CutOffLast,
         Accounted
  PROVE  CleanCloseDrains
  <1>1. SUFFICES ASSUME closer = "clean"
                 PROVE  attempted = generated /\ hasEvents \subseteq doneBatch /\ cutOff = {}
    BY DEF CleanCloseDrains
  <1>2. Reserved = {} /\ cutOff = {} /\ Busy = {}
    BY <1>1 DEF DrainSound, CutOffLast
  <1>3. \A w \in Workers : wk[w].pc = "unused" /\ wk[w].batch = None
    BY <1>2 DEF Busy, Idle
  <1>4. \A l \in Lanes : ~running[l]
    BY <1>3 DEF OneWorker, Delivering
  <1>5. \A p \in hasEvents : pc[p] \notin {"unlocking", "unlocked"}
    BY <1>2 DEF Reserved, TypeOK, ProducersOK
  <1>6. \A l \in Lanes : queue[l] = <<>>
    BY <1>4, <1>5 DEF NoStrandedBatch
  <1>7. ASSUME NEW l \in Lanes PROVE attempted[l] = generated[l]
    <2>1. \A w \in Workers : ~Publishing(w, l)
      BY <1>3 DEF Publishing
    <2>2. generated[l] = attempted[l] \o <<>>
      BY <1>6, <2>1 DEF InGenerationOrder
    <2>3. attempted[l] \in Seq(Producers)
      BY DEF TypeOK, HistoryOK
    <2> QED
      BY <2>2, <2>3, ConcatEmptySeq
  <1>8. attempted = generated
    BY <1>7 DEF TypeOK, HistoryOK
  <1>9. ASSUME NEW p \in hasEvents PROVE p \in doneBatch
    <2>1. ~Queued(p)
      BY <1>6 DEF Queued
    <2>2. p # None
      BY DeliveryConstants DEF DeliveryConstants, TypeOK, ProducersOK
    <2> QED
      BY <1>3, <2>1, <2>2 DEF Accounted
  <1> QED
    BY <1>2, <1>8, <1>9

LEMMA CleanParts == Spec => [](CutOffLast /\ Accounted /\ ReleasedLast)
  <1>1. /\ TypeOK /\ DrainSound /\ CutOffLast /\ Accounted /\ ReleasedLast /\ [Next]_vars
        => CutOffLast' /\ Accounted' /\ ReleasedLast'
    BY CutOffStep, AccountedStep, ReleasedStep
  <1> QED
    BY <1>1, CleanInit, TypeCorrect, DrainSoundAlways, PTL DEF Spec

\* A CloseDelivery that returns without error leaves nothing behind: every
\* notification was published with a live context and its command was told.
THEOREM CleanCloseAlways == Spec => []CleanCloseDrains
  <1>1. /\ TypeOK /\ OneWorker /\ InGenerationOrder /\ NoStrandedBatch /\ DrainSound
        /\ CutOffLast /\ Accounted
        => CleanCloseDrains
    BY CleanFromParts
  <1> QED
    BY <1>1, CleanParts, TypeCorrect, OneWorkerAlways, OrderAlways, NoStrandedAlways,
       DrainSoundAlways, PTL

-----------------------------------------------------------------------------
(* Where a batch can be: in at most one queue or one worker's hands, always of *)
(* its own configuration, and only after its command has changed state.  The  *)
(* account of the slots and the refinement of Outbox rest on it.               *)

Held(p) == \E w \in Workers : wk[w].batch = p

\* A batch comes into being under the lock, so its command is past it.
AfterLock == \A p \in hasEvents :
               pc[p] \in {"unlocking", "unlocked", "started", "flushing", "done"}

\* A queue holds batches of its own configuration, each once, and none that a
\* worker has taken.
QueuesPlaced ==
  \A l \in Lanes : \A i \in 1..Len(queue[l]) :
    /\ queue[l][i] \in hasEvents /\ LaneOf[queue[l][i]] = l
    /\ \A j \in 1..Len(queue[l]) : queue[l][i] = queue[l][j] => i = j
    /\ ~Held(queue[l][i])

\* A worker takes batches of its own configuration only.
WorkersPlaced ==
  \A w \in Workers : wk[w].batch # None =>
    wk[w].batch \in hasEvents /\ LaneOf[wk[w].batch] = wk[w].lane

Placed == AfterLock /\ QueuesPlaced /\ WorkersPlaced

\* What was generated came from a command that enqueued it.
GeneratedKnown ==
  \A l \in Lanes : \A i \in 1..Len(generated[l]) : generated[l][i] \in hasEvents

LEMMA AfterLockStep ==
  ASSUME TypeOK, AfterLock, [Next]_vars
  PROVE  AfterLock'
<1> DEFINE After == {"unlocking", "unlocked", "started", "flushing", "done"}
<1>1. ASSUME NEW p \in Producers, Enter(p) \/ Running(p), ~Enqueue(p)
      PROVE  AfterLock'
  <2>1. hasEvents' = hasEvents
    BY <1>1 DEF Running, Enter, TakeSlot, GiveUp, Reserve, GiveBack, Lock, NoEvents, Unlock,
                StartWorker, StartWhen, ProducerDone, Flush
  <2>2. pc[p] \in After => pc'[p] \in After
    BY <1>1 DEF Running, Enter, TakeSlot, GiveUp, Reserve, GiveBack, Lock, NoEvents, Unlock,
                StartWorker, StartWhen, ProducerDone, Flush, Goto, TypeOK, ProducersOK
  <2>3. \A q \in Producers : q # p => pc'[q] = pc[q]
    BY <1>1 DEF Running, Enter, TakeSlot, GiveUp, Reserve, GiveBack, Lock, NoEvents, Unlock,
                StartWorker, StartWhen, ProducerDone, Flush, Goto, TypeOK, ProducersOK
  <2>. QED
    BY <2>1, <2>2, <2>3 DEF AfterLock, TypeOK, ProducersOK
<1>2. ASSUME NEW p \in Producers, Enqueue(p) PROVE AfterLock'
  BY <1>2 DEF Enqueue, Goto, AfterLock, TypeOK, ProducersOK
<1>3. UNCHANGED <<pc, hasEvents>> => AfterLock'
  BY DEF AfterLock
<1>4. \A p \in Producers : CancelRequest(p) => UNCHANGED <<pc, hasEvents>>
  BY DEF CancelRequest
<1>5. \A w \in Workers : Worker(w) => UNCHANGED <<pc, hasEvents>>
  BY DEF Worker, TakeBatch, Publish, CloseBatch, Release, WorkerDone
<1>6. BeginClose \/ ProducersGone \/ WorkersGone \/ DrainTimeout \/ UNCHANGED vars
      => UNCHANGED <<pc, hasEvents>>
  BY DEF BeginClose, ProducersGone, WorkersGone, DrainTimeout, CloseStep, vars
<1>. QED
  BY <1>1, <1>2, <1>3, <1>4, <1>5, <1>6 DEF Next, Terminated

\* A worker takes a batch from its queue.
Takes(w) == TakeBatch(w) /\ queue[wk[w].lane] # <<>>

\* A worker that starts has no batch.
LEMMA StartMoves ==
  ASSUME TypeOK, NEW p \in Producers, StartWorker(p)
  PROVE  /\ UNCHANGED <<queue, hasEvents>>
         /\ \A w \in Workers : wk'[w] = wk[w] \/ (wk[w].batch = None /\ wk'[w].batch = None)
<1>1. UNCHANGED <<queue, hasEvents>>
  BY DEF StartWorker, StartWhen
<1>2. CASE wk' = wk
  BY <1>1, <1>2
<1>3. CASE wk' # wk
  <2>1. PICK w \in Workers :
          wk[w] = Idle /\ wk' = [wk EXCEPT ![w] = [Idle EXCEPT !.pc = "check", !.lane = LaneOf[p]]]
    BY <1>3 DEF StartWorker, StartWhen
  <2>2. wk[w].batch = None /\ wk'[w].batch = None
    BY <2>1 DEF Idle, TypeOK, WorkersOK
  <2>. QED
    BY <1>1, <2>1, <2>2 DEF TypeOK, WorkersOK
<1>. QED
  BY <1>2, <1>3

\* Only Enqueue, TakeBatch and Release move a batch.
LEMMA BatchMoves ==
  ASSUME TypeOK, [Next]_vars
  PROVE  \/ \E p \in Producers : Enqueue(p)
         \/ \E w \in Workers : Takes(w) \/ Release(w)
         \/ /\ UNCHANGED <<queue, hasEvents>>
            /\ \A w \in Workers : /\ wk'[w].batch = wk[w].batch
                                  /\ wk[w].batch # None => wk'[w].lane = wk[w].lane
<1>1. ASSUME NEW p \in Producers, StartWorker(p)
      PROVE  /\ UNCHANGED <<queue, hasEvents>>
             /\ \A w \in Workers : /\ wk'[w].batch = wk[w].batch
                                   /\ wk[w].batch # None => wk'[w].lane = wk[w].lane
  BY <1>1, StartMoves
<1>2. ASSUME NEW w \in Workers,
             (TakeBatch(w) /\ ~Takes(w)) \/ Publish(w) \/ CloseBatch(w) \/ WorkerDone(w)
      PROVE  /\ UNCHANGED <<queue, hasEvents>>
             /\ \A v \in Workers : /\ wk'[v].batch = wk[v].batch
                                   /\ wk[v].batch # None => wk'[v].lane = wk[v].lane
  <2>1. UNCHANGED <<queue, hasEvents>> /\ \A v \in Workers : v # w => wk'[v] = wk[v]
    BY <1>2 DEF TakeBatch, Takes, Publish, CloseBatch, WorkerDone, laneVars, TypeOK, WorkersOK
  <2>2. wk'[w].batch = wk[w].batch /\ (wk[w].batch # None => wk'[w].lane = wk[w].lane)
    BY <1>2, WorkerShape, EmptyHanded
    DEF TakeBatch, Takes, Publish, CloseBatch, WorkerDone, Idle, TypeOK, WorkersOK
  <2>. QED
    BY <2>1, <2>2
<1>. QED
  BY <1>1, <1>2, BatchSteps DEF Takes

\* A step that moves no batch keeps each of them where it is.
LEMMA PlacedFrame ==
  ASSUME QueuesPlaced, WorkersPlaced, UNCHANGED <<queue, hasEvents>>,
         \A w \in Workers : /\ wk'[w].batch = wk[w].batch
                            /\ wk[w].batch # None => wk'[w].lane = wk[w].lane
  PROVE  QueuesPlaced' /\ WorkersPlaced'
BY DEF QueuesPlaced, WorkersPlaced, Held

\* QueuesPlaced of one lane.
LEMMA QueuePlaced ==
  ASSUME Placed, NEW l \in Lanes
  PROVE  /\ \A i \in 1..Len(queue[l]) : /\ queue[l][i] \in hasEvents /\ LaneOf[queue[l][i]] = l
                                        /\ ~Held(queue[l][i])
         /\ \A i, j \in 1..Len(queue[l]) : queue[l][i] = queue[l][j] => i = j
BY DEF Placed, QueuesPlaced

\* A command that is about to enqueue has no batch yet.
LEMMA NotYet ==
  ASSUME TypeOK, Placed, NEW p \in Producers, pc[p] = "locked"
  PROVE  /\ p \notin hasEvents /\ ~Held(p)
         /\ \A l \in Lanes : \A i \in 1..Len(queue[l]) : queue[l][i] # p
BY DeliveryConstants DEF DeliveryConstants, Placed, AfterLock, QueuesPlaced, WorkersPlaced, Held

LEMMA PlacedEnqueue ==
  ASSUME TypeOK, Placed, NEW p \in Producers, Enqueue(p)
  PROVE  QueuesPlaced' /\ WorkersPlaced'
<1> DEFINE k == LaneOf[p]
<1>1. k \in Lanes /\ queue[k] \in Seq(Producers)
  BY DeliveryConstants DEF DeliveryConstants, TypeOK, LanesOK
<1>2. /\ hasEvents' = hasEvents \cup {p} /\ wk' = wk
      /\ queue'[k] = Append(queue[k], p) /\ \A l \in Lanes : l # k => queue'[l] = queue[l]
  BY <1>1 DEF Enqueue, workVars, TypeOK, LanesOK
<1>3. /\ Len(queue[k]) \in Nat /\ Len(queue'[k]) = Len(queue[k]) + 1
      /\ \A i \in 1..Len(queue[k]) : queue'[k][i] = queue[k][i]
      /\ queue'[k][Len(queue[k]) + 1] = p
  BY <1>1, <1>2
<1>0. /\ \A i \in 1..Len(queue[k]) : /\ queue[k][i] \in hasEvents /\ LaneOf[queue[k][i]] = k
                                     /\ ~Held(queue[k][i])
      /\ \A i, j \in 1..Len(queue[k]) : queue[k][i] = queue[k][j] => i = j
  BY <1>1, QueuePlaced
<1>4. /\ ~Held(p) /\ \A i \in 1..Len(queue[k]) : queue[k][i] # p
  BY <1>1, NotYet DEF Enqueue
<1>5. WorkersPlaced'
  BY <1>2 DEF Placed, WorkersPlaced
<1>6. ASSUME NEW l \in Lanes, NEW i \in 1..Len(queue'[l])
      PROVE  /\ queue'[l][i] \in hasEvents' /\ LaneOf[queue'[l][i]] = l
             /\ \A j \in 1..Len(queue'[l]) : queue'[l][i] = queue'[l][j] => i = j
             /\ ~Held(queue'[l][i])
  <2>1. CASE l # k
    BY <1>2, <1>6, <2>1 DEF Placed, QueuesPlaced
  <2>2. CASE l = k
    <3>1. i \in 1..Len(queue[k]) \/ i = Len(queue[k]) + 1
      BY <1>3, <1>6, <2>2
    <3>2. \A j \in 1..Len(queue'[k]) : j \in 1..Len(queue[k]) \/ j = Len(queue[k]) + 1
      BY <1>3
    <3>3. CASE i \in 1..Len(queue[k])
      <4>1. queue'[l][i] = queue[k][i]
        BY <1>3, <2>2, <3>3
      <4>2. \A j \in 1..Len(queue'[l]) : queue'[l][i] = queue'[l][j] => i = j
        BY <1>0, <1>3, <1>4, <2>2, <3>2, <3>3
      <4>. QED
        BY <1>0, <1>2, <2>2, <3>3, <4>1, <4>2
    <3>4. CASE i = Len(queue[k]) + 1
      BY <1>2, <1>3, <1>4, <2>2, <3>2, <3>4
    <3>. QED
      BY <3>1, <3>3, <3>4
  <2>. QED
    BY <2>1, <2>2
<1>7. Held(p) <=> Held(p)'
  BY <1>2 DEF Held
<1>. QED
  BY <1>2, <1>5, <1>6 DEF QueuesPlaced, Held

LEMMA PlacedTake ==
  ASSUME TypeOK, Placed, NEW w \in Workers, Takes(w)
  PROVE  QueuesPlaced' /\ WorkersPlaced'
<1> DEFINE k == wk[w].lane
<1>1. k \in Lanes /\ queue[k] \in Seq(Producers) /\ queue[k] # <<>> /\ wk[w].batch = None
  BY EmptyHanded DEF Takes, TakeBatch, TypeOK, LanesOK
<1>2. /\ hasEvents' = hasEvents
      /\ queue'[k] = Tail(queue[k]) /\ \A l \in Lanes : l # k => queue'[l] = queue[l]
      /\ \A v \in Workers : v # w => wk'[v] = wk[v]
  BY <1>1 DEF Takes, TakeBatch, TypeOK, LanesOK, WorkersOK
<1>3. wk'[w].batch = queue[k][1] /\ wk'[w].lane = k
  <2>1. wk'[w].batch = Head(queue[k]) /\ wk'[w].lane = k
    BY <1>1, WorkerShape DEF Takes, TakeBatch, TypeOK, WorkersOK
  <2>2. Head(queue[k]) = queue[k][1]
    BY <1>1
  <2>. QED
    BY <2>1, <2>2
<1>4. /\ Len(queue[k]) \in Nat \ {0} /\ Len(queue'[k]) = Len(queue[k]) - 1
      /\ \A i \in 1..Len(queue'[k]) : queue'[k][i] = queue[k][i + 1] /\ i + 1 \in 1..Len(queue[k])
  BY <1>1, <1>2, HeadTailProperties
<1>0. \A i, j \in 1..Len(queue[k]) : queue[k][i] = queue[k][j] => i = j
  BY <1>1, QueuePlaced
<1>5. /\ queue[k][1] \in hasEvents /\ LaneOf[queue[k][1]] = k /\ 1 \in 1..Len(queue[k])
  BY <1>1, <1>4 DEF Placed, QueuesPlaced
<1>6. WorkersPlaced'
  BY <1>2, <1>3, <1>5 DEF Placed, WorkersPlaced
<1>7. ASSUME NEW q, Held(q)' PROVE Held(q) \/ q = queue[k][1]
  BY <1>2, <1>3, <1>7 DEF Held
<1>8. ASSUME NEW l \in Lanes, NEW i \in 1..Len(queue'[l])
      PROVE  /\ queue'[l][i] \in hasEvents /\ LaneOf[queue'[l][i]] = l
             /\ \A j \in 1..Len(queue'[l]) : queue'[l][i] = queue'[l][j] => i = j
             /\ ~Held(queue'[l][i]) /\ queue'[l][i] # queue[k][1]
  <2>1. CASE l # k
    BY <1>2, <1>5, <1>8, <2>1 DEF Placed, QueuesPlaced
  <2>2. CASE l = k
    <3>1. queue'[k][i] = queue[k][i + 1] /\ i + 1 \in 1..Len(queue[k]) /\ i + 1 # 1 /\ i \in Nat
      BY <1>4, <1>8, <2>2
    <3>2. /\ queue[k][i + 1] \in hasEvents /\ LaneOf[queue[k][i + 1]] = k
          /\ ~Held(queue[k][i + 1]) /\ queue[k][i + 1] # queue[k][1]
      BY <1>1, <1>5, <3>1 DEF Placed, QueuesPlaced
    <3>3. ASSUME NEW j \in 1..Len(queue'[k]), queue'[k][i] = queue'[k][j] PROVE i = j
      <4>1. queue'[k][j] = queue[k][j + 1] /\ j + 1 \in 1..Len(queue[k]) /\ j \in Nat
        BY <1>4, <3>3
      <4>2. i + 1 = j + 1
        BY <1>0, <3>1, <3>3, <4>1
      <4>. QED
        BY <3>1, <4>1, <4>2
    <3>. QED
      BY <2>2, <3>1, <3>2, <3>3
  <2>. QED
    BY <2>1, <2>2
<1>. QED
  BY <1>2, <1>6, <1>7, <1>8 DEF QueuesPlaced

LEMMA PlacedRelease ==
  ASSUME TypeOK, Placed, NEW w \in Workers, Release(w)
  PROVE  QueuesPlaced' /\ WorkersPlaced'
<1>1. /\ UNCHANGED <<queue, hasEvents>> /\ wk'[w].batch = None
      /\ \A v \in Workers : v # w => wk'[v] = wk[v]
  BY WorkerShape DEF Release, TypeOK, WorkersOK
<1>2. hasEvents \subseteq Producers /\ None \notin Producers
  BY DeliveryConstants DEF DeliveryConstants, TypeOK, ProducersOK
<1>3. WorkersPlaced'
  BY <1>1 DEF Placed, WorkersPlaced
<1>4. \A q \in hasEvents : Held(q)' => Held(q)
  BY <1>1, <1>2 DEF Held
<1>. QED
  BY <1>1, <1>3, <1>4 DEF Placed, QueuesPlaced

LEMMA PlacedInit == Init => Placed
BY DEF Init, Placed, AfterLock, QueuesPlaced, WorkersPlaced, Idle

LEMMA PlacedStep == TypeOK /\ Placed /\ [Next]_vars => Placed'
BY AfterLockStep, BatchMoves, PlacedFrame, PlacedEnqueue, PlacedTake, PlacedRelease DEF Placed

LEMMA PlacedAlways == Spec => []Placed
BY PlacedInit, PlacedStep, TypeCorrect, PTL DEF Spec

-----------------------------------------------------------------------------
(* Slots *)

\* A command owns a slot from the select until it enqueues a batch or returns,
\* then the batch owns it until it is released.
CommandOwns(p) ==
  \/ pc[p] \in {"holding", "givingBack", "reserved", "locked"}
  \/ pc[p] \in {"unlocking", "unlocked", "started", "flushing"} /\ p \notin hasEvents

BatchOwns(p) == Queued(p) \/ Held(p)

InLane(p, l) == \E i \in 1..Len(queue[l]) : queue[l][i] = p

Owns(p) == CommandOwns(p) \/ BatchOwns(p)

OwnersByLane ==
  \A l \in Lanes : SlotOwners(l) = {p \in Producers : LaneOf[p] = l /\ Owns(p)}

LEMMA OwnersOfLane == TypeOK /\ Placed => OwnersByLane
<1>. SUFFICES ASSUME TypeOK, Placed, NEW l \in Lanes
              PROVE  SlotOwners(l) = {p \in Producers : LaneOf[p] = l /\ Owns(p)}
  BY DEF OwnersByLane
<1>1. ASSUME NEW p \in Producers, LaneOf[p] = l
      PROVE  Queued(p) <=> \E i \in DOMAIN queue[l] : queue[l][i] = p
  <2>1. \A k \in Lanes : queue[k] \in Seq(Producers) /\ DOMAIN queue[k] = 1..Len(queue[k])
    BY <1>1 DEF TypeOK, LanesOK
  <2>2. \A k \in Lanes : \A i \in 1..Len(queue[k]) : queue[k][i] = p => k = l
    BY <1>1 DEF Placed, QueuesPlaced
  <2>. QED
    BY <2>1, <2>2 DEF Queued
<1>. QED
  BY <1>1 DEF SlotOwners, Owns, CommandOwns, BatchOwns, Held

\* The owners of slots change by one, with the slots of their lane.
Gains(p) ==
  /\ slots' = [slots EXCEPT ![LaneOf[p]] = @ + 1]
  /\ ~Owns(p) /\ \A q \in Producers : Owns(q)' <=> Owns(q) \/ q = p

Loses(p) ==
  /\ slots' = [slots EXCEPT ![LaneOf[p]] = @ - 1]
  /\ Owns(p) /\ \A q \in Producers : Owns(q)' <=> Owns(q) /\ q # p

Keeps == slots' = slots /\ \A q \in Producers : Owns(q)' <=> Owns(q)

\* Who has no batch owns no slot through one.
LEMMA NoBatch ==
  ASSUME TypeOK, Placed, NEW p \in Producers, p \notin hasEvents
  PROVE  ~BatchOwns(p)
BY DeliveryConstants
DEF DeliveryConstants, Placed, QueuesPlaced, WorkersPlaced, BatchOwns, Queued, Held

\* A step that moves no batch changes at most which commands own a slot.
LEMMA SameBatches ==
  ASSUME UNCHANGED queue, \A w \in Workers : wk'[w].batch = wk[w].batch, NEW q
  PROVE  BatchOwns(q)' <=> BatchOwns(q)
BY DEF BatchOwns, Queued, Held

\* Steps of a command that move no batch.
LEMMA CommandSlots ==
  ASSUME TypeOK, Placed, NEW p \in Producers, Enter(p) \/ Running(p), ~Enqueue(p)
  PROVE  Keeps \/ Gains(p) \/ Loses(p)
<1>1. UNCHANGED queue /\ hasEvents' = hasEvents
  BY DEF Enter, Running, TakeSlot, GiveUp, Reserve, GiveBack, Lock, NoEvents, Unlock,
         StartWorker, StartWhen, ProducerDone, Flush, laneVars
<1>2. \A w \in Workers : wk'[w].batch = wk[w].batch
  <2>1. StartWorker(p) \/ wk' = wk
    BY DEF Enter, Running, TakeSlot, GiveUp, Reserve, GiveBack, Lock, NoEvents, Unlock,
           ProducerDone, Flush, workVars
  <2>. QED
    BY <2>1, StartMoves
<1>3. \A q \in Producers : BatchOwns(q)' <=> BatchOwns(q)
  BY <1>1, <1>2, SameBatches
<1>4. \A q \in Producers : q # p => (CommandOwns(q)' <=> CommandOwns(q))
  BY <1>1 DEF Enter, Running, TakeSlot, GiveUp, Reserve, GiveBack, Lock, NoEvents, Unlock,
              StartWorker, StartWhen, ProducerDone, Flush, Goto, CommandOwns, TypeOK, ProducersOK
<1>5. p \in hasEvents => pc[p] \in {"unlocking", "unlocked", "started", "flushing", "done"}
  BY DEF Placed, AfterLock
<1>6. CASE TakeSlot(p)
  <2>1. p \notin hasEvents /\ ~CommandOwns(p) /\ CommandOwns(p)'
    BY <1>5, <1>6 DEF TakeSlot, Goto, CommandOwns, TypeOK, ProducersOK
  <2>2. Gains(p)
    BY <1>3, <1>4, <1>6, <2>1, NoBatch DEF TakeSlot, Gains, Owns
  <2>. QED
    BY <2>2
<1>7. CASE GiveBack(p) \/ (Flush(p) /\ p \notin hasEvents)
  <2>1. p \notin hasEvents /\ CommandOwns(p) /\ ~CommandOwns(p)'
    BY <1>1, <1>5, <1>7 DEF GiveBack, Flush, Goto, CommandOwns, TypeOK, ProducersOK
  <2>2. slots' = [slots EXCEPT ![LaneOf[p]] = @ - 1]
    BY <1>7 DEF GiveBack, Flush, FreeSlot
  <2>3. Loses(p)
    BY <1>3, <1>4, <2>1, <2>2, NoBatch DEF Loses, Owns
  <2>. QED
    BY <2>3
<1>8. CASE \/ Enter(p) \/ GiveUp(p) \/ Reserve(p) \/ Lock(p) \/ NoEvents(p) \/ Unlock(p)
           \/ StartWorker(p) \/ ProducerDone(p) \/ (Flush(p) /\ p \in hasEvents)
  <2>1. slots' = slots
    BY <1>8 DEF Enter, GiveUp, Reserve, Lock, NoEvents, Unlock, StartWorker, StartWhen,
                ProducerDone, Flush, laneVars
  <2>2. CommandOwns(p)' <=> CommandOwns(p)
    BY <1>1, <1>5, <1>8
    DEF Enter, GiveUp, Reserve, Lock, NoEvents, Unlock, StartWorker, StartWhen,
        ProducerDone, Flush, Goto, CommandOwns, TypeOK, ProducersOK
  <2>3. Keeps
    BY <1>3, <1>4, <2>1, <2>2 DEF Keeps, Owns
  <2>. QED
    BY <2>3
<1>. QED
  BY <1>6, <1>7, <1>8 DEF Running

\* Enqueue hands the slot of the command to its batch.
LEMMA EnqueueSlots ==
  ASSUME TypeOK, Placed, NEW p \in Producers, Enqueue(p)
  PROVE  Keeps
<1> DEFINE k == LaneOf[p]
<1>1. k \in Lanes /\ queue[k] \in Seq(Producers)
  BY DeliveryConstants DEF DeliveryConstants, TypeOK, LanesOK
<1>2. /\ hasEvents' = hasEvents \cup {p} /\ wk' = wk /\ slots' = slots
      /\ queue'[k] = Append(queue[k], p) /\ \A l \in Lanes : l # k => queue'[l] = queue[l]
      /\ pc[p] = "locked" /\ pc' = [pc EXCEPT ![p] = "unlocking"]
  BY <1>1 DEF Enqueue, Goto, workVars, TypeOK, LanesOK
<1>3. /\ Len(queue[k]) \in Nat /\ Len(queue'[k]) = Len(queue[k]) + 1
      /\ \A i \in 1..Len(queue[k]) : queue'[k][i] = queue[k][i]
      /\ queue'[k][Len(queue[k]) + 1] = p
  BY <1>1, <1>2
<1>4. Owns(p) /\ Owns(p)'
  <2>1. Queued(p)'
    BY <1>1, <1>3 DEF Queued
  <2>. QED
    BY <1>2, <2>1 DEF Owns, CommandOwns, BatchOwns
<1>5. ASSUME NEW q \in Producers, q # p PROVE Owns(q)' <=> Owns(q)
  <2>1. CommandOwns(q)' <=> CommandOwns(q)
    BY <1>2, <1>5 DEF CommandOwns, TypeOK, ProducersOK
  <2>2. Held(q)' <=> Held(q)
    BY <1>2 DEF Held
  <2>3. \A i \in 1..Len(queue'[k]) : i \in 1..Len(queue[k]) \/ i = Len(queue[k]) + 1
    BY <1>3
  <2>4. InLane(q, k)' <=> InLane(q, k)
    <3>1. ASSUME NEW i \in 1..Len(queue'[k]), queue'[k][i] = q PROVE InLane(q, k)
      <4>1. i \in 1..Len(queue[k]) /\ queue[k][i] = q
        BY <1>3, <1>5, <2>3, <3>1
      <4>. QED
        BY <4>1 DEF InLane
    <3>2. ASSUME NEW i \in 1..Len(queue[k]), queue[k][i] = q PROVE InLane(q, k)'
      <4>1. i \in 1..Len(queue'[k]) /\ queue'[k][i] = q
        BY <1>3, <3>2
      <4>. QED
        BY <4>1 DEF InLane
    <3>. QED
      BY <3>1, <3>2 DEF InLane
  <2>5. \A l \in Lanes : InLane(q, l)' <=> InLane(q, l)
    BY <1>2, <2>4 DEF InLane
  <2>6. Queued(q)' <=> Queued(q)
    BY <2>5 DEF Queued, InLane
  <2>. QED
    BY <2>1, <2>2, <2>6 DEF Owns, BatchOwns
<1>. QED
  BY <1>2, <1>4, <1>5 DEF Keeps

\* The slot stays with a batch that goes from the queue to a worker.
LEMMA TakeSlots ==
  ASSUME TypeOK, Placed, NEW w \in Workers, Takes(w)
  PROVE  Keeps
<1>1. PICK k \in Lanes : /\ k = wk[w].lane /\ wk[w].batch = None
                         /\ queue[k] \in Seq(Producers) /\ queue[k] # <<>>
  BY EmptyHanded DEF Takes, TakeBatch, TypeOK, LanesOK
<1>2. /\ UNCHANGED <<pc, hasEvents, slots>>
      /\ queue'[k] = Tail(queue[k]) /\ \A l \in Lanes : l # k => queue'[l] = queue[l]
      /\ \A v \in Workers : v # w => wk'[v] = wk[v]
  BY <1>1 DEF Takes, TakeBatch, TypeOK, LanesOK, WorkersOK
<1>3. wk'[w].batch = queue[k][1]
  BY <1>1, WorkerShape DEF Takes, TakeBatch, TypeOK, WorkersOK
<1>4. /\ Len(queue[k]) \in Nat \ {0} /\ Len(queue'[k]) = Len(queue[k]) - 1
      /\ \A i \in 1..Len(queue'[k]) : queue'[k][i] = queue[k][i + 1] /\ i + 1 \in 1..Len(queue[k])
  BY <1>1, <1>2, HeadTailProperties
<1>5. \A i \in 1..Len(queue[k]) : i = 1 \/ (i - 1 \in 1..Len(queue'[k]) /\ queue'[k][i - 1] = queue[k][i])
  BY <1>4
<1>6. 1 \in 1..Len(queue[k])
  BY <1>4
<1>7. ASSUME NEW q \in Producers PROVE BatchOwns(q)' <=> BatchOwns(q)
  <2>1. q # None
    BY DeliveryConstants DEF DeliveryConstants
  <2>2. Held(q)' <=> Held(q) \/ q = queue[k][1]
    BY <1>1, <1>2, <1>3, <2>1 DEF Held
  <2>3. \A l \in Lanes : l # k => (InLane(q, l)' <=> InLane(q, l))
    BY <1>2 DEF InLane
  <2>4. InLane(q, k) <=> InLane(q, k)' \/ q = queue[k][1]
    BY <1>4, <1>5, <1>6 DEF InLane
  <2>5. Queued(q) <=> Queued(q)' \/ q = queue[k][1]
    BY <1>1, <2>3, <2>4 DEF Queued, InLane
  <2>. QED
    BY <2>2, <2>5 DEF BatchOwns
<1>8. \A q \in Producers : CommandOwns(q)' <=> CommandOwns(q)
  BY <1>2 DEF CommandOwns
<1>. QED
  BY <1>2, <1>7, <1>8 DEF Keeps, Owns

\* The worker gives back the slot of the batch in its hands.
LEMMA ReleaseSlots ==
  ASSUME TypeOK, OneWorker, Placed, NEW w \in Workers, Release(w)
  PROVE  \E p \in Producers : Loses(p)
<1>1. PICK b \in Producers :
        b = wk[w].batch /\ b # None /\ b \in hasEvents /\ LaneOf[b] = wk[w].lane
  BY WorkerShape, DeliveryConstants DEF Release, DeliveryConstants, Placed, WorkersPlaced
<1>2. /\ UNCHANGED <<pc, hasEvents, queue>> /\ wk'[w].batch = None
      /\ \A v \in Workers : v # w => wk'[v] = wk[v]
      /\ slots' = [slots EXCEPT ![LaneOf[b]] = @ - 1]
  BY <1>1, WorkerShape DEF Release, FreeSlot, TypeOK, WorkersOK
<1>3. \A v \in Workers : wk[v].batch = b => v = w
  <2>1. SUFFICES ASSUME NEW v \in Workers, wk[v].batch = b PROVE v = w
    OBVIOUS
  <2>2. wk[v].lane = wk[w].lane
    BY <1>1, <2>1 DEF Placed, WorkersPlaced
  <2>3. wk[v].pc \in {"publish", "close", "release"}
    BY <1>1, <2>1 DEF TypeOK, WorkersOK, WorkerRecord, Idle
  <2>. QED
    BY <2>2, <2>3 DEF OneWorker, Delivering, Release
<1>4. ~Queued(b) /\ ~CommandOwns(b)
  BY <1>1 DEF Placed, QueuesPlaced, AfterLock, Queued, Held, CommandOwns
<1>5. Owns(b) /\ ~Owns(b)'
  <2>1. ~Held(b)'
    BY <1>1, <1>2, <1>3 DEF Held
  <2>2. ~Queued(b)' /\ ~CommandOwns(b)'
    BY <1>2, <1>4 DEF Queued, CommandOwns
  <2>3. Held(b)
    BY <1>1 DEF Held
  <2>. QED
    BY <2>1, <2>2, <2>3 DEF Owns, BatchOwns
<1>6. ASSUME NEW q \in Producers, q # b PROVE Owns(q)' <=> Owns(q)
  <2>1. q # None
    BY DeliveryConstants DEF DeliveryConstants
  <2>2. Held(q)' <=> Held(q)
    BY <1>1, <1>2, <1>6, <2>1 DEF Held
  <2>. QED
    BY <1>2, <2>2 DEF Owns, BatchOwns, Queued, CommandOwns
<1>. QED
  BY <1>2, <1>5, <1>6 DEF Loses

LEMMA SlotSteps ==
  ASSUME TypeOK, OneWorker, Placed, [Next]_vars
  PROVE  Keeps \/ \E p \in Producers : Gains(p) \/ Loses(p)
<1>1. ASSUME NEW p \in Producers, Enter(p) \/ Running(p)
      PROVE  Keeps \/ \E q \in Producers : Gains(q) \/ Loses(q)
  BY <1>1, CommandSlots, EnqueueSlots
<1>2. ASSUME UNCHANGED <<pc, hasEvents, slots>>, ~(\E w \in Workers : Takes(w) \/ Release(w))
      PROVE  Keeps
  <2>1. \A p \in Producers : ~Enqueue(p)
    BY <1>2 DEF Enqueue, Goto, TypeOK, ProducersOK
  <2>2. UNCHANGED queue /\ \A w \in Workers : wk'[w].batch = wk[w].batch
    BY <1>2, <2>1, BatchMoves
  <2>. QED
    BY <1>2, <2>2, SameBatches DEF Keeps, Owns, CommandOwns
<1>3. ASSUME NEW w \in Workers, Worker(w), ~Takes(w), ~Release(w)
      PROVE  UNCHANGED <<pc, hasEvents, slots>>
  BY <1>3 DEF Worker, TakeBatch, Takes, Publish, CloseBatch, WorkerDone, laneVars
<1>4. \A p \in Producers : CancelRequest(p) => UNCHANGED <<pc, hasEvents, slots>>
  BY DEF CancelRequest, laneVars
<1>5. BeginClose \/ ProducersGone \/ WorkersGone \/ DrainTimeout \/ UNCHANGED vars
      => UNCHANGED <<pc, hasEvents, slots>>
  BY DEF BeginClose, ProducersGone, WorkersGone, DrainTimeout, CloseStep, vars, laneVars
<1>. QED
  BY <1>1, <1>2, <1>3, <1>4, <1>5, TakeSlots, ReleaseSlots DEF Next, Terminated

LEMMA SlotAccountingStep ==
  ASSUME TypeOK, OneWorker, Placed, SlotAccounting, [Next]_vars
  PROVE  SlotAccounting'
<1>1. TypeOK' /\ Placed'
  BY NextType, PlacedStep
<1>. SUFFICES ASSUME NEW l \in Lanes PROVE slots'[l] = Cardinality(SlotOwners(l)') /\ slots'[l] <= Capacity
  BY DEF SlotAccounting
<1>2. /\ SlotOwners(l) = {q \in Producers : LaneOf[q] = l /\ Owns(q)}
      /\ SlotOwners(l)' = {q \in Producers : LaneOf[q] = l /\ Owns(q)'}
  <2>1. OwnersByLane /\ OwnersByLane'
    BY <1>1, OwnersOfLane, PTL
  <2>. QED
    BY <2>1 DEF OwnersByLane
<1>3. IsFiniteSet(SlotOwners(l)) /\ slots[l] = Cardinality(SlotOwners(l))
  <2>1. SlotOwners(l) \subseteq Producers
    BY DEF SlotOwners
  <2>. QED
    BY <2>1, DeliveryConstants, FS_Subset DEF DeliveryConstants, SlotAccounting
<1>4. slots'[l] <= Capacity
  BY <1>1, DeliveryConstants DEF DeliveryConstants, TypeOK, LanesOK
<1>5. CASE Keeps
  BY <1>2, <1>3, <1>4, <1>5 DEF Keeps
<1>6. ASSUME NEW p \in Producers, Gains(p) PROVE slots'[l] = Cardinality(SlotOwners(l)')
  <2>1. CASE LaneOf[p] = l
    <3>1. p \notin SlotOwners(l) /\ SlotOwners(l)' = SlotOwners(l) \cup {p} /\ slots'[l] = slots[l] + 1
      BY <1>2, <1>6, <2>1 DEF Gains, TypeOK, LanesOK
    <3>. QED
      BY <1>3, <3>1, FS_AddElement
  <2>2. CASE LaneOf[p] # l
    <3>1. SlotOwners(l)' = SlotOwners(l) /\ slots'[l] = slots[l]
      BY <1>2, <1>6, <2>2 DEF Gains, TypeOK, LanesOK
    <3>. QED
      BY <1>3, <3>1
  <2>. QED
    BY <2>1, <2>2
<1>7. ASSUME NEW p \in Producers, Loses(p) PROVE slots'[l] = Cardinality(SlotOwners(l)')
  <2>1. CASE LaneOf[p] = l
    <3>1. p \in SlotOwners(l) /\ SlotOwners(l)' = SlotOwners(l) \ {p} /\ slots'[l] = slots[l] - 1
      BY <1>2, <1>7, <2>1 DEF Loses, TypeOK, LanesOK
    <3>. QED
      BY <1>3, <3>1, FS_RemoveElement
  <2>2. CASE LaneOf[p] # l
    <3>1. SlotOwners(l)' = SlotOwners(l) /\ slots'[l] = slots[l]
      BY <1>2, <1>7, <2>2 DEF Loses, TypeOK, LanesOK
    <3>. QED
      BY <1>3, <3>1
  <2>. QED
    BY <2>1, <2>2
<1>. QED
  BY <1>4, <1>5, <1>6, <1>7, SlotSteps

LEMMA SlotAccountingInit == Init => SlotAccounting
<1>. SUFFICES ASSUME Init, NEW l \in Lanes
              PROVE  slots[l] = Cardinality(SlotOwners(l)) /\ slots[l] <= Capacity
  BY DEF SlotAccounting
<1>1. SlotOwners(l) = {}
  BY DeliveryConstants DEF DeliveryConstants, Init, SlotOwners, Idle
<1>. QED
  BY <1>1, FS_EmptySet, DeliveryConstants DEF DeliveryConstants, Init

\* The slots of a configuration are those of the commands and batches that hold
\* one: no path through reserveDelivery, releaseAndFlush and deliver leaks a slot
\* or gives one back twice, and there are never more than deliveryCapacity.
THEOREM SlotAccountingAlways == Spec => []SlotAccounting
<1>1. TypeOK /\ OneWorker /\ Placed /\ SlotAccounting /\ [Next]_vars => SlotAccounting'
  BY SlotAccountingStep
<1>. QED
  BY <1>1, SlotAccountingInit, TypeCorrect, OneWorkerAlways, PlacedAlways, PTL DEF Spec

-----------------------------------------------------------------------------
(* The lanes implement Outbox *)

LEMMA GeneratedStep ==
  ASSUME TypeOK, GeneratedKnown, [Next]_vars
  PROVE  GeneratedKnown'
<1>1. ASSUME NEW p \in Producers, Enqueue(p) PROVE GeneratedKnown'
  <2> DEFINE k == LaneOf[p]
  <2>1. k \in Lanes /\ generated[k] \in Seq(Producers)
    BY DeliveryConstants DEF DeliveryConstants, TypeOK, HistoryOK
  <2>2. /\ hasEvents' = hasEvents \cup {p} /\ generated'[k] = Append(generated[k], p)
        /\ \A l \in Lanes : l # k => generated'[l] = generated[l]
    BY <1>1, <2>1 DEF Enqueue, TypeOK, HistoryOK
  <2>3. /\ Len(generated[k]) \in Nat /\ Len(generated'[k]) = Len(generated[k]) + 1
        /\ \A i \in 1..Len(generated[k]) : generated'[k][i] = generated[k][i]
        /\ generated'[k][Len(generated[k]) + 1] = p
    BY <2>1, <2>2
  <2>4. \A i \in 1..Len(generated'[k]) : i \in 1..Len(generated[k]) \/ i = Len(generated[k]) + 1
    BY <2>3
  <2>5. \A i \in 1..Len(generated'[k]) : generated'[k][i] \in hasEvents'
    BY <2>1, <2>2, <2>3, <2>4 DEF GeneratedKnown
  <2>. QED
    BY <2>2, <2>5 DEF GeneratedKnown
<1>2. UNCHANGED <<generated, hasEvents>> => GeneratedKnown'
  BY DEF GeneratedKnown
<1>3. UNCHANGED <<generated, hasEvents>> \/ \E p \in Producers : Enqueue(p)
  BY DEF Next, Running, Enter, TakeSlot, GiveUp, Reserve, GiveBack, Lock, NoEvents, Unlock,
         StartWorker, StartWhen, ProducerDone, Flush, CancelRequest, Worker, TakeBatch,
         Publish, CloseBatch, Release, WorkerDone, BeginClose, ProducersGone, WorkersGone,
         DrainTimeout, CloseStep, Terminated, vars
<1>. QED
  BY <1>1, <1>2, <1>3

LEMMA GeneratedAlways == Spec => []GeneratedKnown
<1>1. Init => GeneratedKnown
  BY DEF Init, GeneratedKnown
<1>2. TypeOK /\ GeneratedKnown /\ [Next]_vars => GeneratedKnown'
  BY GeneratedStep
<1>. QED
  BY <1>1, <1>2, TypeCorrect, PTL DEF Spec

\* A sequence of different owners of a lane's slots, other than one of them, is
\* shorter than the lane's capacity.
LEMMA RoomForOne ==
  ASSUME SlotAccounting, TypeOK, NEW l \in Lanes, NEW p \in SlotOwners(l),
         NEW n \in Nat, NEW f \in [1..n -> SlotOwners(l) \ {p}],
         \A i, j \in 1..n : f[i] = f[j] => i = j
  PROVE  n < Capacity
<1>1. IsFiniteSet(SlotOwners(l))
  <2>1. SlotOwners(l) \subseteq Producers
    BY DEF SlotOwners
  <2>. QED
    BY <2>1, DeliveryConstants, FS_Subset DEF DeliveryConstants
<1>2. Cardinality(SlotOwners(l)) \in Nat /\ Cardinality(SlotOwners(l)) <= Capacity
  BY <1>1, FS_CardinalityType DEF SlotAccounting
<1>3. /\ IsFiniteSet(SlotOwners(l) \ {p})
      /\ Cardinality(SlotOwners(l) \ {p}) = Cardinality(SlotOwners(l)) - 1
  BY <1>1, FS_RemoveElement
<1>4. IsFiniteSet(1..n) /\ Cardinality(1..n) = n
  BY FS_Interval
<1>5. ~(Cardinality(SlotOwners(l) \ {p}) < Cardinality(1..n))
  BY <1>3, <1>4, FS_PigeonHole
<1>. QED
  BY <1>2, <1>3, <1>4, <1>5, DeliveryConstants DEF DeliveryConstants

\* A command under the lock has a slot of its own, so fewer than Capacity batches
\* of its lane are generated and not yet published.
LEMMA RoomToEnqueue ==
  ASSUME TypeOK, InGenerationOrder, Placed, SlotAccounting,
         NEW p \in Producers, pc[p] = "locked"
  PROVE  Len(generated[LaneOf[p]]) - Len(attempted[LaneOf[p]]) < Capacity
<1> DEFINE l == LaneOf[p]
<1>1. /\ l \in Lanes /\ queue[l] \in Seq(Producers) /\ attempted[l] \in Seq(Producers)
  BY DeliveryConstants DEF DeliveryConstants, TypeOK, LanesOK, HistoryOK
<1>2. p \in SlotOwners(l)
  BY DEF SlotOwners
<1>3. DOMAIN queue[l] = 1..Len(queue[l]) /\ Len(queue[l]) \in Nat /\ Len(attempted[l]) \in Nat
  BY <1>1
<1>4. \A i \in 1..Len(queue[l]) : queue[l][i] \in SlotOwners(l) \ {p}
  <2>1. SUFFICES ASSUME NEW i \in 1..Len(queue[l]) PROVE queue[l][i] \in SlotOwners(l) \ {p}
    OBVIOUS
  <2>2. queue[l][i] \in Producers /\ queue[l][i] # p /\ LaneOf[queue[l][i]] = l
    BY <1>1, NotYet, QueuePlaced, ElementOfSeq
  <2>. QED
    BY <1>3, <2>2 DEF SlotOwners
<1>5. \A i, j \in 1..Len(queue[l]) : queue[l][i] = queue[l][j] => i = j
  BY <1>1, QueuePlaced
<1>6. CASE \A w \in Workers : ~Publishing(w, l)
  <2>1. generated[l] = attempted[l] \o queue[l]
    BY <1>1, <1>6 DEF InGenerationOrder
  <2>2. Len(generated[l]) - Len(attempted[l]) = Len(queue[l])
    <3>1. Len(attempted[l] \o queue[l]) = Len(attempted[l]) + Len(queue[l])
      BY <1>1, ConcatProperties
    <3>. QED
      BY <1>3, <2>1, <3>1
  <2>3. queue[l] \in [1..Len(queue[l]) -> SlotOwners(l) \ {p}]
    BY <1>1, <1>4, LenProperties
  <2> DEFINE n == Len(queue[l])
             f == queue[l]
  <2>4. n < Capacity
    <3>1. n \in Nat /\ f \in [1..n -> SlotOwners(l) \ {p}]
      BY <1>3, <2>3
    <3>2. \A i, j \in 1..n : f[i] = f[j] => i = j
      BY <1>5
    <3> HIDE DEF n, f, l
    <3>. QED
      BY <1>1, <1>2, <3>1, <3>2, RoomForOne
  <2>. QED
    BY <2>2, <2>4
<1>7. CASE \E w \in Workers : Publishing(w, l)
  <2>1. PICK w \in Workers : Publishing(w, l)
    BY <1>7
  <2> DEFINE b == wk[w].batch
  <2>2. b \in Producers /\ LaneOf[b] = l /\ Held(b)
    BY <2>1, WorkerShape, DeliveryConstants
    DEF Publishing, DeliveryConstants, Placed, WorkersPlaced, Held
  <2>3. b \in SlotOwners(l) \ {p}
    BY <2>2, NotYet DEF SlotOwners, Held
  <2>4. \A i \in 1..Len(queue[l]) : queue[l][i] # b
    BY <1>1, <2>2, QueuePlaced
  <2>5. generated[l] = (attempted[l] \o <<b>>) \o queue[l]
    BY <1>1, <2>1 DEF InGenerationOrder
  <2>6. <<b>> \in Seq(Producers) /\ attempted[l] \o <<b>> \in Seq(Producers)
    BY <1>1, <2>2
  <2>7. Len(generated[l]) - Len(attempted[l]) = Len(queue[l]) + 1
    <3>1. Len(attempted[l] \o <<b>>) = Len(attempted[l]) + 1
      BY <1>1, <2>6
    <3> DEFINE a == attempted[l] \o <<b>>
    <3>2. Len(a \o queue[l]) = Len(a) + Len(queue[l])
      BY <1>1, <2>6, ConcatProperties
    <3>3. Len(generated[l]) = Len(a) + Len(queue[l])
      BY <2>5, <3>2
    <3> HIDE DEF a
    <3>4. Len(a) = Len(attempted[l]) + 1
      BY <3>1 DEF a
    <3>5. Len(generated[l]) = (Len(attempted[l]) + 1) + Len(queue[l])
      BY <3>3, <3>4
    <3>6. \A x, y \in Nat : ((x + 1) + y) - x = y + 1
      OBVIOUS
    <3>. QED
      BY <1>3, <3>5, <3>6
  <2> DEFINE n == Len(queue[l]) + 1
             f == [i \in 1..n |-> IF i = 1 THEN b ELSE queue[l][i - 1]]
  <2>8. n \in Nat /\ \A i \in 1..n : i = 1 \/ i - 1 \in 1..Len(queue[l])
    BY <1>3
  <2>9. f \in [1..n -> SlotOwners(l) \ {p}]
    BY <1>4, <2>3, <2>8
  <2>10. ASSUME NEW i \in 1..n, NEW j \in 1..n, f[i] = f[j] PROVE i = j
    <3>1. CASE i = 1 \/ j = 1
      BY <2>4, <2>8, <2>10, <3>1
    <3>2. CASE i # 1 /\ j # 1
      <4>1. i - 1 \in 1..Len(queue[l]) /\ j - 1 \in 1..Len(queue[l])
        BY <2>8, <3>2
      <4>2. queue[l][i - 1] = queue[l][j - 1]
        BY <2>10, <3>2
      <4>3. i - 1 = j - 1
        BY <1>5, <4>1, <4>2
      <4>. QED
        BY <4>3
    <3>. QED
      BY <3>1, <3>2
  <2> HIDE DEF f, n
  <2>11. n < Capacity
    BY <1>1, <1>2, <2>8, <2>9, <2>10, RoomForOne
  <2>. QED
    BY <2>7, <2>11 DEF n
<1>. QED
  BY <1>6, <1>7

\* Enqueue generates a batch.
LEMMA EnqueueGenerates ==
  ASSUME TypeOK, InGenerationOrder, Placed, SlotAccounting, DrainSound, GeneratedKnown,
         NEW p \in Producers, Enqueue(p)
  PROVE  Promise!Generate(LaneOf[p], p) /\ LaneOf[p] \in Lanes
<1>1. pc[p] = "locked" /\ closer' = closer /\ attempted' = attempted
  BY DEF Enqueue, shutVars, workVars
<1>2. closer # "clean"
  BY <1>1 DEF DrainSound, Reserved
<1>3. Len(generated[LaneOf[p]]) - Len(attempted[LaneOf[p]]) < Capacity
  BY <1>1, RoomToEnqueue
<1>4. \A k \in Lanes : \A i \in 1..Len(generated[k]) : generated[k][i] # p
  BY <1>1, NotYet DEF GeneratedKnown
<1>5. generated' = [generated EXCEPT ![LaneOf[p]] = Append(@, p)]
  BY DEF Enqueue
<1>. QED
  BY <1>1, <1>2, <1>3, <1>4, <1>5, DeliveryConstants DEF Promise!Generate, DeliveryConstants

\* Publish attempts the next batch of its lane.
LEMMA PublishAttempts ==
  ASSUME TypeOK, InGenerationOrder, NEW w \in Workers, Publish(w)
  PROVE  \E l \in Lanes : Promise!Attempt(l)
<1>1. PICK l \in Lanes, b \in Producers : l = wk[w].lane /\ b = wk[w].batch /\ Publishing(w, l)
  BY WorkerShape DEF Publish, Publishing, Idle
<1>2. attempted[l] \in Seq(Producers) /\ queue[l] \in Seq(Producers) /\ <<b>> \in Seq(Producers)
  BY <1>1 DEF TypeOK, LanesOK, HistoryOK
<1>3. generated[l] = (attempted[l] \o <<b>>) \o queue[l]
  BY <1>1 DEF InGenerationOrder
<1> DEFINE a == attempted[l] \o <<b>>
<1>4. /\ a \in Seq(Producers) /\ Len(a) = Len(attempted[l]) + 1 /\ a[Len(attempted[l]) + 1] = b
      /\ Len(attempted[l]) \in Nat /\ Len(queue[l]) \in Nat
  BY <1>2
<1>5. Len(attempted[l]) < Len(generated[l]) /\ generated[l][Len(attempted[l]) + 1] = b
  <2>1. Len(a \o queue[l]) = Len(a) + Len(queue[l])
    BY <1>2, <1>4, ConcatProperties
  <2>2. \A i \in 1..Len(a) + Len(queue[l]) :
          (a \o queue[l])[i] = IF i <= Len(a) THEN a[i] ELSE queue[l][i - Len(a)]
    BY <1>2, <1>4, ConcatProperties
  <2> HIDE DEF a
  <2>3. generated[l] = a \o queue[l]
    BY <1>3 DEF a
  <2>. QED
    BY <1>4, <2>1, <2>2, <2>3
<1>6. /\ attempted' = [attempted EXCEPT ![l] = Append(@, b)]
      /\ UNCHANGED <<generated, closer>>
  BY <1>1 DEF Publish, shutVars
<1>. QED
  BY <1>5, <1>6 DEF Promise!Attempt

LEMMA PromiseStep ==
  ASSUME TypeOK, InGenerationOrder, Placed, SlotAccounting, DrainSound, GeneratedKnown,
         CleanCloseDrains', [Next]_vars
  PROVE  [Promise!OutboxNext]_(Promise!outboxVars)
<1>1. ASSUME NEW p \in Producers, Enqueue(p)
      PROVE  Promise!OutboxNext
  BY <1>1, EnqueueGenerates DEF Promise!OutboxNext
<1>2. ASSUME NEW w \in Workers, Publish(w)
      PROVE  Promise!OutboxNext
  BY <1>2, PublishAttempts DEF Promise!OutboxNext
<1>3. CASE WorkersGone
  <2>1. UNCHANGED <<generated, attempted>>
    BY <1>3 DEF WorkersGone, CloseStep, workVars
  <2>2. closer # "clean"
    BY <1>3 DEF WorkersGone, CloseStep
  <2>3. CASE closer' = "clean"
    BY <2>1, <2>2, <2>3 DEF CleanCloseDrains, Promise!Shut, Promise!OutboxNext
  <2>4. CASE closer' # "clean"
    BY <2>1, <2>2, <2>4 DEF Promise!outboxVars
  <2>. QED
    BY <2>3, <2>4
<1>4. CASE BeginClose \/ ProducersGone \/ DrainTimeout
  <2>1. UNCHANGED <<generated, attempted>>
    BY <1>4 DEF BeginClose, ProducersGone, DrainTimeout, CloseStep, workVars
  <2>2. closer # "clean" /\ closer' # "clean"
    BY <1>4 DEF BeginClose, ProducersGone, DrainTimeout, CloseStep
  <2>. QED
    BY <2>1, <2>2 DEF Promise!outboxVars
<1>5. UNCHANGED <<generated, attempted, closer>> => UNCHANGED Promise!outboxVars
  BY DEF Promise!outboxVars
<1>6. ASSUME NEW p \in Producers, Enter(p) \/ Running(p) \/ CancelRequest(p), ~Enqueue(p)
      PROVE  UNCHANGED <<generated, attempted, closer>>
  BY <1>6 DEF Running, Enter, TakeSlot, GiveUp, Reserve, GiveBack, Lock, NoEvents, Unlock,
              StartWorker, StartWhen, ProducerDone, Flush, CancelRequest, workVars, shutVars
<1>7. ASSUME NEW w \in Workers, Worker(w), ~Publish(w)
      PROVE  UNCHANGED <<generated, attempted, closer>>
  BY <1>7 DEF Worker, TakeBatch, CloseBatch, Release, WorkerDone, shutVars
<1>8. UNCHANGED vars => UNCHANGED <<generated, attempted, closer>>
  BY DEF vars, workVars, shutVars
<1>. QED
  BY <1>1, <1>2, <1>3, <1>4, <1>5, <1>6, <1>7, <1>8 DEF Next, Terminated

\* Whatever the interleaving, the lanes look like one bounded queue for each
\* configuration: a batch is generated once and within deliveryCapacity, the
\* oldest is published next, and a clean close comes after the last.
THEOREM KeepsPromise == Spec => Promise!OutboxSpec
<1>1. Init => Promise!OutboxInit
  BY DEF Init, Promise!OutboxInit
<1>2. /\ TypeOK /\ InGenerationOrder /\ Placed /\ SlotAccounting /\ DrainSound
      /\ GeneratedKnown /\ CleanCloseDrains' /\ [Next]_vars
      => [Promise!OutboxNext]_(Promise!outboxVars)
  BY PromiseStep
<1>. QED
  BY <1>1, <1>2, TypeCorrect, OrderAlways, PlacedAlways, SlotAccountingAlways,
     DrainSoundAlways, GeneratedAlways, CleanCloseAlways, PTL DEF Spec, Promise!OutboxSpec
=============================================================================
