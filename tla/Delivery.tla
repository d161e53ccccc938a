------------------------------ MODULE Delivery ------------------------------
(***************************************************************************)
(* Ordered, bounded notification delivery (event_delivery.go and           *)
(* Service.releaseAndFlush): commands reserve a slot of their              *)
(* configuration's lane, change state and enqueue their batch under the    *)
(* configuration lock, and wait for the lane's worker outside it, while    *)
(* CloseDelivery drains everything at shutdown.                            *)
(*                                                                         *)
(* A producer is one command or tick, a worker one goroutine running       *)
(* deliveryLane.deliver.  A step ends where a lock is released, a channel  *)
(* is used or a WaitGroup counts.  A batch is named after its producer;    *)
(* its events are published one after another in the order of the batch,   *)
(* so a batch stands for its events.                                       *)
(***************************************************************************)
EXTENDS Integers, Sequences, FiniteSets

CONSTANTS
  Producers,   \* commands and ticks
  Workers,     \* goroutines that may run deliver
  Lanes,       \* configurations
  Served,      \* configurations whose publishers answer, see FairSpec
  LaneOf,      \* the configuration of each producer
  Capacity,    \* deliveryCapacity
  None         \* no producer, no lane

ASSUME DeliveryConstants ==
  /\ LaneOf \in [Producers -> Lanes]
  /\ Served \subseteq Lanes
  /\ Capacity \in Nat \ {0}
  /\ None \notin Producers \cup Lanes
  /\ IsFiniteSet(Producers) /\ IsFiniteSet(Workers)

VARIABLES
  pc,         \* where each producer is
  hasEvents,  \* producers whose batch is not empty
  cancelled,  \* producers whose request context is done
  slots,      \* len(lane.slots)
  queue,      \* lane.pending
  running,    \* lane.running
  holder,     \* who holds the configuration's command lock
  wk,         \* the workers
  inFlight,   \* the count of deliveryProducers
  alive,      \* the count of deliveryWorkers
  doneBatch,  \* batches whose done channel is closed
  opened,     \* deliveryClosing has been made
  closed,     \* deliveryClosed
  closer,     \* where CloseDelivery is
  stopped,    \* deliveryCancel has been called
  generated,  \* batches in the order in which their commands changed state
  attempted,  \* batches in the order in which they were published
  cutOff      \* batches published with a cancelled delivery context

laneVars == <<slots, queue, running, holder>>
workVars == <<wk, alive, doneBatch, attempted, cutOff>>
shutVars == <<opened, closed, closer, stopped>>
vars == <<pc, hasEvents, cancelled, laneVars, workVars, inFlight, shutVars, generated>>

Idle == [pc |-> "unused", lane |-> None, batch |-> None]

PcStates == {"idle", "entered", "holding", "givingBack", "reserved", "locked",
             "unlocking", "unlocked", "started", "flushing", "refused", "done"}

Init ==
  /\ pc = [p \in Producers |-> "idle"]
  /\ hasEvents = {} /\ cancelled = {}
  /\ slots = [l \in Lanes |-> 0]
  /\ queue = [l \in Lanes |-> <<>>]
  /\ running = [l \in Lanes |-> FALSE]
  /\ holder = [l \in Lanes |-> None]
  /\ wk = [w \in Workers |-> Idle]
  /\ inFlight = 0 /\ alive = 0
  /\ doneBatch = {} /\ cutOff = {}
  /\ opened = FALSE /\ closed = FALSE /\ closer = "idle" /\ stopped = FALSE
  /\ generated = [l \in Lanes |-> <<>>]
  /\ attempted = [l \in Lanes |-> <<>>]

Goto(p, label) == pc' = [pc EXCEPT ![p] = label]

-----------------------------------------------------------------------------
(* reserveDelivery *)

\* The first critical section of deliveryMu.
Enter(p) ==
  /\ pc[p] = "idle"
  /\ opened' = TRUE
  /\ Goto(p, IF closed THEN "refused" ELSE "entered")
  /\ UNCHANGED <<hasEvents, cancelled, laneVars, workVars, inFlight, closed, closer,
                 stopped, generated>>

\* Fault: the channel of slots has no capacity limit.
TakeSlot_Unbounded(p) ==
  /\ pc[p] = "entered"
  /\ slots' = [slots EXCEPT ![LaneOf[p]] = @ + 1]
  /\ Goto(p, "holding")
  /\ UNCHANGED <<hasEvents, cancelled, queue, running, holder, workVars, inFlight,
                 shutVars, generated>>

\* The select: a slot, the request context, or the closing channel.
TakeSlot(p) ==
  /\ pc[p] = "entered"
  /\ slots[LaneOf[p]] < Capacity
  /\ slots' = [slots EXCEPT ![LaneOf[p]] = @ + 1]
  /\ Goto(p, "holding")
  /\ UNCHANGED <<hasEvents, cancelled, queue, running, holder, workVars, inFlight,
                 shutVars, generated>>

GiveUp(p) ==
  /\ pc[p] = "entered"
  /\ p \in cancelled \/ closed
  /\ Goto(p, "refused")
  /\ UNCHANGED <<hasEvents, cancelled, laneVars, workVars, inFlight, shutVars, generated>>

\* Fault: deliveryClosed is not read again.
Reserve_Unchecked(p) ==
  /\ pc[p] = "holding"
  /\ Goto(p, "reserved") /\ inFlight' = inFlight + 1
  /\ UNCHANGED <<hasEvents, cancelled, laneVars, workVars, shutVars, generated>>

\* The second critical section of deliveryMu.
Reserve(p) ==
  /\ pc[p] = "holding"
  /\ IF closed THEN Goto(p, "givingBack") /\ UNCHANGED inFlight
     ELSE Goto(p, "reserved") /\ inFlight' = inFlight + 1
  /\ UNCHANGED <<hasEvents, cancelled, laneVars, workVars, shutVars, generated>>

\* Receiving from lane.slots blocks while it is empty.
FreeSlot(l) == slots[l] > 0 /\ slots' = [slots EXCEPT ![l] = @ - 1]

GiveBack(p) ==
  /\ pc[p] = "givingBack"
  /\ FreeSlot(LaneOf[p])
  /\ Goto(p, "refused")
  /\ UNCHANGED <<hasEvents, cancelled, queue, running, holder, workVars, inFlight,
                 shutVars, generated>>

-----------------------------------------------------------------------------
(* The command, and releaseAndFlush *)

Lock(p) ==
  /\ pc[p] = "reserved"
  /\ holder[LaneOf[p]] = None
  /\ holder' = [holder EXCEPT ![LaneOf[p]] = p]
  /\ Goto(p, "locked")
  /\ UNCHANGED <<hasEvents, cancelled, slots, queue, running, workVars, inFlight,
                 shutVars, generated>>

\* The command changes state and enqueues its events under the lock.  A
\* command whose context is done, or that fails, has none.
Enqueue(p) ==
  LET l == LaneOf[p]
  IN  /\ pc[p] = "locked"
      /\ p \notin cancelled
      /\ hasEvents' = hasEvents \cup {p}
      /\ generated' = [generated EXCEPT ![l] = Append(@, p)]
      /\ queue' = [queue EXCEPT ![l] = Append(@, p)]
      /\ Goto(p, "unlocking")
      /\ UNCHANGED <<cancelled, slots, running, holder, workVars, inFlight, shutVars>>

NoEvents(p) ==
  /\ pc[p] = "locked"
  /\ Goto(p, "unlocking")
  /\ UNCHANGED <<hasEvents, cancelled, laneVars, workVars, inFlight, shutVars, generated>>

Unlock(p) ==
  /\ pc[p] = "unlocking"
  /\ holder' = [holder EXCEPT ![LaneOf[p]] = None]
  /\ Goto(p, "unlocked")
  /\ UNCHANGED <<hasEvents, cancelled, slots, queue, running, workVars, inFlight,
                 shutVars, generated>>

\* lane.start, which tests whether the lane needs a worker.
StartWhen(p, needed) ==
  LET l == LaneOf[p]
  IN  /\ pc[p] = "unlocked"
      /\ Goto(p, "started")
      /\ IF p \in hasEvents /\ needed
         THEN /\ running' = [running EXCEPT ![l] = TRUE]
              /\ alive' = alive + 1
              /\ \E w \in Workers :
                   /\ wk[w] = Idle
                   /\ wk' = [wk EXCEPT ![w] = [Idle EXCEPT !.pc = "check", !.lane = l]]
         ELSE UNCHANGED <<running, alive, wk>>
      /\ UNCHANGED <<hasEvents, cancelled, slots, queue, holder, doneBatch, attempted,
                     cutOff, inFlight, shutVars, generated>>

\* Fault: every command starts a worker.
StartWorker_Always(p) == StartWhen(p, TRUE)

\* Fault: one worker is enough for all configurations.
StartWorker_Single(p) == StartWhen(p, alive = 0)

StartWorker(p) == StartWhen(p, ~running[LaneOf[p]])

ProducerDone(p) ==
  /\ pc[p] = "started"
  /\ inFlight' = inFlight - 1
  /\ Goto(p, "flushing")
  /\ UNCHANGED <<hasEvents, cancelled, laneVars, workVars, shutVars, generated>>

\* Fault: an empty batch keeps its slot.
Flush_KeepsSlot(p) ==
  /\ pc[p] = "flushing"
  /\ p \in hasEvents => p \in doneBatch \cup cancelled
  /\ Goto(p, "done")
  /\ UNCHANGED <<hasEvents, cancelled, laneVars, workVars, inFlight, shutVars, generated>>

\* An empty batch gives its slot back; any other command waits for its batch
\* or for its context.
Flush(p) ==
  /\ pc[p] = "flushing"
  /\ IF p \in hasEvents THEN p \in doneBatch \cup cancelled /\ UNCHANGED slots
     ELSE FreeSlot(LaneOf[p])
  /\ Goto(p, "done")
  /\ UNCHANGED <<hasEvents, cancelled, queue, running, holder, workVars, inFlight,
                 shutVars, generated>>

\* The client goes away, or the server shuts down.
CancelRequest(p) ==
  /\ p \notin cancelled
  /\ pc[p] \notin {"refused", "done"}
  /\ cancelled' = cancelled \cup {p}
  /\ UNCHANGED <<pc, hasEvents, laneVars, workVars, inFlight, shutVars, generated>>

-----------------------------------------------------------------------------
(* deliveryLane.deliver *)

\* Fault: the latest batch goes first.
TakeBatch_Latest(w) ==
  LET l == wk[w].lane  n == Len(queue[l])
  IN  /\ wk[w].pc = "check"
      /\ IF n = 0
         THEN /\ running' = [running EXCEPT ![l] = FALSE]
              /\ wk' = [wk EXCEPT ![w].pc = "exiting"]
              /\ UNCHANGED queue
         ELSE /\ wk' = [wk EXCEPT ![w].pc = "publish", ![w].batch = queue[l][n]]
              /\ queue' = [queue EXCEPT ![l] = SubSeq(@, 1, n - 1)]
              /\ UNCHANGED running
      /\ UNCHANGED <<pc, hasEvents, cancelled, slots, holder, alive, doneBatch,
                     attempted, cutOff, inFlight, shutVars, generated>>

\* The critical section of lane.mu at the head of the loop.
TakeBatch(w) ==
  LET l == wk[w].lane
  IN  /\ wk[w].pc = "check"
      /\ IF queue[l] = <<>>
         THEN /\ running' = [running EXCEPT ![l] = FALSE]
              /\ wk' = [wk EXCEPT ![w].pc = "exiting"]
              /\ UNCHANGED queue
         ELSE /\ wk' = [wk EXCEPT ![w].pc = "publish", ![w].batch = Head(queue[l])]
              /\ queue' = [queue EXCEPT ![l] = Tail(@)]
              /\ UNCHANGED running
      /\ UNCHANGED <<pc, hasEvents, cancelled, slots, holder, alive, doneBatch,
                     attempted, cutOff, inFlight, shutVars, generated>>

\* publishOne for every event of the batch; a failure is only logged.
Publish(w) ==
  /\ wk[w].pc = "publish"
  /\ attempted' = [attempted EXCEPT ![wk[w].lane] = Append(@, wk[w].batch)]
  /\ cutOff' = IF stopped THEN cutOff \cup {wk[w].batch} ELSE cutOff
  /\ wk' = [wk EXCEPT ![w].pc = "close"]
  /\ UNCHANGED <<pc, hasEvents, cancelled, laneVars, alive, doneBatch, inFlight,
                 shutVars, generated>>

CloseBatch(w) ==
  /\ wk[w].pc = "close"
  /\ doneBatch' = doneBatch \cup {wk[w].batch}
  /\ wk' = [wk EXCEPT ![w].pc = "release"]
  /\ UNCHANGED <<pc, hasEvents, cancelled, laneVars, alive, attempted, cutOff,
                 inFlight, shutVars, generated>>

\* Fault: a published batch keeps its slot.
Release_KeepsSlot(w) ==
  /\ wk[w].pc = "release"
  /\ wk' = [wk EXCEPT ![w].pc = "check", ![w].batch = None]
  /\ UNCHANGED <<pc, hasEvents, cancelled, laneVars, alive, doneBatch,
                 attempted, cutOff, inFlight, shutVars, generated>>

Release(w) ==
  /\ wk[w].pc = "release"
  /\ FreeSlot(wk[w].lane)
  /\ wk' = [wk EXCEPT ![w].pc = "check", ![w].batch = None]
  /\ UNCHANGED <<pc, hasEvents, cancelled, queue, running, holder, alive, doneBatch,
                 attempted, cutOff, inFlight, shutVars, generated>>

WorkerDone(w) ==
  /\ wk[w].pc = "exiting"
  /\ alive' = alive - 1
  /\ wk' = [wk EXCEPT ![w] = Idle]
  /\ UNCHANGED <<pc, hasEvents, cancelled, laneVars, doneBatch, attempted, cutOff,
                 inFlight, shutVars, generated>>

-----------------------------------------------------------------------------
(* CloseDelivery *)

BeginClose ==
  /\ closer = "idle"
  /\ IF opened THEN closed' = TRUE /\ closer' = "producers"
     ELSE closer' = "nothing" /\ UNCHANGED closed
  /\ UNCHANGED <<pc, hasEvents, cancelled, laneVars, workVars, inFlight, opened,
                 stopped, generated>>

CloseStep(from, to, stop) ==
  /\ closer = from
  /\ closer' = to
  /\ stopped' = (stopped \/ stop)
  /\ UNCHANGED <<pc, hasEvents, cancelled, laneVars, workVars, inFlight, opened,
                 closed, generated>>

\* Fault: commands in progress are not waited for.
ProducersGone_Unwaited == CloseStep("producers", "workers", FALSE)

ProducersGone == inFlight = 0 /\ CloseStep("producers", "workers", FALSE)

WorkersGone == /\ alive = 0
               /\ \/ CloseStep("workers", "clean", TRUE)
                  \/ CloseStep("stopping", "late", FALSE)

DrainTimeout == \/ CloseStep("producers", "abandoned", TRUE)
                \/ CloseStep("workers", "stopping", TRUE)

-----------------------------------------------------------------------------

Running(p)  == \/ TakeSlot(p) \/ GiveUp(p) \/ Reserve(p) \/ GiveBack(p)
               \/ Lock(p) \/ Enqueue(p) \/ NoEvents(p) \/ Unlock(p)
               \/ StartWorker(p) \/ ProducerDone(p) \/ Flush(p)

Worker(w) == TakeBatch(w) \/ Publish(w) \/ CloseBatch(w) \/ Release(w) \/ WorkerDone(w)

Closed == {"nothing", "clean", "late", "abandoned"}

\* Every command has returned, every worker has ended and so has CloseDelivery.
Terminated == /\ \A p \in Producers : pc[p] \in {"refused", "done"}
              /\ \A w \in Workers : wk[w] = Idle
              /\ closer \in Closed
              /\ UNCHANGED vars

Next == \/ \E p \in Producers : Enter(p) \/ Running(p) \/ CancelRequest(p)
        \/ \E w \in Workers : Worker(w)
        \/ BeginClose \/ ProducersGone \/ WorkersGone \/ DrainTimeout
        \/ Terminated

Spec == Init /\ [][Next]_vars

\* Goroutines are scheduled, and a publish ends at the latest after
\* deliveryTimeout, except that nothing is owed to the lanes of publishers that
\* never answer.  Neither a cancellation nor the drain timeout is owed.
FairSpec == /\ Spec
            /\ \A p \in Producers : LaneOf[p] \in Served => WF_vars(Running(p))
            /\ \A w \in Workers : WF_vars(wk[w].lane \in Served /\ Worker(w))
            /\ WF_vars(ProducersGone) /\ WF_vars(WorkersGone)

-----------------------------------------------------------------------------
(* Properties *)

ProducersOK == /\ pc \in [Producers -> PcStates]
               /\ hasEvents \subseteq Producers /\ cancelled \subseteq Producers
               /\ inFlight \in Int

LanesOK == /\ slots \in [Lanes -> 0..Capacity]
           /\ queue \in [Lanes -> Seq(Producers)]
           /\ running \in [Lanes -> BOOLEAN]
           /\ holder \in [Lanes -> Producers \cup {None}]

WorkerRecord ==
  {Idle} \cup [pc : {"check", "exiting"}, lane : Lanes, batch : {None}]
         \cup [pc : {"publish", "close", "release"}, lane : Lanes, batch : Producers]

WorkersOK == /\ wk \in [Workers -> WorkerRecord]
             /\ alive \in Int
             /\ doneBatch \subseteq Producers /\ cutOff \subseteq Producers

ClosingOK == /\ opened \in BOOLEAN /\ closed \in BOOLEAN /\ stopped \in BOOLEAN
             /\ closer \in Closed \cup {"idle", "producers", "workers", "stopping"}

HistoryOK == /\ generated \in [Lanes -> Seq(Producers)]
             /\ attempted \in [Lanes -> Seq(Producers)]

\* Every variable has its type, and no lane hands out more slots than it has.
TypeOK == ProducersOK /\ LanesOK /\ WorkersOK /\ ClosingOK /\ HistoryOK

Delivering(w) == wk[w].pc \in {"check", "publish", "close", "release"}

Publishing(w, l) == wk[w].pc = "publish" /\ wk[w].lane = l

\* At most one goroutine delivers a lane, and lane.running says whether one
\* does: a worker that stops and a command that starts the next one never
\* leave two of them, which would reorder batches, or none.
OneWorker ==
  /\ \A v, w \in Workers : Delivering(v) /\ Delivering(w) /\ wk[v].lane = wk[w].lane => v = w
  /\ \A l \in Lanes : running[l] <=> \E w \in Workers : Delivering(w) /\ wk[w].lane = l

\* Batches of a configuration are published in the order in which their
\* commands changed state, none is lost and none is published twice.
InGenerationOrder ==
  \A l \in Lanes :
    /\ \A w \in Workers :
         Publishing(w, l) => generated[l] = (attempted[l] \o <<wk[w].batch>>) \o queue[l]
    /\ (\A w \in Workers : ~Publishing(w, l)) => generated[l] = attempted[l] \o queue[l]

\* A queued batch has a worker, or a command that is about to start one.
NoStrandedBatch ==
  \A l \in Lanes : queue[l] # <<>> =>
    \/ running[l]
    \/ \E p \in hasEvents : LaneOf[p] = l /\ pc[p] \in {"unlocking", "unlocked"}

\* The commands and batches that own a slot of the lane.
SlotOwners(l) ==
  {p \in Producers : LaneOf[p] = l /\
     \/ pc[p] \in {"holding", "givingBack", "reserved", "locked"}
     \/ pc[p] \in {"unlocking", "unlocked", "started", "flushing"} /\ p \notin hasEvents
     \/ \E i \in DOMAIN queue[l] : queue[l][i] = p
     \/ \E w \in Workers : wk[w].batch = p}

\* Slots are neither leaked nor given back twice, on any path.
SlotAccounting ==
  \A l \in Lanes : slots[l] = Cardinality(SlotOwners(l)) /\ slots[l] <= Capacity

Reserved == {p \in Producers : pc[p] \in {"reserved", "locked", "unlocking",
                                         "unlocked", "started"}}

\* The WaitGroups count what CloseDelivery waits for, and once it waits for
\* the workers no command is left that could start one.
DrainSound ==
  /\ inFlight = Cardinality(Reserved)
  /\ alive = Cardinality({w \in Workers : wk[w] # Idle})
  /\ closer \in {"workers", "stopping", "clean", "late"} => Reserved = {}

\* When CloseDelivery reports success, every notification ever generated has
\* been published with a live context, and none can follow.
CleanCloseDrains ==
  closer = "clean" => /\ attempted = generated
                      /\ hasEvents \subseteq doneBatch
                      /\ cutOff = {}

\* What a subscriber and an operator may rely on.
Promise == INSTANCE Outbox WITH
             Batches <- Producers, gen <- generated, att <- attempted,
             shut <- (closer = "clean")

\* Every step of the lanes is a step of the outbox or invisible in it, and
\* scheduling that is fair to goroutines is fair to the notifications of every
\* configuration whose publishers answer: whatever is generated is handed to the
\* publishers, bounded, once and in order, and a clean close is the end.
KeepsFairPromise == Promise!OutboxFairSpec

\* Every command returns, also while its lane is closing, and also while the
\* publisher of another configuration hangs and its lane is full: lanes, slots,
\* locks and workers are each configuration's own.
CommandReturns ==
  \A p \in Producers : LaneOf[p] \in Served =>
    ((pc[p] # "idle") ~> (pc[p] \in {"refused", "done"}))
=============================================================================
