---------------------------- MODULE ServerProofs ----------------------------
(***************************************************************************)
(* Proofs about Server.  The process only decides when commands start and  *)
(* when CloseDelivery is called, so what is proved of Delivery holds in    *)
(* it; CleanExit and CutOffReported then follow from the order in which    *)
(* tasks end, deliveries are closed and run returns.                       *)
(***************************************************************************)
EXTENDS Server, DeliveryProofs

\* Every step of the process is a step of the lanes or invisible to them.
LEMMA ServerStepIsStep == [ServerNext]_allVars => [Next]_vars
BY DEF ServerNext, DeliverySteps, ServerSteps, Cancels, Drain, Closing, Next, allVars,
       Signal, ListenFails, BeginShutdown, ShutdownDone, ShutdownTimeout, Accepted,
       HandlerReturns, StartRound, EndRound, TickerStops, Exit

\* Inside the process the lanes keep whatever they promise: Server adds conditions
\* on when a command starts and CloseDelivery is called, and nothing else.
THEOREM ServerIsDelivery == ServerSpec => Spec
<1>1. ServerInit => Init
  BY DEF ServerInit
<1>. QED
  BY <1>1, ServerStepIsStep, PTL DEF ServerSpec, Spec

-----------------------------------------------------------------------------
(* The order in which the process ends *)

\* Types; the ticker has no Shutdown.
ProcessOK ==
  /\ task \in [Tasks -> {"running", "stopping", "returned"}] /\ task["ticker"] # "stopping"
  /\ errCh \subseteq Tasks /\ handlers \subseteq Requests /\ round \subseteq Ticks
  /\ result \in {"none", "ok", "error"}

\* A command that is on its way belongs to a handler or to the round of ticks.
OnlyStarted == \A p \in Producers : pc[p] = "idle" \/ Ended(p) \/ Started(p)

\* A task that has ended without an error leaves nothing behind.
TasksLeaveNothing ==
  /\ task["aws api"] = "returned" /\ handlers # {} => "aws api" \in errCh
  /\ task["ticker"] = "returned" => round = {}

\* Deliveries are closed after the last task.
ClosedLast == closed \/ closer # "idle" => AllReturned

\* Without an error, nothing was open when there was nothing to close.
NothingOpened == closer = "nothing" /\ errCh = {} => ~opened

\* Nothing happens in the lanes before deliveryClosing is made.
OpenedFirst == ~opened => \A p \in Producers : pc[p] = "idle"

ExitsLast ==
  /\ result # "none" => closer \in Closed
  /\ result = "ok" => errCh = {} /\ closer \in {"nothing", "clean"}

Shutdown == /\ ProcessOK /\ OnlyStarted /\ TasksLeaveNothing /\ ClosedLast
            /\ NothingOpened /\ OpenedFirst /\ ExitsLast

LEMMA ShutdownInit == ServerInit => Shutdown
<1>. SUFFICES ASSUME ServerInit PROVE Shutdown
  OBVIOUS
<1>1. ProcessOK /\ TasksLeaveNothing
  BY DEF ServerInit, ProcessOK, TasksLeaveNothing, Tasks
<1>2. OnlyStarted /\ OpenedFirst
  BY DEF ServerInit, Init, OnlyStarted, OpenedFirst
<1>3. closed = FALSE /\ closer = "idle" /\ result = "none"
  BY DEF ServerInit, Init
<1>4. ClosedLast /\ NothingOpened /\ ExitsLast
  BY <1>3 DEF ClosedLast, NothingOpened, ExitsLast
<1>. QED
  BY <1>1, <1>2, <1>4 DEF Shutdown

\* Only its own return ends the ticker.
LEMMA ServerTaskSteps ==
  ASSUME ProcessOK, NEW k \in Tasks,
         ListenFails(k) \/ BeginShutdown(k) \/ ShutdownDone(k) \/ ShutdownTimeout(k)
  PROVE  /\ k # "ticker" /\ task[k] # "returned" /\ errCh \subseteq errCh'
         /\ \E v \in {"stopping", "returned"} : task' = [task EXCEPT ![k] = v]
         /\ task'[k] = "returned" => k \in errCh' \/ ShutdownDone(k)
         /\ errCh' \subseteq Tasks /\ UNCHANGED <<handlers, round, result>>
<1>1. k # "ticker"
  BY DEF ListenFails, BeginShutdown, ShutdownDone, ShutdownTimeout, ProcessOK
<1>2. CASE ListenFails(k)
  BY <1>1, <1>2 DEF ListenFails, ReturnsError, ProcessOK
<1>3. CASE BeginShutdown(k)
  BY <1>1, <1>3 DEF BeginShutdown, ProcessOK
<1>4. CASE ShutdownDone(k)
  <2>1. task[k] = "stopping" /\ task' = [task EXCEPT ![k] = "returned"]
    BY <1>4 DEF ShutdownDone, Returns
  <2>2. UNCHANGED <<handlers, round, result, errCh>>
    BY <1>4 DEF ShutdownDone, Returns
  <2>. QED
    BY <1>1, <1>4, <2>1, <2>2 DEF ProcessOK
<1>5. CASE ShutdownTimeout(k)
  BY <1>1, <1>5 DEF ShutdownTimeout, ReturnsError, ProcessOK
<1>. QED
  BY <1>2, <1>3, <1>4, <1>5

LEMMA ProcessStep == ProcessOK /\ [ServerNext]_allVars => ProcessOK'
<1>. SUFFICES ASSUME ProcessOK, [ServerNext]_allVars PROVE ProcessOK'
  OBVIOUS
<1>1. UNCHANGED procVars => ProcessOK'
  BY DEF ProcessOK, procVars
<1>2. DeliverySteps \/ UNCHANGED allVars => UNCHANGED procVars
  BY DEF DeliverySteps, allVars
<1>3. CASE Signal \/ EndRound \/ TickerStops \/ Exit
  BY <1>3 DEF Signal, EndRound, TickerStops, Exit, Returns, ProcessOK
<1>4. ASSUME NEW k \in Tasks,
             ListenFails(k) \/ BeginShutdown(k) \/ ShutdownDone(k) \/ ShutdownTimeout(k)
      PROVE  ProcessOK'
  <2>1. PICK v \in {"stopping", "returned"} : task' = [task EXCEPT ![k] = v]
    BY <1>4, ServerTaskSteps
  <2>2. /\ k # "ticker" /\ errCh' \subseteq Tasks /\ UNCHANGED <<handlers, round, result>>
    BY <1>4, ServerTaskSteps
  <2>3. task'["ticker"] # "stopping"
    BY <2>1, <2>2 DEF ProcessOK, Tasks
  <2>. QED
    BY <2>1, <2>2, <2>3 DEF ProcessOK
<1>5. ASSUME NEW p \in Requests, Accepted(p) \/ HandlerReturns(p) PROVE ProcessOK'
  BY <1>5 DEF Accepted, HandlerReturns, ProcessOK
<1>6. ASSUME NEW ticks \in SUBSET Ticks, StartRound(ticks) PROVE ProcessOK'
  BY <1>6 DEF StartRound, ProcessOK
<1>. QED
  BY <1>1, <1>2, <1>3, <1>4, <1>5, <1>6 DEF ServerNext, ServerSteps

\* Commands move only in the lanes, and only when they are started.
LEMMA CommandMoves ==
  ASSUME TypeOK, [ServerNext]_allVars
  PROVE  \/ UNCHANGED pc
         \/ /\ UNCHANGED procVars
            /\ \E p \in Producers : Started(p) /\ \A q \in Producers : q # p => pc'[q] = pc[q]
<1>1. ASSUME NEW p \in Producers, Started(p), Enter(p) \/ Running(p)
      PROVE  \A q \in Producers : q # p => pc'[q] = pc[q]
  BY <1>1 DEF Running, Enter, TakeSlot, GiveUp, Reserve, GiveBack, Lock, Enqueue, NoEvents,
              Unlock, StartWorker, StartWhen, ProducerDone, Flush, Goto, TypeOK, ProducersOK
<1>2. ASSUME NEW p \in Producers, Cancels(p) PROVE UNCHANGED pc
  BY <1>2 DEF Cancels, CancelRequest
<1>3. ASSUME NEW w \in Workers, Worker(w) PROVE UNCHANGED pc
  BY <1>3 DEF Worker, TakeBatch, Publish, CloseBatch, Release, WorkerDone
<1>4. Drain \/ Closing => UNCHANGED pc
  BY DEF Drain, Closing, BeginClose, ProducersGone, WorkersGone, DrainTimeout, CloseStep
<1>5. ServerSteps \/ UNCHANGED allVars => UNCHANGED pc
  BY DEF ServerSteps, allVars, vars, Signal, ListenFails, BeginShutdown, ShutdownDone,
         ShutdownTimeout, Accepted, HandlerReturns, StartRound, EndRound, TickerStops, Exit
<1>. QED
  BY <1>1, <1>2, <1>3, <1>4, <1>5 DEF ServerNext, DeliverySteps

LEMMA OnlyStartedStep == TypeOK /\ OnlyStarted /\ [ServerNext]_allVars => OnlyStarted'
<1>. SUFFICES ASSUME TypeOK, OnlyStarted, [ServerNext]_allVars PROVE OnlyStarted'
  OBVIOUS
<1>1. CASE UNCHANGED procVars
  BY <1>1, CommandMoves DEF OnlyStarted, Ended, Started, procVars
<1>2. CASE UNCHANGED <<pc, handlers, round>>
  BY <1>2 DEF OnlyStarted, Ended, Started
<1>3. ASSUME NEW p \in Requests, Accepted(p) \/ HandlerReturns(p) PROVE OnlyStarted'
  BY <1>3 DEF Accepted, HandlerReturns, OnlyStarted, Ended, Started, vars
<1>4. ASSUME NEW ticks \in SUBSET Ticks, StartRound(ticks) PROVE OnlyStarted'
  BY <1>4 DEF StartRound, OnlyStarted, Ended, Started, vars
<1>5. CASE EndRound
  BY <1>5 DEF EndRound, OnlyStarted, Ended, Started, vars
<1>6. DeliverySteps \/ UNCHANGED allVars => UNCHANGED procVars
  BY DEF DeliverySteps, allVars
<1>7. Signal \/ TickerStops \/ Exit => UNCHANGED <<pc, handlers, round>>
  BY DEF Signal, TickerStops, Exit, vars
<1>8. ASSUME NEW k \in Tasks,
             ListenFails(k) \/ BeginShutdown(k) \/ ShutdownDone(k) \/ ShutdownTimeout(k)
      PROVE  UNCHANGED <<pc, handlers, round>>
  BY <1>8 DEF ListenFails, BeginShutdown, ShutdownDone, ShutdownTimeout, vars
<1>. QED
  BY <1>1, <1>2, <1>3, <1>4, <1>5, <1>6, <1>7, <1>8 DEF ServerNext, ServerSteps

\* A task that has returned does nothing more.
LEMMA TaskSteps ==
  ASSUME ProcessOK, [ServerNext]_allVars
  PROVE  /\ \A k \in Tasks : task[k] = "returned" => task'[k] = "returned"
         /\ errCh \subseteq errCh'
         /\ \A k \in Tasks : task[k] # "returned" /\ task'[k] = "returned" =>
              \/ k \in errCh'
              \/ ShutdownDone(k) \/ (k = "ticker" /\ TickerStops)
<1>1. CASE DeliverySteps \/ UNCHANGED allVars
  BY <1>1 DEF DeliverySteps, procVars, allVars
<1>2. CASE Signal \/ EndRound \/ Exit
  BY <1>2 DEF Signal, EndRound, Exit
<1>3. CASE TickerStops
  BY <1>3 DEF TickerStops, Returns, ProcessOK
<1>4. ASSUME NEW k \in Tasks,
             ListenFails(k) \/ BeginShutdown(k) \/ ShutdownDone(k) \/ ShutdownTimeout(k)
      PROVE  /\ task[k] # "returned" /\ errCh \subseteq errCh'
             /\ \A j \in Tasks : j # k => task'[j] = task[j]
             /\ task'[k] = "returned" => k \in errCh' \/ ShutdownDone(k)
  <2>1. PICK v \in {"stopping", "returned"} : task' = [task EXCEPT ![k] = v]
    BY <1>4, ServerTaskSteps
  <2>. QED
    BY <1>4, <2>1, ServerTaskSteps DEF ProcessOK
<1>5. ASSUME NEW p \in Requests, Accepted(p) \/ HandlerReturns(p)
      PROVE  UNCHANGED <<task, errCh>>
  BY <1>5 DEF Accepted, HandlerReturns
<1>6. ASSUME NEW ticks \in SUBSET Ticks, StartRound(ticks) PROVE UNCHANGED <<task, errCh>>
  BY <1>6 DEF StartRound
<1>. QED
  BY <1>1, <1>2, <1>3, <1>4, <1>5, <1>6 DEF ServerNext, ServerSteps

LEMMA LeaveNothingStep ==
  ASSUME ProcessOK, TasksLeaveNothing, [ServerNext]_allVars
  PROVE  TasksLeaveNothing'
<1>1. {"aws api", "ticker"} \subseteq Tasks
  BY DEF Tasks
<1>2. ASSUME task'["aws api"] = "returned", handlers' # {} PROVE "aws api" \in errCh'
  <2>1. CASE task["aws api"] = "returned"
    <3>1. handlers # {}
      BY <1>2, <2>1
      DEF ServerNext, DeliverySteps, ServerSteps, procVars, allVars, Signal, ListenFails,
          BeginShutdown, ShutdownDone, ShutdownTimeout, Accepted, HandlerReturns,
          StartRound, EndRound, TickerStops, Exit
    <3>. QED
      BY <1>1, <2>1, <3>1, TaskSteps DEF TasksLeaveNothing
  <2>2. CASE task["aws api"] # "returned"
    <3>1. "aws api" \in errCh' \/ ShutdownDone("aws api")
      BY <1>1, <1>2, <2>2, TaskSteps
    <3>. QED
      BY <1>2, <3>1 DEF ShutdownDone
  <2>. QED
    BY <2>1, <2>2
<1>3. ASSUME task'["ticker"] = "returned" PROVE round' = {}
  <2>1. CASE task["ticker"] = "returned"
    BY <2>1
    DEF TasksLeaveNothing, ServerNext, DeliverySteps, ServerSteps, procVars, allVars, Signal,
        ListenFails, BeginShutdown, ShutdownDone, ShutdownTimeout, Accepted, HandlerReturns,
        StartRound, EndRound, TickerStops, Exit
  <2>2. CASE task["ticker"] # "returned"
    <3>1. TickerStops
      <4>1. ASSUME NEW k \in Tasks,
                   ListenFails(k) \/ BeginShutdown(k) \/ ShutdownDone(k) \/ ShutdownTimeout(k)
            PROVE  task'["ticker"] = task["ticker"]
        <5>1. PICK v \in {"stopping", "returned"} : task' = [task EXCEPT ![k] = v]
          BY <4>1, ServerTaskSteps
        <5>. QED
          BY <1>1, <4>1, <5>1, ServerTaskSteps DEF ProcessOK
      <4>. QED
        BY <1>3, <2>2, <4>1
        DEF ServerNext, DeliverySteps, ServerSteps, procVars, allVars, Signal, Accepted,
            HandlerReturns, StartRound, EndRound, Exit
    <3>. QED
      BY <3>1 DEF TickerStops
  <2>. QED
    BY <2>1, <2>2
<1>. QED
  BY <1>2, <1>3 DEF TasksLeaveNothing

\* Only Drain closes deliveries, and only after the last task.
LEMMA ClosingSteps ==
  ASSUME [ServerNext]_allVars
  PROVE  \/ UNCHANGED <<closed, closer>>
         \/ AllReturned /\ BeginClose /\ UNCHANGED procVars
         \/ closer \notin {"idle", "nothing"} /\ closer' # "nothing" /\ UNCHANGED <<closed, opened, procVars>>
<1>1. ASSUME NEW p \in Producers, Enter(p) \/ Running(p) \/ CancelRequest(p)
      PROVE  UNCHANGED <<closed, closer>>
  BY <1>1 DEF Running, Enter, TakeSlot, GiveUp, Reserve, GiveBack, Lock, Enqueue, NoEvents,
              Unlock, StartWorker, StartWhen, ProducerDone, Flush, CancelRequest, shutVars
<1>2. ASSUME NEW w \in Workers, Worker(w) PROVE UNCHANGED <<closed, closer>>
  BY <1>2 DEF Worker, TakeBatch, Publish, CloseBatch, Release, WorkerDone, shutVars
<1>3. Closing => closer \notin {"idle", "nothing"} /\ closer' # "nothing" /\ UNCHANGED <<closed, opened>>
  BY DEF Closing, ProducersGone, WorkersGone, DrainTimeout, CloseStep
<1>4. ServerSteps \/ UNCHANGED allVars => UNCHANGED <<closed, closer>>
  BY DEF ServerSteps, allVars, vars, shutVars, Signal, ListenFails, BeginShutdown, ShutdownDone,
         ShutdownTimeout, Accepted, HandlerReturns, StartRound, EndRound, TickerStops, Exit
<1>. QED
  BY <1>1, <1>2, <1>3, <1>4 DEF ServerNext, DeliverySteps, Cancels, Drain

LEMMA ClosedLastStep == ProcessOK /\ ClosedLast /\ [ServerNext]_allVars => ClosedLast'
<1>. SUFFICES ASSUME ProcessOK, ClosedLast, [ServerNext]_allVars PROVE ClosedLast'
  OBVIOUS
<1>1. AllReturned => AllReturned'
  BY TaskSteps DEF AllReturned
<1>. QED
  BY <1>1, ClosingSteps DEF ClosedLast

\* The first command makes deliveryClosing, and it needs a task to start it.
LEMMA OpeningSteps ==
  ASSUME ProcessOK, [ServerNext]_allVars
  PROVE  \/ opened' = opened
         \/ \E p \in Producers : Started(p) /\ Enter(p) /\ UNCHANGED procVars
<1>1. ASSUME NEW p \in Producers, Running(p) \/ CancelRequest(p) PROVE opened' = opened
  BY <1>1 DEF Running, TakeSlot, GiveUp, Reserve, GiveBack, Lock, Enqueue, NoEvents, Unlock,
              StartWorker, StartWhen, ProducerDone, Flush, CancelRequest, shutVars
<1>2. ASSUME NEW w \in Workers, Worker(w) PROVE opened' = opened
  BY <1>2 DEF Worker, TakeBatch, Publish, CloseBatch, Release, WorkerDone, shutVars
<1>3. Closing \/ Drain => opened' = opened
  BY DEF Closing, Drain, BeginClose, ProducersGone, WorkersGone, DrainTimeout, CloseStep
<1>4. ServerSteps \/ UNCHANGED allVars => opened' = opened
  BY DEF ServerSteps, allVars, vars, shutVars, Signal, ListenFails, BeginShutdown, ShutdownDone,
         ShutdownTimeout, Accepted, HandlerReturns, StartRound, EndRound, TickerStops, Exit
<1>. QED
  BY <1>1, <1>2, <1>3, <1>4 DEF ServerNext, DeliverySteps, Cancels

\* Once every task has returned without an error, nothing is left to start a
\* command.
LEMMA NothingLeft ==
  ASSUME TasksLeaveNothing, AllReturned, "aws api" \notin errCh
  PROVE  handlers = {} /\ round = {} /\ \A p \in Producers : ~Started(p)
BY DEF TasksLeaveNothing, AllReturned, Tasks, Started

LEMMA NothingOpenedStep ==
  ASSUME ProcessOK, TasksLeaveNothing, ClosedLast, NothingOpened, [ServerNext]_allVars
  PROVE  NothingOpened'
<1>. SUFFICES ASSUME closer' = "nothing", errCh' = {} PROVE ~opened'
  BY DEF NothingOpened
<1>1. errCh = {}
  BY TaskSteps
<1>2. CASE closer = "nothing"
  BY <1>1, <1>2, OpeningSteps, NothingLeft DEF NothingOpened, ClosedLast
<1>3. CASE closer # "nothing"
  BY <1>3, ClosingSteps DEF BeginClose
<1>. QED
  BY <1>2, <1>3

LEMMA OpenedFirstStep ==
  ASSUME TypeOK, ProcessOK, OpenedFirst, [ServerNext]_allVars
  PROVE  OpenedFirst'
<1>. SUFFICES ASSUME ~opened', NEW p \in Producers PROVE pc'[p] = "idle"
  BY DEF OpenedFirst
<1>1. \A q \in Producers : ~Enter(q)
  BY DEF Enter
<1>2. ~opened
  BY <1>1, OpeningSteps
<1>3. \A q \in Producers : pc[q] = "idle"
  BY <1>2 DEF OpenedFirst
<1>4. \A q \in Producers : ~Running(q)
  BY <1>3 DEF Running, TakeSlot, GiveUp, Reserve, GiveBack, Lock, Enqueue, NoEvents, Unlock,
              StartWorker, StartWhen, ProducerDone, Flush
<1>5. \/ UNCHANGED pc \/ \E q \in Producers : Enter(q) \/ Running(q)
  BY DEF ServerNext, DeliverySteps, ServerSteps, Cancels, CancelRequest, Worker, TakeBatch,
         Publish, CloseBatch, Release, WorkerDone, Drain, Closing, BeginClose, ProducersGone,
         WorkersGone, DrainTimeout, CloseStep, allVars, vars, Signal, ListenFails,
         BeginShutdown, ShutdownDone, ShutdownTimeout, Accepted, HandlerReturns, StartRound,
         EndRound, TickerStops, Exit
<1>. QED
  BY <1>1, <1>3, <1>4, <1>5

LEMMA ExitsLastStep == ExitsLast /\ [ServerNext]_allVars => ExitsLast'
<1>. SUFFICES ASSUME ExitsLast, [ServerNext]_allVars PROVE ExitsLast'
  OBVIOUS
<1>1. CASE UNCHANGED allVars
  <2>1. UNCHANGED <<result, errCh, closer>>
    BY <1>1 DEF allVars, procVars, vars, shutVars
  <2>. QED
    BY <2>1 DEF ExitsLast
<1>2. CASE Exit /\ result = "none"
  BY <1>2 DEF Exit, ExitsLast, vars, shutVars
<1>3. CASE ServerNext /\ ~Exit
  <2>1. result' = "none"
    BY <1>3 DEF ServerNext, DeliverySteps, procVars, ServerSteps, Signal, ListenFails,
                BeginShutdown, ShutdownDone, ShutdownTimeout, Accepted, HandlerReturns,
                StartRound, EndRound, TickerStops
  <2>. QED
    BY <2>1 DEF ExitsLast
<1>. QED
  BY <1>1, <1>2, <1>3 DEF ServerNext

LEMMA ShutdownAlways == ServerSpec => []Shutdown
<1>1. TypeOK /\ Shutdown /\ [ServerNext]_allVars => Shutdown'
  BY ProcessStep, OnlyStartedStep, LeaveNothingStep, ClosedLastStep, NothingOpenedStep,
     OpenedFirstStep, ExitsLastStep DEF Shutdown
<1>. QED
  BY <1>1, ShutdownInit, ServerIsDelivery, TypeCorrect, PTL DEF ServerSpec

-----------------------------------------------------------------------------
(* What run reports *)

\* Before deliveryClosing is made, the lanes are empty.
LEMMA UnopenedEmpty ==
  ASSUME TypeOK, InGenerationOrder, GeneratedKnown, Placed, OpenedFirst, ~opened
  PROVE  attempted = generated
<1>1. hasEvents = {}
  BY DEF OpenedFirst, Placed, AfterLock, TypeOK, ProducersOK
<1>2. ASSUME NEW l \in Lanes PROVE attempted[l] = generated[l]
  <2>1. /\ attempted[l] \in Seq(Producers) /\ queue[l] \in Seq(Producers)
        /\ generated[l] \in Seq(Producers)
    BY DEF TypeOK, LanesOK, HistoryOK
  <2>2. Len(generated[l]) = 0
    BY <1>1, <2>1 DEF GeneratedKnown
  <2>3. generated[l] = <<>>
    BY <2>1, <2>2
  <2>4. \A w \in Workers : ~Publishing(w, l)
    BY <1>1, WorkerShape, DeliveryConstants
    DEF Publishing, Placed, WorkersPlaced, DeliveryConstants
  <2>5. generated[l] = attempted[l] \o queue[l]
    BY <2>4 DEF InGenerationOrder
  <2>. QED
    BY <2>1, <2>3, <2>5, ConcatEqualIffEmpty, ConcatSimplifications
<1>. QED
  BY <1>2 DEF TypeOK, HistoryOK

LEMMA CleanExitFromParts ==
  ASSUME TypeOK, InGenerationOrder, GeneratedKnown, Placed, CleanCloseDrains, CutOffLast, Shutdown
  PROVE  CleanExit
<1>. SUFFICES ASSUME result = "ok"
              PROVE  /\ handlers = {} /\ \A p \in Producers : pc[p] = "idle" \/ Ended(p)
                     /\ attempted = generated /\ cutOff = {}
  BY DEF CleanExit
<1>1. errCh = {} /\ closer \in {"nothing", "clean"} /\ AllReturned
  BY DEF Shutdown, ExitsLast, ClosedLast
<1>2. handlers = {} /\ \A p \in Producers : pc[p] = "idle" \/ Ended(p)
  BY <1>1, NothingLeft DEF Shutdown, OnlyStarted
<1>3. CASE closer = "clean"
  BY <1>2, <1>3 DEF CleanCloseDrains
<1>4. CASE closer = "nothing"
  <2>1. attempted = generated
    BY <1>1, <1>4, UnopenedEmpty DEF Shutdown, NothingOpened
  <2>. QED
    BY <1>2, <1>4, <2>1 DEF CutOffLast
<1>. QED
  BY <1>1, <1>3, <1>4

\* A run that returns nil has answered every request it accepted, ended every tick
\* it began, and published every notification before deliveries were cancelled,
\* in whatever order signals, failures and timeouts came.
THEOREM CleanExitAlways == ServerSpec => []CleanExit
<1>1. TypeOK /\ InGenerationOrder /\ GeneratedKnown /\ Placed /\ CleanCloseDrains
        /\ CutOffLast /\ Shutdown => CleanExit
  BY CleanExitFromParts
<1>. QED
  BY <1>1, ServerIsDelivery, ShutdownAlways, TypeCorrect, OrderAlways, GeneratedAlways,
     PlacedAlways, CleanCloseAlways, CleanParts, PTL

\* When deliveries close under a request, run reports that the API server did not
\* shut down in time or failed: no request loses its notifications silently.
THEOREM CutOffReportedAlways == ServerSpec => []CutOffReported
<1>1. Shutdown => CutOffReported
  BY NothingLeft DEF Shutdown, ClosedLast, CutOffReported
<1>. QED
  BY <1>1, ShutdownAlways, PTL
=============================================================================
