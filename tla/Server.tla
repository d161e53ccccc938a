------------------------------- MODULE Server -------------------------------
(***************************************************************************)
(* The process around the matchmaking service (cmd/fmlocal run): the AWS   *)
(* API server, the web UI and the ticker run until a signal or the failure *)
(* of one of them ends their context, then deliveries are drained and run  *)
(* returns.  Composes Delivery: a producer is an API request or a tick,    *)
(* and starts when the API server or the ticker starts it.                 *)
(*                                                                         *)
(* Requests that only read do not touch the delivery lanes and are left    *)
(* out; those of the web UI only matter for its Shutdown.                  *)
(***************************************************************************)
EXTENDS Delivery

CONSTANT Requests   \* the producers that are API requests; the others are ticks

ASSUME ServerConstants == Requests \subseteq Producers

Ticks == Producers \ Requests
Tasks == {"aws api", "webui", "ticker"}

VARIABLES
  ctxDone,   \* the context of run is done
  task,      \* the goroutines of run
  handlers,  \* requests whose handler has not returned
  round,     \* ticks the ticker waits for
  errCh,     \* tasks that sent an error
  result     \* what run returned

procVars == <<ctxDone, task, handlers, round, errCh, result>>
allVars == <<vars, procVars>>

ServerInit ==
  /\ Init
  /\ ctxDone = FALSE
  /\ task = [k \in Tasks |-> "running"]
  /\ handlers = {} /\ round = {} /\ errCh = {}
  /\ result = "none"

Ended(p) == pc[p] \in {"refused", "done"}

-----------------------------------------------------------------------------
(* The tasks.  A task that returns nil, http.ErrServerClosed or
   context.Canceled just ends. *)

Returns(k) == /\ task' = [task EXCEPT ![k] = "returned"]
              /\ UNCHANGED <<ctxDone, errCh>>

\* Fault: the other tasks are not told.
ReturnsError_Quiet(k) == /\ task' = [task EXCEPT ![k] = "returned"]
                         /\ errCh' = errCh \cup {k}
                         /\ UNCHANGED ctxDone

\* Any other error is kept for run, and ends the context of the other tasks.
ReturnsError(k) == /\ task' = [task EXCEPT ![k] = "returned"]
                   /\ errCh' = errCh \cup {k}
                   /\ ctxDone' = TRUE

Signal ==
  /\ ~ctxDone
  /\ ctxDone' = TRUE
  /\ UNCHANGED <<vars, task, handlers, round, errCh, result>>

\* ListenAndServe fails, for instance because the port is taken.
ListenFails(k) ==
  /\ k \in {"aws api", "webui"} /\ task[k] = "running"
  /\ ReturnsError(k)
  /\ UNCHANGED <<vars, handlers, round, result>>

\* Server.Run calls Shutdown: no new connection is accepted.
BeginShutdown(k) ==
  /\ k \in {"aws api", "webui"} /\ task[k] = "running" /\ ctxDone
  /\ task' = [task EXCEPT ![k] = "stopping"]
  /\ UNCHANGED <<vars, ctxDone, handlers, round, errCh, result>>

ShutdownDone(k) ==
  /\ task[k] = "stopping"
  /\ k = "aws api" => handlers = {}
  /\ Returns(k)
  /\ UNCHANGED <<vars, handlers, round, result>>

\* Fault: Shutdown has no timeout.
ShutdownTimeout_Waits(k) ==
  /\ task[k] = "stopping"
  /\ k = "aws api" => handlers = {}
  /\ ReturnsError(k)
  /\ UNCHANGED <<vars, handlers, round, result>>

\* Fault: the timeout of Shutdown is not an error.
ShutdownTimeout_Ignored(k) ==
  /\ task[k] = "stopping"
  /\ Returns(k)
  /\ UNCHANGED <<vars, handlers, round, result>>

\* Shutdown gives up after five seconds and the connections are closed; the
\* handlers are left behind.
ShutdownTimeout(k) ==
  /\ task[k] = "stopping"
  /\ ReturnsError(k)
  /\ UNCHANGED <<vars, handlers, round, result>>

-----------------------------------------------------------------------------
(* API requests and ticks *)

\* The handler of a request starts.
Accepted(p) ==
  /\ p \in Requests \ handlers /\ pc[p] = "idle"
  /\ task["aws api"] = "running"
  /\ handlers' = handlers \cup {p}
  /\ UNCHANGED <<vars, ctxDone, task, round, errCh, result>>

\* The handler returns, with the answer of its command or because the request
\* was not valid.
HandlerReturns(p) ==
  /\ p \in handlers
  /\ pc[p] = "idle" \/ Ended(p)
  /\ handlers' = handlers \ {p}
  /\ UNCHANGED <<vars, ctxDone, task, round, errCh, result>>

\* Ticker.Run starts a tick for every configuration.
StartRound(ticks) ==
  /\ task["ticker"] = "running"
  /\ round = {} /\ ticks # {}
  /\ \A p \in ticks : pc[p] = "idle"
  /\ \A p, q \in ticks : LaneOf[p] = LaneOf[q] => p = q
  /\ round' = ticks
  /\ UNCHANGED <<vars, ctxDone, task, handlers, errCh, result>>

\* wg.Wait returns.
EndRound ==
  /\ round # {} /\ \A p \in round : Ended(p)
  /\ round' = {}
  /\ UNCHANGED <<vars, ctxDone, task, handlers, errCh, result>>

TickerStops ==
  /\ task["ticker"] = "running" /\ ctxDone
  /\ round = {}
  /\ Returns("ticker")
  /\ UNCHANGED <<vars, handlers, round, result>>

Started(p) == p \in handlers \cup round

\* A tick is cancelled with the context of run, a request when its client
\* goes away or its connection is closed.
Cancels(p) == /\ IF p \in Requests THEN p \in handlers ELSE ctxDone
              /\ CancelRequest(p)

-----------------------------------------------------------------------------
(* run *)

AllReturned == \A k \in Tasks : task[k] = "returned"

\* Fault: deliveries are closed as soon as the context ends.
Drain_Early == ctxDone /\ BeginClose

\* wg.Wait returns, and CloseDelivery is called.
Drain == AllReturned /\ BeginClose

Exit ==
  /\ closer \in Closed /\ result = "none"
  /\ result' = IF errCh = {} /\ closer \in {"nothing", "clean"} THEN "ok" ELSE "error"
  /\ UNCHANGED <<vars, ctxDone, task, handlers, round, errCh>>

Closing == ProducersGone \/ WorkersGone \/ DrainTimeout

\* The steps of Delivery, for commands that have been started.
DeliverySteps ==
  /\ \/ \E p \in Producers : Started(p) /\ (Enter(p) \/ Running(p))
     \/ \E p \in Producers : Cancels(p)
     \/ \E w \in Workers : Worker(w)
     \/ Drain \/ Closing
  /\ UNCHANGED procVars

ServerSteps ==
  \/ Signal
  \/ \E k \in Tasks : ListenFails(k) \/ BeginShutdown(k) \/ ShutdownDone(k) \/ ShutdownTimeout(k)
  \/ \E p \in Requests : Accepted(p) \/ HandlerReturns(p)
  \/ \E ticks \in SUBSET Ticks : StartRound(ticks)
  \/ EndRound \/ TickerStops \/ Exit

\* Nothing runs after the process has ended.
ServerNext == result = "none" /\ (DeliverySteps \/ ServerSteps)

ServerSpec == ServerInit /\ [][ServerNext]_allVars

\* A step of Delivery while the process runs.
Up(A) == result = "none" /\ A /\ UNCHANGED procVars

\* Goroutines are scheduled and timers fire.  Nothing is owed by the clients:
\* a handler may wait for its request for ever.
ServerFairSpec ==
  /\ ServerSpec
  /\ \A p \in Ticks : WF_allVars(Up(p \in round /\ (Enter(p) \/ Running(p))))
  /\ \A p \in Requests : WF_allVars(Up(p \in handlers /\ Running(p)))
  /\ \A w \in Workers : WF_allVars(Up(Worker(w)))
  /\ WF_allVars(Up(Drain)) /\ WF_allVars(Up(Closing))
  /\ \A k \in Tasks : WF_allVars(BeginShutdown(k)) /\ WF_allVars(ShutdownTimeout(k))
  /\ WF_allVars(EndRound) /\ WF_allVars(TickerStops) /\ WF_allVars(Exit)

-----------------------------------------------------------------------------
(* Properties *)

\* A process that ends without an error has answered every request it
\* accepted, ended every tick it began, and published everything either of them
\* generated before deliveries were cancelled.
CleanExit ==
  result = "ok" => /\ handlers = {}
                   /\ \A p \in Producers : pc[p] = "idle" \/ Ended(p)
                   /\ attempted = generated /\ cutOff = {}

\* A request is cut off by the shutdown of deliveries only when Shutdown has
\* not waited for its handler, which run then reports.
CutOffReported ==
  closed /\ (\E p \in handlers : ~Ended(p)) => "aws api" \in errCh

\* As long as the process lives, a command that has been started ends, whether
\* it gets the slot another one holds, its client goes away, or deliveries close.
StartedEnd ==
  \A p \in Producers :
    (Started(p) /\ pc[p] # "idle") ~> (Ended(p) \/ result # "none")

\* A signal ends the process, whatever clients and subscribers do, and so does
\* the failure of one server, with an error.
ProcessEnds == /\ ctxDone ~> (result # "none")
               /\ (errCh # {}) ~> (result = "error")
=============================================================================
