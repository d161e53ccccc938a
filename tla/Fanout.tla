------------------------------- MODULE Fanout -------------------------------
(***************************************************************************)
(* How a delivery worker publishes the events of one batch                 *)
(* (deliveryLane.deliver, Service.publishOne) to the publishers of a       *)
(* configuration: notification.Multi over optionally Filtered SNS and SQS  *)
(* publishers.  All children of one event share the context that deliver   *)
(* makes for it, whose deadline is deliveryTimeout away.                   *)
(*                                                                         *)
(* A publish to SNS is one POST, which http.Client does not repeat (the    *)
(* redirects it follows belong to it).  The SQS client keeps the SDK's     *)
(* retryer: one publish is up to MaxAttempts requests, within the same     *)
(* context.                                                                *)
(*                                                                         *)
(* Abstracted data: an event is its name, the payload and its translation  *)
(* are left out.  snsHTTPTimeout is as long as deliveryTimeout and starts  *)
(* later, and the SQS client has no timeout of its own, so only the        *)
(* context ends a call that gets no answer.  Which errors the SDK repeats  *)
(* and how long it waits before are a choice.                              *)
(*                                                                         *)
(* Composed with Startup: the publishers are those that a process with the *)
(* configuration file doc has bound to the configuration.                  *)
(***************************************************************************)
EXTENDS Startup

CONSTANTS
  Batches,      \* the batches of events a worker may take
  MaxAttempts   \* requests in one call of the SQS client, 3 by default

ASSUME FanoutConstants == /\ Batches \subseteq Seq(EventNames)
                          /\ MaxAttempts \in Nat \ {0}

VARIABLES
  doc,      \* the configuration file of the process
  config,   \* the configuration the events belong to, a position in doc
  events,   \* batch.events
  multi,    \* the children of Multi: kind, and Filtered.allow as onlyEvents
  at,       \* the event being published
  child,    \* the next child of Multi
  tries,    \* requests of the call in progress that failed and are repeated
  live,     \* the event's context is not done
  closing,  \* deliveryCancel has been called
  errs,     \* children whose Publish failed for the event
  sent,     \* what was sent to each destination, as positions in events
  got,      \* what each destination has received
  warned    \* events logged as failed

vars == <<doc, config, events, multi, at, child, tries, live, closing, errs, sent, got, warned>>

Targets == doc.configurations[config].targets

\* The ids of the children of Multi, or none: Noop.
Bound == publisherByConfig(doc, doc.configurations[config].name)

Children    == DOMAIN multi
NumChildren == Len(multi)

Init ==
  /\ doc \in {d \in Documents : LoadFile(d)}
  /\ config \in DOMAIN doc.configurations
  /\ events \in Batches
  /\ multi = [c \in DOMAIN Bound |-> buildPublishers(doc)[Bound[c]]]
  /\ at = 1 /\ child = 1 /\ tries = 0
  /\ live = TRUE /\ closing = FALSE
  /\ errs = {} /\ warned = {}
  /\ sent = [c \in Children |-> <<>>]
  /\ got = [c \in Children |-> {}]

Busy == at <= Len(events)

\* Filtered.Publish hands the event to the publisher it wraps.
Forwards(c, i) == multi[c].onlyEvents = {} \/ events[i] \in multi[c].onlyEvents

\* How many requests one Publish of a child may be.
Attempts(c) == IF multi[c].kind = "sqs_eventbridge" THEN MaxAttempts ELSE 1

\* Fault: a child that fails ends the fan-out.
Return_Stops(failed) ==
  /\ child' = IF failed THEN NumChildren + 1 ELSE child + 1
  /\ tries' = 0
  /\ errs' = IF failed THEN errs \cup {child} ELSE errs

\* Multi.Publish notes an error and goes on to the next child.
Return(failed) ==
  /\ child' = child + 1
  /\ tries' = 0
  /\ errs' = IF failed THEN errs \cup {child} ELSE errs

Skip ==
  /\ Busy /\ child \in Children /\ ~Forwards(child, at)
  /\ Return(FALSE)
  /\ UNCHANGED <<doc, config, events, multi, at, live, closing, sent, got, warned>>

\* A request may fail before or after the destination has the event.  Only one
\* that failed is sent again.  It, and the wait before it is sent again, may
\* take all the time there is.
Outcomes == {o \in [arrived : BOOLEAN, failed : BOOLEAN, again : BOOLEAN, late : BOOLEAN] :
               /\ ~o.failed => o.arrived
               /\ o.again => o.failed}

\* One request of Publish of an SNS or SQS publisher.
Send(o) ==
  /\ Busy /\ child \in Children /\ Forwards(child, at) /\ live
  /\ o.again => tries + 1 < Attempts(child)
  /\ sent' = [sent EXCEPT ![child] = Append(@, at)]
  /\ got' = IF o.arrived THEN [got EXCEPT ![child] = @ \cup {at}] ELSE got
  /\ live' = ~o.late
  /\ IF o.again THEN tries' = tries + 1 /\ UNCHANGED <<child, errs>>
                ELSE Return(o.failed)
  /\ UNCHANGED <<doc, config, events, multi, at, closing, warned>>

\* With a context that is done, http.Client and the SQS client send nothing, or
\* nothing more.
SendNothing ==
  /\ Busy /\ child \in Children /\ Forwards(child, at) /\ ~live
  /\ Return(TRUE)
  /\ UNCHANGED <<doc, config, events, multi, at, live, closing, sent, got, warned>>

\* Fault: a failure is logged only when no child succeeded.
EventDone_AllFailed ==
  /\ Busy /\ child \notin Children
  /\ at' = at + 1 /\ child' = 1 /\ errs' = {}
  /\ warned' = IF errs = Children THEN warned \cup {at} ELSE warned
  /\ live' = ~closing
  /\ UNCHANGED <<doc, config, events, multi, tries, closing, sent, got>>

\* Fault: an event is published again until no child fails.
EventDone_Retries ==
  /\ Busy /\ child \notin Children
  /\ at' = IF errs # {} THEN at ELSE at + 1
  /\ child' = 1 /\ errs' = {}
  /\ warned' = IF errs # {} THEN warned \cup {at} ELSE warned
  /\ live' = ~closing
  /\ UNCHANGED <<doc, config, events, multi, tries, closing, sent, got>>

\* publishOne logs the joined errors, and the next event gets a context of its
\* own.
EventDone ==
  /\ Busy /\ child \notin Children
  /\ at' = at + 1 /\ child' = 1 /\ errs' = {}
  /\ warned' = IF errs # {} THEN warned \cup {at} ELSE warned
  /\ live' = ~closing
  /\ UNCHANGED <<doc, config, events, multi, tries, closing, sent, got>>

\* CloseDelivery gives up: deliveryContext ends, and with it the event's.
CancelDelivery ==
  /\ ~closing
  /\ closing' = TRUE /\ live' = FALSE
  /\ UNCHANGED <<doc, config, events, multi, at, child, tries, errs, sent, got, warned>>

Publishing == \/ Skip \/ SendNothing \/ EventDone
              \/ \E o \in Outcomes : Send(o)

Next == Publishing \/ CancelDelivery

Spec == Init /\ [][Next]_vars

\* Every call ends at the latest with its context, so the worker goes on.
FairSpec == Spec /\ WF_vars(Publishing)

-----------------------------------------------------------------------------
(* Properties *)

Handled(i, c) == i < at \/ (i = at /\ c < child)

SentTo(c) == {sent[c][k] : k \in DOMAIN sent[c]}

\* docs/feature/publishers.md: events are attempted in generation order and
\* "failed publishes are not retried".  No destination is sent an event after a
\* later one, whatever fails in between, and a publisher of kind sns_http is sent
\* none twice.  A queue the SDK may send an event again, but only in succession
\* and MaxAttempts times at most.  A publisher that is listed twice among the
\* targets is two children.
SentInOrder ==
  \A c \in Children : \A j, k \in DOMAIN sent[c] : j < k =>
    \/ sent[c][j] < sent[c][k]
    \/ sent[c][j] = sent[c][k] /\ k - j < Attempts(c)

\* multi.go: child failures do not abort subsequent children.  An event is sent
\* to every child that wants it unless its context ended before.
FailureIsolated ==
  [][\A c \in Children, i \in DOMAIN events :
       live /\ ~Handled(i, c) /\ Handled(i, c)' /\ Forwards(c, i) => i \in SentTo(c)']_vars

Wants(p, i) == p.onlyEvents = {} \/ events[i] \in p.onlyEvents

\* An event that is not logged as failed has reached every publisher that the
\* configuration file names as a target of this configuration and that asked
\* for it, and no other.
SilenceMeansDelivered ==
  \A i \in DOMAIN events : i < at /\ i \notin warned =>
    {Bound[c] : c \in {c \in Children : i \in got[c]}}
      = {id \in {Targets[k] : k \in DOMAIN Targets} :
           \E j \in DOMAIN doc.publishers :
             doc.publishers[j].id = id /\ Wants(doc.publishers[j], i)}

\* The worker comes to the end of every batch, whatever the destinations do.
BatchEnds == <>[]~Busy

\* docs/feature/publishers.md: "Each event is forwarded to every child; per-child
\* errors are joined but do not short-circuit the fan-out".
ForwardedToEveryChild ==
  ~closing => \A c \in Children, i \in DOMAIN events :
                Handled(i, c) /\ Forwards(c, i) => i \in SentTo(c)
=============================================================================
