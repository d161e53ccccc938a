------------------------------- MODULE Ticket -------------------------------
(***************************************************************************)
(* The Ticket aggregate of internal/domain/matchmaking: its status machine *)
(* and its intent-revealing transitions, as operators from ticket to       *)
(* ticket.  A transition the status machine refuses returns an error in    *)
(* the code and leaves the ticket alone, so the operator returns the       *)
(* ticket as it was.                                                       *)
(*                                                                         *)
(* Abstracted data: a time stamp is not kept; the roster is the constant   *)
(* set Players; playerTeams is "none", "seats" (declared by a backfill     *)
(* request) or the match whose assignment it holds; ruleMetrics are        *)
(* payload.                                                                *)
(*                                                                         *)
(* Here and in the other modules a definition Op_Word that a comment calls *)
(* a fault is a broken variant of Op: no specification uses it, and a run  *)
(* in which it takes the place of Op must end in a violation.              *)
(***************************************************************************)
EXTENDS Sequences

CONSTANTS
  Players,    \* the players of a ticket
  MatchIDs,   \* what MatchIDs.NewID may return
  NoMatch,    \* the empty match id
  Sessions,   \* game session ARNs
  NoSession   \* the empty game session ARN

ASSUME TicketConstants ==
  /\ Players # {}
  /\ NoMatch \notin MatchIDs
  /\ NoSession \notin Sessions

-----------------------------------------------------------------------------
(* status.go *)

Active   == {"QUEUED", "SEARCHING", "REQUIRES_ACCEPTANCE", "PLACING"}
Terminal == {"COMPLETED", "FAILED", "CANCELLED", "TIMED_OUT"}
Statuses == Active \cup Terminal

IsTerminal(s) == s \in Terminal

allowedTransitions ==
  {<<"QUEUED", s>> : s \in {"SEARCHING", "REQUIRES_ACCEPTANCE", "PLACING",
                            "CANCELLED", "TIMED_OUT"}}
  \cup {<<"SEARCHING", s>> : s \in {"REQUIRES_ACCEPTANCE", "PLACING",
                                    "CANCELLED", "TIMED_OUT"}}
  \cup {<<"REQUIRES_ACCEPTANCE", s>> : s \in {"SEARCHING", "PLACING",
                                    "CANCELLED", "TIMED_OUT", "FAILED"}}
  \cup {<<"PLACING", s>> : s \in {"COMPLETED", "FAILED"}}

canTransitionTo(s, next) == s = next \/ <<s, next>> \in allowedTransitions

-----------------------------------------------------------------------------
(* ticket.go *)

TicketEvents == {"MatchmakingSearching", "MatchmakingCancelled",
                 "MatchmakingTimedOut"}

\* A player's recorded decision; "none" is a player absent from the map.
Decisions == {"none", "accept", "reject"}

\* What playerTeams holds.
Teams == {"none", "seats"} \cup MatchIDs

Undecided == [p \in Players |-> "none"]

Ticket ==
  [status      : Statuses,
   matchID     : MatchIDs \cup {NoMatch},
   acceptances : [Players -> Decisions],
   teams       : Teams,
   reason      : {"", "ACCEPTANCE_FAILED", "Cancelled", "TimedOut"},
   message     : {"", "stopped by client", "superseded", "not accepted",
                  "timed out"},
   cancelByAPI : BOOLEAN,
   isBackfill  : BOOLEAN,
   session     : Sessions \cup {NoSession},
   events      : Seq(TicketEvents)]

newTicket(backfill, session) ==
  [status      |-> "QUEUED",
   matchID     |-> NoMatch,
   acceptances |-> Undecided,
   teams       |-> IF backfill THEN "seats" ELSE "none",
   reason      |-> "",
   message     |-> "",
   cancelByAPI |-> FALSE,
   isBackfill  |-> backfill,
   session     |-> session,
   events      |-> <<"MatchmakingSearching">>]

\* m is the match whose teams the engine has assigned.
SetPlayerTeams(t, m) == [t EXCEPT !.teams = m]

AssignToProposal(t, m) ==
  IF canTransitionTo(t.status, "REQUIRES_ACCEPTANCE")
  THEN [t EXCEPT !.status = "REQUIRES_ACCEPTANCE", !.matchID = m, !.reason = ""]
  ELSE t

\* ValidatePlayerAcceptances; membership in Players is the callers' guard.
MayDecide(t, ids) == t.status = "REQUIRES_ACCEPTANCE" /\ ids # {}

RecordPlayerAcceptances(t, ids, decision) ==
  [t EXCEPT !.acceptances = [p \in Players |-> IF p \in ids THEN decision
                                               ELSE t.acceptances[p]]]

MoveToPlacing(t, m) ==
  IF canTransitionTo(t.status, "PLACING")
  THEN [t EXCEPT !.status = "PLACING", !.matchID = m]
  ELSE t

Complete(t) ==
  IF canTransitionTo(t.status, "COMPLETED")
  THEN [t EXCEPT !.status = "COMPLETED"]
  ELSE t

MarkTimedOut(t) ==
  IF canTransitionTo(t.status, "TIMED_OUT")
  THEN [t EXCEPT !.status = "TIMED_OUT", !.reason = "TimedOut",
                 !.message = "timed out",
                 !.events = Append(@, "MatchmakingTimedOut")]
  ELSE t

\* The body the three MarkCancelledBy... methods share.
MarkCancelled(t, message) ==
  IF canTransitionTo(t.status, "CANCELLED")
  THEN [t EXCEPT !.status = "CANCELLED", !.reason = "Cancelled",
                 !.message = message,
                 !.events = Append(@, "MatchmakingCancelled")]
  ELSE t

MarkCancelledByAcceptanceFailure(t) == MarkCancelled(t, "not accepted")
MarkCancelledBySuperseded(t)        == MarkCancelled(t, "superseded")
MarkCancelledByAPI(t)               == MarkCancelled(t, "stopped by client")

\* Fault: the decisions of the failed proposal are kept.
ReturnToSearching_KeepsDecisions(t, reason) ==
  IF canTransitionTo(t.status, "SEARCHING")
  THEN [t EXCEPT !.status = "SEARCHING", !.matchID = NoMatch, !.reason = reason,
                 !.events = Append(@, "MatchmakingSearching")]
  ELSE t

\* Fault: the teams of the failed proposal are kept.
ReturnToSearching_KeepsTeams(t, reason) ==
  IF canTransitionTo(t.status, "SEARCHING")
  THEN [t EXCEPT !.status = "SEARCHING", !.matchID = NoMatch,
                 !.acceptances = Undecided, !.reason = reason, !.message = "",
                 !.events = Append(@, "MatchmakingSearching")]
  ELSE t

ReturnToSearching(t, reason) ==
  IF canTransitionTo(t.status, "SEARCHING")
  THEN [t EXCEPT !.status = "SEARCHING", !.matchID = NoMatch,
                 !.acceptances = Undecided,
                 !.teams = IF t.isBackfill THEN "seats" ELSE "none",
                 !.reason = reason, !.message = "",
                 !.events = Append(@, "MatchmakingSearching")]
  ELSE t

\* Fault: a status AWS has and this status machine lacks.
RequestCancel_Cancelling(t) == [t EXCEPT !.status = "CANCELLING", !.cancelByAPI = TRUE]

\* Fault: the ticket is cancelled at once, whatever it has become.
RequestCancel_Immediate(t) == [t EXCEPT !.status = "CANCELLED", !.cancelByAPI = TRUE]

RequestCancel(t) == [t EXCEPT !.cancelByAPI = TRUE]

\* No transition check and no event.
ObserveSearching(t) == [t EXCEPT !.status = "SEARCHING"]

PullEvents(t) == [t EXCEPT !.events = <<>>]
=============================================================================
