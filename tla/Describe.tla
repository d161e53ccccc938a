------------------------------- MODULE Describe -------------------------------
(***************************************************************************)
(* What a reader of one ticket sees while ticks change it.                 *)
(*                                                                         *)
(* DescribeMatchmaking, the answers of StartMatchmaking and                *)
(* StartMatchBackfill, and the pool page of the web UI get a pointer to    *)
(* the ticket and call its accessors one after the other.  They do not     *)
(* take the configuration lock, so that other methods of the ticket may    *)
(* run between two of them; each method holds the ticket's own lock.       *)
(*                                                                         *)
(* Matchmaking lets a whole tick happen at once.  Here path says what      *)
(* memory holds of the ticket D while that tick is in progress: path is    *)
(* empty when no command is, and else starts with the ticket as it is now, *)
(* followed by what the rest of the tick makes of it.  The other commands  *)
(* change what can be seen of D in at most one method, and remain one      *)
(* step.                                                                   *)
(*                                                                         *)
(* Abstracted data: of the end time a reader learns whether it is set;     *)
(* start time, attributes and latencies never change and are left out.     *)
(***************************************************************************)
EXTENDS Matchmaking

CONSTANT D     \* the ticket that is read

ASSUME DescribeConstants == D \in Tickets /\ Cardinality(Players) \in Nat

VARIABLES
  path,        \* what memory holds of D until the tick in progress is over
  rd           \* the request that is reading D

describeVars == <<vars, path, rd>>

-----------------------------------------------------------------------------
(* The ticket's methods, as memory sees them. *)

\* Fault: the status is written before the lock is taken.
Locked_StatusFirst(before, after) ==
  IF before.status = after.status /\ before.matchID = after.matchID THEN <<>>
  ELSE <<[before EXCEPT !.status = after.status], after>>

\* A method that turns a ticket from before into after holds t.mu all along.
Locked(before, after) ==
  IF before.status = after.status /\ before.matchID = after.matchID THEN <<>> ELSE <<after>>

\* What the tick k makes of D, method by method.  A tick evicts D only if D has
\* finished before, and then does not change it.
Walk(k, fresh) ==
  LET settled   == k.settled.tk[D]
      finalized == Finalized(k, fresh).tk[D]
      proposed  == Proposed(k, fresh).tk[D]
      synced    == Synced(k, fresh).tk[D]
      assigned  == D \in svc.tickets \cap UNION NewProposals(Finalized(k, fresh), k.after)
  IN  Locked(svc.tk[D], settled)
      \o (IF D \in svc.tickets \cap UNION k.matches
          THEN placing(settled, finalized.matchID) ELSE <<>>)
      \o (IF assigned THEN proposing(finalized, proposed.matchID) ELSE <<>>)
      \o Locked(proposed, synced)

memory == IF path = <<>> THEN svc.tk[D] ELSE Head(path)

\* Fault: a batch is handed to the worker while the tick goes on.
Announced_Early == D \in svc.tickets /\ IsTerminal(svc.tk[D].status)

\* releaseAndFlush hands the events over when the command has finished: the
\* subscribers may know that D has ended.
Announced == path = <<>> /\ D \in svc.tickets /\ IsTerminal(svc.tk[D].status)

-----------------------------------------------------------------------------
(* Readers *)

\* The accessors in the order of the calls.
PlayerTeams == [i \in 1..Cardinality(Players) |-> "team"]

\* Fault: the status is read last.
ticketToDTO_StatusLast == PlayerTeams \o <<"reason", "message", "end", "status">>

ticketToDTO == PlayerTeams \o <<"status", "reason", "message", "end">>

poolRow == <<"status", "matchID">>

Fields(kind) == IF kind = "describe" THEN ticketToDTO ELSE poolRow

Value(ticket, field) ==
  CASE field = "team"    -> ticket.teams
    [] field = "status"  -> ticket.status
    [] field = "reason"  -> ticket.reason
    [] field = "message" -> ticket.message
    [] field = "end"     -> IF IsTerminal(ticket.status) THEN "set" ELSE "zero"
    [] field = "matchID" -> ticket.matchID

NoRequest == [kind |-> "none", got |-> <<>>, gone |-> FALSE, kept |-> Blank,
              ended |-> FALSE, told |-> FALSE]

\* The ticket rd points to: evicted, it stays as it was.
Pointee == IF rd.gone THEN rd.kept ELSE memory

DescribeInit == Init /\ path = <<>> /\ rd = NoRequest

\* GetTickets and TicketsByConfiguration return pointers.  ended and told note
\* whether D had visibly finished, and whether its end was announced, by then.
GetTickets(kind) ==
  /\ rd = NoRequest /\ D \in svc.tickets
  /\ rd' = [NoRequest EXCEPT !.kind = kind, !.told = Announced,
                             !.ended = IsTerminal(memory.status)]
  /\ UNCHANGED <<vars, path>>

AllRead(r) == r.kind # "none" /\ Len(r.got) = Len(Fields(r.kind))

ReadField ==
  /\ rd.kind # "none" /\ ~AllRead(rd)
  /\ rd' = [rd EXCEPT !.got = Append(@, Value(Pointee, Fields(rd.kind)[Len(rd.got) + 1]))]
  /\ UNCHANGED <<vars, path>>

\* The answer is sent and cannot change any more.
Answered ==
  /\ AllRead(rd)
  /\ rd' = NoRequest
  /\ UNCHANGED <<vars, path>>

-----------------------------------------------------------------------------

\* A request that still points to a ticket which is evicted keeps it.
EvictWhileRead(expired) ==
  rd' = IF D \in expired /\ rd.kind # "none" /\ ~rd.gone
        THEN [rd EXCEPT !.gone = TRUE, !.kept = svc.tk[D]] ELSE rd

TickStarts ==
  \E timedOut \in SUBSET MayTimeOut, now \in Times, expired \in SUBSET Finished :
    \E formed \in MayForm(Settled(timedOut)) :
      \E late \in SUBSET TickPending(timedOut, formed, now) :
        LET k == EngineTick(timedOut, formed, now, late)
        IN  \E fresh \in FreshIDs(Unnamed(k)) :
              /\ Tick(k, fresh, expired)
              /\ path' = IF Walk(k, fresh) = <<>> THEN <<>>
                         ELSE <<svc.tk[D]>> \o Walk(k, fresh)
              /\ EvictWhileRead(expired)

\* The tick in progress calls its next method of D, or ends.
TickGoesOn ==
  /\ path # <<>> /\ path' = Tail(path)
  /\ UNCHANGED <<vars, rd>>

\* One command or tick of a configuration at a time.
ConfigurationNext ==
  \/ /\ path = <<>>
     /\ \/ TickStarts
        \/ Commands /\ UNCHANGED <<path, rd>>
     /\ UNCHANGED AcceptanceRequired
  \/ DeadlinePasses /\ UNCHANGED <<AcceptanceRequired, path, rd>>
  \/ TickGoesOn

\* A bound that loses nothing: when the ticket that is read has been evicted or
\* all of it has been read, nothing but the answer follows.
DescribeNext ==
  \/ ~AllRead(rd) /\ ~rd.gone /\ ConfigurationNext
  \/ \E kind \in {"describe", "pool"} : GetTickets(kind)
  \/ ReadField \/ Answered

DescribeSpec == DescribeInit /\ [][DescribeNext]_describeVars

-----------------------------------------------------------------------------
(* Properties *)

Final(kind) == {i \in 1..Len(Fields(kind)) : Fields(kind)[i] # "team"}

\* However a tick interleaves with the request, an answer that shows a finished
\* ticket shows how that ticket finished: its reason, its message and its end
\* time, and on the pool page its match.
EndReportedWhole ==
  AllRead(rd) /\ (\E i \in Final(rd.kind) : Fields(rd.kind)[i] = "status" /\ rd.got[i] \in Terminal)
    => \A i \in Final(rd.kind) : rd.got[i] = Value(Pointee, Fields(rd.kind)[i])

\* A client that asks after it could know of the end, by an earlier answer or by
\* the notification, gets the finished ticket, the teams of its match included,
\* and not a part of it from before; also when the ticket is evicted meanwhile.
AnswerAfterEnd ==
  rd.ended \/ rd.told =>
    /\ IsTerminal(Pointee.status)
    /\ \A i \in DOMAIN rd.got : rd.got[i] = Value(Pointee, Fields(rd.kind)[i])

\* convert.go, ticketToDTO: "Once a match has formed, AWS reports each player's
\* team assignment on the ticket - for a COMPLETED standalone ticket this is the
\* match result."  An answer that says COMPLETED has a team for every player.
CompletedShowsTeams ==
  rd.kind = "describe" /\ AllRead(rd) /\ "COMPLETED" \in {rd.got[i] : i \in Final("describe")}
    => \A i \in 1..Cardinality(Players) : rd.got[i] # "none"
=============================================================================
