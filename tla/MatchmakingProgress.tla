------------------------- MODULE MatchmakingProgress -------------------------
(***************************************************************************)
(* Matchmaking with the fairness the running program provides.  Ticker.Run *)
(* ticks every configuration at each interval for as long as the process   *)
(* runs, also when nothing changes; beat marks those ticks.                *)
(***************************************************************************)
EXTENDS Matchmaking

VARIABLE beat

ProgressInit == Init /\ beat = 0

TickerRun == TickOnce /\ beat' = 1 - beat

DeadlineOf(r) ==
  /\ \E p \in pending : p.ids = r /\ Deadline(p)
  /\ UNCHANGED <<AcceptanceRequired, svc, usedIDs, rejectedIn, tickFailed, beat>>

ProgressNext == \/ Commands /\ UNCHANGED <<AcceptanceRequired, beat>>
                \/ TickerRun /\ UNCHANGED AcceptanceRequired
                \/ \E r \in Rosters : DeadlineOf(r)

progressVars == <<vars, beat>>

\* Ticks go on for ever, and the acceptance deadline of a proposal passes.
FairSpec == /\ ProgressInit /\ [][ProgressNext]_progressVars
            /\ []<><<beat' # beat>>_progressVars
            /\ \A r \in Rosters : WF_progressVars(DeadlineOf(r))

\* A tracked proposal is eventually settled, whatever the players do: none of
\* its tickets is left in REQUIRES_ACCEPTANCE.
ProposalSettles == \A m \in MatchIDs : (svc.byMatch[m] # {}) ~> (svc.byMatch[m] = {})

\* A ticket that the engine has finished is eventually finished, or gone, in
\* the service: a rejection or a lapsed proposal cannot strand a ticket.
EndReachesService ==
  \A t \in Tickets : IsTerminal(eng[t].status) ~> (t \notin svc.active)
=============================================================================
