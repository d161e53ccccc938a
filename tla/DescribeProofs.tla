--------------------------- MODULE DescribeProofs ---------------------------
(***************************************************************************)
(* What a reader of one ticket sees while ticks change it: proofs about    *)
(* Describe for every ticket, number of players, set of match ids and      *)
(* length of a tick.                                                       *)
(***************************************************************************)
EXTENDS Describe, MatchmakingFeedProofs

-----------------------------------------------------------------------------
(* The invariant *)

Seen == {"team", "status", "reason", "message", "end", "matchID"}

Values == {Value(x, field) : x \in Ticket, field \in Seen}

Request == [kind : {"none", "describe", "pool"}, got : Seq(Values), gone : BOOLEAN,
            kept : Ticket, ended : BOOLEAN, told : BOOLEAN]

\* The methods of one tick take a ticket through s to x: it finishes with the last of
\* them or not at all, and as x shows it.
LeadsTo(s, x) ==
  /\ s \in Seq(Ticket) /\ s # <<>>
  /\ \A i \in 1..(Len(s) - 1) : ~IsTerminal(s[i].status)
  /\ IsTerminal(s[Len(s)].status) \/ IsTerminal(x.status) => Alike(s[Len(s)], x)

\* What the tick in progress has still to do with D.
InProgress == path # <<>> => D \in svc.tickets /\ LeadsTo(path, svc.tk[D])

\* A request points to a stored ticket, or to one that has been evicted under it.
Pointing ==
  /\ rd \in Request /\ path \in Seq(Ticket)
  /\ rd.kind = "none" => rd = NoRequest
  /\ rd.kind # "none" => Len(rd.got) <= Len(Fields(rd.kind))
  /\ rd.kind # "none" /\ ~rd.gone => D \in svc.tickets

\* The accessors from the ith on have returned what they would return now.
UpToDate(i) == \A j \in DOMAIN rd.got : i <= j => rd.got[j] = Value(Pointee, Fields(rd.kind)[j])

\* Once a reader can know that D has finished, it reads nothing else.
Truthful ==
  /\ rd.ended \/ rd.told => IsTerminal(Pointee.status) /\ UpToDate(1)
  /\ \A i \in DOMAIN rd.got :
       Fields(rd.kind)[i] = "status" /\ rd.got[i] \in Terminal
         => IsTerminal(Pointee.status) /\ UpToDate(i)

Reading == Lasting /\ InProgress /\ Pointing /\ Truthful

-----------------------------------------------------------------------------
(* What a reader reads *)

LEMMA AlikeValues ==
  ASSUME NEW x, NEW y, Alike(x, y), NEW field \in Seen
  PROVE  Value(x, field) = Value(y, field)
BY DEF Alike, Seen, Value

LEMMA DTOFields ==
  LET n == Cardinality(Players)
  IN  /\ n \in Nat /\ ticketToDTO \in Seq(Seen) /\ Len(ticketToDTO) = n + 4
      /\ \A i \in 1..n : ticketToDTO[i] = "team"
      /\ ticketToDTO[n + 1] = "status"
      /\ \A i \in (n + 2)..(n + 4) : ticketToDTO[i] \in {"reason", "message", "end"}
<1>. DEFINE n == Cardinality(Players)
            rest == <<"status", "reason", "message", "end">>
<1>1. n \in Nat
  BY DescribeConstants DEF DescribeConstants
<1>2. /\ rest \in Seq(Seen) /\ Len(rest) = 4 /\ rest[1] = "status"
      /\ rest[2] = "reason" /\ rest[3] = "message" /\ rest[4] = "end"
  BY DEF Seen
<1>. HIDE DEF n, rest
<1>3. PlayerTeams = [i \in 1..n |-> "team"]
  BY DEF PlayerTeams, n
<1>4. PlayerTeams \in Seq(Seen) /\ Len(PlayerTeams) = n
      /\ \A i \in 1..n : PlayerTeams[i] = "team"
  <2>1. PlayerTeams \in Seq({"team"})
    <3>1. PlayerTeams \in [1..n -> {"team"}]
      BY <1>3
    <3>. QED
      BY <1>1, <3>1 DEF Seq
  <2>2. {"team"} \subseteq Seen
    BY DEF Seen
  <2>. QED
    BY <1>1, <1>3, <2>1, <2>2, SeqMonotonic, LenProperties
<1>5. ticketToDTO = PlayerTeams \o rest
  BY DEF ticketToDTO, rest
<1>6. /\ ticketToDTO \in Seq(Seen) /\ Len(ticketToDTO) = n + 4
      /\ \A i \in 1..(n + 4) : ticketToDTO[i] = IF i <= n THEN PlayerTeams[i] ELSE rest[i - n]
  <2>1. /\ PlayerTeams \o rest \in Seq(Seen)
        /\ Len(PlayerTeams \o rest) = Len(PlayerTeams) + Len(rest)
        /\ \A i \in 1..(Len(PlayerTeams) + Len(rest)) :
             (PlayerTeams \o rest)[i] = IF i <= Len(PlayerTeams) THEN PlayerTeams[i]
                                        ELSE rest[i - Len(PlayerTeams)]
    BY <1>2, <1>4, ConcatProperties, Zenon
  <2>. QED
    BY <1>2, <1>4, <1>5, <2>1, Zenon
<1>7. ticketToDTO[n + 1] = "status"
  <2>1. n + 1 \in 1..(n + 4) /\ ~(n + 1 <= n) /\ (n + 1) - n = 1
    BY <1>1
  <2>. QED
    BY <1>2, <1>6, <2>1
<1>8. ASSUME NEW i \in (n + 2)..(n + 4) PROVE ticketToDTO[i] \in {"reason", "message", "end"}
  <2>1. i \in 1..(n + 4) /\ ~(i <= n) /\ i - n \in {2, 3, 4}
    BY <1>1
  <2>. QED
    BY <1>2, <1>6, <2>1
<1>9. \A i \in 1..n : ticketToDTO[i] = "team"
  <2>1. \A i \in 1..n : i \in 1..(n + 4) /\ i <= n
    BY <1>1
  <2>. QED
    BY <1>4, <1>6, <2>1
<1>. QED
  BY <1>1, <1>6, <1>7, <1>8, <1>9 DEF n

\* A request asks for the status once, after the teams and before the rest.
LEMMA FieldsInOrder ==
  ASSUME NEW kind \in {"describe", "pool"}
  PROVE  /\ Fields(kind) \in Seq(Seen) /\ Len(Fields(kind)) \in Nat
         /\ DOMAIN Fields(kind) = 1..Len(Fields(kind))
         /\ \A i \in 1..Len(Fields(kind)) : Fields(kind)[i] \in Seen
         /\ \A i, j \in 1..Len(Fields(kind)) :
              Fields(kind)[i] = "status" /\ Fields(kind)[j] # "team" => i <= j
<1>1. CASE kind = "describe"
  <2>. DEFINE n == Cardinality(Players)
              f == ticketToDTO
  <2>1. /\ n \in Nat /\ f \in Seq(Seen) /\ Len(f) = n + 4
        /\ \A i \in 1..n : f[i] = "team"
        /\ f[n + 1] = "status" /\ \A i \in (n + 2)..(n + 4) : f[i] \in {"reason", "message", "end"}
    BY DTOFields
  <2>2. Fields(kind) = f
    BY <1>1 DEF Fields
  <2>. HIDE DEF n, f
  <2>3. DOMAIN f = 1..Len(f) /\ Len(f) \in Nat /\ \A i \in 1..Len(f) : f[i] \in Seen
    BY <2>1, LenProperties, ElementOfSeq
  <2>4. \A i \in 1..Len(f) : /\ f[i] = "status" => i = n + 1
                             /\ f[i] # "team" => n + 1 <= i
    <3>. SUFFICES ASSUME NEW i \in 1..(n + 4)
                  PROVE  (f[i] = "status" => i = n + 1) /\ (f[i] # "team" => n + 1 <= i)
      BY <2>1
    <3>1. i \in 1..n \/ i = n + 1 \/ i \in (n + 2)..(n + 4)
      BY <2>1
    <3>. QED
      BY <2>1, <3>1
  <2>. QED
    BY <2>1, <2>2, <2>3, <2>4
<1>2. CASE kind = "pool"
  <2>1. Fields(kind) = <<"status", "matchID">>
    BY <1>2 DEF Fields, poolRow
  <2>. QED
    BY <2>1 DEF Seen
<1>. QED
  BY <1>1, <1>2

-----------------------------------------------------------------------------
(* What a tick goes through *)

\* A ticket that has not finished goes on to y.
LEMMA LeadsOn ==
  ASSUME NEW s, NEW x, LeadsTo(s, x), ~IsTerminal(x.status), NEW y \in Ticket
  PROVE  LeadsTo(Append(s, y), y)
<1>. DEFINE u == Append(s, y)
<1>1. s \in Seq(Ticket) /\ Len(s) \in Nat /\ Len(s) >= 1
  BY EmptySeq DEF LeadsTo
<1>2. u \in Seq(Ticket) /\ Len(u) = Len(s) + 1 /\ u[Len(s) + 1] = y
      /\ \A i \in 1..Len(s) : u[i] = s[i]
  BY <1>1, AppendProperties
<1>3. ~IsTerminal(s[Len(s)].status)
  BY AlikeStatus DEF LeadsTo
<1>4. \A i \in 1..Len(s) : ~IsTerminal(s[i].status)
  <2>1. \A i \in 1..Len(s) : i = Len(s) \/ i \in 1..(Len(s) - 1)
    BY <1>1
  <2>. QED
    BY <1>3, <2>1 DEF LeadsTo
<1>. HIDE DEF u
<1>5. u # <<>>
  BY <1>1, <1>2
<1>6. \A i \in 1..(Len(u) - 1) : ~IsTerminal(u[i].status)
  BY <1>1, <1>2, <1>4
<1>7. Alike(u[Len(u)], y)
  BY <1>2, AlikeItself
<1>8. LeadsTo(u, y)
  BY <1>2, <1>5, <1>6, <1>7 DEF LeadsTo
<1>. QED
  BY <1>8 DEF u

LEMMA LeadsToItself ==
  ASSUME NEW x \in Ticket
  PROVE  LeadsTo(<<x>>, x)
BY AlikeItself DEF LeadsTo

LEMMA ConcatOne ==
  ASSUME NEW T, NEW s \in Seq(T), NEW a \in T
  PROVE  s \o <<a>> = Append(s, a)
BY AppendIsConcat

LEMMA ConcatTwo ==
  ASSUME NEW T, NEW s \in Seq(T), NEW a \in T, NEW b \in T
  PROVE  s \o <<a, b>> = Append(Append(s, a), b)
<1>1. <<a, b>> = <<a>> \o <<b>> /\ <<a>> \in Seq(T) /\ <<b>> \in Seq(T)
  <2>. DEFINE f == <<a>> \o <<b>>
              g == <<a, b>>
  <2>1. /\ <<a>> \in Seq(T) /\ Len(<<a>>) = 1 /\ <<a>>[1] = a
        /\ <<b>> \in Seq(T) /\ Len(<<b>>) = 1 /\ <<b>>[1] = b
    OBVIOUS
  <2>2. g \in Seq(T) /\ Len(g) = 2 /\ g[1] = a /\ g[2] = b
    OBVIOUS
  <2>3. f \in Seq(T) /\ Len(f) = 2 /\ f[1] = a /\ f[2] = b
    BY <2>1
  <2>. HIDE DEF f, g
  <2>4. \A i \in 1..Len(f) : f[i] = g[i]
    BY <2>2, <2>3
  <2>5. f = g
    BY <2>2, <2>3, <2>4, SeqEqual
  <2>. QED
    BY <2>1, <2>5 DEF f, g
<1>2. s \o (<<a>> \o <<b>>) = (s \o <<a>>) \o <<b>>
  BY <1>1, ConcatAssociative
<1>3. s \o <<a>> = Append(s, a) /\ Append(s, a) \in Seq(T)
  BY ConcatOne, AppendProperties
<1>4. Append(s, a) \o <<b>> = Append(Append(s, a), b)
  BY <1>3, ConcatOne
<1>. QED
  BY <1>1, <1>2, <1>3, <1>4

LEMMA ConcatThree ==
  ASSUME NEW T, NEW s \in Seq(T), NEW a \in T, NEW b \in T, NEW c \in T
  PROVE  s \o <<a, b, c>> = Append(Append(Append(s, a), b), c)
<1>1. <<a, b, c>> = <<a, b>> \o <<c>> /\ <<a, b>> \in Seq(T) /\ <<c>> \in Seq(T)
  <2>. DEFINE f == <<a, b>> \o <<c>>
              g == <<a, b, c>>
  <2>1. /\ <<a, b>> \in Seq(T) /\ Len(<<a, b>>) = 2 /\ <<a, b>>[1] = a /\ <<a, b>>[2] = b
        /\ <<c>> \in Seq(T) /\ Len(<<c>>) = 1 /\ <<c>>[1] = c
        /\ g \in Seq(T) /\ Len(g) = 3 /\ g[1] = a /\ g[2] = b /\ g[3] = c
    OBVIOUS
  <2>2. f \in Seq(T) /\ Len(f) = 3 /\ f[1] = a /\ f[2] = b /\ f[3] = c
    BY <2>1
  <2>3. <<a, b>> \in Seq(T) /\ <<c>> \in Seq(T)
    BY <2>1
  <2>. HIDE DEF f, g
  <2>4. \A i \in 1..Len(f) : f[i] = g[i]
    BY <2>1, <2>2
  <2>5. f = g
    BY <2>1, <2>2, <2>4, SeqEqual
  <2>. QED
    BY <2>3, <2>5 DEF f, g
<1>2. s \o (<<a, b>> \o <<c>>) = (s \o <<a, b>>) \o <<c>>
  BY <1>1, ConcatAssociative
<1>3. s \o <<a, b>> = Append(Append(s, a), b) /\ Append(Append(s, a), b) \in Seq(T)
  BY ConcatTwo, AppendProperties
<1>4. Append(Append(s, a), b) \o <<c>> = Append(Append(Append(s, a), b), c)
  BY <1>3, ConcatOne
<1>. QED
  BY <1>1, <1>2, <1>3, <1>4

\* One method that holds the ticket's lock all along.
LEMMA LockedLeads ==
  ASSUME NEW s, NEW x, LeadsTo(s, x), NEW y \in Ticket, IsTerminal(x.status) => Alike(x, y)
  PROVE  LeadsTo(s \o Locked(x, y), y)
<1>1. CASE x.status = y.status /\ x.matchID = y.matchID
  <2>1. Locked(x, y) = <<>> /\ s \o <<>> = s
    BY <1>1, ConcatEmptySeq DEF Locked, LeadsTo
  <2>2. IsTerminal(s[Len(s)].status) \/ IsTerminal(y.status) => Alike(s[Len(s)], y)
    <3>1. IsTerminal(x.status) <=> IsTerminal(y.status)
      BY <1>1
    <3>2. IsTerminal(s[Len(s)].status) \/ IsTerminal(x.status) => Alike(s[Len(s)], x)
      BY DEF LeadsTo
    <3>. QED
      BY <3>1, <3>2, AlikeStatus, AlikeTwice
  <2>. QED
    BY <2>1, <2>2 DEF LeadsTo
<1>2. CASE ~(x.status = y.status /\ x.matchID = y.matchID)
  <2>1. Locked(x, y) = <<y>> /\ s \o <<y>> = Append(s, y)
    BY <1>2, ConcatOne DEF Locked, LeadsTo
  <2>2. ~IsTerminal(x.status)
    BY <1>2 DEF Alike
  <2>. QED
    BY <2>1, <2>2, LeadsOn
<1>. QED
  BY <1>1, <1>2

\* The methods of a match take the ticket to its end.
LEMMA PlacingLeads ==
  ASSUME NEW s, NEW x \in Ticket, LeadsTo(s, x), x.status \in InPool \cup {"REQUIRES_ACCEPTANCE"},
         NEW m \in MatchIDs
  PROVE  /\ LeadsTo(s \o placing(x, m), placing(x, m)[3])
         /\ placing(x, m) \in Seq(Ticket) /\ placing(x, m)[3].matchID = m
<1>. DEFINE a == SetPlayerTeams(x, m)
            b == MoveToPlacing(a, m)
            c == Complete(b)
<1>1. placing(x, m) = <<a, b, c>>
  BY DEF placing
<1>2. a \in Ticket /\ a.status = x.status
  BY DEF SetPlayerTeams, Ticket, Teams
<1>. HIDE DEF a
<1>3. canTransitionTo(x.status, "PLACING") /\ canTransitionTo("PLACING", "COMPLETED")
  BY DEF canTransitionTo, allowedTransitions, InPool
<1>4. b = [a EXCEPT !.status = "PLACING", !.matchID = m]
  BY <1>2, <1>3 DEF MoveToPlacing
<1>5. b \in Ticket /\ b.status = "PLACING" /\ b.matchID = m
  BY <1>2, <1>4 DEF Ticket, Statuses, Active
<1>. HIDE DEF b
<1>6. c = [b EXCEPT !.status = "COMPLETED"]
  BY <1>3, <1>5 DEF Complete
<1>7. c \in Ticket /\ c.matchID = m
  BY <1>5, <1>6 DEF Ticket, Statuses, Terminal
<1>. HIDE DEF c
<1>8. ~IsTerminal(x.status) /\ ~IsTerminal(a.status) /\ ~IsTerminal(b.status)
  BY <1>2, <1>5 DEF IsTerminal, Terminal, InPool
<1>9. LeadsTo(Append(s, a), a)
  BY <1>2, <1>8, LeadsOn
<1>10. LeadsTo(Append(Append(s, a), b), b)
  BY <1>5, <1>8, <1>9, LeadsOn
<1>11. LeadsTo(Append(Append(Append(s, a), b), c), c)
  BY <1>7, <1>8, <1>10, LeadsOn
<1>12. s \o <<a, b, c>> = Append(Append(Append(s, a), b), c)
  BY <1>2, <1>5, <1>7, ConcatThree DEF LeadsTo
<1>13. <<a, b, c>> \in Seq(Ticket) /\ <<a, b, c>>[3] = c
  BY <1>2, <1>5, <1>7
<1>. QED
  BY <1>1, <1>7, <1>11, <1>12, <1>13

LEMMA ProposingLeads ==
  ASSUME NEW s, NEW x \in Ticket, LeadsTo(s, x), x.status \in InPool, NEW m \in MatchIDs
  PROVE  /\ LeadsTo(s \o proposing(x, m), proposing(x, m)[2])
         /\ proposing(x, m) \in Seq(Ticket) /\ proposing(x, m)[2].matchID = m
<1>. DEFINE a == AssignToProposal(x, m)
            b == SetPlayerTeams(a, m)
<1>1. proposing(x, m) = <<a, b>>
  BY DEF proposing
<1>2. canTransitionTo(x.status, "REQUIRES_ACCEPTANCE")
  BY DEF canTransitionTo, allowedTransitions, InPool
<1>3. a = [x EXCEPT !.status = "REQUIRES_ACCEPTANCE", !.matchID = m, !.reason = ""]
  BY <1>2 DEF AssignToProposal
<1>4. a \in Ticket /\ a.status = "REQUIRES_ACCEPTANCE" /\ a.matchID = m
  BY <1>3 DEF Ticket, Statuses, Active
<1>. HIDE DEF a
<1>5. b \in Ticket /\ b.matchID = m
  BY <1>4 DEF SetPlayerTeams, Ticket, Teams
<1>. HIDE DEF b
<1>6. ~IsTerminal(x.status) /\ ~IsTerminal(a.status)
  BY <1>4 DEF IsTerminal, Terminal, InPool
<1>7. LeadsTo(Append(s, a), a)
  BY <1>4, <1>6, LeadsOn
<1>8. LeadsTo(Append(Append(s, a), b), b)
  BY <1>5, <1>6, <1>7, LeadsOn
<1>9. s \o <<a, b>> = Append(Append(s, a), b)
  BY <1>4, <1>5, ConcatTwo DEF LeadsTo
<1>10. <<a, b>> \in Seq(Ticket) /\ <<a, b>>[2] = b
  BY <1>4, <1>5
<1>. QED
  BY <1>1, <1>5, <1>8, <1>9, <1>10

LEMMA LockedSeq ==
  ASSUME NEW x, NEW y \in Ticket
  PROVE  Locked(x, y) \in Seq(Ticket) /\ (x = y => Locked(x, y) = <<>>)
BY DEF Locked

-----------------------------------------------------------------------------
(* What the phases of a tick make of D *)

Phases(matches, after, s1, s2, s3, s4) ==
  /\ \A s \in {s1, s2, s3, s4} : s.tk \in [Tickets -> Ticket] /\ s.tickets = svc.tickets
  /\ D \in svc.tickets \cap UNION matches =>
       /\ s1.tk[D].status \in InPool \cup {"REQUIRES_ACCEPTANCE"}
       /\ \E m \in MatchIDs : s2.tk[D] = placing(s1.tk[D], m)[3]
  /\ D \notin svc.tickets \cap UNION matches => s2.tk[D] = s1.tk[D]
  /\ D \in svc.tickets \cap UNION NewProposals(s2, after) =>
       /\ s2.tk[D].status \in InPool
       /\ \E m \in MatchIDs : s3.tk[D] = proposing(s2.tk[D], m)[2]
  /\ D \notin svc.tickets \cap UNION NewProposals(s2, after) => s3.tk[D] = s2.tk[D]
  /\ D \notin svc.tickets => s1.tk[D] = svc.tk[D] /\ s4.tk[D] = s3.tk[D]
  /\ D \in svc.tickets => /\ IsTerminal(svc.tk[D].status) => Alike(svc.tk[D], s1.tk[D])
                          /\ IsTerminal(s3.tk[D].status) => Alike(s3.tk[D], s4.tk[D])

LEMMA RunPhases ==
  ASSUME IInv, NEW e, NEW matches, NEW left, NEW now, NEW late, NEW after, NEW f, NEW rosters,
         NEW fresh, NEW used, NEW expired, NEW s1, NEW s2, NEW s3, NEW s4,
         TickRun(e, matches, left, now, late, after, f, rosters, fresh, used, expired, s1, s2, s3, s4)
  PROVE  Phases(matches, after, s1, s2, s3, s4)
<1>1. /\ Ticked(e, matches, left, now) /\ after \in SUBSET left
      /\ \A t \in Tickets :
           f[t].status = IF e[t].status = "PLACING" THEN "COMPLETED" ELSE e[t].status
  BY DEF TickRun
<1>2. /\ svc \in Service /\ D \in Tickets
      /\ \A s \in {s1, s2, s3, s4} : s \in Service /\ s.tickets = svc.tickets
      /\ \A s \in {s1, s2, s3, s4} : s.tk \in [Tickets -> Ticket]
  <2>1. svc \in Service /\ D \in Tickets
    BY DescribeConstants DEF IInv, TypeOK, DescribeConstants
  <2>2. \A s \in {s1, s2, s3, s4} : s \in Service /\ s.tickets = svc.tickets
    BY DEF TickRun, Between
  <2>. QED
    BY <2>1, <2>2, ServiceFields
<1>3. D \notin svc.tickets => s1.tk[D] = svc.tk[D]
  <2>. DEFINE u == settleOldProposals(svc, e, matches, after)
              S == Leaving(svc, e, SettledProposals(svc, matches, after))
  <2>1. \A t \in Tickets : u.tk[t] = IF t \in S THEN PullEvents(Released(svc, e, t)) ELSE svc.tk[t]
    BY <1>2, SettleEffect DEF Moves
  <2>2. S \subseteq svc.tickets
    BY DEF Leaving
  <2>3. s1 = u
    BY DEF TickRun
  <2>. HIDE DEF u, S
  <2>. QED
    BY <1>2, <2>1, <2>2, <2>3
<1>4. /\ D \in svc.tickets \cap UNION matches =>
           /\ s1.tk[D].status \in InPool \cup {"REQUIRES_ACCEPTANCE"}
           /\ \E m \in MatchIDs : s2.tk[D] = placing(s1.tk[D], m)[3]
      /\ D \notin svc.tickets \cap UNION matches => s2.tk[D] = s1.tk[D]
  <2>. DEFINE S == s1.tickets \cap UNION matches
              Id(t) == MatchOf(s1, fresh, RosterOf(t, matches))
              u == finalizeMatches(s1, matches, fresh)
  <2>1. /\ s1 \in Service /\ Paired(s1) /\ matches \in SUBSET Rosters /\ Names(fresh, rosters, s1)
        /\ s2 = u
        /\ \A r \in matches : s1.matchIDs[r] = NoMatch => r \in rosters
    BY DEF TickRun, Between, Tracker, Ticked
  <2>2. /\ Moves(s1, u, S, LAMBDA t : placing(s1.tk[t], MatchOf(s1, fresh, RosterOf(t, matches)))[3])
        /\ \A t \in S : MatchOf(s1, fresh, RosterOf(t, matches)) \in MatchIDs
        /\ Drops(s1, u, matches)
    BY <2>1, FinalizeEffect
  <2>. HIDE DEF u
  <2>3. s2.tk[D] = IF D \in S THEN placing(s1.tk[D], Id(D))[3] ELSE s1.tk[D]
    BY <1>2, <2>1, <2>2 DEF Moves
  <2>4. D \in S => Id(D) \in MatchIDs
    BY <2>2
  <2>5. ASSUME D \in S PROVE s1.tk[D].status \in InPool \cup {"REQUIRES_ACCEPTANCE"}
    <3>1. Between(s1, e, usedIDs)
      BY DEF TickRun
    <3>2. Fate(s1.tk[D].status, e[D].status)
      BY <2>5, <3>1 DEF Between
    <3>. QED
      BY <1>1, <1>2, <2>5, <3>2 DEF Ticked, Fate
  <2>6. s1.tickets = svc.tickets
    BY <1>2
  <2>. HIDE DEF Id
  <2>. QED
    BY <2>3, <2>4, <2>5, <2>6
<1>5. /\ D \in svc.tickets \cap UNION NewProposals(s2, after) =>
           /\ s2.tk[D].status \in InPool
           /\ \E m \in MatchIDs : s3.tk[D] = proposing(s2.tk[D], m)[2]
      /\ D \notin svc.tickets \cap UNION NewProposals(s2, after) => s3.tk[D] = s2.tk[D]
  <2>. DEFINE new == NewProposals(s2, after)
              S == s2.tickets \cap UNION new
              Id(t) == fresh[RosterOf(t, new)]
              u == applyNewProposals(s2, after, fresh)
  <2>1. /\ s2 \in Service /\ Names(fresh, rosters, s2) /\ new \subseteq rosters
        /\ Newcomers(s2, after) /\ s3 = u
    BY DEF TickRun, Between
  <2>2. after \in SUBSET Proposal /\ \A p \in after : p.ids \in Rosters
    BY <1>1 DEF Ticked
  <2>3. u.tk[D] = IF D \in S THEN proposing(s2.tk[D], Id(D))[2] ELSE s2.tk[D]
    <3>1. s2 \in Service /\ Names(fresh, rosters, s2) /\ new \subseteq rosters
      BY <2>1
    <3>2. \A t \in Tickets : u.tk[t] = IF t \in S THEN proposing(s2.tk[t], Id(t))[2] ELSE s2.tk[t]
      BY <2>2, <3>1, ProposeEffect DEF Moves
    <3>. HIDE DEF u
    <3>. QED
      BY <1>2, <3>2
  <2>4. D \in S => Id(D) \in MatchIDs
    <3>1. D \in S => RosterOf(D, new) \in new
      BY RosterOfTicket
    <3>. QED
      BY <2>1, <3>1 DEF Names
  <2>5. D \in S => s2.tk[D].status \in InPool
    BY <2>1 DEF Newcomers
  <2>6. s2.tickets = svc.tickets
    BY <1>2
  <2>. HIDE DEF Id, u
  <2>. QED
    BY <2>1, <2>3, <2>4, <2>5, <2>6
<1>6. D \notin svc.tickets => s4.tk[D] = s3.tk[D]
  <2>. DEFINE u == syncActiveTickets(s3, f)
              S == Behind(s3, f)
  <2>1. /\ Between(s3, f, used)
        /\ \A t \in Tickets : \A p \in after : t \in p.ids => f[t].status = "REQUIRES_ACCEPTANCE"
        /\ \A m \in MatchIDs : s3.byMatch[m] # {} => Reports(s3, after, m)
    BY DEF TickRun
  <2>2. \A t \in Tickets : f[t].status # "PLACING"
    BY <1>1
  <2>3. \A t \in Behind(s3, f) : s3.tk[t].status # "REQUIRES_ACCEPTANCE" /\ t \in s3.tickets
    BY <2>1, <2>2, BehindInPool DEF InPool
  <2>4. s3 \in Service /\ \A t \in Behind(s3, f) : s3.tk[t].status # "REQUIRES_ACCEPTANCE"
    BY <1>2, <2>3
  <2>5. \A t \in Tickets : u.tk[t] = IF t \in S THEN PullEvents(transitionFromEngine(s3.tk[t], f[t].status))
                                    ELSE s3.tk[t]
    BY <2>4, SyncEffect DEF Moves
  <2>6. s4 = u
    BY DEF TickRun
  <2>. HIDE DEF u
  <2>. QED
    BY <1>2, <2>3, <2>5, <2>6
<1>7. D \in svc.tickets => /\ IsTerminal(svc.tk[D].status) => Alike(svc.tk[D], s1.tk[D])
                           /\ IsTerminal(s3.tk[D].status) => Alike(s3.tk[D], s4.tk[D])
  <2>1. PhaseCarries(svc, s1) /\ PhaseCarries(s3, s4)
    BY TickRunPhases
  <2>. QED
    BY <1>2, <2>1 DEF PhaseCarries, Carries
<1>. QED
  BY <1>2, <1>3, <1>4, <1>5, <1>6, <1>7 DEF Phases

LEMMA Regroup ==
  ASSUME NEW s \in Seq(Ticket), NEW w \in Seq(Ticket), NEW p \in Seq(Ticket)
  PROVE  (s \o w) \o p = s \o (w \o p) /\ w \o p \in Seq(Ticket)
<1>1. (s \o w) \o p = s \o (w \o p)
  BY ConcatAssociative
<1>2. w \o p \in Seq(Ticket)
  BY ConcatProperties
<1>. QED
  BY <1>1, <1>2

\* What memory holds of D, from the ticket as it is when the tick starts, leads to what
\* the tick makes of it: each phase adds the methods it calls.
LEMMA WalkLeads ==
  ASSUME svc.tk \in [Tickets -> Ticket], D \in svc.tickets, NEW k, NEW fresh,
         Phases(k.matches, k.after, k.settled, Finalized(k, fresh), Proposed(k, fresh),
                Synced(k, fresh))
  PROVE  /\ LeadsTo(<<svc.tk[D]>> \o Walk(k, fresh), Synced(k, fresh).tk[D])
         /\ Walk(k, fresh) \in Seq(Ticket)
<1>. DEFINE s1 == k.settled
            s2 == Finalized(k, fresh)
            s3 == Proposed(k, fresh)
            s4 == Synced(k, fresh)
            x0 == svc.tk[D]
            x1 == s1.tk[D]
            x2 == s2.tk[D]
            x3 == s3.tk[D]
            x4 == s4.tk[D]
            here == D \in svc.tickets \cap UNION k.matches
            there == D \in svc.tickets \cap UNION NewProposals(s2, k.after)
            P == IF here THEN placing(x1, x2.matchID) ELSE <<>>
            Q == IF there THEN proposing(x2, x3.matchID) ELSE <<>>
            a == Locked(x0, x1)
            d == Locked(x3, x4)
            y1 == <<x0>> \o a
            y2 == y1 \o P
            y3 == y2 \o Q
            y4 == y3 \o d
<1>1. Walk(k, fresh) = ((a \o P) \o Q) \o d
  BY DEF Walk
<1>2. /\ x0 \in Ticket /\ x1 \in Ticket /\ x2 \in Ticket /\ x3 \in Ticket /\ x4 \in Ticket
  BY DescribeConstants DEF Phases, DescribeConstants
<1>3. /\ here => /\ x1.status \in InPool \cup {"REQUIRES_ACCEPTANCE"}
                 /\ \E m \in MatchIDs : x2 = placing(x1, m)[3]
      /\ ~here => x2 = x1
      /\ there => /\ x2.status \in InPool
                  /\ \E m \in MatchIDs : x3 = proposing(x2, m)[2]
      /\ ~there => x3 = x2
      /\ IsTerminal(x0.status) => Alike(x0, x1)
      /\ IsTerminal(x3.status) => Alike(x3, x4)
  BY DEF Phases
<1>. HIDE DEF s1, s2, s3, s4, x0, x1, x2, x3, x4, here, there
<1>4. LeadsTo(<<x0>>, x0) /\ <<x0>> \in Seq(Ticket)
  BY <1>2, LeadsToItself
<1>5. LeadsTo(y1, x1) /\ a \in Seq(Ticket)
  BY <1>2, <1>3, <1>4, LockedLeads, LockedSeq
<1>. HIDE DEF a, y1
<1>6. LeadsTo(y2, x2) /\ P \in Seq(Ticket)
  <2>1. CASE here
    <3>1. PICK m \in MatchIDs : x2 = placing(x1, m)[3]
      BY <1>3, <2>1
    <3>2. /\ LeadsTo(y1 \o placing(x1, m), placing(x1, m)[3])
          /\ placing(x1, m) \in Seq(Ticket) /\ placing(x1, m)[3].matchID = m
      BY <1>2, <1>3, <1>5, <2>1, PlacingLeads
    <3>. QED
      BY <2>1, <3>1, <3>2
  <2>2. CASE ~here
    <3>1. y1 \o <<>> = y1
      BY <1>5, ConcatEmptySeq DEF LeadsTo
    <3>. QED
      BY <1>3, <1>5, <2>2, <3>1
  <2>. QED
    BY <2>1, <2>2
<1>. HIDE DEF P, y2
<1>7. LeadsTo(y3, x3) /\ Q \in Seq(Ticket)
  <2>1. CASE there
    <3>1. PICK m \in MatchIDs : x3 = proposing(x2, m)[2]
      BY <1>3, <2>1
    <3>2. /\ LeadsTo(y2 \o proposing(x2, m), proposing(x2, m)[2])
          /\ proposing(x2, m) \in Seq(Ticket) /\ proposing(x2, m)[2].matchID = m
      BY <1>2, <1>3, <1>6, <2>1, ProposingLeads
    <3>. QED
      BY <2>1, <3>1, <3>2
  <2>2. CASE ~there
    <3>1. y2 \o <<>> = y2
      BY <1>6, ConcatEmptySeq DEF LeadsTo
    <3>. QED
      BY <1>3, <1>6, <2>2, <3>1
  <2>. QED
    BY <2>1, <2>2
<1>. HIDE DEF Q, y3
<1>8. LeadsTo(y4, x4) /\ d \in Seq(Ticket)
  BY <1>2, <1>3, <1>7, LockedLeads, LockedSeq
<1>. HIDE DEF d, y4
<1>. DEFINE w2 == a \o P
            w3 == w2 \o Q
            w4 == w3 \o d
            s == <<x0>>
<1>9. s \in Seq(Ticket) /\ y1 = s \o a
  BY <1>4 DEF y1
<1>. HIDE DEF s
<1>10. y2 = s \o w2 /\ w2 \in Seq(Ticket)
  <2>1. (s \o a) \o P = s \o (a \o P) /\ a \o P \in Seq(Ticket)
    BY <1>5, <1>6, <1>9, Regroup
  <2>. QED
    BY <1>9, <2>1 DEF y2
<1>. HIDE DEF w2
<1>11. y3 = s \o w3 /\ w3 \in Seq(Ticket)
  <2>1. (s \o w2) \o Q = s \o (w2 \o Q) /\ w2 \o Q \in Seq(Ticket)
    BY <1>7, <1>9, <1>10, Regroup
  <2>. QED
    BY <1>10, <2>1 DEF y3
<1>. HIDE DEF w3
<1>12. y4 = s \o w4 /\ w4 \in Seq(Ticket)
  <2>1. (s \o w3) \o d = s \o (w3 \o d) /\ w3 \o d \in Seq(Ticket)
    BY <1>8, <1>9, <1>11, Regroup
  <2>. QED
    BY <1>11, <2>1 DEF y4
<1>13. Walk(k, fresh) = w4
  BY <1>1 DEF w2, w3
<1>. HIDE DEF w4
<1>14. LeadsTo(<<x0>> \o Walk(k, fresh), x4) /\ Walk(k, fresh) \in Seq(Ticket)
  BY <1>8, <1>12, <1>13 DEF s
<1>. QED
  BY <1>14 DEF x0, x4, s4

\* A ticket the service does not store is not touched.
LEMMA WalkNowhere ==
  ASSUME svc.tk \in [Tickets -> Ticket], D \notin svc.tickets, NEW k, NEW fresh,
         Phases(k.matches, k.after, k.settled, Finalized(k, fresh), Proposed(k, fresh),
                Synced(k, fresh))
  PROVE  Walk(k, fresh) = <<>>
<1>1. /\ k.settled.tk[D] = svc.tk[D] /\ Synced(k, fresh).tk[D] = Proposed(k, fresh).tk[D]
  BY DEF Phases
<1>2. Locked(svc.tk[D], k.settled.tk[D]) = <<>>
  BY <1>1 DEF Locked
<1>3. Locked(Proposed(k, fresh).tk[D], Synced(k, fresh).tk[D]) = <<>>
  BY <1>1 DEF Locked
<1>4. ((<<>> \o <<>>) \o <<>>) \o <<>> = <<>>
  <2>1. <<>> \o <<>> = <<>>
    BY EmptySeq, ConcatEmptySeq
  <2>. QED
    BY <2>1
<1>. QED
  BY <1>2, <1>3, <1>4 DEF Walk

-----------------------------------------------------------------------------
(* The steps are those of Matchmaking *)

\* The tick k, its new match ids and the tickets it evicts.
Started(k, fresh, expired) ==
  /\ Phases(k.matches, k.after, k.settled, Finalized(k, fresh), Proposed(k, fresh),
            Synced(k, fresh))
  /\ Synced(k, fresh) \in Service /\ Synced(k, fresh).tickets = svc.tickets
  /\ expired \in SUBSET Finished /\ svc' = evictExpiredTickets(Synced(k, fresh), expired)
  /\ path' = IF Walk(k, fresh) = <<>> THEN <<>> ELSE <<svc.tk[D]>> \o Walk(k, fresh)
  /\ EvictWhileRead(expired)

LEMMA TickStartsRuns ==
  ASSUME IInv, TickStarts, UNCHANGED AcceptanceRequired
  PROVE  \E k, fresh, expired : Started(k, fresh, expired)
<1>1. PICK timedOut \in SUBSET MayTimeOut, now \in Times, expired \in SUBSET Finished :
        \E formed \in MayForm(Settled(timedOut)) :
          \E late \in SUBSET TickPending(timedOut, formed, now) :
            LET k == EngineTick(timedOut, formed, now, late)
            IN  \E fresh \in FreshIDs(Unnamed(k)) :
                  /\ Tick(k, fresh, expired)
                  /\ path' = IF Walk(k, fresh) = <<>> THEN <<>>
                             ELSE <<svc.tk[D]>> \o Walk(k, fresh)
                  /\ EvictWhileRead(expired)
  BY DEF TickStarts
<1>2. PICK formed \in MayForm(Settled(timedOut)) :
        \E late \in SUBSET TickPending(timedOut, formed, now) :
          LET k == EngineTick(timedOut, formed, now, late)
          IN  \E fresh \in FreshIDs(Unnamed(k)) :
                /\ Tick(k, fresh, expired)
                /\ path' = IF Walk(k, fresh) = <<>> THEN <<>>
                           ELSE <<svc.tk[D]>> \o Walk(k, fresh)
                /\ EvictWhileRead(expired)
  BY <1>1
<1>3. PICK late \in SUBSET TickPending(timedOut, formed, now) :
        LET k == EngineTick(timedOut, formed, now, late)
        IN  \E fresh \in FreshIDs(Unnamed(k)) :
              /\ Tick(k, fresh, expired)
              /\ path' = IF Walk(k, fresh) = <<>> THEN <<>>
                         ELSE <<svc.tk[D]>> \o Walk(k, fresh)
              /\ EvictWhileRead(expired)
  BY <1>2
<1>. DEFINE k == EngineTick(timedOut, formed, now, late)
<1>4. PICK fresh \in FreshIDs(Unnamed(k)) :
        /\ Tick(k, fresh, expired)
        /\ path' = IF Walk(k, fresh) = <<>> THEN <<>> ELSE <<svc.tk[D]>> \o Walk(k, fresh)
        /\ EvictWhileRead(expired)
  BY <1>3
<1>5. k = EngineTick(timedOut, formed, now, late)
  OBVIOUS
<1>. HIDE DEF k
<1>6. PICK e, left, used :
        TickRun(e, k.matches, left, now, late, k.after, k.eng, Unnamed(k), fresh, used, expired,
                k.settled, Finalized(k, fresh), Proposed(k, fresh), Synced(k, fresh))
  BY <1>4, <1>5, TickPhases
<1>7. Phases(k.matches, k.after, k.settled, Finalized(k, fresh), Proposed(k, fresh),
             Synced(k, fresh))
  BY <1>6, RunPhases
<1>8. /\ Synced(k, fresh) \in Service /\ Synced(k, fresh).tickets = svc.tickets
      /\ svc' = evictExpiredTickets(Synced(k, fresh), expired)
  BY <1>6 DEF TickRun, Between
<1>9. Started(k, fresh, expired)
  BY <1>4, <1>7, <1>8 DEF Started
<1>. QED
  BY <1>9, Zenon

LEMMA TickStartsIsTick == TickStarts => TickOnce
BY DEF TickStarts, TickOnce

LEMMA StepIsMatchmaking == [DescribeNext]_describeVars => [Next]_vars
<1>1. CASE UNCHANGED describeVars
  BY <1>1 DEF describeVars
<1>2. CASE ConfigurationNext
  BY <1>2, TickStartsIsTick DEF ConfigurationNext, Next, TickGoesOn
<1>3. CASE (\E kind \in {"describe", "pool"} : GetTickets(kind)) \/ ReadField \/ Answered
  BY <1>3 DEF GetTickets, ReadField, Answered
<1>. QED
  BY <1>1, <1>2, <1>3 DEF DescribeNext

\* A command takes no ticket away.
LEMMA CommandsKeep ==
  ASSUME svc \in Service, Commands
  PROVE  svc.tickets \subseteq svc'.tickets
<1>1. HasFeed(svc)
  BY ServiceHasFeed
<1>2. CASE Start
  BY <1>1, <1>2 DEF Start, StartMatchmaking, addTicket, commitTicket, SaveTicket, HasFeed
<1>3. CASE Backfill
  <2>1. PICK t \in Tickets, session \in BackfillARNs :
          svc' = addTicket(commitTicket(supersedeBackfill(svc, findSessionBackfill(session)), t,
                                        newTicket(TRUE, session)), {t})
    BY <1>3 DEF Backfill, StartMatchBackfill
  <2>. DEFINE v == supersedeBackfill(svc, findSessionBackfill(session))
  <2>2. HasFeed(v) /\ v.tickets = svc.tickets
    BY <1>1 DEF supersedeBackfill, addTicket, SaveTicket, HasFeed
  <2>. HIDE DEF v
  <2>. QED
    BY <2>1, <2>2 DEF v, addTicket, commitTicket, SaveTicket, HasFeed
<1>4. CASE Stop
  BY <1>1, <1>4 DEF Stop, StopMatchmaking, SaveTicket, HasFeed
<1>5. CASE Decide
  <2>1. PICK t \in Tickets, ids \in SUBSET Players :
          \/ AcceptMatch(t, ids)
          \/ RejectMatch(t, ids)
          \/ \E done \in SUBSET ids : AcceptMatchLapses(t, ids, done)
    BY <1>5 DEF Decide
  <2>2. svc' = svc \/ \E decision : svc' = recordDecisions(t, ids, decision)
    BY <2>1 DEF AcceptMatch, RejectMatch, AcceptMatchLapses
  <2>3. ASSUME NEW decision PROVE recordDecisions(t, ids, decision).tickets = svc.tickets
    <3>. DEFINE v == [svc EXCEPT !.tk[t] = RecordPlayerAcceptances(svc.tk[t], ids, decision)]
                s == SaveTicket(v, {t})
                u == Announce(s, {s.tk[t].matchID}, "AcceptMatch")
    <3>1. recordDecisions(t, ids, decision) \in {s, u}
      BY DEF recordDecisions
    <3>2. HasFeed(v) /\ v.tickets = svc.tickets
      BY <1>1 DEF HasFeed
    <3>. HIDE DEF v
    <3>3. HasFeed(s) /\ s.tickets = svc.tickets
      BY <3>2 DEF SaveTicket, HasFeed
    <3>. HIDE DEF s
    <3>4. u.tickets = svc.tickets
      BY <3>3 DEF Announce, HasFeed
    <3>. QED
      BY <3>1, <3>3, <3>4
  <2>. QED
    BY <2>2, <2>3
<1>. QED
  BY <1>2, <1>3, <1>4, <1>5 DEF Commands

-----------------------------------------------------------------------------
(* The invariant is inductive *)

LEMMA PointeeType ==
  ASSUME Reading
  PROVE  Pointee \in Ticket /\ memory \in Ticket /\ svc \in Service /\ svc.tk \in [Tickets -> Ticket]
<1>1. svc \in Service
  BY DEF Reading, Lasting, IInv, TypeOK
<1>2. svc.tk \in [Tickets -> Ticket] /\ svc.tk[D] \in Ticket
  BY <1>1, ServiceFields, DescribeConstants DEF DescribeConstants
<1>3. path # <<>> => Head(path) \in Ticket
  BY DEF Reading, Pointing
<1>4. rd.kept \in Ticket
  BY DEF Reading, Pointing, Request
<1>. QED
  BY <1>1, <1>2, <1>3, <1>4 DEF Pointee, memory

\* A finished ticket under a request stays as it is.
Steady == rd.kind # "none" /\ IsTerminal(Pointee.status) => Alike(Pointee, Pointee')

LEMMA TruthfulStays ==
  ASSUME Pointing, Truthful, Steady, rd'.kind = rd.kind, rd'.got = rd.got,
         rd'.ended = rd.ended, rd'.told = rd.told
  PROVE  Truthful'
<1>1. CASE rd.kind = "none"
  <2>1. rd'.got = <<>> /\ ~rd'.ended /\ ~rd'.told
    BY <1>1 DEF Pointing, NoRequest
  <2>. QED
    BY <2>1 DEF Truthful
<1>2. CASE rd.kind # "none"
  <2>1. /\ rd.kind \in {"describe", "pool"} /\ Len(rd.got) <= Len(Fields(rd.kind))
        /\ Len(rd.got) \in Nat /\ DOMAIN rd.got = 1..Len(rd.got)
    BY <1>2 DEF Pointing, Request
  <2>2. \A j \in DOMAIN rd.got : Fields(rd.kind)[j] \in Seen
    BY <2>1, FieldsInOrder
  <2>3. ASSUME NEW i, IsTerminal(Pointee.status), UpToDate(i)
        PROVE  IsTerminal(Pointee.status)' /\ UpToDate(i)'
    <3>1. Alike(Pointee, Pointee')
      BY <1>2, <2>3 DEF Steady
    <3>2. IsTerminal(Pointee'.status)
      BY <2>3, <3>1, AlikeStatus
    <3>3. \A j \in DOMAIN rd.got : Value(Pointee, Fields(rd.kind)[j]) = Value(Pointee', Fields(rd.kind)[j])
      BY <2>2, <3>1, AlikeValues
    <3>. QED
      BY <2>3, <3>2, <3>3 DEF UpToDate
  <2>. QED
    BY <2>3 DEF Truthful
<1>. QED
  BY <1>1, <1>2

\* GetTickets points to the ticket as it is.
LEMMA GetTicketsReads ==
  ASSUME Reading, NEW kind \in {"describe", "pool"}, GetTickets(kind)
  PROVE  InProgress' /\ Pointing' /\ Truthful'
<1>1. UNCHANGED <<svc, path>> /\ D \in svc.tickets
  BY DEF GetTickets, vars
<1>2. /\ rd'.kind = kind /\ rd'.got = <<>> /\ rd'.gone = FALSE /\ rd'.kept = Blank
      /\ rd'.told = Announced /\ rd'.ended = IsTerminal(memory.status)
      /\ rd' \in Request
  <2>1. Blank \in Ticket /\ <<>> \in Seq(Values)
    <3>1. Blank \in Ticket
      BY NewTicketType, PulledTicket DEF Blank
    <3>. QED
      BY <3>1
  <2>2. Announced \in BOOLEAN /\ IsTerminal(memory.status) \in BOOLEAN
    BY DEF Announced, IsTerminal
  <2>3. rd' = [NoRequest EXCEPT !.kind = kind, !.told = Announced,
                                !.ended = IsTerminal(memory.status)]
    BY DEF GetTickets
  <2>. HIDE DEF Announced, memory
  <2>. QED
    BY <2>1, <2>2, <2>3 DEF NoRequest, Request
<1>3. Pointee' = memory
  BY <1>1, <1>2 DEF Pointee, memory
<1>4. InProgress'
  BY <1>1 DEF Reading, InProgress
<1>5. Pointing'
  <2>1. Len(Fields(kind)) \in Nat
    BY FieldsInOrder
  <2>2. path' \in Seq(Ticket)
    BY <1>1 DEF Reading, Pointing
  <2>. QED
    BY <1>1, <1>2, <2>1, <2>2 DEF Pointing
<1>6. Announced => IsTerminal(memory.status)
  BY DEF Announced, memory
<1>7. Truthful'
  BY <1>2, <1>3, <1>6 DEF Truthful, UpToDate
<1>. QED
  BY <1>4, <1>5, <1>7

\* One more accessor returns what it finds.
LEMMA ReadFieldReads ==
  ASSUME Reading, ReadField
  PROVE  InProgress' /\ Pointing' /\ Truthful'
<1>. DEFINE n == Len(rd.got) + 1
            field == Fields(rd.kind)[n]
            v == Value(Pointee, field)
<1>1. UNCHANGED <<svc, path>> /\ rd.kind # "none" /\ ~AllRead(rd)
  BY DEF ReadField, vars
<1>2. /\ rd \in Request /\ rd.kind \in {"describe", "pool"} /\ rd.got \in Seq(Values)
      /\ Len(rd.got) \in Nat /\ DOMAIN rd.got = 1..Len(rd.got)
      /\ Len(rd.got) <= Len(Fields(rd.kind))
  BY <1>1 DEF Reading, Pointing, Request
<1>3. /\ Len(Fields(rd.kind)) \in Nat /\ n <= Len(Fields(rd.kind)) /\ field \in Seen
  <2>1. /\ Len(Fields(rd.kind)) \in Nat
        /\ \A i \in 1..Len(Fields(rd.kind)) : Fields(rd.kind)[i] \in Seen
    BY <1>2, FieldsInOrder
  <2>2. Len(rd.got) # Len(Fields(rd.kind))
    BY <1>1 DEF AllRead
  <2>. QED
    BY <1>2, <2>1, <2>2
<1>4. v \in Values
  BY <1>3, PointeeType DEF Values
<1>5. rd' = [rd EXCEPT !.got = Append(rd.got, v)]
  BY DEF ReadField
<1>. HIDE DEF v, field
<1>6. /\ Append(rd.got, v) \in Seq(Values) /\ Len(Append(rd.got, v)) = n
      /\ DOMAIN Append(rd.got, v) = 1..n
      /\ \A i \in 1..Len(rd.got) : Append(rd.got, v)[i] = rd.got[i]
      /\ Append(rd.got, v)[n] = v
  BY <1>2, <1>4, AppendProperties
<1>7. /\ rd' \in Request /\ rd'.got = Append(rd.got, v) /\ rd'.kind = rd.kind
      /\ rd'.gone = rd.gone /\ rd'.kept = rd.kept /\ rd'.ended = rd.ended /\ rd'.told = rd.told
  BY <1>2, <1>5, <1>6 DEF Request
<1>8. Pointee' = Pointee
  BY <1>1, <1>7 DEF Pointee, memory
<1>9. InProgress'
  BY <1>1 DEF Reading, InProgress
<1>10. Pointing'
  BY <1>1, <1>3, <1>6, <1>7 DEF Reading, Pointing
<1>11. \A i : UpToDate(i) => UpToDate(i)'
  <2>1. ASSUME NEW i, UpToDate(i), NEW j \in 1..n, i <= j
        PROVE  rd'.got[j] = Value(Pointee', Fields(rd'.kind)[j])
    <3>1. CASE j = n
      BY <1>6, <1>7, <1>8, <3>1 DEF v, field
    <3>2. CASE j # n
      <4>1. j \in 1..Len(rd.got)
        BY <1>2, <3>2
      <4>. QED
        BY <1>2, <1>6, <1>7, <1>8, <2>1, <4>1 DEF UpToDate
    <3>. QED
      BY <3>1, <3>2
  <2>. QED
    BY <1>6, <1>7, <2>1 DEF UpToDate
<1>12. ASSUME NEW i \in 1..n, Fields(rd.kind)[i] = "status", rd'.got[i] \in Terminal
       PROVE  IsTerminal(Pointee.status) /\ UpToDate(i)'
  <2>1. CASE i = n
    <3>1. v = Pointee.status
      BY <1>12, <2>1 DEF v, field, Value
    <3>2. IsTerminal(Pointee.status)
      BY <1>6, <1>7, <1>12, <2>1, <3>1 DEF IsTerminal
    <3>3. \A j \in 1..n : i <= j => j = n
      BY <1>2, <2>1
    <3>4. UpToDate(i)'
      BY <1>6, <1>7, <1>8, <3>3 DEF UpToDate, v, field
    <3>. QED
      BY <3>2, <3>4
  <2>2. CASE i # n
    <3>1. i \in DOMAIN rd.got /\ rd.got[i] \in Terminal
      BY <1>2, <1>6, <1>7, <1>12, <2>2
    <3>2. IsTerminal(Pointee.status) /\ UpToDate(i)
      BY <1>12, <3>1 DEF Reading, Truthful
    <3>. QED
      BY <1>11, <3>2
  <2>. QED
    BY <2>1, <2>2
<1>13. rd'.ended \/ rd'.told => IsTerminal(Pointee'.status) /\ UpToDate(1)'
  BY <1>7, <1>8, <1>11 DEF Reading, Truthful
<1>14. Truthful'
  BY <1>6, <1>7, <1>8, <1>12, <1>13 DEF Truthful
<1>. QED
  BY <1>9, <1>10, <1>14

\* The answer is sent, and the request is over.
LEMMA AnsweredReads ==
  ASSUME Reading, Answered
  PROVE  InProgress' /\ Pointing' /\ Truthful'
<1>1. UNCHANGED <<svc, path>> /\ rd' = NoRequest
  BY DEF Answered, vars
<1>2. /\ rd'.kind = "none" /\ rd'.got = <<>> /\ ~rd'.ended /\ ~rd'.told
  BY <1>1 DEF NoRequest
<1>3. NoRequest \in Request
  <2>1. Blank \in Ticket
    BY NewTicketType, PulledTicket DEF Blank
  <2>2. <<>> \in Seq(Values)
    OBVIOUS
  <2>. QED
    BY <2>1, <2>2 DEF NoRequest, Request
<1>4. InProgress'
  BY <1>1 DEF Reading, InProgress
<1>5. Pointing'
  BY <1>1, <1>2, <1>3 DEF Reading, Pointing
<1>6. Truthful'
  BY <1>2 DEF Truthful
<1>. QED
  BY <1>4, <1>5, <1>6

\* The tick in progress calls its next method: it is the last one, or D has not finished.
LEMMA TickGoesOnReads ==
  ASSUME Reading, ~rd.gone, TickGoesOn
  PROVE  InProgress' /\ Pointing' /\ Truthful'
<1>1. /\ UNCHANGED <<svc, rd>> /\ path' = Tail(path) /\ path # <<>>
      /\ path \in Seq(Ticket) /\ D \in svc.tickets /\ LeadsTo(path, svc.tk[D])
  BY DEF TickGoesOn, vars, Reading, InProgress, Pointing
<1>2. /\ Len(path) \in Nat /\ Len(path) >= 1 /\ Head(path) = path[1]
      /\ Tail(path) \in Seq(Ticket) /\ Len(Tail(path)) = Len(path) - 1
      /\ \A i \in 1..(Len(path) - 1) : Tail(path)[i] = path[i + 1]
  BY <1>1, EmptySeq, HeadTailProperties
<1>3. Pointee = path[1]
  BY <1>1, <1>2 DEF Pointee, memory
<1>4. CASE Len(path) = 1
  <2>1. path' = <<>>
    BY <1>1, <1>2, <1>4, EmptySeq
  <2>2. Pointee' = svc.tk[D]
    BY <1>1, <2>1 DEF Pointee, memory
  <2>3. Steady
    BY <1>1, <1>3, <1>4, <2>2 DEF Steady, LeadsTo
  <2>4. Truthful'
    BY <1>1, <2>3, TruthfulStays DEF Reading
  <2>5. InProgress' /\ Pointing'
    BY <1>1, <1>2, <2>1 DEF Reading, InProgress, Pointing
  <2>. QED
    BY <2>4, <2>5
<1>5. CASE Len(path) # 1
  <2>. DEFINE n == Len(path) - 1
              s == Tail(path)
  <2>1. /\ n \in Nat /\ n >= 1 /\ s \in Seq(Ticket) /\ Len(s) = n /\ n + 1 = Len(path)
        /\ \A i \in 1..n : s[i] = path[i + 1]
    BY <1>2, <1>5
  <2>. HIDE DEF n, s
  <2>2. s # <<>>
    BY <2>1, EmptySeq
  <2>3. ASSUME NEW i \in 1..(n - 1) PROVE ~IsTerminal(s[i].status)
    <3>1. i \in 1..n /\ i + 1 \in 1..n
      BY <2>1
    <3>2. ~IsTerminal(path[i + 1].status)
      <4>1. i + 1 \in 1..(Len(path) - 1)
        BY <2>1, <3>1
      <4>. QED
        BY <1>1, <4>1 DEF LeadsTo
    <3>. QED
      BY <2>1, <3>1, <3>2
  <2>4. s[n] = path[Len(path)]
    <3>1. n \in 1..n
      BY <2>1
    <3>2. s[n] = path[n + 1]
      BY <2>1, <3>1, Zenon
    <3>. QED
      BY <2>1, <3>2
  <2>5. IsTerminal(s[Len(s)].status) \/ IsTerminal(svc.tk[D].status) => Alike(s[Len(s)], svc.tk[D])
    BY <1>1, <2>1, <2>4 DEF LeadsTo
  <2>6. LeadsTo(s, svc.tk[D])
    <3>1. \A i \in 1..(Len(s) - 1) : ~IsTerminal(s[i].status)
      BY <2>1, <2>3
    <3>. QED
      BY <2>1, <2>2, <2>5, <3>1 DEF LeadsTo
  <2>7. path' = s
    BY <1>1 DEF s
  <2>8. ~IsTerminal(Pointee.status)
    <3>1. 1 \in 1..(Len(path) - 1)
      BY <2>1
    <3>. QED
      BY <1>1, <1>3, <3>1 DEF LeadsTo
  <2>9. Truthful'
    <3>1. Steady
      BY <2>8 DEF Steady
    <3>. QED
      BY <1>1, <3>1, TruthfulStays DEF Reading
  <2>10. InProgress' /\ Pointing'
    BY <1>1, <2>1, <2>6, <2>7 DEF Reading, InProgress, Pointing
  <2>. QED
    BY <2>9, <2>10
<1>. QED
  BY <1>4, <1>5

\* A deadline passes, or nothing happens.
LEMMA StillReads ==
  ASSUME Reading, UNCHANGED <<svc, path, rd>>
  PROVE  InProgress' /\ Pointing' /\ Truthful'
<1>1. Pointee' = Pointee
  BY DEF Pointee, memory
<1>2. Steady
  BY <1>1, AlikeItself DEF Steady
<1>3. Truthful'
  BY <1>2, TruthfulStays DEF Reading
<1>4. InProgress' /\ Pointing'
  BY DEF Reading, InProgress, Pointing
<1>. QED
  BY <1>3, <1>4

\* A command changes D in one method, and only if it has not finished.
LEMMA CommandReads ==
  ASSUME Reading, path = <<>>, ~rd.gone, Commands, UNCHANGED <<path, rd>>,
         UNCHANGED AcceptanceRequired
  PROVE  InProgress' /\ Pointing' /\ Truthful'
<1>1. svc.tickets \subseteq svc'.tickets
  BY CommandsKeep, PointeeType
<1>2. GoesOn
  <2>1. Next
    BY DEF Next
  <2>. QED
    BY <2>1, StepGoesOn DEF Reading, Lasting
<1>3. Pointee = svc.tk[D] /\ Pointee' = svc'.tk[D]
  BY DEF Pointee, memory
<1>4. Steady
  <2>1. ASSUME rd.kind # "none", IsTerminal(Pointee.status) PROVE Alike(Pointee, Pointee')
    <3>1. D \in svc.tickets \cap svc'.tickets
      BY <1>1, <2>1 DEF Reading, Pointing
    <3>. QED
      BY <1>2, <1>3, <2>1, <3>1 DEF GoesOn
  <2>. QED
    BY <2>1 DEF Steady
<1>5. Truthful'
  BY <1>4, TruthfulStays DEF Reading
<1>6. InProgress' /\ Pointing'
  BY <1>1 DEF Reading, InProgress, Pointing
<1>. QED
  BY <1>5, <1>6

\* A tick starts: D is evicted, or the tick leads from it to what it makes of it.
LEMMA TickStartsReads ==
  ASSUME Reading, path = <<>>, ~rd.gone, TickStarts, UNCHANGED AcceptanceRequired
  PROVE  InProgress' /\ Pointing' /\ Truthful'
<1>1. IInv /\ svc \in Service /\ svc.tk \in [Tickets -> Ticket] /\ Pointee = svc.tk[D]
      /\ svc.tk[D] \in Ticket /\ D \in Tickets
  <2>1. D \in Tickets
    BY DescribeConstants DEF DescribeConstants
  <2>. QED
    BY <2>1, PointeeType DEF Reading, Lasting, Pointee, memory
<1>2. PICK k, fresh, expired : Started(k, fresh, expired)
  BY <1>1, TickStartsRuns
<1>. DEFINE w == Walk(k, fresh)
            s4 == Synced(k, fresh)
            x == svc.tk[D]
<1>3. /\ expired \in SUBSET Finished /\ svc' = evictExpiredTickets(s4, expired)
      /\ s4 \in Service /\ s4.tickets = svc.tickets
      /\ path' = IF w = <<>> THEN <<>> ELSE <<x>> \o w
      /\ EvictWhileRead(expired)
  BY <1>2 DEF Started
<1>4. /\ D \in svc.tickets => LeadsTo(<<x>> \o w, s4.tk[D]) /\ w \in Seq(Ticket)
      /\ D \notin svc.tickets => w = <<>>
  <2>1. Phases(k.matches, k.after, k.settled, Finalized(k, fresh), Proposed(k, fresh),
               Synced(k, fresh))
    BY <1>2 DEF Started
  <2>. QED
    BY <1>1, <2>1, WalkLeads, WalkNowhere
<1>5. D \in expired => D \in svc.tickets /\ IsTerminal(x.status)
  BY <1>3 DEF Finished
<1>. HIDE DEF w, s4
<1>6. /\ svc'.tickets = svc.tickets \ expired
      /\ \A t \in svc'.tickets : svc'.tk[t] = s4.tk[t]
  <2>1. expired \in SUBSET Tickets
    BY <1>1, <1>3, ServiceFields DEF Finished
  <2>. QED
    BY <1>3, <2>1, EvictCarries
<1>. HIDE DEF x
<1>7. w # <<>> => /\ D \in svc'.tickets /\ LeadsTo(path', svc'.tk[D])
                  /\ Head(path') = x /\ path' \in Seq(Ticket) /\ path' # <<>>
  <2>. SUFFICES ASSUME w # <<>>
                PROVE  /\ D \in svc'.tickets /\ LeadsTo(path', svc'.tk[D])
                       /\ Head(path') = x /\ path' \in Seq(Ticket) /\ path' # <<>>
    OBVIOUS
  <2>1. D \in svc.tickets /\ path' = <<x>> \o w /\ LeadsTo(path', s4.tk[D]) /\ w \in Seq(Ticket)
    BY <1>3, <1>4
  <2>2. /\ path' \in Seq(Ticket) /\ path'[1] = x /\ Len(path') >= 2 /\ Len(path') \in Nat
    <3>1. Len(w) \in Nat /\ Len(w) >= 1
      BY <2>1, EmptySeq
    <3>2. <<x>> \in Seq(Ticket) /\ Len(<<x>>) = 1 /\ <<x>>[1] = x
      BY <1>1 DEF x
    <3>3. /\ <<x>> \o w \in Seq(Ticket) /\ Len(<<x>> \o w) = 1 + Len(w)
          /\ (<<x>> \o w)[1] = x
      BY <2>1, <3>1, <3>2, ConcatProperties
    <3>. QED
      BY <2>1, <3>1, <3>3
  <2>3. ~IsTerminal(x.status)
    <3>1. 1 \in 1..(Len(path') - 1)
      BY <2>2
    <3>. QED
      BY <2>1, <2>2, <3>1 DEF LeadsTo
  <2>4. D \in svc'.tickets /\ svc'.tk[D] = s4.tk[D]
    BY <1>5, <1>6, <2>1, <2>3
  <2>5. Head(path') = x /\ path' # <<>>
    BY <2>2, EmptySeq
  <2>. QED
    BY <2>1, <2>2, <2>4, <2>5
<1>8. /\ w = <<>> => path' = <<>>
      /\ w # <<>> => path' # <<>>
  BY <1>3, <1>7
<1>9. InProgress'
  BY <1>7, <1>8 DEF InProgress
<1>10. /\ rd'.kind = rd.kind /\ rd'.got = rd.got /\ rd'.ended = rd.ended /\ rd'.told = rd.told
       /\ rd' \in Request
       /\ rd'.gone = (D \in expired /\ rd.kind # "none")
       /\ rd'.gone => rd'.kept = x
       /\ rd.kind = "none" => rd' = rd
  <2>1. rd \in Request
    BY DEF Reading, Pointing
  <2>. QED
    BY <1>1, <1>3, <2>1 DEF EvictWhileRead, Request, x
<1>11. Pointing'
  <2>1. path' \in Seq(Ticket)
    <3>1. <<>> \in Seq(Ticket)
      OBVIOUS
    <3>. QED
      BY <1>7, <1>8, <3>1
  <2>2. rd'.kind # "none" /\ ~rd'.gone => D \in svc'.tickets
    BY <1>6, <1>10 DEF Reading, Pointing
  <2>. QED
    BY <1>10, <2>1, <2>2 DEF Reading, Pointing
<1>12. Steady
  <2>. SUFFICES ASSUME rd.kind # "none", IsTerminal(x.status) PROVE Alike(x, Pointee')
    BY <1>1 DEF Steady, x
  <2>1. D \in svc.tickets
    BY DEF Reading, Pointing
  <2>2. CASE D \in expired
    <3>1. Pointee' = x
      BY <1>10, <2>2 DEF Pointee
    <3>. QED
      BY <3>1, AlikeItself
  <2>3. CASE D \notin expired /\ w # <<>>
    <3>1. Pointee' = x
      BY <1>7, <1>10, <2>3 DEF Pointee, memory
    <3>. QED
      BY <3>1, AlikeItself
  <2>4. CASE D \notin expired /\ w = <<>>
    <3>1. Pointee' = svc'.tk[D] /\ svc'.tk[D] = s4.tk[D]
      BY <1>6, <1>8, <1>10, <2>1, <2>4 DEF Pointee, memory
    <3>2. LeadsTo(<<x>>, s4.tk[D])
      <4>1. <<x>> \o <<>> = <<x>>
        BY <1>1, ConcatEmptySeq DEF x
      <4>. QED
        BY <1>4, <2>1, <2>4, <4>1
    <3>3. Len(<<x>>) = 1 /\ <<x>>[1] = x
      OBVIOUS
    <3>. QED
      BY <3>1, <3>2, <3>3 DEF LeadsTo
  <2>. QED
    BY <2>2, <2>3, <2>4
<1>13. Truthful'
  BY <1>10, <1>12, TruthfulStays DEF Reading
<1>. QED
  BY <1>9, <1>11, <1>13

LEMMA InitReading == DescribeInit => Reading
<1>. SUFFICES ASSUME DescribeInit PROVE Reading
  OBVIOUS
<1>1. Init /\ path = <<>> /\ rd = NoRequest
  BY DEF DescribeInit
<1>2. Lasting
  BY <1>1, InitLasting
<1>3. NoRequest \in Request /\ <<>> \in Seq(Ticket)
  <2>1. Blank \in Ticket
    BY NewTicketType, PulledTicket DEF Blank
  <2>2. <<>> \in Seq(Values) /\ <<>> \in Seq(Ticket)
    OBVIOUS
  <2>. QED
    BY <2>1, <2>2 DEF NoRequest, Request
<1>4. rd.kind = "none" /\ rd.got = <<>> /\ ~rd.ended /\ ~rd.told
  BY <1>1 DEF NoRequest
<1>5. InProgress /\ Pointing
  BY <1>1, <1>3, <1>4 DEF InProgress, Pointing
<1>6. Truthful
  BY <1>4 DEF Truthful
<1>. QED
  BY <1>2, <1>5, <1>6 DEF Reading

LEMMA StepReading == Reading /\ [DescribeNext]_describeVars => Reading'
<1>. SUFFICES ASSUME Reading, [DescribeNext]_describeVars PROVE Reading'
  OBVIOUS
<1>1. Lasting'
  BY StepIsMatchmaking, StepLasting DEF Reading
<1>2. InProgress' /\ Pointing' /\ Truthful'
  <2>1. CASE UNCHANGED describeVars
    BY <2>1, StillReads DEF describeVars, vars
  <2>2. CASE ~rd.gone /\ path = <<>> /\ TickStarts /\ UNCHANGED AcceptanceRequired
    BY <2>2, TickStartsReads
  <2>3. CASE ~rd.gone /\ path = <<>> /\ Commands /\ UNCHANGED <<path, rd>> /\ UNCHANGED AcceptanceRequired
    BY <2>3, CommandReads
  <2>4. CASE DeadlinePasses /\ UNCHANGED <<AcceptanceRequired, path, rd>>
    BY <2>4, StillReads DEF DeadlinePasses
  <2>5. CASE ~rd.gone /\ TickGoesOn
    BY <2>5, TickGoesOnReads
  <2>6. CASE \E kind \in {"describe", "pool"} : GetTickets(kind)
    BY <2>6, GetTicketsReads
  <2>7. CASE ReadField
    BY <2>7, ReadFieldReads
  <2>8. CASE Answered
    BY <2>8, AnsweredReads
  <2>. QED
    BY <2>1, <2>2, <2>3, <2>4, <2>5, <2>6, <2>7, <2>8 DEF DescribeNext, ConfigurationNext
<1>. QED
  BY <1>1, <1>2 DEF Reading

-----------------------------------------------------------------------------
(* The theorems *)

\* A reader disturbs nothing, and a tick that calls the methods of one ticket one by
\* one is still one tick of Matchmaking: with path and the requests hidden, what
\* happens under the configuration lock is what Matchmaking says of it, and every
\* theorem about Matchmaking holds here.
THEOREM DescribeIsMatchmaking == DescribeSpec => Spec
<1>1. DescribeInit => Init
  BY DEF DescribeInit
<1>. QED
  BY <1>1, StepIsMatchmaking, PTL DEF DescribeSpec, Spec

\* Whatever the ticks and the commands, what DescribeMatchmaking and the pool page
\* have read of a finished ticket is what they would read of it now, from the
\* status on; and what memory holds during a tick finishes with the tick's last
\* method of that ticket.
THEOREM ReadingAlways == DescribeSpec => []Reading
<1>. QED
  BY InitReading, StepReading, PTL DEF DescribeSpec

\* ticketToDTO reads the status before the reason, the message and the end time, and
\* poolRow before the match: an answer that shows a finished ticket shows how that
\* ticket finished, although no lock is held from one accessor to the next.
THEOREM EndReportedWholeAlways == DescribeSpec => []EndReportedWhole
<1>1. Reading => EndReportedWhole
  <2>. SUFFICES ASSUME Reading, AllRead(rd), NEW i \in Final(rd.kind),
                       Fields(rd.kind)[i] = "status", rd.got[i] \in Terminal,
                       NEW j \in Final(rd.kind)
                PROVE  rd.got[j] = Value(Pointee, Fields(rd.kind)[j])
    BY DEF EndReportedWhole
  <2>1. /\ rd.kind \in {"describe", "pool"} /\ Len(rd.got) = Len(Fields(rd.kind))
        /\ DOMAIN rd.got = 1..Len(rd.got)
    BY DEF AllRead, Reading, Pointing, Request
  <2>2. /\ i \in 1..Len(Fields(rd.kind)) /\ j \in 1..Len(Fields(rd.kind))
        /\ Fields(rd.kind)[j] # "team"
    BY DEF Final
  <2>3. i <= j
    BY <2>1, <2>2, FieldsInOrder
  <2>4. UpToDate(i)
    BY <2>1, <2>2 DEF Reading, Truthful
  <2>. QED
    BY <2>1, <2>2, <2>3, <2>4 DEF UpToDate
<1>. QED
  BY <1>1, ReadingAlways, PTL

\* A client that asks after an answer or a notification has told it that the ticket
\* has ended reads the finished ticket and its teams, and nothing from before, also
\* when the ticket is evicted meanwhile.
THEOREM AnswerAfterEndAlways == DescribeSpec => []AnswerAfterEnd
<1>1. Reading => AnswerAfterEnd
  <2>. SUFFICES ASSUME Reading, rd.ended \/ rd.told
                PROVE  /\ IsTerminal(Pointee.status)
                       /\ \A i \in DOMAIN rd.got : rd.got[i] = Value(Pointee, Fields(rd.kind)[i])
    BY DEF AnswerAfterEnd
  <2>1. IsTerminal(Pointee.status) /\ UpToDate(1)
    BY DEF Reading, Truthful
  <2>2. \A i \in DOMAIN rd.got : 1 <= i
    BY DEF Reading, Pointing, Request
  <2>. QED
    BY <2>1, <2>2 DEF UpToDate
<1>. QED
  BY <1>1, ReadingAlways, PTL
=============================================================================
