------------------------------ MODULE Registry ------------------------------
(***************************************************************************)
(* The ticket table that all configurations share (service.go): ids are    *)
(* reserved, committed, looked up and evicted under stateMu, while each    *)
(* command and tick runs under the lock of its own configuration only.     *)
(* Commands of different configurations, and the part of a command before  *)
(* lockConfiguration, interleave between these critical sections.          *)
(*                                                                         *)
(* What a command does under its configuration's lock without stateMu is   *)
(* joined to the critical section that follows.  A ticket object is named  *)
(* after the command that created it: a pointer is that name.  Of a        *)
(* ticket's life only its end and the time of its end are kept; Matchmaking *)
(* has the rest.                                                           *)
(***************************************************************************)
EXTENDS Integers

CONSTANTS
  Commands,    \* API requests
  Configs,     \* configurations; each is also the name of its ticks
  IDs,         \* ticket ids
  Nil,         \* no ticket, no configuration, nobody
  Retention,   \* retention()
  Interval,    \* min(time.Minute, retention)
  MaxTime      \* bound on the clock

ASSUME RegistryConstants ==
  /\ Commands \cap Configs = {}
  /\ Nil \notin Commands \cup Configs \cup IDs
  /\ Retention \in Nat \ {0} /\ Interval \in 1..Retention /\ MaxTime \in Nat

Procs == Commands \cup Configs

VARIABLES
  tickets,      \* Service.tickets
  reserved,     \* reservedTicketIDs
  byConfig,     \* ticketsByConfig
  active,       \* activeTicketIDsByConfig
  nextCleanup,  \* per configuration
  engine,       \* what each configuration's engine holds
  obj,          \* the ticket objects
  holder,       \* who holds lockConfiguration
  proc,         \* where each command and each tick is
  now           \* the clock

tables == <<tickets, reserved, byConfig, active, nextCleanup>>
vars == <<tables, engine, obj, holder, proc, now>>

NoObject == [id |-> Nil, config |-> Nil, ended |-> FALSE, endTime |-> 0]
Idle     == [pc |-> "idle", config |-> Nil, id |-> Nil, ticket |-> Nil, expired |-> {},
             time |-> 0]

Init ==
  /\ tickets = [i \in IDs |-> Nil]
  /\ reserved = {}
  /\ byConfig = [c \in Configs |-> [i \in IDs |-> Nil]]
  /\ active = [c \in Configs |-> {}]
  /\ nextCleanup = [c \in Configs |-> 0]
  /\ engine = [c \in Configs |-> [i \in IDs |-> "unknown"]]
  /\ obj = [p \in Commands |-> NoObject]
  /\ holder = [c \in Configs |-> Nil]
  /\ proc = [p \in Procs |-> Idle]
  /\ now = 0

Goto(p, label) == proc' = [proc EXCEPT ![p].pc = label]

\* lockConfiguration; what is acquired then goes on at label.
Lock(p, from, label) ==
  /\ proc[p].pc = from
  /\ holder[proc[p].config] = Nil
  /\ holder' = [holder EXCEPT ![proc[p].config] = p]
  /\ Goto(p, label)
  /\ UNCHANGED <<tables, engine, obj, now>>

\* A command ends here, a tick comes again.
Unlock(p) ==
  /\ proc[p].pc = "unlock"
  /\ holder' = [holder EXCEPT ![proc[p].config] = Nil]
  /\ proc' = [proc EXCEPT ![p] = [Idle EXCEPT !.pc = IF p \in Commands THEN "done" ELSE "idle"]]
  /\ UNCHANGED <<tables, engine, obj, now>>

-----------------------------------------------------------------------------
(* StartMatchmaking and StartMatchBackfill *)

StartCalled(p, c, i) ==
  /\ proc[p].pc = "idle"
  /\ proc' = [proc EXCEPT ![p] = [Idle EXCEPT !.pc = "start", !.config = c, !.id = i]]
  /\ UNCHANGED <<tables, engine, obj, holder, now>>

\* The clock was read just before.
reserveTicketID(p) ==
  LET i == proc[p].id
  IN  /\ proc[p].pc = "reserve"
      /\ IF tickets[i] # Nil \/ i \in reserved
         THEN Goto(p, "unlock") /\ UNCHANGED reserved
         ELSE /\ proc' = [proc EXCEPT ![p].pc = "enqueue", ![p].time = now]
              /\ reserved' = reserved \cup {i}
      /\ UNCHANGED <<tickets, byConfig, active, nextCleanup, engine, obj, holder, now>>

\* The engine refuses the ticket, or a backfill request is rolled back (Cancel
\* and Evict of the id it has just accepted), and the id is free again.
cancelTicketReservation(p) ==
  /\ proc[p].pc = "enqueue"
  /\ reserved' = reserved \ {proc[p].id}
  /\ Goto(p, "unlock")
  /\ UNCHANGED <<tickets, byConfig, active, nextCleanup, engine, obj, holder, now>>

\* engine.EnqueueBackfill accepts a request, and the earlier one of its session,
\* which is active still, is cancelled in the engine, ended and saved.
supersedeBackfill(p, prev) ==
  LET c == proc[p].config  i == proc[p].id
  IN  /\ proc[p].pc = "enqueue" /\ engine[c][i] = "unknown" /\ prev \in active[c]
      /\ engine' = [engine EXCEPT ![c][i] = "live",
                                  ![c][prev] = IF @ = "live" THEN "finished" ELSE @]
      /\ obj' = [obj EXCEPT ![tickets[prev]].ended = TRUE,
                            ![tickets[prev]].endTime = proc[p].time]
      /\ active' = [active EXCEPT ![c] = @ \ {prev}]
      /\ Goto(p, "commit")
      /\ UNCHANGED <<tickets, reserved, byConfig, nextCleanup, holder, now>>

\* engine.Enqueue accepts the ticket, or has before it superseded another, and
\* commitTicket stores it.
commitTicket(p) ==
  LET c == proc[p].config  i == proc[p].id
  IN  /\ \/ proc[p].pc = "enqueue" /\ engine[c][i] = "unknown"
         \/ proc[p].pc = "commit"
      /\ engine' = [engine EXCEPT ![c][i] = "live"]
      /\ obj' = [obj EXCEPT ![p] = [NoObject EXCEPT !.id = i, !.config = c]]
      /\ tickets' = [tickets EXCEPT ![i] = p]
      /\ byConfig' = [byConfig EXCEPT ![c][i] = p]
      /\ active' = [active EXCEPT ![c] = @ \cup {i}]
      /\ reserved' = reserved \ {i}
      /\ Goto(p, "unlock")
      /\ UNCHANGED <<nextCleanup, holder, now>>

-----------------------------------------------------------------------------
(* StopMatchmaking and AcceptMatch look the ticket up before they know which
   lock to take, and once more under it. *)

GetTicket(p, i) ==
  /\ proc[p].pc = "idle"
  /\ tickets[i] # Nil
  /\ proc' = [proc EXCEPT ![p] = [Idle EXCEPT !.pc = "stop", !.id = i, !.ticket = tickets[i],
                                              !.config = obj[tickets[i]].config]]
  /\ UNCHANGED <<tables, engine, obj, holder, now>>

\* Fault: only the id is looked up again.
GetTicketAgain_ById(p) ==
  /\ proc[p].pc = "again"
  /\ Goto(p, IF tickets[proc[p].id] # Nil THEN "cancel" ELSE "unlock")
  /\ UNCHANGED <<tables, engine, obj, holder, now>>

GetTicketAgain(p) ==
  /\ proc[p].pc = "again"
  /\ Goto(p, IF tickets[proc[p].id] = proc[p].ticket THEN "cancel" ELSE "unlock")
  /\ UNCHANGED <<tables, engine, obj, holder, now>>

\* engine.Cancel, and SaveTicket of the ticket.  SaveTicket refuses a ticket
\* that is not the stored one; OwnTicket shows that it never has to.
SaveTicket(p) ==
  LET c == proc[p].config  i == proc[p].id
  IN  /\ proc[p].pc = "cancel"
      /\ engine' = [engine EXCEPT ![c][i] = IF @ = "live" THEN "finished" ELSE @]
      /\ Goto(p, "unlock")
      /\ UNCHANGED <<tables, obj, holder, now>>

-----------------------------------------------------------------------------
(* Tick: engine.Tick finishes some tickets, the service follows, and
   evictExpiredTickets forgets what finished long ago. *)

TickCalled(c) ==
  /\ proc[c].pc = "idle"
  /\ proc' = [proc EXCEPT ![c] = [Idle EXCEPT !.pc = "tick", !.config = c]]
  /\ UNCHANGED <<tables, engine, obj, holder, now>>

\* The tickets the engine has finished end at the time of this tick.
FinishTickets(c, more) ==
  LET ends == {i \in active[c] : engine[c][i] = "finished" \/ i \in more}
  IN  /\ proc[c].pc = "finish"
      /\ more \subseteq {i \in IDs : engine[c][i] = "live"}
      /\ engine' = [engine EXCEPT ![c] = [i \in IDs |-> IF i \in more THEN "finished" ELSE @[i]]]
      /\ obj' = [p \in Commands |-> IF \E i \in ends : tickets[i] = p
                                    THEN [obj[p] EXCEPT !.ended = TRUE, !.endTime = now]
                                    ELSE obj[p]]
      /\ active' = [active EXCEPT ![c] = @ \ ends]
      /\ proc' = [proc EXCEPT ![c].pc = "scan", ![c].time = now]
      /\ UNCHANGED <<tickets, reserved, byConfig, nextCleanup, holder, now>>

\* Fault: a ticket goes one unit of time too early.
Expired_Early(o, time) == obj[o].ended /\ time - obj[o].endTime >= Retention - 1

Expired(o, time) == obj[o].ended /\ time - obj[o].endTime >= Retention

\* Fault: a tick that is not due puts the next scan off.
ScanExpired_Postponed(c) ==
  LET time == proc[c].time
      expired == {i \in IDs : byConfig[c][i] # Nil /\ Expired(byConfig[c][i], time)}
  IN  /\ proc[c].pc = "scan"
      /\ nextCleanup' = [nextCleanup EXCEPT ![c] = time + Interval]
      /\ IF time < nextCleanup[c] THEN Goto(c, "unlock")
         ELSE proc' = [proc EXCEPT ![c].pc = "evict", ![c].expired = expired]
      /\ UNCHANGED <<tickets, reserved, byConfig, active, engine, obj, holder, now>>

\* Fault: the next scan is due before this one.
ScanExpired_Before(c) ==
  LET time == proc[c].time
      expired == {i \in IDs : byConfig[c][i] # Nil /\ Expired(byConfig[c][i], time)}
  IN  /\ proc[c].pc = "scan"
      /\ nextCleanup' = [nextCleanup EXCEPT ![c] = time - Interval]
      /\ proc' = [proc EXCEPT ![c].pc = "evict", ![c].expired = expired]
      /\ UNCHANGED <<tickets, reserved, byConfig, active, engine, obj, holder, now>>

\* The first critical section of evictExpiredTickets.
ScanExpired(c) ==
  LET time == proc[c].time
      expired == {i \in IDs : byConfig[c][i] # Nil /\ Expired(byConfig[c][i], time)}
  IN  /\ proc[c].pc = "scan"
      /\ IF time < nextCleanup[c]
         THEN Goto(c, "unlock") /\ UNCHANGED nextCleanup
         ELSE /\ nextCleanup' = [nextCleanup EXCEPT ![c] = time + Interval]
              /\ proc' = [proc EXCEPT ![c].pc = "evict", ![c].expired = expired]
      /\ UNCHANGED <<tickets, reserved, byConfig, active, engine, obj, holder, now>>

\* Fault: the engine is not told.
EvictFromEngine_Skipped(c) ==
  /\ proc[c].pc = "evict"
  /\ IF proc[c].expired = {} THEN Goto(c, "unlock")
     ELSE \E i \in proc[c].expired : proc' = [proc EXCEPT ![c].pc = "delete", ![c].id = i]
  /\ UNCHANGED <<tables, engine, obj, holder, now>>

\* engine.Evict of the next expired ticket, without stateMu.
EvictFromEngine(c) ==
  /\ proc[c].pc = "evict"
  /\ IF proc[c].expired = {}
     THEN Goto(c, "unlock") /\ UNCHANGED engine
     ELSE \E i \in proc[c].expired :
            /\ engine' = [engine EXCEPT ![c][i] = IF @ = "finished" THEN "unknown" ELSE @]
            /\ proc' = [proc EXCEPT ![c].pc = "delete", ![c].id = i]
  /\ UNCHANGED <<tables, obj, holder, now>>

\* Fault: the index of the configuration keeps the ticket.
DeleteExpired_OneTable(c) ==
  LET i == proc[c].id
      gone == byConfig[c][i] # Nil /\ Expired(byConfig[c][i], proc[c].time)
  IN  /\ proc[c].pc = "delete"
      /\ IF gone THEN tickets' = [tickets EXCEPT ![i] = Nil] ELSE UNCHANGED tickets
      /\ proc' = [proc EXCEPT ![c].pc = "evict", ![c].expired = @ \ {i}]
      /\ UNCHANGED <<byConfig, active, reserved, nextCleanup, engine, obj, holder, now>>

\* The second critical section, which looks at the ticket again.
DeleteExpired(c) ==
  LET i == proc[c].id
      gone == byConfig[c][i] # Nil /\ Expired(byConfig[c][i], proc[c].time)
  IN  /\ proc[c].pc = "delete"
      /\ IF gone
         THEN /\ byConfig' = [byConfig EXCEPT ![c][i] = Nil]
              /\ tickets' = [tickets EXCEPT ![i] = Nil]
              /\ active' = [active EXCEPT ![c] = @ \ {i}]
         ELSE UNCHANGED <<byConfig, tickets, active>>
      /\ proc' = [proc EXCEPT ![c].pc = "evict", ![c].expired = @ \ {i}]
      /\ UNCHANGED <<reserved, nextCleanup, engine, obj, holder, now>>

Advance == now < MaxTime /\ now' = now + 1 /\ UNCHANGED <<tables, engine, obj, holder, proc>>

-----------------------------------------------------------------------------

Command(p) ==
  \/ \E c \in Configs, i \in IDs : StartCalled(p, c, i)
  \/ \E i \in IDs : GetTicket(p, i)

Step(p) ==
  \/ Lock(p, "start", "reserve") \/ Lock(p, "stop", "again")
  \/ reserveTicketID(p) \/ cancelTicketReservation(p) \/ commitTicket(p)
  \/ \E prev \in IDs : supersedeBackfill(p, prev)
  \/ GetTicketAgain(p) \/ SaveTicket(p) \/ Unlock(p)

Tick(c) ==
  \/ TickCalled(c) \/ Lock(c, "tick", "finish")
  \/ \E more \in SUBSET IDs : FinishTickets(c, more)
  \/ ScanExpired(c) \/ EvictFromEngine(c) \/ DeleteExpired(c) \/ Unlock(c)

Next == \/ \E p \in Commands : Command(p) \/ Step(p)
        \/ \E c \in Configs : Tick(c)
        \/ Advance

Spec == Init /\ [][Next]_vars

-----------------------------------------------------------------------------
(* Properties *)

Labels == {"idle", "start", "reserve", "enqueue", "commit", "stop", "again", "cancel",
           "tick", "finish", "scan", "evict", "delete", "unlock", "done"}

\* Every variable has its type.
TypeOK ==
  /\ tickets \in [IDs -> Commands \cup {Nil}] /\ reserved \subseteq IDs
  /\ byConfig \in [Configs -> [IDs -> Commands \cup {Nil}]]
  /\ active \in [Configs -> SUBSET IDs] /\ nextCleanup \in [Configs -> Nat]
  /\ engine \in [Configs -> [IDs -> {"unknown", "live", "finished"}]]
  /\ obj \in [Commands -> [id : IDs \cup {Nil}, config : Configs \cup {Nil},
                          ended : BOOLEAN, endTime : Nat]]
  /\ holder \in [Configs -> Procs \cup {Nil}]
  /\ proc \in [Procs -> [pc : Labels, config : Configs \cup {Nil}, id : IDs \cup {Nil},
                         ticket : Commands \cup {Nil}, expired : SUBSET IDs, time : Nat]]
  /\ now \in Nat

\* The three tables that evictExpiredTickets, commitTicket and SaveTicket keep
\* by hand list the same tickets, each under its own configuration only.
TablesAgree ==
  \A c \in Configs, i \in IDs :
    LET o == tickets[i]
    IN  /\ byConfig[c][i] = IF o # Nil /\ obj[o].config = c THEN o ELSE Nil
        /\ i \in active[c] <=> byConfig[c][i] # Nil /\ ~obj[o].ended

\* A configuration's engine knows no ticket the service has forgotten, so that
\* an id that reserveTicketID grants is unknown to every engine: it can be used
\* again, also in another configuration, while evictions are under way.  Only
\* between engine.EnqueueBackfill and commitTicket one engine is ahead.
NoOrphans ==
  /\ \A c \in Configs, i \in IDs : engine[c][i] # "unknown" =>
       \/ byConfig[c][i] # Nil
       \/ \E p \in Commands : proc[p].pc = "commit" /\ proc[p].config = c /\ proc[p].id = i
  /\ \A p \in Commands, c \in Configs : proc[p].pc \in {"enqueue", "commit"} =>
       \/ engine[c][proc[p].id] = "unknown"
       \/ proc[p].pc = "commit" /\ c = proc[p].config

\* A command that looked its ticket up before it had the lock acts on that very
\* ticket, never on a later one under the same id.
OwnTicket ==
  \A p \in Commands : proc[p].pc = "cancel" => tickets[proc[p].id] = proc[p].ticket

\* docs/usage/config.md: a finished ticket stays queryable for ticketRetention.
\* No ticket leaves the table before, and none is ever replaced.
KeptForRetention ==
  [][\A i \in IDs : LET o == tickets[i] IN
       o # Nil /\ tickets'[i] # o =>
         tickets'[i] = Nil /\ obj[o].ended /\ now - obj[o].endTime >= Retention]_vars

\* A finished ticket does not stay for ever: unless it is being evicted, the next
\* scan is due in time to evict it before Retention + Interval have passed.
EvictedOnTime ==
  \A c \in Configs, i \in IDs :
    LET o == byConfig[c][i]
    IN  o # Nil /\ obj[o].ended =>
          \/ i \in proc[c].expired
          \/ nextCleanup[c] < obj[o].endTime + Retention + Interval
=============================================================================
