--------------------------- MODULE RegistryProofs ---------------------------
(***************************************************************************)
(* What Registry guarantees for any commands, configurations, ids and      *)
(* retention: nothing in the proofs bounds them or the clock. First the    *)
(* invariant and what each step does, then the proofs.                     *)
(***************************************************************************)
EXTENDS Registry, TLAPS

-----------------------------------------------------------------------------
(* The invariant *)

Held == {"reserve", "enqueue", "commit", "again", "cancel", "finish", "scan", "evict", "delete", "unlock"}

\* A command or tick past lockConfiguration holds the lock of its configuration.
Locked ==
  \A p \in Procs : proc[p].pc \in Held =>
    proc[p].config \in Configs /\ holder[proc[p].config] = p

\* Where a command can be, and what it has looked up by then.
CommandShape ==
  \A p \in Commands :
    /\ proc[p].pc \in {"idle", "start", "reserve", "enqueue", "commit", "stop", "again",
                       "cancel", "unlock", "done"}
    /\ proc[p].pc \notin {"idle", "done"} => proc[p].config \in Configs /\ proc[p].id \in IDs
    /\ proc[p].pc \in {"stop", "again", "cancel"} =>
         proc[p].ticket \in Commands /\ obj[proc[p].ticket].config = proc[p].config

\* Where a tick can be.
TickShape ==
  \A c \in Configs :
    /\ proc[c].pc \in {"idle", "tick", "finish", "scan", "evict", "delete", "unlock"}
    /\ proc[c].pc # "idle" => proc[c].config = c
    /\ proc[c].time <= now
    /\ proc[c].pc = "delete" => proc[c].id \in IDs

\* What a tick has set out to evict is still expired when it gets there, and its
\* engine does not take it up again.
Evicting ==
  \A c \in Configs :
    /\ proc[c].pc = "delete" => engine[c][proc[c].id] = "unknown"
    /\ \A i \in proc[c].expired :
         /\ proc[c].pc \in {"evict", "delete"}
         /\ engine[c][i] # "live"
         /\ byConfig[c][i] # Nil => Expired(byConfig[c][i], proc[c].time)

\* An id is reserved by one command, and free until that command commits it.
Reservation ==
  \A p \in Commands : proc[p].pc \in {"enqueue", "commit"} =>
    /\ proc[p].id \in reserved
    /\ tickets[proc[p].id] = Nil
    /\ \A q \in Commands :
         proc[q].pc \in {"enqueue", "commit"} /\ proc[q].id = proc[p].id => q = p

\* A ticket object exists from the commit of its command on.
Created == \A o \in Commands : obj[o].config # Nil => proc[o].pc \in {"unlock", "done"}

\* A ticket is stored under its own id and belongs to a configuration.
Named ==
  \A i \in IDs : tickets[i] # Nil => obj[tickets[i]].id = i /\ obj[tickets[i]].config \in Configs

\* A ticket that has ended is not alive in the engine.
Settled ==
  \A c \in Configs, i \in IDs :
    byConfig[c][i] # Nil /\ obj[byConfig[c][i]].ended => engine[c][i] # "live"

\* A command that has enqueued its ticket and not committed it yet.
Enqueued(c, i) ==
  \E p \in Commands : proc[p].pc = "commit" /\ proc[p].config = c /\ proc[p].id = i

\* What an engine knows, the service has stored for its configuration, or is about to.
Known == \A c \in Configs, i \in IDs :
           engine[c][i] # "unknown" => byConfig[c][i] # Nil \/ Enqueued(c, i)

\* The next scan is never further away than one interval, also for a command that
\* read the clock when it had its lock.
ScanSoon ==
  /\ \A c \in Configs : nextCleanup[c] <= now + Interval
  /\ \A p \in Commands : proc[p].pc = "enqueue" =>
       nextCleanup[proc[p].config] <= proc[p].time + Interval

-----------------------------------------------------------------------------
(* Types *)

ProcRecord == [pc : Labels, config : Configs \cup {Nil}, id : IDs \cup {Nil},
               ticket : Commands \cup {Nil}, expired : SUBSET IDs, time : Nat]

ObjRecord == [id : IDs \cup {Nil}, config : Configs \cup {Nil}, ended : BOOLEAN, endTime : Nat]

LEMMA InitType == Init => TypeOK
  <1> SUFFICES ASSUME Init PROVE TypeOK
    OBVIOUS
  <1>1. Idle \in ProcRecord
    BY DEF Idle, ProcRecord, Labels
  <1>2. NoObject \in ObjRecord
    BY DEF NoObject, ObjRecord
  <1> QED
    BY <1>1, <1>2 DEF Init, TypeOK, ProcRecord, ObjRecord

\* Moving on to another place keeps the type of proc.
LEMMA GotoType ==
  ASSUME TypeOK, NEW p \in Procs, NEW label \in Labels, Goto(p, label)
  PROVE  proc' \in [Procs -> ProcRecord]
  BY DEF TypeOK, Goto, ProcRecord

LEMMA CommandType ==
  ASSUME TypeOK, CommandShape, NEW p \in Commands, Command(p) \/ Step(p)
  PROVE  TypeOK'
  <1>0. /\ p \in Procs /\ proc \in [Procs -> ProcRecord]
        /\ proc[p].pc \notin {"idle", "done"} => proc[p].config \in Configs /\ proc[p].id \in IDs
    BY DEF Procs, TypeOK, ProcRecord, CommandShape
  <1>1. ASSUME NEW c \in Configs, NEW i \in IDs, StartCalled(p, c, i)
        PROVE  TypeOK'
    <2>1. proc' \in [Procs -> ProcRecord]
      BY <1>0, <1>1 DEF StartCalled, ProcRecord, Idle, Labels
    <2> QED
      BY <1>1, <2>1 DEF StartCalled, TypeOK, tables, ProcRecord
  <1>2. ASSUME NEW i \in IDs, GetTicket(p, i) PROVE TypeOK'
    <2>1. proc' \in [Procs -> ProcRecord]
      BY <1>0, <1>2 DEF GetTicket, ProcRecord, Idle, Labels, TypeOK
    <2> QED
      BY <1>2, <2>1 DEF GetTicket, TypeOK, tables, ProcRecord
  <1>3. ASSUME NEW from, NEW label \in Labels, Lock(p, from, label) PROVE TypeOK'
    <2>1. proc' \in [Procs -> ProcRecord]
      BY <1>0, <1>3, GotoType DEF Lock
    <2>2. holder' \in [Configs -> Procs \cup {Nil}]
      BY <1>0, <1>3 DEF Lock, TypeOK
    <2> QED
      BY <1>3, <2>1, <2>2 DEF Lock, TypeOK, tables, ProcRecord
  <1>4. CASE reserveTicketID(p)
    <2>1. proc' \in [Procs -> ProcRecord]
      <3>1. proc[p] \in ProcRecord /\ now \in Nat
        BY <1>0 DEF TypeOK
      <3>2. [proc[p] EXCEPT !.pc = "enqueue", !.time = now] \in ProcRecord
        BY <3>1 DEF ProcRecord, Labels
      <3>3. \/ Goto(p, "unlock")
            \/ proc' = [proc EXCEPT ![p] = [proc[p] EXCEPT !.pc = "enqueue", !.time = now]]
        BY <1>0, <1>4 DEF reserveTicketID
      <3> QED
        BY <1>0, <3>2, <3>3, GotoType DEF Labels
    <2> QED
      BY <1>0, <1>4, <2>1 DEF reserveTicketID, TypeOK, ProcRecord
  <1>5. CASE cancelTicketReservation(p)
    <2>1. proc' \in [Procs -> ProcRecord]
      BY <1>0, <1>5, GotoType DEF cancelTicketReservation, Labels
    <2> QED
      BY <1>0, <1>5, <2>1 DEF cancelTicketReservation, TypeOK, ProcRecord
  <1>6. CASE commitTicket(p)
    <2> DEFINE c == proc[p].config
               i == proc[p].id
    <2>1. c \in Configs /\ i \in IDs
      BY <1>0, <1>6 DEF commitTicket
    <2>2. proc' \in [Procs -> ProcRecord]
      BY <1>0, <1>6, GotoType DEF commitTicket, Labels
    <2>3. obj' \in [Commands -> ObjRecord]
      <3>1. [NoObject EXCEPT !.id = i, !.config = c] \in ObjRecord
        BY <2>1 DEF NoObject, ObjRecord
      <3> QED
        BY <1>6, <3>1 DEF commitTicket, TypeOK, ObjRecord
    <2>4. /\ tickets' \in [IDs -> Commands \cup {Nil}] /\ reserved' \subseteq IDs
          /\ byConfig' \in [Configs -> [IDs -> Commands \cup {Nil}]]
      BY <1>6, <2>1 DEF commitTicket, TypeOK
    <2>5. /\ active' \in [Configs -> SUBSET IDs]
          /\ engine' \in [Configs -> [IDs -> {"unknown", "live", "finished"}]]
      BY <1>6, <2>1 DEF commitTicket, TypeOK
    <2> QED
      BY <1>6, <2>2, <2>3, <2>4, <2>5 DEF commitTicket, TypeOK, ProcRecord, ObjRecord
  <1>7. CASE GetTicketAgain(p)
    <2>1. proc' \in [Procs -> ProcRecord]
      BY <1>0, <1>7, GotoType DEF GetTicketAgain, Labels
    <2> QED
      BY <1>0, <1>7, <2>1 DEF GetTicketAgain, tables, TypeOK, ProcRecord
  <1>8. CASE SaveTicket(p)
    <2>1. proc' \in [Procs -> ProcRecord]
      BY <1>0, <1>8, GotoType DEF SaveTicket, Labels
    <2>2. engine' \in [Configs -> [IDs -> {"unknown", "live", "finished"}]]
      BY <1>0, <1>8 DEF SaveTicket, TypeOK
    <2> QED
      BY <1>8, <2>1, <2>2 DEF SaveTicket, tables, TypeOK, ProcRecord
  <1>9. CASE Unlock(p)
    <2>1. proc' \in [Procs -> ProcRecord]
      BY <1>0, <1>9 DEF Unlock, ProcRecord, Idle, Labels, TypeOK
    <2>2. holder' \in [Configs -> Procs \cup {Nil}]
      BY <1>9 DEF Unlock, TypeOK
    <2> QED
      BY <1>9, <2>1, <2>2 DEF Unlock, tables, TypeOK, ProcRecord
  <1>10. ASSUME NEW prev \in IDs, supersedeBackfill(p, prev) PROVE TypeOK'
    <2> DEFINE c == proc[p].config
               i == proc[p].id
    <2>1. c \in Configs /\ i \in IDs /\ proc[p].time \in Nat
      BY <1>0, <1>10 DEF supersedeBackfill, ProcRecord
    <2>2. proc' \in [Procs -> ProcRecord]
      BY <1>0, <1>10, GotoType DEF supersedeBackfill, Labels
    <2>3. obj' \in [Commands -> ObjRecord]
      <3> DEFINE o == tickets[prev]
      <3>1. obj \in [Commands -> ObjRecord]
        BY DEF TypeOK, ObjRecord
      <3>2. obj' = [obj EXCEPT ![o].ended = TRUE, ![o].endTime = proc[p].time]
        BY <1>10 DEF supersedeBackfill
      <3>3. \A r \in ObjRecord : [r EXCEPT !.ended = TRUE, !.endTime = proc[p].time] \in ObjRecord
        BY <2>1 DEF ObjRecord
      <3> HIDE DEF o
      <3> QED
        BY <3>1, <3>2, <3>3
    <2>4. active' \in [Configs -> SUBSET IDs]
      BY <1>10 DEF supersedeBackfill, TypeOK
    <2>5. engine' \in [Configs -> [IDs -> {"unknown", "live", "finished"}]]
      BY <1>10, <2>1 DEF supersedeBackfill, TypeOK
    <2> QED
      BY <1>10, <2>2, <2>3, <2>4, <2>5 DEF supersedeBackfill, TypeOK, ProcRecord, ObjRecord
  <1> QED
    BY <1>1, <1>2, <1>3, <1>4, <1>5, <1>6, <1>7, <1>8, <1>9, <1>10 DEF Command, Step, Labels

LEMMA TickType ==
  ASSUME TypeOK, TickShape, NEW c \in Configs, Tick(c)
  PROVE  TypeOK'
  <1>0. /\ c \in Procs /\ proc \in [Procs -> ProcRecord] /\ proc[c] \in ProcRecord
        /\ proc[c].pc = "delete" => proc[c].id \in IDs
    BY DEF Procs, TypeOK, ProcRecord, TickShape
  <1>1. CASE TickCalled(c)
    <2>1. proc' \in [Procs -> ProcRecord]
      BY <1>0, <1>1 DEF TickCalled, ProcRecord, Idle, Labels
    <2> QED
      BY <1>1, <2>1 DEF TickCalled, tables, TypeOK, ProcRecord
  <1>2. CASE Lock(c, "tick", "finish")
    <2>1. proc' \in [Procs -> ProcRecord]
      BY <1>0, <1>2, GotoType DEF Lock, Labels
    <2>2. holder' \in [Configs -> Procs \cup {Nil}]
      BY <1>0, <1>2 DEF Lock, TypeOK
    <2> QED
      BY <1>2, <2>1, <2>2 DEF Lock, TypeOK, tables, ProcRecord
  <1>3. ASSUME NEW more \in SUBSET IDs, FinishTickets(c, more) PROVE TypeOK'
    <2>1. proc' \in [Procs -> ProcRecord]
      <3>1. [proc[c] EXCEPT !.pc = "scan", !.time = now] \in ProcRecord
        BY <1>0 DEF ProcRecord, Labels, TypeOK
      <3>2. proc' = [proc EXCEPT ![c] = [proc[c] EXCEPT !.pc = "scan", !.time = now]]
        BY <1>0, <1>3 DEF FinishTickets
      <3> QED
        BY <1>0, <3>1, <3>2
    <2>2. engine' \in [Configs -> [IDs -> {"unknown", "live", "finished"}]]
      <3> DEFINE f == [i \in IDs |-> IF i \in more THEN "finished" ELSE engine[c][i]]
      <3>1. f \in [IDs -> {"unknown", "live", "finished"}]
        BY DEF TypeOK
      <3>2. engine' = [engine EXCEPT ![c] = f]
        BY <1>3 DEF FinishTickets, TypeOK
      <3> QED
        BY <3>1, <3>2 DEF TypeOK
    <2>3. obj' \in [Commands -> ObjRecord]
      <3>1. \A o \in Commands : obj[o] \in ObjRecord
        BY DEF TypeOK, ObjRecord
      <3>2. \A r \in ObjRecord : [r EXCEPT !.ended = TRUE, !.endTime = now] \in ObjRecord
        BY DEF TypeOK, ObjRecord
      <3> QED
        BY <1>3, <3>1, <3>2 DEF FinishTickets
    <2>4. active' \in [Configs -> SUBSET IDs]
      BY <1>3 DEF FinishTickets, TypeOK
    <2> QED
      BY <1>3, <2>1, <2>2, <2>3, <2>4 DEF FinishTickets, TypeOK, ProcRecord, ObjRecord
  <1>4. CASE ScanExpired(c)
    <2>1. proc' \in [Procs -> ProcRecord]
      <3> DEFINE time == proc[c].time
                 expired == {i \in IDs : byConfig[c][i] # Nil /\ Expired(byConfig[c][i], time)}
      <3>1. [proc[c] EXCEPT !.pc = "evict", !.expired = expired] \in ProcRecord
        BY <1>0 DEF ProcRecord, Labels
      <3>2. \/ Goto(c, "unlock")
            \/ proc' = [proc EXCEPT ![c] = [proc[c] EXCEPT !.pc = "evict", !.expired = expired]]
        BY <1>0, <1>4 DEF ScanExpired
      <3> QED
        BY <1>0, <3>1, <3>2, GotoType DEF Labels
    <2>2. nextCleanup' \in [Configs -> Nat]
      BY <1>0, <1>4, RegistryConstants DEF ScanExpired, TypeOK, ProcRecord
    <2> QED
      BY <1>4, <2>1, <2>2 DEF ScanExpired, TypeOK, ProcRecord
  <1>5. CASE EvictFromEngine(c)
    <2>1. proc' \in [Procs -> ProcRecord]
      <3>1. CASE Goto(c, "unlock")
        BY <1>0, <3>1, GotoType DEF Labels
      <3>2. ASSUME NEW i \in proc[c].expired,
                   proc' = [proc EXCEPT ![c].pc = "delete", ![c].id = i]
            PROVE  proc' \in [Procs -> ProcRecord]
        <4>1. [proc[c] EXCEPT !.pc = "delete", !.id = i] \in ProcRecord
          BY <1>0, <3>2 DEF ProcRecord, Labels
        <4>2. proc' = [proc EXCEPT ![c] = [proc[c] EXCEPT !.pc = "delete", !.id = i]]
          BY <1>0, <3>2
        <4> QED
          BY <1>0, <4>1, <4>2
      <3> QED
        BY <1>5, <3>1, <3>2 DEF EvictFromEngine
    <2>2. engine' \in [Configs -> [IDs -> {"unknown", "live", "finished"}]]
      <3>1. ASSUME NEW i \in IDs
            PROVE  [engine EXCEPT ![c][i] = IF @ = "finished" THEN "unknown" ELSE @]
                     \in [Configs -> [IDs -> {"unknown", "live", "finished"}]]
        <4>1. [engine[c] EXCEPT ![i] = IF @ = "finished" THEN "unknown" ELSE @]
                \in [IDs -> {"unknown", "live", "finished"}]
          BY DEF TypeOK
        <4> QED
          BY <4>1 DEF TypeOK
      <3>2. CASE proc[c].expired = {}
        BY <1>5, <3>2 DEF EvictFromEngine, TypeOK
      <3>3. CASE proc[c].expired # {}
        <4>1. PICK i \in proc[c].expired :
                engine' = [engine EXCEPT ![c][i] = IF @ = "finished" THEN "unknown" ELSE @]
          BY <1>5, <3>3 DEF EvictFromEngine
        <4> QED
          BY <1>0, <3>1, <4>1 DEF ProcRecord
      <3> QED
        BY <3>2, <3>3
    <2> QED
      BY <1>5, <2>1, <2>2 DEF EvictFromEngine, tables, TypeOK, ProcRecord
  <1>6. CASE DeleteExpired(c)
    <2> DEFINE i == proc[c].id
    <2>1. proc' \in [Procs -> ProcRecord]
      <3>1. [proc[c] EXCEPT !.pc = "evict", !.expired = @ \ {i}] \in ProcRecord
        BY <1>0 DEF ProcRecord, Labels
      <3>2. proc' = [proc EXCEPT ![c] = [proc[c] EXCEPT !.pc = "evict", !.expired = @ \ {i}]]
        BY <1>0, <1>6 DEF DeleteExpired
      <3> QED
        BY <1>0, <3>1, <3>2
    <2>2. /\ tickets' \in [IDs -> Commands \cup {Nil}]
          /\ byConfig' \in [Configs -> [IDs -> Commands \cup {Nil}]]
          /\ active' \in [Configs -> SUBSET IDs]
      <3>1. i \in IDs
        BY <1>0, <1>6 DEF DeleteExpired
      <3>2. /\ [byConfig EXCEPT ![c][i] = Nil] \in [Configs -> [IDs -> Commands \cup {Nil}]]
            /\ [active EXCEPT ![c] = @ \ {i}] \in [Configs -> SUBSET IDs]
            /\ [tickets EXCEPT ![i] = Nil] \in [IDs -> Commands \cup {Nil}]
        BY <3>1 DEF TypeOK
      <3> HIDE DEF i
      <3> QED
        BY <1>6, <3>2 DEF DeleteExpired, TypeOK, i
    <2> QED
      BY <1>6, <2>1, <2>2 DEF DeleteExpired, TypeOK, ProcRecord
  <1>7. CASE Unlock(c)
    <2>1. proc' \in [Procs -> ProcRecord]
      BY <1>0, <1>7 DEF Unlock, ProcRecord, Idle, Labels
    <2>2. holder' \in [Configs -> Procs \cup {Nil}]
      BY <1>7 DEF Unlock, TypeOK
    <2> QED
      BY <1>7, <2>1, <2>2 DEF Unlock, tables, TypeOK, ProcRecord
  <1> QED
    BY <1>1, <1>2, <1>3, <1>4, <1>5, <1>6, <1>7 DEF Tick

LEMMA NextType ==
  ASSUME TypeOK, CommandShape, TickShape, [Next]_vars
  PROVE  TypeOK'
  <1>1. CASE Advance
    BY <1>1 DEF Advance, TypeOK, tables
  <1>2. CASE UNCHANGED vars
    BY <1>2 DEF vars, tables, TypeOK
  <1> QED
    BY <1>1, <1>2, CommandType, TickType DEF Next

-----------------------------------------------------------------------------
(* What the steps do, component by component *)

\* The other processes stay where they are.
OthersStay(p) == \A q \in Procs : q # p => proc'[q] = proc[q]

\* Process p goes to another place and knows what it knew.
Moves(p, label) ==
  /\ OthersStay(p)
  /\ proc'[p].pc = label /\ proc'[p].config = proc[p].config /\ proc'[p].id = proc[p].id
  /\ proc'[p].ticket = proc[p].ticket /\ proc'[p].expired = proc[p].expired
  /\ proc'[p].time = proc[p].time

Begins(p, label, c, i) ==
  /\ OthersStay(p) /\ proc[p].pc = "idle"
  /\ proc'[p].pc = label /\ proc'[p].config = c /\ proc'[p].id = i
  /\ proc'[p].expired = {} /\ proc'[p].time = 0
  /\ UNCHANGED <<tables, engine, obj, holder, now>>

Locks(p, from, label) ==
  /\ proc[p].pc = from /\ Moves(p, label)
  /\ \A c \in Configs : holder'[c] = IF c = proc[p].config THEN p ELSE holder[c]
  /\ holder[proc[p].config] = Nil
  /\ UNCHANGED <<tables, engine, obj, now>>

Unlocks(p) ==
  /\ OthersStay(p) /\ proc[p].pc = "unlock" /\ proc'[p].config = Nil
  /\ proc'[p].pc = IF p \in Commands THEN "done" ELSE "idle"
  /\ proc'[p].expired = {} /\ proc'[p].time = 0
  /\ \A c \in Configs : holder'[c] = IF c = proc[p].config THEN Nil ELSE holder[c]
  /\ UNCHANGED <<tables, engine, obj, now>>

Reserves(p) ==
  LET i == proc[p].id
  IN  /\ proc[p].pc = "reserve" /\ i \in IDs
      /\ \/ Moves(p, "unlock") /\ reserved' = reserved
         \/ /\ tickets[i] = Nil /\ i \notin reserved /\ reserved' = reserved \cup {i}
            /\ OthersStay(p)
            /\ proc'[p].pc = "enqueue" /\ proc'[p].time = now
            /\ proc'[p].config = proc[p].config /\ proc'[p].id = proc[p].id
      /\ UNCHANGED <<tickets, byConfig, active, nextCleanup, engine, obj, holder, now>>

GivesBack(p) ==
  /\ proc[p].pc = "enqueue" /\ Moves(p, "unlock") /\ reserved' = reserved \ {proc[p].id}
  /\ UNCHANGED <<tickets, byConfig, active, nextCleanup, engine, obj, holder, now>>

LooksAgain(p) ==
  /\ proc[p].pc = "again"
  /\ \/ Moves(p, "unlock")
     \/ tickets[proc[p].id] = proc[p].ticket /\ Moves(p, "cancel")
  /\ UNCHANGED <<tables, engine, obj, holder, now>>

Waits ==
  /\ now' = now \/ now' = now + 1
  /\ UNCHANGED <<tables, engine, obj, holder, proc>>

Commits(p) ==
  LET c == proc[p].config
      i == proc[p].id
  IN  /\ proc[p].pc \in {"enqueue", "commit"}
      /\ Moves(p, "unlock") /\ c \in Configs /\ i \in IDs
      /\ \A d \in Configs, k \in IDs :
           /\ engine'[d][k] = IF d = c /\ k = i THEN "live" ELSE engine[d][k]
           /\ byConfig'[d][k] = IF d = c /\ k = i THEN p ELSE byConfig[d][k]
           /\ k \in active'[d] <=> k \in active[d] \/ (d = c /\ k = i)
      /\ \A k \in IDs : tickets'[k] = IF k = i THEN p ELSE tickets[k]
      /\ \A o \in Commands : o # p => obj'[o] = obj[o]
      /\ obj'[p] = [id |-> i, config |-> c, ended |-> FALSE, endTime |-> 0]
      /\ reserved' = reserved \ {i}
      /\ UNCHANGED <<nextCleanup, holder, now>>

Supersedes(p, prev) ==
  LET c == proc[p].config
      i == proc[p].id
  IN  /\ proc[p].pc = "enqueue" /\ Moves(p, "commit") /\ c \in Configs /\ i \in IDs
      /\ prev \in active[c]
      /\ \A d \in Configs, k \in IDs :
           /\ ~(d = c /\ k = i) =>
                \/ engine'[d][k] = engine[d][k]
                \/ engine[d][k] = "live" /\ engine'[d][k] = "finished"
           /\ d = c /\ k = prev /\ k # i => engine'[d][k] # "live"
           /\ k \in active'[d] <=> k \in active[d] /\ ~(d = c /\ k = prev)
      /\ \A o \in Commands :
           /\ obj'[o].id = obj[o].id /\ obj'[o].config = obj[o].config
           /\ tickets[prev] = o => obj'[o].ended /\ obj'[o].endTime = proc[p].time
           /\ tickets[prev] # o => obj'[o] = obj[o]
      /\ UNCHANGED <<tickets, reserved, byConfig, nextCleanup, holder, now>>

Saves(p) ==
  /\ proc[p].pc = "cancel" /\ Moves(p, "unlock")
  /\ \A d \in Configs, k \in IDs :
       \/ engine'[d][k] = engine[d][k]
       \/ engine[d][k] = "live" /\ engine'[d][k] = "finished"
  /\ UNCHANGED <<tables, obj, holder, now>>

Finishes(c, ends) ==
  /\ OthersStay(c) /\ ends \subseteq active[c]
  /\ proc[c].pc = "finish" /\ proc'[c].pc = "scan" /\ proc'[c].time = now
  /\ proc'[c].config = proc[c].config /\ proc'[c].expired = proc[c].expired
  /\ \A d \in Configs, k \in IDs :
       /\ \/ engine'[d][k] = engine[d][k]
          \/ engine[d][k] = "live" /\ engine'[d][k] = "finished"
       /\ d = c /\ k \in ends => engine'[d][k] = "finished"
       /\ k \in active'[d] <=> k \in active[d] /\ ~(d = c /\ k \in ends)
  /\ \A o \in Commands :
       /\ obj'[o].id = obj[o].id /\ obj'[o].config = obj[o].config
       /\ (\E k \in ends : tickets[k] = o) => obj'[o].ended /\ obj'[o].endTime = now
       /\ ~(\E k \in ends : tickets[k] = o) => obj'[o] = obj[o]
  /\ UNCHANGED <<tickets, reserved, byConfig, nextCleanup, holder, now>>

Scans(c) ==
  /\ OthersStay(c)
  /\ proc[c].pc = "scan" /\ proc'[c].config = proc[c].config /\ proc'[c].time = proc[c].time
  /\ \/ /\ proc[c].time < nextCleanup[c] /\ proc'[c].pc = "unlock"
        /\ proc'[c].expired = proc[c].expired /\ nextCleanup' = nextCleanup
     \/ /\ proc'[c].pc = "evict"
        /\ proc'[c].expired = {i \in IDs : /\ byConfig[c][i] # Nil
                                           /\ Expired(byConfig[c][i], proc[c].time)}
        /\ \A d \in Configs :
             nextCleanup'[d] = IF d = c THEN proc[c].time + Interval ELSE nextCleanup[d]
  /\ UNCHANGED <<tickets, reserved, byConfig, active, engine, obj, holder, now>>

Evicts(c) ==
  /\ OthersStay(c)
  /\ proc[c].pc = "evict" /\ proc'[c].config = proc[c].config
  /\ proc'[c].time = proc[c].time /\ proc'[c].expired = proc[c].expired
  /\ \/ proc[c].expired = {} /\ proc'[c].pc = "unlock" /\ engine' = engine
     \/ \E i \in proc[c].expired :
          /\ i \in IDs /\ proc'[c].pc = "delete" /\ proc'[c].id = i
          /\ \A d \in Configs, k \in IDs :
               engine'[d][k] = IF d = c /\ k = i /\ engine[c][i] = "finished"
                               THEN "unknown" ELSE engine[d][k]
  /\ UNCHANGED <<tables, obj, holder, now>>

Deletes(c) ==
  LET i == proc[c].id
  IN  /\ OthersStay(c)
      /\ proc[c].pc = "delete" /\ i \in IDs
      /\ proc'[c].config = proc[c].config /\ proc'[c].pc = "evict"
      /\ proc'[c].time = proc[c].time /\ proc'[c].expired = proc[c].expired \ {i}
      /\ \/ /\ UNCHANGED <<byConfig, tickets, active>>
            /\ byConfig[c][i] = Nil \/ ~Expired(byConfig[c][i], proc[c].time)
         \/ /\ byConfig[c][i] # Nil /\ Expired(byConfig[c][i], proc[c].time)
            /\ \A k \in IDs : tickets'[k] = IF k = i THEN Nil ELSE tickets[k]
            /\ \A d \in Configs, k \in IDs :
                 /\ byConfig'[d][k] = IF d = c /\ k = i THEN Nil ELSE byConfig[d][k]
                 /\ k \in active'[d] <=> k \in active[d] /\ ~(d = c /\ k = i)
      /\ UNCHANGED <<reserved, nextCleanup, engine, obj, holder, now>>

\* Every step is one of these.
Effect ==
  \/ \E p \in Commands :
       \/ \E c \in Configs, i \in IDs : Begins(p, "start", c, i)
       \/ \E i \in IDs : /\ Begins(p, "stop", obj[tickets[i]].config, i)
                         /\ tickets[i] # Nil /\ proc'[p].ticket = tickets[i]
       \/ Locks(p, "start", "reserve") \/ Locks(p, "stop", "again")
       \/ Reserves(p) \/ GivesBack(p) \/ Commits(p) \/ LooksAgain(p) \/ Saves(p)
       \/ \E prev \in IDs : Supersedes(p, prev)
  \/ \E c \in Configs :
       \/ Begins(c, "tick", c, Nil) \/ Locks(c, "tick", "finish")
       \/ \E ends \in SUBSET active[c] : Finishes(c, ends)
       \/ Scans(c) \/ Evicts(c) \/ Deletes(c)
  \/ \E p \in Procs : Unlocks(p)
  \/ Waits

LEMMA GotoEffect ==
  ASSUME TypeOK, NEW p \in Procs, NEW label, Goto(p, label)
  PROVE  Moves(p, label)
  BY DEF TypeOK, Goto, Moves, OthersStay

LEMMA BeginEffect ==
  ASSUME TypeOK
  PROVE  /\ \A p \in Commands, c \in Configs, i \in IDs :
              StartCalled(p, c, i) => Begins(p, "start", c, i)
         /\ \A p \in Commands, i \in IDs :
              GetTicket(p, i) => /\ Begins(p, "stop", obj[tickets[i]].config, i)
                                 /\ tickets[i] # Nil /\ proc'[p].ticket = tickets[i]
         /\ \A c \in Configs : TickCalled(c) => Begins(c, "tick", c, Nil)
  <1>2. ASSUME NEW p \in Commands, NEW c \in Configs, NEW i \in IDs, StartCalled(p, c, i)
        PROVE  Begins(p, "start", c, i)
    <2>1. OthersStay(p) /\ proc'[p] = [Idle EXCEPT !.pc = "start", !.config = c, !.id = i]
      BY <1>2 DEF TypeOK, StartCalled, Procs, OthersStay
    <2>2. /\ proc'[p].pc = "start" /\ proc'[p].config = c /\ proc'[p].id = i
          /\ proc'[p].expired = {} /\ proc'[p].time = 0
      BY <2>1 DEF Idle
    <2> QED
      BY <1>2, <2>1, <2>2 DEF StartCalled, Begins
  <1>3. ASSUME NEW p \in Commands, NEW i \in IDs, GetTicket(p, i)
        PROVE  /\ Begins(p, "stop", obj[tickets[i]].config, i)
               /\ tickets[i] # Nil /\ proc'[p].ticket = tickets[i]
    <2>1. OthersStay(p) /\ proc'[p] = [Idle EXCEPT !.pc = "stop", !.id = i, !.ticket = tickets[i],
                                                   !.config = obj[tickets[i]].config]
      BY <1>3 DEF TypeOK, GetTicket, Procs, OthersStay
    <2>2. /\ proc'[p].pc = "stop" /\ proc'[p].config = obj[tickets[i]].config /\ proc'[p].id = i
          /\ proc'[p].expired = {} /\ proc'[p].time = 0 /\ proc'[p].ticket = tickets[i]
      BY <2>1 DEF Idle
    <2> QED
      BY <1>3, <2>1, <2>2 DEF GetTicket, Begins
  <1>4. ASSUME NEW c \in Configs, TickCalled(c) PROVE Begins(c, "tick", c, Nil)
    <2>1. OthersStay(c) /\ proc'[c] = [Idle EXCEPT !.pc = "tick", !.config = c]
      BY <1>4 DEF TypeOK, TickCalled, Procs, OthersStay
    <2>2. /\ proc'[c].pc = "tick" /\ proc'[c].config = c /\ proc'[c].id = Nil
          /\ proc'[c].expired = {} /\ proc'[c].time = 0
      BY <2>1 DEF Idle
    <2> QED
      BY <1>4, <2>1, <2>2 DEF TickCalled, Begins
  <1> QED
    BY <1>2, <1>3, <1>4

LEMMA UnlockEffect ==
  ASSUME TypeOK, NEW p \in Procs, Unlock(p)
  PROVE  Unlocks(p)
  BY DEF TypeOK, Unlock, Unlocks, OthersStay, Idle

LEMMA LockEffect ==
  ASSUME TypeOK, NEW p \in Procs, NEW from, NEW label, Lock(p, from, label)
  PROVE  Locks(p, from, label)
  BY GotoEffect DEF Lock, TypeOK, Locks

LEMMA FinishEffect ==
  ASSUME TypeOK, NEW c \in Configs, NEW more \in SUBSET IDs, FinishTickets(c, more)
  PROVE  Finishes(c, {i \in active[c] : engine[c][i] = "finished" \/ i \in more})
  <1> DEFINE ends == {i \in active[c] : engine[c][i] = "finished" \/ i \in more}
  <1>1. /\ OthersStay(c) /\ proc[c].pc = "finish" /\ proc'[c].pc = "scan" /\ proc'[c].time = now
        /\ proc'[c].config = proc[c].config /\ proc'[c].expired = proc[c].expired
    BY DEF TypeOK, FinishTickets, Procs, OthersStay
  <1>2. \A d \in Configs, k \in IDs :
          engine'[d][k] = IF d = c /\ k \in more THEN "finished" ELSE engine[d][k]
    BY DEF TypeOK, FinishTickets
  <1>3. \A k \in more : engine[c][k] = "live"
    BY DEF FinishTickets
  <1>4. \A d \in Configs, k \in IDs :
          k \in active'[d] <=> k \in active[d] /\ ~(d = c /\ k \in ends)
    BY DEF TypeOK, FinishTickets
  <1>5. \A o \in Commands :
          obj'[o] = IF \E i \in ends : tickets[i] = o
                    THEN [obj[o] EXCEPT !.ended = TRUE, !.endTime = now] ELSE obj[o]
    BY DEF FinishTickets
  <1>6. \A o \in Commands :
          /\ obj'[o].id = obj[o].id /\ obj'[o].config = obj[o].config
          /\ (\E k \in ends : tickets[k] = o) => obj'[o].ended /\ obj'[o].endTime = now
          /\ ~(\E k \in ends : tickets[k] = o) => obj'[o] = obj[o]
    <2> SUFFICES ASSUME NEW o \in Commands
                 PROVE  /\ obj'[o].id = obj[o].id /\ obj'[o].config = obj[o].config
                        /\ (\E k \in ends : tickets[k] = o) =>
                             obj'[o].ended /\ obj'[o].endTime = now
                        /\ ~(\E k \in ends : tickets[k] = o) => obj'[o] = obj[o]
      OBVIOUS
    <2>1. obj[o] \in ObjRecord
      BY DEF TypeOK, ObjRecord
    <2>2. LET r == [obj[o] EXCEPT !.ended = TRUE, !.endTime = now]
          IN  r.id = obj[o].id /\ r.config = obj[o].config /\ r.ended = TRUE /\ r.endTime = now
      BY <2>1 DEF ObjRecord
    <2>3. CASE \E k \in ends : tickets[k] = o
      BY <1>5, <2>2, <2>3
    <2>4. CASE ~\E k \in ends : tickets[k] = o
      BY <1>5, <2>4
    <2> QED
      BY <2>3, <2>4
  <1>7. ends \subseteq active[c] /\ \A k \in ends : engine'[c][k] = "finished"
    BY <1>2 DEF TypeOK
  <1>8. UNCHANGED <<tickets, reserved, byConfig, nextCleanup, holder, now>>
    BY DEF FinishTickets
  <1> QED
    BY <1>1, <1>2, <1>3, <1>4, <1>6, <1>7, <1>8 DEF Finishes

LEMMA ScanEffect ==
  ASSUME TypeOK, NEW c \in Configs, ScanExpired(c)
  PROVE  Scans(c)
  BY DEF TypeOK, ScanExpired, Goto, Procs, Scans, OthersStay

LEMMA EvictEffect ==
  ASSUME TypeOK, NEW c \in Configs, EvictFromEngine(c)
  PROVE  Evicts(c)
  <1>1. c \in Procs /\ proc[c].expired \subseteq IDs
    BY DEF Procs, TypeOK
  <1>2. CASE proc[c].expired = {}
    BY <1>1, <1>2, GotoEffect DEF EvictFromEngine, Moves, Evicts
  <1>3. CASE proc[c].expired # {}
    <2>1. PICK i \in proc[c].expired :
            /\ engine' = [engine EXCEPT ![c][i] = IF @ = "finished" THEN "unknown" ELSE @]
            /\ proc' = [proc EXCEPT ![c].pc = "delete", ![c].id = i]
      BY <1>3 DEF EvictFromEngine
    <2>2. \A d \in Configs, k \in IDs :
            engine'[d][k] = IF d = c /\ k = i /\ engine[c][i] = "finished"
                            THEN "unknown" ELSE engine[d][k]
      BY <1>1, <2>1 DEF TypeOK
    <2>3. /\ \A q \in Procs : q # c => proc'[q] = proc[q]
          /\ proc'[c].config = proc[c].config /\ proc'[c].pc = "delete" /\ proc'[c].id = i
          /\ proc'[c].time = proc[c].time /\ proc'[c].expired = proc[c].expired
      BY <1>1, <2>1 DEF TypeOK
    <2> QED
      BY <1>1, <1>3, <2>1, <2>2, <2>3 DEF EvictFromEngine, Evicts, OthersStay
  <1> QED
    BY <1>2, <1>3

LEMMA DeleteEffect ==
  ASSUME TypeOK, TickShape, NEW c \in Configs, DeleteExpired(c)
  PROVE  Deletes(c)
  <1> DEFINE i == proc[c].id
  <1>1. proc[c].pc = "delete" /\ i \in IDs /\ c \in Procs
    BY DEF DeleteExpired, TickShape, Procs
  <1>2. /\ \A q \in Procs : q # c => proc'[q] = proc[q]
        /\ proc'[c].config = proc[c].config /\ proc'[c].pc = "evict"
        /\ proc'[c].time = proc[c].time /\ proc'[c].expired = proc[c].expired \ {i}
    BY <1>1 DEF DeleteExpired, TypeOK
  <1>5. UNCHANGED <<reserved, nextCleanup, engine, obj, holder, now>>
    BY DEF DeleteExpired
  <1>3. CASE byConfig[c][i] # Nil /\ Expired(byConfig[c][i], proc[c].time)
    <2>1. \A k \in IDs : tickets'[k] = IF k = i THEN Nil ELSE tickets[k]
      BY <1>1, <1>3 DEF DeleteExpired, TypeOK
    <2>2. \A d \in Configs, k \in IDs :
            byConfig'[d][k] = IF d = c /\ k = i THEN Nil ELSE byConfig[d][k]
      BY <1>1, <1>3 DEF DeleteExpired, TypeOK
    <2>3. \A d \in Configs, k \in IDs : k \in active'[d] <=> k \in active[d] /\ ~(d = c /\ k = i)
      BY <1>1, <1>3 DEF DeleteExpired, TypeOK
    <2> QED
      BY <1>1, <1>2, <1>3, <1>5, <2>1, <2>2, <2>3 DEF Deletes, OthersStay
  <1>4. CASE ~(byConfig[c][i] # Nil /\ Expired(byConfig[c][i], proc[c].time))
    BY <1>1, <1>2, <1>4, <1>5 DEF DeleteExpired, Deletes, OthersStay
  <1> QED
    BY <1>3, <1>4

LEMMA CommitEffect ==
  ASSUME TypeOK, CommandShape, NEW p \in Commands, commitTicket(p)
  PROVE  Commits(p)
  <1> DEFINE c == proc[p].config
             i == proc[p].id
  <1>1. /\ proc[p].pc \in {"enqueue", "commit"} /\ Moves(p, "unlock")
        /\ c \in Configs /\ i \in IDs
    BY GotoEffect DEF commitTicket, CommandShape, Procs
  <1>2. \A d \in Configs, k \in IDs :
          engine'[d][k] = IF d = c /\ k = i THEN "live" ELSE engine[d][k]
    BY <1>1 DEF commitTicket, TypeOK
  <1>3. \A d \in Configs, k \in IDs :
          byConfig'[d][k] = IF d = c /\ k = i THEN p ELSE byConfig[d][k]
    BY <1>1 DEF commitTicket, TypeOK
  <1>4. \A d \in Configs, k \in IDs : k \in active'[d] <=> k \in active[d] \/ (d = c /\ k = i)
    BY <1>1 DEF commitTicket, TypeOK
  <1>5. \A k \in IDs : tickets'[k] = IF k = i THEN p ELSE tickets[k]
    BY <1>1 DEF commitTicket, TypeOK
  <1>6. /\ \A o \in Commands : o # p => obj'[o] = obj[o]
        /\ obj'[p] = [id |-> i, config |-> c, ended |-> FALSE, endTime |-> 0]
    BY <1>1 DEF commitTicket, TypeOK, NoObject
  <1> QED
    BY <1>1, <1>2, <1>3, <1>4, <1>5, <1>6 DEF commitTicket, Commits

LEMMA SupersedeEffect ==
  ASSUME TypeOK, CommandShape, NEW p \in Commands, NEW prev \in IDs, supersedeBackfill(p, prev)
  PROVE  Supersedes(p, prev)
  <1> DEFINE c == proc[p].config
             i == proc[p].id
  <1>1. /\ proc[p].pc = "enqueue" /\ Moves(p, "commit") /\ c \in Configs /\ i \in IDs
        /\ prev \in active[c]
    BY GotoEffect DEF supersedeBackfill, CommandShape, Procs
  <1>2. \A d \in Configs, k \in IDs :
          /\ ~(d = c /\ k = i) =>
               \/ engine'[d][k] = engine[d][k]
               \/ engine[d][k] = "live" /\ engine'[d][k] = "finished"
          /\ d = c /\ k = prev /\ k # i => engine'[d][k] # "live"
    BY <1>1 DEF supersedeBackfill, TypeOK
  <1>3. \A d \in Configs, k \in IDs : k \in active'[d] <=> k \in active[d] /\ ~(d = c /\ k = prev)
    BY <1>1 DEF supersedeBackfill, TypeOK
  <1>4. \A o \in Commands :
          /\ obj'[o].id = obj[o].id /\ obj'[o].config = obj[o].config
          /\ tickets[prev] = o => obj'[o].ended /\ obj'[o].endTime = proc[p].time
          /\ tickets[prev] # o => obj'[o] = obj[o]
    BY DEF supersedeBackfill, TypeOK
  <1>5. UNCHANGED <<tickets, reserved, byConfig, nextCleanup, holder, now>>
    BY DEF supersedeBackfill
  <1> HIDE DEF c, i
  <1> QED
    BY <1>1, <1>2, <1>3, <1>4, <1>5 DEF Supersedes, c, i

LEMMA SaveEffect ==
  ASSUME TypeOK, NEW p \in Commands, SaveTicket(p)
  PROVE  Saves(p)
  <1>1. proc[p].pc = "cancel" /\ Moves(p, "unlock")
    BY GotoEffect DEF SaveTicket, Procs
  <1>2. \A d \in Configs, k \in IDs :
          \/ engine'[d][k] = engine[d][k]
          \/ engine[d][k] = "live" /\ engine'[d][k] = "finished"
    BY DEF SaveTicket, TypeOK
  <1> QED
    BY <1>1, <1>2 DEF SaveTicket, Saves

LEMMA ReserveEffect ==
  ASSUME TypeOK, CommandShape, NEW p \in Commands, reserveTicketID(p)
  PROVE  Reserves(p)
  <1>1. proc[p].pc = "reserve" /\ proc[p].id \in IDs /\ p \in Procs
    BY DEF reserveTicketID, CommandShape, Procs
  <1>2. proc' = [proc EXCEPT ![p].pc = "enqueue", ![p].time = now] =>
          /\ OthersStay(p)
          /\ proc'[p].pc = "enqueue" /\ proc'[p].time = now
          /\ proc'[p].config = proc[p].config /\ proc'[p].id = proc[p].id
    BY <1>1 DEF TypeOK, OthersStay
  <1> QED
    BY <1>1, <1>2, GotoEffect DEF reserveTicketID, Reserves

LEMMA NextEffect ==
  ASSUME TypeOK, CommandShape, TickShape, [Next]_vars
  PROVE  Effect
  <1>1. ASSUME NEW p \in Commands, Command(p) \/ Step(p)
        PROVE  Effect
    <2>0. p \in Procs
      BY DEF Procs
    <2>1. CASE Command(p)
      BY <2>1, BeginEffect DEF Command, Effect
    <2>2. CASE Lock(p, "start", "reserve") \/ Lock(p, "stop", "again")
      BY <2>0, <2>2, LockEffect DEF Effect
    <2>3. CASE reserveTicketID(p)
      BY <2>3, ReserveEffect DEF Effect
    <2>4. CASE cancelTicketReservation(p)
      BY <2>0, <2>4, GotoEffect DEF cancelTicketReservation, GivesBack, Effect
    <2>5. CASE commitTicket(p)
      BY <2>5, CommitEffect DEF Effect
    <2>6. CASE GetTicketAgain(p)
      BY <2>0, <2>6, GotoEffect DEF GetTicketAgain, LooksAgain, Effect
    <2>7. CASE SaveTicket(p)
      BY <2>7, SaveEffect DEF Effect
    <2>8. CASE Unlock(p)
      BY <2>0, <2>8, UnlockEffect DEF Effect
    <2>9. ASSUME NEW prev \in IDs, supersedeBackfill(p, prev)
          PROVE  Effect
      BY <2>9, SupersedeEffect DEF Effect
    <2> QED
      BY <1>1, <2>1, <2>2, <2>3, <2>4, <2>5, <2>6, <2>7, <2>8, <2>9 DEF Step
  <1>2. ASSUME NEW c \in Configs, Tick(c)
        PROVE  Effect
    <2>0. c \in Procs
      BY DEF Procs
    <2>1. CASE TickCalled(c)
      BY <2>1, BeginEffect DEF Effect
    <2>2. CASE Lock(c, "tick", "finish")
      BY <2>0, <2>2, LockEffect DEF Effect
    <2>3. ASSUME NEW more \in SUBSET IDs, FinishTickets(c, more)
          PROVE  Effect
      BY <2>3, FinishEffect DEF Effect
    <2>4. CASE ScanExpired(c)
      BY <2>4, ScanEffect DEF Effect
    <2>5. CASE EvictFromEngine(c)
      BY <2>5, EvictEffect DEF Effect
    <2>6. CASE DeleteExpired(c)
      BY <2>6, DeleteEffect DEF Effect
    <2>7. CASE Unlock(c)
      BY <2>0, <2>7, UnlockEffect DEF Effect
    <2> QED
      BY <1>2, <2>1, <2>2, <2>3, <2>4, <2>5, <2>6, <2>7 DEF Tick
  <1>3. CASE Advance \/ UNCHANGED vars
    BY <1>3 DEF Advance, vars, Waits, Effect
  <1> QED
    BY <1>1, <1>2, <1>3 DEF Next

\* Most steps leave the tables alone.
LEMMA TableEffect ==
  ASSUME Effect
  PROVE  \/ UNCHANGED <<tickets, byConfig, active, engine, obj>>
         \/ \E p \in Commands : \/ Commits(p) \/ Saves(p)
                              \/ \E prev \in IDs : Supersedes(p, prev)
         \/ \E c \in Configs : \/ \E ends \in SUBSET active[c] : Finishes(c, ends)
                               \/ Evicts(c) \/ Deletes(c)
  BY DEF Effect, Begins, Locks, Reserves, GivesBack, LooksAgain, Scans, Unlocks, Waits, tables

-----------------------------------------------------------------------------
(* Locks, places of the processes, reservations *)

\* Locks are taken and given back by their holders only.
LEMMA LockedStep ==
  ASSUME Locked, CommandShape, TickShape, Effect
  PROVE  Locked'
  <1> USE RegistryConstants DEF Procs
  <1>1. ASSUME NEW p \in Commands, NEW c \in Configs, NEW i \in IDs, Begins(p, "start", c, i)
        PROVE  Locked'
    BY <1>1 DEF Begins, OthersStay, tables, Locked, Held
  <1>2. ASSUME NEW p \in Commands, NEW i \in IDs, tickets[i] # Nil,
               Begins(p, "stop", obj[tickets[i]].config, i), proc'[p].ticket = tickets[i]
        PROVE  Locked'
    BY <1>2 DEF Begins, OthersStay, tables, Locked, Held
  <1>3. ASSUME NEW p \in Commands, Locks(p, "start", "reserve") \/ Locks(p, "stop", "again")
        PROVE  Locked'
    BY <1>3 DEF Locks, Moves, OthersStay, tables, Locked, Held, CommandShape
  <1>4. ASSUME NEW p \in Commands, Reserves(p) \/ GivesBack(p)
        PROVE  Locked'
    BY <1>4 DEF Reserves, GivesBack, Moves, OthersStay, Locked, Held
  <1>5. ASSUME NEW p \in Commands, Commits(p)
        PROVE  Locked'
    BY <1>5 DEF Commits, Moves, OthersStay, Locked, Held
  <1>6. ASSUME NEW p \in Commands, LooksAgain(p) \/ Saves(p)
        PROVE  Locked'
    BY <1>6 DEF LooksAgain, Saves, Moves, OthersStay, tables, Locked, Held
  <1>7. ASSUME NEW c \in Configs, Begins(c, "tick", c, Nil) \/ Locks(c, "tick", "finish")
        PROVE  Locked'
    BY <1>7 DEF Begins, Locks, Moves, OthersStay, tables, Locked, Held, TickShape
  <1>8. ASSUME NEW c \in Configs, NEW ends \in SUBSET active[c], Finishes(c, ends)
        PROVE  Locked'
    BY <1>8 DEF Finishes, OthersStay, Locked, Held
  <1>9. ASSUME NEW c \in Configs, Scans(c) \/ Evicts(c) \/ Deletes(c)
        PROVE  Locked'
    BY <1>9 DEF Scans, Evicts, Deletes, OthersStay, tables, Locked, Held
  <1>10. ASSUME NEW p \in Procs, Unlocks(p)
        PROVE  Locked'
    BY <1>10 DEF Unlocks, OthersStay, tables, Locked, Held
  <1>11. CASE Waits
    BY <1>11 DEF Waits, tables, Locked, Held
  <1>12. ASSUME NEW p \in Commands, NEW prev \in IDs, Supersedes(p, prev)
        PROVE  Locked'
    BY <1>12 DEF Supersedes, Moves, OthersStay, Locked, Held
  <1> QED
    BY <1>1, <1>2, <1>3, <1>4, <1>5, <1>6, <1>7, <1>8, <1>9, <1>10, <1>11, <1>12 DEF Effect

LEMMA CommandShapeStep ==
  ASSUME TypeOK, CommandShape, Created, Named, Effect
  PROVE  CommandShape'
  <1> USE RegistryConstants DEF Procs
  <1>0. \A i \in IDs : tickets[i] \in Commands \cup {Nil}
    BY DEF TypeOK, Procs
  <1>1. ASSUME NEW p \in Commands, NEW c \in Configs, NEW i \in IDs, Begins(p, "start", c, i)
        PROVE  CommandShape'
    BY <1>1 DEF Begins, OthersStay, tables, CommandShape
  <1>2. ASSUME NEW p \in Commands, NEW i \in IDs, tickets[i] # Nil,
               Begins(p, "stop", obj[tickets[i]].config, i), proc'[p].ticket = tickets[i]
        PROVE  CommandShape'
    BY <1>0, <1>2 DEF Begins, OthersStay, tables, CommandShape, Named
  <1>3. ASSUME NEW p \in Commands, Locks(p, "start", "reserve") \/ Locks(p, "stop", "again")
        PROVE  CommandShape'
    BY <1>3 DEF Locks, Moves, OthersStay, tables, CommandShape
  <1>4. ASSUME NEW p \in Commands, Reserves(p) \/ GivesBack(p)
        PROVE  CommandShape'
    BY <1>4 DEF Reserves, GivesBack, Moves, OthersStay, CommandShape
  <1>5. ASSUME NEW p \in Commands, Commits(p)
        PROVE  CommandShape'
    BY <1>5 DEF Commits, Moves, OthersStay, CommandShape, Created
  <1>6. ASSUME NEW p \in Commands, LooksAgain(p) \/ Saves(p)
        PROVE  CommandShape'
    BY <1>6 DEF LooksAgain, Saves, Moves, OthersStay, tables, CommandShape
  <1>7. ASSUME NEW c \in Configs, Begins(c, "tick", c, Nil) \/ Locks(c, "tick", "finish")
        PROVE  CommandShape'
    BY <1>7 DEF Begins, Locks, Moves, OthersStay, tables, CommandShape
  <1>8. ASSUME NEW c \in Configs, NEW ends \in SUBSET active[c], Finishes(c, ends)
        PROVE  CommandShape'
    BY <1>8 DEF Finishes, OthersStay, CommandShape
  <1>9. ASSUME NEW c \in Configs, Scans(c) \/ Evicts(c) \/ Deletes(c)
        PROVE  CommandShape'
    BY <1>9 DEF Scans, Evicts, Deletes, OthersStay, tables, CommandShape
  <1>10. ASSUME NEW p \in Procs, Unlocks(p)
        PROVE  CommandShape'
    BY <1>10 DEF Unlocks, OthersStay, tables, CommandShape
  <1>11. CASE Waits
    BY <1>11 DEF Waits, tables, CommandShape
  <1>12. ASSUME NEW p \in Commands, NEW prev \in IDs, Supersedes(p, prev)
        PROVE  CommandShape'
    BY <1>12 DEF Supersedes, Moves, OthersStay, CommandShape
  <1> QED
    BY <1>1, <1>2, <1>3, <1>4, <1>5, <1>6, <1>7, <1>8, <1>9, <1>10, <1>11, <1>12 DEF Effect

LEMMA TickShapeStep ==
  ASSUME TypeOK, TickShape, Effect
  PROVE  TickShape'
  <1> USE RegistryConstants DEF Procs
  <1>0. now \in Nat /\ \A q \in Procs : proc[q].time \in Nat
    BY DEF TypeOK, Procs
  <1>1. ASSUME NEW p \in Commands, NEW c \in Configs, NEW i \in IDs, Begins(p, "start", c, i)
        PROVE  TickShape'
    BY <1>0, <1>1 DEF Begins, OthersStay, tables, TickShape
  <1>2. ASSUME NEW p \in Commands, NEW i \in IDs, tickets[i] # Nil,
               Begins(p, "stop", obj[tickets[i]].config, i), proc'[p].ticket = tickets[i]
        PROVE  TickShape'
    BY <1>0, <1>2 DEF Begins, OthersStay, tables, TickShape
  <1>3. ASSUME NEW p \in Commands, Locks(p, "start", "reserve") \/ Locks(p, "stop", "again")
        PROVE  TickShape'
    BY <1>0, <1>3 DEF Locks, Moves, OthersStay, tables, TickShape
  <1>4. ASSUME NEW p \in Commands, Reserves(p) \/ GivesBack(p)
        PROVE  TickShape'
    BY <1>0, <1>4 DEF Reserves, GivesBack, Moves, OthersStay, TickShape
  <1>5. ASSUME NEW p \in Commands, Commits(p)
        PROVE  TickShape'
    BY <1>0, <1>5 DEF Commits, Moves, OthersStay, TickShape
  <1>6. ASSUME NEW p \in Commands, LooksAgain(p) \/ Saves(p)
        PROVE  TickShape'
    BY <1>0, <1>6 DEF LooksAgain, Saves, Moves, OthersStay, tables, TickShape
  <1>7. ASSUME NEW c \in Configs, Begins(c, "tick", c, Nil) \/ Locks(c, "tick", "finish")
        PROVE  TickShape'
    BY <1>0, <1>7 DEF Begins, Locks, Moves, OthersStay, tables, TickShape
  <1>8. ASSUME NEW c \in Configs, NEW ends \in SUBSET active[c], Finishes(c, ends)
        PROVE  TickShape'
    BY <1>0, <1>8 DEF Finishes, OthersStay, TickShape
  <1>9. ASSUME NEW c \in Configs, Scans(c) \/ Evicts(c) \/ Deletes(c)
        PROVE  TickShape'
    BY <1>0, <1>9 DEF Scans, Evicts, Deletes, OthersStay, tables, TickShape
  <1>10. ASSUME NEW p \in Procs, Unlocks(p)
        PROVE  TickShape'
    BY <1>0, <1>10 DEF Unlocks, OthersStay, tables, TickShape
  <1>11. CASE Waits
    BY <1>0, <1>11 DEF Waits, tables, TickShape
  <1>12. ASSUME NEW p \in Commands, NEW prev \in IDs, Supersedes(p, prev)
        PROVE  TickShape'
    BY <1>0, <1>12 DEF Supersedes, Moves, OthersStay, TickShape
  <1> QED
    BY <1>1, <1>2, <1>3, <1>4, <1>5, <1>6, <1>7, <1>8, <1>9, <1>10, <1>11, <1>12 DEF Effect

LEMMA CreatedStep ==
  ASSUME CommandShape, Created, Effect
  PROVE  Created'
  <1> USE RegistryConstants DEF Procs
  <1>1. ASSUME NEW p \in Commands, NEW c \in Configs, NEW i \in IDs, Begins(p, "start", c, i)
        PROVE  Created'
    BY <1>1 DEF Begins, OthersStay, tables, Created
  <1>2. ASSUME NEW p \in Commands, NEW i \in IDs, tickets[i] # Nil,
               Begins(p, "stop", obj[tickets[i]].config, i), proc'[p].ticket = tickets[i]
        PROVE  Created'
    BY <1>2 DEF Begins, OthersStay, tables, Created
  <1>3. ASSUME NEW p \in Commands, Locks(p, "start", "reserve") \/ Locks(p, "stop", "again")
        PROVE  Created'
    BY <1>3 DEF Locks, Moves, OthersStay, tables, Created
  <1>4. ASSUME NEW p \in Commands, Reserves(p) \/ GivesBack(p)
        PROVE  Created'
    BY <1>4 DEF Reserves, GivesBack, Moves, OthersStay, Created
  <1>5. ASSUME NEW p \in Commands, Commits(p)
        PROVE  Created'
    BY <1>5 DEF Commits, Moves, OthersStay, Created
  <1>6. ASSUME NEW p \in Commands, LooksAgain(p) \/ Saves(p)
        PROVE  Created'
    BY <1>6 DEF LooksAgain, Saves, Moves, OthersStay, tables, Created
  <1>7. ASSUME NEW c \in Configs, Begins(c, "tick", c, Nil) \/ Locks(c, "tick", "finish")
        PROVE  Created'
    BY <1>7 DEF Begins, Locks, Moves, OthersStay, tables, Created
  <1>8. ASSUME NEW c \in Configs, NEW ends \in SUBSET active[c], Finishes(c, ends)
        PROVE  Created'
    BY <1>8 DEF Finishes, OthersStay, Created
  <1>9. ASSUME NEW c \in Configs, Scans(c) \/ Evicts(c) \/ Deletes(c)
        PROVE  Created'
    BY <1>9 DEF Scans, Evicts, Deletes, OthersStay, tables, Created
  <1>10. ASSUME NEW p \in Procs, Unlocks(p)
        PROVE  Created'
    BY <1>10 DEF Unlocks, OthersStay, tables, Created
  <1>11. CASE Waits
    BY <1>11 DEF Waits, tables, Created
  <1>12. ASSUME NEW p \in Commands, NEW prev \in IDs, Supersedes(p, prev)
        PROVE  Created'
    BY <1>12 DEF Supersedes, Moves, OthersStay, Created
  <1> QED
    BY <1>1, <1>2, <1>3, <1>4, <1>5, <1>6, <1>7, <1>8, <1>9, <1>10, <1>11, <1>12 DEF Effect

\* reserveTicketID tests and reserves in one critical section.
LEMMA ReservationStep ==
  ASSUME CommandShape, Reservation, Effect
  PROVE  Reservation'
  <1> USE RegistryConstants DEF Procs
  <1>1. ASSUME NEW p \in Commands, NEW c \in Configs, NEW i \in IDs, Begins(p, "start", c, i)
        PROVE  Reservation'
    BY <1>1 DEF Begins, OthersStay, tables, Reservation
  <1>2. ASSUME NEW p \in Commands, NEW i \in IDs, tickets[i] # Nil,
               Begins(p, "stop", obj[tickets[i]].config, i), proc'[p].ticket = tickets[i]
        PROVE  Reservation'
    BY <1>2 DEF Begins, OthersStay, tables, Reservation
  <1>3. ASSUME NEW p \in Commands, Locks(p, "start", "reserve") \/ Locks(p, "stop", "again")
        PROVE  Reservation'
    BY <1>3 DEF Locks, Moves, OthersStay, tables, Reservation
  <1>4. ASSUME NEW p \in Commands, Reserves(p) \/ GivesBack(p)
        PROVE  Reservation'
    BY <1>4 DEF Reserves, GivesBack, Moves, OthersStay, Reservation, CommandShape
  <1>5. ASSUME NEW p \in Commands, Commits(p)
        PROVE  Reservation'
    BY <1>5 DEF Commits, Moves, OthersStay, Reservation, CommandShape
  <1>6. ASSUME NEW p \in Commands, LooksAgain(p) \/ Saves(p)
        PROVE  Reservation'
    BY <1>6 DEF LooksAgain, Saves, Moves, OthersStay, tables, Reservation
  <1>7. ASSUME NEW c \in Configs, Begins(c, "tick", c, Nil) \/ Locks(c, "tick", "finish")
        PROVE  Reservation'
    BY <1>7 DEF Begins, Locks, Moves, OthersStay, tables, Reservation
  <1>8. ASSUME NEW c \in Configs, NEW ends \in SUBSET active[c], Finishes(c, ends)
        PROVE  Reservation'
    BY <1>8 DEF Finishes, OthersStay, Reservation
  <1>9. ASSUME NEW c \in Configs, Scans(c) \/ Evicts(c) \/ Deletes(c)
        PROVE  Reservation'
    BY <1>9 DEF Scans, Evicts, Deletes, OthersStay, tables, Reservation, CommandShape
  <1>10. ASSUME NEW p \in Procs, Unlocks(p)
        PROVE  Reservation'
    BY <1>10 DEF Unlocks, OthersStay, tables, Reservation
  <1>11. CASE Waits
    BY <1>11 DEF Waits, tables, Reservation
  <1>12. ASSUME NEW p \in Commands, NEW prev \in IDs, Supersedes(p, prev)
        PROVE  Reservation'
    BY <1>12 DEF Supersedes, Moves, OthersStay, Reservation
  <1> QED
    BY <1>1, <1>2, <1>3, <1>4, <1>5, <1>6, <1>7, <1>8, <1>9, <1>10, <1>11, <1>12 DEF Effect

-----------------------------------------------------------------------------
(* Tables, objects and engines *)

\* A round of finished tickets ends these tickets and no other.
LEMMA FinishObjects ==
  ASSUME TypeOK, Named, TablesAgree,
         NEW c \in Configs, NEW ends \in SUBSET active[c], Finishes(c, ends),
         NEW k \in IDs, tickets[k] # Nil
  PROVE  /\ obj'[tickets[k]].config = obj[tickets[k]].config
         /\ k \in ends => obj'[tickets[k]].ended /\ obj'[tickets[k]].endTime = now
         /\ k \notin ends => obj'[tickets[k]] = obj[tickets[k]]
  <1>1. tickets[k] \in Commands /\ ends \subseteq IDs
    BY DEF TypeOK
  <1>2. \A i \in ends : tickets[i] = tickets[k] => i = k
    BY <1>1 DEF Named
  <1> QED
    BY <1>1, <1>2 DEF Finishes

\* A superseded request ends, and no other ticket does.
LEMMA SupersedeObjects ==
  ASSUME TypeOK, Named, TablesAgree,
         NEW p \in Commands, NEW prev \in IDs, Supersedes(p, prev),
         NEW k \in IDs, tickets[k] # Nil
  PROVE  /\ obj'[tickets[k]].config = obj[tickets[k]].config
         /\ obj'[tickets[k]].id = obj[tickets[k]].id
         /\ k = prev => /\ obj'[tickets[k]].ended /\ obj'[tickets[k]].endTime = proc[p].time
                        /\ obj[tickets[k]].config = proc[p].config
         /\ k # prev => obj'[tickets[k]] = obj[tickets[k]]
  <1>1. tickets[k] \in Commands
    BY DEF TypeOK
  <1>2. tickets[prev] = tickets[k] => prev = k
    BY DEF Named
  <1>3. proc[p].config \in Configs /\ prev \in active[proc[p].config]
    BY DEF Supersedes
  <1>4. tickets[prev] # Nil /\ obj[tickets[prev]].config = proc[p].config
    BY <1>3 DEF TablesAgree
  <1> QED
    BY <1>1, <1>2, <1>4 DEF Supersedes

LEMMA NamedStep ==
  ASSUME TypeOK, Created, Named, TablesAgree, Effect
  PROVE  Named'
  <1>0. \A i \in IDs : tickets[i] \in Commands \cup {Nil}
    BY DEF TypeOK
  <1>1. ASSUME NEW p \in Commands, Commits(p)
        PROVE  Named'
    BY <1>0, <1>1, RegistryConstants DEF Commits, Named, Created
  <1>2. ASSUME NEW p \in Commands, Saves(p)
        PROVE  Named'
    BY <1>0, <1>2, RegistryConstants DEF Saves, tables, Named
  <1>3. ASSUME NEW c \in Configs, NEW ends \in SUBSET active[c], Finishes(c, ends)
        PROVE  Named'
    BY <1>0, <1>3, RegistryConstants DEF Finishes, Named
  <1>4. ASSUME NEW c \in Configs, Evicts(c)
        PROVE  Named'
    BY <1>0, <1>4, RegistryConstants DEF Evicts, tables, Named
  <1>5. ASSUME NEW c \in Configs, Deletes(c)
        PROVE  Named'
    BY <1>0, <1>5, RegistryConstants DEF Deletes, Named
  <1>6. CASE UNCHANGED <<tickets, byConfig, active, engine, obj>>
    BY <1>6 DEF Named
  <1>7. ASSUME NEW p \in Commands, NEW prev \in IDs, Supersedes(p, prev)
        PROVE  Named'
    BY <1>7, SupersedeObjects DEF Supersedes, Named
  <1> QED
    BY <1>1, <1>2, <1>3, <1>4, <1>5, <1>6, <1>7, TableEffect

\* commitTicket, the end of a ticket and its eviction change the three tables alike.
LEMMA TablesAgreeStep ==
  ASSUME TypeOK, TickShape, Reservation, Created, Named, TablesAgree, Effect
  PROVE  TablesAgree'
  <1>0. \A i \in IDs : tickets[i] \in Commands \cup {Nil}
    BY DEF TypeOK
  <1>1. ASSUME NEW p \in Commands, Commits(p)
        PROVE  TablesAgree'
    BY <1>0, <1>1, RegistryConstants DEF Commits, TablesAgree, Created, Reservation, Named
  <1>2. ASSUME NEW p \in Commands, Saves(p)
        PROVE  TablesAgree'
    BY <1>0, <1>2, RegistryConstants DEF Saves, tables, TablesAgree
  <1>3. ASSUME NEW c \in Configs, NEW ends \in SUBSET active[c], Finishes(c, ends)
        PROVE  TablesAgree'
    <2> SUFFICES ASSUME NEW d \in Configs, NEW i \in IDs
                 PROVE  LET o == tickets[i]
                        IN  /\ byConfig[d][i] = IF o # Nil /\ obj'[o].config = d THEN o ELSE Nil
                            /\ i \in active'[d] <=> byConfig[d][i] # Nil /\ ~obj'[o].ended
      BY <1>3 DEF TablesAgree, Finishes
    <2>1. i \in active'[d] <=> i \in active[d] /\ ~(d = c /\ i \in ends)
      BY <1>3 DEF Finishes
    <2>2. i \in ends => byConfig[c][i] # Nil
      BY DEF TablesAgree
    <2>3. CASE tickets[i] = Nil
      BY <2>1, <2>3 DEF TablesAgree
    <2>4. CASE tickets[i] # Nil
      BY <1>3, <2>1, <2>2, <2>4, FinishObjects DEF TablesAgree
    <2> QED
      BY <2>3, <2>4
  <1>4. ASSUME NEW c \in Configs, Evicts(c)
        PROVE  TablesAgree'
    BY <1>0, <1>4, RegistryConstants DEF Evicts, tables, TablesAgree
  <1>5. ASSUME NEW c \in Configs, Deletes(c)
        PROVE  TablesAgree'
    BY <1>0, <1>5, RegistryConstants DEF Deletes, TablesAgree, TickShape, Named
  <1>6. CASE UNCHANGED <<tickets, byConfig, active, engine, obj>>
    BY <1>6 DEF TablesAgree
  <1>7. ASSUME NEW p \in Commands, NEW prev \in IDs, Supersedes(p, prev)
        PROVE  TablesAgree'
    <2> SUFFICES ASSUME NEW d \in Configs, NEW i \in IDs
                 PROVE  LET o == tickets[i]
                        IN  /\ byConfig[d][i] = IF o # Nil /\ obj'[o].config = d THEN o ELSE Nil
                            /\ i \in active'[d] <=> byConfig[d][i] # Nil /\ ~obj'[o].ended
      BY <1>7 DEF TablesAgree, Supersedes
    <2>1. i \in active'[d] <=> i \in active[d] /\ ~(d = proc[p].config /\ i = prev)
      BY <1>7 DEF Supersedes
    <2>2. CASE tickets[i] = Nil
      BY <2>1, <2>2 DEF TablesAgree
    <2>3. CASE tickets[i] # Nil
      BY <1>7, <2>1, <2>3, SupersedeObjects DEF TablesAgree
    <2> QED
      BY <2>2, <2>3
  <1> QED
    BY <1>1, <1>2, <1>3, <1>4, <1>5, <1>6, <1>7, TableEffect

LEMMA SettledStep ==
  ASSUME TypeOK, Reservation, Created, Named, TablesAgree, Settled, Effect
  PROVE  Settled'
  <1>0. \A i \in IDs : tickets[i] \in Commands \cup {Nil}
    BY DEF TypeOK
  <1>1. ASSUME NEW p \in Commands, Commits(p)
        PROVE  Settled'
    BY <1>0, <1>1, RegistryConstants DEF Commits, Settled, Created, TablesAgree
  <1>2. ASSUME NEW p \in Commands, Saves(p)
        PROVE  Settled'
    BY <1>0, <1>2, RegistryConstants DEF Saves, tables, Settled
  <1>3. ASSUME NEW c \in Configs, NEW ends \in SUBSET active[c], Finishes(c, ends)
        PROVE  Settled'
    <2> SUFFICES ASSUME NEW d \in Configs, NEW i \in IDs,
                        byConfig[d][i] # Nil, obj'[byConfig[d][i]].ended
                 PROVE  engine'[d][i] # "live"
      BY <1>3 DEF Settled, Finishes
    <2>1. byConfig[d][i] = tickets[i] /\ tickets[i] # Nil /\ obj[tickets[i]].config = d
      BY DEF TablesAgree
    <2>2. i \in ends => obj[tickets[i]].config = c
      BY DEF TablesAgree
    <2>3. CASE i \in ends
      BY <1>3, <2>1, <2>2, <2>3 DEF Finishes
    <2>4. CASE i \notin ends
      <3>1. obj'[tickets[i]] = obj[tickets[i]]
        BY <1>3, <2>1, <2>4, FinishObjects
      <3>2. engine[d][i] # "live"
        BY <2>1, <3>1 DEF Settled
      <3> QED
        BY <1>3, <3>2 DEF Finishes
    <2> QED
      BY <2>3, <2>4
  <1>4. ASSUME NEW c \in Configs, Evicts(c)
        PROVE  Settled'
    BY <1>0, <1>4, RegistryConstants DEF Evicts, tables, Settled
  <1>5. ASSUME NEW c \in Configs, Deletes(c)
        PROVE  Settled'
    BY <1>0, <1>5, RegistryConstants DEF Deletes, Settled
  <1>6. CASE UNCHANGED <<tickets, byConfig, active, engine, obj>>
    BY <1>6 DEF Settled
  <1>7. ASSUME NEW p \in Commands, NEW prev \in IDs, Supersedes(p, prev)
        PROVE  Settled'
    <2> SUFFICES ASSUME NEW d \in Configs, NEW i \in IDs,
                        byConfig[d][i] # Nil, obj'[byConfig[d][i]].ended
                 PROVE  engine'[d][i] # "live"
      BY <1>7 DEF Settled, Supersedes
    <2>1. byConfig[d][i] = tickets[i] /\ tickets[i] # Nil /\ obj[tickets[i]].config = d
      BY DEF TablesAgree
    <2>2. i # proc[p].id
      BY <1>7, <2>1 DEF Supersedes, Reservation
    <2>3. CASE i = prev
      <3>1. d = proc[p].config
        BY <1>7, <2>1, <2>3, SupersedeObjects
      <3> QED
        BY <1>7, <2>2, <2>3, <3>1 DEF Supersedes
    <2>4. CASE i # prev
      <3>1. obj'[tickets[i]] = obj[tickets[i]]
        BY <1>7, <2>1, <2>4, SupersedeObjects
      <3>2. engine[d][i] # "live"
        BY <2>1, <3>1 DEF Settled
      <3> QED
        BY <1>7, <2>2, <3>2 DEF Supersedes
    <2> QED
      BY <2>3, <2>4
  <1> QED
    BY <1>1, <1>2, <1>3, <1>4, <1>5, <1>6, <1>7, TableEffect

\* A command that has enqueued its ticket commits it and does nothing else.
LEMMA EnqueuedStays ==
  ASSUME Effect, NEW c \in Configs, NEW i \in IDs, Enqueued(c, i)
  PROVE  \/ Enqueued(c, i)'
         \/ \E p \in Commands : Commits(p) /\ proc[p].config = c /\ proc[p].id = i
  <1>1. PICK p \in Commands : proc[p].pc = "commit" /\ proc[p].config = c /\ proc[p].id = i
    BY DEF Enqueued
  <1>2. p \in Procs
    BY DEF Procs
  <1>3. SUFFICES ASSUME ~Commits(p) PROVE proc'[p] = proc[p]
    BY <1>1 DEF Enqueued
  <1>4. ASSUME NEW q \in Procs, OthersStay(q), proc[q].pc # "commit" PROVE proc'[p] = proc[p]
    BY <1>1, <1>2, <1>4 DEF OthersStay
  <1>5. \A q \in Commands :
          /\ \A d \in Configs, k \in IDs : Begins(q, "start", d, k) => proc'[p] = proc[p]
          /\ \A k \in IDs : Begins(q, "stop", obj[tickets[k]].config, k) => proc'[p] = proc[p]
          /\ Locks(q, "start", "reserve") \/ Locks(q, "stop", "again") => proc'[p] = proc[p]
    BY <1>4 DEF Begins, Locks, Moves, Procs
  <1>6. \A q \in Commands :
          /\ Reserves(q) \/ GivesBack(q) \/ LooksAgain(q) \/ Saves(q) => proc'[p] = proc[p]
          /\ \A prev \in IDs : Supersedes(q, prev) => proc'[p] = proc[p]
    BY <1>4 DEF Reserves, GivesBack, LooksAgain, Saves, Supersedes, Moves, Procs
  <1>7. ASSUME NEW q \in Commands, Commits(q) PROVE proc'[p] = proc[p]
    <2>1. q # p
      BY <1>3, <1>7
    <2>2. OthersStay(q)
      BY <1>7 DEF Commits, Moves
    <2> QED
      BY <1>2, <2>1, <2>2 DEF OthersStay
  <1>8. \A d \in Configs :
          /\ Begins(d, "tick", d, Nil) \/ Locks(d, "tick", "finish") => proc'[p] = proc[p]
          /\ \A ends \in SUBSET active[d] : Finishes(d, ends) => proc'[p] = proc[p]
          /\ Scans(d) \/ Evicts(d) \/ Deletes(d) => proc'[p] = proc[p]
    BY <1>4 DEF Begins, Locks, Moves, Finishes, Scans, Evicts, Deletes, Procs
  <1>9. (\E q \in Procs : Unlocks(q)) \/ Waits => proc'[p] = proc[p]
    BY <1>4 DEF Unlocks, Waits
  <1> QED
    BY <1>5, <1>6, <1>7, <1>8, <1>9 DEF Effect

\* The service forgets only what its engine has forgotten.
LEMMA KnownStep ==
  ASSUME TypeOK, Evicting, Known, Effect
  PROVE  Known'
  <1>1. ASSUME NEW c \in Configs, NEW i \in IDs, Enqueued(c, i)
        PROVE  byConfig'[c][i] # Nil \/ Enqueued(c, i)'
    <2>1. ASSUME NEW p \in Commands, Commits(p), proc[p].config = c, proc[p].id = i
          PROVE  byConfig'[c][i] # Nil
      BY <2>1, RegistryConstants DEF Commits
    <2> QED
      BY <1>1, <2>1, EnqueuedStays
  <1>2. SUFFICES ASSUME NEW c \in Configs, NEW i \in IDs, engine'[c][i] # "unknown",
                        ~Enqueued(c, i), ~Enqueued(c, i)'
                 PROVE  byConfig'[c][i] # Nil
    BY <1>1 DEF Known
  <1>3. engine[c][i] # "unknown" => byConfig[c][i] # Nil
    BY <1>2 DEF Known
  <1>4. ASSUME NEW p \in Commands, Commits(p)
        PROVE  byConfig'[c][i] # Nil
    BY <1>2, <1>3, <1>4, RegistryConstants DEF Commits
  <1>5. ASSUME NEW p \in Commands, Saves(p)
        PROVE  byConfig'[c][i] # Nil
    BY <1>2, <1>3, <1>5 DEF Saves, tables
  <1>6. ASSUME NEW p \in Commands, NEW prev \in IDs, Supersedes(p, prev)
        PROVE  byConfig'[c][i] # Nil
    <2>1. ~(c = proc[p].config /\ i = proc[p].id)
      BY <1>2, <1>6 DEF Supersedes, Moves, Enqueued
    <2> QED
      BY <1>2, <1>3, <1>6, <2>1 DEF Supersedes
  <1>7. ASSUME NEW d \in Configs, NEW ends \in SUBSET active[d], Finishes(d, ends)
        PROVE  byConfig'[c][i] # Nil
    BY <1>2, <1>3, <1>7 DEF Finishes
  <1>8. ASSUME NEW d \in Configs, Evicts(d)
        PROVE  byConfig'[c][i] # Nil
    BY <1>2, <1>3, <1>8 DEF Evicts, tables
  <1>9. ASSUME NEW d \in Configs, Deletes(d)
        PROVE  byConfig'[c][i] # Nil
    BY <1>2, <1>3, <1>9 DEF Deletes, Evicting
  <1>10. CASE UNCHANGED <<tickets, byConfig, active, engine, obj>>
    BY <1>2, <1>3, <1>10
  <1> QED
    BY <1>4, <1>5, <1>6, <1>7, <1>8, <1>9, <1>10, TableEffect

\* Only the tick's own configuration could revive a ticket, and the tick has its lock.
LEMMA EvictingStep ==
  ASSUME TypeOK, Locked, CommandShape, TickShape, Created, Named, TablesAgree, Settled,
       Evicting, Effect
  PROVE  Evicting'
  <1> USE RegistryConstants DEF Procs
  <1>0. /\ \A i \in IDs : tickets[i] \in Commands \cup {Nil}
        /\ \A c \in Configs : proc[c].expired \subseteq IDs
    BY DEF TypeOK, Procs
  <1>1. ASSUME NEW p \in Commands, NEW c \in Configs, NEW i \in IDs, Begins(p, "start", c, i)
        PROVE  Evicting'
    BY <1>0, <1>1 DEF Begins, OthersStay, tables, Evicting, Expired
  <1>2. ASSUME NEW p \in Commands, NEW i \in IDs, tickets[i] # Nil,
               Begins(p, "stop", obj[tickets[i]].config, i), proc'[p].ticket = tickets[i]
        PROVE  Evicting'
    BY <1>0, <1>2 DEF Begins, OthersStay, tables, Evicting, Expired
  <1>3. ASSUME NEW p \in Commands, Locks(p, "start", "reserve") \/ Locks(p, "stop", "again")
        PROVE  Evicting'
    BY <1>0, <1>3 DEF Locks, Moves, OthersStay, tables, Evicting, Expired
  <1>4. ASSUME NEW p \in Commands, Reserves(p) \/ GivesBack(p)
        PROVE  Evicting'
    BY <1>0, <1>4 DEF Reserves, GivesBack, Moves, OthersStay, Evicting, Expired
  <1>5. ASSUME NEW p \in Commands, Commits(p)
        PROVE  Evicting'
    BY <1>0, <1>5 DEF Commits, Moves, OthersStay, Evicting, Expired, Locked, Held, TickShape,
       Created, TablesAgree
  <1>6. ASSUME NEW p \in Commands, LooksAgain(p)
        PROVE  Evicting'
    BY <1>0, <1>6 DEF LooksAgain, Moves, OthersStay, tables, Evicting, Expired
  <1>7. ASSUME NEW p \in Commands, Saves(p)
        PROVE  Evicting'
    <2>1. \A d \in Configs : proc'[d] = proc[d]
      BY <1>7 DEF Saves, Moves, OthersStay
    <2>2. \A d \in Configs, i \in IDs :
            /\ engine[d][i] = "unknown" => engine'[d][i] = "unknown"
            /\ engine[d][i] # "live" => engine'[d][i] # "live"
      BY <1>7 DEF Saves
    <2>3. UNCHANGED <<byConfig, obj>>
      BY <1>7 DEF Saves, tables
    <2> QED
      BY <1>0, <2>1, <2>2, <2>3 DEF Evicting, TickShape, Expired
  <1>8. ASSUME NEW c \in Configs, Begins(c, "tick", c, Nil) \/ Locks(c, "tick", "finish")
        PROVE  Evicting'
    BY <1>0, <1>8 DEF Begins, Locks, Moves, OthersStay, tables, Evicting, Expired
  <1>9. ASSUME NEW c \in Configs, NEW ends \in SUBSET active[c], Finishes(c, ends)
        PROVE  Evicting'
    <2>1. \A d \in Configs : d # c => proc'[d] = proc[d]
      BY <1>9 DEF Finishes, OthersStay
    <2>2. \A d \in Configs, i \in IDs :
            /\ engine[d][i] = "unknown" => engine'[d][i] = "unknown"
            /\ engine[d][i] # "live" => engine'[d][i] # "live"
      BY <1>9 DEF Finishes
    <2>3. ASSUME NEW d \in Configs, NEW i \in proc[d].expired, byConfig[d][i] # Nil,
                 Expired(byConfig[d][i], proc[d].time)
          PROVE  Expired(byConfig[d][i], proc[d].time)' \/ d = c
      <3>1. i \in IDs /\ byConfig[d][i] = tickets[i] /\ tickets[i] # Nil /\ i \notin active[d]
            /\ obj[tickets[i]].config = d
        BY <1>0, <2>3 DEF TablesAgree, Expired
      <3>2. CASE d # c
        <4>1. i \notin ends
          BY <3>1, <3>2 DEF TablesAgree
        <4>2. obj'[tickets[i]] = obj[tickets[i]] /\ byConfig' = byConfig
          BY <1>9, <3>1, <4>1, FinishObjects DEF Finishes
        <4> QED
          BY <2>1, <2>3, <3>1, <3>2, <4>2 DEF Expired
      <3> QED
        BY <3>2
    <2>4. proc'[c].expired = {}
      BY <1>9 DEF Finishes, Evicting
    <2> QED
      BY <1>0, <1>9, <2>1, <2>2, <2>3, <2>4 DEF Evicting, TickShape, Finishes
  <1>10. ASSUME NEW c \in Configs, Scans(c)
        PROVE  Evicting'
    BY <1>0, <1>10 DEF Scans, OthersStay, Evicting, Expired, Settled
  <1>11. ASSUME NEW c \in Configs, Evicts(c)
        PROVE  Evicting'
    <2>1. \A d \in Configs : d # c => proc'[d] = proc[d]
      BY <1>11 DEF Evicts, OthersStay
    <2>2. \A d \in Configs, i \in IDs :
            /\ engine[d][i] = "unknown" => engine'[d][i] = "unknown"
            /\ engine[d][i] # "live" => engine'[d][i] # "live"
      BY <1>11 DEF Evicts
    <2>3. /\ proc'[c].pc = "delete" => engine'[c][proc'[c].id] = "unknown"
          /\ proc[c].expired # {} => proc'[c].pc = "delete"
          /\ proc'[c].expired = proc[c].expired /\ proc'[c].time = proc[c].time
      <3>1. \A i \in IDs : engine[c][i] \in {"unknown", "live", "finished"}
        BY DEF TypeOK
      <3>2. \A i \in proc[c].expired : engine[c][i] # "live"
        BY DEF Evicting
      <3> QED
        BY <1>11, <3>1, <3>2 DEF Evicts
    <2>4. UNCHANGED <<byConfig, obj>>
      BY <1>11 DEF Evicts, tables
    <2> QED
      BY <1>0, <2>1, <2>2, <2>3, <2>4 DEF Evicting, TickShape, Expired
  <1>12. ASSUME NEW c \in Configs, Deletes(c)
        PROVE  Evicting'
    BY <1>0, <1>12 DEF Deletes, OthersStay, Evicting, Expired
  <1>13. ASSUME NEW p \in Procs, Unlocks(p)
        PROVE  Evicting'
    BY <1>0, <1>13 DEF Unlocks, OthersStay, tables, Evicting, Expired
  <1>14. CASE Waits
    BY <1>0, <1>14 DEF Waits, tables, Evicting, Expired
  <1>15. ASSUME NEW p \in Commands, NEW prev \in IDs, Supersedes(p, prev)
         PROVE  Evicting'
    <2>1. \A d \in Configs : proc'[d] = proc[d]
      BY <1>15 DEF Supersedes, Moves, OthersStay
    <2>2. proc[proc[p].config].expired = {} /\ proc[proc[p].config].pc # "delete"
      BY <1>15 DEF Supersedes, Locked, Held, TickShape, Evicting
    <2>3. \A d \in Configs, i \in IDs : d # proc[p].config =>
            /\ engine[d][i] = "unknown" => engine'[d][i] = "unknown"
            /\ engine[d][i] # "live" => engine'[d][i] # "live"
      BY <1>15 DEF Supersedes
    <2>4. ASSUME NEW d \in Configs, d # proc[p].config, NEW i \in IDs, byConfig[d][i] # Nil
          PROVE  byConfig'[d][i] = byConfig[d][i] /\ obj'[byConfig[d][i]] = obj[byConfig[d][i]]
      <3>1. byConfig[d][i] = tickets[i] /\ tickets[i] # Nil /\ obj[tickets[i]].config = d
        BY <2>4 DEF TablesAgree
      <3> QED
        BY <1>15, <2>4, <3>1, SupersedeObjects DEF Supersedes
    <2>5. byConfig' = byConfig
      BY <1>15 DEF Supersedes
    <2> QED
      BY <1>0, <2>1, <2>2, <2>3, <2>4, <2>5 DEF Evicting, TickShape, Expired
  <1> QED
    BY <1>1, <1>2, <1>3, <1>4, <1>5, <1>6, <1>7, <1>8, <1>9, <1>10, <1>11, <1>12, <1>13,
       <1>14, <1>15 DEF Effect

\* A ticket looked up again stays where it is: its eviction needs the lock that the
\* command holds, and its id is not free for another.
LEMMA OwnTicketStep ==
  ASSUME TypeOK, Locked, CommandShape, TickShape, Reservation, TablesAgree, OwnTicket, Effect
  PROVE  OwnTicket'
  <1> USE RegistryConstants DEF Procs
  <1>0. \A i \in IDs : tickets[i] \in Commands \cup {Nil}
    BY DEF TypeOK, Procs
  <1>1. ASSUME NEW p \in Commands, NEW c \in Configs, NEW i \in IDs, Begins(p, "start", c, i)
        PROVE  OwnTicket'
    BY <1>0, <1>1 DEF Begins, OthersStay, tables, OwnTicket
  <1>2. ASSUME NEW p \in Commands, NEW i \in IDs, tickets[i] # Nil,
               Begins(p, "stop", obj[tickets[i]].config, i), proc'[p].ticket = tickets[i]
        PROVE  OwnTicket'
    BY <1>0, <1>2 DEF Begins, OthersStay, tables, OwnTicket
  <1>3. ASSUME NEW p \in Commands, Locks(p, "start", "reserve") \/ Locks(p, "stop", "again")
        PROVE  OwnTicket'
    BY <1>0, <1>3 DEF Locks, Moves, OthersStay, tables, OwnTicket
  <1>4. ASSUME NEW p \in Commands, Reserves(p) \/ GivesBack(p)
        PROVE  OwnTicket'
    BY <1>0, <1>4 DEF Reserves, GivesBack, Moves, OthersStay, OwnTicket
  <1>5. ASSUME NEW p \in Commands, Commits(p)
        PROVE  OwnTicket'
    BY <1>0, <1>5 DEF Commits, Moves, OthersStay, OwnTicket, CommandShape, Reservation
  <1>6. ASSUME NEW p \in Commands, LooksAgain(p) \/ Saves(p)
        PROVE  OwnTicket'
    BY <1>0, <1>6 DEF LooksAgain, Saves, Moves, OthersStay, tables, OwnTicket
  <1>7. ASSUME NEW c \in Configs, Begins(c, "tick", c, Nil) \/ Locks(c, "tick", "finish")
        PROVE  OwnTicket'
    BY <1>0, <1>7 DEF Begins, Locks, Moves, OthersStay, tables, OwnTicket
  <1>8. ASSUME NEW c \in Configs, NEW ends \in SUBSET active[c], Finishes(c, ends)
        PROVE  OwnTicket'
    BY <1>0, <1>8 DEF Finishes, OthersStay, OwnTicket
  <1>9. ASSUME NEW c \in Configs, Scans(c)
        PROVE  OwnTicket'
    BY <1>0, <1>9 DEF Scans, OthersStay, OwnTicket
  <1>10. ASSUME NEW c \in Configs, Evicts(c)
        PROVE  OwnTicket'
    BY <1>0, <1>10 DEF Evicts, OthersStay, tables, OwnTicket
  <1>11. ASSUME NEW c \in Configs, Deletes(c)
        PROVE  OwnTicket'
    BY <1>0, <1>11 DEF Deletes, OthersStay, OwnTicket, CommandShape, Locked, TickShape, Held,
       TablesAgree
  <1>12. ASSUME NEW p \in Procs, Unlocks(p)
        PROVE  OwnTicket'
    BY <1>0, <1>12 DEF Unlocks, OthersStay, tables, OwnTicket
  <1>13. CASE Waits
    BY <1>0, <1>13 DEF Waits, tables, OwnTicket
  <1>14. ASSUME NEW p \in Commands, NEW prev \in IDs, Supersedes(p, prev)
        PROVE  OwnTicket'
    BY <1>0, <1>14 DEF Supersedes, Moves, OthersStay, OwnTicket
  <1> QED
    BY <1>1, <1>2, <1>3, <1>4, <1>5, <1>6, <1>7, <1>8, <1>9, <1>10, <1>11, <1>12,
       <1>13, <1>14 DEF Effect

-----------------------------------------------------------------------------
(* Time *)

LEMMA ScanSoonStep ==
  ASSUME TypeOK, Locked, CommandShape, TickShape, ScanSoon, Effect
  PROVE  ScanSoon'
  <1> USE RegistryConstants DEF Procs
  <1>0. /\ now \in Nat /\ \A c \in Configs : nextCleanup[c] \in Nat
        /\ \A p \in Procs : proc[p].time \in Nat
    BY DEF TypeOK, Procs
  <1>1. ASSUME NEW p \in Commands, NEW c \in Configs, NEW i \in IDs, Begins(p, "start", c, i)
        PROVE  ScanSoon'
    BY <1>0, <1>1 DEF Begins, OthersStay, tables, ScanSoon
  <1>2. ASSUME NEW p \in Commands, NEW i \in IDs, tickets[i] # Nil,
               Begins(p, "stop", obj[tickets[i]].config, i), proc'[p].ticket = tickets[i]
        PROVE  ScanSoon'
    BY <1>0, <1>2 DEF Begins, OthersStay, tables, ScanSoon
  <1>3. ASSUME NEW p \in Commands, Locks(p, "start", "reserve") \/ Locks(p, "stop", "again")
        PROVE  ScanSoon'
    BY <1>0, <1>3 DEF Locks, Moves, OthersStay, tables, ScanSoon
  <1>4. ASSUME NEW p \in Commands, Reserves(p) \/ GivesBack(p)
        PROVE  ScanSoon'
    BY <1>0, <1>4 DEF Reserves, GivesBack, Moves, OthersStay, ScanSoon, CommandShape
  <1>5. ASSUME NEW p \in Commands, Commits(p)
        PROVE  ScanSoon'
    BY <1>0, <1>5 DEF Commits, Moves, OthersStay, ScanSoon
  <1>6. ASSUME NEW p \in Commands, LooksAgain(p) \/ Saves(p)
        PROVE  ScanSoon'
    BY <1>0, <1>6 DEF LooksAgain, Saves, Moves, OthersStay, tables, ScanSoon
  <1>7. ASSUME NEW c \in Configs, Begins(c, "tick", c, Nil) \/ Locks(c, "tick", "finish")
        PROVE  ScanSoon'
    BY <1>0, <1>7 DEF Begins, Locks, Moves, OthersStay, tables, ScanSoon
  <1>8. ASSUME NEW c \in Configs, NEW ends \in SUBSET active[c], Finishes(c, ends)
        PROVE  ScanSoon'
    BY <1>0, <1>8 DEF Finishes, OthersStay, ScanSoon
  <1>9. ASSUME NEW c \in Configs, Scans(c) \/ Evicts(c) \/ Deletes(c)
        PROVE  ScanSoon'
    <2>1. CASE Scans(c)
      <3>1. \A p \in Commands : proc'[p] = proc[p]
        BY <2>1 DEF Scans, OthersStay
      <3>2. \A p \in Commands : proc[p].pc = "enqueue" =>
              proc[p].config \in Configs /\ proc[p].config # c
        BY <2>1 DEF Scans, Locked, Held, TickShape
      <3>3. now' = now /\ \A d \in Configs : d # c => nextCleanup'[d] = nextCleanup[d]
        BY <2>1 DEF Scans
      <3>4. nextCleanup'[c] <= now + Interval
        BY <1>0, <2>1 DEF Scans, ScanSoon, TickShape
      <3> QED
        BY <3>1, <3>2, <3>3, <3>4 DEF ScanSoon
    <2>2. CASE Evicts(c) \/ Deletes(c)
      BY <1>0, <2>2 DEF Evicts, Deletes, OthersStay, tables, ScanSoon
    <2> QED
      BY <1>9, <2>1, <2>2
  <1>10. ASSUME NEW p \in Procs, Unlocks(p)
        PROVE  ScanSoon'
    BY <1>0, <1>10 DEF Unlocks, OthersStay, tables, ScanSoon
  <1>11. CASE Waits
    BY <1>0, <1>11 DEF Waits, tables, ScanSoon
  <1>12. ASSUME NEW p \in Commands, NEW prev \in IDs, Supersedes(p, prev)
        PROVE  ScanSoon'
    BY <1>0, <1>12 DEF Supersedes, Moves, OthersStay, ScanSoon
  <1> QED
    BY <1>1, <1>2, <1>3, <1>4, <1>5, <1>6, <1>7, <1>8, <1>9, <1>10, <1>11, <1>12 DEF Effect

\* A scan takes every expired ticket along, and the next one is due in an interval.
LEMMA EvictedOnTimeStep ==
  ASSUME TypeOK, Created, Named, TablesAgree, Evicting, ScanSoon, EvictedOnTime, Effect
  PROVE  EvictedOnTime'
  <1> USE RegistryConstants DEF Procs
  <1>0. /\ now \in Nat /\ \A i \in IDs : tickets[i] \in Commands \cup {Nil}
        /\ \A c \in Configs : nextCleanup[c] \in Nat /\ proc[c].time \in Nat
        /\ \A o \in Commands : obj[o].endTime \in Nat
    BY DEF TypeOK, Procs
  <1>1. ASSUME NEW p \in Commands, NEW c \in Configs, NEW i \in IDs, Begins(p, "start", c, i)
        PROVE  EvictedOnTime'
    BY <1>0, <1>1 DEF Begins, OthersStay, tables, EvictedOnTime
  <1>2. ASSUME NEW p \in Commands, NEW i \in IDs, tickets[i] # Nil,
               Begins(p, "stop", obj[tickets[i]].config, i), proc'[p].ticket = tickets[i]
        PROVE  EvictedOnTime'
    BY <1>0, <1>2 DEF Begins, OthersStay, tables, EvictedOnTime
  <1>3. ASSUME NEW p \in Commands, Locks(p, "start", "reserve") \/ Locks(p, "stop", "again")
        PROVE  EvictedOnTime'
    BY <1>0, <1>3 DEF Locks, Moves, OthersStay, tables, EvictedOnTime
  <1>4. ASSUME NEW p \in Commands, Reserves(p) \/ GivesBack(p)
        PROVE  EvictedOnTime'
    BY <1>0, <1>4 DEF Reserves, GivesBack, Moves, OthersStay, EvictedOnTime
  <1>5. ASSUME NEW p \in Commands, Commits(p)
        PROVE  EvictedOnTime'
    BY <1>0, <1>5 DEF Commits, Moves, OthersStay, EvictedOnTime, Created, TablesAgree
  <1>6. ASSUME NEW p \in Commands, LooksAgain(p) \/ Saves(p)
        PROVE  EvictedOnTime'
    BY <1>0, <1>6 DEF LooksAgain, Saves, Moves, OthersStay, tables, EvictedOnTime
  <1>7. ASSUME NEW c \in Configs, Begins(c, "tick", c, Nil) \/ Locks(c, "tick", "finish")
        PROVE  EvictedOnTime'
    BY <1>0, <1>7 DEF Begins, Locks, Moves, OthersStay, tables, EvictedOnTime, Evicting
  <1>8. ASSUME NEW c \in Configs, NEW ends \in SUBSET active[c], Finishes(c, ends)
        PROVE  EvictedOnTime'
    <2> SUFFICES ASSUME NEW d \in Configs, NEW i \in IDs,
                        byConfig[d][i] # Nil, obj'[byConfig[d][i]].ended
                 PROVE  \/ i \in proc'[d].expired
                        \/ nextCleanup[d] < obj'[byConfig[d][i]].endTime + Retention + Interval
      BY <1>8 DEF EvictedOnTime, Finishes
    <2>1. byConfig[d][i] = tickets[i] /\ tickets[i] # Nil /\ obj[tickets[i]].config = d
      BY DEF TablesAgree
    <2>2. proc'[d].expired = proc[d].expired
      BY <1>8 DEF Finishes, OthersStay
    <2>3. CASE i \in ends
      <3>1. obj'[tickets[i]].endTime = now
        BY <1>8, <2>1, <2>3, FinishObjects
      <3> QED
        BY <1>0, <2>1, <3>1 DEF ScanSoon
    <2>4. CASE i \notin ends
      <3>1. obj'[tickets[i]] = obj[tickets[i]]
        BY <1>8, <2>1, <2>4, FinishObjects
      <3> QED
        BY <2>1, <2>2, <3>1 DEF EvictedOnTime
    <2> QED
      BY <2>3, <2>4
  <1>9. ASSUME NEW c \in Configs, Scans(c)
        PROVE  EvictedOnTime'
    BY <1>0, <1>9 DEF Scans, OthersStay, EvictedOnTime, TablesAgree, Evicting, Expired
  <1>10. ASSUME NEW c \in Configs, Evicts(c)
        PROVE  EvictedOnTime'
    BY <1>0, <1>10 DEF Evicts, OthersStay, tables, EvictedOnTime
  <1>11. ASSUME NEW c \in Configs, Deletes(c)
        PROVE  EvictedOnTime'
    BY <1>0, <1>11 DEF Deletes, OthersStay, EvictedOnTime, Evicting
  <1>12. ASSUME NEW p \in Procs, Unlocks(p)
        PROVE  EvictedOnTime'
    BY <1>0, <1>12 DEF Unlocks, OthersStay, tables, EvictedOnTime, Evicting
  <1>13. CASE Waits
    BY <1>0, <1>13 DEF Waits, tables, EvictedOnTime
  <1>14. ASSUME NEW p \in Commands, NEW prev \in IDs, Supersedes(p, prev)
         PROVE  EvictedOnTime'
    <2> SUFFICES ASSUME NEW d \in Configs, NEW i \in IDs,
                        byConfig[d][i] # Nil, obj'[byConfig[d][i]].ended
                 PROVE  \/ i \in proc'[d].expired
                        \/ nextCleanup[d] < obj'[byConfig[d][i]].endTime + Retention + Interval
      BY <1>14 DEF EvictedOnTime, Supersedes
    <2>1. byConfig[d][i] = tickets[i] /\ tickets[i] # Nil /\ obj[tickets[i]].config = d
      BY DEF TablesAgree
    <2>2. proc'[d].expired = proc[d].expired
      BY <1>14 DEF Supersedes, Moves, OthersStay
    <2>3. CASE i = prev
      <3>1. obj'[tickets[i]].endTime = proc[p].time /\ d = proc[p].config
        BY <1>14, <2>1, <2>3, SupersedeObjects
      <3>2. nextCleanup[d] <= proc[p].time + Interval /\ proc[p].time \in Nat
        BY <1>14, <3>1 DEF Supersedes, ScanSoon, TypeOK
      <3> QED
        BY <1>0, <2>1, <3>1, <3>2
    <2>4. CASE i # prev
      <3>1. obj'[tickets[i]] = obj[tickets[i]]
        BY <1>14, <2>1, <2>4, SupersedeObjects
      <3> QED
        BY <2>1, <2>2, <3>1 DEF EvictedOnTime
    <2> QED
      BY <2>3, <2>4
  <1> QED
    BY <1>1, <1>2, <1>3, <1>4, <1>5, <1>6, <1>7, <1>8, <1>9, <1>10, <1>11, <1>12,
       <1>13, <1>14 DEF Effect

\* A ticket is taken from the table by an eviction, and its id is never taken over.
LEMMA KeptStep ==
  ASSUME TypeOK, TickShape, Reservation, TablesAgree, Effect,
         NEW i \in IDs, tickets[i] # Nil, tickets'[i] # tickets[i]
  PROVE  LET o == tickets[i]
         IN  tickets'[i] = Nil /\ obj[o].ended /\ now - obj[o].endTime >= Retention
  <1>1. ASSUME NEW p \in Commands, Commits(p)
        PROVE  FALSE
    BY <1>1 DEF Commits, Reservation
  <1>2. ASSUME NEW c \in Configs, Deletes(c)
        PROVE  LET o == tickets[i]
               IN  tickets'[i] = Nil /\ obj[o].ended /\ now - obj[o].endTime >= Retention
    <2>1. /\ tickets'[i] = Nil /\ i = proc[c].id
          /\ byConfig[c][i] # Nil /\ Expired(byConfig[c][i], proc[c].time)
      BY <1>2 DEF Deletes
    <2>2. byConfig[c][i] = tickets[i]
      BY <2>1 DEF TablesAgree
    <2>3. /\ proc[c].time <= now /\ proc[c].time \in Nat /\ now \in Nat
          /\ obj[tickets[i]].endTime \in Nat
      BY DEF TickShape, TypeOK, Procs
    <2> QED
      BY <2>1, <2>2, <2>3, RegistryConstants DEF Expired
  <1>3. ~(\E p \in Commands : Commits(p)) /\ ~(\E c \in Configs : Deletes(c)) =>
          tickets' = tickets
    BY DEF Effect, Begins, Locks, Reserves, GivesBack, LooksAgain, Saves, Supersedes, Finishes,
           Scans, Evicts, Unlocks, Waits, tables
  <1> QED
    BY <1>1, <1>2, <1>3

-----------------------------------------------------------------------------
(* The theorems *)

\* Inductive: the properties that the runs check, and what they rest on.
IInv ==
  /\ TypeOK /\ Locked /\ CommandShape /\ TickShape /\ Created /\ Reservation /\ Named
  /\ TablesAgree /\ Settled /\ Known /\ Evicting /\ OwnTicket /\ ScanSoon /\ EvictedOnTime

LEMMA IInvInit == Init => IInv
  <1> SUFFICES ASSUME Init PROVE IInv
    OBVIOUS
  <1>1. TypeOK
    BY InitType
  <1>2. \A p \in Procs : proc[p].pc = "idle" /\ proc[p].expired = {} /\ proc[p].time = 0
    BY DEF Init, Idle
  <1>3. Locked /\ CommandShape /\ TickShape /\ Reservation /\ Evicting /\ OwnTicket
    BY <1>2 DEF Init, Locked, Held, CommandShape, TickShape, Reservation, Evicting, OwnTicket,
                Procs
  <1>4. Created /\ Named /\ TablesAgree /\ Settled /\ Known /\ ScanSoon /\ EvictedOnTime
    BY <1>2, RegistryConstants DEF Init, NoObject, Created, Named, TablesAgree, Settled,
                                   Known, ScanSoon, EvictedOnTime, Procs
  <1> QED
    BY <1>1, <1>3, <1>4 DEF IInv

LEMMA IInvStep == IInv /\ [Next]_vars => IInv'
  <1> SUFFICES ASSUME IInv, [Next]_vars PROVE IInv'
    OBVIOUS
  <1>1. TypeOK' /\ Effect
    BY NextType, NextEffect DEF IInv
  <1>2. Locked' /\ CommandShape' /\ TickShape' /\ Created' /\ Reservation'
    BY <1>1, LockedStep, CommandShapeStep, TickShapeStep, CreatedStep, ReservationStep DEF IInv
  <1>3. Named' /\ TablesAgree' /\ Settled' /\ Known'
    BY <1>1, NamedStep, TablesAgreeStep, SettledStep, KnownStep DEF IInv
  <1>4. Evicting' /\ OwnTicket'
    BY <1>1, EvictingStep, OwnTicketStep DEF IInv
  <1>5. ScanSoon' /\ EvictedOnTime'
    BY <1>1, ScanSoonStep, EvictedOnTimeStep DEF IInv
  <1> QED
    BY <1>1, <1>2, <1>3, <1>4, <1>5 DEF IInv

\* The inductive invariant holds of every execution of the registry.
THEOREM InvariantAlways == Spec => []IInv
  BY IInvInit, IInvStep, PTL DEF Spec

\* Every variable of the registry keeps its type.
THEOREM TypeCorrect == Spec => []TypeOK
  <1>1. IInv => TypeOK
    BY DEF IInv
  <1> QED
    BY <1>1, InvariantAlways, PTL

\* The tables that service.go keeps by hand always list the same tickets.
THEOREM TablesAgreeAlways == Spec => []TablesAgree
  <1>1. IInv => TablesAgree
    BY DEF IInv
  <1> QED
    BY <1>1, InvariantAlways, PTL

\* No engine knows a ticket the service has forgotten, whatever evictions and
\* commands are under way: an id that reserveTicketID grants is free everywhere.
THEOREM NoOrphansAlways == Spec => []NoOrphans
  <1>1. IInv => NoOrphans
    <2> SUFFICES ASSUME IInv PROVE NoOrphans
      OBVIOUS
    <2>1. \A c \in Configs, i \in IDs :
            engine[c][i] # "unknown" => byConfig[c][i] # Nil \/ Enqueued(c, i)
      BY DEF IInv, Known
    <2>2. \A c \in Configs, i \in IDs : byConfig[c][i] # Nil => tickets[i] # Nil
      BY DEF IInv, TablesAgree
    <2>3. ASSUME NEW p \in Commands, NEW c \in Configs, proc[p].pc \in {"enqueue", "commit"}
          PROVE  \/ engine[c][proc[p].id] = "unknown"
                 \/ proc[p].pc = "commit" /\ c = proc[p].config
      <3>1. proc[p].id \in IDs /\ tickets[proc[p].id] = Nil
        BY <2>3 DEF IInv, CommandShape, Reservation
      <3>2. CASE Enqueued(c, proc[p].id)
        BY <2>3, <3>2 DEF Enqueued, IInv, Reservation
      <3> QED
        BY <2>1, <2>2, <3>1, <3>2
    <2> QED
      BY <2>1, <2>3 DEF NoOrphans, Enqueued
  <1> QED
    BY <1>1, InvariantAlways, PTL

\* StopMatchmaking and AcceptMatch act on the ticket they looked up first.
THEOREM OwnTicketAlways == Spec => []OwnTicket
  <1>1. IInv => OwnTicket
    BY DEF IInv
  <1> QED
    BY <1>1, InvariantAlways, PTL

\* A finished ticket is evicted in time.
THEOREM EvictedOnTimeAlways == Spec => []EvictedOnTime
  <1>1. IInv => EvictedOnTime
    BY DEF IInv
  <1> QED
    BY <1>1, InvariantAlways, PTL

\* evictExpiredTickets lets no ticket go before its retention has passed.
THEOREM KeptAlways == Spec => KeptForRetention
  <1> DEFINE Kept == \A i \in IDs : LET o == tickets[i] IN
                       o # Nil /\ tickets'[i] # o =>
                         tickets'[i] = Nil /\ obj[o].ended /\ now - obj[o].endTime >= Retention
  <1>1. IInv /\ [Next]_vars => [Kept]_vars
    <2> SUFFICES ASSUME IInv, [Next]_vars PROVE Kept
      OBVIOUS
    <2> QED
      BY NextEffect, KeptStep DEF IInv
  <1> QED
    BY <1>1, InvariantAlways, PTL DEF Spec, KeptForRetention
=============================================================================
