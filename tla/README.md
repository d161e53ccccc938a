# A formal model of fmlocal

fmlocal is a local stand-in for AWS GameLift FlexMatch: one process, no
persistence, an API server, a web UI, a ticker that drives the matchmaking
engine [flexi], and publishers that notify SNS or SQS destinations. This
directory holds TLA+ modules of its core, the TLC configurations that check
them on small instances, and TLAPS proofs, for every size of the instance, of
theorems about the matchmaking service, its readers, the ticket registry, the
delivery of events, the fan-out to publishers and the process.

Paths below are relative to the repository. `mm` is
`internal/domain/matchmaking`, `app` is `internal/app/matchmaking`.

## Inventory

| Part | State | Operations | Interacts with |
| --- | --- | --- | --- |
| Ticket (`mm/ticket.go`, `status.go`) | status, match id, decisions, teams, reason, event buffer | transitions, acceptances, PullEvents | mutated by the service, read by queries without the configuration lock |
| Service (`app/start.go`, `stop.go`, `accept.go`, `backfill.go`, `tick.go`) | tickets, active index, proposal tracker per configuration | four commands, Tick with five phases | calls the engine and the tickets; one lock per configuration |
| Shared registry (`app/service.go`) | `tickets`, `reservedTicketIDs`, `ticketsByConfig`, active index, `nextCleanup` | reserve, commit, cancel, get, save, evict | `stateMu`; crossed by commands of all configurations |
| Engine (flexi, external) | pool, proposals, acceptances, deadlines | Enqueue, Accept, Reject, Cancel, Tick, Evict, ... | guarded by the configuration lock, time passes on its own |
| Delivery (`app/event_delivery.go`, `releaseAndFlush`) | lane: slots, pending, running; WaitGroups; closing state | reserve, enqueue, start, deliver, flush, CloseDelivery | producers are commands and ticks, workers are goroutines |
| Publishers (`internal/infrastructure/notification`) | onlyEvents filter | Publish | called by the worker with a context that has a deadline |
| Process (`cmd/fmlocal/main.go`, both `server.go`, `app/ticker.go`) | context, three tasks, error channel | start, signal, Shutdown, drain, exit | owns everything above |
| Queries and pages (`app/describe.go`, `awsapi/convert.go`, `webui/server.go`) | none; pointers to tickets | DescribeMatchmaking, the pool page, the answers of the start commands | read tickets accessor by accessor while ticks change them |
| Envelope (`notification/envelope.go`) | the snapshot in each event | buildDetail | captured when an event is generated, rendered when it is delivered |
| Start-up (`system/configfile`, wiring in `cmd/fmlocal`) | fixed afterwards | LoadFile, validate, buildPublishers | decides which publishers a configuration has |
| API codec, error mapping, templates | none | pure translations | not modelled, see the end |

What is hard in this code:

- Service and engine each keep a status of every ticket. They are reconciled
  only by Tick, and commands act in between on a status that may be stale;
  deadlines pass at any time, also in the middle of a command or a tick.
- A ticket may go through several proposals, stops, a supersession and an
  eviction, and its id may be used again, while the tracker identifies a
  proposal by its ticket ids.
- The ticket table is shared by all configurations but their commands hold
  different locks, and commands look tickets up before they know which lock to
  take.
- Notifications leave in the order of the state changes although the commands
  that made them wait outside the lock, workers come and go, slots are bounded,
  request contexts end and the process may be shutting down.
- Publishers fail, hang and share a deadline.
- Readers take no configuration lock: an answer is put together from several
  reads, between which a tick may change, complete or evict the ticket.
- An event shows its tickets as they were when it was generated, and which
  destinations it goes to rests on checks made when the process started.

`PROJECT.json` lists each of these under "hazards" with its line and the
properties that would catch it.

## Modules

| Module | What it models |
| --- | --- |
| `Ticket` | the aggregate as a record with one operator per method, and the status machine |
| `Flexi` | the engine of one configuration as the repository uses it (external) |
| `Matchmaking` | the service of one configuration: one action per command, and Tick as the composition of its phases |
| `MatchmakingProgress` | `Matchmaking` under the fairness of the ticker and of time |
| `Describe` | `Matchmaking` with readers: one step per accessor of a reader and per method a tick calls on the ticket that is read |
| `Registry` | the shared ticket table, one action per critical section, several configurations |
| `Delivery` | lanes, slots, workers, releaseAndFlush and CloseDelivery, one action per lock region, channel operation or WaitGroup count |
| `Outbox` | the abstract specification of delivery, which `Delivery` implements |
| `Startup` | operators: the checks of the configuration loader and the wiring of publishers to configurations |
| `Fanout` | a worker that publishes the events of one batch to the publishers that start-up bound to the configuration; extends `Startup` |
| `Server` | run and its three tasks, requests and rounds of ticks; extends `Delivery`, whose commands it starts, cancels and drains |
| `DeliveryProofs` | theorems about `Delivery`, and that it implements `Outbox` |
| `ServerProofs` | theorems about `Server` |
| `FanoutProofs` | theorems about `Fanout` |
| `RegistryProofs` | theorems about `Registry` |
| `MatchmakingProofs`, `MatchmakingFeedProofs`, `MatchmakingMatchProofs` | theorems about `Matchmaking`: its state, the events of one ticket, the events of one match |
| `DescribeProofs` | theorems about `Describe`, and that it implements `Matchmaking` |
| `MC...` | instances for TLC: symmetry and definitions for constants |

`Ticket` <- `Flexi` <- `Matchmaking` <- `MatchmakingProgress` is a chain of
EXTENDS, and `Describe` extends `Matchmaking` with a reader. `Server` extends
`Delivery` and `Fanout` extends `Startup` in the same way. `Delivery` instantiates
`Outbox` with a refinement mapping (generated and attempted batches, and
whether a close has succeeded).

**Atomicity.** In `Matchmaking` a command or a tick is one step, because each
holds the configuration lock from its first look at the state to the end, and
the engine is guarded by the same lock. What can happen in the middle is
modelled where it can: a deadline that passes between `engine.Tick` and
`PendingAcceptances` (`late` in `Tick`), or between two `engine.Accept` calls
of one command (`AcceptMatchLapses`). A command that is refused changes nothing
and is no step. What is outside that lock is finer: `Registry` has a step per
critical section of `stateMu`, `Delivery` one per lock region, channel operation
or WaitGroup count.

**Readers.** A reader does not take the configuration lock, only the lock each
accessor takes, so a tick is not one step for it. `Describe` lets the tick
happen as in `Matchmaking` and keeps in `path` what memory goes through
meanwhile: the ticket before the tick, then what each method makes of it
(`Walk`, from the same operators `placing` and `proposing` the tick is built
of). Until `path` is empty no other command runs, as the lock demands, and
readers see its head. The other commands change what can be read of one ticket
in at most one method. `rd` is the request in progress: the fields it has read,
whether its ticket has been evicted meanwhile (it keeps the object), and what
its client could know of the ticket when it asked.

**The service's state.** `svc` is a record: `tickets` and `tk` are
`Service.tickets`, `active` the active index, `matchIDs`, `byMatch` and
`createdAt` the three maps of `proposalTracker`. `feed` and `matchFeed` are
histories of what was published of a ticket and of a match; every method that
changes the service is an operator from such a record to the next. Consecutive
AcceptMatch events of a match are one in `matchFeed`, which keeps it finite.
Each entry is a `Detail`: the event's name and the teams its payload shows, as
`eventBatch.add` saved them (`snapshot`) and the translator renders them
(`buildDetail`). `AcceptanceRequired` is a variable that never changes, so that
one run covers the policies in `Policies`.
`usedIDs` (ids from `MatchIDs.NewID`), `rejectedIn` (matches a player has
rejected) and `tickFailed` exist for the properties.

**The engine.** `Flexi` follows what the service, its comments and its tests
rely on. What they do not determine is a choice: which legal rosters form, which
requests time out, whether the siblings of a cancelled ticket are requeued, when a deadline
passes. `CancelFinished` covers the engine's answer to Cancel of a finished
ticket. A lapsed proposal stays in the engine, unreported, until its next tick.

**Abstracted data.** Players are the same set for every ticket; the teams of a
ticket are named by the match that set them (`"none"`, or `"seats"` when a
backfill request stated them); attributes, latencies and rule metrics are left
out, and of a payload only its type and teams are kept; a `proposalKey` is the
set of its ids (the API keeps its separator out of ids). A batch in `Delivery`
stands for its events, and `Fanout` opens one up. In `Registry` only the end of
a ticket's life is kept. In `Startup` a URL is present or not, and names are
compared but not spelled out.

**Faults.** An operator whose comment begins with "Fault:" is not part of the
specification. It is a plausible bug in the definition that follows it, which at
least one property detects; `PROJECT.json` pairs them under "mutants".

## Runs

Run with `tlc -config <cfg> <module>`.

| Run | Instance | What it shows |
| --- | --- | --- |
| acceptance | `Acceptance.cfg`: 3 tickets, pairs match, 2 match ids, 1 player, with and without acceptance | see the properties below; about 150,000 states |
| backfill | `Backfill.cfg`: 3 tickets of 2 players, one session, 1 match id | supersession interleaved with everything else; 2 players so that an accept can lapse half-way |
| progress | `Progress.cfg`: 2 tickets, 2 match ids, fair ticks and deadlines | liveness of proposals and tickets |
| rejection | `Rejection.cfg` | violation, see Findings |
| registry | `Registry.cfg`: 3 commands, 2 configurations, 2 ids, retention 2, scan interval 2, clock to 3 | id contention, supersession, reuse and eviction; about 1,600,000 states |
| delivery | `Delivery.cfg`: 3 commands, 2 slots, 3 workers | order, slots, drain |
| delivery_fair | `DeliveryFair.cfg`: 2 commands, 2 configurations of 1 slot, one never served | refinement of `Outbox`, and commands that return beside a destination that hangs |
| describe | `Describe.cfg`: 2 tickets of 2 players, one of them read, both policies | what a reader can see of a ticket that ticks change; about 430,000 states |
| torn_answer | `TornAnswer.cfg`: the same without acceptance, 1 player | violation, see Findings |
| fanout | `Fanout.cfg`: 3 publishers, files of one and two configurations, batches of one to three events, 3 requests per publish to a queue | order, isolation, logging of failures, and that the configured targets get the events; about 1,200,000 states |
| forwarding | `Forwarding.cfg`: 2 publishers | violation, see Findings |
| server | `Server.cfg`: a request and a tick on one slot | shutdown and exit code |

**Matchmaking.** `EngineAgrees` spells out how far the two statuses of a ticket
may be apart between steps, and that they are never apart once the service has
finished it; `ProposalsTracked` ties the tracker to the tickets in
REQUIRES_ACCEPTANCE and to the proposals players can answer. Together they are
why `TickNeverFails`: no tick meets a transition the status machine refuses,
which would end the tick half-way. `MatchFeedLegal` and `FeedLegal` list what a
subscriber may see of a match and of a ticket. `OutcomeFaithful` says that the
outcome reported for a match is that match's own, `CleanSlate` that a ticket
takes nothing from one proposal into the next, `EventCarriesItsTeams` that an
event of a match shows the teams of that match, not those its tickets had before
or have after it, `StopWins` that a stopped ticket
can only be cancelled, `TerminalIsFinal` that a finished ticket stays as it is,
`OneBackfillPerSession` what `backfill.md` promises.
`ProposalSettles` and `EndReachesService` are the progress a client relies on.

**Describe.** `EndReportedWhole`: an answer that shows a finished ticket shows the
reason, message, end time and match of that end, although they are separate
reads, because the status is read first and a method that ends a ticket holds
its lock throughout. `AnswerAfterEnd`: a client that knows of the end, from an
answer or a notification, finds it complete, teams included, because a tick
hands its events over only when it has changed every ticket, and sets the teams
before the status. The converse for a client that does not know, teams with
every COMPLETED answer, is `CompletedShowsTeams`, which fails.

**Registry.** `NoOrphans`: an id the registry grants is unknown to every
engine, even while another tick is half-way through an eviction. A backfill
request is in its engine before the service stores it, because superseding the
earlier request of its session is a critical section of its own
(`supersedeBackfill`, then `commitTicket`); in between its id is reserved and
known to no other engine. `OwnTicket`:
the second look-up under the lock is enough to act on the ticket first seen.
`TablesAgree`: the three tables kept by hand list the same tickets.
`KeptForRetention` and `EvictedOnTime` bound the time of eviction from below and
above.

**Delivery.** `OneWorker`, `InGenerationOrder`, `NoStrandedBatch`,
`SlotAccounting`, `DrainSound` and `CleanCloseDrains` are the lanes' invariants;
`KeepsFairPromise` is the refinement: batches are handed to the publishers
bounded, once, in order, nothing is generated after a successful close, and in a
served configuration every batch is attempted. (How often a publisher sends an
event of a batch is a matter of `Fanout`.) `CommandReturns`: a command of a
served configuration returns, also while the lane of another configuration is
full and its publisher hangs. Each lane of that run has one slot and one
command, so no command meets a full lane of its own; that commands competing for
a slot end is `StartedEnd` in `Server`, where a request and a tick share one.
Three commands on two slots make
a command wait, a worker exit just before a new batch, and a close meet a
command between its two looks at `deliveryClosed`.

**Server.** `CleanExit`: exit code 0 means that every accepted request was
answered and everything generated was attempted. `CutOffReported`: requests
are cut off only together with an error. `ProcessEnds`: after a signal or a
failed task the process ends, and with an error if a task failed. `StartedEnd`:
requests and ticks that have started end, on shared slots and with no shutdown
to help them. Nothing runs after the process has ended, so the deadlock check is
off, as for a batch that has ended in `Fanout`.

**Fanout.** `SilenceMeansDelivered` is stated against the configuration file: an
event that is not logged as failed has reached every publisher the file names as
a target of the configuration and that asked for the event, and no other. It
needs the loader's checks, because the wiring drops a target without a publisher
and lets a repeated configuration name replace an earlier one. The files
enumerated contain disabled, undeclared and repeated targets and repeated names;
those that LoadFile refuses never reach Init. A publisher listed twice is two
children, and `SentInOrder` holds for each.

A step `Send` is one request. A publish to SNS is one, which nothing repeats; a
publish to SQS may be several, because `buildPublishers` leaves the SDK's retryer
in place. `MaxAttempts` is its limit, 3 unless the environment says otherwise
(`AWS_MAX_ATTEMPTS`), and which failures it repeats is a choice. `SentInOrder` is
what is left of "in generation order": no destination is sent an event after a
later one, a queue may be sent one again but only before any later one and at
most `MaxAttempts` times per publish, and an SNS destination is sent none twice.
`docs/feature/publishers.md` says that failed publishes are not retried: that is
so of the program's own code and of SNS, but subscribers of a queue can see an
event up to `MaxAttempts` times in succession, because a request may fail after
the queue has the message.

**Bounds.** Two tickets make a match and a third one competes, replaces or
reuses; ids return after eviction, so histories are not cut at three tickets. A
match id is used once, so two ids allow two matches one after the other or, with
all three tickets, a second proposal after a failed one. When they are used up no
further match can be named, and the tick that would need one does not happen.
`Backfill.cfg` sets `CancelFinished` to FALSE (the engine refuses to cancel what
it has finished) to stay small; `Acceptance.cfg` covers the other answer.
`Describe` has one match id, so its ticket is proposed once in a
behaviour; when the ticket that is read is evicted or has been read completely,
nothing but the answer follows, which loses nothing, since the object read does
not change any more.
`Times` needs two values only where the same roster can be proposed
twice. A clock of 3 covers one full retention and a scan on either side.

**Fairness.** `MatchmakingProgress` assumes infinitely many ticks (`Ticker.Run`
ticks at every interval; `beat` makes a tick that changes nothing count) and
that the deadline of each pending proposal passes. It assumes nothing of
players or clients. `Delivery` assumes that goroutines are scheduled and, of the
configurations in `Served`, that a publish ends, which `deliveryTimeout`
ensures; of the others nothing, as if their destinations hung. Neither a
cancelled context nor the drain timeout is owed, and `CommandReturns` does not
need them. `Server`
assumes timers fire (Shutdown and drain timeouts) but not that clients ever
send anything. `Fanout` assumes that a call ends with its context.

## Findings

- `RejectionAnnounced` (run rejection). A player rejects, and another ticket of
  the match is stopped before the next tick: `settleOldProposals` then emits no
  `AcceptMatchCompleted` for the match (`app/tick.go:210`), although
  `docs/feature/publishers.md` and `docs/development/aws-cli.md` promise one.
- `ForwardedToEveryChild` (run forwarding). All publishers of an event share one
  ten-second context, so one that uses it up keeps the event from those after
  it (`notification/multi.go:23`), where `docs/feature/publishers.md` says that
  each event is forwarded to every child. Later events are not affected, and the
  loss is logged (`SilenceMeansDelivered`).
- `CompletedShowsTeams` (run torn_answer). `ticketToDTO` reads the teams before
  the status (`awsapi/convert.go:95`). When a match without acceptance completes
  between the two reads the answer is COMPLETED without teams, which the comment
  above calls the match result. The next answer has them (`AnswerAfterEnd`).

## Proofs

Each theorem holds for every value of the constants that the assumption named
with it allows.

### Delivery

`DeliveryProofs` proves, for any finite sets of commands and
workers, any configurations and any positive capacity
(`DeliveryConstants`, the only assumption):

| Theorem | Establishes | Argument |
| --- | --- | --- |
| `TypeCorrect` | `[]TypeOK` | inductive by itself, one lemma for producers, workers and the closer |
| `OneWorkerAlways` | `[]OneWorker` | inductive with `TypeOK`: `running` is tested and set in the same critical section, and reset only by the lane's own worker |
| `OrderAlways` | `[]InGenerationOrder` | inductive with `TypeOK` and `OneWorker`: with two workers a lane's history would not be a concatenation |
| `NoStrandedAlways` | `[]NoStrandedBatch` | inductive with `OneWorker`: the worker gives up only on an empty queue, and a command that enqueued starts one after it |
| `DrainSoundAlways` | `[]DrainSound` | needs `ClosedFirst` (a close in progress has set `closed`), so that no command is reserved after the count was zero |
| `CleanCloseAlways` | `[]CleanCloseDrains` | see below |
| `SlotAccountingAlways` | `[]SlotAccounting` | needs `Placed`, see below |
| `KeepsPromise` | `Spec => Promise!OutboxSpec` | every step is a step of `Outbox` or a stutter, see below |

`CleanCloseDrains` speaks only of the moment after a successful close and is far
from inductive. Its strengthening adds `CutOffLast` (no batch is published with
a cancelled context before the close has given up or succeeded), `Accounted`
(a batch that was generated is queued, in a worker's hands or done) and
`ReleasedLast` (a batch counts as done only when it was attempted), to
`TypeOK`, `OneWorker`, `InGenerationOrder`, `NoStrandedBatch`, `DrainSound` and
`ClosedFirst`. When the close succeeds no command is reserved and no worker is
alive; by `NoStrandedBatch` the queues are empty, by `InGenerationOrder` what
was attempted is then all that was generated.

`SlotAccounting` counts the slots of a lane by their holders. `Placed` says where
a batch can be: only a command past its critical section has one (`AfterLock`),
and a queue or a worker holds only batches of its own lane, each once
(`QueuesPlaced`, `WorkersPlaced`). Without it a batch could be counted twice and
a slot be given back twice.

`KeepsPromise` covers the safety part of the refinement. That a generated batch
is attempted in the end is the fairness of `Outbox`, which the run delivery_fair
checks with the rest as `KeepsFairPromise`.

### Server

`ServerProofs` proves about the process, on top of `DeliveryProofs`:

| Theorem | Establishes |
| --- | --- |
| `ServerIsDelivery` | a behaviour of the process is one of `Delivery`, so that what is proved there holds here |
| `CleanExitAlways` | `[]CleanExit` |
| `CutOffReportedAlways` | `[]CutOffReported` |

The invariant `Shutdown` follows the order of `run`. Only the commands of a
handler or a round of ticks are on their way (`OnlyStarted`), and a task that
ended without an error left none of them behind (`TasksLeaveNothing`). Delivery
is closed after the last task (`ClosedLast`); there is nothing to close only
where no lane was ever used (`NothingOpened`, `OpenedFirst`); and the process
ends after that, with 0 only if no task failed and the close was clean
(`ExitsLast`). `ProcessOK` is the types.

### Fan-out

`FanoutProofs` proves for any set of configuration files and of batches, and any
number of attempts (`StartupConstants`: the files are among those the parser can
return; `FanoutConstants`: a batch is a sequence of events, and the SQS client
makes at least one request):

| Theorem | Establishes |
| --- | --- |
| `SentInOrderAlways` | `[]SentInOrder` |
| `FailureIsolatedAlways` | `FailureIsolated`, an action property |
| `SilenceMeansDeliveredAlways` | `[]SilenceMeansDelivered` |

`Order` adds to `SentInOrder` that what a child has been sent is behind the
worker, or is one of the last `tries` requests of the call in progress
(`SentHandled`). These are what a repeated request may equal, and a call has
fewer than `MaxAttempts` of them, or none to an SNS destination. `Outcome` says of an event the worker is past that each child which
wanted it has it, or else it was logged or the child is among the errors in
hand, and that no child has an event it did not ask for. `Wired` says that the
children are the targets the file names, in its order and each with its filter.
Nothing changes that after start-up, but it is where the loader's checks are
used: without them the wiring loses a target.

### Registry

`RegistryProofs` proves, for any commands, configurations, ids, retention and
scan interval not longer than it (`RegistryConstants`, the only assumption), and
for a clock without bound:

| Theorem | Establishes |
| --- | --- |
| `TypeCorrect` | `[]TypeOK` |
| `TablesAgreeAlways` | `[]TablesAgree` |
| `NoOrphansAlways` | `[]NoOrphans` |
| `OwnTicketAlways` | `[]OwnTicket` |
| `EvictedOnTimeAlways` | `[]EvictedOnTime` |
| `KeptAlways` | `KeptForRetention`, an action property |

None of them is inductive, not even the type: `reserved` holds ids only because
a command is asked for one. They follow from one invariant, `IInv`. It adds that
a process past `lockConfiguration` holds that lock (`Locked`) and what it knows
at each place (`CommandShape`, `TickShape`), that an id is reserved by one
command at a time and free until that one commits it (`Reservation`), that a
ticket object is made once and stored under its own id (`Created`, `Named`),
that a ticket that has ended is dead in its engine (`Settled`, `Known`), that
nothing revives what a tick is evicting, because only its own configuration
could (`Evicting`), and that a scan is at most one interval away, also from the
time at which a command that supersedes a ticket ends it (`ScanSoon`: that time
was read earlier, but under the lock its own configuration's ticks need).
The first half of the module states what each action does to each component
without EXCEPT (`Effect`); the second has one lemma per conjunct of `IInv`, with
one step per effect.

### Matchmaking

`MatchmakingProofs` proves, for any tickets, match ids, sessions, times, policies
and rosters, and for either answer of the engine to a late Cancel
(`TicketConstants`, `FlexiConstants`, `MatchmakingConstants`: there is a player, a
roster is a non-empty set of tickets, and the values that stand for no match, no
session and no time are none of the others):

| Theorem | Establishes |
| --- | --- |
| `TypeCorrect` | `[]TypeOK` |
| `EngineAgreesAlways` | `[]EngineAgrees` |
| `ProposalsTrackedAlways` | `[]ProposalsTracked` |
| `TickNeverFailsAlways` | `[]TickNeverFails` |
| `OneBackfillAlways` | `[]OneBackfillPerSession` |

All follow from `Invariance`, that `IInv` is inductive. Its parts lean on each
other:

- `EngineShape`: in the engine a ticket waits for acceptance exactly while it is
  in one pending proposal, and only then are there acceptances. A tick leaves
  nothing else behind, so what `EngineAgrees` compares is well defined.
- `Index`: the active index holds exactly the tickets that have not ended. A tick
  copies statuses along the index only; a ticket outside it would be forgotten.
- `Tracker`: a match is tracked exactly while tickets wait for it, and the maps
  the code keeps by hand agree on it.
- `PendingKnown`: a pending proposal is tracked under its ids and its time, or it
  lapsed and the service has given it up. Hence a proposal a tick reports is the
  one tracked, not a later one of the same tickets.
- `TrackedAlive`: a tracked match is pending in the engine, or one of its tickets
  has finished there. Otherwise its tickets could be proposed again while the
  service still waits for the old proposal.
- `TickNeverFails` is part of the induction: after a tick that ended half-way
  none of the others would hold.

A tick is one step of the specification but five phases of code, so its proof has
five lemmas. `Between` says what holds of the service and the engine between two
phases: settling the proposals that the engine no longer reports
(`TickSettles`), completing matches (`TickFinalizes`), announcing proposals
(`TickProposes`), copying statuses (`TickSyncs`) and evicting, while deadlines pass
(`TickEnds`). The proposals a tick reports (`after`) may be fewer than those it
left (`left`), since a deadline may pass before it asks. `TickRun` is the record
of one tick with everything these lemmas show, so that later proofs need not open
the phases; `TickPhases` shows it with the very phases of the tick as witnesses,
which is what a proof about the middle of a tick needs.

`MatchmakingFeedProofs` builds on that:

| Theorem | Establishes |
| --- | --- |
| `CleanSlateAlways` | `[]CleanSlate` |
| `FeedLegalAlways` | `[]FeedLegal` |
| `TerminalIsFinalAlways` | `TerminalIsFinal`, an action property |
| `StopWinsAlways` | `StopWins`, an action property |

The invariant is `Lasting`: `IInv`, that every ticket is `Good` with its feed
(what it carries fits its status, and its feed ends with the word for that
status), and `Stopped` (a ticket that was stopped and is still active is
cancelled in the engine, which is why no tick can revive it). `Good` is about one
ticket, so there is one lemma per method of the aggregate, that it `Carries` a
ticket and its feed on, and the commands and phases compose these. A finished
ticket is carried on `Alike`: everything a reader or an event can show of it,
not only its status and match, stays as it is.

`MatchmakingMatchProofs` does the same for what is published of a match:

| Theorem | Establishes |
| --- | --- |
| `MatchFeedLegalAlways` | `[]MatchFeedLegal` |
| `OutcomeFaithfulAlways` | `[]OutcomeFaithful` |
| `EventCarriesItsTeamsAlways` | `[]EventCarriesItsTeams` |

The three speak of events only, and an event is published from what the service
believes at that moment. `Telling` therefore adds to `Lasting`:

- `Tales`: which feed a match may have, events with their teams; that a match
  without an id has none; and that a tracked match has been posed, at most
  answered, and was rejected exactly when one of its tickets says so. The last
  is what `settleOldProposals` reads to tell a rejection from a timeout: it
  looks at tickets, and without it a decision about an earlier match could be
  taken for one about this.
- `RefusalsEnd`: a ticket that carries a rejection is finished in the engine, so
  that a rejected match is never completed.
- `Unanswered`: a proposal whose feed shows no answer yet has none in the engine,
  except one that lapsed between two `Accept` calls, and that one lacks a player.
  Without it a match could succeed with no AcceptMatch before.

One tick does one of six things with a match (`TickOf`: nothing, a failed
proposal, a seated or a waiting one, a direct match, a new proposal), and
`TickTales` has a case for each. The teams an event shows are those of
`TrackedTeams`: the tickets of a tracked match have its teams, and
`settleOldProposals` takes its snapshot before it takes them off.

### Describe

`DescribeProofs` proves what readers see, under the assumptions of `Matchmaking`
and `DescribeConstants` (the ticket that is read is one of the tickets, and there
are finitely many players):

| Theorem | Establishes |
| --- | --- |
| `DescribeIsMatchmaking` | `DescribeSpec => Spec`: with the readers and the steps of a tick hidden, every behaviour is one of `Matchmaking` |
| `ReadingAlways` | `[]Reading`, the invariant below |
| `EndReportedWholeAlways` | `[]EndReportedWhole` |
| `AnswerAfterEndAlways` | `[]AnswerAfterEnd` |

Both properties speak of a request at its end or of what it has read so far, and
neither is inductive: they do not say what the accessors still to come will
return. `Reading` has four parts.

- `Lasting`, from `MatchmakingFeedProofs`: a finished ticket stays `Alike`
  whatever command or tick comes next.
- `InProgress`: what is left of the tick in progress (`path`) leads to the ticket
  as the service has it. Of the states memory goes through only the last may be
  finished, and then it is the final one in everything a reader can see
  (`LeadsTo`). This is where the locks count: a method that wrote the status
  before the reason would put a finished state before the last. That `Walk` has
  this shape is shown method by method along the phases of the tick: settling and
  synchronising leave a finished ticket `Alike`, and a finished one is neither
  seated nor proposed.
- `Pointing`: a request points to a stored ticket, or keeps the one that was
  evicted under it.
- `Truthful`: once a reader can know that the ticket has finished, because it was
  told so or has read a terminal status, everything read from that moment on is
  what would be read now. The order of the accessors enters here: what is read
  before the status is not covered, and only the teams are.

The induction has one lemma per action. A step that moves memory is `Steady`: a
finished ticket under a request looks the same after it, and `TruthfulStays`
does the rest. An eviction is such a step, since the request keeps the ticket that
memory held.

TLC checked `Reading` on the instance of the run describe before it was proved.

### Only model-checked

Every invariant and every action property of the passing runs is proved. Out of
the prover's reach are liveness under fairness (`CommandReturns`, `BatchEnds`,
`ProcessEnds`, `StartedEnd`, `ProposalSettles`, `EndReachesService` and the
fairness in `KeepsFairPromise`), ENABLED, and induction over recursive data. The
three findings are counterexamples of TLC.

## Not modelled

- JSON and CBOR decoding, request validation, the attribute conversions of the
  API and its error mapping: translations without state that no other part
  depends on. `Server` only keeps that a handler runs one command or refuses the
  request.
- Of the envelope: its fixed fields, rule metrics and formatting. What depends on
  when it is captured, the teams, is in `Matchmaking`.
- Queries of configurations and rule sets, rule set validation
  (`ValidateMatchmakingRuleSet`) and `required_attributes.go`: they read what
  never changes after start-up. HTML templates.
- Rule evaluation: inside flexi; `Rosters` stands for what it allows.
- Errors of `engine.Tick` and `engine.MarkCompleted` (`app/tick.go:133` and `308`),
  which would end a tick half-way: nothing in the repository says when the engine
  returns one. A transition that `transitionFromEngine` would find refused in
  settling or in synchronising (`app/tick.go:232` and `360`) leaves the ticket of
  the model as it is instead of ending the tick; `EngineAgrees` and
  `ProposalsTracked` leave no state in which it happens.
- A roll-back of StartMatchBackfill that fails itself, and MarkFailed and
  RecordPlayerAcceptance, which nothing calls.
- A crash: there is no persistence, so a restart is a new Init.

## Plan

Done: the order was `Ticket`/`Flexi`/`Matchmaking` (the core), its liveness,
`Delivery` with `Outbox` and its proofs, `Fanout`, `Server`, `Registry` with its
proofs, then `Describe`, the payloads in `Matchmaking`, and `Startup` composed
with `Fanout`; then the proofs about `Fanout`, `Delivery` against `Outbox`,
`Server`, `Matchmaking` and `Describe`.

No step of the plan is left. When the code changes, the places to look are the
lines `PROJECT.json` maps; the parts listed under "Not modelled" are the ones
that could be added.

[flexi]: https://github.com/moepig/flexi
