---------------------------- MODULE FanoutProofs ----------------------------
(***************************************************************************)
(* Proofs about Fanout.  SentInOrder and SilenceMeansDelivered need to     *)
(* know how far the worker is: what was sent is behind the position        *)
(* (at, child), but for the requests of the call in progress, and what is  *)
(* behind it was received, unwanted, or counted as a failure.              *)
(* SilenceMeansDelivered needs in addition what LoadFile guarantees: a     *)
(* document it accepts has a publisher for every target, so the wiring     *)
(* drops none and filters each by its own list.                            *)
(***************************************************************************)
EXTENDS Fanout, FiniteSetTheorems, TLAPS

-----------------------------------------------------------------------------
(* The wiring *)

\* The children of Multi are the targets, each with its publisher's filter.
Wired ==
  /\ doc \in Documents /\ LoadFile(doc)
  /\ config \in DOMAIN doc.configurations
  /\ events \in Batches
  /\ Bound = Targets
  /\ multi = [c \in DOMAIN Targets |-> buildPublishers(doc)[Targets[c]]]

\* What LoadFile checked for a document it accepts, without applyDefaults.
LEMMA Accepted ==
  ASSUME NEW d \in Documents, LoadFile(d)
  PROVE  /\ d \in Parsed
         /\ PublishersValid(d)
         /\ ConfigurationsValid(d)
<1> DEFINE e == applyDefaults(d)
<1>1. d \in Parsed
  BY StartupConstants
<1>2. e.publishers = d.publishers /\ e.configurations = d.configurations /\ e.ruleSets = d.ruleSets
  BY <1>1 DEF applyDefaults, Parsed
<1>3. PublishersValid(e) /\ ConfigurationsValid(e)
  BY DEF LoadFile, validate
<1> HIDE DEF e
<1>4. PublishersValid(d)
  BY <1>2, <1>3 DEF PublishersValid
<1>5. ConfigurationsValid(d)
  <2>1. \A id : TargetValid(e, id) => TargetValid(d, id)
    BY <1>2 DEF TargetValid
  <2>. QED
    BY <1>2, <1>3, <2>1 DEF ConfigurationsValid
<1>. QED
  BY <1>1, <1>4, <1>5

\* The targets of a configuration are a sequence of names.
LEMMA TargetTypes ==
  ASSUME NEW d \in Documents, NEW i \in DOMAIN d.configurations
  PROVE  /\ d.configurations[i].targets \in Seq(STRING)
         /\ DOMAIN d.configurations \subseteq Nat
<1> DEFINE Row == [name : STRING, ruleSetName : STRING, flexMatchMode : STRING,
                   backfillMode : STRING, targets : Seq(STRING)]
<1>1. d.configurations \in Seq(Row)
  BY StartupConstants DEF Parsed
<1>2. \A r \in Row : r.targets \in Seq(STRING)
  OBVIOUS
<1> HIDE DEF Row
<1>3. d.configurations[i] \in Row /\ DOMAIN d.configurations \subseteq Nat
  BY <1>1
<1>. QED
  BY <1>2, <1>3

\* Every target of an accepted document has exactly one publisher, which is
\* enabled, and buildPublishers gives the target that publisher's filter.
LEMMA TargetBuilt ==
  ASSUME NEW d \in Documents, LoadFile(d),
         NEW i \in DOMAIN d.configurations, NEW k \in DOMAIN d.configurations[i].targets,
         NEW j \in DOMAIN d.publishers, d.publishers[j].id = d.configurations[i].targets[k]
  PROVE  /\ d.publishers[j].enabled
         /\ d.publishers[j].id \in DOMAIN buildPublishers(d)
         /\ buildPublishers(d)[d.publishers[j].id].onlyEvents = d.publishers[j].onlyEvents
<1> DEFINE id      == d.configurations[i].targets[k]
           enabled == {m \in DOMAIN d.publishers : d.publishers[m].enabled}
<1>1. \A m, n \in DOMAIN d.publishers : d.publishers[m].id = d.publishers[n].id => m = n
  BY Accepted DEF PublishersValid, Distinct, Column
<1>2. PICK m \in enabled : d.publishers[m].id = id
  <2>1. TargetValid(d, id)
    BY Accepted DEF ConfigurationsValid
  <2>. QED
    BY <2>1 DEF TargetValid
<1>3. j \in enabled
  BY <1>1, <1>2
<1>4. (CHOOSE n \in enabled : d.publishers[n].id = id) = j
  BY <1>1, <1>3
<1> DEFINE row(x) == d.publishers[CHOOSE n \in enabled : d.publishers[n].id = x]
           built  == [x \in {d.publishers[n].id : n \in enabled} |->
                        [kind |-> row(x).kind, onlyEvents |-> row(x).onlyEvents]]
<1>5. buildPublishers(d) = built
  BY DEF buildPublishers
<1>6. id \in DOMAIN built /\ built[id].onlyEvents = d.publishers[j].onlyEvents
  BY <1>3, <1>4
<1>. QED
  BY <1>3, <1>5, <1>6

LEMMA TargetDeclared ==
  ASSUME NEW d \in Documents, LoadFile(d),
         NEW i \in DOMAIN d.configurations, NEW k \in DOMAIN d.configurations[i].targets
  PROVE  /\ \E j \in DOMAIN d.publishers : d.publishers[j].id = d.configurations[i].targets[k]
         /\ d.configurations[i].targets[k] \in DOMAIN buildPublishers(d)
<1>1. PICK j \in DOMAIN d.publishers : d.publishers[j].id = d.configurations[i].targets[k]
  BY Accepted DEF ConfigurationsValid, TargetValid
<1>. QED
  BY <1>1, TargetBuilt

\* The publishers bound to the name of an accepted configuration are its
\* targets, one for one.
LEMMA BoundIsTargets ==
  ASSUME NEW d \in Documents, LoadFile(d), NEW i \in DOMAIN d.configurations
  PROVE  publisherByConfig(d, d.configurations[i].name) = d.configurations[i].targets
<1> DEFINE name    == d.configurations[i].name
           named   == {m \in DOMAIN d.configurations : d.configurations[m].name = name}
           last    == CHOOSE m \in named : \A n \in named : n <= m
           targets == d.configurations[last].targets
           built   == {k \in DOMAIN targets : targets[k] \in DOMAIN buildPublishers(d)}
           rank(k) == Cardinality({j \in built : j <= k})
<1>1. /\ d.configurations[i].targets \in Seq(STRING)
      /\ DOMAIN d.configurations \subseteq Nat
  BY TargetTypes
<1>2. named = {i}
  BY Accepted DEF ConfigurationsValid, Distinct, Column
<1>3. last = i
  <2>1. i \in named /\ \A n \in named : n <= i
    BY <1>1, <1>2
  <2>. QED
    BY <1>2, <2>1
<1> DEFINE N == Len(d.configurations[i].targets)
<1>4. N \in Nat /\ targets = d.configurations[i].targets /\ DOMAIN targets = 1..N
  <2>1. targets = d.configurations[i].targets
    BY <1>3
  <2>. QED
    BY <1>1, <2>1
<1>5. built = 1..N
  BY <1>3, <1>4, TargetDeclared
<1>. \A m \in Nat : Cardinality(1..m) = m
  BY FS_Interval
<1>6. Cardinality(built) = N
  BY <1>4, <1>5
<1>7. \A k \in built : rank(k) = k
  <2>1. SUFFICES ASSUME NEW k \in built PROVE rank(k) = k
    OBVIOUS
  <2>2. k \in 1..N /\ {j \in built : j <= k} = 1..k
    BY <1>4, <1>5
  <2>3. rank(k) = Cardinality(1..k)
    BY <2>2
  <2>. QED
    BY <1>4, <2>2, <2>3
<1>8. \A n \in 1..N : (CHOOSE k \in built : rank(k) = n) = n
  BY <1>4, <1>5, <1>7
<1>9. publisherByConfig(d, name) = [n \in 1..Cardinality(built) |-> targets[CHOOSE k \in built : rank(k) = n]]
  BY DEF publisherByConfig
<1>10. publisherByConfig(d, name) = [n \in 1..N |-> targets[n]]
  BY <1>6, <1>8, <1>9
<1>. QED
  BY <1>1, <1>4, <1>10
\* The wiring and the batch stay as they are while it is published.
LEMMA Fixed == [Next]_vars => UNCHANGED <<doc, config, events, multi>>
BY DEF Next, Publishing, Skip, Send, SendNothing, EventDone, CancelDelivery, vars

LEMMA WiredInit == Init => Wired
<1>1. SUFFICES ASSUME Init PROVE Wired
  OBVIOUS
<1>2. doc \in Documents /\ LoadFile(doc) /\ config \in DOMAIN doc.configurations
  BY <1>1 DEF Init
<1>3. Bound = Targets
  BY <1>2, BoundIsTargets DEF Bound, Targets
<1>. QED
  BY <1>1, <1>2, <1>3 DEF Init, Wired

LEMMA WiredStep == Wired /\ [Next]_vars => Wired'
BY Fixed DEF Wired, Bound, Targets

-----------------------------------------------------------------------------
(* Types, and the order of what is sent *)

Types ==
  /\ events \in Seq(EventNames)
  /\ Children = 1..NumChildren /\ NumChildren \in Nat
  /\ at \in Nat \ {0} /\ child \in 1..(NumChildren + 1)
  /\ tries \in Nat
  /\ tries > 0 => child \in Children /\ tries < Attempts(child)
  /\ live \in BOOLEAN /\ closing \in BOOLEAN
  /\ errs \subseteq Children
  /\ sent \in [Children -> Seq(Nat)]
  /\ got \in [Children -> SUBSET Nat]

\* What has been sent to a child is behind the worker, or it is one of the last
\* requests, which are about to be repeated.
SentHandled ==
  \A c \in Children : \A k \in DOMAIN sent[c] :
    \/ Handled(sent[c][k], c)
    \/ c = child /\ sent[c][k] = at /\ k > Len(sent[c]) - tries

Order == SentHandled /\ SentInOrder

LEMMA TypesInit == Init => Types
<1>1. SUFFICES ASSUME Init PROVE Types
  OBVIOUS
<1>2. Wired
  BY <1>1, WiredInit
<1>3. Targets \in Seq(STRING)
  BY <1>2, TargetTypes DEF Wired, Targets
<1>4. DOMAIN multi = 1..Len(Targets) /\ Len(Targets) \in Nat
  BY <1>2, <1>3 DEF Wired
<1>5. Children = 1..NumChildren /\ NumChildren \in Nat
  BY <1>4 DEF Children, NumChildren
<1>6. events \in Seq(EventNames)
  BY <1>2, FanoutConstants DEF Wired
<1>7. /\ at = 1 /\ child = 1 /\ tries = 0 /\ live = TRUE /\ closing = FALSE /\ errs = {}
      /\ sent = [c \in Children |-> <<>>] /\ got = [c \in Children |-> {}]
  BY <1>1 DEF Init
<1>8. at \in Nat \ {0} /\ child \in 1..(NumChildren + 1)
  BY <1>5, <1>7
<1>9. sent \in [Children -> Seq(Nat)] /\ got \in [Children -> SUBSET Nat]
  BY <1>7
<1>10. tries \in Nat /\ ~(tries > 0)
  BY <1>7
<1>. QED
  BY <1>5, <1>6, <1>7, <1>8, <1>9, <1>10 DEF Types

\* A publish is at least one request.
LEMMA AttemptsPositive == \A c : Attempts(c) \in Nat \ {0}
BY FanoutConstants DEF Attempts

LEMMA TypesStep == Types /\ [Next]_vars => Types'
<1>. SUFFICES ASSUME Types, [Next]_vars PROVE Types'
  OBVIOUS
<1>1. /\ events' = events /\ Children' = Children /\ NumChildren' = NumChildren
      /\ NumChildren \in Nat
  BY Fixed DEF Children, NumChildren, Types
<1>2. child \in Children => child + 1 \in 1..(NumChildren + 1)
  BY DEF Types
<1>3. \A c : Attempts(c)' = Attempts(c)
  BY Fixed DEF Attempts
<1>4. CASE Skip
  BY <1>1, <1>2, <1>4 DEF Skip, Return, Types
<1>5. ASSUME NEW o \in Outcomes, Send(o) PROVE Types'
  <2>1. sent' \in [Children -> Seq(Nat)]
    BY <1>5 DEF Send, Types
  <2>2. got' \in [Children -> SUBSET Nat]
    BY <1>5 DEF Send, Types
  <2>3. live' \in BOOLEAN /\ closing' \in BOOLEAN /\ at' \in Nat \ {0}
    BY <1>5 DEF Send, Outcomes, Types
  <2>4. child' \in 1..(NumChildren + 1) /\ errs' \subseteq Children
    BY <1>2, <1>5 DEF Send, Return, Types
  <2>5. tries' \in Nat /\ (tries' > 0 => child' \in Children /\ tries' < Attempts(child'))
    BY <1>5 DEF Send, Return, Types
  <2>6. (tries > 0 => child \in Children /\ tries < Attempts(child))'
    BY <1>1, <2>5, Fixed DEF Attempts
  <2>. QED
    BY <1>1, <2>1, <2>2, <2>3, <2>4, <2>5, <2>6 DEF Types
<1>6. CASE SendNothing
  BY <1>1, <1>2, <1>6 DEF SendNothing, Return, Types
<1>7. CASE EventDone
  BY <1>1, <1>7 DEF EventDone, Types
<1>8. CASE CancelDelivery \/ UNCHANGED vars
  BY <1>1, <1>3, <1>8 DEF CancelDelivery, vars, Types
<1>. QED
  BY <1>4, <1>5, <1>6, <1>7, <1>8 DEF Next, Publishing

\* The worker never goes back: what it has handled stays handled.
LEMMA HandledGrows ==
  ASSUME Types, [Next]_vars, NEW c \in Children, NEW i \in Nat, Handled(i, c)
  PROVE  Handled(i, c)'
<1>1. c \in Nat /\ at \in Nat /\ child \in Nat
  BY DEF Types
<1>2. (at' = at /\ child' \in {child, child + 1}) \/ at' = at + 1
  BY DEF Next, Publishing, Skip, Send, SendNothing, EventDone, CancelDelivery, Return, vars
<1>. QED
  BY <1>1, <1>2 DEF Handled

\* What a step handles is the event at which the worker is, for the next child,
\* and a request that ends a call is its last.
LEMMA HandledNow ==
  ASSUME Types, [Next]_vars, NEW c \in Children, NEW i \in Nat,
         ~Handled(i, c), Handled(i, c)'
  PROVE  /\ c = child /\ i = at /\ i \in DOMAIN events
         /\ Skip \/ SendNothing \/ \E o \in Outcomes : Send(o) /\ ~o.again
<1>1. /\ c \in Nat \ {0} /\ at \in Nat \ {0} /\ child \in Nat \ {0} /\ NumChildren \in Nat
      /\ c <= NumChildren /\ child <= NumChildren + 1 /\ Children = 1..NumChildren
      /\ DOMAIN events = 1..Len(events) /\ Len(events) \in Nat
  BY DEF Types
<1>2. CASE Skip \/ SendNothing \/ \E o \in Outcomes : Send(o) /\ ~o.again
  <2>1. at' = at /\ child' = child + 1 /\ Busy
    BY <1>2 DEF Skip, SendNothing, Send, Return
  <2>. QED
    BY <1>1, <1>2, <2>1 DEF Handled, Busy
<1>3. CASE EventDone
  <2>1. at' = at + 1 /\ child' = 1 /\ child \notin Children
    BY <1>3 DEF EventDone
  <2>. QED
    BY <1>1, <2>1 DEF Handled
<1>4. CASE CancelDelivery \/ UNCHANGED vars
  BY <1>4 DEF CancelDelivery, vars, Handled
<1>5. ASSUME NEW o \in Outcomes, Send(o), o.again PROVE FALSE
  BY <1>5 DEF Send, Handled
<1>. QED
  BY <1>2, <1>3, <1>4, <1>5 DEF Next, Publishing

\* What has been sent to a child stays in order when no request is added.
LEMMA NothingSent ==
  ASSUME Types, Order, [Next]_vars, sent' = sent PROVE Order'
<1>1. Children' = Children /\ \A c : Attempts(c)' = Attempts(c)
  BY Fixed DEF Children, Attempts
<1>2. SentInOrder'
  BY <1>1 DEF Order, SentInOrder
<1>3. SUFFICES ASSUME NEW c \in Children, NEW k \in DOMAIN sent[c]
               PROVE  \/ Handled(sent[c][k], c)'
                      \/ c = child' /\ sent[c][k] = at' /\ k > Len(sent[c]) - tries'
  BY <1>1, <1>2 DEF Order, SentHandled
<1>4. sent[c] \in Seq(Nat) /\ sent[c][k] \in Nat
  BY DEF Types
<1>5. CASE Handled(sent[c][k], c)
  BY <1>4, <1>5, HandledGrows
<1>6. CASE c = child /\ sent[c][k] = at /\ k > Len(sent[c]) - tries
  <2>1. CASE Skip \/ SendNothing
    BY <1>6, <2>1 DEF Skip, SendNothing, Return, Handled, Types
  <2>2. CASE EventDone
    BY <1>6, <2>2 DEF EventDone
  <2>3. CASE CancelDelivery \/ UNCHANGED vars
    BY <1>6, <2>3 DEF CancelDelivery, vars
  <2>4. ASSUME NEW o \in Outcomes, Send(o) PROVE FALSE
    <3>1. sent'[child] = Append(sent[child], at) /\ sent[child] \in Seq(Nat) /\ at \in Nat
      BY <2>4 DEF Send, Types
    <3>2. Len(sent'[child]) = Len(sent[child]) + 1 /\ Len(sent[child]) \in Nat
      BY <3>1
    <3>. QED
      BY <3>2
  <2>. QED
    BY <2>1, <2>2, <2>3, <2>4 DEF Next, Publishing
<1>. QED
  BY <1>3, <1>5, <1>6 DEF Order, SentHandled

LEMMA OrderStep == Types /\ Order /\ [Next]_vars => Order'
<1>. SUFFICES ASSUME Types, Order, [Next]_vars PROVE Order'
  OBVIOUS
<1>1. Children' = Children /\ \A c : Attempts(c)' = Attempts(c)
  BY Fixed DEF Children, Attempts
<1>2. CASE sent' = sent
  BY <1>2, NothingSent
<1>3. ASSUME NEW o \in Outcomes, Send(o) PROVE Order'
  <2>1. /\ child \in Children /\ at \in Nat /\ Children \subseteq Nat /\ tries \in Nat
        /\ sent' = [sent EXCEPT ![child] = Append(@, at)] /\ at' = at
        /\ \/ child' = child + 1
           \/ child' = child /\ tries' = tries + 1
    BY <1>3 DEF Send, Return, Types
  <2>2. SUFFICES ASSUME NEW c \in Children
                 PROVE  /\ \A k \in DOMAIN sent'[c] :
                             \/ Handled(sent[c][k], c)'
                             \/ c = child' /\ sent'[c][k] = at' /\ k > Len(sent'[c]) - tries'
                        /\ \A j, k \in DOMAIN sent'[c] : j < k =>
                             \/ sent'[c][j] < sent'[c][k]
                             \/ sent'[c][j] = sent'[c][k] /\ k - j < Attempts(c)
    BY <1>1 DEF Order, SentHandled, SentInOrder
  <2>3. sent[c] \in Seq(Nat)
    BY DEF Types
  <2>4. CASE c # child
    <3>1. sent'[c] = sent[c]
      BY <2>1, <2>4 DEF Types
    <3>2. \A k \in DOMAIN sent[c] : Handled(sent[c][k], c) /\ sent[c][k] \in Nat
      BY <2>3, <2>4 DEF Order, SentHandled
    <3>3. \A k \in DOMAIN sent[c] : Handled(sent[c][k], c)'
      BY <3>1, <3>2, HandledGrows DEF Handled
    <3>. QED
      BY <3>1, <3>3 DEF Order, SentInOrder
  <2>5. CASE c = child
    <3> DEFINE n == Len(sent[c])
    <3>1. sent'[c] = Append(sent[c], at)
      BY <2>1, <2>5 DEF Types
    <3>2. /\ n \in Nat /\ DOMAIN sent[c] = 1..n
          /\ Len(sent'[c]) = n + 1 /\ DOMAIN sent'[c] = 1..(n + 1)
          /\ \A k \in 1..n : sent'[c][k] = sent[c][k] /\ sent[c][k] \in Nat
          /\ sent'[c][n + 1] = at
      BY <2>1, <2>3, <3>1
    <3> HIDE DEF n
    <3>3. \A k \in 1..n : sent[c][k] < at \/ (sent[c][k] = at /\ k > n - tries)
      BY <2>1, <2>5, <3>2 DEF Order, SentHandled, Handled, n
    <3>4. \A k \in 1..(n + 1) : \/ sent'[c][k] < at
                                \/ sent'[c][k] = at /\ (k = n + 1 \/ k > n - tries)
      <4>1. TAKE k \in 1..(n + 1)
      <4>2. k \in 1..n \/ k = n + 1
        BY <3>2
      <4>3. CASE k \in 1..n
        BY <3>2, <3>3, <4>3
      <4>4. CASE k = n + 1
        BY <3>2, <4>4
      <4>. QED
        BY <4>2, <4>3, <4>4
    <3>5. \A k \in 1..(n + 1) :
            \/ Handled(sent[c][k], c)'
            \/ c = child' /\ sent'[c][k] = at' /\ k > (n + 1) - tries'
      BY <2>1, <2>5, <3>2, <3>4 DEF Handled
    <3>6. tries < Attempts(c) /\ Attempts(c) \in Nat
      BY <2>1, <2>5, AttemptsPositive DEF Types
    <3>7. \A j \in 1..n : \/ sent'[c][j] < sent'[c][n + 1]
                          \/ sent'[c][j] = sent'[c][n + 1] /\ (n + 1) - j < Attempts(c)
      <4>1. \A j \in 1..n : j > n - tries => (n + 1) - j < Attempts(c)
        <5>1. \A a, j, m, t \in Int : j > m - t /\ t < a => (m + 1) - j < a
          OBVIOUS
        <5>. QED
          BY <2>1, <3>2, <3>6, <5>1
      <4>2. \A j \in 1..n : sent'[c][j] = sent[c][j]
        BY <3>2
      <4>. QED
        BY <3>2, <3>3, <4>1, <4>2
    <3>8. \A j, k \in 1..n : j < k =>
            \/ sent'[c][j] < sent'[c][k]
            \/ sent'[c][j] = sent'[c][k] /\ k - j < Attempts(c)
      BY <3>2 DEF Order, SentInOrder
    <3>9. \A j, k \in 1..(n + 1) : j < k => j \in 1..n /\ (k \in 1..n \/ k = n + 1)
      BY <3>2
    <3>. QED
      BY <3>2, <3>5, <3>7, <3>8, <3>9
  <2>. QED
    BY <2>4, <2>5
<1>. QED
  BY <1>2, <1>3 DEF Next, Publishing, Skip, SendNothing, EventDone, CancelDelivery, vars

\* Each publisher of a configuration is sent the events of a batch in their
\* order, whatever fails in between (deliver, publishOne): an SNS endpoint none
\* twice, a queue each at most as often in succession as the client of
\* buildPublishers makes attempts.
THEOREM SentInOrderAlways == Spec => []SentInOrder
<1>1. Init => Types /\ Order
  BY TypesInit DEF Init, Order, SentHandled, SentInOrder
<1>2. Types /\ Order /\ [Next]_vars => (Types /\ Order)'
  BY TypesStep, OrderStep
<1>3. Types /\ Order => SentInOrder
  BY DEF Order
<1>. QED
  BY <1>1, <1>2, <1>3, PTL DEF Spec

\* An event is sent to every publisher that wants it unless its context has
\* ended: neither another publisher's failure nor an earlier event's keeps it
\* away (Multi.Publish).
THEOREM FailureIsolatedAlways == Spec => FailureIsolated
<1>1. Init => Types
  BY TypesInit
<1>2. Types /\ [Next]_vars => Types'
  BY TypesStep
<1>3. ASSUME Types, [Next]_vars,
             NEW c \in Children, NEW i \in DOMAIN events,
             live, ~Handled(i, c), Handled(i, c)', Forwards(c, i)
      PROVE  i \in SentTo(c)'
  <2>1. i \in Nat
    BY <1>3 DEF Types
  <2>2. /\ c = child /\ i = at
        /\ Skip \/ SendNothing \/ \E o \in Outcomes : Send(o) /\ ~o.again
    BY <1>3, <2>1, HandledNow
  <2>3. PICK o \in Outcomes : Send(o)
    BY <1>3, <2>2 DEF Skip, SendNothing
  <2>4. sent[c] \in Seq(Nat) /\ sent'[c] = Append(sent[c], i)
    BY <1>3, <2>2, <2>3 DEF Send, Types
  <2>5. Len(sent[c]) + 1 \in DOMAIN sent'[c] /\ sent'[c][Len(sent[c]) + 1] = i
    BY <2>1, <2>4
  <2>. QED
    BY <2>5 DEF SentTo
<1>4. Types /\ [Next]_vars =>
        [\A c \in Children, i \in DOMAIN events :
           live /\ ~Handled(i, c) /\ Handled(i, c)' /\ Forwards(c, i) => i \in SentTo(c)']_vars
  BY <1>3
<1>. QED
  BY <1>1, <1>2, <1>4, PTL DEF Spec, FailureIsolated

-----------------------------------------------------------------------------
(* What becomes of an event *)

\* Behind the worker, a child has received what it wants, or its failure counts.
Answered ==
  \A c \in Children, i \in DOMAIN events :
    Handled(i, c) /\ Forwards(c, i) =>
      i \in got[c] \/ i \in warned \/ (i = at /\ c \in errs)

\* A child receives only what it wants.
Wanted ==
  \A c \in Children : \A i \in got[c] : i \in DOMAIN events /\ Forwards(c, i)

Outcome == Answered /\ Wanted

LEMMA AnsweredStep == Types /\ Outcome /\ [Next]_vars => Answered'
<1>. SUFFICES ASSUME Types, Outcome, [Next]_vars,
                     NEW c \in Children, NEW i \in DOMAIN events,
                     Handled(i, c)', Forwards(c, i)
              PROVE  i \in got'[c] \/ i \in warned' \/ (i = at' /\ c \in errs')
  BY Fixed DEF Answered, Children, Forwards
<1>1. i \in Nat /\ at \in Nat /\ c \in Nat /\ got \in [Children -> SUBSET Nat]
  BY DEF Types
<1>2. CASE ~Handled(i, c)
  <2>1. c = child /\ i = at
    BY <1>1, <1>2, HandledNow
  <2>2. CASE Skip
    BY <2>1, <2>2 DEF Skip
  <2>3. CASE SendNothing
    BY <2>1, <2>3 DEF SendNothing, Return
  <2>4. ASSUME NEW o \in Outcomes, Send(o), ~o.again
        PROVE  i \in got'[c] \/ (i = at' /\ c \in errs')
    BY <1>1, <2>1, <2>4 DEF Send, Return, Outcomes
  <2>. QED
    BY <1>1, <1>2, <2>2, <2>3, <2>4, HandledNow
<1>3. CASE Handled(i, c)
  <2>1. i \in got[c] \/ i \in warned \/ (i = at /\ c \in errs)
    BY <1>3 DEF Outcome, Answered
  <2>2. i \in got[c] => i \in got'[c]
    BY <1>1 DEF Next, Publishing, Skip, Send, SendNothing, EventDone, CancelDelivery, vars
  <2>3. i \in warned => i \in warned'
    BY DEF Next, Publishing, Skip, Send, SendNothing, EventDone, CancelDelivery, vars
  <2>4. i = at /\ c \in errs => i \in warned' \/ (i = at' /\ c \in errs')
    BY DEF Next, Publishing, Skip, Send, SendNothing, EventDone, CancelDelivery, Return, vars
  <2>. QED
    BY <2>1, <2>2, <2>3, <2>4
<1>. QED
  BY <1>2, <1>3

LEMMA WantedStep == Types /\ Wanted /\ [Next]_vars => Wanted'
<1>. SUFFICES ASSUME Types, Wanted, [Next]_vars, NEW c \in Children, NEW i \in got'[c]
              PROVE  i \in DOMAIN events /\ Forwards(c, i)
  BY Fixed DEF Wanted, Children, Forwards
<1>1. CASE got' = got
  BY <1>1 DEF Wanted
<1>2. ASSUME NEW o \in Outcomes, Send(o), got' = [got EXCEPT ![child] = @ \cup {at}]
      PROVE  i \in DOMAIN events /\ Forwards(c, i)
  <2>1. at \in DOMAIN events /\ Forwards(child, at)
    BY <1>2 DEF Send, Busy, Types
  <2>2. i \in got[c] \/ (c = child /\ i = at)
    BY <1>2 DEF Types
  <2>. QED
    BY <2>1, <2>2 DEF Wanted
<1>. QED
  BY <1>1, <1>2 DEF Next, Publishing, Skip, Send, SendNothing, EventDone, CancelDelivery, vars

\* A child of a wired worker forwards what its publisher wants.
LEMMA ForwardsWanted ==
  ASSUME Wired, NEW c \in Children, NEW i \in DOMAIN events,
         NEW j \in DOMAIN doc.publishers, doc.publishers[j].id = Targets[c]
  PROVE  c \in DOMAIN Targets /\ (Forwards(c, i) <=> Wants(doc.publishers[j], i))
<1>1. /\ doc \in Documents /\ LoadFile(doc) /\ config \in DOMAIN doc.configurations
      /\ multi = [k \in DOMAIN Targets |-> buildPublishers(doc)[Targets[k]]]
  BY DEF Wired
<1>2. c \in DOMAIN Targets
  BY <1>1 DEF Children
<1>3. multi[c].onlyEvents = doc.publishers[j].onlyEvents
  BY <1>1, <1>2, TargetBuilt DEF Targets
<1>. QED
  BY <1>2, <1>3 DEF Forwards, Wants

\* The destinations of an event that was not logged as failed are the publishers
\* that the configuration names and that asked for the event.
LEMMA Delivered == Wired /\ Types /\ Outcome => SilenceMeansDelivered
<1>. SUFFICES ASSUME Wired, Types, Outcome, NEW i \in DOMAIN events, i < at, i \notin warned
              PROVE  {Bound[c] : c \in {c \in Children : i \in got[c]}}
                       = {id \in {Targets[k] : k \in DOMAIN Targets} :
                            \E j \in DOMAIN doc.publishers :
                              doc.publishers[j].id = id /\ Wants(doc.publishers[j], i)}
  BY DEF SilenceMeansDelivered
<1>1. /\ doc \in Documents /\ LoadFile(doc) /\ config \in DOMAIN doc.configurations
      /\ Bound = Targets /\ Children = DOMAIN Targets
  BY DEF Wired, Children
<1>2. \A c \in Children : \E j \in DOMAIN doc.publishers : doc.publishers[j].id = Targets[c]
  BY <1>1, TargetDeclared DEF Targets
<1>3. i \in Nat /\ at \in Nat
  BY DEF Types
<1>4. \A c \in Children : i \in got[c] <=> Forwards(c, i)
  BY <1>3 DEF Outcome, Answered, Wanted, Handled
<1>5. \A c \in Children :
        i \in got[c] <=> \E j \in DOMAIN doc.publishers :
                           doc.publishers[j].id = Targets[c] /\ Wants(doc.publishers[j], i)
  BY <1>2, <1>4, ForwardsWanted
<1>. QED
  BY <1>1, <1>5

\* When publishOne logs no failure for an event, exactly the publishers that the
\* configuration file names for the configuration and that list the event (or
\* list none) have received it: neither LoadFile and the wiring of main.go nor
\* Multi and Filtered lose one or add one.
THEOREM SilenceMeansDeliveredAlways == Spec => []SilenceMeansDelivered
<1> DEFINE IInv == Wired /\ Types /\ Outcome
<1>1. Init => IInv
  <2>1. Init => Outcome
    <3>1. SUFFICES ASSUME Init PROVE Outcome
      OBVIOUS
    <3>2. at = 1 /\ child = 1 /\ got = [c \in Children |-> {}]
      BY <3>1 DEF Init
    <3>3. \A c \in Children, i \in DOMAIN events : ~Handled(i, c)
      BY <3>1, <3>2, TypesInit DEF Types, Handled
    <3>. QED
      BY <3>2, <3>3 DEF Outcome, Answered, Wanted
  <2>. QED
    BY <2>1, WiredInit, TypesInit
<1>2. IInv /\ [Next]_vars => IInv'
  BY WiredStep, TypesStep, AnsweredStep, WantedStep DEF Outcome
<1>3. IInv => SilenceMeansDelivered
  BY Delivered
<1> HIDE DEF IInv
<1>. QED
  BY <1>1, <1>2, <1>3, PTL DEF Spec
=============================================================================
