-------------------------- MODULE LifecycleProofs --------------------------
(* Proofs of Lifecycle's safety, for every number of shells, operations,      *)
(* records, failures and power losses.                                        *)
EXTENDS Lifecycle, FiniteSetTheorems, WellFoundedInduction, TLAPS

----------------------------------------------------------------------------
(* The inductive invariant.                                                   *)

\* The operation is past its first change, and not closed as untouched.
Mutated(e) == e.journal.state \notin PreMutation /\ e.journal.outcome # "interrupted"

\* What power loss may leave of an operation is a journal too, of the same
\* operation, and no later than the one every process reads.
StoreOK(o) ==
  /\ synced[o] = Nothing <=> disk[o] = Nothing
  /\ o \in linked => exists(o)
  /\ exists(o) => LET j == disk[o].journal
                      s == synced[o].journal
                  IN  /\ Sound(j) /\ Sound(s) /\ j.kind = s.kind
                      /\ s.generation <= j.generation /\ synced[o].counter <= disk[o].counter
                      /\ s.generation = j.generation => s = j

\* The journal of operation o survives power loss with generation g at least.
Survives(o, g) == o \in linked /\ synced[o].journal.generation >= g

\* Both what is read and what power loss leaves show the first change.
Past1st(o) == o \in linked /\ Mutated(disk[o]) /\ Mutated(synced[o])

\* An event that was told is durable, and so is the sequence it spent.
EventOK(o) ==
  /\ events[o].generation > 0 => Survives(o, events[o].generation)
  /\ events[o].sequence > 0 => o \in linked /\ events[o].sequence <= synced[o].counter

\* A shell without the lock's description is at rest.
RestOK(p) ==
  /\ p \notin fd => env[p] = None /\ pc[p] = "idle"
  /\ p \notin alive => gen[p] = 0
  /\ env[p] # None => env[p] \in linked

\* What a request under way knows: the checkpoint its shell is unsure of until
\* it is acknowledged, the begin of an unbound shell, a write that is durable.
QueuedOK(p) ==
  pc[p] = "queued" =>
    /\ req[p].type \in {"checkpoint", "emit"} => env[p] # None
    /\ req[p].type = "checkpoint" => /\ p \notin landed
                                     /\ p \in alive => p \in unsure /\ gen[p] = req[p].ask.expected

BeginOK(p) ==
  pc[p] \in {"locked", "written", "answered"} /\ req[p].type = "begin" => env[p] = None

WrittenOK(p) ==
  /\ pc[p] \in {"written", "answered"} =>
       /\ Survives(req[p].operation, req[p].event.generation)
       /\ req[p].type = "checkpoint" =>
            /\ req[p].operation = env[p]
            /\ req[p].event.generation = req[p].ask.expected + 1
            /\ req[p].ask.record.state = "applying" => Past1st(env[p])
  /\ pc[p] = "written" =>
       /\ events[req[p].operation].sequence < req[p].event.sequence
       /\ req[p].event.sequence <= synced[req[p].operation].counter

\* A shell whose record is in the journal unacknowledged can tell that the
\* journal has moved; one that marked a change has its record; one that is sure
\* of a generation is right.
KnowsOK(p) ==
  /\ p \in landed => /\ p \in unsure /\ env[p] # None
                     /\ disk[env[p]].journal.generation > gen[p]
  /\ p \in mark => env[p] # None /\ Past1st(env[p])
  /\ p \in alive \ unsure /\ env[p] # None => Survives(env[p], gen[p])

ShellOK(p) == RestOK(p) /\ QueuedOK(p) /\ BeginOK(p) /\ WrittenOK(p) /\ KnowsOK(p)

\* The writer lock is held by the utility that reconciles or has written.
WriterOK == \A p \in Shell : pc[p] \in {"locked", "written"} <=> writer = p

JournalInv ==
  /\ \A o \in Op : StoreOK(o) /\ EventOK(o)
  /\ \A o \in changed : Past1st(o)
  /\ \A p \in Shell : ShellOK(p)
  /\ WriterOK

IInv == TypeOK /\ JournalInv

\* Everyone who holds the lock's description is bound to the operation the lock
\* is bound to, and until it is bound there is one holder.
HandedOver ==
  /\ \A p \in fd : env[p] = owner.operation
  /\ owner.operation = None => \A p, q \in fd : p = q

----------------------------------------------------------------------------
(* The number of a new operation.                                             *)

\* A set of bounded numbers has a largest one.
LEMMA LargestExists ==
  ASSUME NEW n \in Nat, NEW S, S \subseteq 0..n, S # {}
  PROVE  \E m \in S : \A y \in S : m >= y
<1> DEFINE T == {n - x : x \in S}
           R == OpToRel(<, Nat)
<1>1. T \subseteq Nat /\ T # {}
  <2>1. \A x \in S : n - x \in Nat
    OBVIOUS
  <2>2. PICK x \in S : TRUE
    OBVIOUS
  <2>3. n - x \in T
    OBVIOUS
  <2> QED
    BY <2>1, <2>3
<1>2. IsWellFoundedOn(R, Nat)
  BY NatLessThanWellFounded
<1> HIDE DEF R, T
<1>3. \E x \in T : \A y \in T : ~ (<<y, x>> \in R)
  BY <1>1, <1>2, WFMin
<1>4. PICK t \in T : \A y \in T : ~ (<<y, t>> \in R)
  BY <1>3
<1>5. \A y \in T : ~(y < t)
  BY <1>1, <1>4 DEF R, OpToRel
<1>6. PICK m \in S : t = n - m
  BY DEF T
<1>7. \A y \in S : n - y \in T
  BY DEF T
<1> QED
  BY <1>1, <1>5, <1>6, <1>7

\* The operation that begin creates is a new one.
LEMMA NextOpFresh == NextOp \in Op => ~exists(NextOp)
<1> DEFINE S == {0} \cup {o \in Op : exists(o)}
<1>1. MaxOp \in Nat
  BY LifecycleAssumption
<1>2. S \subseteq 0..MaxOp /\ S # {}
  <2>1. \A o \in Op : o \in 0..MaxOp
    BY <1>1 DEF Op
  <2>2. 0 \in S /\ 0 \in 0..MaxOp
    BY <1>1
  <2> QED
    BY <2>1, <2>2
<1>3. NextOp = 1 + Max(S)
  BY DEF NextOp
<1>4. NextOp \in Op /\ exists(NextOp) => NextOp \in S
  OBVIOUS
<1> HIDE DEF S
<1>5. \E m \in S : \A y \in S : m >= y
  BY <1>1, <1>2, LargestExists
<1>6. Max(S) \in S /\ \A y \in S : Max(S) >= y
  BY <1>5 DEF Max
<1>7. PICK m \in S : m = Max(S)
  BY <1>6
<1>8. NextOp \notin S
  <2>1. m \in Int /\ NextOp = 1 + m /\ \A y \in S : m >= y
    BY <1>1, <1>2, <1>3, <1>6, <1>7
  <2>2. ~(m >= 1 + m)
    BY <2>1
  <2> QED
    BY <2>1, <2>2
<1> QED
  BY <1>4, <1>8

----------------------------------------------------------------------------
(* The journal contract.                                                      *)

\* A record with its journal's fields.
LEMMA EntryFields ==
  ASSUME NEW e \in Entry
  PROVE  /\ e # Nothing /\ e.counter \in Nat
         /\ e.journal.generation \in Nat \ {0} /\ e.journal.sequence \in Nat
         /\ e.journal.state \in State /\ e.journal.outcome \in Outcome \cup {None}
         /\ e.journal.attempts \in Nat
         /\ e.journal.kind \in {"transaction", "install", "legacy"}
<1>1. e.journal.generation # 0
  BY DEF Entry
<1>2. Nothing.journal.generation = 0
  BY DEF Nothing
<1> QED
  BY <1>1, <1>2 DEF Entry

\* What exists is an entry.
LEMMA ExistsEntry ==
  ASSUME TypeOK, NEW o \in Op, exists(o)
  PROVE  disk[o] \in Entry
BY DEF TypeOK, exists

\* A record the contract accepts makes a journal that is sound, of the same
\* kind, and never takes an operation back before its first change.
LEMMA NextJournalOK ==
  ASSUME TypeOK, NEW o \in Op, exists(o), Sound(disk[o].journal),
         NEW r \in Record, _journal_rules(disk[o].journal, r)
  PROVE  LET j == disk[o].journal
             n == _next_journal(o, r)
             e == [journal |-> n, counter |-> _next_sequence(o)]
         IN  /\ e \in Entry /\ Sound(n) /\ n.kind = j.kind
             /\ n.generation = j.generation + 1 /\ n.state = r.state /\ n.outcome = r.outcome
             /\ _next_sequence(o) \in Nat /\ _next_sequence(o) > disk[o].counter
             /\ Mutated(disk[o]) => Mutated(e)
             /\ j.outcome = None
<1> DEFINE j == disk[o].journal
           n == _next_journal(o, r)
           e == [journal |-> n, counter |-> _next_sequence(o)]
           J == [kind : {"transaction", "install", "legacy"}, generation : Nat \ {0}, sequence : Nat,
                 state : State, step : BOOLEAN, outcome : Outcome \cup {None}, attempts : Nat]
<1>1. /\ j \in J /\ disk[o].counter \in Nat
  BY ExistsEntry DEF Entry
<1>2. j.generation \in Nat \ {0} /\ j.sequence \in Nat /\ j.attempts \in Nat
  BY <1>1
<1>3. _next_sequence(o) \in Nat /\ _next_sequence(o) > disk[o].counter
  BY <1>1, <1>2 DEF _next_sequence
<1>4. Attempts(j, r) \in Nat /\ Attempts(j, r) <= MaxAttempts
  BY <1>2 DEF Attempts, _journal_rules
<1>5. r.state \in State /\ r.outcome \in Outcome \cup {None} /\ r.step \in BOOLEAN
  BY DEF Record
<1>6. n = [j EXCEPT !.generation = j.generation + 1, !.sequence = _next_sequence(o), !.state = r.state,
                    !.step = r.step, !.outcome = r.outcome, !.attempts = Attempts(j, r)]
  BY DEF _next_journal
<1> HIDE DEF n, j
<1>7. n \in J
  <2>1. \A x \in J, g \in Nat \ {0}, q \in Nat, st \in State, b \in BOOLEAN,
           oc \in Outcome \cup {None}, a \in Nat :
          [x EXCEPT !.generation = g, !.sequence = q, !.state = st, !.step = b,
                    !.outcome = oc, !.attempts = a] \in J
    BY ZenonT(60)
  <2>2. j.generation + 1 \in Nat \ {0}
    BY <1>2
  <2> HIDE DEF J
  <2> QED
    BY <1>1, <1>3, <1>4, <1>5, <1>6, <2>1, <2>2, ZenonT(60)
<1>8. /\ n.kind = j.kind /\ n.generation = j.generation + 1 /\ n.state = r.state
      /\ n.outcome = r.outcome /\ n.attempts = Attempts(j, r)
  BY <1>1, <1>6
<1>9. e \in Entry
  BY <1>3, <1>7 DEF Entry
<1>10. /\ _checkpoint_rules(r, j.state) /\ ~finished(j)
       /\ r.state = j.state \/ is_transition(j.kind, j.state, r.state)
  BY DEF _journal_rules, j
<1>11. Mutated(disk[o]) => r.state \notin PreMutation /\ r.outcome # "interrupted"
  <2> SUFFICES ASSUME j.state \notin PreMutation
               PROVE  r.state \notin PreMutation /\ r.outcome # "interrupted"
    BY DEF Mutated, j
  <2>1. r.outcome # "interrupted"
    BY <1>10 DEF _checkpoint_rules
  <2>2. is_transition(j.kind, j.state, r.state) => r.state \notin PreMutation
    BY DEF is_transition, Transitions, PreMutation
  <2> QED
    BY <1>10, <2>1, <2>2
<1>12. Mutated(disk[o]) => Mutated(e)
  BY <1>8, <1>11 DEF Mutated
<1>13. Sound(n)
  <2>1. Sound(j)
    BY DEF j
  <2>2. j.kind = "legacy" => Mutated(disk[o])
    BY <2>1 DEF Sound, Mutated, j
  <2>3. n.kind = "legacy" => n.state \notin PreMutation /\ n.outcome # "interrupted"
    BY <1>8, <1>11, <2>2
  <2>4. \A closing \in {"committed", "recovered"} : (n.state = closing) <=> (n.outcome = closing)
    BY <1>8, <1>10 DEF _checkpoint_rules
  <2>5. n.attempts <= MaxAttempts
    BY <1>4, <1>8
  <2> QED
    BY <2>3, <2>4, <2>5 DEF Sound
<1>14. j.outcome = None
  BY <1>10 DEF finished
<1> QED
  BY <1>3, <1>8, <1>9, <1>12, <1>13, <1>14 DEF n, j

----------------------------------------------------------------------------
(* The store only grows, but for power loss.                                  *)

StoreType ==
  /\ disk \in [Op -> Entry \cup {Nothing}] /\ synced \in [Op -> Entry \cup {Nothing}]
  /\ linked \subseteq Op

\* d, read by every process, and s, left by power loss, may take the place of
\* what there is of operation o.
Succeeds(o, d, s) ==
  /\ Sound(d.journal) /\ Sound(s.journal)
  /\ d.journal.kind = disk[o].journal.kind /\ s.journal.kind = d.journal.kind
  /\ s.journal.generation <= d.journal.generation /\ s.counter <= d.counter
  /\ s.journal.generation = d.journal.generation => s.journal = d.journal
  /\ d.journal.generation >= disk[o].journal.generation
  /\ s.journal.generation >= synced[o].journal.generation
  /\ s.counter >= synced[o].counter
  /\ Mutated(disk[o]) => Mutated(d)
  /\ Mutated(disk[o]) /\ Mutated(synced[o]) => Mutated(s)
  /\ d.journal.outcome = None => disk[o].journal.outcome = None

\* What a step of any process leaves of the store.
Grows ==
  /\ StoreType' /\ linked \subseteq linked'
  /\ \A o \in Op : StoreOK(o)'
  /\ \A o \in Op : exists(o) => exists(o)' /\ Succeeds(o, disk'[o], synced'[o])

\* A journal and what is synced of it succeed themselves.
LEMMA SucceedsItself ==
  ASSUME TypeOK, NEW o \in Op, StoreOK(o), exists(o)
  PROVE  /\ Succeeds(o, disk[o], synced[o])
         /\ disk[o] \in Entry /\ synced[o] \in Entry
<1>1. disk[o] \in Entry /\ synced[o] \in Entry
  BY DEF TypeOK, exists, StoreOK
<1>2. /\ disk[o].journal.generation \in Nat /\ synced[o].journal.generation \in Nat
      /\ disk[o].counter \in Nat /\ synced[o].counter \in Nat
  BY <1>1, EntryFields
<1> QED
  BY <1>1, <1>2 DEF StoreOK, Succeeds

\* A step that leaves the store alone.
LEMMA StoreSame ==
  ASSUME TypeOK, \A o \in Op : StoreOK(o), UNCHANGED store
  PROVE  Grows
<1> USE DEF store
<1>1. StoreType' /\ linked \subseteq linked'
  BY DEF TypeOK, StoreType
<1>2. \A o \in Op : StoreOK(o)'
  BY DEF StoreOK, exists
<1>3. \A o \in Op : exists(o) => exists(o)' /\ Succeeds(o, disk'[o], synced'[o])
  BY SucceedsItself DEF exists
<1> QED
  BY <1>1, <1>2, <1>3 DEF Grows

\* A step that replaces what there is of one operation.
LEMMA StoreReplaced ==
  ASSUME TypeOK, \A x \in Op : StoreOK(x), NEW o \in Op, exists(o),
         NEW d \in Entry, NEW s \in Entry, Succeeds(o, d, s),
         disk' = [disk EXCEPT ![o] = d], synced' = [synced EXCEPT ![o] = s], UNCHANGED linked
  PROVE  Grows
<1>1. StoreType' /\ linked \subseteq linked'
  BY DEF TypeOK, StoreType
<1>2. /\ disk'[o] = d /\ synced'[o] = s
      /\ \A x \in Op \ {o} : disk'[x] = disk[x] /\ synced'[x] = synced[x]
  BY DEF TypeOK
<1>3. d # Nothing /\ s # Nothing
  BY EntryFields
<1>4. StoreOK(o)'
  BY <1>2, <1>3 DEF StoreOK, Succeeds, exists
<1>5. \A x \in Op \ {o} : StoreOK(x)'
  BY <1>2 DEF StoreOK, exists
<1>6. \A x \in Op \ {o} : exists(x) => exists(x)' /\ Succeeds(x, disk'[x], synced'[x])
  BY <1>2, SucceedsItself DEF exists
<1>7. exists(o)' /\ Succeeds(o, disk'[o], synced'[o])
  BY <1>2, <1>3 DEF exists
<1> QED
  BY <1>1, <1>4, <1>5, <1>6, <1>7 DEF Grows

\* A journal whose counter alone was replaced.
LEMMA Counted ==
  ASSUME TypeOK, NEW o \in Op, StoreOK(o), exists(o), NEW n \in Nat, n > disk[o].counter
  PROVE  LET c == [disk[o] EXCEPT !.counter = n]
         IN  /\ c \in Entry /\ c.journal = disk[o].journal /\ c.counter = n
             /\ Succeeds(o, c, c) /\ Succeeds(o, c, synced[o])
<1> DEFINE c == [disk[o] EXCEPT !.counter = n]
<1>1. /\ disk[o] \in Entry /\ synced[o] \in Entry /\ Succeeds(o, disk[o], synced[o])
  BY SucceedsItself
<1>2. c \in Entry /\ c.journal = disk[o].journal /\ c.counter = n
  BY <1>1 DEF Entry
<1>3. /\ disk[o].journal.generation \in Nat /\ synced[o].journal.generation \in Nat
      /\ disk[o].counter \in Nat /\ synced[o].counter \in Nat
  BY <1>1, EntryFields
<1>4. Mutated(c) <=> Mutated(disk[o])
  BY <1>2 DEF Mutated
<1> HIDE DEF c
<1>5. Succeeds(o, c, c)
  BY <1>1, <1>2, <1>3, <1>4 DEF Succeeds
<1>6. Succeeds(o, c, synced[o])
  BY <1>1, <1>2, <1>3, <1>4 DEF Succeeds
<1> QED
  BY <1>2, <1>5, <1>6 DEF c

\* A pair of replaces, however far it gets: the store grows, what is durable is
\* what was asked for, and what is visible is one generation on.
LEMMA ReplaceGrows ==
  ASSUME TypeOK, \A x \in Op : StoreOK(x), NEW o \in Op, exists(o),
         NEW r \in Record, _journal_rules(disk[o].journal, r), NEW reach \in Reach,
         Replace(o, [journal |-> _next_journal(o, r), counter |-> _next_sequence(o)], reach),
         UNCHANGED linked
  PROVE  /\ Grows
         /\ \A x \in Op \ {o} : disk'[x] = disk[x]
         /\ reach \in {"visible", "durable"} =>
              disk'[o].journal.generation = disk[o].journal.generation + 1
         /\ reach = "durable" =>
              /\ synced'[o] = disk'[o] /\ synced'[o].counter = _next_sequence(o)
              /\ synced'[o].journal.state = r.state /\ synced'[o].journal.outcome = r.outcome
<1> DEFINE e == [journal |-> _next_journal(o, r), counter |-> _next_sequence(o)]
           c == [disk[o] EXCEPT !.counter = _next_sequence(o)]
<1>1. StoreOK(o) /\ Sound(disk[o].journal)
  BY DEF StoreOK
<1>2. /\ e \in Entry /\ Sound(e.journal) /\ e.journal.kind = disk[o].journal.kind
      /\ e.journal.generation = disk[o].journal.generation + 1
      /\ e.journal.state = r.state /\ e.journal.outcome = r.outcome
      /\ _next_sequence(o) \in Nat /\ _next_sequence(o) > disk[o].counter
      /\ Mutated(disk[o]) => Mutated(e)
      /\ disk[o].journal.outcome = None /\ e.counter = _next_sequence(o)
  BY <1>1, NextJournalOK
<1>3. /\ c \in Entry /\ c.journal = disk[o].journal /\ c.counter = _next_sequence(o)
      /\ Succeeds(o, c, c)
  BY <1>1, <1>2, Counted
<1>4. /\ disk[o] \in Entry /\ synced[o] \in Entry /\ Succeeds(o, disk[o], synced[o])
  BY <1>1, SucceedsItself
<1>5. /\ disk[o].journal.generation \in Nat /\ synced[o].journal.generation \in Nat
      /\ disk[o].counter \in Nat /\ synced[o].counter \in Nat
  BY <1>4, EntryFields
<1>6. /\ disk' = [disk EXCEPT ![o] = CASE reach = "none" -> disk[o]
                                       [] reach = "counter" -> c
                                       [] OTHER -> e]
      /\ synced' = IF reach = "none" THEN synced
                   ELSE [synced EXCEPT ![o] = IF reach = "visible" THEN c
                                              ELSE CASE reach = "none" -> disk[o]
                                                     [] reach = "counter" -> c
                                                     [] OTHER -> e]
  BY <1>2 DEF Replace
<1>7. disk \in [Op -> Entry \cup {Nothing}] /\ synced \in [Op -> Entry \cup {Nothing}]
  BY DEF TypeOK
<1> HIDE DEF e, c
<1>8. Succeeds(o, e, c) /\ Succeeds(o, e, e)
  <2>1. Mutated(disk[o]) => Mutated(c)
    BY <1>3 DEF Mutated
  <2> QED
    BY <1>2, <1>3, <1>4, <1>5, <2>1 DEF Succeeds
<1>9. CASE reach = "none"
  BY <1>6, <1>7, <1>9, StoreSame DEF store
<1>10. CASE reach = "counter"
  <2>1. disk' = [disk EXCEPT ![o] = c] /\ synced' = [synced EXCEPT ![o] = c]
    BY <1>6, <1>10
  <2> QED
    BY <1>3, <1>7, <1>10, <2>1, StoreReplaced
<1>11. CASE reach = "visible"
  <2>1. disk' = [disk EXCEPT ![o] = e] /\ synced' = [synced EXCEPT ![o] = c]
    BY <1>6, <1>11
  <2>2. Grows
    BY <1>2, <1>3, <1>8, <2>1, StoreReplaced
  <2> QED
    BY <1>2, <1>7, <1>11, <2>1, <2>2
<1>12. CASE reach = "durable"
  <2>1. disk' = [disk EXCEPT ![o] = e] /\ synced' = [synced EXCEPT ![o] = e]
    BY <1>6, <1>12
  <2>2. Grows
    BY <1>2, <1>8, <2>1, StoreReplaced
  <2> QED
    BY <1>2, <1>7, <1>12, <2>1, <2>2
<1> QED
  BY <1>9, <1>10, <1>11, <1>12 DEF Reach

\* An emitted event spends a sequence, whether or not it is durable.
LEMMA EmitGrows ==
  ASSUME TypeOK, \A x \in Op : StoreOK(x), NEW o \in Op, exists(o),
         NEW reach \in Reach \ {"counter"},
         disk' = IF reach = "none" THEN disk ELSE [disk EXCEPT ![o].counter = _next_sequence(o)],
         synced' = IF reach = "durable" THEN [synced EXCEPT ![o] = disk'[o]] ELSE synced,
         UNCHANGED linked
  PROVE  /\ Grows
         /\ _next_sequence(o) \in Nat /\ _next_sequence(o) > disk[o].counter
         /\ reach = "durable" => synced'[o].counter = _next_sequence(o)
<1> DEFINE c == [disk[o] EXCEPT !.counter = _next_sequence(o)]
<1>1. StoreOK(o) /\ disk[o] \in Entry
  BY SucceedsItself
<1>2. _next_sequence(o) \in Nat /\ _next_sequence(o) > disk[o].counter
  BY <1>1, EntryFields DEF _next_sequence
<1>3. /\ c \in Entry /\ c.counter = _next_sequence(o)
      /\ Succeeds(o, c, c) /\ Succeeds(o, c, synced[o])
  BY <1>1, <1>2, Counted
<1>4. disk \in [Op -> Entry \cup {Nothing}] /\ synced \in [Op -> Entry \cup {Nothing}]
  BY DEF TypeOK
<1>5. reach # "none" => disk' = [disk EXCEPT ![o] = c]
  BY <1>4
<1> HIDE DEF c
<1>6. CASE reach = "none"
  BY <1>2, <1>6, StoreSame DEF store
<1>7. CASE reach = "visible"
  <2>1. synced' = [synced EXCEPT ![o] = synced[o]] /\ synced[o] \in Entry
    BY <1>1, <1>4, <1>7, SucceedsItself
  <2> QED
    BY <1>2, <1>3, <1>5, <1>7, <2>1, StoreReplaced
<1>8. CASE reach = "durable"
  <2>1. synced' = [synced EXCEPT ![o] = c]
    BY <1>4, <1>5, <1>8
  <2>2. Grows
    BY <1>3, <1>5, <1>8, <2>1, StoreReplaced
  <2> QED
    BY <1>2, <1>3, <1>4, <1>8, <2>1, <2>2
<1> QED
  BY <1>6, <1>7, <1>8 DEF Reach

\* A begin creates an operation that did not exist.
LEMMA BeginGrows ==
  ASSUME TypeOK, \A x \in Op : StoreOK(x), NEW o \in Op, ~exists(o),
         NEW kind \in {"transaction", "install", "legacy"},
         disk' = [disk EXCEPT ![o] = [journal |-> Journal(kind), counter |-> 1]],
         synced' = [synced EXCEPT ![o] = [journal |-> Journal(kind), counter |-> 1]],
         linked' = linked \/ linked' = linked \cup {o} \cup {x \in Op : exists(x)}
  PROVE  /\ Grows
         /\ synced'[o].counter = 1 /\ synced'[o].journal.generation = 1
         /\ \A x \in Op \ {o} : disk'[x] = disk[x]
<1> DEFINE e == [journal |-> Journal(kind), counter |-> 1]
<1>1. /\ e \in Entry /\ e.counter = 1 /\ e.journal.generation = 1
      /\ e.journal.kind = kind /\ e.journal.state = Initial(kind) /\ e.journal.outcome = None
      /\ e.journal.attempts = 0
  BY DEF Entry, Journal, Initial, State, PreMutation, Progress
<1>2. Sound(e.journal)
  <2>1. MaxAttempts \in Nat /\ None \notin {"committed", "recovered", "interrupted"}
    BY LifecycleAssumption
  <2> QED
    BY <1>1, <2>1 DEF Sound, Initial, PreMutation
<1>3. disk \in [Op -> Entry \cup {Nothing}] /\ synced \in [Op -> Entry \cup {Nothing}]
  BY DEF TypeOK
<1>4. e # Nothing
  BY <1>1, EntryFields
<1> HIDE DEF e
<1>5. disk' = [disk EXCEPT ![o] = e] /\ synced' = [synced EXCEPT ![o] = e]
  BY DEF e
<1>6. /\ disk'[o] = e /\ synced'[o] = e
      /\ \A x \in Op \ {o} : disk'[x] = disk[x] /\ synced'[x] = synced[x]
  BY <1>3, <1>5
<1>7. StoreType' /\ linked \subseteq linked'
  <2>1. linked' \subseteq Op /\ linked \subseteq linked'
    BY DEF TypeOK
  <2>2. disk' \in [Op -> Entry \cup {Nothing}] /\ synced' \in [Op -> Entry \cup {Nothing}]
    BY <1>1, <1>3, <1>5
  <2> QED
    BY <2>1, <2>2 DEF StoreType
<1>8. StoreOK(o)'
  BY <1>1, <1>2, <1>4, <1>6 DEF StoreOK, exists
<1>9. \A x \in Op \ {o} : StoreOK(x)'
  BY <1>6 DEF StoreOK, exists
<1>10. \A x \in Op : exists(x) => exists(x)' /\ Succeeds(x, disk'[x], synced'[x])
  BY <1>6, SucceedsItself DEF exists
<1> QED
  BY <1>1, <1>6, <1>7, <1>8, <1>9, <1>10 DEF Grows

----------------------------------------------------------------------------
(* What the shells know stays true while the store grows.                     *)

\* The numbers of an operation that exists.
LEMMA Numbers ==
  ASSUME StoreType, NEW o \in Op, StoreOK(o), exists(o)
  PROVE  /\ disk[o].journal.generation \in Nat \ {0} /\ synced[o].journal.generation \in Nat \ {0}
         /\ disk[o].counter \in Nat /\ synced[o].counter \in Nat
<1>1. disk[o] \in Entry /\ synced[o] \in Entry
  BY DEF StoreType, exists, StoreOK
<1> QED
  BY <1>1, EntryFields

\* A generation that survives power loss keeps surviving it.
LEMMA SurvivesStill ==
  ASSUME StoreType, \A x \in Op : StoreOK(x), Grows, NEW o \in Op, NEW g \in Nat, Survives(o, g)
  PROVE  Survives(o, g)'
<1>1. exists(o) /\ o \in linked'
  BY DEF Survives, StoreOK, Grows
<1>2. exists(o)' /\ Succeeds(o, disk'[o], synced'[o]) /\ StoreOK(o)' /\ StoreType'
  BY <1>1 DEF Grows
<1>3. synced[o].journal.generation \in Nat /\ synced'[o].journal.generation \in Nat
  <2>1. synced[o] \in Entry /\ synced'[o] \in Entry
    BY <1>1, <1>2 DEF StoreType, exists, StoreOK
  <2> QED
    BY <2>1, EntryFields
<1> QED
  BY <1>1, <1>2, <1>3 DEF Survives, Succeeds

\* An operation stays past its first change.
LEMMA Past1stStill ==
  ASSUME \A x \in Op : StoreOK(x), Grows, NEW o \in Op, Past1st(o)
  PROVE  Past1st(o)'
<1>1. exists(o) /\ o \in linked'
  BY DEF Past1st, StoreOK, Grows
<1>2. Succeeds(o, disk'[o], synced'[o])
  BY <1>1 DEF Grows
<1> QED
  BY <1>1, <1>2 DEF Past1st, Succeeds, Mutated

\* A told event stays durable.
LEMMA EventStill ==
  ASSUME TypeOK, \A x \in Op : StoreOK(x), Grows, NEW o \in Op, EventOK(o), events'[o] = events[o]
  PROVE  EventOK(o)'
<1>1. events[o].generation \in Nat /\ events[o].sequence \in Nat /\ StoreType
  BY DEF TypeOK, StoreType
<1>2. ASSUME events[o].generation > 0
      PROVE  o \in linked' /\ synced'[o].journal.generation >= events[o].generation
  <2>1. PICK g \in Nat : g = events[o].generation
    BY <1>1
  <2>2. Survives(o, g)'
    BY <1>1, <1>2, <2>1, SurvivesStill DEF EventOK
  <2> QED
    BY <2>1, <2>2 DEF Survives
<1>3. ASSUME events[o].sequence > 0 PROVE o \in linked' /\ events[o].sequence <= synced'[o].counter
  <2>1. o \in linked /\ events[o].sequence <= synced[o].counter /\ exists(o)
    BY <1>3 DEF EventOK, StoreOK
  <2>2. Succeeds(o, disk'[o], synced'[o]) /\ o \in linked' /\ exists(o)' /\ StoreOK(o)' /\ StoreType'
    BY <2>1 DEF Grows
  <2>3. synced[o].counter \in Nat /\ synced'[o].counter \in Nat
    <3>1. synced[o] \in Entry /\ synced'[o] \in Entry
      BY <1>1, <2>1, <2>2 DEF StoreType, exists, StoreOK
    <3> QED
      BY <3>1, EntryFields
  <2> QED
    BY <1>1, <2>1, <2>2, <2>3 DEF Succeeds
<1> QED
  BY <1>2, <1>3 DEF EventOK, Survives

\* Shell q is where it was.
Rests(q) ==
  /\ env'[q] = env[q] /\ gen'[q] = gen[q] /\ pc'[q] = pc[q] /\ req'[q] = req[q]
  /\ q \in alive' <=> q \in alive
  /\ q \in fd' <=> q \in fd
  /\ q \in unsure' <=> q \in unsure
  /\ q \in mark' <=> q \in mark
  /\ q \in landed' <=> q \in landed

\* A shell that takes no step knows what it knew.
LEMMA RestsKeeps ==
  ASSUME IInv, Grows, NEW q \in Shell, Rests(q), pc[q] = "written" => UNCHANGED events
  PROVE  ShellOK(q)' /\ RequestOK(q)'
<1>1. /\ TypeOK /\ StoreType /\ (\A x \in Op : StoreOK(x)) /\ ShellOK(q)
      /\ env[q] \in Op \cup {None} /\ gen[q] \in Nat /\ RequestOK(q) /\ linked \subseteq linked'
  BY DEF IInv, TypeOK, JournalInv, StoreType, Grows
<1>2. RestOK(q)'
  BY <1>1 DEF ShellOK, RestOK, Rests
<1>3. QueuedOK(q)' /\ BeginOK(q)'
  BY <1>1 DEF ShellOK, QueuedOK, BeginOK, Rests
<1>4. RequestOK(q)'
  BY <1>1 DEF RequestOK, Rests
<1>5. ASSUME pc[q] \in {"written", "answered"} PROVE WrittenOK(q)'
  <2>1. PICK o \in Op : o = req[q].operation
    BY <1>1, <1>5 DEF RequestOK
  <2>2. PICK g \in Nat : g = req[q].event.generation
    BY <1>1, <1>5 DEF RequestOK
  <2>3. Survives(o, g)'
    BY <1>1, <1>5, <2>1, <2>2, SurvivesStill DEF ShellOK, WrittenOK
  <2>4. req[q].type = "checkpoint" =>
            /\ o = env[q] /\ g = req[q].ask.expected + 1
            /\ req[q].ask.record.state = "applying" => Past1st(o)'
    BY <1>1, <1>5, <2>1, <2>2, Past1stStill DEF ShellOK, WrittenOK
  <2>5. pc[q] = "written" => /\ events'[o].sequence < req[q].event.sequence
                             /\ req[q].event.sequence <= synced'[o].counter
    <3> SUFFICES ASSUME pc[q] = "written" PROVE req[q].event.sequence <= synced'[o].counter
      BY <1>1, <2>1 DEF ShellOK, WrittenOK
    <3>1. /\ req[q].event.sequence <= synced[o].counter /\ o \in linked /\ exists(o)
          /\ req[q].event.sequence \in Nat
      BY <1>1, <2>1 DEF ShellOK, WrittenOK, Survives, StoreOK, RequestOK
    <3>2. Succeeds(o, disk'[o], synced'[o]) /\ exists(o)' /\ StoreOK(o)' /\ StoreType'
      BY <3>1 DEF Grows
    <3>3. synced[o] \in Entry /\ synced'[o] \in Entry
      BY <1>1, <3>1, <3>2 DEF StoreType, exists, StoreOK
    <3>4. synced[o].counter \in Nat /\ synced'[o].counter \in Nat
      BY <3>3, EntryFields
    <3> QED
      BY <3>1, <3>2, <3>4 DEF Succeeds
  <2> QED
    BY <2>1, <2>2, <2>3, <2>4, <2>5 DEF WrittenOK, Rests, Survives, Past1st
<1>6. ASSUME pc[q] \notin {"written", "answered"} PROVE WrittenOK(q)'
  BY <1>6 DEF WrittenOK, Rests
<1>7. KnowsOK(q)'
  <2>1. CASE env[q] = None
    BY <1>1, <2>1 DEF ShellOK, KnowsOK, Rests
  <2>2. CASE env[q] # None
    <3>1. PICK o \in Op : o = env[q]
      BY <1>1, <2>2
    <3>2. q \in mark => Past1st(o)'
      BY <1>1, <3>1, Past1stStill DEF ShellOK, KnowsOK
    <3>3. PICK g \in Nat : g = gen[q]
      BY <1>1
    <3>4. q \in alive \ unsure => Survives(o, g)'
      BY <1>1, <2>2, <3>1, <3>3, SurvivesStill DEF ShellOK, KnowsOK
    <3>5. q \in landed => q \in unsure /\ disk'[o].journal.generation > g
      <4> SUFFICES ASSUME q \in landed PROVE q \in unsure /\ disk'[o].journal.generation > g
        OBVIOUS
      <4>1. q \in unsure /\ disk[o].journal.generation > g /\ o \in linked /\ exists(o)
        BY <1>1, <2>2, <3>1, <3>3 DEF ShellOK, KnowsOK, RestOK, StoreOK
      <4>2. Succeeds(o, disk'[o], synced'[o]) /\ exists(o)' /\ StoreType'
        BY <4>1 DEF Grows
      <4>3. disk[o] \in Entry /\ disk'[o] \in Entry
        BY <1>1, <4>1, <4>2 DEF StoreType, exists
      <4>4. disk[o].journal.generation \in Nat /\ disk'[o].journal.generation \in Nat
        BY <4>3, EntryFields
      <4> QED
        BY <3>3, <4>1, <4>2, <4>4 DEF Succeeds
    <3> QED
      BY <2>2, <3>1, <3>2, <3>3, <3>4, <3>5 DEF KnowsOK, Rests, Survives, Past1st
  <2> QED
    BY <2>1, <2>2
<1> QED
  BY <1>2, <1>3, <1>4, <1>5, <1>6, <1>7 DEF ShellOK

----------------------------------------------------------------------------
(* One shell moves at a time.                                                 *)

\* The types of what is not in the store.
Types ==
  /\ changed \subseteq Op
  /\ alive \subseteq fd /\ fd \subseteq Shell
  /\ unsure \subseteq alive /\ mark \subseteq alive /\ landed \subseteq alive
  /\ owner \in [pid : Shell \cup {None}, operation : Op \cup {None}]
  /\ writer \in Shell \cup {None}
  /\ env \in [Shell -> Op \cup {None}]
  /\ gen \in [Shell -> Nat]
  /\ pc \in [Shell -> {"idle", "queued", "locked", "written", "answered"}]
  /\ DOMAIN req = Shell
  /\ events \in [Op -> [sequence : Nat, generation : Nat]]

\* The invariant, taken apart.
LEMMA Parts ==
  ASSUME IInv
  PROVE  /\ TypeOK /\ Types /\ StoreType /\ WriterOK
         /\ \A o \in Op : StoreOK(o) /\ EventOK(o)
         /\ \A o \in changed : Past1st(o)
         /\ \A p \in Shell : ShellOK(p) /\ RequestOK(p)
BY DEF IInv, TypeOK, Types, StoreType, JournalInv

\* A step of shell p keeps the invariant when it leaves the others where they
\* are, the store grows, and p itself and what p said are in order.
LEMMA StepKeeps ==
  ASSUME IInv, Grows, NEW p \in Shell, Types', WriterOK',
         \A q \in Shell \ {p} : Rests(q) /\ (pc[q] = "written" => UNCHANGED events),
         \A o \in Op : events'[o] = events[o] \/ EventOK(o)',
         \A o \in changed' : o \in changed \/ Past1st(o)',
         ShellOK(p)', RequestOK(p)'
  PROVE  IInv'
<1>1. \A q \in Shell : ShellOK(q)' /\ RequestOK(q)'
  BY RestsKeeps
<1>2. \A o \in Op : EventOK(o)'
  BY Parts, EventStill
<1>3. \A o \in changed' : Past1st(o)'
  BY Parts, Past1stStill DEF Types
<1>4. TypeOK'
  BY <1>1 DEF Types, TypeOK, Grows, StoreType
<1>5. JournalInv'
  BY <1>1, <1>2, <1>3 DEF JournalInv, Grows
<1> QED
  BY <1>4, <1>5 DEF IInv

\* A step that leaves the store, what was said and what was changed alone.
LEMMA QuietStep ==
  ASSUME IInv, UNCHANGED <<store, events, changed>>, NEW p \in Shell, Types', WriterOK',
         \A q \in Shell \ {p} : Rests(q), ShellOK(p)', RequestOK(p)'
  PROVE  IInv'
<1>1. Grows
  BY Parts, StoreSame
<1> QED
  BY <1>1, StepKeeps

\* Facts about the store carry over when it is unchanged.
LEMMA SameStore ==
  ASSUME UNCHANGED store, NEW o
  PROVE  /\ Past1st(o)' <=> Past1st(o)
         /\ \A g : Survives(o, g)' <=> Survives(o, g)
BY DEF store, Past1st, Survives, Mutated

----------------------------------------------------------------------------
(* The shells' steps.                                                         *)

\* A shell that takes the free lock knows nothing yet.
LEMMA AcquireKeeps ==
  ASSUME IInv, NEW p \in Shell, Acquire(p)
  PROVE  IInv'
<1> USE DEF Acquire, view, request
<1>1. Types /\ WriterOK /\ ShellOK(p) /\ RequestOK(p)
  BY Parts
<1>2. fd = {} /\ alive = {} /\ p \notin landed /\ p \notin mark /\ p \notin unsure
  BY <1>1 DEF Held, Types
<1>3. Types'
  BY <1>1, <1>2, LifecycleAssumption DEF Types
<1>4. WriterOK'
  BY <1>1 DEF WriterOK
<1>5. \A q \in Shell \ {p} : Rests(q)
  BY <1>2 DEF Rests
<1>6. env'[p] = None /\ pc'[p] = "idle"
  BY <1>1, <1>2 DEF ShellOK, RestOK
<1>7. ShellOK(p)' /\ RequestOK(p)'
  BY <1>2, <1>6 DEF ShellOK, RestOK, QueuedOK, BeginOK, WrittenOK, KnowsOK, RequestOK
<1> QED
  BY <1>3, <1>4, <1>5, <1>7, QuietStep

\* A child that joins a bound lock has seen no generation, so it is sure of none.
LEMMA InheritKeeps ==
  ASSUME IInv, NEW p \in Shell, NEW c \in Shell \ {p}, Inherit(p, c)
  PROVE  IInv'
<1> USE DEF Inherit, view, request
<1>1. Types /\ WriterOK /\ ShellOK(p) /\ ShellOK(c) /\ RequestOK(c)
  BY Parts
<1>2. c \notin alive /\ c \notin landed /\ c \notin mark /\ c \notin unsure
  BY <1>1 DEF Types
<1>3. Types'
  BY <1>1 DEF Types
<1>4. WriterOK'
  BY <1>1 DEF WriterOK
<1>5. \A q \in Shell \ {c} : Rests(q)
  BY <1>1 DEF Rests, Types
<1>6. env'[c] = env[p] /\ pc'[c] = "idle" /\ gen'[c] = 0
  BY <1>1, <1>2 DEF ShellOK, RestOK, Types
<1>7. ASSUME env[p] # None PROVE env[p] \in linked' /\ synced'[env[p]].journal.generation >= 0
  <2>1. env[p] \in Op /\ env[p] \in linked /\ exists(env[p])
    BY <1>1, <1>7, Parts DEF ShellOK, RestOK, Types, StoreOK
  <2>2. synced[env[p]].journal.generation \in Nat
    BY <2>1, Parts, Numbers
  <2> QED
    BY <2>1, <2>2 DEF store
<1>8. ShellOK(c)' /\ RequestOK(c)'
  BY <1>2, <1>6, <1>7 DEF ShellOK, RestOK, QueuedOK, BeginOK, WrittenOK, KnowsOK, RequestOK, Survives
<1> QED
  BY <1>3, <1>4, <1>5, <1>8, QuietStep

\* A shell that ends leaves its utility's request as it was.
LEMMA LeaveKeeps ==
  ASSUME IInv, NEW p \in Shell, Leave(p)
  PROVE  IInv'
<1> USE DEF Leave, Forget
<1>1. Types /\ WriterOK /\ ShellOK(p) /\ RequestOK(p)
  BY Parts
<1>2. Types'
  BY <1>1 DEF Types
<1>3. WriterOK'
  BY <1>1 DEF WriterOK, Types
<1>4. \A q \in Shell \ {p} : Rests(q)
  BY <1>1 DEF Rests, Types
<1>5. p \notin alive' /\ p \notin landed' /\ p \notin mark' /\ p \notin unsure' /\ gen'[p] = 0
  BY <1>1 DEF Types
<1>6. ShellOK(p)' /\ RequestOK(p)'
  <2>1. CASE pc[p] \in {"idle", "answered"}
    <3>1. env'[p] = None /\ pc'[p] = "idle" /\ p \notin fd'
      BY <1>1, <2>1 DEF Types
    <3> QED
      BY <1>5, <3>1 DEF ShellOK, RestOK, QueuedOK, BeginOK, WrittenOK, KnowsOK, RequestOK
  <2>2. CASE pc[p] \notin {"idle", "answered"}
    <3>1. UNCHANGED <<fd, env, pc, req, store, events>>
      BY <2>2
    <3>2. RequestOK(p)' /\ RestOK(p)' /\ QueuedOK(p)' /\ BeginOK(p)'
      BY <1>1, <1>5, <3>1 DEF ShellOK, RestOK, QueuedOK, BeginOK, RequestOK, store
    <3>3. WrittenOK(p)'
      BY <1>1, <3>1 DEF ShellOK, WrittenOK, Survives, Past1st, Mutated, store
    <3>4. KnowsOK(p)'
      BY <1>5 DEF KnowsOK
    <3> QED
      BY <3>2, <3>3, <3>4 DEF ShellOK
  <2> QED
    BY <2>1, <2>2
<1> QED
  BY <1>2, <1>3, <1>4, <1>6, QuietStep

\* A request of begin, list or emit.
LEMMA SendKeeps ==
  ASSUME IInv, NEW p \in Shell, NEW type \in {"begin", "list", "emit"}, NEW ask,
         Ready(p), Send(p, type, ask),
         type = "begin" => ask \in {"transaction", "install", "legacy"},
         type = "emit" => env[p] # None,
         UNCHANGED <<store, lock, view, events, changed, landed>>
  PROVE  IInv'
<1> USE DEF Ready, Send, lock, view
<1>1. Types /\ WriterOK /\ ShellOK(p) /\ RequestOK(p)
  BY Parts
<1>2. Types'
  BY <1>1 DEF Types
<1>3. pc'[p] = "queued" /\ req'[p] = [type |-> type, ask |-> ask] /\ req'[p].type = type /\ req'[p].ask = ask
  BY <1>1 DEF Types
<1>4. WriterOK'
  BY <1>1 DEF WriterOK, Types
<1>5. \A q \in Shell \ {p} : Rests(q)
  BY <1>1 DEF Rests, Types
<1>6. RequestOK(p)' /\ RestOK(p)' /\ QueuedOK(p)' /\ BeginOK(p)' /\ WrittenOK(p)'
  BY <1>1, <1>3 DEF ShellOK, RestOK, QueuedOK, BeginOK, RequestOK, WrittenOK, store
<1>7. KnowsOK(p)'
  BY <1>1 DEF ShellOK, KnowsOK, Survives, Past1st, Mutated, store
<1> QED
  BY <1>2, <1>4, <1>5, <1>6, <1>7, QuietStep DEF ShellOK

\* A checkpoint's request is well formed, and the journal it names shows a
\* shell whose record landed that it moved.
LEMMA InspectOK ==
  ASSUME IInv, NEW p \in Shell, NEW r \in Record, Inspect(p, r)
  PROVE  /\ p \in fd /\ env[p] \in Op /\ p \notin landed /\ UNCHANGED writer
         /\ pc' = [pc EXCEPT ![p] = "queued"]
         /\ disk[env[p]].journal.generation \in Nat
         /\ req' = [req EXCEPT ![p] =
                      [type |-> "checkpoint",
                       ask |-> [record |-> r, expected |-> disk[env[p]].journal.generation]]]
         /\ req'[p].type = "checkpoint"
         /\ req'[p].ask \in [record : Record, expected : Nat]
         /\ req'[p].ask.expected = disk[env[p]].journal.generation
<1>1. Types /\ ShellOK(p)
  BY Parts
<1>2. /\ p \in fd /\ UNCHANGED writer /\ pc' = [pc EXCEPT ![p] = "queued"]
      /\ req' = [req EXCEPT ![p] =
                   [type |-> "checkpoint",
                    ask |-> [record |-> r, expected |-> disk[env[p]].journal.generation]]]
      /\ env[p] # None /\ exists(env[p]) /\ ~Stale(p)
  BY DEF Inspect, Send, require_lock
<1>3. env[p] \in Op
  BY <1>1, <1>2 DEF Types
<1>4. disk[env[p]].journal.generation \in Nat
  BY <1>2, <1>3, Parts, Numbers
<1>5. gen[p] \in Nat
  BY <1>1 DEF Types
<1>6. p \notin landed
  BY <1>1, <1>2, <1>4, <1>5 DEF ShellOK, KnowsOK, Stale
<1>7. req'[p] = [type |-> "checkpoint",
                 ask |-> [record |-> r, expected |-> disk[env[p]].journal.generation]]
  BY <1>1, <1>2 DEF Types
<1>8. \A n \in Nat : [record |-> r, expected |-> n] \in [record : Record, expected : Nat]
  OBVIOUS
<1> QED
  BY <1>2, <1>3, <1>4, <1>6, <1>7, <1>8

\* A checkpoint sent names the generation its shell has just seen.
LEMMA CheckpointKeeps ==
  ASSUME IInv, NEW p \in Shell, NEW r \in Record, cb_lifecycle_checkpoint(p, r)
  PROVE  IInv'
<1> USE DEF cb_lifecycle_checkpoint, Ready, lock
<1>1. Types /\ WriterOK /\ ShellOK(p) /\ RequestOK(p)
  BY Parts
<1>2. /\ p \notin landed /\ UNCHANGED writer /\ pc' = [pc EXCEPT ![p] = "queued"]
      /\ disk[env[p]].journal.generation \in Nat /\ env[p] \in Op
      /\ req'[p].type = "checkpoint" /\ req'[p].ask \in [record : Record, expected : Nat]
      /\ req'[p].ask.expected = disk[env[p]].journal.generation
      /\ DOMAIN req' = DOMAIN req /\ \A q \in Shell \ {p} : req'[q] = req[q]
  BY <1>1, InspectOK DEF Types
<1>3. Types'
  BY <1>1, <1>2 DEF Types
<1>4. WriterOK'
  BY <1>1, <1>2 DEF WriterOK, Types
<1>5. \A q \in Shell \ {p} : Rests(q)
  BY <1>1, <1>2 DEF Rests, Types
<1>6. pc'[p] = "queued" /\ gen'[p] = disk[env[p]].journal.generation /\ p \in unsure'
  BY <1>1, <1>2 DEF Types
<1>7. env[p] # None
  BY <1>2, LifecycleAssumption
<1>8. RequestOK(p)' /\ RestOK(p)' /\ QueuedOK(p)' /\ BeginOK(p)' /\ WrittenOK(p)'
  BY <1>1, <1>2, <1>6, <1>7 DEF ShellOK, RestOK, QueuedOK, BeginOK, RequestOK, WrittenOK, store
<1>9. KnowsOK(p)'
  BY <1>1, <1>2, <1>6, SameStore DEF ShellOK, KnowsOK, Past1st, Mutated, store
<1> QED
  BY <1>3, <1>4, <1>5, <1>8, <1>9, QuietStep DEF ShellOK

\* The trap's checkpoint is the last request of a shell that exits.
LEMMA InterruptedKeeps ==
  ASSUME IInv, NEW p \in Shell, cb_lifecycle_interrupted(p)
  PROVE  IInv'
<1> USE DEF cb_lifecycle_interrupted, Forget
<1>1. Types /\ WriterOK /\ ShellOK(p) /\ RequestOK(p)
  BY Parts
<1>2. PICK r \in Record : Inspect(p, r)
  <2>1. /\ Plain("recovery_required") \in Record
        /\ Closing("interrupted", "interrupted") \in Record
    BY DEF Plain, Closing, Record, State, Outcome, PreMutation, Progress
  <2> QED
    BY <2>1
<1>3. /\ UNCHANGED writer /\ pc' = [pc EXCEPT ![p] = "queued"] /\ env[p] \in Op /\ p \in fd
      /\ req'[p].type = "checkpoint" /\ req'[p].ask \in [record : Record, expected : Nat]
      /\ DOMAIN req' = DOMAIN req /\ \A q \in Shell \ {p} : req'[q] = req[q]
  BY <1>1, <1>2, InspectOK DEF Types
<1>4. Types'
  BY <1>1, <1>3 DEF Types
<1>5. WriterOK'
  BY <1>1, <1>3 DEF WriterOK, Types
<1>6. \A q \in Shell \ {p} : Rests(q)
  BY <1>1, <1>3 DEF Rests, Types
<1>7. pc'[p] = "queued" /\ gen'[p] = 0 /\ p \notin alive' /\ p \notin mark' /\ p \notin landed'
  BY <1>1, <1>3 DEF Types
<1>8. env[p] # None
  BY <1>3, LifecycleAssumption
<1>9. RequestOK(p)' /\ RestOK(p)' /\ QueuedOK(p)' /\ BeginOK(p)' /\ WrittenOK(p)' /\ KnowsOK(p)'
  BY <1>1, <1>3, <1>7, <1>8
     DEF ShellOK, RestOK, QueuedOK, BeginOK, RequestOK, WrittenOK, KnowsOK, store
<1> QED
  BY <1>4, <1>5, <1>6, <1>9, QuietStep DEF ShellOK

\* A legacy record is past its first change from the start, on disk and synced.
LEMMA MarkKeeps ==
  ASSUME IInv, NEW p \in Shell, cb_lifecycle_mark_mutation(p)
  PROVE  IInv'
<1> USE DEF cb_lifecycle_mark_mutation, Ready, lock, request
<1>1. Types /\ WriterOK /\ ShellOK(p) /\ RequestOK(p)
  BY Parts
<1>2. Types'
  BY <1>1 DEF Types
<1>3. WriterOK'
  BY <1>1 DEF WriterOK, Types
<1>4. \A q \in Shell \ {p} : Rests(q)
  BY <1>1 DEF Rests, Types
<1>5. env[p] \in Op /\ env[p] \in linked
  BY <1>1 DEF ShellOK, RestOK, Types
<1>6. Past1st(env[p])
  <2>1. StoreOK(env[p])
    BY <1>5, Parts
  <2> QED
    BY <1>5, <2>1 DEF StoreOK, Sound, Past1st, Mutated
<1>7. RequestOK(p)' /\ RestOK(p)' /\ QueuedOK(p)' /\ BeginOK(p)' /\ WrittenOK(p)'
  BY <1>1 DEF ShellOK, RestOK, QueuedOK, BeginOK, RequestOK, WrittenOK, store
<1>8. KnowsOK(p)'
  BY <1>1, <1>6 DEF ShellOK, KnowsOK, Survives, Past1st, Mutated, store
<1> QED
  BY <1>2, <1>3, <1>4, <1>7, <1>8, QuietStep DEF ShellOK

\* A shell changes the host after its mark, so its record shows the change.
LEMMA ChangeKeeps ==
  ASSUME IInv, NEW p \in Shell, Change(p)
  PROVE  IInv'
<1> USE DEF Change, Ready, lock, request, view
<1>1. Types /\ WriterOK /\ ShellOK(p) /\ RequestOK(p) /\ Grows
  BY Parts, StoreSame
<1>2. Past1st(env[p]) /\ env[p] \in Op
  BY <1>1 DEF ShellOK, KnowsOK, Types
<1>3. Past1st(env[p])'
  BY <1>2 DEF Past1st, Mutated, store
<1>4. Types'
  BY <1>1, <1>2 DEF Types
<1>5. WriterOK'
  BY <1>1 DEF WriterOK
<1>6. \A q \in Shell : Rests(q)
  BY DEF Rests
<1>7. ShellOK(p)' /\ RequestOK(p)'
  BY <1>1, <1>6, RestsKeeps
<1>8. \A o \in changed' : o \in changed \/ Past1st(o)'
  <2> TAKE o \in changed'
  <2>1. CASE o = env[p]
    BY <1>2, <2>1 DEF Past1st, Mutated, store
  <2> QED
    BY <2>1
<1> QED
  BY <1>1, <1>4, <1>5, <1>6, <1>7, <1>8, StepKeeps

\* The acknowledgement of a begin, by the shell the owner record names.
LEMMA BoundKeeps ==
  ASSUME IInv, NEW p \in Shell, cb_lifecycle_read_ack(p), req[p].type = "begin",
         owner' = [owner EXCEPT !.operation = req[p].operation],
         env' = [env EXCEPT ![p] = req[p].operation], gen' = [gen EXCEPT ![p] = 1],
         unsure' = unsure \ {p}, UNCHANGED <<mark, landed>>
  PROVE  IInv'
<1>1. Types /\ WriterOK /\ ShellOK(p) /\ RequestOK(p)
  BY Parts
<1>2. /\ p \in alive /\ pc[p] = "answered" /\ pc' = [pc EXCEPT ![p] = "idle"]
      /\ req' = [req EXCEPT ![p] = NoRequest]
      /\ UNCHANGED <<store, alive, fd, writer, events, changed>>
  BY DEF cb_lifecycle_read_ack
<1>3. PICK o \in Op : o = req[p].operation
  BY <1>1, <1>2 DEF RequestOK
<1>4. o \in linked /\ exists(o)
  BY <1>1, <1>2, <1>3, Parts DEF ShellOK, WrittenOK, Survives, StoreOK
<1>5. synced[o].journal.generation >= 1
  <2>1. synced[o].journal.generation \in Nat \ {0}
    BY <1>4, Parts, Numbers
  <2> QED
    BY <2>1
<1>6. p \notin landed /\ p \notin mark
  BY <1>1, <1>2 DEF ShellOK, KnowsOK, BeginOK
<1>7. Types'
  BY <1>1, <1>2, <1>3 DEF Types
<1>8. WriterOK'
  BY <1>1, <1>2 DEF WriterOK, Types
<1>9. \A q \in Shell \ {p} : Rests(q)
  BY <1>1, <1>2 DEF Rests, Types
<1>10. pc'[p] = "idle" /\ env'[p] = o /\ gen'[p] = 1 /\ p \in alive' /\ p \in fd'
  BY <1>1, <1>2, <1>3 DEF Types
<1>11. ShellOK(p)' /\ RequestOK(p)'
  BY <1>2, <1>4, <1>5, <1>6, <1>10
     DEF ShellOK, RestOK, QueuedOK, BeginOK, RequestOK, WrittenOK, KnowsOK, Survives, store
<1> QED
  BY <1>2, <1>7, <1>8, <1>9, <1>11, QuietStep

\* An acknowledgement that the shell could not use.
LEMMA UnboundKeeps ==
  ASSUME IInv, NEW p \in Shell, cb_lifecycle_read_ack(p), UNCHANGED <<owner, env, view, landed>>
  PROVE  IInv'
<1> USE DEF view
<1>1. Types /\ WriterOK /\ ShellOK(p) /\ RequestOK(p)
  BY Parts
<1>2. /\ p \in alive /\ pc' = [pc EXCEPT ![p] = "idle"] /\ pc[p] = "answered"
      /\ req' = [req EXCEPT ![p] = NoRequest]
      /\ UNCHANGED <<store, alive, fd, writer, events, changed>>
  BY DEF cb_lifecycle_read_ack
<1>3. Types'
  BY <1>1, <1>2 DEF Types
<1>4. WriterOK'
  BY <1>1, <1>2 DEF WriterOK, Types
<1>5. \A q \in Shell \ {p} : Rests(q)
  BY <1>1, <1>2 DEF Rests, Types
<1>6. pc'[p] = "idle" /\ p \in fd' /\ p \in alive'
  BY <1>1, <1>2 DEF Types
<1>7. KnowsOK(p)'
  BY <1>1, <1>2 DEF ShellOK, KnowsOK, Survives, Past1st, Mutated, store
<1>8. ShellOK(p)' /\ RequestOK(p)'
  BY <1>1, <1>2, <1>6, <1>7
     DEF ShellOK, RestOK, QueuedOK, BeginOK, RequestOK, WrittenOK, store
<1> QED
  BY <1>2, <1>3, <1>4, <1>5, <1>8, QuietStep

\* The acknowledgement of a checkpoint.
LEMMA AckedKeeps ==
  ASSUME IInv, NEW p \in Shell, cb_lifecycle_read_ack(p), req[p].type # "begin"
  PROVE  IInv'
<1>1. Types /\ WriterOK /\ ShellOK(p) /\ RequestOK(p)
  BY Parts
<1>2. /\ p \in alive /\ pc' = [pc EXCEPT ![p] = "idle"] /\ pc[p] = "answered"
      /\ req' = [req EXCEPT ![p] = NoRequest]
      /\ gen' = [gen EXCEPT ![p] = req[p].ask.expected + 1]
      /\ unsure' = unsure \ {p} /\ landed' = landed \ {p}
      /\ mark' = IF req[p].ask.record.state = "applying" THEN mark \cup {p} ELSE mark
      /\ UNCHANGED <<store, owner, alive, fd, env, writer, events, changed>>
  BY DEF cb_lifecycle_read_ack
<1>3. req[p].type = "checkpoint" /\ req[p].ask.expected \in Nat
  BY <1>1, <1>2 DEF RequestOK
<1>4. PICK g \in Nat : g = req[p].ask.expected + 1
  BY <1>3
<1>5. /\ Survives(env[p], g)
      /\ req[p].ask.record.state = "applying" => Past1st(env[p])
  BY <1>1, <1>2, <1>3, <1>4 DEF ShellOK, WrittenOK
<1>6. env[p] # None
  <2>1. req[p].operation \in Op /\ req[p].operation = env[p]
    BY <1>1, <1>2, <1>3 DEF ShellOK, WrittenOK, RequestOK
  <2> QED
    BY <2>1, LifecycleAssumption
<1>7. Types'
  BY <1>1, <1>2, <1>4 DEF Types
<1>8. WriterOK'
  BY <1>1, <1>2 DEF WriterOK, Types
<1>9. \A q \in Shell \ {p} : Rests(q)
  BY <1>1, <1>2 DEF Rests, Types
<1>10. pc'[p] = "idle" /\ p \in fd' /\ p \in alive' /\ p \notin landed' /\ gen'[p] = g
  BY <1>1, <1>2, <1>4 DEF Types
<1>11. KnowsOK(p)'
  BY <1>1, <1>2, <1>5, <1>6, <1>10 DEF ShellOK, KnowsOK, Survives, Past1st, Mutated, store
<1>12. ShellOK(p)' /\ RequestOK(p)'
  BY <1>1, <1>2, <1>10, <1>11
     DEF ShellOK, RestOK, QueuedOK, BeginOK, RequestOK, WrittenOK, store
<1> QED
  BY <1>2, <1>7, <1>8, <1>9, <1>12, QuietStep

\* What an acknowledgement tells a shell is durable.
LEMMA ReadAckKeeps ==
  ASSUME IInv, NEW p \in Shell, cb_lifecycle_read_ack(p)
  PROVE  IInv'
<1>1. CASE req[p].type = "begin"
  <2>1. \/ /\ owner' = [owner EXCEPT !.operation = req[p].operation]
           /\ env' = [env EXCEPT ![p] = req[p].operation]
           /\ gen' = [gen EXCEPT ![p] = 1]
           /\ unsure' = unsure \ {p}
           /\ UNCHANGED <<mark, landed>>
        \/ UNCHANGED <<owner, env, view, landed>>
    BY <1>1 DEF cb_lifecycle_read_ack
  <2> QED
    BY <1>1, <2>1, BoundKeeps, UnboundKeeps
<1>2. CASE req[p].type # "begin"
  BY <1>2, AckedKeeps
<1> QED
  BY <1>1, <1>2

----------------------------------------------------------------------------
(* The utility's steps.                                                       *)

\* Shell p's record is in the journal, and p can tell.
Landing(p) ==
  /\ landed' = landed \cup ({p} \cap alive)
  /\ p \in alive => p \in unsure /\ env[p] # None /\ disk'[env[p]].journal.generation > gen[p]

\* What p knows carries over to a store that has grown, also with a record of
\* its own that landed.
LEMMA KnowsStill ==
  ASSUME IInv, Grows, NEW p \in Shell, p \in alive, UNCHANGED <<alive, env, view>>,
         UNCHANGED landed \/ Landing(p)
  PROVE  KnowsOK(p)'
<1> USE DEF view
<1>1. Types /\ StoreType /\ ShellOK(p) /\ (\A x \in Op : StoreOK(x))
  BY Parts
<1>2. CASE env[p] = None
  BY <1>1, <1>2 DEF ShellOK, KnowsOK, Landing
<1>3. CASE env[p] # None
  <2>1. PICK o \in Op : o = env[p]
    BY <1>1, <1>3 DEF Types
  <2>2. PICK g \in Nat : g = gen[p]
    BY <1>1 DEF Types
  <2>3. p \in mark => Past1st(o)'
    BY <1>1, <2>1, Past1stStill DEF ShellOK, KnowsOK
  <2>4. p \in alive \ unsure => Survives(o, g)'
    BY <1>1, <1>3, <2>1, <2>2, SurvivesStill DEF ShellOK, KnowsOK
  <2>5. ASSUME p \in landed PROVE p \in unsure /\ disk'[o].journal.generation > g
    <3>1. p \in unsure /\ disk[o].journal.generation > g /\ exists(o)
      BY <1>1, <1>3, <2>1, <2>2, <2>5 DEF ShellOK, KnowsOK, RestOK, StoreOK
    <3>2. Succeeds(o, disk'[o], synced'[o]) /\ exists(o)' /\ StoreType'
      BY <3>1 DEF Grows
    <3>3. disk[o] \in Entry /\ disk'[o] \in Entry
      BY <1>1, <3>1, <3>2 DEF StoreType, exists
    <3>4. disk[o].journal.generation \in Nat /\ disk'[o].journal.generation \in Nat
      BY <3>3, EntryFields
    <3> QED
      BY <2>2, <3>1, <3>2, <3>4 DEF Succeeds
  <2>6. p \in landed' => p \in unsure /\ disk'[o].journal.generation > g
    BY <2>1, <2>2, <2>5 DEF Landing
  <2> QED
    BY <1>3, <2>1, <2>2, <2>3, <2>4, <2>6 DEF KnowsOK, Survives, Past1st
<1> QED
  BY <1>2, <1>3

\* A request that ends without an acknowledgement.
LEMMA AnswerKeeps ==
  ASSUME IInv, Grows, NEW p \in Shell, pc[p] # "idle", pc[p] # "answered", Answer(p, FALSE),
         UNCHANGED <<owner, alive, view, changed>>, UNCHANGED landed \/ Landing(p),
         UNCHANGED events \/ (writer = p /\ events' \in [Op -> [sequence : Nat, generation : Nat]]
                                /\ \A o \in Op : events'[o] = events[o] \/ EventOK(o)')
  PROVE  IInv'
<1> USE DEF Answer, view
<1>1. Types /\ WriterOK /\ ShellOK(p) /\ RequestOK(p)
  BY Parts
<1>2. events' \in [Op -> [sequence : Nat, generation : Nat]] /\ \A o \in Op : events'[o] = events[o] \/ EventOK(o)'
  BY <1>1 DEF Types
<1>3. Types'
  <2>1. landed' \subseteq alive
    BY <1>1 DEF Types, Landing
  <2> QED
    BY <1>1, <1>2, <2>1 DEF Types
<1>4. pc'[p] = "idle" /\ \A q \in Shell \ {p} : pc'[q] = pc[q]
  BY <1>1 DEF Types
<1>5. WriterOK'
  BY <1>1, <1>4, LifecycleAssumption DEF WriterOK, Types
<1>6. \A q \in Shell \ {p} : Rests(q)
  BY <1>1, <1>4 DEF Rests, Types, Landing
<1>7. \A q \in Shell \ {p} : pc[q] = "written" => UNCHANGED events
  BY <1>1 DEF WriterOK
<1>8. ShellOK(p)' /\ RequestOK(p)'
  <2>1. CASE p \in alive
    <3>1. KnowsOK(p)'
      BY <2>1, KnowsStill
    <3>2. linked \subseteq linked' /\ UNCHANGED <<fd, env>> /\ p \in fd
      BY <1>1, <2>1 DEF Grows, Types
    <3> QED
      BY <1>1, <1>4, <2>1, <3>1, <3>2
         DEF ShellOK, RestOK, QueuedOK, BeginOK, RequestOK, WrittenOK
  <2>2. CASE p \notin alive
    <3>1. env'[p] = None /\ p \notin fd' /\ p \notin alive' /\ p \notin landed' /\ p \notin mark' /\ gen'[p] = 0
      BY <1>1, <2>2 DEF Types, ShellOK, RestOK, Landing
    <3> QED
      BY <1>4, <3>1 DEF ShellOK, RestOK, QueuedOK, BeginOK, RequestOK, WrittenOK, KnowsOK
  <2> QED
    BY <2>1, <2>2
<1>9. \A o \in changed' : o \in changed
  OBVIOUS
<1> QED
  BY <1>2, <1>3, <1>5, <1>6, <1>7, <1>8, <1>9, StepKeeps

\* A refused request leaves the store alone.
LEMMA RefuseKeeps ==
  ASSUME IInv, NEW p \in Shell, pc[p] \in {"queued", "locked"}, Refuse(p)
  PROVE  IInv'
<1>1. Grows
  BY Parts, StoreSame DEF Refuse
<1> QED
  BY <1>1, AnswerKeeps DEF Refuse

\* A durable write whose event is still to go out.
LEMMA WroteKeeps ==
  ASSUME IInv, Grows, NEW p \in Shell, pc[p] \in {"queued", "locked"},
         pc[p] = "queued" => writer = None, req[p].type # "list", req[p].type = "begin" => env[p] = None,
         NEW o \in Op, NEW n \in Nat, NEW g \in Nat, Wrote(p, o, "durable", n, g), Survives(o, g)',
         req[p].type = "checkpoint" =>
             o = env[p] /\ g = req[p].ask.expected + 1
               /\ (req[p].ask.record.state = "applying" => Past1st(o)'),
         events[o].sequence < n, n <= synced'[o].counter,
         UNCHANGED <<owner, alive, view, events, changed>>, UNCHANGED landed \/ Landing(p)
  PROVE  IInv'
<1> USE DEF view
<1>1. Types /\ WriterOK /\ ShellOK(p) /\ RequestOK(p)
  BY Parts
<1>2. /\ pc' = [pc EXCEPT ![p] = "written"] /\ writer' = p
      /\ req' = [req EXCEPT ![p] = [type |-> req[p].type, ask |-> req[p].ask, operation |-> o,
                                    event |-> [sequence |-> n, generation |-> g]]]
      /\ UNCHANGED <<fd, env>>
  BY DEF Wrote
<1>3. Types'
  <2>1. landed' \subseteq alive
    BY <1>1 DEF Types, Landing
  <2> QED
    BY <1>1, <1>2, <2>1 DEF Types
<1>4. pc'[p] = "written" /\ \A q \in Shell \ {p} : pc'[q] = pc[q] /\ req'[q] = req[q]
  BY <1>1, <1>2 DEF Types
<1>5. \A q \in Shell \ {p} : pc[q] \notin {"locked", "written"}
  BY <1>1, LifecycleAssumption DEF WriterOK
<1>6. WriterOK'
  BY <1>2, <1>4, <1>5 DEF WriterOK
<1>7. \A q \in Shell \ {p} : Rests(q)
  BY <1>1, <1>2, <1>4 DEF Rests, Types, Landing
<1>8. req'[p] = [type |-> req[p].type, ask |-> req[p].ask, operation |-> o,
                 event |-> [sequence |-> n, generation |-> g]]
  BY <1>1, <1>2 DEF Types
<1>9. /\ req'[p].type = req[p].type /\ req'[p].ask = req[p].ask /\ req'[p].operation = o
      /\ req'[p].event = [sequence |-> n, generation |-> g]
      /\ req'[p].event.sequence = n /\ req'[p].event.generation = g
  BY <1>8
<1>10. RequestOK(p)'
  BY <1>1, <1>4, <1>9 DEF RequestOK
<1>11. RestOK(p)' /\ QueuedOK(p)' /\ BeginOK(p)'
  BY <1>1, <1>2, <1>4, <1>9 DEF ShellOK, RestOK, QueuedOK, BeginOK, Grows
<1>12. WrittenOK(p)'
  BY <1>2, <1>4, <1>9 DEF WrittenOK, Survives, Past1st
<1>13. KnowsOK(p)'
  <2>1. CASE p \in alive
    BY <1>2, <2>1, KnowsStill
  <2>2. CASE p \notin alive
    BY <1>1, <2>2 DEF KnowsOK, Types, Landing
  <2> QED
    BY <2>1, <2>2
<1> QED
  BY <1>3, <1>6, <1>7, <1>10, <1>11, <1>12, <1>13, StepKeeps DEF ShellOK

\* A told sequence is below the counter, so the next one is new.
LEMMA NextIsNew ==
  ASSUME IInv, NEW o \in Op, exists(o)
  PROVE  /\ _next_sequence(o) \in Nat /\ events[o].sequence \in Nat
         /\ events[o].sequence < _next_sequence(o)
<1>1. StoreOK(o) /\ EventOK(o) /\ TypeOK /\ StoreType
  BY Parts
<1>2. disk[o] \in Entry /\ synced[o] \in Entry /\ events[o].sequence \in Nat
  BY <1>1, SucceedsItself DEF TypeOK
<1>3. /\ disk[o].counter \in Nat /\ synced[o].counter \in Nat /\ disk[o].journal.sequence \in Nat
      /\ synced[o].counter <= disk[o].counter
  BY <1>1, <1>2, EntryFields DEF StoreOK
<1>4. _next_sequence(o) \in Nat /\ _next_sequence(o) > disk[o].counter
  BY <1>3 DEF _next_sequence
<1> QED
  BY <1>1, <1>2, <1>3, <1>4 DEF EventOK

\* A checkpoint, however far its writes get.
LEMMA HandleCheckpointKeeps ==
  ASSUME IInv, NEW p \in Shell, handle_checkpoint(p)
  PROVE  IInv'
<1>1. TypeOK /\ Types /\ ShellOK(p) /\ RequestOK(p) /\ \A x \in Op : StoreOK(x)
  BY Parts
<1>2. /\ pc[p] = "queued" /\ writer = None /\ req[p].type = "checkpoint" /\ env[p] # None /\ p \notin landed
      /\ p \in alive => p \in unsure /\ gen[p] = req[p].ask.expected
  BY <1>1 DEF handle_checkpoint, ShellOK, QueuedOK
<1>3. req[p].ask \in [record : Record, expected : Nat]
  BY <1>1, <1>2 DEF RequestOK
<1>4. PICK o \in Op : o = env[p]
  BY <1>1, <1>2 DEF Types
<1>5. PICK r \in Record : r = req[p].ask.record
  BY <1>3
<1>6. CASE Refuse(p)
  BY <1>2, <1>6, RefuseKeeps
<1>7. CASE ~Refuse(p)
  <2>1. /\ exists(o) /\ req[p].ask.expected = disk[o].journal.generation
        /\ _journal_rules(disk[o].journal, r)
    BY <1>4, <1>5, <1>7 DEF handle_checkpoint
  <2>2. PICK reach \in Reach :
          /\ Replace(o, [journal |-> _next_journal(o, r), counter |-> _next_sequence(o)], reach)
          /\ Wrote(p, o, reach, _next_sequence(o), disk[o].journal.generation + 1)
          /\ landed' = IF reach \in {"visible", "durable"} THEN landed \cup ({p} \cap alive) ELSE landed
          /\ UNCHANGED <<linked, owner, alive, view, events, changed>>
    BY <1>4, <1>5, <1>7 DEF handle_checkpoint
  <2>3. /\ Grows
        /\ reach \in {"visible", "durable"} =>
              disk'[o].journal.generation = disk[o].journal.generation + 1
        /\ reach = "durable" =>
              /\ synced'[o] = disk'[o] /\ synced'[o].counter = _next_sequence(o)
              /\ synced'[o].journal.state = r.state /\ synced'[o].journal.outcome = r.outcome
    BY <1>1, <2>1, <2>2, ReplaceGrows
  <2>4. PICK g \in Nat : g = disk[o].journal.generation
    BY <1>1, <2>1, Parts, Numbers
  <2>5. reach \in {"visible", "durable"} => Landing(p)
    BY <1>2, <1>4, <2>1, <2>2, <2>3, <2>4 DEF Landing
  <2>6. UNCHANGED landed \/ Landing(p)
    BY <2>2, <2>5
  <2>7. CASE reach # "durable"
    BY <1>2, <2>2, <2>3, <2>6, <2>7, AnswerKeeps DEF Wrote
  <2>8. CASE reach = "durable"
    <3>1. PICK n \in Nat : n = _next_sequence(o) /\ events[o].sequence < n
      BY <2>1, NextIsNew
    <3>2. Wrote(p, o, "durable", n, g + 1) /\ g + 1 \in Nat
      BY <2>2, <2>4, <2>8, <3>1
    <3>3. o \in linked'
      BY <1>1, <1>2, <1>4, <2>2 DEF ShellOK, RestOK
    <3>4. PICK h \in Nat : h = g + 1
      BY <2>4
    <3>5. Survives(o, h)'
      BY <2>3, <2>4, <2>8, <3>3, <3>4 DEF Survives
    <3>6. r.state = "applying" => Past1st(o)'
      <4>1. _checkpoint_rules(r, disk[o].journal.state)
        BY <2>1 DEF _journal_rules
      <4>2. r.state = "applying" => r.outcome # "interrupted"
        BY <4>1 DEF _checkpoint_rules
      <4> QED
        BY <2>3, <2>8, <3>3, <4>2 DEF Past1st, Mutated, PreMutation
    <3>7. n <= synced'[o].counter
      BY <2>3, <2>8, <3>1
    <3>8. /\ req[p].type # "list" /\ req[p].type # "begin"
          /\ h = req[p].ask.expected + 1 /\ Wrote(p, o, "durable", n, h)
      BY <1>2, <2>1, <2>4, <3>2, <3>4
    <3> QED
      BY <1>2, <1>4, <1>5, <2>2, <2>3, <2>6, <3>1, <3>5, <3>6, <3>7, <3>8, WroteKeeps
  <2> QED
    BY <2>7, <2>8
<1> QED
  BY <1>6, <1>7

\* An emitted event, however far its write gets.
LEMMA HandleEmitKeeps ==
  ASSUME IInv, NEW p \in Shell, handle_emit(p)
  PROVE  IInv'
<1>1. TypeOK /\ Types /\ ShellOK(p) /\ RequestOK(p) /\ \A x \in Op : StoreOK(x)
  BY Parts
<1>2. pc[p] = "queued" /\ writer = None /\ req[p].type = "emit" /\ env[p] # None
  BY <1>1 DEF handle_emit, ShellOK, QueuedOK
<1>3. PICK o \in Op : o = env[p]
  BY <1>1, <1>2 DEF Types
<1>4. CASE Refuse(p)
  BY <1>2, <1>4, RefuseKeeps
<1>5. CASE ~Refuse(p)
  <2>1. exists(o)
    BY <1>3, <1>5 DEF handle_emit
  <2>2. PICK reach \in Reach \ {"counter"} :
          /\ disk' = IF reach = "none" THEN disk
                     ELSE [disk EXCEPT ![o].counter = _next_sequence(o)]
          /\ synced' = IF reach = "durable" THEN [synced EXCEPT ![o] = disk'[o]] ELSE synced
          /\ Wrote(p, o, reach, _next_sequence(o), 0)
          /\ UNCHANGED <<linked, owner, alive, view, events, changed, landed>>
    BY <1>3, <1>5 DEF handle_emit
  <2>3. /\ Grows
        /\ reach = "durable" => synced'[o].counter = _next_sequence(o)
    BY <1>1, <2>1, <2>2, EmitGrows
  <2>4. CASE reach # "durable"
    BY <1>2, <2>2, <2>3, <2>4, AnswerKeeps DEF Wrote
  <2>5. CASE reach = "durable"
    <3>1. PICK n \in Nat : n = _next_sequence(o) /\ events[o].sequence < n
      BY <2>1, NextIsNew
    <3>2. PICK g \in Nat : g = 0
      OBVIOUS
    <3>3. o \in linked' /\ o \in linked
      BY <1>1, <1>2, <1>3, <2>2 DEF ShellOK, RestOK
    <3>4. Survives(o, g)
      <4>1. synced[o].journal.generation \in Nat
        BY <2>1, Parts, Numbers
      <4> QED
        BY <3>2, <3>3, <4>1 DEF Survives
    <3>5. Survives(o, g)'
      BY <1>1, <2>3, <3>4, Parts, SurvivesStill
    <3>6. n <= synced'[o].counter
      BY <2>3, <2>5, <3>1
    <3>7. Wrote(p, o, "durable", n, g)
      BY <2>2, <2>5, <3>1, <3>2
    <3> QED
      BY <1>2, <2>2, <2>3, <3>1, <3>5, <3>6, <3>7, WroteKeeps
  <2> QED
    BY <2>4, <2>5
<1> QED
  BY <1>4, <1>5

\* The writer lock is taken only when it is free.
LEMMA LockedTreeKeeps ==
  ASSUME IInv, NEW p \in Shell, _locked_tree(p)
  PROVE  IInv'
<1>1. Types /\ WriterOK /\ ShellOK(p) /\ RequestOK(p)
  BY Parts
<1>2. pc[p] = "queued" /\ writer = None /\ req[p].type \in {"begin", "list"}
  BY DEF _locked_tree
<1>3. CASE Refuse(p)
  BY <1>2, <1>3, RefuseKeeps
<1>4. CASE ~Refuse(p)
  <2>1. /\ req[p].type = "begin" => env[p] = None
        /\ pc' = [pc EXCEPT ![p] = "locked"] /\ writer' = p
        /\ UNCHANGED <<store, owner, alive, fd, env, gen, unsure, mark, req, events, changed, landed>>
    BY <1>4 DEF _locked_tree, lock, view
  <2>2. Types'
    BY <1>1, <2>1 DEF Types
  <2>3. pc'[p] = "locked" /\ \A q \in Shell \ {p} : pc'[q] = pc[q]
    BY <1>1, <2>1 DEF Types
  <2>4. WriterOK'
    BY <1>1, <1>2, <2>1, <2>3, LifecycleAssumption DEF WriterOK
  <2>5. \A q \in Shell \ {p} : Rests(q)
    BY <2>1, <2>3 DEF Rests
  <2>6. KnowsOK(p)'
    BY <1>1, <2>1 DEF ShellOK, KnowsOK, Survives, Past1st, Mutated, store
  <2>7. ShellOK(p)' /\ RequestOK(p)'
    BY <1>1, <1>2, <2>1, <2>3, <2>6
       DEF ShellOK, RestOK, QueuedOK, BeginOK, RequestOK, WrittenOK, store
  <2> QED
    BY <2>1, <2>2, <2>4, <2>5, <2>7, QuietStep
<1> QED
  BY <1>3, <1>4

\* A reconciliation's record, however far its writes get.
LEMMA AbandonKeeps ==
  ASSUME IInv, NEW p \in Shell, NEW o \in Op, _abandon(p, o)
  PROVE  IInv' /\ Grows
<1>1. TypeOK /\ Types /\ WriterOK /\ ShellOK(p) /\ RequestOK(p) /\ \A x \in Op : StoreOK(x)
  BY Parts
<1>2. pc[p] = "locked" /\ exists(o) /\ _journal_rules(disk[o].journal, Abandoned(o))
  BY DEF _abandon, Killed
<1>3. Abandoned(o) \in Record
  BY DEF Abandoned, Record, State, Outcome
<1>4. PICK reach \in Reach :
        /\ Replace(o, [journal |-> _next_journal(o, Abandoned(o)), counter |-> _next_sequence(o)], reach)
        /\ IF reach = "durable" THEN UNCHANGED <<pc, fd, req, env, writer, faults>>
                                ELSE Answer(p, FALSE) /\ Fault
  BY DEF _abandon
<1>5. UNCHANGED <<linked, owner, alive, view, events, changed, landed>>
  BY DEF _abandon
<1>6. Grows
  BY <1>1, <1>2, <1>3, <1>4, <1>5, ReplaceGrows
<1>7. CASE reach # "durable"
  BY <1>2, <1>4, <1>5, <1>6, <1>7, AnswerKeeps
<1>8. CASE reach = "durable"
  <2>1. UNCHANGED <<owner, alive, fd, env, gen, unsure, mark, pc, req, writer, events, changed, landed>>
    BY <1>4, <1>5, <1>8 DEF view
  <2>2. Types' /\ WriterOK' /\ \A q \in Shell : Rests(q)
    BY <1>1, <2>1 DEF Types, WriterOK, Rests
  <2>3. ShellOK(p)' /\ RequestOK(p)'
    BY <1>6, <2>1, <2>2, RestsKeeps
  <2> QED
    BY <1>6, <2>1, <2>2, <2>3, StepKeeps
<1> QED
  BY <1>6, <1>7, <1>8

\* A list that has reconciled.
LEMMA HandleListKeeps ==
  ASSUME IInv, NEW p \in Shell, handle_list(p)
  PROVE  IInv'
<1>1. Grows
  BY Parts, StoreSame DEF handle_list
<1> QED
  BY <1>1, AnswerKeeps DEF handle_list

\* A begin either leaves the journals alone or creates a new operation while
\* no transaction is unfinished.
LEMMA BeginStep ==
  ASSUME IInv, NEW p \in Shell, handle_begin(p)
  PROVE  /\ IInv' /\ Grows
         /\ \/ UNCHANGED disk
            \/ Blocking = {} /\ \E o \in Op : ~exists(o) /\ \A x \in Op \ {o} : disk'[x] = disk[x]
<1>1. TypeOK /\ Types /\ WriterOK /\ ShellOK(p) /\ RequestOK(p) /\ \A x \in Op : StoreOK(x)
  BY Parts
<1>2. /\ pc[p] = "locked" /\ req[p].type = "begin" /\ env[p] = None
      /\ req[p].ask \in {"transaction", "install", "legacy"}
  BY <1>1 DEF handle_begin, ShellOK, BeginOK, RequestOK
<1>3. CASE Refuse(p)
  <2>1. IInv' /\ UNCHANGED store
    BY <1>2, <1>3, RefuseKeeps DEF Refuse
  <2> QED
    BY <1>1, <2>1, StoreSame DEF store
<1>4. CASE ~Refuse(p)
  <2>1. PICK o \in Op : o = NextOp
    BY <1>4 DEF handle_begin
  <2>2. ~exists(o) /\ Blocking = {}
    BY <1>4, <2>1, NextOpFresh DEF handle_begin
  <2>3. PICK kind \in {"transaction", "install", "legacy"} : kind = req[p].ask
    BY <1>2
  <2>4. PICK reach \in Reach \ {"counter"} :
          /\ IF reach = "none"
               THEN UNCHANGED store
               ELSE /\ disk' = [disk EXCEPT ![o] = [journal |-> Journal(kind), counter |-> 1]]
                    /\ synced' = [synced EXCEPT ![o] = [journal |-> Journal(kind), counter |-> 1]]
                    /\ linked' = IF reach = "durable"
                                   THEN linked \cup {o} \cup {x \in Op : exists(x)}
                                   ELSE linked
          /\ Wrote(p, o, reach, 1, 1)
          /\ UNCHANGED <<owner, alive, view, events, changed, landed>>
    BY <1>4, <2>1, <2>3 DEF handle_begin
  <2>5. CASE reach = "none"
    <3>1. Grows
      BY <1>1, <2>4, <2>5, StoreSame
    <3>2. UNCHANGED disk
      BY <2>4, <2>5 DEF store
    <3> QED
      BY <1>2, <2>4, <2>5, <3>1, <3>2, AnswerKeeps DEF Wrote
  <2>6. CASE reach # "none"
    <3>1. linked' = linked \/ linked' = linked \cup {o} \cup {x \in Op : exists(x)}
      BY <2>4, <2>6
    <3>2. /\ Grows /\ synced'[o].counter = 1 /\ synced'[o].journal.generation = 1
          /\ \A x \in Op \ {o} : disk'[x] = disk[x]
      BY <1>1, <2>2, <2>4, <2>6, <3>1, BeginGrows
    <3>3. CASE reach # "durable"
      BY <1>2, <2>2, <2>4, <3>2, <3>3, AnswerKeeps DEF Wrote
    <3>4. CASE reach = "durable"
      <4>1. o \in linked'
        BY <2>4, <2>6, <3>4
      <4>2. PICK n \in Nat : n = 1
        OBVIOUS
      <4>3. Survives(o, n)'
        BY <3>2, <4>1, <4>2 DEF Survives
      <4>4. events[o].sequence < n
        <5>1. o \notin linked /\ EventOK(o) /\ events[o].sequence \in Nat
          BY <1>1, <2>2, Parts DEF StoreOK, Types
        <5> QED
          BY <4>2, <5>1 DEF EventOK
      <4>5. n <= synced'[o].counter /\ Wrote(p, o, "durable", n, n)
        BY <2>4, <3>2, <3>4, <4>2
      <4>6. IInv'
        BY <1>2, <2>4, <3>2, <4>3, <4>4, <4>5, WroteKeeps
      <4> QED
        BY <2>2, <3>2, <4>6
    <3> QED
      BY <3>3, <3>4
  <2> QED
    BY <2>5, <2>6
<1> QED
  BY <1>3, <1>4

\* A begin or a checkpoint whose event went out is acknowledged.
LEMMA AckKeeps ==
  ASSUME IInv, Grows, NEW p \in Shell, pc[p] = "written", req[p].type # "emit", p \in alive,
         Answer(p, TRUE), UNCHANGED <<store, owner, alive, view, changed, landed>>,
         events' \in [Op -> [sequence : Nat, generation : Nat]],
         \A o \in Op : events'[o] = events[o] \/ EventOK(o)'
  PROVE  IInv'
<1> USE DEF view
<1>1. Types /\ WriterOK /\ ShellOK(p) /\ RequestOK(p)
  BY Parts
<1>2. /\ pc' = [pc EXCEPT ![p] = "answered"] /\ req' = [req EXCEPT ![p] = req[p]]
      /\ writer = p /\ writer' = None /\ UNCHANGED <<fd, env>>
  BY <1>1 DEF Answer, WriterOK
<1>3. DOMAIN req' = Shell /\ \A q \in Shell : req'[q] = req[q]
  BY <1>1, <1>2 DEF Types
<1>4. Types'
  BY <1>1, <1>2, <1>3 DEF Types
<1>5. pc'[p] = "answered" /\ \A q \in Shell \ {p} : pc'[q] = pc[q]
  BY <1>1, <1>2 DEF Types
<1>6. WriterOK'
  BY <1>1, <1>2, <1>5, LifecycleAssumption DEF WriterOK
<1>7. \A q \in Shell \ {p} : Rests(q) /\ pc[q] # "written"
  BY <1>1, <1>2, <1>3, <1>5 DEF Rests, WriterOK
<1>8. WrittenOK(p)' /\ KnowsOK(p)'
  BY <1>1, <1>2, <1>3, <1>5 DEF ShellOK, WrittenOK, KnowsOK, Survives, Past1st, Mutated, store
<1>9. RequestOK(p)' /\ RestOK(p)' /\ QueuedOK(p)' /\ BeginOK(p)'
  BY <1>1, <1>2, <1>3, <1>5 DEF ShellOK, RequestOK, RestOK, QueuedOK, BeginOK, store
<1> QED
  BY <1>4, <1>6, <1>7, <1>8, <1>9, StepKeeps DEF ShellOK

\* An event that goes out is durable already, and no other utility says
\* anything meanwhile.
LEMMA EventWriteKeeps ==
  ASSUME IInv, NEW p \in Shell, EventSink_write(p)
  PROVE  IInv'
<1>1. Types /\ WriterOK /\ ShellOK(p) /\ RequestOK(p) /\ Grows
  BY Parts, StoreSame DEF EventSink_write
<1>2. pc[p] = "written" /\ UNCHANGED <<store, owner, alive, view, changed, landed>> /\ writer = p
  BY <1>1 DEF EventSink_write, WriterOK
<1>3. PICK told \in BOOLEAN, ok \in BOOLEAN :
        /\ events' = IF told THEN [events EXCEPT ![req[p].operation] = Announced(@, req[p].event)]
                             ELSE events
        /\ Answer(p, ok /\ req[p].type # "emit")
  BY DEF EventSink_write
<1>4. PICK o \in Op : o = req[p].operation
  BY <1>1, <1>2 DEF RequestOK
<1>5. PICK e \in [sequence : Nat, generation : Nat] : e = req[p].event
  BY <1>1, <1>2 DEF RequestOK
<1>6. /\ o \in linked /\ synced[o].journal.generation >= e.generation /\ e.sequence <= synced[o].counter
  BY <1>1, <1>2, <1>4, <1>5 DEF ShellOK, WrittenOK, Survives
<1>7. PICK new \in [sequence : Nat, generation : Nat] : new = Announced(events[o], e)
  <2>1. \A last \in [sequence : Nat, generation : Nat] :
          Announced(last, e) \in [sequence : Nat, generation : Nat]
    BY DEF Announced
  <2>2. events[o] \in [sequence : Nat, generation : Nat]
    BY <1>1 DEF Types
  <2> QED
    BY <2>1, <2>2
<1>8. /\ new.sequence = e.sequence
      /\ new.generation > 0 => new.generation = e.generation \/ new.generation = events[o].generation
  BY <1>7 DEF Announced
<1>9. events' = [events EXCEPT ![o] = new] \/ events' = events
  BY <1>3, <1>4, <1>5, <1>7
<1>10. events' \in [Op -> [sequence : Nat, generation : Nat]]
  BY <1>1, <1>9 DEF Types
<1>11. ASSUME events' = [events EXCEPT ![o] = new] PROVE EventOK(o)'
  <2>1. events'[o] = new
    BY <1>1, <1>11 DEF Types
  <2>2. EventOK(o)
    BY Parts
  <2> QED
    BY <1>2, <1>6, <1>8, <2>1, <2>2 DEF EventOK, Survives, store
<1>12. \A x \in Op : events'[x] = events[x] \/ EventOK(x)'
  BY <1>1, <1>9, <1>11 DEF Types
<1>13. CASE p \in alive /\ ok /\ req[p].type # "emit"
  <2>1. Answer(p, TRUE)
    BY <1>3, <1>13 DEF Answer
  <2> QED
    BY <1>1, <1>2, <1>10, <1>12, <1>13, <2>1, AckKeeps
<1>14. CASE ~(p \in alive /\ ok /\ req[p].type # "emit")
  <2>1. Answer(p, FALSE)
    BY <1>3, <1>14 DEF Answer
  <2> QED
    BY <1>1, <1>2, <1>10, <1>12, <2>1, AnswerKeeps
<1> QED
  BY <1>13, <1>14

----------------------------------------------------------------------------
(* Power loss and the initial states.                                         *)

\* Power loss leaves of each operation what was read, what was synced, or,
\* when its directory was not linked, nothing.
LEMMA PowerLossLeaves ==
  ASSUME IInv, PowerLoss
  PROVE  /\ \A o \in Op : \/ disk'[o] \in {disk[o], synced[o]}
                          \/ o \notin linked /\ disk'[o] = Nothing
         /\ disk' \in [Op -> Entry \cup {Nothing}]
<1>1. PICK kept \in SUBSET Op :
        disk' = [o \in Op |-> CASE o \in kept -> disk[o]
                                [] o \in linked \ kept -> synced[o]
                                [] OTHER -> Nothing]
  BY DEF PowerLoss
<1>2. \A o \in Op : /\ \/ disk'[o] \in {disk[o], synced[o]}
                       \/ o \notin linked /\ disk'[o] = Nothing
                    /\ disk'[o] \in {disk[o], synced[o], Nothing}
  BY <1>1
<1>3. disk \in [Op -> Entry \cup {Nothing}] /\ synced \in [Op -> Entry \cup {Nothing}]
  BY DEF IInv, TypeOK
<1>4. \A o \in Op : disk[o] \in Entry \cup {Nothing} /\ synced[o] \in Entry \cup {Nothing}
  BY <1>3
<1>5. \A o \in Op : disk'[o] \in Entry \cup {Nothing}
  BY <1>2, <1>4
<1>6. disk' = [o \in Op |-> disk'[o]]
  BY <1>1
<1>7. disk' \in [Op -> Entry \cup {Nothing}]
  BY <1>5, <1>6
<1> QED
  BY <1>2, <1>7

\* Power loss may undo a record that nobody was told of, and no other.
LEMMA PowerLossKeeps ==
  ASSUME IInv, PowerLoss
  PROVE  IInv'
<1>1. TypeOK /\ Types /\ \A o \in Op : StoreOK(o) /\ EventOK(o)
  BY Parts
<1>2. /\ synced' = disk' /\ linked' = {o \in Op : disk'[o] # Nothing}
      /\ disk' \in [Op -> Entry \cup {Nothing}]
  BY PowerLossLeaves DEF PowerLoss
<1>3. ASSUME NEW o \in Op PROVE StoreOK(o)'
  <2>1. o \in linked' => disk'[o] # Nothing
    BY <1>2
  <2>2. ASSUME disk'[o] # Nothing
        PROVE  /\ Sound(disk'[o].journal) /\ disk'[o].journal.generation \in Nat
               /\ disk'[o].counter \in Nat
    <3>1. disk'[o] \in {disk[o], synced[o]}
      BY <2>2, PowerLossLeaves
    <3>2. exists(o)
      BY <1>1, <2>2, <3>1 DEF StoreOK, exists
    <3>3. Sound(disk[o].journal) /\ Sound(synced[o].journal)
      BY <1>1, <3>2 DEF StoreOK
    <3>4. disk'[o] \in Entry
      BY <1>2, <2>2
    <3> QED
      BY <3>1, <3>3, <3>4, EntryFields
  <2> QED
    BY <1>2, <2>1, <2>2 DEF StoreOK, exists
<1>4. ASSUME NEW o \in Op, o \in linked
      PROVE  /\ o \in linked' /\ disk'[o] \in {disk[o], synced[o]}
             /\ synced'[o].journal.generation \in Nat /\ synced'[o].counter \in Nat
             /\ synced'[o].journal.generation >= synced[o].journal.generation
             /\ synced'[o].counter >= synced[o].counter
             /\ synced[o].journal.generation \in Nat /\ synced[o].counter \in Nat
  <2>1. disk'[o] \in {disk[o], synced[o]} /\ exists(o)
    BY <1>1, <1>4, PowerLossLeaves DEF StoreOK
  <2>2. disk[o] \in Entry /\ synced[o] \in Entry
    BY <1>1, <2>1, SucceedsItself
  <2>3. disk'[o] # Nothing
    BY <2>1, <2>2, EntryFields
  <2>4. /\ disk[o].journal.generation \in Nat /\ synced[o].journal.generation \in Nat
        /\ disk[o].counter \in Nat /\ synced[o].counter \in Nat
        /\ synced[o].journal.generation <= disk[o].journal.generation
        /\ synced[o].counter <= disk[o].counter
    BY <1>1, <2>1, <2>2, EntryFields DEF StoreOK
  <2> QED
    BY <1>2, <2>1, <2>3, <2>4
<1>5. ASSUME NEW o \in Op PROVE EventOK(o)'
  <2>1. events'[o] = events[o] /\ events[o].generation \in Nat /\ events[o].sequence \in Nat
    BY <1>1 DEF PowerLoss, Types
  <2>2. events[o].generation > 0 =>
          o \in linked' /\ synced'[o].journal.generation >= events[o].generation
    BY <1>1, <1>4, <2>1 DEF EventOK, Survives
  <2>3. events[o].sequence > 0 => o \in linked' /\ events[o].sequence <= synced'[o].counter
    BY <1>1, <1>4, <2>1 DEF EventOK
  <2> QED
    BY <2>1, <2>2, <2>3 DEF EventOK, Survives
<1>6. ASSUME NEW o \in changed' PROVE Past1st(o)'
  <2>1. o \in Op /\ Past1st(o)
    BY <1>1, Parts DEF PowerLoss, Types
  <2> QED
    BY <1>2, <1>4, <2>1 DEF Past1st, Mutated
<1>7. \A p \in Shell : pc'[p] = "idle" /\ env'[p] = None /\ gen'[p] = 0
  BY DEF PowerLoss
<1>8. alive' = {} /\ fd' = {} /\ unsure' = {} /\ mark' = {} /\ landed' = {} /\ writer' = None
  BY DEF PowerLoss
<1>9. \A p \in Shell : ShellOK(p)' /\ RequestOK(p)'
  BY <1>7, <1>8 DEF ShellOK, RestOK, QueuedOK, BeginOK, WrittenOK, KnowsOK, RequestOK
<1>10. WriterOK'
  BY <1>7, <1>8, LifecycleAssumption DEF WriterOK
<1>11. Types'
  BY <1>1 DEF PowerLoss, Types
<1>12. TypeOK'
  BY <1>2, <1>9, <1>11 DEF TypeOK, Types
<1> QED
  BY <1>3, <1>5, <1>6, <1>9, <1>10, <1>12 DEF IInv, JournalInv

\* The host comes up with valid journals and no process.
LEMMA InitIInv == Init => IInv
<1> SUFFICES ASSUME Init PROVE IInv
  OBVIOUS
<1>1. PICK past \in Past \cup {Nothing} : disk = [o \in Op |-> IF o = 1 THEN past ELSE Nothing]
  BY DEF Init
<1>2. synced = disk /\ linked = {o \in Op : disk[o] # Nothing}
  BY DEF Init, exists
<1>3. \A o \in Op : disk[o] # Nothing => disk[o] \in Entry /\ Sound(disk[o].journal)
  BY <1>1, JournalAssumption
<1>4. \A o \in Op : disk[o] # Nothing => disk[o].journal.generation \in Nat /\ disk[o].counter \in Nat
  BY <1>3, EntryFields
<1>5. disk \in [Op -> Entry \cup {Nothing}] /\ linked \subseteq Op
  BY <1>1, <1>2, <1>3
<1>6. \A o \in Op : StoreOK(o)
  BY <1>2, <1>3, <1>4 DEF StoreOK, exists
<1>7. \A o \in Op : EventOK(o)
  <2>1. \A o \in Op : events[o].generation = 0 /\ events[o].sequence = 0
    BY DEF Init
  <2> QED
    BY <2>1 DEF EventOK
<1>8. \A p \in Shell : pc[p] = "idle" /\ env[p] = None /\ gen[p] = 0
  BY DEF Init
<1>9. alive = {} /\ fd = {} /\ unsure = {} /\ mark = {} /\ landed = {} /\ writer = None /\ changed = {}
  BY DEF Init
<1>10. \A p \in Shell : ShellOK(p) /\ RequestOK(p)
  BY <1>8, <1>9 DEF ShellOK, RestOK, QueuedOK, BeginOK, WrittenOK, KnowsOK, RequestOK
<1>11. WriterOK
  BY <1>8, <1>9, LifecycleAssumption DEF WriterOK
<1>12. Types
  BY DEF Init, Types
<1>13. TypeOK
  BY <1>2, <1>5, <1>10, <1>12 DEF TypeOK, Types
<1> QED
  BY <1>6, <1>7, <1>9, <1>10, <1>11, <1>13 DEF IInv, JournalInv

----------------------------------------------------------------------------
(* The invariant holds.                                                       *)

\* The store only grows in a step of a process.
LEMMA ProcessStep ==
  ASSUME IInv, NEW p \in Shell, Shells(p) \/ Utility(p)
  PROVE  IInv'
<1>1. CASE Acquire(p)
  BY <1>1, AcquireKeeps
<1>2. ASSUME NEW c \in Shell \ {p}, Inherit(p, c) PROVE IInv'
  BY <1>2, InheritKeeps
<1>3. CASE Leave(p)
  BY <1>3, LeaveKeeps
<1>4. ASSUME NEW kind, cb_lifecycle_begin(p, kind) PROVE IInv'
  <2>1. kind \in {"transaction", "install", "legacy"}
    BY <1>4, LifecycleAssumption DEF cb_lifecycle_begin
  <2> QED
    BY <1>4, <2>1, SendKeeps DEF cb_lifecycle_begin
<1>5. CASE cb_lifecycle_list(p)
  BY <1>5, SendKeeps DEF cb_lifecycle_list
<1>6. CASE cb_lifecycle_emit(p)
  BY <1>6, SendKeeps DEF cb_lifecycle_emit
<1>7. ASSUME NEW r \in Ask, cb_lifecycle_checkpoint(p, r) PROVE IInv'
  <2>1. r \in Record
    BY <1>7, JournalAssumption
  <2> QED
    BY <1>7, <2>1, CheckpointKeeps
<1>8. CASE cb_lifecycle_interrupted(p)
  BY <1>8, InterruptedKeeps
<1>9. CASE cb_lifecycle_mark_mutation(p)
  BY <1>9, MarkKeeps
<1>10. CASE Change(p)
  BY <1>10, ChangeKeeps
<1>11. CASE cb_lifecycle_read_ack(p)
  BY <1>11, ReadAckKeeps
<1>12. CASE handle_checkpoint(p)
  BY <1>12, HandleCheckpointKeeps
<1>13. CASE handle_emit(p)
  BY <1>13, HandleEmitKeeps
<1>14. CASE _locked_tree(p)
  BY <1>14, LockedTreeKeeps
<1>15. ASSUME NEW o \in Op, _abandon(p, o) PROVE IInv'
  BY <1>15, AbandonKeeps
<1>16. CASE handle_list(p)
  BY <1>16, HandleListKeeps
<1>17. CASE handle_begin(p)
  BY <1>17, BeginStep
<1>18. CASE EventSink_write(p)
  BY <1>18, EventWriteKeeps
<1> QED
  BY <1>1, <1>2, <1>3, <1>4, <1>5, <1>6, <1>7, <1>8, <1>9, <1>10, <1>11, <1>12, <1>13, <1>14,
     <1>15, <1>16, <1>17, <1>18 DEF Shells, Utility

\* A step that changes nothing.
LEMMA StutterKeeps ==
  ASSUME IInv, UNCHANGED vars
  PROVE  IInv'
<1> USE DEF vars, store, lock, view, request
<1>1. TypeOK'
  BY DEF IInv, TypeOK, RequestOK
<1>2. /\ \A o \in Op : StoreOK(o)' /\ EventOK(o)'
      /\ \A o \in changed' : Past1st(o)'
  BY DEF IInv, JournalInv, StoreOK, EventOK, Survives, Past1st, Mutated, exists
<1>3. WriterOK' /\ \A p \in Shell : ShellOK(p)'
  BY DEF IInv, JournalInv, WriterOK, ShellOK, RestOK, QueuedOK, BeginOK, WrittenOK, KnowsOK,
         Survives, Past1st, Mutated
<1> QED
  BY <1>1, <1>2, <1>3 DEF IInv, JournalInv

\* Whatever shells are killed, utilities fail and power is lost, what the
\* journal says, what power loss leaves of it, what the shells believe and what
\* the descriptor carried stay in step.
THEOREM JournalInvariant == Spec => []IInv
<1>1. Init => IInv
  BY InitIInv
<1>2. IInv /\ [Next]_vars => IInv'
  BY ProcessStep, PowerLossKeeps, StutterKeeps DEF Next
<1> QED
  BY <1>1, <1>2, PTL DEF Spec

\* Journals, requests and views keep their types.
THEOREM TypeCorrect == Spec => []TypeOK
<1>1. IInv => TypeOK
  BY DEF IInv
<1> QED
  BY <1>1, JournalInvariant, PTL

\* What a checkpoint event or an acknowledgement announced survives power loss,
\* for any number of shells, operations and power losses.
THEOREM ToldAlwaysDurable == Spec => []ToldIsDurable
<1>1. IInv => ToldIsDurable
  <2> SUFFICES ASSUME IInv PROVE ToldIsDurable
    OBVIOUS
  <2>1. \A o \in Op : events[o].generation > 0 =>
          o \in linked /\ synced[o].journal.generation >= events[o].generation
    BY Parts DEF EventOK, Survives
  <2>2. \A p \in alive \ unsure : env[p] # None =>
          env[p] \in linked /\ synced[env[p]].journal.generation >= gen[p]
    BY Parts DEF Types, ShellOK, KnowsOK, Survives
  <2> QED
    BY <2>1, <2>2 DEF ToldIsDurable
<1> QED
  BY <1>1, JournalInvariant, PTL

\* An operation closed as interrupted changed nothing, whichever shell recorded
\* the interruption and whatever it knew.
THEOREM InterruptedAlwaysUntouched == Spec => []InterruptedIsUntouched
<1>1. IInv => InterruptedIsUntouched
  BY Parts DEF InterruptedIsUntouched, Past1st, Mutated
<1> QED
  BY <1>1, JournalInvariant, PTL

\* The descriptor carries an operation's events in the order of their sequences.
THEOREM EventsAlwaysRise == Spec => EventsRise
<1>1. IInv => \A p \in Shell : pc[p] = "written" =>
                events[req[p].operation].sequence < req[p].event.sequence
  BY Parts DEF ShellOK, WrittenOK
<1>2. IInv /\ [Next]_vars =>
        [\A p \in Shell :
           pc[p] = "written" /\ (pc'[p] = "answered" \/ events' # events)
             => events[req[p].operation].sequence < req[p].event.sequence]_vars
  BY <1>1
<1> QED
  BY <1>2, JournalInvariant, PTL DEF Spec, EventsRise

\* No shell builds on a record of its own that it was never told is there.
THEOREM UnansweredAlwaysLast == Spec => UnansweredIsLast
<1>1. IInv => \A p \in Shell : pc[p] = "queued" /\ req[p].type = "checkpoint" => p \notin landed
  BY Parts DEF ShellOK, QueuedOK
<1>2. IInv /\ [Next]_vars => [\A p \in Shell : Lands(p) => p \notin landed]_vars
  BY <1>1 DEF Lands
<1> QED
  BY <1>2, JournalInvariant, PTL DEF Spec, UnansweredIsLast

----------------------------------------------------------------------------
(* A way out of every transaction.                                            *)

\* The two closing records an unfinished transaction may end in.
LEMMA ClosingRules ==
  ASSUME NEW j, Sound(j), j.outcome = None, j.attempts \in Nat
  PROVE  /\ j.state \in PreMutation => _journal_rules(j, Closing(j.state, "refused"))
         /\ j.state = "recovery_required" => _journal_rules(j, Closing("recovery_required", "manual"))
         /\ j.kind # "legacy" /\ j.state \in Progress \cup {"interrupted"}
              => _journal_rules(j, Plain("recovery_required"))
<1>1. j.attempts <= MaxAttempts /\ ~finished(j)
  BY DEF Sound, finished
<1>2. \A state, outcome :
        LET r == Closing(state, outcome)
        IN  r.state = state /\ r.outcome = outcome /\ r.step = FALSE /\ r.abandoned = FALSE
  BY DEF Closing, Plain
<1>3. LET r == Plain("recovery_required")
      IN  r.state = "recovery_required" /\ r.outcome = None /\ r.step = FALSE /\ r.abandoned = FALSE
  BY DEF Plain
<1>4. ASSUME j.state \in PreMutation PROVE _journal_rules(j, Closing(j.state, "refused"))
  <2> DEFINE r == Closing(j.state, "refused")
  <2>1. r.state = j.state /\ r.outcome = "refused" /\ r.step = FALSE /\ r.abandoned = FALSE
    BY <1>2
  <2> HIDE DEF r
  <2>2. Attempts(j, r) = j.attempts
    BY <2>1 DEF Attempts
  <2>3. _checkpoint_rules(r, j.state)
    BY <1>4, <2>1 DEF _checkpoint_rules, PreMutation
  <2>4. _journal_rules(j, r)
    BY <1>1, <2>1, <2>2, <2>3 DEF _journal_rules
  <2> QED
    BY <2>4 DEF r
<1>5. ASSUME j.state = "recovery_required"
      PROVE  _journal_rules(j, Closing("recovery_required", "manual"))
  <2> DEFINE r == Closing("recovery_required", "manual")
  <2>1. r.state = j.state /\ r.outcome = "manual" /\ r.step = FALSE /\ r.abandoned = FALSE
    BY <1>2, <1>5
  <2> HIDE DEF r
  <2>2. Attempts(j, r) = j.attempts
    BY <2>1 DEF Attempts
  <2>3. _checkpoint_rules(r, j.state)
    BY <1>5, <2>1 DEF _checkpoint_rules
  <2>4. _journal_rules(j, r)
    BY <1>1, <2>1, <2>2, <2>3 DEF _journal_rules
  <2> QED
    BY <2>4 DEF r
<1>6. ASSUME j.kind # "legacy", j.state \in Progress \cup {"interrupted"}
      PROVE  _journal_rules(j, Plain("recovery_required"))
  <2> DEFINE r == Plain("recovery_required")
  <2>1. r.state = "recovery_required" /\ r.outcome = None /\ r.step = FALSE /\ r.abandoned = FALSE
    BY <1>3
  <2> HIDE DEF r
  <2>2. Attempts(j, r) = j.attempts
    BY <2>1 DEF Attempts
  <2>3. _checkpoint_rules(r, j.state)
    BY <2>1, LifecycleAssumption DEF _checkpoint_rules
  <2>4. is_transition(j.kind, j.state, "recovery_required")
    BY <1>6 DEF is_transition, Transitions, Progress
  <2>5. j.state # "recovery_required"
    BY <1>6 DEF Progress
  <2>6. _journal_rules(j, r)
    BY <1>1, <2>1, <2>2, <2>3, <2>4, <2>5 DEF _journal_rules
  <2> QED
    BY <2>6 DEF r
<1> QED
  BY <1>4, <1>5, <1>6

\* At most two records the contract allows close any unfinished transaction,
\* with any number of recovery attempts behind it.
THEOREM UnfinishedAlwaysClosable == Spec => []AlwaysClosable
<1>1. IInv => AlwaysClosable
  <2> DEFINE closable(j) == \E state \in State, outcome \in Outcome :
                              _journal_rules(j, Closing(state, outcome))
             after(j, state) == [j EXCEPT !.state = state, !.step = FALSE,
                                          !.attempts = Attempts(j, Plain(state))]
  <2> SUFFICES ASSUME IInv, NEW o \in Unfinished
               PROVE  \/ closable(disk[o].journal)
                      \/ \E state \in State : /\ _journal_rules(disk[o].journal, Plain(state))
                                              /\ closable(after(disk[o].journal, state))
    BY DEF AlwaysClosable
  <2>1. PICK j : j = disk[o].journal
    OBVIOUS
  <2>2. o \in Op /\ exists(o) /\ j.kind # "legacy" /\ j.outcome = None
    BY <2>1 DEF Unfinished
  <2>3. Sound(j)
    BY <2>1, <2>2, Parts DEF StoreOK
  <2>4. j.state \in State /\ j.attempts \in Nat
    BY <2>1, <2>2, Parts, ExistsEntry, EntryFields
  <2>5. /\ \A s \in PreMutation : s \in State
        /\ "recovery_required" \in State /\ "refused" \in Outcome /\ "manual" \in Outcome
    BY DEF State, Outcome
  <2>6. CASE j.state \in PreMutation
    <3>1. _journal_rules(j, Closing(j.state, "refused"))
      BY <2>2, <2>3, <2>4, <2>6, ClosingRules
    <3>2. closable(j)
      BY <2>4, <2>5, <3>1
    <3> QED
      BY <2>1, <3>2
  <2>7. CASE j.state = "recovery_required"
    <3>1. _journal_rules(j, Closing("recovery_required", "manual"))
      BY <2>2, <2>3, <2>4, <2>7, ClosingRules
    <3>2. closable(j)
      BY <2>5, <3>1
    <3> QED
      BY <2>1, <3>2
  <2>8. CASE j.state \in Progress \cup {"interrupted"}
    <3>1. _journal_rules(j, Plain("recovery_required"))
      BY <2>2, <2>3, <2>4, <2>8, ClosingRules
    <3>2. PICK k : k = after(j, "recovery_required")
      OBVIOUS
    <3>3. Attempts(j, Plain("recovery_required")) = j.attempts
      BY <2>4 DEF Attempts, Plain
    <3>4. /\ k.state = "recovery_required" /\ k.outcome = None /\ k.kind = j.kind
          /\ k.attempts = j.attempts
      <4>1. disk[o] \in Entry
        BY <2>2, Parts, ExistsEntry
      <4>2. j \in [kind : {"transaction", "install", "legacy"}, generation : Nat \ {0}, sequence : Nat,
                   state : State, step : BOOLEAN, outcome : Outcome \cup {None}, attempts : Nat]
        BY <2>1, <4>1 DEF Entry
      <4> QED
        BY <2>2, <3>2, <3>3, <4>2
    <3>5. Sound(k)
      BY <2>2, <2>3, <3>4, LifecycleAssumption DEF Sound
    <3>6. _journal_rules(k, Closing("recovery_required", "manual"))
      BY <2>4, <3>4, <3>5, ClosingRules
    <3>7. closable(k)
      BY <2>5, <3>6
    <3> HIDE DEF after, closable
    <3> QED
      BY <2>1, <2>5, <3>1, <3>2, <3>7
  <2>9. j.state \notin {"committed", "recovered"}
    BY <2>2, <2>3, LifecycleAssumption DEF Sound
  <2> QED
    BY <2>4, <2>6, <2>7, <2>8, <2>9 DEF State
<1> QED
  BY <1>1, JournalInvariant, PTL

----------------------------------------------------------------------------
(* One transaction at a time.                                                 *)

\* A step of a process other than begin replaces one operation that exists, or
\* none, and moves a generation only with a checkpoint or an abandonment.
LEMMA ProcessGrows ==
  ASSUME IInv, NEW p \in Shell, Shells(p) \/ Utility(p), ~handle_begin(p)
  PROVE  /\ Grows /\ \A x \in Op : exists(x)' => exists(x)
         /\ \/ handle_checkpoint(p)
            \/ \E o \in Op : _abandon(p, o) /\ \A x \in Op \ {o} : disk'[x] = disk[x]
            \/ \A x \in Op : disk'[x].journal = disk[x].journal
<1>1. TypeOK /\ Types /\ ShellOK(p) /\ RequestOK(p) /\ \A x \in Op : StoreOK(x)
  BY Parts
<1>2. disk \in [Op -> Entry \cup {Nothing}] /\ synced \in [Op -> Entry \cup {Nothing}]
  BY <1>1 DEF TypeOK
<1>3. CASE UNCHANGED store
  <2>1. Grows
    BY <1>1, <1>3, StoreSame
  <2>2. UNCHANGED disk
    BY <1>3 DEF store
  <2> QED
    BY <2>1, <2>2 DEF exists
<1>4. CASE ~UNCHANGED store
  <2>1. handle_checkpoint(p) \/ handle_emit(p) \/ \E o \in Op : _abandon(p, o)
    BY <1>4 DEF Shells, Utility, Acquire, Inherit, Leave, cb_lifecycle_begin, cb_lifecycle_list,
         cb_lifecycle_emit, cb_lifecycle_checkpoint, cb_lifecycle_interrupted,
         cb_lifecycle_mark_mutation, Change, cb_lifecycle_read_ack, _locked_tree, Refuse,
         handle_list, EventSink_write
  <2>2. CASE handle_checkpoint(p)
    <3>1. pc[p] = "queued" /\ req[p].type = "checkpoint" /\ env[p] # None
      BY <1>1, <2>2 DEF handle_checkpoint, ShellOK, QueuedOK
    <3>2. PICK o \in Op : o = env[p]
      BY <1>1, <3>1 DEF Types
    <3>3. PICK r \in Record : r = req[p].ask.record
      BY <1>1, <3>1 DEF RequestOK
    <3>4. exists(o) /\ _journal_rules(disk[o].journal, r)
      BY <1>4, <2>2, <3>2, <3>3 DEF handle_checkpoint, Refuse
    <3>5. PICK reach \in Reach :
            /\ Replace(o, [journal |-> _next_journal(o, r), counter |-> _next_sequence(o)], reach)
            /\ UNCHANGED linked
      BY <1>4, <2>2, <3>2, <3>3 DEF handle_checkpoint, Refuse
    <3>6. Grows /\ \A x \in Op \ {o} : disk'[x] = disk[x]
      BY <1>1, <3>4, <3>5, ReplaceGrows
    <3> QED
      BY <2>2, <3>4, <3>6 DEF exists
  <2>3. CASE handle_emit(p)
    <3>1. pc[p] = "queued" /\ req[p].type = "emit" /\ env[p] # None
      BY <1>1, <2>3 DEF handle_emit, ShellOK, QueuedOK
    <3>2. PICK o \in Op : o = env[p]
      BY <1>1, <3>1 DEF Types
    <3>3. exists(o)
      BY <1>4, <2>3, <3>2 DEF handle_emit, Refuse
    <3>4. PICK reach \in Reach \ {"counter"} :
            /\ disk' = IF reach = "none" THEN disk
                       ELSE [disk EXCEPT ![o].counter = _next_sequence(o)]
            /\ synced' = IF reach = "durable" THEN [synced EXCEPT ![o] = disk'[o]] ELSE synced
            /\ UNCHANGED linked
      BY <1>4, <2>3, <3>2 DEF handle_emit, Refuse
    <3>5. Grows
      BY <1>1, <3>3, <3>4, EmitGrows
    <3>6. \A x \in Op \ {o} : disk'[x] = disk[x]
      BY <1>2, <3>4
    <3>7. disk'[o].journal = disk[o].journal
      <4>1. disk[o] \in Entry
        BY <1>1, <3>3, ExistsEntry
      <4>2. disk'[o] = disk[o] \/ disk'[o] = [disk[o] EXCEPT !.counter = _next_sequence(o)]
        BY <1>2, <3>4
      <4> QED
        BY <4>1, <4>2 DEF Entry
    <3> QED
      BY <3>3, <3>5, <3>6, <3>7 DEF exists
  <2>4. ASSUME NEW o \in Op, _abandon(p, o)
        PROVE  Grows /\ exists(o) /\ \A x \in Op \ {o} : disk'[x] = disk[x]
    <3>1. exists(o) /\ _journal_rules(disk[o].journal, Abandoned(o)) /\ UNCHANGED linked
      BY <2>4 DEF _abandon, Killed
    <3>2. Abandoned(o) \in Record
      BY DEF Abandoned, Record, State, Outcome
    <3>3. PICK reach \in Reach :
        Replace(o, [journal |-> _next_journal(o, Abandoned(o)), counter |-> _next_sequence(o)], reach)
      BY <2>4 DEF _abandon
    <3> QED
      BY <1>1, <3>1, <3>2, <3>3, ReplaceGrows
  <2> QED
    BY <2>1, <2>2, <2>3, <2>4 DEF exists
<1> QED
  BY <1>3, <1>4

\* Unless it is power loss that undoes a closing record, no step adds a second
\* unfinished transaction.
LEMMA UnfinishedStep ==
  ASSUME IInv, Next, \A o \in Op : disk'[o].journal.generation >= disk[o].journal.generation
  PROVE  Unfinished' \subseteq Unfinished \/ \E o \in Op : Unfinished' \subseteq {o}
<1>1. ASSUME NEW p \in Shell, Shells(p) \/ Utility(p), ~handle_begin(p)
      PROVE  Unfinished' \subseteq Unfinished
  <2>1. Grows /\ \A x \in Op : exists(x)' => exists(x)
    BY <1>1, ProcessGrows
  <2> SUFFICES ASSUME NEW o \in Unfinished' PROVE o \in Unfinished
    OBVIOUS
  <2>2. o \in Op /\ exists(o)' /\ disk'[o].journal.kind # "legacy" /\ disk'[o].journal.outcome = None
    BY DEF Unfinished
  <2>3. exists(o) /\ Succeeds(o, disk'[o], synced'[o])
    BY <2>1, <2>2 DEF Grows
  <2> QED
    BY <2>2, <2>3 DEF Succeeds, Unfinished
<1>2. ASSUME NEW p \in Shell, handle_begin(p)
      PROVE  Unfinished' \subseteq Unfinished \/ \E o \in Op : Unfinished' \subseteq {o}
  <2>1. CASE UNCHANGED disk
    BY <2>1 DEF Unfinished, exists
  <2>2. CASE ~UNCHANGED disk
    <3>1. Blocking = {} /\ \E o \in Op : \A x \in Op \ {o} : disk'[x] = disk[x]
      BY <1>2, <2>2, BeginStep
    <3>2. PICK o \in Op : \A x \in Op \ {o} : disk'[x] = disk[x]
      BY <3>1
    <3>3. Unfinished = {}
      BY <3>1 DEF Blocking, Unfinished, finished
    <3>4. Unfinished' \subseteq {o}
      BY <3>2, <3>3 DEF Unfinished, exists
    <3> QED
      BY <3>4
  <2> QED
    BY <2>1, <2>2
<1>3. ASSUME PowerLoss PROVE Unfinished' \subseteq Unfinished
  <2> SUFFICES ASSUME NEW o \in Unfinished' PROVE o \in Unfinished
    OBVIOUS
  <2>1. o \in Op /\ disk'[o] # Nothing /\ disk'[o].journal.kind # "legacy" /\ disk'[o].journal.outcome = None
    BY DEF Unfinished, exists
  <2>2. disk'[o] \in {disk[o], synced[o]}
    BY <1>3, <2>1, PowerLossLeaves
  <2>3. exists(o) /\ StoreOK(o)
    BY <2>1, <2>2, Parts DEF exists, StoreOK
  <2>4. disk[o].journal.generation \in Nat /\ synced[o].journal.generation \in Nat
    BY <2>1, <2>3, Parts, Numbers
  <2>5. disk'[o].journal = disk[o].journal
    BY <2>1, <2>2, <2>3, <2>4 DEF StoreOK
  <2> QED
    BY <2>1, <2>3, <2>5 DEF Unfinished
<1> QED
  BY <1>1, <1>2, <1>3 DEF Next

\* None is begun while another one still needs recovery, and no other step of a
\* process reopens one.
THEOREM OneTransactionAtATime == Spec => OneTransaction
<1>1. ASSUME IInv, Next, \A o \in Op : disk'[o].journal.generation >= disk[o].journal.generation
      PROVE  \/ Cardinality(Unfinished') <= 1
             \/ Cardinality(Unfinished') <= Cardinality(Unfinished)
  <2>1. IsFiniteSet(Op)
    BY LifecycleAssumption, FS_Interval DEF Op
  <2>2. Unfinished \subseteq Op
    BY DEF Unfinished
  <2>3. IsFiniteSet(Unfinished)
    BY <2>1, <2>2, FS_Subset
  <2>4. CASE Unfinished' \subseteq Unfinished
    BY <2>3, <2>4, FS_Subset
  <2>5. ASSUME NEW o \in Op, Unfinished' \subseteq {o} PROVE Cardinality(Unfinished') <= 1
    <3>1. IsFiniteSet({o}) /\ Cardinality({o}) = 1
      BY FS_Singleton
    <3>2. Cardinality(Unfinished') <= Cardinality({o})
      BY <2>5, <3>1, FS_Subset
    <3> QED
      BY <3>1, <3>2
  <2> QED
    BY <1>1, <2>4, <2>5, UnfinishedStep
<1>2. IInv /\ [Next]_vars =>
        [(\A o \in Op : disk'[o].journal.generation >= disk[o].journal.generation)
           => \/ Cardinality(Unfinished') <= 1
              \/ Cardinality(Unfinished') <= Cardinality(Unfinished)]_vars
  BY <1>1
<1> QED
  BY <1>2, JournalInvariant, PTL DEF Spec, OneTransaction

----------------------------------------------------------------------------
(* Reconciliation spares what lives.                                          *)

\* Without a hand-over before the lock is bound, all who hold it are bound alike.
LEMMA HandedOverStep ==
  ASSUME EarlyHandoff = FALSE, IInv, HandedOver, [Next]_vars
  PROVE  HandedOver'
<1>1. ASSUME fd' \subseteq fd, UNCHANGED owner, \A q \in fd' : env'[q] = env[q] PROVE HandedOver'
  BY <1>1 DEF HandedOver
<1>2. CASE UNCHANGED vars
  BY <1>1, <1>2 DEF vars, lock
<1>3. CASE PowerLoss
  BY <1>1, <1>3 DEF PowerLoss
<1>4. ASSUME NEW p \in Shell, Shells(p) \/ Utility(p) PROVE HandedOver'
  <2>1. Types /\ ShellOK(p) /\ RequestOK(p)
    BY Parts
  <2>2. CASE Acquire(p)
    <3>1. env[p] = None
      BY <2>1, <2>2 DEF Acquire, Held, ShellOK, RestOK
    <3> QED
      BY <2>2, <3>1 DEF Acquire, HandedOver
  <2>3. ASSUME NEW c \in Shell \ {p}, Inherit(p, c) PROVE HandedOver'
    BY <2>1, <2>3 DEF Inherit, HandedOver, Types
  <2>4. CASE Leave(p)
    BY <1>1, <2>1, <2>4 DEF Leave, Types
  <2>5. CASE cb_lifecycle_read_ack(p)
    <3>1. UNCHANGED fd /\ p \in fd /\ pc[p] = "answered"
      BY <2>1, <2>5 DEF cb_lifecycle_read_ack, Types
    <3>2. CASE UNCHANGED <<owner, env>>
      BY <1>1, <3>1, <3>2
    <3>3. CASE ~UNCHANGED <<owner, env>>
      <4>1. /\ req[p].type = "begin"
            /\ owner' = [owner EXCEPT !.operation = req[p].operation]
            /\ env' = [env EXCEPT ![p] = req[p].operation]
        BY <2>5, <3>3 DEF cb_lifecycle_read_ack
      <4>2. env[p] = None /\ req[p].operation \in Op
        BY <2>1, <3>1, <4>1 DEF ShellOK, BeginOK, RequestOK
      <4>3. owner.operation = None /\ \A q \in fd : q = p
        BY <3>1, <4>2 DEF HandedOver
      <4>4. req[p].operation # None /\ owner'.operation = req[p].operation /\ env'[p] = req[p].operation
        BY <2>1, <4>1, <4>2, LifecycleAssumption DEF Types
      <4> QED
        BY <3>1, <4>3, <4>4 DEF HandedOver
    <3> QED
      BY <3>2, <3>3
  <2>6. CASE UNCHANGED <<owner, env, fd>>
    BY <1>1, <2>6
  <2>7. ASSUME NEW ack, Answer(p, ack), UNCHANGED owner PROVE HandedOver'
    BY <1>1, <2>1, <2>7 DEF Answer, Types
  <2>8. \/ Acquire(p) \/ (\E c \in Shell \ {p} : Inherit(p, c)) \/ Leave(p) \/ cb_lifecycle_read_ack(p)
        \/ UNCHANGED <<owner, env, fd>>
        \/ \E ack \in BOOLEAN : Answer(p, ack) /\ UNCHANGED owner
    <3>1. CASE \/ \E kind \in UNION Range(Kinds) : cb_lifecycle_begin(p, kind)
               \/ cb_lifecycle_list(p) \/ cb_lifecycle_emit(p)
               \/ \E r \in Ask : cb_lifecycle_checkpoint(p, r)
               \/ cb_lifecycle_interrupted(p) \/ cb_lifecycle_mark_mutation(p) \/ Change(p)
      BY <3>1 DEF cb_lifecycle_begin, cb_lifecycle_list, cb_lifecycle_emit, cb_lifecycle_checkpoint,
           cb_lifecycle_interrupted, cb_lifecycle_mark_mutation, Change, lock
    <3>2. CASE handle_checkpoint(p)
      BY <3>2 DEF handle_checkpoint, Refuse, Wrote
    <3>3. CASE handle_emit(p)
      BY <3>3 DEF handle_emit, Refuse, Wrote
    <3>4. CASE _locked_tree(p)
      BY <3>4 DEF _locked_tree, Refuse, lock
    <3>5. CASE \E o \in Op : _abandon(p, o)
      BY <3>5 DEF _abandon
    <3>6. CASE handle_list(p)
      BY <3>6 DEF handle_list
    <3>7. CASE handle_begin(p)
      BY <3>7 DEF handle_begin, Refuse, Wrote
    <3>8. CASE EventSink_write(p)
      <4>1. PICK told \in BOOLEAN, ok \in BOOLEAN : Answer(p, ok /\ req[p].type # "emit")
        BY <3>8 DEF EventSink_write
      <4>2. UNCHANGED owner /\ (ok /\ req[p].type # "emit") \in BOOLEAN
        BY <3>8 DEF EventSink_write
      <4> QED
        BY <4>1, <4>2
    <3> QED
      BY <1>4, <3>1, <3>2, <3>3, <3>4, <3>5, <3>6, <3>7, <3>8 DEF Shells, Utility
  <2> QED
    BY <2>2, <2>3, <2>4, <2>5, <2>6, <2>7, <2>8
<1> QED
  BY <1>2, <1>3, <1>4 DEF Next

\* An operation of a live shell is not one a reconciliation takes for killed.
LEMMA LivingSpared ==
  ASSUME IInv, HandedOver, NEW p \in Shell, pc[p] = "locked", NEW o \in Op, o # env[p]
  PROVE  ~Running(o)
<1> SUFFICES ASSUME NEW r \in alive,
                    env[r] = o \/ (pc[r] = "answered" /\ req[r].type = "begin")
             PROVE  FALSE
  BY DEF Running
<1>1. p \in fd /\ r \in fd /\ r \in Shell
  BY Parts DEF Types, ShellOK, RestOK
<1>2. CASE env[r] = o
  BY <1>1, <1>2 DEF HandedOver
<1>3. CASE pc[r] = "answered" /\ req[r].type = "begin"
  <2>1. env[r] = None
    BY <1>1, <1>3, Parts DEF ShellOK, BeginOK
  <2> QED
    BY <1>1, <1>3, <2>1 DEF HandedOver
<1> QED
  BY <1>2, <1>3

\* While a lock is bound before it is handed down, as the entrypoints do,
\* reconciliation never records the interruption of an operation that a live
\* holder of the lock carries out.
THEOREM LivingNeverAbandoned ==
  ASSUME EarlyHandoff = FALSE
  PROVE  Spec => OnlyKilledAbandoned
<1>1. Init => HandedOver
  BY DEF Init, HandedOver
<1>2. IInv /\ HandedOver /\ [Next]_vars => HandedOver'
  BY HandedOverStep
<1>3. ASSUME IInv, HandedOver, Next, NEW o \in Op, NEW p \in Shell, pc[p] = "locked", exists(o),
             disk'[o].journal.generation > disk[o].journal.generation
      PROVE  ~Running(o)
  <2>1. writer = p /\ disk[o].journal.generation \in Nat /\ synced[o].journal.generation \in Nat
    BY <1>3, Parts, Numbers DEF WriterOK
  <2>2. ASSUME PowerLoss PROVE FALSE
    <3>1. disk'[o] \in {disk[o], synced[o], Nothing}
      BY <1>3, <2>2, PowerLossLeaves
    <3>2. Nothing.journal.generation = 0
      BY DEF Nothing
    <3>3. synced[o].journal.generation <= disk[o].journal.generation
      BY <1>3, Parts DEF StoreOK
    <3> QED
      BY <1>3, <2>1, <3>1, <3>2, <3>3
  <2>3. ASSUME NEW q \in Shell, handle_begin(q) PROVE FALSE
    <3>1. disk'[o] = disk[o]
      BY <1>3, <2>3, BeginStep
    <3> QED
      BY <1>3, <2>1, <3>1
  <2>4. ASSUME NEW q \in Shell, Shells(q) \/ Utility(q), ~handle_begin(q) PROVE ~Running(o)
    <3>1. CASE handle_checkpoint(q)
      BY <2>1, <3>1, LifecycleAssumption DEF handle_checkpoint
    <3>2. CASE \A x \in Op : disk'[x].journal = disk[x].journal
      BY <1>3, <2>1, <3>2
    <3>3. ASSUME NEW x \in Op, _abandon(q, x), \A y \in Op \ {x} : disk'[y] = disk[y]
          PROVE  ~Running(o)
      <4>1. q = p
        BY <1>3, <2>1, <3>3, Parts DEF _abandon, WriterOK
      <4>2. x = o
        BY <1>3, <2>1, <3>3
      <4>3. o # env[p]
        BY <3>3, <4>1, <4>2 DEF _abandon, Killed
      <4> QED
        BY <1>3, <4>3, LivingSpared
    <3> QED
      BY <1>3, <2>4, <3>1, <3>2, <3>3, ProcessGrows
  <2> QED
    BY <1>3, <2>2, <2>3, <2>4 DEF Next
<1>4. IInv /\ HandedOver /\ [Next]_vars =>
        [\A o \in Op :
           (\E p \in Shell : /\ pc[p] = "locked" /\ exists(o)
                             /\ disk'[o].journal.generation > disk[o].journal.generation)
             => ~Running(o)]_vars
  BY <1>3
<1> QED
  BY <1>1, <1>2, <1>4, JournalInvariant, PTL DEF Spec, OnlyKilledAbandoned
============================================================================
