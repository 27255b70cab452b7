------------------------------ MODULE Lifecycle ------------------------------
(***************************************************************************)
(* The host's lifecycle journal: every install, update, rollback or        *)
(* restore of the server is an operation whose progress is recorded, one   *)
(* durable checkpoint at a time, by deploy/scripts/lifecycle-state.py on   *)
(* behalf of the shells of deploy/lib/lifecycle.sh.                        *)
(*                                                                         *)
(* A shell takes the host lock, begins an operation, binds the lock to it  *)
(* and hands the lock down to the children it starts, which all hold the   *)
(* same open file description: several shells write to one journal, each   *)
(* through a state utility process of its own.  A shell may be killed at   *)
(* any point while its utility runs on, a utility may fail or be killed    *)
(* before, between or after its writes, and the host may lose its power.   *)
(*                                                                         *)
(* A journal is its last record: the rules of the contract compare a new   *)
(* record with the one before it and count the recovery attempts, and      *)
(* never look further back.                                                *)
(***************************************************************************)
EXTENDS Integers, Sequences, FiniteSets, FiniteSetsExt, Functions

CONSTANTS
  Shell,        \* shells that may take or be handed the host lock
  MaxOp,        \* bound: operations ever begun
  Ask,          \* the records shells ask for
  Kinds,        \* operation -> the kinds it may have: "transaction", "install" (a
                \* transaction too) and "legacy"
  MaxAttempts,  \* recovery attempts per operation (max_recovery_attempts)
  MaxWrites,    \* bound: records in all journals when a shell asks for one more
  MaxEmit,      \* bound: sequences spent when a shell emits an event
  MaxFaults,    \* bound: failed or killed requests and power losses
  EarlyHandoff, \* whether a shell hands the lock down before it is bound
  Doubtful,     \* whether the tree holds a record that cannot be read
  Past,         \* journals (with their counters) the host may come up with as operation 1
  None

Op == 1..MaxOp

ASSUME LifecycleAssumption ==
  /\ MaxOp \in Nat /\ MaxWrites \in Nat /\ MaxEmit \in Nat /\ MaxAttempts \in Nat /\ MaxFaults \in Nat
  /\ Kinds \in [Op -> SUBSET {"transaction", "install", "legacy"}]
  /\ EarlyHandoff \in BOOLEAN /\ Doubtful \in BOOLEAN
  /\ None \notin Shell \cup Op
  /\ None \notin {"committed", "recovered", "refused", "interrupted", "manual"}

VARIABLES
  disk,     \* operation -> its journal and counter, as every process reads them
  synced,   \* the same, as power loss leaves them
  linked,   \* operations whose directory entry survives power loss
  owner,    \* the lock's owner record: the shell that took it and the bound operation
  writer,   \* shell whose utility holds the writer lock, or None
  alive,    \* shells that run
  fd,       \* shells that (or whose utility) hold the host lock's description
  env,      \* CB_LIFECYCLE_OPERATION of each shell
  gen,      \* the generation each shell last saw
  unsure,   \* shells with a checkpoint sent and not acknowledged
  mark,     \* shells that marked their first change of the host
  pc,       \* where each shell's request to the utility is
  req,      \* that request
  events,   \* operation -> the last sequence and generation on the event descriptor
  changed,  \* operations that changed the host
  faults,   \* requests that failed and power losses so far
  landed    \* history: shells whose unacknowledged checkpoint is in the journal

store == <<disk, synced, linked>>
lock == <<owner, alive, fd, env>>
view == <<gen, unsure, mark>>
request == <<pc, req, writer>>
vars == <<store, lock, view, request, events, changed, faults, landed>>

-----------------------------------------------------------------------------
(* The journal contract *)

PreMutation == {"planned", "staged", "verified", "recovery_saved"}
Progress == {"applying", "checking", "recovering"}
State == PreMutation \cup Progress \cup
         {"committed", "recovered", "recovery_required", "interrupted"}
Outcome == {"committed", "recovered", "refused", "interrupted", "manual"}

Initial(kind) == IF kind = "legacy" THEN "applying" ELSE "planned"

\* Mutant: an interrupted transaction may only be recovered.
Transitions_RecoverOnly(kind, state) ==
  CASE state = "planned"        -> {"staged", "interrupted"}
    [] state = "staged"         -> {"verified", "interrupted"}
    [] state = "verified"       -> {"recovery_saved", "applying", "interrupted"}
    [] state = "recovery_saved" -> {"applying", "interrupted"}
    [] state = "applying"       -> {"checking", "recovering", "recovery_required", "interrupted"}
    [] state = "checking"       -> {"committed", "recovering", "recovery_required", "interrupted"}
    [] state = "recovering"     -> {"recovered", "recovery_required", "interrupted"}
    [] state \in {"recovery_required", "interrupted"} -> {"recovering"}
    [] OTHER                    -> {}

\* What may follow a state.  A legacy record has no way on from
\* recovery_required or interrupted.
Transitions(kind, state) ==
  CASE state = "planned"        -> {"staged", "interrupted"}
    [] state = "staged"         -> {"verified", "interrupted"}
    [] state = "verified"       -> {"recovery_saved", "applying", "interrupted"}
    [] state = "recovery_saved" -> {"applying", "interrupted"}
    [] state = "applying"       -> {"checking", "recovering", "recovery_required", "interrupted"}
                                   \cup (IF kind = "legacy" THEN {"committed"} ELSE {})
    [] state = "checking"       -> {"committed", "recovering", "recovery_required", "interrupted"}
    [] state = "recovering"     -> {"recovered", "recovery_required", "interrupted"}
    [] state = "recovery_required" /\ kind # "legacy" -> {"recovering"}
    [] state = "interrupted" /\ kind # "legacy" -> {"recovering", "recovery_required"}
    [] OTHER                    -> {}

is_transition(kind, source, target) ==
  /\ target \in Transitions(kind, source)
  /\ source = "verified" /\ target = "applying" => kind = "install"

Record == [state : State, step : BOOLEAN, outcome : Outcome \cup {None}, abandoned : BOOLEAN]

Plain(state) == [state |-> state, step |-> FALSE, outcome |-> None, abandoned |-> FALSE]
Closing(state, outcome) == [Plain(state) EXCEPT !.outcome = outcome]

finished(j) == j.outcome # None
in_progress(j) == ~finished(j) /\ j.state \notin {"recovery_required", "interrupted"}

\* Mutant: an interruption closes an operation in whatever phase it was.
_checkpoint_rules_AnyPhase(r, source) ==
  /\ r.step => r.state \in Progress
  /\ r.abandoned => r.state = "interrupted"
  /\ \A closing \in {"committed", "recovered"} : (r.state = closing) <=> (r.outcome = closing)
  /\ r.outcome = "refused" => r.state \in PreMutation
  /\ r.outcome = "interrupted" => r.state = "interrupted"
  /\ r.outcome = "manual" => r.state = "recovery_required" /\ source = "recovery_required"

\* What a record says by itself, given the state of the record before it.
_checkpoint_rules(r, source) ==
  /\ r.step => r.state \in Progress
  /\ r.abandoned => r.state = "interrupted"
  /\ \A closing \in {"committed", "recovered"} : (r.state = closing) <=> (r.outcome = closing)
  /\ r.outcome = "refused" => r.state \in PreMutation
  /\ r.outcome = "interrupted" <=> (r.state = "interrupted" /\ source \in PreMutation)
  /\ (r.state = "interrupted" /\ source \notin PreMutation) => r.abandoned
  /\ r.outcome = "manual" => r.state = "recovery_required" /\ source = "recovery_required"

Attempts(j, r) ==
  j.attempts + IF r.state = "recovering" /\ j.state # "recovering" THEN 1 ELSE 0

\* Whether the contract lets r follow (or, for a later step of the same
\* state, replace) the last record of journal j.
_journal_rules(j, r) ==
  /\ ~finished(j)
  /\ _checkpoint_rules(r, j.state)
  /\ Attempts(j, r) <= MaxAttempts
  /\ IF r.state = j.state THEN \/ r.step
                               \/ r.outcome \in {"refused", "manual"}
                          ELSE is_transition(j.kind, j.state, r.state)

Nothing == [journal |-> [kind |-> None, generation |-> 0], counter |-> 0]
exists(o) == disk[o] # Nothing

\* A journal with its counter.
Entry ==
  [journal : [kind : {"transaction", "install", "legacy"}, generation : Nat \ {0}, sequence : Nat,
              state : State, step : BOOLEAN, outcome : Outcome \cup {None}, attempts : Nat],
   counter : Nat]

\* What validation asks of a journal it reads, as far as its last record shows:
\* a closing state is closed, a legacy record is past its first change, and
\* the attempts were counted.
Sound(j) ==
  /\ \A closing \in {"committed", "recovered"} : (j.state = closing) <=> (j.outcome = closing)
  /\ j.kind = "legacy" => j.state \notin PreMutation /\ j.outcome # "interrupted"
  /\ j.attempts <= MaxAttempts

\* Shells ask for records, and the host comes up with journals that are valid.
ASSUME JournalAssumption ==
  /\ Ask \subseteq Record
  /\ \A past \in Past : past \in Entry /\ Sound(past.journal)

Journal(kind) ==
  [kind |-> kind, generation |-> 1, sequence |-> 1, state |-> Initial(kind),
   step |-> FALSE, outcome |-> None, attempts |-> 0]

\* Above both the counter and the journal's last sequence.
_next_sequence(o) ==
  IF disk[o].counter >= disk[o].journal.sequence
    THEN disk[o].counter + 1 ELSE disk[o].journal.sequence + 1

\* The journal with record r as its last one.
_next_journal(o, r) ==
  LET j == disk[o].journal IN
    [j EXCEPT !.generation = @ + 1, !.sequence = _next_sequence(o), !.state = r.state,
              !.step = r.step, !.outcome = r.outcome, !.attempts = Attempts(j, r)]

-----------------------------------------------------------------------------
(* The host lock *)

Fault == faults < MaxFaults /\ faults' = faults + 1

NoRequest == [type |-> "none"]
Held == fd # {}

\* The shell's own variables go with it.
Forget(p) ==
  /\ gen' = [gen EXCEPT ![p] = 0]
  /\ unsure' = unsure \ {p}
  /\ mark' = mark \ {p}
  /\ landed' = landed \ {p}

\* cb_lifecycle_lock_acquire in a new process: it takes the free lock and
\* records itself as the owner, bound to no operation.
Acquire(p) ==
  /\ ~Held
  /\ alive' = alive \cup {p}
  /\ fd' = {p}
  /\ owner' = [pid |-> p, operation |-> None]
  /\ UNCHANGED <<store, env, view, request, events, changed, faults, landed>>

\* A child joins the lock its parent handed down; its operation must be the
\* one the lock is bound to.
Inherit(p, c) ==
  /\ p \in alive \cap fd
  /\ pc[p] = "idle"
  /\ c \notin fd
  /\ EarlyHandoff \/ env[p] # None
  /\ env[p] = owner.operation
  /\ alive' = alive \cup {c}
  /\ fd' = fd \cup {c}
  /\ env' = [env EXCEPT ![c] = env[p]]
  /\ UNCHANGED <<store, owner, view, request, events, changed, faults, landed>>

\* A shell ends, by itself or killed.  A utility it started runs on and
\* still holds the lock.
Leave(p) ==
  /\ p \in alive
  /\ alive' = alive \ {p}
  /\ Forget(p)
  /\ IF pc[p] \in {"idle", "answered"}
       THEN /\ fd' = fd \ {p}
            /\ env' = [env EXCEPT ![p] = None]
            /\ pc' = [pc EXCEPT ![p] = "idle"]
            /\ req' = [req EXCEPT ![p] = NoRequest]
       ELSE UNCHANGED <<fd, env, pc, req>>
  /\ UNCHANGED <<store, owner, writer, events, changed, faults>>

\* Power loss: every process is gone, and of the renames not synced only
\* those of some operations reached the disk.
PowerLoss ==
  /\ \E kept \in SUBSET Op :
       disk' = [o \in Op |-> CASE o \in kept -> disk[o]
                               [] o \in linked \ kept -> synced[o]
                               [] OTHER -> Nothing]
  /\ synced' = disk'
  /\ linked' = {o \in Op : disk'[o] # Nothing}
  /\ alive' = {} /\ fd' = {} /\ unsure' = {} /\ mark' = {} /\ landed' = {}
  /\ writer' = None
  /\ env' = [p \in Shell |-> None]
  /\ gen' = [p \in Shell |-> 0]
  /\ pc' = [p \in Shell |-> "idle"]
  /\ req' = [p \in Shell |-> NoRequest]
  /\ Fault
  /\ UNCHANGED <<owner, events, changed>>

-----------------------------------------------------------------------------
(* What a shell asks for *)

\* The utility proves the host lock, and that its owner bound the operation
\* this request names, before it waits for the writer lock.
require_lock(p) == p \in fd /\ owner.operation = env[p]

Send(p, type, ask) ==
  /\ require_lock(p)
  /\ pc' = [pc EXCEPT ![p] = "queued"]
  /\ req' = [req EXCEPT ![p] = [type |-> type, ask |-> ask]]
  /\ UNCHANGED writer

\* The number after the highest one used.
NextOp == 1 + Max({0} \cup {o \in Op : exists(o)})

Room == MapThenSumSet(LAMBDA o : disk[o].journal.generation, Op) < MaxWrites

Ready(p) == p \in alive \cap fd /\ pc[p] = "idle"

cb_lifecycle_begin(p, kind) ==
  /\ Ready(p)
  /\ NextOp \in Op /\ kind \in Kinds[NextOp]
  /\ Send(p, "begin", kind)
  /\ UNCHANGED <<store, lock, view, events, changed, faults, landed>>

cb_lifecycle_list(p) ==
  /\ Ready(p)
  /\ Send(p, "list", None)
  /\ UNCHANGED <<store, lock, view, events, changed, faults, landed>>

cb_lifecycle_emit(p) ==
  /\ Ready(p)
  /\ env[p] # None
  /\ MapThenSumSet(LAMBDA o : disk[o].counter, Op) < MaxEmit
  /\ Send(p, "emit", None)
  /\ UNCHANGED <<store, lock, view, events, changed, faults, landed>>

\* Mutant: the shell forgets that an answer is missing.
Stale_Never(p) == FALSE

\* A shell whose last checkpoint went unacknowledged finds the journal moved:
\* the record may be its own.
Stale(p) == p \in unsure /\ disk[env[p]].journal.generation # gen[p]

\* inspect learns the generation without the writer lock; the checkpoint
\* request then names it as the expected one.
Inspect(p, r) ==
  LET j == disk[env[p]].journal IN
    /\ env[p] # None /\ exists(env[p])
    /\ ~Stale(p)
    /\ Room
    /\ Send(p, "checkpoint", [record |-> r, expected |-> j.generation])

\* A shell records the progress it made, in a form its journal allows when
\* it looks.
cb_lifecycle_checkpoint(p, r) ==
  /\ Ready(p)
  /\ r.state # "interrupted"
  /\ Inspect(p, r)
  /\ _journal_rules(disk[env[p]].journal, r)
  /\ gen' = [gen EXCEPT ![p] = disk[env[p]].journal.generation]
  /\ unsure' = unsure \cup {p}
  /\ UNCHANGED <<store, lock, mark, events, changed, faults, landed>>

\* INT or TERM: the trap runs once the foreground command has ended, which may
\* be before the shell took notice of its answer.  It records what the mark
\* tells it, waits for that request, whatever its answer, and exits.  (Where a
\* script's EXIT trap goes on to record a failure, it is a shell that lives on
\* after this record: cb_lifecycle_checkpoint.)
cb_lifecycle_interrupted(p) ==
  /\ p \in alive \cap fd
  /\ pc[p] \in {"idle", "answered"}
  /\ Inspect(p, IF p \in mark THEN Plain("recovery_required")
                             ELSE Closing("interrupted", "interrupted"))
  /\ alive' = alive \ {p}
  /\ Forget(p)
  /\ UNCHANGED <<store, owner, fd, env, events, changed, faults>>

\* An entrypoint of a legacy record, which starts at applying, marks its
\* first change itself.  (The function asks for nothing; no script begins
\* anything but a legacy operation, and a transaction's mark is its applying.)
cb_lifecycle_mark_mutation(p) ==
  /\ Ready(p)
  /\ p \notin mark
  /\ env[p] # None /\ exists(env[p]) /\ disk[env[p]].journal.kind = "legacy"
  /\ mark' = mark \cup {p}
  /\ UNCHANGED <<store, lock, gen, unsure, request, events, changed, faults, landed>>

\* A shell changes the host: once it has marked the change, and not after a
\* checkpoint that failed.
Change(p) ==
  /\ Ready(p)
  /\ p \in mark /\ p \notin unsure
  /\ env[p] \notin changed
  /\ changed' = changed \cup {env[p]}
  /\ UNCHANGED <<store, lock, view, request, events, faults, landed>>

-----------------------------------------------------------------------------
(* The state utility *)

\* The request ends, and the utility's locks with it.  Only the
\* acknowledgement of a begin or of a checkpoint tells the shell anything.
Answer(p, ack) ==
  /\ pc' = [pc EXCEPT ![p] = IF ack /\ p \in alive THEN "answered" ELSE "idle"]
  /\ req' = [req EXCEPT ![p] = IF ack /\ p \in alive THEN @ ELSE NoRequest]
  /\ writer' = IF writer = p THEN None ELSE writer
  /\ fd' = IF p \in alive THEN fd ELSE fd \ {p}
  /\ env' = IF p \in alive THEN env ELSE [env EXCEPT ![p] = None]

\* How far a pair of atomic replaces (the counter, then the journal) gets: it
\* is not begun, ends after the counter, ends with the rename visible and not
\* synced, or is durable.  A killed utility stops at one of the first three.
Reach == {"none", "counter", "visible", "durable"}

\* Mutant: the rename is taken for durable before the directory is synced.
Replace_Unsynced(o, entry, reach) ==
  /\ disk' = [disk EXCEPT ![o] = CASE reach = "none"    -> disk[o]
                                   [] reach = "counter" -> [disk[o] EXCEPT !.counter = entry.counter]
                                   [] OTHER             -> entry]
  /\ UNCHANGED synced

Replace(o, entry, reach) ==
  LET new == CASE reach = "none"    -> disk[o]
               [] reach = "counter" -> [disk[o] EXCEPT !.counter = entry.counter]
               [] OTHER             -> entry
  IN  /\ disk' = [disk EXCEPT ![o] = new]
      /\ synced' = IF reach = "none" THEN synced
                   ELSE [synced EXCEPT ![o] = IF reach = "visible"
                           THEN [disk[o] EXCEPT !.counter = entry.counter] ELSE new]

\* Mutant: the writer lock is released before the event goes out.
Wrote_LockFirst(p, o, reach, sequence, generation) ==
  IF reach = "durable"
    THEN /\ pc' = [pc EXCEPT ![p] = "written"]
         /\ writer' = None
         /\ req' = [req EXCEPT ![p] = [type |-> @.type, ask |-> @.ask, operation |-> o,
                      event |-> [sequence |-> sequence, generation |-> generation]]]
         /\ UNCHANGED <<fd, env, faults>>
    ELSE Answer(p, FALSE) /\ Fault

\* After a write to operation o, durable or not: its event is to go out, or
\* the request failed.
Wrote(p, o, reach, sequence, generation) ==
  IF reach = "durable"
    THEN /\ pc' = [pc EXCEPT ![p] = "written"]
         /\ writer' = p
         /\ req' = [req EXCEPT ![p] = [type |-> @.type, ask |-> @.ask, operation |-> o,
                      event |-> [sequence |-> sequence, generation |-> generation]]]
         /\ UNCHANGED <<fd, env, faults>>
    ELSE Answer(p, FALSE) /\ Fault

\* The request is refused before anything is written.
Refuse(p) ==
  /\ Answer(p, FALSE)
  /\ UNCHANGED <<store, owner, alive, view, events, changed, faults, landed>>

\* A checkpoint is written only onto the generation its request expects.
handle_checkpoint(p) ==
  LET o == env[p]
      r == req[p].ask.record
      j == disk[o].journal
  IN  /\ pc[p] = "queued" /\ writer = None
      /\ req[p].type = "checkpoint"
      /\ IF /\ o # None /\ exists(o)
            /\ req[p].ask.expected = j.generation
            /\ _journal_rules(j, r)
           THEN \E reach \in Reach :
                  /\ Replace(o, [journal |-> _next_journal(o, r), counter |-> _next_sequence(o)], reach)
                  /\ Wrote(p, o, reach, _next_sequence(o), j.generation + 1)
                  /\ landed' = IF reach \in {"visible", "durable"} THEN landed \cup ({p} \cap alive) ELSE landed
                  /\ UNCHANGED <<linked, owner, alive, view, events, changed>>
           ELSE Refuse(p)

\* Only the counter is written.
handle_emit(p) ==
  LET o == env[p] IN
    /\ pc[p] = "queued" /\ writer = None
    /\ req[p].type = "emit"
    /\ IF exists(o)
         THEN \E reach \in Reach \ {"counter"} :
                /\ disk' = IF reach = "none" THEN disk
                           ELSE [disk EXCEPT ![o].counter = _next_sequence(o)]
                /\ synced' = IF reach = "durable" THEN [synced EXCEPT ![o] = disk'[o]] ELSE synced
                /\ Wrote(p, o, reach, _next_sequence(o), 0)
                /\ UNCHANGED <<linked, owner, alive, view, events, changed, landed>>
         ELSE Refuse(p)

\* begin and list take the writer lock for a while; a begin under a bound lock
\* is refused at once.
_locked_tree(p) ==
  /\ pc[p] = "queued" /\ writer = None
  /\ req[p].type \in {"begin", "list"}
  /\ IF req[p].type = "begin" /\ env[p] # None
       THEN Refuse(p)
       ELSE /\ pc' = [pc EXCEPT ![p] = "locked"]
            /\ writer' = p
            /\ UNCHANGED <<store, lock, view, req, events, changed, faults, landed>>

\* Mutant: every operation in progress, the lock's own one too.
Killed_All(p) == {o \in Op : exists(o) /\ in_progress(disk[o].journal)}

\* Operations in progress that the lock is not bound to.
Killed(p) == {o \in Op : exists(o) /\ o # env[p] /\ in_progress(disk[o].journal)}

Abandoned(o) ==
  [state |-> "interrupted", step |-> FALSE, abandoned |-> TRUE,
   outcome |-> IF disk[o].journal.state \in PreMutation THEN "interrupted" ELSE None]

\* reconcile records the interruption of one of them.  There always is a legal
\* record: without one, list and begin would warn and go on, and here they would
\* stop, which the runs look for.  The directory just read can be opened.
_abandon(p, o) ==
  /\ pc[p] = "locked"
  /\ o \in Killed(p)
  /\ \A x \in Killed(p) : o <= x
  /\ _journal_rules(disk[o].journal, Abandoned(o))
  /\ \E reach \in Reach :
       /\ Replace(o, [journal |-> _next_journal(o, Abandoned(o)), counter |-> _next_sequence(o)], reach)
       /\ IF reach = "durable" THEN UNCHANGED <<pc, fd, req, env, writer, faults>>
                              ELSE Answer(p, FALSE) /\ Fault
  /\ UNCHANGED <<linked, owner, alive, view, events, changed, landed>>

\* list has reconciled and rewrites the index.
handle_list(p) ==
  /\ pc[p] = "locked"
  /\ req[p].type = "list"
  /\ Killed(p) = {}
  /\ Answer(p, FALSE)
  /\ UNCHANGED <<store, owner, alive, view, events, changed, faults, landed>>

\* Mutant: an interrupted transaction does not block.
Blocking_InProgress ==
  {o \in Op : exists(o) /\ disk[o].journal.kind # "legacy" /\ in_progress(disk[o].journal)}

Blocking ==
  {o \in Op : exists(o) /\ disk[o].journal.kind # "legacy" /\ ~finished(disk[o].journal)}

\* begin has reconciled: unless an unfinished transaction blocks it, or for a
\* transaction a record that cannot be read (Doubtful), it writes the first
\* record in a staging directory and renames that into place.
handle_begin(p) ==
  /\ pc[p] = "locked"
  /\ req[p].type = "begin"
  /\ Killed(p) = {}
  /\ IF Blocking # {} \/ NextOp \notin Op \/ (Doubtful /\ req[p].ask # "legacy")
       THEN Refuse(p)
       ELSE LET o == NextOp
                new == [journal |-> Journal(req[p].ask), counter |-> 1]
            IN  \E reach \in Reach \ {"counter"} :
                  /\ IF reach = "none"
                       THEN UNCHANGED store
                       ELSE /\ disk' = [disk EXCEPT ![o] = new]
                            /\ synced' = [synced EXCEPT ![o] = new]
                            /\ linked' = IF reach = "durable"
                                           THEN linked \cup {o} \cup {x \in Op : exists(x)}
                                           ELSE linked
                  /\ Wrote(p, o, reach, 1, 1)
                  /\ UNCHANGED <<owner, alive, view, events, changed, landed>>

\* An emitted event names no generation.
Announced(last, event) ==
  [sequence |-> event.sequence,
   generation |-> IF event.generation = 0 THEN last.generation ELSE event.generation]

\* The event goes to the descriptor while the writer lock is still held, and
\* then the request ends.  A utility killed before or after that has recorded
\* what it was asked to and does not say so.
EventSink_write(p) ==
  /\ pc[p] = "written"
  /\ \E told \in BOOLEAN, ok \in BOOLEAN :
       /\ ok => told
       /\ events' = IF told THEN [events EXCEPT ![req[p].operation] = Announced(@, req[p].event)]
                            ELSE events
       /\ Answer(p, ok /\ req[p].type # "emit")
       /\ IF ok THEN UNCHANGED faults ELSE Fault
  /\ UNCHANGED <<store, owner, alive, view, changed, landed>>

-----------------------------------------------------------------------------
(* The shell reads its answer *)

\* The acknowledgement binds the lock to the operation begun, or confirms the
\* generation and marks the mutation an applying record announces.
cb_lifecycle_read_ack(p) ==
  /\ p \in alive
  /\ pc[p] = "answered"
  /\ pc' = [pc EXCEPT ![p] = "idle"]
  /\ req' = [req EXCEPT ![p] = NoRequest]
  /\ IF req[p].type = "begin"
       THEN \/ /\ owner.pid = p
               /\ owner.operation \in {None, req[p].operation}
               /\ owner' = [owner EXCEPT !.operation = req[p].operation]
               /\ env' = [env EXCEPT ![p] = req[p].operation]
               /\ gen' = [gen EXCEPT ![p] = 1]
               /\ unsure' = unsure \ {p}
               /\ UNCHANGED <<mark, faults, landed>>
            \* the owner record is another shell's, or cannot be written
            \/ owner.pid # p /\ UNCHANGED <<owner, env, view, faults, landed>>
            \/ Fault /\ UNCHANGED <<owner, env, view, landed>>
       ELSE /\ gen' = [gen EXCEPT ![p] = req[p].ask.expected + 1]
            /\ unsure' = unsure \ {p}
            /\ mark' = IF req[p].ask.record.state = "applying" THEN mark \cup {p} ELSE mark
            /\ landed' = landed \ {p}
            /\ UNCHANGED <<owner, env, faults>>
  /\ UNCHANGED <<store, alive, fd, writer, events, changed>>

-----------------------------------------------------------------------------
Init ==
  /\ \E past \in Past \cup {Nothing} :
       disk = [o \in Op |-> IF o = 1 THEN past ELSE Nothing]
  /\ synced = disk
  /\ linked = {o \in Op : exists(o)}
  /\ owner = [pid |-> None, operation |-> None]
  /\ alive = {} /\ fd = {} /\ unsure = {} /\ mark = {} /\ landed = {}
  /\ writer = None
  /\ env = [p \in Shell |-> None]
  /\ gen = [p \in Shell |-> 0]
  /\ pc = [p \in Shell |-> "idle"]
  /\ req = [p \in Shell |-> NoRequest]
  /\ events = [o \in Op |-> [sequence |-> 0, generation |-> 0]]
  /\ changed = {}
  /\ faults = 0

Shells(p) ==
  \/ Acquire(p)
  \/ \E c \in Shell \ {p} : Inherit(p, c)
  \/ Leave(p)
  \/ \E kind \in UNION Range(Kinds) : cb_lifecycle_begin(p, kind)
  \/ cb_lifecycle_list(p)
  \/ cb_lifecycle_emit(p)
  \/ \E r \in Ask : cb_lifecycle_checkpoint(p, r)
  \/ cb_lifecycle_interrupted(p)
  \/ cb_lifecycle_mark_mutation(p)
  \/ Change(p)
  \/ cb_lifecycle_read_ack(p)

Utility(p) ==
  \/ handle_checkpoint(p)
  \/ handle_emit(p)
  \/ _locked_tree(p)
  \/ \E o \in Op : _abandon(p, o)
  \/ handle_list(p)
  \/ handle_begin(p)
  \/ EventSink_write(p)

Next ==
  \/ \E p \in Shell : Shells(p) \/ Utility(p)
  \/ PowerLoss

Spec == Init /\ [][Next]_vars

-----------------------------------------------------------------------------
(* Properties *)

\* What a request carries, by its kind and by how far it got.
RequestOK(p) ==
  /\ pc[p] # "idle" =>
       /\ req[p].type \in {"begin", "list", "emit", "checkpoint"}
       /\ req[p].type = "begin" => req[p].ask \in {"transaction", "install", "legacy"}
       /\ req[p].type = "checkpoint" => req[p].ask \in [record : Record, expected : Nat]
  /\ pc[p] = "locked" => req[p].type \in {"begin", "list"}
  /\ pc[p] = "written" => req[p].type # "list"
  /\ pc[p] = "answered" => req[p].type \in {"begin", "checkpoint"}
  /\ pc[p] \in {"written", "answered"} => /\ req[p].operation \in Op
                                          /\ req[p].event \in [sequence : Nat, generation : Nat]

\* Journals and requests are what the contract says, and every set and function
\* ranges over shells and operations.
TypeOK ==
  /\ disk \in [Op -> Entry \cup {Nothing}] /\ synced \in [Op -> Entry \cup {Nothing}]
  /\ linked \subseteq Op /\ changed \subseteq Op
  /\ alive \subseteq fd /\ fd \subseteq Shell
  /\ unsure \subseteq alive /\ mark \subseteq alive /\ landed \subseteq alive
  /\ owner \in [pid : Shell \cup {None}, operation : Op \cup {None}]
  /\ writer \in Shell \cup {None}
  /\ env \in [Shell -> Op \cup {None}]
  /\ gen \in [Shell -> Nat]
  /\ pc \in [Shell -> {"idle", "queued", "locked", "written", "answered"}]
  /\ DOMAIN req = Shell /\ \A p \in Shell : RequestOK(p)
  /\ events \in [Op -> [sequence : Nat, generation : Nat]]

\* p's checkpoint becomes the last record of its journal.
Lands(p) == /\ pc[p] = "queued" /\ pc'[p] # "queued" /\ req[p].type = "checkpoint"
            /\ disk'[env[p]].journal.generation > disk[env[p]].journal.generation

\* A checkpoint whose answer was lost, and that is in the journal all the same,
\* is never followed by another one of the shell that sent it: the shell
\* cannot know the record is its own, and does not build on it.
UnansweredIsLast ==
  [][\A p \in Shell : Lands(p) => p \notin landed]_vars

\* What a checkpoint event or an acknowledgement announced survives power
\* loss: the generation it names, or a later one, is in the synced journal.
ToldIsDurable ==
  LET survives(o, g) == o \in linked /\ synced[o].journal.generation >= g IN
    /\ \A o \in Op : events[o].generation > 0 => survives(o, events[o].generation)
    /\ \A p \in alive \ unsure : env[p] # None => survives(env[p], gen[p])

\* The descriptor carries an operation's events in the order of their
\* sequences and no sequence twice, although several processes spend them
\* and some fail after spending one.
EventsRise ==
  [][\A p \in Shell :
       pc[p] = "written" /\ (pc'[p] = "answered" \/ events' # events)
         => events[req[p].operation].sequence < req[p].event.sequence]_vars

\* Transactions that are not closed.
Unfinished ==
  {o \in Op : exists(o) /\ disk[o].journal.kind # "legacy" /\ disk[o].journal.outcome = None}

\* No process makes a second transaction unfinished: none is begun while
\* another one still needs recovery, however that one's process ended.  Only
\* power loss may, when it undoes a closing record that was visible and not
\* yet synced.
OneTransaction ==
  [][(\A o \in Op : disk'[o].journal.generation >= disk[o].journal.generation)
       => \/ Cardinality(Unfinished') <= 1
          \/ Cardinality(Unfinished') <= Cardinality(Unfinished)]_vars

\* An operation closed as interrupted, which the contract reads as "nothing
\* was changed", changed nothing: neither a trap of a shell that does not
\* know its child's mark nor the reconciliation of a killed one closes an
\* operation after its first change.
InterruptedIsUntouched ==
  \A o \in changed : exists(o) => disk[o].journal.outcome # "interrupted"

\* A live shell's operation: it is bound to it, or its begin succeeded.
Running(o) ==
  \E p \in alive : \/ env[p] = o
                   \/ /\ pc[p] = "answered" /\ req[p].type = "begin"
                      /\ req[p].operation = o

\* Reconciliation records the interruption of operations whose processes are
\* gone, never of one that a live holder of the lock is carrying out.
OnlyKilledAbandoned ==
  [][\A o \in Op :
       (\E p \in Shell : /\ pc[p] = "locked" /\ exists(o)
                         /\ disk'[o].journal.generation > disk[o].journal.generation)
         => ~Running(o)]_vars

\* An unfinished transaction blocks every later one, so it always has a way
\* out: at most two records the contract allows close it, also when it was
\* interrupted after its last recovery attempt.
AlwaysClosable ==
  LET closable(j) == \E state \in State, outcome \in Outcome :
                       _journal_rules(j, Closing(state, outcome))
      after(j, state) == [j EXCEPT !.state = state, !.step = FALSE, !.attempts = Attempts(j, Plain(state))]
  IN  \A o \in Unfinished :
        LET j == disk[o].journal IN
          \/ closable(j)
          \/ \E state \in State : _journal_rules(j, Plain(state)) /\ closable(after(j, state))

=============================================================================
