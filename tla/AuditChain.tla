----------------------------- MODULE AuditChain -----------------------------
(***************************************************************************)
(* The hash-chained audit log: write_log, the spool of deferred entries    *)
(* and its drain, the retention purge with its checkpoint, verification    *)
(* and repair, as concurrent PostgreSQL transactions at READ COMMITTED.    *)
(*                                                                         *)
(* An action is one statement, or the last statement and the commit; each  *)
(* reads the rows committed when it runs and its own.  What orders the     *)
(* transactions are three kinds of lock: each process's _AUDIT_CHAIN_LOCK, *)
(* the audit-chain advisory lock, and the app_settings row.                *)
(*                                                                         *)
(* Entries are numbered in the order the audited actions happen, and the   *)
(* number serves as timestamp.  A row's log_hash is a function of its      *)
(* entry and its previous_hash, and an entry's content never changes.      *)
(***************************************************************************)
EXTENDS Integers, Sequences, FiniteSets, SeqFolds

CONSTANTS
  Writer, Drainer, Purger, Verifier, Repairer,   \* sets of transactions
  Process,      \* server processes
  Home,         \* the process of each actor
  Kinds,        \* how the writers call write_log
  Nobody,       \* the holder of a free lock
  Genesis,      \* previous_hash of the first row, NULL
  Hash(_, _),   \* compute_log_hash
  DrainBatch,   \* DRAIN_BATCH_SIZE
  PurgeBatch,   \* _PURGE_BATCH_ROWS
  InitLog,      \* rows already in the log
  Cuts,         \* sets of its rows that may have been deleted by hand
  MaxEntry,     \* bound: audited actions
  MaxFaults     \* bound: transactions that fail

Actor == Writer \cup Drainer \cup Purger \cup Verifier \cup Repairer
Entry == 1..MaxEntry
NoEntry == 0
HashOf(row) == Hash(row.entry, row.prev)

\* Each row of s, from the second on, names its predecessor.
Linked(s) == \A i \in 2..Len(s) : s[i].prev = HashOf(s[i - 1])

ASSUME AuditAssumption ==
  /\ Home \in [Actor -> Process]
  /\ Kinds \subseteq {"request", "settings", "background"}
  /\ Nobody \notin Actor
  /\ Drainer \cap (Writer \cup Purger \cup Verifier \cup Repairer) = {}
  /\ Repairer \cap (Writer \cup Purger) = {}
  /\ {DrainBatch, PurgeBatch} \subseteq Nat \ {0}
  /\ {MaxEntry, MaxFaults} \subseteq Nat

\* The log the system starts from was written by write_log alone.
ASSUME InitLogAssumption ==
  /\ InitLog \in Seq([entry : Entry, prev : {InitLog[i].prev : i \in DOMAIN InitLog}])
  /\ \A i \in DOMAIN InitLog : InitLog[i].entry = i
  /\ InitLog # <<>> => InitLog[1].prev = Genesis
  /\ Linked(InitLog)
  /\ Cuts # {} /\ \A cut \in Cuts : cut \subseteq DOMAIN InitLog

VARIABLES
  \* the database
  log,          \* rows of logs by id, deleted ones included
  present,      \* ids of the rows not deleted
  checkpoint,   \* app_settings.audit_chain_checkpoint_hash
  pending,      \* pending_audit_logs, oldest first
  \* the locks
  processLock, chainLock, settingsLock,
  \* the transactions
  pc,           \* each actor's next statement
  kind, ent,    \* how its write_log was called and the entry it writes
  got,          \* the hash last read: chain tail, purge tip or walk seed
  mark,         \* the id last read: purge bound or tip, next row to repair
  past,         \* the cutoff a purge computed
  purged,       \* whether a purge has deleted rows
  batch, rows,  \* a drain's selected entries not chained yet, and its new rows
  relinked,     \* the new previous_hash of the rows a repair has rewritten
  verdict,      \* what a verification returned
  \* history and time
  happened,     \* audited actions so far
  lost,         \* entries whose write failed
  faults,       \* transactions that failed
  cutoff        \* entries below it are past retention

db         == <<log, present, checkpoint, pending>>
locks      == <<processLock, chainLock, settingsLock>>
writeVars  == <<kind, ent, happened, lost, faults>>
purgeVars  == <<past, purged, cutoff>>
drainVars  == <<batch, rows>>
verifyVars == <<relinked, verdict>>
vars == <<db, locks, pc, got, mark, writeVars, purgeVars, drainVars, verifyVars>>

Init ==
  /\ log = InitLog
  /\ \E cut \in Cuts : present = (1..Len(InitLog)) \ cut
  /\ checkpoint = Genesis
  /\ pending = <<>>
  /\ processLock = [p \in Process |-> Nobody]
  /\ chainLock = Nobody /\ settingsLock = Nobody
  /\ pc = [a \in Actor |-> "idle"]
  /\ kind = [a \in Actor |-> "background"]
  /\ ent = [a \in Actor |-> NoEntry]
  /\ got = [a \in Actor |-> Genesis]
  /\ mark = [a \in Actor |-> 0]
  /\ past = [a \in Actor |-> 1]
  /\ purged = [a \in Actor |-> FALSE]
  /\ batch = [a \in Actor |-> <<>>]
  /\ rows = [a \in Actor |-> <<>>]
  /\ relinked = [a \in Actor |-> <<>>]
  /\ verdict = [a \in Actor |-> "none"]
  /\ happened = Len(InitLog) /\ lost = {} /\ faults = 0 /\ cutoff = 1

-----------------------------------------------------------------------------
(* What statements read.                                                   *)

IsLast(i)  == i \in present /\ \A j \in present : j <= i
IsFirst(i) == i \in present /\ \A j \in present : i <= j

\* i and j are neighbours in the table's id order.
Adjacent(i, j) ==
  /\ i \in present /\ j \in present /\ i < j
  /\ ~ \E k \in present : i < k /\ k < j

\* The rows as transaction a sees them: the committed ones and its updates.
View(a) ==
  [i \in 1..Len(log) |->
     IF i \in DOMAIN relinked[a] THEN [log[i] EXCEPT !.prev = relinked[a][i]]
     ELSE log[i]]

\* Row i does not continue the walk that verify_audit_chain starts at seed.
Breaks(i, seed) ==
  \/ IsFirst(i) /\ log[i].prev # seed
  \/ \E j \in present : Adjacent(j, i) /\ log[i].prev # HashOf(log[j])

Goto(a, label) == pc' = [pc EXCEPT ![a] = label]

Read(a, h) == got' = [got EXCEPT ![a] = h]

\* The end of a's transaction and of its "with _AUDIT_CHAIN_LOCK".
Release(a) ==
  /\ processLock' = [p \in Process |->
       IF processLock[p] = a THEN Nobody ELSE processLock[p]]
  /\ chainLock' = IF chainLock = a THEN Nobody ELSE chainLock
  /\ settingsLock' = IF settingsLock = a THEN Nobody ELSE settingsLock

-----------------------------------------------------------------------------
(* write_log.                                                              *)

\* Bound: every repair that has started can still record itself.
Room == happened + Cardinality({r \in Repairer : pc[r] # "idle"}) < MaxEntry

\* The entry's fields, its time included, are fixed before any lock.
NewEntry(a, k) ==
  /\ happened < MaxEntry
  /\ happened' = happened + 1
  /\ ent' = [ent EXCEPT ![a] = happened + 1]
  /\ kind' = [kind EXCEPT ![a] = k]
  /\ Goto(a, "process")
  /\ UNCHANGED <<lost, faults>>

WriteLog(w, k) ==
  /\ pc[w] = "idle"
  /\ Room
  /\ NewEntry(w, k)
  /\ UNCHANGED <<db, locks, got, mark, purgeVars, drainVars, verifyVars>>

\* with _AUDIT_CHAIN_LOCK
EnterProcessLock(a) ==
  /\ pc[a] = "process"
  /\ processLock[Home[a]] = Nobody
  /\ processLock' = [processLock EXCEPT ![Home[a]] = a]
  /\ Goto(a, IF kind[a] = "settings" THEN "flush" ELSE "lock")
  /\ UNCHANGED <<db, chainLock, settingsLock, got, mark, writeVars, purgeVars,
                 drainVars, verifyVars>>

\* begin_nested flushes the caller's pending UPDATE of app_settings.
FlushSettings(w) ==
  /\ pc[w] = "flush"
  /\ settingsLock = Nobody
  /\ settingsLock' = w
  /\ Goto(w, "lock")
  /\ UNCHANGED <<db, processLock, chainLock, got, mark, writeVars, purgeVars,
                 drainVars, verifyVars>>

\* Mutant: an error of the lock statement is swallowed.
TakeChainLock_Unserialised(a) ==
  /\ pc[a] = "lock"
  /\ chainLock' = a
  /\ Goto(a, "tail")
  /\ UNCHANGED <<db, processLock, settingsLock, got, mark, writeVars, purgeVars,
                 drainVars, verifyVars>>

\* lock_audit_chain.  A transaction that holds the lock may take it again.
TakeChainLock(a) ==
  /\ pc[a] = "lock"
  /\ chainLock \in {Nobody, a}
  /\ chainLock' = a
  /\ Goto(a, "tail")
  /\ UNCHANGED <<db, processLock, settingsLock, got, mark, writeVars, purgeVars,
                 drainVars, verifyVars>>

\* AuditChainLockTimeout: the bounded wait of a background writer ends.
LockTimeout(a) ==
  /\ pc[a] = "lock"
  /\ a \in Writer \cup Purger
  /\ kind[a] = "background"
  /\ chainLock # Nobody
  /\ Release(a)
  /\ Goto(a, "defer")
  /\ UNCHANGED <<db, got, mark, writeVars, purgeVars, drainVars, verifyVars>>

\* audit_spool.defer
Defer(a) ==
  /\ pc[a] = "defer"
  /\ pending' = Append(pending, ent[a])
  /\ ent' = [ent EXCEPT ![a] = NoEntry]
  /\ Goto(a, "idle")
  /\ UNCHANGED <<log, present, checkpoint, locks, got, mark, kind, happened, lost,
                 faults, purgeVars, drainVars, verifyVars>>

\* The chain's tail is read under the lock, by write_log and by drain.
ReadTail(a) ==
  /\ pc[a] = "tail"
  /\ \/ present = {} /\ Read(a, Genesis)
     \/ \E i \in present : IsLast(i) /\ Read(a, HashOf(View(a)[i]))
  /\ Goto(a, IF a \in Drainer THEN "chain" ELSE "insert")
  /\ UNCHANGED <<db, locks, mark, writeVars, purgeVars, drainVars, verifyVars>>

\* The rest of _do_write: INSERT and COMMIT, of a repair's updates too.
Insert(a) ==
  /\ pc[a] = "insert"
  /\ log' = Append(View(a), [entry |-> ent[a], prev |-> got[a]])
  /\ present' = present \cup {Len(log) + 1}
  /\ ent' = [ent EXCEPT ![a] = NoEntry]
  /\ relinked' = [relinked EXCEPT ![a] = <<>>]
  /\ Release(a)
  /\ Goto(a, "idle")
  /\ UNCHANGED <<checkpoint, pending, got, mark, kind, happened, lost, faults,
                 purgeVars, drainVars, verdict>>

\* A database error or the death of the process: the transaction is rolled
\* back, and the entry that write_log or defer was writing is lost.
Fail(a) ==
  /\ faults < MaxFaults
  /\ faults' = faults + 1
  /\ pc[a] # "idle"
  /\ Release(a)
  /\ lost' = IF ent[a] = NoEntry THEN lost ELSE lost \cup {ent[a]}
  /\ ent' = [ent EXCEPT ![a] = NoEntry]
  /\ batch' = [batch EXCEPT ![a] = <<>>]
  /\ rows' = [rows EXCEPT ![a] = <<>>]
  /\ relinked' = [relinked EXCEPT ![a] = <<>>]
  /\ purged' = [purged EXCEPT ![a] = FALSE]
  /\ Goto(a, "idle")
  /\ UNCHANGED <<db, got, mark, kind, happened, past, cutoff, verdict>>

-----------------------------------------------------------------------------
(* audit_spool.drain.                                                      *)

\* Mutant: only a full batch is drained.
ReadPending_FullBatch(d) ==
  /\ pc[d] = "idle"
  /\ Len(pending) >= DrainBatch
  /\ batch' = [batch EXCEPT ![d] = SubSeq(pending, 1, DrainBatch)]
  /\ Goto(d, "lock")
  /\ UNCHANGED <<db, locks, got, mark, writeVars, purgeVars, rows, verifyVars>>

\* The batch is selected first, before the lock.
ReadPending(d) ==
  /\ pc[d] = "idle"
  /\ pending # <<>>
  /\ batch' = [batch EXCEPT ![d] =
       SubSeq(pending, 1, IF Len(pending) < DrainBatch THEN Len(pending)
                          ELSE DrainBatch)]
  /\ Goto(d, "lock")
  /\ UNCHANGED <<db, locks, got, mark, writeVars, purgeVars, rows, verifyVars>>

\* One turn of the loop: the next entry is linked to the one before it.
ChainRow(d) ==
  LET row == [entry |-> Head(batch[d]), prev |-> got[d]]
  IN
  /\ pc[d] = "chain"
  /\ batch[d] # <<>>
  /\ rows' = [rows EXCEPT ![d] = Append(@, row)]
  /\ batch' = [batch EXCEPT ![d] = Tail(@)]
  /\ Read(d, HashOf(row))
  /\ UNCHANGED <<db, locks, pc, mark, writeVars, purgeVars, verifyVars>>

\* Mutant: the chained rows stay in the spool.
StillPending_All(d) == pending

\* Mutant: the spool is emptied rather than relieved of the batch.
StillPending_None(d) == <<>>

\* The spool without the rows the drain deletes; deleting a row that is gone
\* already is no error.
StillPending(d) == Without(pending, {rows[d][i].entry : i \in DOMAIN rows[d]})

DrainCommit(d) ==
  /\ pc[d] = "chain"
  /\ batch[d] = <<>>
  /\ log' = log \o rows[d]
  /\ present' = present \cup Len(log) + 1 .. Len(log) + Len(rows[d])
  /\ pending' = StillPending(d)
  /\ rows' = [rows EXCEPT ![d] = <<>>]
  /\ Release(d)
  /\ Goto(d, "idle")
  /\ UNCHANGED <<checkpoint, got, mark, writeVars, purgeVars, batch, verifyVars>>

-----------------------------------------------------------------------------
(* purge_old_audit_logs.                                                   *)

Tick ==
  /\ cutoff <= happened
  /\ cutoff' = cutoff + 1
  /\ UNCHANGED <<db, locks, pc, got, mark, writeVars, past, purged, drainVars, verifyVars>>

\* A batch's transaction starts by locking the settings row; its cutoff is
\* the time then.
PurgeBegin(p) ==
  /\ pc[p] \in {"idle", "again"}
  /\ settingsLock = Nobody
  /\ settingsLock' = p
  /\ past' = [past EXCEPT ![p] = cutoff]
  /\ Goto(p, "max")
  /\ UNCHANGED <<db, processLock, chainLock, got, mark, writeVars, purged, cutoff,
                 drainVars, verifyVars>>

\* max_id; an empty table ends the purge.
PurgeMax(p) ==
  /\ pc[p] = "max"
  /\ \/ present = {} /\ Goto(p, "end") /\ UNCHANGED mark
     \/ \E i \in present :
          IsLast(i) /\ mark' = [mark EXCEPT ![p] = i] /\ Goto(p, "kept")
  /\ UNCHANGED <<db, locks, got, writeVars, purgeVars, drainVars, verifyVars>>

\* Mutant: every row up to the last expired one is deleted.
IsFirstKept_AfterLastOld(p, i) ==
  /\ i \in present
  /\ \A j \in present : j >= i => log[j].entry >= past[p]
  /\ \A k \in present : k < i => \E j \in k..i : j \in present /\ log[j].entry < past[p]

\* i is the lowest id whose timestamp is at or past the cutoff.
IsFirstKept(p, i) ==
  /\ i \in present
  /\ log[i].entry >= past[p]
  /\ \A j \in present : j < i => log[j].entry < past[p]

\* bound: first_kept_id if there is one, or max_id.
PurgeKept(p) ==
  /\ pc[p] = "kept"
  /\ \/ \E i \in present : IsFirstKept(p, i) /\ mark' = [mark EXCEPT ![p] = i]
     \/ ~ (\E i \in present : IsFirstKept(p, i)) /\ UNCHANGED mark
  /\ Goto(p, "ids")
  /\ UNCHANGED <<db, locks, got, writeVars, purgeVars, drainVars, verifyVars>>

\* i is the last of the (at most PurgeBatch) lowest ids below the bound.
IsTip(p, i) ==
  LET upTo(j) == {k \in present : k <= j}
  IN  /\ i \in present /\ i < mark[p]
      /\ Cardinality(upTo(i)) <= PurgeBatch
      /\ \A j \in present :
           j > i /\ j < mark[p] => Cardinality(upTo(j)) > PurgeBatch

PurgeIds(p) ==
  /\ pc[p] = "ids"
  /\ \/ \E i \in present :
          IsTip(p, i) /\ mark' = [mark EXCEPT ![p] = i] /\ Goto(p, "tip")
     \/ ~ (\E i \in present : IsTip(p, i)) /\ Goto(p, "end") /\ UNCHANGED mark
  /\ UNCHANGED <<db, locks, got, writeVars, purgeVars, drainVars, verifyVars>>

\* tip_hash
PurgeTipHash(p) ==
  /\ pc[p] = "tip"
  /\ Read(p, HashOf(log[mark[p]]))
  /\ Goto(p, "delete")
  /\ UNCHANGED <<db, locks, mark, writeVars, purgeVars, drainVars, verifyVars>>

\* Rows a repair has selected FOR UPDATE make the DELETE wait.
RowsFree(p) ==
  \A r \in Repairer : \A i \in DOMAIN relinked[r] : i <= mark[p] => i \notin present

\* Checkpoint, DELETE and COMMIT.
PurgeCommit(p) ==
  /\ pc[p] = "delete"
  /\ RowsFree(p)
  /\ checkpoint' = got[p]
  /\ present' = {i \in present : i > mark[p]}
  /\ purged' = [purged EXCEPT ![p] = TRUE]
  /\ Release(p)
  /\ Goto(p, "again")
  /\ UNCHANGED <<log, pending, got, mark, writeVars, past, cutoff, drainVars, verifyVars>>

\* Mutant: leaving the loop keeps the settings row locked.
PurgeEnd_KeepsRow(p) ==
  /\ pc[p] = "end"
  /\ purged' = [purged EXCEPT ![p] = FALSE]
  /\ Goto(p, IF purged[p] THEN "summary" ELSE "idle")
  /\ UNCHANGED <<db, locks, got, mark, writeVars, past, cutoff, drainVars, verifyVars>>

\* Leaving the loop closes the session.
PurgeEnd(p) ==
  /\ pc[p] = "end"
  /\ purged' = [purged EXCEPT ![p] = FALSE]
  /\ Release(p)
  /\ Goto(p, IF purged[p] THEN "summary" ELSE "idle")
  /\ UNCHANGED <<db, got, mark, writeVars, past, cutoff, drainVars, verifyVars>>

\* Retention was switched off before a batch.
PurgeOff(p) ==
  /\ pc[p] = "max"
  /\ Goto(p, "end")
  /\ UNCHANGED <<db, locks, got, mark, writeVars, purgeVars, drainVars, verifyVars>>

\* write_log(db=None) about the purge, while the bound on entries allows it.
PurgeSummary(p) ==
  /\ pc[p] = "summary"
  /\ \/ Room /\ NewEntry(p, "background")
     \/ ~ Room /\ Goto(p, "idle") /\ UNCHANGED writeVars
  /\ UNCHANGED <<db, locks, got, mark, purgeVars, drainVars, verifyVars>>

-----------------------------------------------------------------------------
(* verify_audit_chain and repair_audit_chain.                              *)

\* chain_seed_hash
VerifySeed(v) ==
  /\ pc[v] = "idle"
  /\ v \in Repairer => Room
  /\ Read(v, checkpoint)
  /\ Goto(v, "walk")
  /\ UNCHANGED <<db, locks, mark, writeVars, purgeVars, drainVars, verifyVars>>

\* The walk: one statement, whose cursor reads one snapshot.
VerifyWalk(v) ==
  /\ pc[v] = "walk"
  /\ \/ /\ \A i \in present : ~ Breaks(i, got[v])
        /\ verdict' = [verdict EXCEPT ![v] = "valid"]
        /\ Goto(v, "idle")
        /\ UNCHANGED mark
     \/ \E i \in present :
          /\ Breaks(i, got[v])
          /\ \A j \in present : Breaks(j, got[v]) => i <= j
          /\ verdict' = [verdict EXCEPT ![v] = "broken"]
          /\ mark' = [mark EXCEPT ![v] = i]
          /\ Goto(v, IF v \in Repairer THEN "repair" ELSE "idle")
  /\ UNCHANGED <<db, locks, got, writeVars, purgeVars, drainVars, relinked>>

\* Mutant: the rows are read before the lock is had.
RepairLock_Unserialised(r) ==
  /\ pc[r] = "repair"
  /\ Goto(r, "seed")
  /\ UNCHANGED <<db, locks, got, mark, writeVars, purgeVars, drainVars, verifyVars>>

\* lock_audit_chain
RepairLock(r) ==
  /\ pc[r] = "repair"
  /\ chainLock = Nobody
  /\ chainLock' = r
  /\ Goto(r, "seed")
  /\ UNCHANGED <<db, processLock, settingsLock, got, mark, writeVars, purgeVars,
                 drainVars, verifyVars>>

\* The hash of the row before the first failure.
RepairSeed(r) ==
  /\ pc[r] = "seed"
  /\ \/ \E i \in present : /\ i < mark[r]
                           /\ \A j \in present : j < mark[r] => j <= i
                           /\ Read(r, HashOf(log[i]))
                           /\ Goto(r, "relink")
     \/ (\A i \in present : i >= mark[r]) /\ Goto(r, "head") /\ UNCHANGED got
  /\ UNCHANGED <<db, locks, mark, writeVars, purgeVars, drainVars, verifyVars>>

\* chain_seed_hash, for a failure at the head
RepairHead(r) ==
  /\ pc[r] = "head"
  /\ Read(r, checkpoint)
  /\ Goto(r, "relink")
  /\ UNCHANGED <<db, locks, mark, writeVars, purgeVars, drainVars, verifyVars>>

\* The next window, of one row: it is locked, relinked and flushed.
RepairRow(r) ==
  /\ pc[r] = "relink"
  /\ \E i \in present :
       /\ i >= mark[r]
       /\ \A j \in present : j >= mark[r] => i <= j
       /\ relinked' = [relinked EXCEPT ![r] =
            [k \in {i} \cup DOMAIN @ |-> IF k = i THEN got[r] ELSE @[k]]]
       /\ Read(r, Hash(log[i].entry, got[r]))
       /\ mark' = [mark EXCEPT ![r] = i + 1]
  /\ UNCHANGED <<db, locks, pc, writeVars, purgeVars, drainVars, verdict>>

\* After an empty window, write_log(db=session) records the repair.
RepairEvent(r) ==
  /\ pc[r] = "relink"
  /\ \A i \in present : i < mark[r]
  /\ NewEntry(r, "request")
  /\ UNCHANGED <<db, locks, got, mark, purgeVars, drainVars, verifyVars>>

-----------------------------------------------------------------------------
Write(a) ==
  \/ EnterProcessLock(a) \/ FlushSettings(a) \/ LockTimeout(a) \/ Defer(a) \/ Insert(a)

Drain(d) == ReadPending(d) \/ ChainRow(d) \/ DrainCommit(d)

PurgeStep(p) ==
  \/ PurgeMax(p) \/ PurgeKept(p) \/ PurgeIds(p) \/ PurgeTipHash(p)
  \/ PurgeCommit(p) \/ PurgeEnd(p) \/ PurgeSummary(p)

Verify(v) == VerifySeed(v) \/ VerifyWalk(v)

Repair(r) ==
  RepairLock(r) \/ RepairSeed(r) \/ RepairHead(r) \/ RepairRow(r) \/ RepairEvent(r)

Next ==
  \/ Tick
  \/ \E w \in Writer, k \in Kinds : WriteLog(w, k)
  \/ \E a \in Writer \cup Purger \cup Repairer : Write(a)
  \/ \E a \in Actor : TakeChainLock(a) \/ ReadTail(a) \/ Fail(a)
  \/ \E d \in Drainer : Drain(d)
  \/ \E p \in Purger : PurgeBegin(p) \/ PurgeOff(p) \/ PurgeStep(p)
  \/ \E v \in Verifier \cup Repairer : Verify(v)
  \/ \E r \in Repairer : Repair(r)

Spec == Init /\ [][Next]_vars

(***************************************************************************)
(* A thread that can go on does.  PostgreSQL grants a row or advisory lock *)
(* in the order of the requests, so a waiter that the lock is free for     *)
(* again and again gets it; of the process lock only weak fairness is      *)
(* asked.  The drain is a scheduled job: it keeps starting.  That actions  *)
(* happen, purges and verifications start and transactions fail is not     *)
(* assumed.                                                                *)
(***************************************************************************)
Fairness ==
  /\ \A w \in Writer : SF_vars(FlushSettings(w))
  /\ \A a \in Writer \cup Purger \cup Repairer :
       /\ WF_vars(EnterProcessLock(a))
       /\ WF_vars(LockTimeout(a) \/ Defer(a) \/ Insert(a))
  /\ \A a \in Actor \ Verifier : SF_vars(TakeChainLock(a)) /\ WF_vars(ReadTail(a))
  /\ \A d \in Drainer : WF_vars(Drain(d))
  /\ \A p \in Purger : WF_vars(PurgeStep(p))
  /\ \A v \in Verifier \cup Repairer : WF_vars(VerifyWalk(v))
  /\ \A r \in Repairer :
       /\ SF_vars(RepairLock(r))
       /\ WF_vars(RepairSeed(r) \/ RepairHead(r) \/ RepairRow(r) \/ RepairEvent(r))

FairSpec == Spec /\ Fairness

-----------------------------------------------------------------------------
(* Properties.                                                             *)

Chained == {log[i].entry : i \in 1..Len(log)}
Spooled == {pending[i] : i \in 1..Len(pending)}
Hashes  == {Genesis} \cup {HashOf(log[i]) : i \in 1..Len(log)}

\* The types of database, locks and transactions: every lock has one holder,
\* a transaction writes an entry exactly while it runs write_log, and only
\* a drain has a batch.
TypeOK ==
  /\ \A i \in 1..Len(log) : log[i].entry \in Entry
  /\ present \subseteq 1..Len(log)
  /\ pending \in Seq(Entry)
  /\ processLock \in [Process -> Actor \cup {Nobody}]
  /\ {chainLock, settingsLock} \subseteq Actor \cup {Nobody}
  /\ DOMAIN pc = Actor
  /\ kind \in [Actor -> {"request", "settings", "background"}]
  /\ ent \in [Actor -> Entry \cup {NoEntry}]
  /\ \A a \in Actor \ Drainer :
       ent[a] # NoEntry <=> pc[a] \in {"process", "flush", "lock", "tail", "insert", "defer"}
  /\ mark \in [Actor -> Nat] /\ past \in [Actor -> Nat] /\ purged \in [Actor -> BOOLEAN]
  /\ batch \in [Actor -> Seq(Entry)]
  /\ \A a \in Actor : batch[a] # <<>> => a \in Drainer
  /\ verdict \in [Actor -> {"none", "valid", "broken"}]
  /\ happened \in 0..MaxEntry /\ lost \subseteq Entry /\ faults \in 0..MaxFaults
  /\ cutoff \in Nat

\* The committed chain verifies from its checkpoint, whatever appends, drains
\* and purges run at the same time (where nothing cut or repairs it).
ChainVerifies == \A i \in present : ~ Breaks(i, checkpoint)

\* s continues a chain whose last hash is h.
Continues(s, h) ==
  \A i \in 1..Len(s) : s[i].prev = IF i = 1 THEN h ELSE HashOf(s[i - 1])

\* The last hash of a chain of rows s that continues h.
LastHash(s, h) == IF s = <<>> THEN h ELSE HashOf(s[Len(s)])

\* Deleted rows included, the log is one chain; what is present is a suffix
\* of it that keeps the tail, and the checkpoint is the hash before it.
SuffixInv ==
  /\ Continues(log, Genesis)
  /\ \E k \in 0..Len(log) :
       /\ present = k + 1 .. Len(log)
       /\ log # <<>> => k < Len(log)
       /\ checkpoint = IF k = 0 THEN Genesis ELSE HashOf(log[k])

\* Whoever is about to append holds the lock and knows the tail.
AppendOK(a) ==
  /\ pc[a] \in {"tail", "insert", "chain"} => chainLock = a
  /\ pc[a] = "insert" => got[a] = LastHash(log, Genesis)
  /\ pc[a] = "chain" => /\ Continues(rows[a], LastHash(log, Genesis))
                        /\ got[a] = LastHash(rows[a], LastHash(log, Genesis))
  /\ pc[a] # "chain" => rows[a] = <<>>

\* A purge holds the settings row, and what it is about to delete ends before
\* the tail with the row whose hash it has read.
PurgeOK(p) ==
  /\ pc[p] \in {"max", "kept", "ids", "tip", "delete", "end"} => settingsLock = p
  /\ pc[p] \in {"kept", "ids"} => mark[p] \in 1..Len(log)
  /\ pc[p] \in {"tip", "delete"} => mark[p] \in present /\ mark[p] < Len(log)
  /\ pc[p] = "delete" => got[p] = HashOf(log[mark[p]])

\* What keeps the chain verifiable, step by step, where nothing repairs it.
ChainInv == SuffixInv /\ \A a \in Actor : AppendOK(a) /\ PurgeOK(a)

\* No entry is in the chain twice, or both in the chain and in the spool
\* (log_hash and id are unique, the entry is not).
ChainedOnce ==
  /\ \A i, j \in 1..Len(log) : log[i].entry = log[j].entry => i = j
  /\ Chained \cap Spooled = {}

\* Every audited action is in the chain, in the spool, being written, or one
\* whose write failed with an error in the server's log.
NothingDropped ==
  1..happened \subseteq Chained \cup Spooled \cup lost \cup {ent[a] : a \in Actor}

\* The purge deletes no row younger than the retention window, though the
\* spool puts entries into the chain out of order.
RetainsYoung == \A i \in 1..Len(log) : i \notin present => log[i].entry < cutoff

\* A deferred entry gets into the chain.
EveryDeferredChained ==
  \A e \in Entry : (e \in Spooled) ~> (e \in Chained)

\* A write_log call returns: no cycle of process lock, chain lock and
\* settings row.
EveryWriteEnds == \A w \in Writer : (pc[w] # "idle") ~> (pc[w] = "idle")

\* A background write, whose wait for the chain lock is bounded, returns.
BackgroundEnds ==
  \A w \in Writer :
    (pc[w] # "idle" /\ kind[w] = "background") ~> (pc[w] = "idle")

\* When a repair commits, the whole chain verifies.
RepairHeals ==
  [][\A r \in Repairer : pc[r] = "insert" /\ pc'[r] = "idle" /\ UNCHANGED faults
       => ChainVerifies']_vars

\* A chain that verifies goes on verifying.
StaysVerified == [][ChainVerifies => ChainVerifies']_vars

\* Verification reports a break only in a chain that something broke.
VerifyHonest == \A v \in Verifier : verdict[v] # "broken"
=============================================================================
