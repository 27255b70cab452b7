# Formal model of Circuit Breaker

Circuit Breaker keeps the inventory and the telemetry of a homelab: a FastAPI
backend with PostgreSQL, Redis and NATS (`apps/backend`), a Go agent that runs on
each monitored host (`apps/agent`), and a web frontend (`apps/frontend`). This
directory holds TLA+ modules for the parts of it whose correctness depends on
crashes, concurrency and lost messages, the TLC configurations that check them on
small instances, and proofs for TLAPS.

The core is the path of an observation from an agent's collector to a row in the
database: *an observation is stored, deliberately refused and counted, or
destroyed and recorded as destroyed; it never just disappears, and it is never
stored twice*. Around it stand the other long-running protocols of the system, in
which several processes change shared state between each other's awaits: the
audit log's hash chain, the sessions of an agent that reconnects, an agent that
replaces its own binary, network scans carried out by agents, and the journal
that a host keeps of installations, updates and rollbacks of the server itself.

## Inventory of the system

| Part | State | Operations | Interacts with | What is hard |
|---|---|---|---|---|
| Agent spool (`internal/spool`) | `entries`, `head`, `origin`, `bytes`; files `queue.jsonl`, `queue.head`, eviction record | `Open`/`load`, `Enqueue` with eviction, `PeekAt`, `CommitThrough`, compaction, `RecordDestroyed` | producer goroutine, drain | crash between disk steps, torn and failed writes, three files that must agree, eviction under the drain's feet |
| Agent link (`internal/link`) | per connection: sequence, in-flight window, stall clock, ack mode; backoff ladder | dial, hello, drain tick, `onDataAck`, heartbeats, rekey, instructions | spool, server | reconnects with frames in flight, a server that never acknowledges, one sequence shared by all traffic |
| Server link loop (`api/ws_agents.py`, `services/agent_link.py`) | per connection: `last_seq`, `handled_seq`, `acked_seq`, `ack_frozen` | receive, sequence guard, dispatch, `note_handled`, `flush_data_ack` | agent, database, registry | old and new session of one agent overlap; undecryptable frames |
| Telemetry ingest (`services/agent_telemetry.py`) | `agent_host_samples`, hardware projection | dedupe SELECT, INSERT, projection | link loop | SELECT/INSERT race between two sessions |
| Audit log (`core/audit_chain.py`, `services/log_service.py`, `audit_spool.py`, `log_purge.py`) | `logs` hash chain, checkpoint, `pending_audit_logs` | append, defer, drain, purge, verify, repair | every writer | lock order, reads before the lock, purge and verify overlapping |
| Connection registry, presence (`services/agent_registry.py`, `api/ws_agents.py`) | agent row; Redis presence and connection keys | accept, register, refresh, claim control frames, poll, tear down, revoke, edit grants | operators, agent | teardown of an old session after a new one registered; pub/sub keeps nothing |
| Agent update (`services/agent_update.py`, `internal/update`, `cmd/cb-agent`) | pending instruction and version, `current` link, marker, outcome and rollback records | queue, pop, download, swap, confirm, prune, roll back, report | link loop | death between any two steps, two deliveries, replayed outcomes, a watcher against a deadline |
| Agent discovery (`services/agent_discovery.py`, `agent_discovery_reconcile.py`, `discovery_dispatch.py`, `collect/discover`) | `scan_jobs` with the lease token, `scan_results` | create, claim, park, publish, cancel, expire, ingest | schedulers, operators, agent | dispatchers that act on rows read before an await; replays; a closed job that must stay closed |
| Lifecycle journal (`deploy/scripts/lifecycle-state.py`, `deploy/lib/lifecycle.sh`) | host lock and its owner record, a journal and a sequence counter per operation | acquire, hand down, begin, checkpoint, emit, list, interrupt | install, update, rollback and restore scripts | killed shells and utilities, power loss, several writers, lost acknowledgements |
| Reconnect ladder (`internal/link/backoff.go`) | class, attempt, flap count | `next` | link | boundary cases, ladder changes |
| Single-owner jobs (`core/job_lock.py`) | PostgreSQL advisory locks | acquire, run, release | scheduler | a lock that dies with its connection |
| Circuit breaker (`core/circuit_breaker.py`) | state, failures, deadline per key | `is_open`, `record_success`, `record_failure` | integrations | half-open callers in parallel |
| Server scans, monitoring, probes | jobs, runs, admission counters | schedule, probe, merge | workers | ownership of runs, overlapping schedules |
| Vault, users, inventory, graph, integrations, notifications, frontend, packaging | mostly one transaction per request | CRUD, external I/O | database | outside this model |

`PROJECT.json` lists every part with its status, and under `hazards` what in this
code is hard to test, each at its line, with the properties that would catch it
going wrong.

## Modules

| Module | Models |
|---|---|
| `SpoolQueue` | The abstract queue: what the spool promises. A live frame leaves only by `Release` (the drain asked for it) or `Drop` (the size cap), both from the old end; `Reopen` may bring frames back and never takes one away. |
| `Spool` | `internal/spool`, down to single disk steps. |
| `DataLink` | Spool, drain, connection, server loop and table, end to end. It EXTENDS `SpoolQueue`: its spool is the abstract queue. |
| `AuditChain` | The hash-chained audit log: `write_log`, deferral, drain, purge, verify, repair as concurrent transactions. |
| `SeqFolds` | The two loops over sequences that `Spool` and `AuditChain` share: the elements of a sequence that are not in a set, and the sum of their weights. Recursive functions, so that they can be proved about. |
| `LinkSession` | The sessions one agent has on the server, the two Redis keys they share, and the operators' edits that must reach them. |
| `AgentUpdate` | One agent's self-update, from the operator's request to confirmation or rollback, agent and server side. |
| `DiscoveryLease` | Scan jobs of one agent: dispatchers, cancellations, the reconciler, the agent and the ingest of its findings. |
| `Lifecycle` | The host's lifecycle journal: shells, state utility, host lock and disk. |
| `SpoolProofs`, `DataLinkProofs`, `AuditChainProofs`, `LinkSessionProofs`, `AgentUpdateProofs`, `DiscoveryLeaseProofs`, `LifecycleProofs`, `SeqFoldsProofs` | Theorems about these modules and their proofs. |
| `MCSpool`, `MCDataLink`, `MCAuditChain`, `MCLinkSession`, `MCAgentUpdate`, `MCDiscoveryLease`, `MCLifecycle` | Instances for TLC. |

`DataLink` and `LinkSession` look at the same `link_stream` from two sides:
`DataLink` follows the frames of one session and their acknowledgement,
`LinkSession` the life of several sessions and what they share. `AgentUpdate` and
`DiscoveryLease` take the link for what `LinkSession` shows of it: it is up or it
is not, and what is published while it is down is lost.

### Spool

Variables `entries`, `head`, `origin`, `bytes`, `evicted` are the fields of the
Go struct; `lines`, `tail`, `marker`, `recordDisk` are the files. All operations
run under one mutex, so two operations never interleave, and the only thing that
interleaves with one operation's disk steps is the death of the process. `pc`
names the next disk step: `Enqueue` is `AppendLine`, `Evict`,
`PersistEvictions`, `CompactRename`, `CompactUnlink`; `CommitThrough` ends in
`WriteHeadMarker` or in the two compaction steps; `Open` ends in the compaction
steps when there is anything to heal or drop. Each step has a failing variant
that takes the code's error return (`ReturnError`), and `Crash` is possible
between any two.

A line of `queue.jsonl` is a frame number or `Garbage` (a line `frame.Decode`
refuses). How the file *ends* matters, because the code appends to it: `tail` is
`whole`, `cut` (a partial line) or `nonewline` (a complete line without its
newline). `Appended` says what an append makes of each. Timestamps are frame
numbers. `Faults` selects what the environment may do; the fsync before each
rename is taken at its word (a renamed file is whole).

### DataLink

| Variables | Code |
|---|---|
| `produced`, `live`, `released`, `dropped` | the spool, as `SpoolQueue` |
| `conn`, `cur`, `ackData`, `seq`, `burst`, `inflight`, `clock` | `runOnce` and `dataFrameSender`; `burst` holds the frames of a drain tick that were peeked and not yet written, `clock` is whether `unackedSince` is set |
| `wire`, `acks` | the WebSocket, each direction in order |
| `open`, `last`, `handled`, `acked`, `frozen`, `busy`, `saw` | one `link_stream` per connection, old ones included: an abandoned connection's session may still be working on what it received |
| `rows`, `refused` | `agent_host_samples`, `refused_frames` |

The enqueue goroutine runs concurrently with the select loop: `Enqueue` may
evict between any two steps of a drain tick (`DrainTick`, then one `SendBurst`
per frame, then `CommitOnWrite` in the mode without `data.ack`). The other arms
of the select loop wait for `Idle`. On the server, a data frame is handled in two
steps, `ReadData` (sequence guard and dedupe SELECT) and `Store` or
`RefuseFrame` (INSERT or refusal, commit, `note_handled`), so that two sessions
can overlap between SELECT and INSERT. `Store` depends on the unique constraint
`uq_agent_host_sample` as the code does.

Abstractions: the window and the cap count frames instead of bytes (the byte
budget appears as the freedom to cut a burst short, but not to nothing when
nothing is in flight); a drain tick's pruning and its peek are one step; the
coalescing of acknowledgements is the freedom of *when* `FlushAck` happens;
cryptography, and everything about a control frame but its sequence number, is
left out; so is the refusal of an unsupported version (`agent_link.py:759`),
because the agent stamps every frame with version 1 (`link.go:904`); an
observation whose Enqueue fails never enters this model (`Spool` has it).

### AuditChain

The tables are `log` (by id; deleted rows stay in the sequence and leave
`present`), `pending` and `checkpoint`. Writers, drains, purges, verifications
and repairs are actors; `pc` names an actor's next statement. PostgreSQL runs at
its default, READ COMMITTED, so each statement reads what is committed when it
runs: what a transaction read earlier (`got`, `mark`, `past`, `batch`) may be
stale when it is used, and only the three kinds of lock prevent that.

| Lock | Code | Taken by |
|---|---|---|
| `processLock[p]` | `_AUDIT_CHAIN_LOCK`, a Python lock in each server process | every `write_log` |
| `chainLock` | the transaction-scoped advisory lock | `write_log`, drain, repair |
| `settingsLock` | the row of `app_settings` | the purge, and a settings request when `begin_nested` flushes its UPDATE |

`write_log` is `WriteLog` (the entry's fields and time are fixed),
`EnterProcessLock`, `FlushSettings` for a settings request, `TakeChainLock` or,
for a background write, `LockTimeout` and `Defer`, then `ReadTail` and `Insert`.
The drain selects its batch (`ReadPending`) *before* the lock, as the code does.
The purge's batch is one transaction of six statements. A verification is two
statements, seed and walk; a repair continues one that failed. `Fail` rolls any
transaction back; the entry a `write_log` was writing is then in `lost`, as the
code's error log says.

Abstractions: an entry is its number, which is also its time; a hash is an
uninterpreted function of entry and previous hash; drain and purge batches are
constants, a repair's windows hold one row; content never changes, so the only
damage is rows deleted by hand before the model starts (`Cuts`). The missing
settings row of a first run, at which the purge returns, is left out.

### LinkSession

`pc[c]` is where the coroutine `link_stream` of socket `c` is; each Redis command
and each transaction is an action. `presence` and `owner` are the two keys,
`control[c]` what was published while `c` was subscribed, `queue[c]` what its
listener claimed of that, because it owned the connection at that moment, for the
main loop to send later, and `inbox[c]` what the agent has sent. A socket whose
ciphers have fallen out of step (`desynced`) is one whose frames are dropped
without a look at the agent's row; only the poll ends it. The daemon holds one
socket at a time, but the server may not notice for a while that an old one is
gone, and `cb-agent uninstall` opens a second one (`Notifier`). Teardown is two
steps, as in `_release_link_connection`: compare-and-delete of the connection key,
unconditional delete of the presence key. `writer` is a ghost: who wrote the
connection key last.

Abstractions: the keys expire (`Expire`) only when nobody who would renew them is
left, which the ratio of the TTL to the heartbeat interval gives; grants are a
version number; of the ciphers only that they fall out of step is modelled, and the
later frames of such a socket, which do nothing, are not sent; data frames and the
pending update (see `AgentUpdate`) are left out; Redis is up.

### AgentUpdate

The variables fall into three groups: what is in the agent's state directory and
survives its process, the three goroutines of the process (`job` is the worker,
`watch` and `rollback` the watcher or the start-up rollback, `link` and `statusC`
the event loop), and the server. Every write to the state directory is a step of
its own, and `Crash` may come between any two. `post_update` delivers twice, by
control frame and by the polled key, and commits after both; `pop_pending_update`
is its GET and its DELETE. `late` says that the marker's deadline has passed. A
busy worker refuses an instruction for another version with a failure whose text
the server recognises (`_is_duplicate_instruction_refusal`) and which leaves the
pending version alone; the model gives it a kind of its own ("refused"). The
outcome record may fail to be written without stopping the update.

`Faults` names what the listed run leaves out, each with what it breaks (below):
a crash between `Swap` and `MarkSwapped`, a `MarkSwapped` that fails to write
(`mark_error`), an acceptance that overtakes a rollback under way, a second attempt
at a version inside the first one's window, and a commit of `post_update` that takes
longer than a whole update. Left out altogether: a failing `exec`, errors of the
local writes of a rollback, what makes a download fail, and enrolment, which
`daemon.go:80-88` puts between the check at boot and the watcher: the agents here
are enrolled, and for them it returns at once. `MCAgentUpdateFaults.cfg` checks
`RollbackPossible` under every fault but the crash after the swap, so that a
confirmation may prune while a rollback is under way.

### DiscoveryLease

A job is its row: status, lease token, whether it is parked, whether its deadline
has passed, the scope it was claimed under, the counter. Dispatchers are calls of
`dispatch_discovery_job` from whatever caller; their steps are cut at the awaits
(`execute_scan_job` reads, `_claim` compares and sets, then eligibility is
awaited, `_lease_still_held` reads again, `PublishRequest` sends). A cancellation
is a read, the closing in the same commit as the edit that caused it
(`_close_jobs`), and the frames published after it. `sent` is a set: the agent's
spool may deliver a frame any number of times and on either session. `announced`
and `requested` are histories.

A dispatcher denies before the claim (too many targets) or after it. It parks a job
when the agent is away, and also when presence is there and the link's owner is not
(`no_link_owner`), in which case the next drain, which asks for presence alone,
retries at once; this counts as one of the agent's comings and goings.

Abstractions: a scope is a version number; why eligibility is denied is not
distinguished, apart from the agent's absence; the agent may find any subset of
`Finding`; statuses of the dispatch that follow from the job's status are left
out. The announcement of an end, which the code emits after the commit, is one step
with it: a process that dies in between announces nothing, so `announced` is what
clients *may* hear, and "once" means at most once. Retention deletes results by
their own age later (`discovery_scheduler.py:191-289`) and is not modelled;
`CountsExact` speaks of the time before.

### Lifecycle

`disk` is what every process reads, `synced` and `linked` what power loss leaves.
A pair of atomic replaces may stop before, between, after the rename but before
the directory is synced, or be durable (`Reach`). A request of a shell to the
state utility is sent (`pc` "queued"), takes the writer lock, writes, announces
its event (`EventSink_write`) and is acknowledged; the shell, the utility or the
whole host may die at each point, and a utility outlives its shell with the host
lock in its hands. Several shells hold the lock once one has handed it down
(`Inherit`). A journal is its last record, because the contract's rules
(`_checkpoint_rules`, `_journal_rules`) compare a record with the one before it
and count recovery attempts. The transition table is the `x-lifecycle` part of
the schema that the utility carries verbatim.

Abstractions: an operation number instead of a dated id; digests, versions,
evidence, error texts, the rendered index and retention are left out. A counter
that is lost by itself is not modelled. Records that cannot be read or are in doubt
are one Boolean, `Doubtful`: they block the begin of every transaction and nothing
else, so the run, which wants transactions, has none. A shell that is interrupted
sends one request more; that an EXIT trap may send several is a shell that lives on,
behind the same stale check. `cb_lifecycle_mark_mutation` has no guard in the code;
the model's guard is that the scripts begin only legacy operations. The two branches
of `_abandon` that warn and go on are for a journal without a legal closing record
and for a directory that does not open: in the model the first does not occur (TLC
checked it as an invariant), the second is I/O. The records a shell may ask for are
a constant (`Ask`): the instance takes what the scripts ask for, and of what only a
transaction's contract has the phases "staged" and "verified" and a refusal; later
steps of one phase are left out of it. The theorems hold for any `Ask`.

## Runs

| Run | Question | Result |
|---|---|---|
| `spool` | Is anything lost or understated, and do the files implement `SpoolQueue`, under crashes, torn appends, write and fsync errors, an unreadable marker? | holds |
| `spool_faults` | What survives *every* fault: byte accounting, commits by position, a persisted loss count that never shrinks? | holds |
| `datalink` | Accounting of every observation, and the stall clock, in both commit modes | holds |
| `datalink_live` | With agent restarts and control traffic: only settled frames are discarded, one row per frame, no replay rejects, the abstract queue, and every buffered frame leaves the spool once faults stop | holds |
| `audit` | Does the committed chain verify from its checkpoint, is nothing dropped, chained twice or purged too young, with failing transactions? | holds |
| `audit_live` | Does every write return and every deferred entry get chained? | holds |
| `audit_repair` | Does a repair heal a chain cut at its head or in its middle while appends go on? | holds |
| `link_session` | Does the connection key stay with the session that wrote it last, does the fleet view converge, and is a withdrawn agent cut off everywhere? | holds |
| `update` | Can every rollback be carried out, is a replayed success true, is nothing undone before its deadline, and does a version that cannot connect always go? | holds |
| `discovery` | Is a network swept once per job, counted exactly, and does every job end, once? | holds |
| `lifecycle` | Is what was announced durable, do events rise, is an unacknowledged record never built on, and is at most one transaction unfinished, closable, and abandoned only when its processes are gone? | holds |
| `audit_lock_cycle` | Is the wait of a background write bounded, with a repair running? | violated, see Findings |

Bounds. Spool: five frames of two sizes, a cap that holds two to eight of them, so
that one Enqueue may evict none, one or several; the compaction threshold of 3
makes both kinds of commit happen; two crashes, because the losses found need one
to damage the files and one to read them back. DataLink: two connections, the
smallest number in which an old session overlaps a new one; a window of 2 with 4
frames and a cap of 3 (`datalink_live`: 2 and 1), so that the window fills, and
the cap evicts frames that are in flight, in a burst, or both. The last connection
suffers no fault (`Faulty`), which only matters for liveness: the safety
properties of the earlier one are checked with all of them. Deadlock is not
checked in these two: with its bounds used up each model may stop. AuditChain: two
writers in two processes (a background write is deferred only when the lock is
held outside its own process), one drain, one purge, up to four or five entries;
batches of two and one, so that drains split and purges loop. Deadlock is checked:
the purge or a verifier can always start again. `Room` keeps an entry free for
each running repair, so that no repair stops at the bound with the lock in its
hands.

LinkSession: two daemon sockets and one notifier, two of them at a time, one
capability edit: an old session, a new one, and teardowns in every order, each of
them cut off or out of step at any time. AgentUpdate: three versions, one of which
starts but never connects, two requests, one lost link or dead process; two
requests give an update on top of an update, and the same version twice.
DiscoveryLease: one job, two dispatchers, two ingesting sessions, two findings
with a ceiling of one, so that the ceiling is met by a race; one trigger
(cancellation or edit), and two faults (`MaxFault`), each of them a dispatcher
that dies or an agent that comes, leaves or loses the owner of its link, so that a
job can be parked, retried and parked again. With one job the limit on concurrent
scans is met but not contended: two jobs exceed what TLC can exhaust. Lifecycle:
two interchangeable shells, two operations, of which the first may be left over
from before in the last recovery it is allowed (`Past`), one fault, and records
and events bounded in number when a shell asks for one more (`MaxWrites`,
`MaxEmit`), so that no accepted request is cut off. Deadlock is checked there: a
new shell can always take a free lock. The other three stop when their bounds are
used up.

Fairness (`datalink_live`). Weak fairness of: the reconnect loop, hello.ack or
its timeout, the drain ticker and the sends of its burst, the read loop
(`OnDataAck`), the stall timeout, and the server's receive loop, dispatch and
forced flush (before each ping). These are timers and loops that run
unconditionally in the code. No fault is fair, and the fairness of the stall
timeout is exactly what the code's `ackStallTimeout` provides.

Fairness (`audit_live`, `audit_lock_cycle`). Weak fairness of every statement
that is not a wait for a database lock, and of the drain job's start; strong
fairness of the advisory lock and of the settings row, because PostgreSQL grants
both in the order of requests (a background write polls instead, and its timeout
is what ends its wait). Of the Python lock only weak fairness is assumed.

Fairness (`link_session`). All of it is weak. Sessions are coroutines of a running
loop, and the listener that claims control frames is a task of its own; an open
connection goes on sending heartbeats, further apart than the poll interval, so that
a socket out of step is polled; a request that committed goes on to publish; keys
expire. That a *claimed* frame is sent is not needed for these properties;
`MCLinkSessionGrants.cfg` adds it (`SendingSpec`, strong fairness: every turn of the
loop looks at the control queue before it receives).

Fairness (`update`). The service manager restarts the agent, deadlines pass,
local sequences run on, the agent dials and the server's poll runs. Neither
crashes nor lost links nor requests are fair.

Fairness (`discovery`). A dispatcher that lives goes on, deadlines pass, and the
reconciler's minutely run expires and drains. Nothing is assumed of operators or of
the sessions, and of the agent only that it comes and goes a bounded number of times
(`MaxFault`): every parking renews the deadline (`agent_discovery.py:764`), so the job
of an agent that flaps for ever may stay open for ever, in the code as in the model.
`EveryJobEnds` holds with an agent that never answers.

## Proofs

Every safety invariant and every action property of a passing run is proved for
all values of the constants, except the two about a repair of the audit chain
(`RepairHeals`, `StaysVerified`). What each result assumes, beyond the named
assumptions of the modules on their constants:

| Component | Proved without further assumption | Proved under an assumption |
|---|---|---|
| Spool | `TypeOK`, `BytesExact`, `RecordNeverShrinks`, `CommitsOnlyNamed` | `NothingLost`, `LossRecorded`, `ImplementsQueue` under `TidyDisk` |
| DataLink | everything but liveness | |
| AuditChain | `TypeOK`, `NothingDropped` | `ChainVerifies` under `Undamaged`; `RetainsYoung` under `Cuts = {{}}`; `ChainedOnce` under `OneDrain` |
| LinkSession | `TypeOK`, `RegistryKept`, `NoStaleOwner` | |
| AgentUpdate | `TypeOK`, `RollbackPossible` | `RollbackAfterDeadline`, `ReplayTruthful` under `Punctual` |
| DiscoveryLease | `TypeOK`, `OneSweep`, `CountsExact`, `EndsOnce`, `LeaseUnique` | |
| Lifecycle | `TypeOK`, `ToldIsDurable`, `InterruptedIsUntouched`, `AlwaysClosable`, `EventsRise`, `UnansweredIsLast`, `OneTransaction` | `OnlyKilledAbandoned` under `EarlyHandoff = FALSE` |

Each assumption is one that the code needs, not one that the proof needs: without
it the property is false, by a behaviour described under Findings, and the run
that checks the property makes the same choice in its configuration. `TidyDisk`:
no write error leaves part of a line behind (`cut_append`, `cut_newline`), and
`queue.head` does not outlive the `queue.jsonl` it counts in (`compact_gap`).
`Undamaged`: no row was deleted by hand and no repair runs. `OneDrain`: drains do
not overlap. The scheduler sees to that: the job has `max_instances=1`, in the one
process that owns the jobs (`startup/jobs.py:214-221`). The drain itself does not,
though its docstring says that it is "safe to call concurrently with itself"
(`audit_spool.py:109`; see Findings). `Punctual`: no
hello.ack arrives while the watcher decides on a rollback, and no second attempt
at a version begins while the first one's watcher sleeps. `EarlyHandoff`: whether a
shell hands the host lock down before it is bound to an operation.

### SpoolProofs

Two inductive invariants. `TInv` holds whatever fails. Its core is `WindowOK`: the
drain's held frames are a contiguous window onto the backlog, by absolute
position, though evictions move the head under it and a failed commit forgets
it; this is what makes `CommitThrough(pos)` discard named frames only. `CountersOK`
ties the byte counter to the backlog; every operation changes both by the same
frames, which rests on what `SizeOf` sums (`SeqFoldsProofs`).

`KInv` holds on a tidy disk. `FileOK`: `queue.jsonl` holds frames in production
order, and only a file about to be loaded or healed ends in a cut line. `CopyOK`:
each entry in memory is in the file at its own place *or behind it* (a failed
append leaves its line in the file and no entry in memory), and `queue.head` never
skips more than is consumed. That weaker correspondence is what is inductive;
equality of file and memory is false from the first failed fsync on. `ArgOK` and
`HandOK` describe the frame between its append and the eviction loop, and that
frames handed out are older than the live ones behind them.

From both: every step of the files is a step of `SpoolQueue` or none
(`ImplementsTheQueue`; `QueueSteps` restates the abstract steps about `Backlog`, the
refinement mapping). A crash is a `Reopen`, because the backlog in memory is part of
what can be recovered. `NeverLost` then needs only that the abstract queue keeps each
live frame in sight, and `NeverSilent` carries over the queue's `NoSilentLoss`: no
single step takes a frame from the backlog unless it releases or drops it.
`LossAlwaysRecorded` adds `LossInv`: the record in memory covers
what is gone; the one on disk equals it except between eviction and write, and
there it covers what a restart would not bring back, because the evicted lines
are still in the file. That is the order of persisting and compacting in
`Enqueue`, and the reason it matters.

### DataLinkProofs

`DataLinkProofs` proves, for every number of frames, connections and restarts,
and every window, burst and cap (assumptions `SpoolQueueAssumption` and
`DataLinkAssumption`: the bounds are naturals, capacities are positive):

| Theorem | States |
|---|---|
| `TypeCorrect` | `TypeOK` |
| `Invariance` | `IInv`, the inductive invariant |
| `AckedSafely` | `ReleasedIsSettled`: what is discarded on an acknowledgement was stored or refused |
| `Accounted` | `NothingUnaccounted` |
| `NoSpuriousReplay` | `NoReplayRejects` |
| `AtMostOnce` | `StoredOnce` |
| `StallClock` | `StallClockExact` and `PruneRefills` |
| `WindowBounded` | `WindowOrdered` |
| `Refinement` | `DataLink` implements `SpoolQueue` |
| `NeverSilent` | the queue's own action property, carried over |

The argument. That an acknowledgement is safe is not inductive by itself: it
needs to be known that everything at or below the server's watermark is settled.
`WatermarkInv` says so for the frames in flight: not yet read, being dispatched,
or settled, as long as acknowledgement is not frozen. It holds because a session
reads messages in the order of their numbers (`SessionInv`). A commit *by
position* discards frames it does not name, namely every older one; this is safe
because a live frame older than one in flight is itself in flight with a smaller
number (`PrefixInv`), which in turn needs to be known of the burst that is about
to be written (`BurstInv`). `LinkInv` says that window and clock belong to an
accepted session and that the backlog reaches at least as far as the window,
which is what lets a window emptied by the cap be refilled in the same tick.
`SeenInv` (a row that the SELECT found stays) and `AccountInv` complete `IInv`.
The stall clock and the window bound have small invariants of their own on top.

### AuditChainProofs

`AuditChainProofs` proves `ChainAlwaysVerifies` (`ChainVerifies`) and
`ChainInvariance` (`ChainInv`) for every number of writers, processes, drains and
purges, every batch size and *any* function as hash, under `Undamaged`: no row
was deleted by hand and no repair runs (with them the property is false, see
Findings). `AuditAssumption` and `InitLogAssumption` say that the log the system
starts from is a chain. The argument has three parts. `SuffixInv`: the log with
its deleted rows is one chain, what is present is a suffix that always keeps the
tail, and the checkpoint is the hash just before it; this gives `ChainVerifies`,
because neighbours in the table are then neighbours in the log. `AppendOK`:
whoever is between reading the tail and committing holds the advisory lock, and
the hash it has, extended by the rows a drain has linked already, is still the
tail's. `PurgeOK`: a purge in its transaction holds the settings row, so no other
purge deletes under it, and its last row lies strictly before the tail, whatever
was appended since it read its bounds. Collision-freedom of the hash is not
needed: that a *changed* row is noticed is not what is claimed.

`NeverDropped` is inductive given the types: an entry leaves a transaction's hands
only into chain, spool or `lost`, and a drain's commit removes from the spool what
it chained and nothing else (`Without`). `AlwaysRetainsYoung` needs that a purge
deletes only up to the last id it found before the first kept one, and that ids
appended since are larger. `AlwaysChainedOnce` needs `Selected`: the rows a drain has
linked, followed by the batch it has left, are a prefix of the spool, which only
that drain shortens.

### LinkSessionProofs, AgentUpdateProofs, DiscoveryLeaseProofs

`RegistryKept` becomes inductive with two facts: the key names nobody or its last
writer, and a writer is past its hello. For `RollbackPossible` it has to be known
which versions `PruneVersions` is about to keep, at each point where marker, link
and rollback disagree for a moment. `RollbackAfterDeadline` and `ReplayTruthful` rest
on `TimedInv`: watcher and start-up rollback exclude each other, a watcher that
fires belongs to the marker it reads, and a recorded success names the version the
link points at unless an update is under way. `OneSweep` and `EndsOnce` rest on
`LeaseInv`: tokens are minted once, a dispatcher that may still write holds the
token in the row or lost it for good, and one dispatcher at a time holds a job; the
conditional UPDATEs of the code do the rest. `CountsExact` is about two sessions that
ingest the same finding: the row is there before it is counted, in one transaction.

### LifecycleProofs

`IInv` describes, for each shell, what it may believe of the journal it is bound to,
by where its request is: not sent, queued, written, announced, acknowledged, or
lost. Its durable part says which generation power loss would leave
(`ToldIsDurable`). `EventsRise` needs the counter to be ahead of every sequence a
living process still holds. `AlwaysClosable` is a property of the transition table,
proved by cases over the states a journal can be in; that it is in one of them is
`Sound`, which an installation's left-over journal (`Past`) has to satisfy too: that is
`JournalAssumption`.

### SeqFoldsProofs

What `Without` and `Weight` return, for every sequence. The induction theorems of the
library take an operator as a parameter, which the provers cannot instantiate;
these proofs take a least counterexample instead (`WFMin`, in the lemma `Upwards`),
which is first-order.

### What is only model-checked

Liveness (`EveryFrameLeaves`, `EveryWriteEnds`, `EveryDeferredChained`,
`OnlineConverges`, `OfflineConverges`, `WithdrawnIsCutOff`, `BrokenNeverStays`,
`EveryJobEnds`) is outside TLAPS's reach. `RepairHeals` and `StaysVerified` are
action properties of a repair that rewrites a chain row by row while appends wait
for its lock; the invariant they need speaks of the log *as the repair sees it*
and is not proved yet.

`TypeOK`, the inductive invariants and `LeaseUnique`, `NoStaleOwner`, `PruneRefills` and
`WindowOrdered` are proved and not part of a listed run.

## Findings

**A lock cycle** (`log_service.py:244`, run `audit_lock_cycle`). A repair holds the
advisory lock and wants the process lock; a request holds the process lock and
wants the advisory lock. Neither ever ends, nor does any background write of the
process. `audit_spool.py:23` promises "Nothing is dropped, nothing is written
unserialised, and the wait stays bounded."

### Disagreements outside the listed runs

Each has a configuration in this directory (`tlc -config <cfg> <module>`) that TLC
answers with a counterexample.

1. **Compaction's last step** (`spool.go:285`, `MCSpoolCompactGap.cfg`,
   `NothingLost`). `compactLocked` renames the new `queue.jsonl` into place and
   then removes `queue.head`. Dying in between leaves a marker that counts lines
   of the old file; the next `load` drops that many undelivered frames.
   `spool.go:36`: "an unclean shutdown still recovers every line that was fully
   written before the crash".
2. **A failed append** (`spool.go:386`, `MCSpoolCutAppend.cfg`, `NothingLost`). A
   write that fails half way leaves part of a line; the process lives on and the
   next, accepted append is fused with it. `spool.go:164`: "Only the last line
   can be torn (every earlier one was fsync'd whole)".
3. **Verification against a purge** (`audit_chain.py:197`,
   `MCAuditChainVerifyHonest.cfg`, `VerifyHonest`). Checkpoint and rows are read
   in two statements; a purge that commits in between makes an intact chain look
   broken. `log_purge.py:102-103`: "A reader must never see a cut chain with a stale
   checkpoint".
4. **Repair against a purge** (`audit_chain.py:286`,
   `MCAuditChainRepairPurge.cfg`, `RepairHeals`). The purge does not take the
   advisory lock, so the seed of a repair may be out of date when its rows are
   relinked, and the repaired chain fails at its head. `log_purge.py:88`: the
   purge "has to leave the remainder verifiable".
5. **A version that is never recorded** (`agent_link.py:552`,
   `MCAgentUpdateRecord.cfg`, `VersionRecorded`). `post_update` delivers an
   instruction twice. When the first delivery fails and the second succeeds, the
   report of the failure clears the pending version because, as
   `agent_link.py:545` says, "This attempt is never going to reconnect at the
   target version". The agent does reconnect at that version, and no
   `version_changed` is recorded.
6. **An instruction that nobody answers** (`agent_link.py:507`,
   `MCAgentUpdateRefused.cfg`, `NeverLeftWaiting`). `link.go:1136-1139` has a busy
   agent's refusal "reported as an explicit failed status so the server is never
   left waiting on an instruction that was dropped". The server takes every such
   refusal for that of a duplicate and keeps the pending version. When the refused
   instruction was a new one, and its polled copy was deleted unseen between the GET
   and the DELETE of `pop_pending_update` (`agent_update.py:124`), nothing answers it.
7. **The watcher of an earlier attempt** (`rollback.go:113`,
   `MCAgentUpdateStaleWatch.cfg`, `RollbackAfterDeadline`). It recognises its attempt
   by the version alone, and undoes a second attempt at that version before its time.
   `rollback.go:114`: "superseded by a newer update's marker — either way, this
   window's job is done".
8. **Two drains** (`audit_spool.py:125`, `MCAuditChainTwoDrains.cfg`, `ChainedOnce`).
   The batch is selected before the lock, so overlapping drains chain entries twice.
   `audit_spool.py:109`: "Safe to call concurrently with itself". The scheduler runs
   one at a time.
9. **Grants committed during a hello** (`ws_agents.py:938`,
   `MCLinkSessionGrants.cfg`, `GrantsConverge`). An edit that commits after the
   hello's transaction read the grants and is published before the session
   subscribes reaches nobody; the agent keeps the old set as long as it stays
   connected. `put_capabilities` promises that "the agent still picks the change
   up next time it (re)connects or via its own periodic status poll".
10. **A finding after the close** (`agent_discovery.py:1566`,
   `MCDiscoveryLeaseClose.cfg`, `NothingAfterClose`). `_assert_dispatch_open` and
   the insert are not one statement; a cancellation that commits in between gets a
   finding recorded for a closed job. `agent_discovery.py:799`: "a finding for a
   job this closed is refused by `_assert_dispatch_open`".

Smaller ones show when the configuration named is given the constants or the
property named.

- *A missing newline* (`spool.go:175`): a last line that lacks only its newline
  decodes, so `load` heals nothing and the next append is fused with it.
  `NothingLost` in `MCSpoolCutAppend.cfg` with `Faults = {"cut_newline"}` and no
  write errors.
- *The loss record* (`spool.go:356`): a crash between persisting the record and
  compacting brings counted frames back. `LossNotOverstated` in `MCSpool.cfg` with
  `Faults = {}`.
- *Enqueue's error* (`spool.go:368`): a compaction error is returned for a frame
  that is spooled, and `Run` records it as destroyed. `FailedIsGone` in
  `MCSpool.cfg` with `Faults = {"write_error"}`.
- *A crash after the swap* (`updateworker.go:348`): between `Swap` and
  `MarkSwapped` the marker still says that `current` is untouched, so a restart
  into a broken version finds nothing to undo. `BrokenNeverStays` in
  `MCAgentUpdate.cfg` with `Faults = {"swap_gap"}`; a `MarkSwapped` whose write fails
  is logged and leaves the same marker (`Faults = {"mark_error"}`).
- *Acceptance during a rollback* (`rollback.go:127`): a `hello.ack` that arrives
  after the watcher has re-pointed the link replays "succeeded" for a version that
  is no longer installed. `ReplayTruthful` with `Faults = {"late_confirm"}`.
- *A cancellation with a stale token* (`agent_discovery.py:985`): the lease is
  claimed and its request published between the cancellation's read and its
  closing; no `discovery.cancel` quotes the token. `CancelReaches` as a PROPERTY
  of `MCDiscoveryLease.cfg`; the findings are refused all the same.
- *A scope read before the claim* (`agent_discovery.py:549`): a lease may be
  claimed under a version that an edit has replaced meanwhile, which
  `_scope_moved_under` says "can only starve". `ClaimedInForce` likewise; the
  deadline ends such a job.
- *A lock handed down early* (`lifecycle-state.py:1574`): a child started before
  the lock is bound can have the operation that its parent begins abandoned under
  it. `OnlyKilledAbandoned` in `MCLifecycle.cfg` with `EarlyHandoff = TRUE`; the
  scripts hand the lock down only afterwards.

Read from the code, without a model: a Redis error in `mark_presence_connected` or
`register_agent_connection` leaves `link_stream` before its `try`/`finally`, so
nothing is released; the lock is bound only by `begin`, so an interrupted
transaction blocks every later one until a recovery flow binds it; a legacy
operation that was killed has no legal closing record (it warns and does not
block); power loss that undoes a closing record, visible and not yet synced,
can leave two unfinished transactions, which `OneTransaction` therefore exempts.

## Plan

In this order; each module with its runs before its proofs.

1. `AuditChain`: `RepairHeals` and `StaysVerified`, where nothing purges. A
   repair, from the lock on, keeps the log that it sees free of breaks before its
   mark, and knows the hash the row at the mark has to continue; writers and drains
   that hold the lock know the tail of the log *they* see.
2. `Rekey`: cipher generations in both directions, composed with `DataLink`'s
   freeze; `DataLink` extended by the hardware projection and by failing Enqueues.
3. Probe runs, built like `DiscoveryLease`; enrolment tokens; TLS-pin succession.
4. `Backoff`, `Breaker`, `JobLock`.

## Not modelled

The modules above cover the protocols of the repository: state that several
processes change and that has to survive crashes, retries and lost messages.
That is a small part of its lines. Most of the code, in the order of its size:

- *Inventory, graph, layout, users, authentication, settings* (the bulk of
  `services/` and `api/`): request handlers that validate, run one transaction and
  format a response. The database serialises them, there is no protocol between
  them, and a model would repeat the queries without anything to check.
- *Discovery scanners, integrations (Proxmox, Docker, OPNsense), collectors,
  notifications*: conversations with external products and hosts, and the shaping
  of what they return.
- *Cryptography* (noise handshake, TLS, vault encryption): taken from libraries; a
  hash is an uninterpreted function here, a secure channel an ordered one.
- *Frontend, packaging, resource planning, the rendered parts of the command line*:
  presentation and configuration.
- *Migrations, schemas, generated and vendored code*: data.

Components with state of their own that are left for later are in the plan:
the reconnect ladder, the inbound sequence guard, rekeying, enrolment tokens, pin
succession, probe runs, single-owner jobs, the circuit breaker, rate limits,
monitoring workers.
