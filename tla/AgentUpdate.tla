---------------------------- MODULE AgentUpdate ----------------------------
(* The self-update of one agent, end to end.  An operator queues a version    *)
(* (post_update); the server delivers the instruction twice, as an immediate  *)
(* control frame and from a Redis key that the link session polls; the        *)
(* agent's single worker downloads, verifies, writes the rollback marker,     *)
(* swaps the `current` link, records the outcome and re-executes itself; the  *)
(* new process confirms by its first accepted hello.ack or is rolled back     *)
(* when its window ends.                                                      *)
(*                                                                            *)
(* The state directory survives the death of the process between any two      *)
(* steps.  The worker, the rollback watcher and the link's event loop are     *)
(* three goroutines of one process that share it.                             *)
EXTENDS Naturals, Sequences, FiniteSets

CONSTANTS
  Version,       \* versions the manifest offers
  First,         \* the version installed at the start
  Broken,        \* versions that start but never reach an accepted hello.ack
  None,          \* no version, no file, no key
  Faults,        \* what the environment may do, see Fault
  MaxQueue,      \* operator requests
  MaxLoss        \* deaths of the agent's process and links lost

Fault == {"swap_gap", "late_confirm", "stale_watch", "slow_commit", "mark_error"}

ASSUME UpdateAssumption ==
  /\ First \in Version \ Broken
  /\ Broken \subseteq Version
  /\ None \notin Version
  /\ Faults \subseteq Fault
  /\ MaxQueue \in Nat /\ MaxLoss \in Nat

VARIABLES
  \* the agent's state directory
  current,       \* target of the `current` link
  installed,     \* version directories
  marker,        \* update marker, or NoMarker
  outcome,       \* update_outcome: a version that succeeded, or None
  report,        \* rollback_report: the version rolled back from, or None
  \* the agent's process
  running,       \* version of the process image, None when it is down
  job,           \* the update worker: [pc, version, prev]
  statusC,       \* updates' status events not yet written to a link
  confirmed,     \* confirmOnce has run in this process
  watch,         \* watchForRollback: [version, after, pc]
  rollback,      \* the rollback in progress: [pc, version, prev]
  late,          \* the marker's confirmation deadline has passed
  \* the link
  link,          \* "down", "hello" (hello sent and committed) or "up"
  \* the server
  queued,        \* Redis key agent_pending_update
  popped,        \* value read by pop_pending_update, before its delete
  posting,       \* post_update between its publish and its commit
  pending,       \* agent.pending_update_version
  events,        \* per version, its timeline from the latest attempt mark on
  \* bounds
  posts, losses

disk == <<current, installed, marker, outcome, report, late>>
process == <<running, job, statusC, confirmed, watch, rollback>>
server == <<queued, popped, posting, pending, events, posts>>
vars == <<disk, process, link, server, losses>>

NoMarker == [phase |-> "none", version |-> None, prev |-> None]
IdleJob == [pc |-> "idle", version |-> None, prev |-> None]
NoWatch == [version |-> None, after |-> FALSE, pc |-> "none"]
NoRollback == [pc |-> "none", version |-> None, prev |-> None, boot |-> FALSE]

Terminal == {"succeeded", "failed", "rolled_back"}
AttemptMark == {"queued", "started"}

Init ==
  /\ current = First /\ installed = {First}
  /\ marker = NoMarker /\ outcome = None /\ report = None /\ late = FALSE
  /\ running = First /\ job = IdleJob /\ statusC = <<>> /\ confirmed = FALSE
  /\ watch = NoWatch /\ rollback = NoRollback
  /\ link = "down"
  /\ queued = None /\ popped = None /\ posting = None /\ pending = None
  /\ events = [v \in Version |-> {}]
  /\ posts = 0 /\ losses = 0

----------------------------------------------------------------------------
(* The server: the agent's reports.                                           *)

\* record_event: an attempt mark ends what is looked at for a replay.
Recorded(type, v) ==
  [events EXCEPT ![v] = (IF type \in AttemptMark THEN {} ELSE @) \cup {type}]

\* _is_replayed_update_status: newest first over this version's events, an
\* attempt mark means a new attempt, the same terminal event means a replay.
IsReplayed(type, v) == type \in Terminal /\ type \in events[v]

\* A busy worker's refusal is a "failed" on the wire, told apart by its text.
EventOf(phase) == IF phase = "refused" THEN "failed" ELSE phase

\* _handle_update_status: a failure clears a pending update to that version,
\* unless it is a busy worker's refusal; a terminal report that repeats one of
\* this attempt is not recorded again.
HandleStatus(status) ==
  /\ pending' = IF status[1] \in {"failed", "rolled_back"} /\ pending = status[2]
                THEN None ELSE pending
  /\ LET type == EventOf(status[1])
     IN events' = IF IsReplayed(type, status[2]) THEN events
                  ELSE Recorded(type, status[2])

\* The link is lost.
LoseLink == losses < MaxLoss /\ losses' = losses + 1 /\ link' = "down"

\* The agent writes a status on the link: the server handles it, or the link is
\* lost with it, which the agent's local write does not notice.
WriteStatus(status, up) ==
  \/ HandleStatus(status) /\ link' = up /\ UNCHANGED losses
  \/ LoseLink /\ UNCHANGED <<pending, events>>

----------------------------------------------------------------------------
(* The agent: the link's event loop.                                          *)

\* enqueue: the instruction is admitted when the worker is idle; the second
\* delivery of the version in flight is refused without a report, that of another
\* version is reported as refused, ahead of what the worker has queued.
Enqueue(v) ==
  IF job.pc = "idle"
  THEN /\ job' = [pc |-> "download", version |-> v, prev |-> None]
       /\ statusC' = Append(statusC, <<"started", v>>)
  ELSE /\ statusC' = IF job.version = v THEN statusC
                     ELSE <<<<"refused", v>>>> \o statusC
       /\ UNCHANGED job

\* Mutant: only the version to go back to is protected.
Pruned_OnlyBackup(keep) == installed \cap {keep}

\* PruneVersions removes every version directory but the live one and the one
\* the confirmed update came from.
Pruned(keep) == installed \cap {current, keep}

\* At start-up the link opens after RollbackIfExpired.  A connection that is
\* accepted while the watcher rolls back comes too late by a hair.
Reachable == rollback.pc = "none" \/ (~rollback.boot /\ "late_confirm" \in Faults)

\* link_stream accepts the hello and update_hello_metadata commits it: the
\* version the agent reports settles a pending update to that version.
Hello ==
  /\ link = "down" /\ running \notin {None} \cup Broken
  /\ Reachable
  /\ link' = "hello"
  /\ IF pending = running
     THEN /\ events' = Recorded("changed", running)
          /\ pending' = None
     ELSE UNCHANGED <<events, pending>>
  /\ UNCHANGED <<disk, process, queued, popped, posting, posts, losses>>

\* ReportPendingUpdateOutcome: what an earlier process could not send.
Unreported ==
  CASE outcome # None -> <<"succeeded", outcome>>
    [] outcome = None /\ report # None -> <<"rolled_back", report>>
    [] OTHER -> <<>>

\* hello.ack: OnConnected confirms the update, once per process, then the
\* record of an earlier outcome is sent and both record files are cleared; a
\* write that fails keeps them for the next connection.
HelloAck ==
  /\ link = "hello"
  /\ confirmed' = TRUE
  /\ IF confirmed
     THEN UNCHANGED <<marker, installed>>
     ELSE /\ marker' = NoMarker
          /\ installed' = IF marker # NoMarker THEN Pruned(marker.prev) ELSE installed
  /\ \/ /\ Unreported = <<>>
        /\ link' = "up" /\ UNCHANGED <<outcome, report, pending, events, losses>>
     \/ /\ Unreported # <<>>
        /\ WriteStatus(Unreported, "up")
        /\ outcome' = None /\ report' = None
     \/ /\ Unreported # <<>>
        /\ LoseLink
        /\ UNCHANGED <<outcome, report, pending, events>>
  /\ UNCHANGED <<current, late, running, job, statusC, watch, rollback,
                 queued, popped, posting, posts>>

\* The worker's status events are written on whatever link is open.
SendStatus ==
  /\ link # "down" /\ statusC # <<>>
  /\ WriteStatus(Head(statusC), link)
  /\ statusC' = Tail(statusC)
  /\ UNCHANGED <<disk, running, job, confirmed, watch, rollback,
                 queued, popped, posting, posts>>

Drop ==
  /\ link # "down"
  /\ LoseLink
  /\ UNCHANGED <<disk, process, server>>

----------------------------------------------------------------------------
(* The server: queueing and delivering an instruction.                        *)

\* request_update sets the key (it replaces an older instruction), then the
\* control frame is published; it reaches the agent only over a live link.
PostUpdate(v) ==
  /\ posts < MaxQueue /\ posting = None
  /\ posts' = posts + 1
  /\ queued' = v /\ posting' = v
  /\ IF link = "up" THEN Enqueue(v) ELSE UNCHANGED <<job, statusC>>
  /\ UNCHANGED <<disk, running, confirmed, watch, rollback, link, popped,
                 pending, events, losses>>

\* The transaction of post_update commits after both deliveries were started.
PostUpdateCommit ==
  /\ posting # None
  /\ pending' = posting
  /\ events' = Recorded("queued", posting)
  /\ posting' = None
  /\ UNCHANGED <<disk, process, link, queued, popped, posts, losses>>

\* pop_pending_update: GET ...
PopGet ==
  /\ link = "up" /\ popped = None /\ queued # None
  /\ popped' = queued
  /\ UNCHANGED <<disk, process, link, queued, posting, pending, events, posts,
                 losses>>

\* ... then DELETE of whatever the key holds by now, and the send, which is
\* lost when the link has gone meanwhile.
PopDelete ==
  /\ popped # None
  /\ queued' = None /\ popped' = None
  /\ IF link = "up" THEN Enqueue(popped) ELSE UNCHANGED <<job, statusC>>
  /\ UNCHANGED <<disk, running, confirmed, watch, rollback, link, posting,
                 pending, events, posts, losses>>

----------------------------------------------------------------------------
(* The agent: executeUpdate, step by step.                                    *)

\* Download, digest and signature check; a failure is reported and nothing
\* was installed.
Download ==
  /\ job.pc = "download"
  /\ job' = [job EXCEPT !.pc = "mark"]
  /\ UNCHANGED <<disk, running, statusC, confirmed, watch, rollback, link,
                 server, losses>>

UpdateFails ==
  /\ job.pc \in {"download", "mark", "swap"}
  /\ marker' = IF job.pc = "swap" THEN NoMarker ELSE marker
  /\ statusC' = Append(statusC, <<"failed", job.version>>)
  /\ job' = IdleJob
  /\ UNCHANGED <<current, installed, outcome, report, late, running, confirmed,
                 watch, rollback, link, server, losses>>

\* WriteMarker: before the swap, so that a death in between is recognisable.
WriteMarker ==
  /\ job.pc = "mark"
  /\ watch.version = job.version => "stale_watch" \in Faults
  /\ marker' = [phase |-> "swap", version |-> job.version, prev |-> None]
  /\ late' = FALSE
  /\ job' = [job EXCEPT !.pc = "swap"]
  /\ UNCHANGED <<current, installed, outcome, report, running, statusC,
                 confirmed, watch, rollback, link, server, losses>>

\* Swap installs the binary and re-points the link in one rename.
Swap ==
  /\ job.pc = "swap"
  /\ installed' = installed \cup {job.version}
  /\ current' = job.version
  /\ job' = [job EXCEPT !.pc = "swapped", !.prev = current]
  /\ UNCHANGED <<marker, outcome, report, late, running, statusC, confirmed,
                 watch, rollback, link, server, losses>>

\* MarkSwapped records what to go back to, and until when.  A write that fails
\* is logged, and the update goes on without its way back.
MarkSwapped ==
  /\ job.pc = "swapped"
  /\ \/ marker' = [phase |-> "confirm", version |-> job.version, prev |-> job.prev]
     \/ "mark_error" \in Faults /\ UNCHANGED marker
  /\ job' = [job EXCEPT !.pc = "outcome"]
  /\ UNCHANGED <<current, installed, outcome, report, late, running, statusC,
                 confirmed, watch, rollback, link, server, losses>>

\* WritePendingOutcome, before the live report; a write that fails is logged.
WritePendingOutcome ==
  /\ job.pc = "outcome"
  /\ outcome' \in {job.version, outcome}
  /\ statusC' = Append(statusC, <<"succeeded", job.version>>)
  /\ job' = [job EXCEPT !.pc = "exec"]
  /\ UNCHANGED <<current, installed, marker, report, late, running, confirmed,
                 watch, rollback, link, server, losses>>

\* A process that starts with an update to undo, or to watch.
Boots(undo, watched) ==
  /\ running' = current
  /\ job' = IdleJob /\ statusC' = <<>> /\ confirmed' = FALSE
  /\ link' = "down"
  /\ rollback' = IF undo THEN [pc |-> "link", version |-> marker.version,
                               prev |-> marker.prev, boot |-> TRUE]
                 ELSE NoRollback
  /\ watch' = IF ~undo /\ watched
              THEN [version |-> marker.version, after |-> marker.phase = "confirm",
                    pc |-> "sleep"]
              ELSE NoWatch

\* Mutant: an unconfirmed update is undone at the next start, deadline or not.
Started_IgnoresDeadline == Boots(marker.phase = "confirm", marker # NoMarker)

\* Mutant: only a start after the deadline acts on the marker.
Started_NoWatch == Boots(marker.phase = "confirm" /\ late, FALSE)

\* A new process image: memory and link are gone, `current` decides which
\* version runs; runDaemon first undoes an expired update, then watches one
\* that is still unconfirmed.  The enrolment between the two returns at once on
\* a host that has enrolled, as every host that was sent an update has.
Started == Boots(marker.phase = "confirm" /\ late, marker # NoMarker)

\* exec replaces the process; by then post_update has long committed.
Exec ==
  /\ job.pc = "exec"
  /\ posting # None => "slow_commit" \in Faults
  /\ Started
  /\ UNCHANGED <<disk, server, losses>>

----------------------------------------------------------------------------
(* The agent: confirmation deadline and rollback.                             *)

\* The deadline in the marker passes.
DeadlinePasses ==
  /\ marker.phase = "confirm" /\ ~late
  /\ late' = TRUE
  /\ UNCHANGED <<current, installed, marker, outcome, report, process, link,
                 server, losses>>

\* watchForRollback wakes after a whole window of this process, which is later
\* than the deadline of the marker the process found when it started, and
\* reads the marker.
WatchWakes ==
  /\ watch.pc = "sleep" /\ rollback.pc = "none"
  /\ link = "hello" => "late_confirm" \in Faults
  /\ watch.after /\ marker.version = watch.version => late
  /\ watch' = NoWatch
  /\ rollback' = IF marker.version # watch.version THEN NoRollback
                 ELSE [pc |-> IF marker.phase = "confirm" THEN "link" ELSE "abandon",
                       version |-> marker.version, prev |-> marker.prev,
                       boot |-> FALSE]
  /\ UNCHANGED <<disk, running, job, statusC, confirmed, link, server, losses>>

\* A marker whose swap never ran is cleared: there is nothing to undo.
AbandonMarker ==
  /\ rollback.pc = "abandon"
  /\ marker' = NoMarker
  /\ rollback' = NoRollback
  /\ UNCHANGED <<current, installed, outcome, report, late, running, job,
                 statusC, confirmed, watch, link, server, losses>>

\* Rollback, WriteRollbackReport, ClearPendingOutcome, ClearMarker, re-exec:
\* the same sequence at start-up (RollbackIfExpired) and in the watcher.
RollbackLink ==
  /\ rollback.pc = "link"
  /\ current' = rollback.prev
  /\ rollback' = [rollback EXCEPT !.pc = "report"]
  /\ UNCHANGED <<installed, marker, outcome, report, late, running, job,
                 statusC, confirmed, watch, link, server, losses>>

WriteRollbackReport ==
  /\ rollback.pc = "report"
  /\ report' = rollback.version
  /\ rollback' = [rollback EXCEPT !.pc = "outcome"]
  /\ UNCHANGED <<current, installed, marker, outcome, late, running, job,
                 statusC, confirmed, watch, link, server, losses>>

\* Mutant: the record of success survives the rollback.
ClearPendingOutcome_Keeps ==
  /\ rollback.pc = "outcome"
  /\ rollback' = [rollback EXCEPT !.pc = "marker"]
  /\ UNCHANGED <<disk, running, job, statusC, confirmed, watch, link, server, losses>>

ClearPendingOutcome ==
  /\ rollback.pc = "outcome"
  /\ outcome' = None
  /\ rollback' = [rollback EXCEPT !.pc = "marker"]
  /\ UNCHANGED <<current, installed, marker, report, late, running, job,
                 statusC, confirmed, watch, link, server, losses>>

ClearMarker ==
  /\ rollback.pc = "marker"
  /\ marker' = NoMarker
  /\ rollback' = [rollback EXCEPT !.pc = "exec"]
  /\ UNCHANGED <<current, installed, outcome, report, late, running, job,
                 statusC, confirmed, watch, link, server, losses>>

RollbackExec ==
  /\ rollback.pc = "exec"
  /\ Started
  /\ UNCHANGED <<disk, server, losses>>

----------------------------------------------------------------------------
(* Deaths and restarts of the process.                                        *)

Crash ==
  /\ running # None /\ losses < MaxLoss
  /\ job.pc = "swapped" => "swap_gap" \in Faults
  /\ losses' = losses + 1
  /\ running' = None
  /\ job' = IdleJob /\ statusC' = <<>> /\ confirmed' = FALSE
  /\ watch' = NoWatch /\ rollback' = NoRollback
  /\ link' = "down"
  /\ UNCHANGED <<disk, server>>

Restart ==
  /\ running = None
  /\ Started
  /\ UNCHANGED <<disk, server, losses>>

----------------------------------------------------------------------------

Next ==
  \/ \E v \in Version : PostUpdate(v)
  \/ PostUpdateCommit \/ PopGet \/ PopDelete \/ Hello
  \/ HelloAck \/ SendStatus \/ Drop
  \/ Download \/ UpdateFails \/ WriteMarker \/ Swap \/ MarkSwapped
  \/ WritePendingOutcome \/ Exec
  \/ DeadlinePasses \/ WatchWakes \/ AbandonMarker
  \/ RollbackLink \/ WriteRollbackReport \/ ClearPendingOutcome \/ ClearMarker
  \/ RollbackExec
  \/ Crash \/ Restart

Spec == Init /\ [][Next]_vars

\* The process supervisor restarts a dead agent, deadlines pass, started
\* sequences of local steps run on, and the link comes back.
Fairness ==
  /\ WF_vars(Restart) /\ WF_vars(DeadlinePasses) /\ WF_vars(WatchWakes)
  /\ WF_vars(AbandonMarker) /\ WF_vars(RollbackLink)
  /\ WF_vars(WriteRollbackReport) /\ WF_vars(ClearPendingOutcome)
  /\ WF_vars(ClearMarker) /\ WF_vars(RollbackExec)
  /\ WF_vars(Download \/ UpdateFails) /\ WF_vars(WriteMarker)
  /\ WF_vars(Swap) /\ WF_vars(MarkSwapped) /\ WF_vars(WritePendingOutcome)
  /\ WF_vars(Exec)
  /\ WF_vars(Hello) /\ WF_vars(HelloAck) /\ WF_vars(SendStatus)
  /\ WF_vars(PostUpdateCommit)
  /\ WF_vars(PopGet) /\ WF_vars(PopDelete)

FairSpec == Spec /\ Fairness

----------------------------------------------------------------------------
(* Properties                                                                 *)

\* What `current`, an unconfirmed update's marker and a rollback about to
\* re-point the link name is on disk: PruneVersions, which runs on every
\* confirmation, never removes the version a later rollback returns to.
RollbackPossible ==
  /\ current \in installed
  /\ marker.phase = "confirm" => marker.prev \in installed
  /\ rollback.pc = "link" => rollback.prev \in installed

\* The outcome that a new process replays after its first hello.ack says
\* "succeeded" of the version that is installed: a death or a rollback between
\* the swap, the record and the exec leaves no stale success behind.
ReplayTruthful == [][HelloAck /\ outcome # None => current = outcome]_vars

\* `current` is re-pointed backwards only after the confirmation deadline of
\* the update that is undone: neither watchForRollback nor RollbackIfExpired
\* takes a version away that still has time to confirm.
RollbackAfterDeadline == [][RollbackLink => late]_vars

\* A version that cannot reach the server does not keep the agent: whatever
\* crashes and however often its process is restarted, the agent ends on a
\* version that can.
BrokenNeverStays == <>[](running \notin Broken)

\* A failed attempt "is never going to reconnect at the target version", which
\* is why its report may clear the pending version (_handle_update_status): an
\* agent that confirms the version it was last sent has version_changed on its
\* timeline.
VersionRecorded ==
  [][HelloAck /\ outcome = running /\ marker.prev # running /\ pending = None =>
       "changed" \in events[running]]_vars

\* A refusal "is reported as an explicit failed status so the server is never
\* left waiting on an instruction that was dropped" (runOnce in link.go): a
\* version that the agent is reporting as refused is not pending for ever.
NeverLeftWaiting ==
  \A v \in Version :
    pending = v /\ statusC # <<>> /\ Head(statusC) = <<"refused", v>> ~> pending # v
============================================================================
