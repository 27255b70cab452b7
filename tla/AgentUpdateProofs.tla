------------------------- MODULE AgentUpdateProofs -------------------------
(* Proofs of AgentUpdate's safety, for every set of versions, every number of *)
(* requests, deaths and lost links.                                           *)
EXTENDS AgentUpdate, SequenceTheorems, TLAPS

----------------------------------------------------------------------------
(* Types.                                                                     *)

Held == Version \cup {None}
Status == {"started", "succeeded", "failed", "refused", "rolled_back"} \X Version

DiskTypeOK ==
  /\ current \in Version /\ installed \subseteq Version
  /\ marker \in [phase : {"none", "swap", "confirm"}, version : Held, prev : Held]
  /\ marker.phase = "none" => marker = NoMarker
  /\ marker.phase # "none" => marker.version \in Version
  /\ marker.phase = "confirm" => marker.prev \in Version
  /\ outcome \in Held /\ report \in Held /\ late \in BOOLEAN

WorkerTypeOK ==
  /\ running \in Held /\ confirmed \in BOOLEAN
  /\ job \in [pc : {"idle", "download", "mark", "swap", "swapped", "outcome", "exec"},
              version : Held, prev : Held]
  /\ job.pc # "idle" => job.version \in Version
  /\ job.pc \in {"swapped", "outcome", "exec"} => job.prev \in Version
  /\ statusC \in Seq(Status)

RollbackTypeOK ==
  /\ watch \in [version : Held, after : BOOLEAN, pc : {"none", "sleep"}]
  /\ watch.pc = "sleep" => watch.version \in Version
  /\ watch.pc = "none" => watch = NoWatch
  /\ rollback \in [pc : {"none", "link", "abandon", "report", "outcome", "marker", "exec"},
                   version : Held, prev : Held, boot : BOOLEAN]
  /\ rollback.pc = "link" => rollback.prev \in Version

ServerTypeOK ==
  /\ link \in {"down", "hello", "up"}
  /\ queued \in Held /\ popped \in Held /\ posting \in Held /\ pending \in Held
  /\ events \in [Version -> SUBSET (Terminal \cup AttemptMark \cup {"changed"})]

\* The files, the process, the server's record and what every goroutine knows
\* have their types: a job under way has a version, a swapped one a way back.
TypeOK == DiskTypeOK /\ WorkerTypeOK /\ RollbackTypeOK /\ ServerTypeOK

----------------------------------------------------------------------------
(* The inductive invariant.                                                   *)

\* Only a process that has confirmed is instructed: the worker and the first
\* hello.ack do not overlap.
ConfirmedFirst == (link = "up" => confirmed) /\ (job.pc # "idle" => confirmed)

\* A swapped job has its way back on disk, and the rollback of a process that may
\* still confirm goes where the marker says, which is what PruneVersions keeps.
WayBack ==
  /\ job.pc = "swapped" => job.prev \in installed
  /\ rollback.pc = "link" /\ ~confirmed => marker.phase = "confirm" /\ marker.prev = rollback.prev

DiskInv == RollbackPossible /\ ConfirmedFirst /\ WayBack

\* A process that has confirmed, or is about to, rolls nothing back.
Exclusive ==
  /\ confirmed \/ link = "hello" => rollback.pc = "none"
  /\ link # "down" => running # None

\* The watcher waits for the marker its process found, or for one that is gone.
WatchOK ==
  watch.pc = "sleep" =>
    /\ rollback.pc = "none"
    /\ confirmed => marker.version # watch.version
    /\ ~confirmed => /\ marker.version = watch.version
                     /\ watch.after <=> marker.phase = "confirm"
    /\ job.pc \in {"swap", "swapped", "outcome", "exec"} => job.version # watch.version

\* What a rollback has in hand: an expired marker until the outcome is cleared,
\* no outcome from then on.
RollbackOK ==
  /\ rollback.pc \in {"link", "report", "outcome"} => marker.phase = "confirm" /\ late
  /\ rollback.pc \in {"marker", "exec"} => outcome = None
  /\ rollback.pc = "abandon" => marker.phase = "swap"

\* The recorded success is that of the version installed, or the rollback of it
\* is under way and goes on whoever dies.
OutcomeOK ==
  /\ job.pc # "exec" /\ (job.pc # "idle" \/ link = "up") => outcome = None
  /\ job.pc \in {"swapped", "outcome"} => job.version = current
  /\ outcome # None /\ current # outcome => /\ marker.phase = "confirm" /\ late
                                            /\ running = None \/ rollback.pc # "none"

TimedInv == Exclusive /\ WatchOK /\ RollbackOK /\ OutcomeOK

\* The initial state satisfies all of it.
LEMMA InitInv == Init => TypeOK /\ DiskInv /\ TimedInv
<1> SUFFICES ASSUME Init PROVE TypeOK /\ DiskInv /\ TimedInv
  OBVIOUS
<1> USE UpdateAssumption DEF Init, NoMarker, IdleJob, NoWatch, NoRollback, Held
<1>1. DiskTypeOK
  <2>1. late \in BOOLEAN
    OBVIOUS
  <2> QED
    BY <2>1 DEF DiskTypeOK
<1>2. WorkerTypeOK
  <2>1. confirmed \in BOOLEAN
    OBVIOUS
  <2>2. statusC \in Seq(Status)
    OBVIOUS
  <2> QED
    BY <2>1, <2>2 DEF WorkerTypeOK
<1>3. RollbackTypeOK
  BY DEF RollbackTypeOK
<1>4. ServerTypeOK
  BY DEF ServerTypeOK
<1>5. DiskInv
  BY DEF DiskInv, RollbackPossible, ConfirmedFirst, WayBack
<1>6. TimedInv
  BY DEF TimedInv, Exclusive, WatchOK, RollbackOK, OutcomeOK
<1> QED
  BY <1>1, <1>2, <1>3, <1>4, <1>5, <1>6 DEF TypeOK

----------------------------------------------------------------------------
(* Types are kept.                                                            *)

\* A record of an earlier outcome, if there is one, is a status.
LEMMA UnreportedType ==
  ASSUME TypeOK, Unreported # <<>>
  PROVE  Unreported \in Status
<1>1. outcome \in Held /\ report \in Held
  BY DEF TypeOK, DiskTypeOK
<1> QED
  BY <1>1 DEF Unreported, Status, Held

\* Handling a status keeps the server's record.
LEMMA StatusType ==
  ASSUME TypeOK, NEW status \in Status, NEW up \in {"down", "hello", "up"},
         WriteStatus(status, up) \/ (LoseLink /\ UNCHANGED <<pending, events>>),
         UNCHANGED <<queued, popped, posting>>
  PROVE  ServerTypeOK'
<1>1. ServerTypeOK
  BY DEF TypeOK
<1>2. CASE LoseLink /\ UNCHANGED <<pending, events>>
  BY <1>1, <1>2 DEF LoseLink, ServerTypeOK
<1>3. CASE HandleStatus(status) /\ link' = up
  <2>1. /\ EventOf(status[1]) \in {"started", "succeeded", "failed", "rolled_back"}
        /\ status[2] \in Version
    BY DEF Status, EventOf
  <2>2. events' \in [Version -> SUBSET (Terminal \cup AttemptMark \cup {"changed"})]
    BY <1>1, <1>3, <2>1 DEF HandleStatus, Recorded, ServerTypeOK, Terminal, AttemptMark
  <2>3. pending' \in Held
    BY <1>1, <1>3 DEF HandleStatus, ServerTypeOK, Held
  <2> QED
    BY <1>1, <1>3, <2>2, <2>3 DEF ServerTypeOK
<1> QED
  BY <1>2, <1>3 DEF WriteStatus

\* The server's record.
LEMMA ServerType ==
  ASSUME TypeOK, Next
  PROVE  ServerTypeOK'
<1> USE DEF disk, process, server
<1>1. ServerTypeOK /\ None \in Held /\ Version \subseteq Held
  BY DEF TypeOK, Held
<1>2. ASSUME NEW v \in Version, PostUpdate(v) PROVE ServerTypeOK'
  BY <1>1, <1>2 DEF PostUpdate, ServerTypeOK
<1>3. CASE PostUpdateCommit
  <2>1. posting \in Version
    BY <1>1, <1>3 DEF PostUpdateCommit, ServerTypeOK, Held
  <2>2. events' \in [Version -> SUBSET (Terminal \cup AttemptMark \cup {"changed"})]
    BY <1>1, <1>3, <2>1 DEF PostUpdateCommit, Recorded, ServerTypeOK, AttemptMark
  <2> QED
    BY <1>1, <1>3, <2>1, <2>2 DEF PostUpdateCommit, ServerTypeOK
<1>4. CASE PopGet \/ PopDelete \/ Drop
  BY <1>1, <1>4 DEF PopGet, PopDelete, Drop, LoseLink, ServerTypeOK
<1>5. CASE Hello
  <2>1. running \in Version
    BY <1>5 DEF Hello, TypeOK, WorkerTypeOK, Held
  <2>2. events' \in [Version -> SUBSET (Terminal \cup AttemptMark \cup {"changed"})]
    BY <1>1, <1>5, <2>1 DEF Hello, Recorded, ServerTypeOK
  <2> QED
    BY <1>1, <1>5, <2>2 DEF Hello, ServerTypeOK
<1>6. CASE HelloAck
  <2>1. CASE Unreported = <<>>
    BY <1>1, <1>6, <2>1 DEF HelloAck, ServerTypeOK
  <2>2. CASE Unreported # <<>>
    <3>1. /\ WriteStatus(Unreported, "up") \/ (LoseLink /\ UNCHANGED <<pending, events>>)
          /\ UNCHANGED <<queued, popped, posting>>
      BY <1>6, <2>2 DEF HelloAck
    <3> QED
      BY <2>2, <3>1, UnreportedType, StatusType
  <2> QED
    BY <2>1, <2>2
<1>7. CASE SendStatus
  <2>1. statusC \in Seq(Status) /\ statusC # <<>> /\ link \in {"down", "hello", "up"}
    BY <1>7 DEF SendStatus, TypeOK, WorkerTypeOK, ServerTypeOK
  <2>2. Head(statusC) \in Status
    BY <2>1
  <2>3. WriteStatus(Head(statusC), link) /\ UNCHANGED <<queued, popped, posting>>
    BY <1>7 DEF SendStatus
  <2> QED
    BY <2>1, <2>2, <2>3, StatusType
<1>8. CASE Exec \/ RollbackExec \/ Restart
  BY <1>1, <1>8 DEF Exec, RollbackExec, Restart, Started, Boots, ServerTypeOK
<1>9. CASE Crash
  BY <1>1, <1>9 DEF Crash, ServerTypeOK
<1>10. CASE \/ Download \/ UpdateFails \/ WriteMarker \/ Swap \/ MarkSwapped
            \/ WritePendingOutcome \/ DeadlinePasses \/ WatchWakes \/ AbandonMarker
            \/ RollbackLink \/ WriteRollbackReport \/ ClearPendingOutcome \/ ClearMarker
  <2>1. UNCHANGED <<link, server>>
    BY <1>10 DEF Download, UpdateFails, WriteMarker, Swap, MarkSwapped, WritePendingOutcome,
                 DeadlinePasses, WatchWakes, AbandonMarker, RollbackLink, WriteRollbackReport,
                 ClearPendingOutcome, ClearMarker
  <2> QED
    BY <1>1, <2>1 DEF ServerTypeOK
<1> QED
  BY <1>2, <1>3, <1>4, <1>5, <1>6, <1>7, <1>8, <1>9, <1>10 DEF Next

\* The state directory.
LEMMA DiskType ==
  ASSUME TypeOK, Next
  PROVE  DiskTypeOK'
<1> USE DEF disk, process, server
<1>1. DiskTypeOK /\ None \in Held /\ Version \subseteq Held /\ None \notin Version
  BY UpdateAssumption DEF TypeOK, Held
<1>2. CASE HelloAck
  <2>1. /\ marker' \in {marker, NoMarker} /\ installed' \subseteq installed
        /\ outcome' \in {outcome, None} /\ report' \in {report, None}
        /\ current' = current /\ late' = late
    BY <1>2 DEF HelloAck, Pruned
  <2> QED
    BY <1>1, <2>1 DEF DiskTypeOK, NoMarker
<1>3. CASE UpdateFails
  BY <1>1, <1>3 DEF UpdateFails, DiskTypeOK, NoMarker
<1>4. CASE WriteMarker
  <2>1. job.version \in Version /\ late' \in BOOLEAN
    BY <1>4 DEF WriteMarker, TypeOK, WorkerTypeOK
  <2> QED
    BY <1>1, <1>4, <2>1 DEF WriteMarker, DiskTypeOK
<1>5. CASE Swap
  BY <1>1, <1>5 DEF Swap, DiskTypeOK, TypeOK, WorkerTypeOK
<1>6. CASE MarkSwapped
  <2>1. job.version \in Version /\ job.prev \in Version
    BY <1>6 DEF MarkSwapped, TypeOK, WorkerTypeOK
  <2> QED
    BY <1>1, <1>6, <2>1 DEF MarkSwapped, DiskTypeOK
<1>7. CASE WritePendingOutcome
  BY <1>1, <1>7 DEF WritePendingOutcome, DiskTypeOK, TypeOK, WorkerTypeOK
<1>8. CASE DeadlinePasses
  <2>1. late' \in BOOLEAN
    BY <1>8 DEF DeadlinePasses
  <2> QED
    BY <1>1, <1>8, <2>1 DEF DeadlinePasses, DiskTypeOK
<1>9. CASE AbandonMarker \/ ClearMarker
  BY <1>1, <1>9 DEF AbandonMarker, ClearMarker, DiskTypeOK, NoMarker
<1>10. CASE RollbackLink
  BY <1>1, <1>10 DEF RollbackLink, DiskTypeOK, TypeOK, RollbackTypeOK
<1>11. CASE WriteRollbackReport \/ ClearPendingOutcome
  <2>1. rollback.version \in Held
    BY DEF TypeOK, RollbackTypeOK
  <2> QED
    BY <1>1, <1>11, <2>1 DEF WriteRollbackReport, ClearPendingOutcome, DiskTypeOK
<1>12. CASE UNCHANGED disk
  BY <1>1, <1>12 DEF DiskTypeOK
<1>13. CASE \/ \E v \in Version : PostUpdate(v)
            \/ PostUpdateCommit \/ PopGet \/ PopDelete \/ Hello \/ SendStatus \/ Drop
            \/ Download \/ Exec \/ WatchWakes \/ RollbackExec \/ Crash \/ Restart
  BY <1>12, <1>13 DEF PostUpdate, PostUpdateCommit, PopGet, PopDelete, Hello, SendStatus, Drop,
                      Download, Exec, WatchWakes, RollbackExec, Crash, Restart
<1> QED
  BY <1>2, <1>3, <1>4, <1>5, <1>6, <1>7, <1>8, <1>9, <1>10, <1>11, <1>13 DEF Next

\* The worker, with what it has to report.
LEMMA WorkerType ==
  ASSUME TypeOK, Next
  PROVE  WorkerTypeOK'
<1> USE DEF disk, process, server
<1>1. WorkerTypeOK /\ statusC \in Seq(Status)
  BY DEF TypeOK, WorkerTypeOK
<1>2. \A v \in Version : /\ Append(statusC, <<"started", v>>) \in Seq(Status)
                          /\ Append(statusC, <<"failed", v>>) \in Seq(Status)
                          /\ Append(statusC, <<"succeeded", v>>) \in Seq(Status)
                          /\ <<<<"refused", v>>>> \o statusC \in Seq(Status)
  <2>1. \A s \in Seq(Status), x \in Status : Append(s, x) \in Seq(Status) /\ <<x>> \o s \in Seq(Status)
    OBVIOUS
  <2>2. \A v \in Version : /\ <<"started", v>> \in Status /\ <<"failed", v>> \in Status
                            /\ <<"succeeded", v>> \in Status /\ <<"refused", v>> \in Status
    BY DEF Status
  <2> QED
    BY <1>1, <2>1, <2>2
<1>3. ASSUME NEW v \in Version, Enqueue(v) \/ UNCHANGED <<job, statusC>>,
             UNCHANGED <<running, confirmed>>
      PROVE  WorkerTypeOK'
  <2>1. statusC' \in Seq(Status)
    BY <1>1, <1>2, <1>3 DEF Enqueue
  <2> QED
    BY <1>1, <1>3, <2>1 DEF Enqueue, WorkerTypeOK, Held
<1>4. ASSUME NEW v \in Version, PostUpdate(v) PROVE WorkerTypeOK'
  BY <1>3, <1>4 DEF PostUpdate
<1>5. CASE PopDelete
  <2>1. popped \in Version
    BY <1>5 DEF PopDelete, TypeOK, ServerTypeOK, Held
  <2> QED
    BY <1>3, <1>5, <2>1 DEF PopDelete
<1>6. CASE HelloAck
  <2>1. confirmed' \in BOOLEAN
    BY <1>6 DEF HelloAck
  <2> QED
    BY <1>1, <1>6, <2>1 DEF HelloAck, WorkerTypeOK
<1>7. CASE SendStatus
  <2>1. statusC # <<>> /\ statusC' = Tail(statusC) /\ UNCHANGED <<running, job, confirmed>>
    BY <1>7 DEF SendStatus
  <2>2. statusC' \in Seq(Status)
    BY <1>1, <2>1
  <2> QED
    BY <1>1, <2>1, <2>2 DEF WorkerTypeOK
<1>8. CASE Download \/ WriteMarker \/ MarkSwapped
  BY <1>1, <1>8 DEF Download, WriteMarker, MarkSwapped, WorkerTypeOK
<1>9. CASE Swap
  BY <1>1, <1>9 DEF Swap, WorkerTypeOK, TypeOK, DiskTypeOK, Held
<1>10. CASE UpdateFails
  <2>1. statusC' \in Seq(Status)
    BY <1>1, <1>2, <1>10 DEF UpdateFails, WorkerTypeOK
  <2> QED
    BY <1>1, <1>10, <2>1 DEF UpdateFails, WorkerTypeOK, IdleJob, Held
<1>11. CASE WritePendingOutcome
  <2>1. statusC' \in Seq(Status)
    BY <1>1, <1>2, <1>11 DEF WritePendingOutcome, WorkerTypeOK
  <2> QED
    BY <1>1, <1>11, <2>1 DEF WritePendingOutcome, WorkerTypeOK
<1>12. CASE Exec \/ RollbackExec \/ Restart \/ Crash
  <2>0. confirmed' = FALSE /\ statusC' = <<>> /\ job' = IdleJob
    BY <1>12 DEF Exec, RollbackExec, Restart, Started, Boots, Crash
  <2>1. confirmed' \in BOOLEAN
    BY <2>0
  <2>3. statusC' \in Seq(Status)
    BY <2>0
  <2>2. running' \in Held
    BY <1>12 DEF Exec, RollbackExec, Restart, Started, Boots, Crash, TypeOK, DiskTypeOK, Held
  <2> QED
    BY <2>0, <2>1, <2>2, <2>3 DEF WorkerTypeOK, IdleJob, Held
<1>13. CASE UNCHANGED <<running, confirmed, job, statusC>>
  BY <1>1, <1>13 DEF WorkerTypeOK
<1>14. CASE \/ PostUpdateCommit \/ PopGet \/ Hello \/ Drop \/ DeadlinePasses \/ WatchWakes
            \/ AbandonMarker \/ RollbackLink \/ WriteRollbackReport \/ ClearPendingOutcome
            \/ ClearMarker
  BY <1>13, <1>14 DEF PostUpdateCommit, PopGet, Hello, Drop, DeadlinePasses, WatchWakes,
                      AbandonMarker, RollbackLink, WriteRollbackReport, ClearPendingOutcome,
                      ClearMarker
<1> QED
  BY <1>4, <1>5, <1>6, <1>7, <1>8, <1>9, <1>10, <1>11, <1>12, <1>14 DEF Next

\* The watcher and the rollback.
LEMMA RollbackType ==
  ASSUME TypeOK, Next
  PROVE  RollbackTypeOK'
<1> USE DEF disk, process, server
<1> DEFINE Undo == [pc : {"none", "link", "abandon", "report", "outcome", "marker", "exec"},
                    version : Held, prev : Held, boot : BOOLEAN]
           Watcher == [version : Held, after : BOOLEAN, pc : {"none", "sleep"}]
<1>1. /\ RollbackTypeOK /\ DiskTypeOK
      /\ marker.version \in Held /\ marker.prev \in Held
  BY DEF TypeOK, DiskTypeOK
<1>2. NoWatch \in Watcher /\ NoRollback \in Undo /\ NoWatch.pc = "none" /\ NoRollback.pc = "none"
  BY DEF NoWatch, NoRollback, Held
<1>3. \A p \in {"link", "abandon"}, b \in BOOLEAN :
        [pc |-> p, version |-> marker.version, prev |-> marker.prev, boot |-> b] \in Undo
  BY <1>1
<1>4. \A b \in BOOLEAN : [version |-> marker.version, after |-> b, pc |-> "sleep"] \in Watcher
  BY <1>1
<1>5. CASE Exec \/ RollbackExec \/ Restart
  <2>1. Boots(marker.phase = "confirm" /\ late, marker # NoMarker)
    BY <1>5 DEF Exec, RollbackExec, Restart, Started
  <2>2. /\ rollback' \in Undo
        /\ rollback'.pc = "link" => rollback'.prev \in Version
    <3>1. CASE marker.phase = "confirm" /\ late
      BY <1>1, <1>3, <2>1, <3>1 DEF Boots, DiskTypeOK
    <3>2. CASE ~(marker.phase = "confirm" /\ late)
      BY <1>2, <2>1, <3>2 DEF Boots
    <3> QED
      BY <3>1, <3>2
  <2>3. /\ watch' \in Watcher
        /\ watch'.pc = "sleep" => watch'.version \in Version
        /\ watch'.pc = "none" => watch' = NoWatch
    <3>1. CASE ~(marker.phase = "confirm" /\ late) /\ marker # NoMarker
      <4>1. marker.version \in Version
        BY <1>1, <3>1 DEF DiskTypeOK
      <4>2. (marker.phase = "confirm") \in BOOLEAN
        OBVIOUS
      <4>3. watch' = [version |-> marker.version, after |-> marker.phase = "confirm", pc |-> "sleep"]
        BY <2>1, <3>1 DEF Boots
      <4>4. watch' \in Watcher
        BY <1>4, <4>2, <4>3
      <4> QED
        BY <4>1, <4>3, <4>4
    <3>2. CASE ~(~(marker.phase = "confirm" /\ late) /\ marker # NoMarker)
      BY <1>2, <2>1, <3>2 DEF Boots
    <3> QED
      BY <3>1, <3>2
  <2> QED
    BY <2>2, <2>3 DEF RollbackTypeOK
<1>6. CASE WatchWakes
  <2>1. watch' = NoWatch
    BY <1>6 DEF WatchWakes
  <2>2. rollback' \in Undo /\ (rollback'.pc = "link" => rollback'.prev \in Version)
    <3>1. CASE marker.version # watch.version
      BY <1>2, <1>6, <3>1 DEF WatchWakes
    <3>2. CASE marker.version = watch.version /\ marker.phase = "confirm"
      BY <1>1, <1>3, <1>6, <3>2 DEF WatchWakes, DiskTypeOK
    <3>3. CASE marker.version = watch.version /\ marker.phase # "confirm"
      BY <1>1, <1>3, <1>6, <3>3 DEF WatchWakes
    <3> QED
      BY <3>1, <3>2, <3>3
  <2> QED
    BY <1>2, <2>1, <2>2 DEF RollbackTypeOK
<1>7. CASE Crash
  <2>1. watch' = NoWatch /\ rollback' = NoRollback
    BY <1>7 DEF Crash
  <2> QED
    BY <1>2, <2>1 DEF RollbackTypeOK
<1>8. CASE AbandonMarker
  <2>1. UNCHANGED watch /\ rollback' = NoRollback
    BY <1>8 DEF AbandonMarker
  <2> QED
    BY <1>1, <1>2, <2>1 DEF RollbackTypeOK
<1>9. CASE RollbackLink \/ WriteRollbackReport \/ ClearPendingOutcome \/ ClearMarker
  <2>1. PICK p \in {"report", "outcome", "marker", "exec"} :
          UNCHANGED watch /\ rollback' = [rollback EXCEPT !.pc = p]
    BY <1>9 DEF RollbackLink, WriteRollbackReport, ClearPendingOutcome, ClearMarker
  <2>2. rollback \in Undo
    BY <1>1 DEF RollbackTypeOK
  <2>3. rollback' \in Undo /\ rollback'.pc # "link"
    BY <2>1, <2>2
  <2> QED
    BY <1>1, <2>1, <2>3 DEF RollbackTypeOK
<1>10. CASE UNCHANGED <<watch, rollback>>
  BY <1>1, <1>10 DEF RollbackTypeOK
<1>11. CASE \/ \E v \in Version : PostUpdate(v)
            \/ PostUpdateCommit \/ PopGet \/ PopDelete \/ Hello \/ HelloAck \/ SendStatus
            \/ Drop \/ Download \/ UpdateFails \/ WriteMarker \/ Swap \/ MarkSwapped
            \/ WritePendingOutcome \/ DeadlinePasses
  BY <1>10, <1>11 DEF PostUpdate, PostUpdateCommit, PopGet, PopDelete, Hello, HelloAck,
                      SendStatus, Drop, Download, UpdateFails, WriteMarker, Swap, MarkSwapped,
                      WritePendingOutcome, DeadlinePasses
<1> QED
  BY <1>5, <1>6, <1>7, <1>8, <1>9, <1>11 DEF Next

\* Every step keeps the types.
LEMMA NextType == TypeOK /\ [Next]_vars => TypeOK'
<1> SUFFICES ASSUME TypeOK, [Next]_vars PROVE TypeOK'
  OBVIOUS
<1>1. CASE UNCHANGED vars
  BY <1>1 DEF vars, disk, process, server, TypeOK, DiskTypeOK, WorkerTypeOK, RollbackTypeOK,
              ServerTypeOK
<1>2. CASE Next
  BY <1>2, DiskType, WorkerType, RollbackType, ServerType DEF TypeOK
<1> QED
  BY <1>1, <1>2

----------------------------------------------------------------------------
(* What a rollback returns to is on disk, whatever the environment does.      *)

\* A new process image finds the files as they are and knows nothing else.
LEMMA StartedFacts ==
  ASSUME Exec \/ RollbackExec \/ Restart
  PROVE  /\ UNCHANGED <<current, installed, marker, outcome, report, late>>
         /\ running' = current /\ job'.pc = "idle" /\ ~confirmed' /\ link' = "down"
         /\ \/ /\ marker.phase = "confirm" /\ late
               /\ rollback'.pc = "link" /\ rollback'.prev = marker.prev /\ watch'.pc = "none"
            \/ /\ ~(marker.phase = "confirm" /\ late) /\ rollback'.pc = "none"
               /\ watch'.pc = "sleep" => /\ watch'.version = marker.version
                                         /\ watch'.after <=> marker.phase = "confirm"
<1>1. /\ UNCHANGED <<current, installed, marker, outcome, report, late>>
      /\ running' = current /\ job'.pc = "idle" /\ ~confirmed' /\ link' = "down"
  BY DEF Exec, RollbackExec, Restart, Started, Boots, disk, IdleJob
<1>2. /\ rollback' = IF marker.phase = "confirm" /\ late
                     THEN [pc |-> "link", version |-> marker.version,
                           prev |-> marker.prev, boot |-> TRUE]
                     ELSE NoRollback
      /\ watch' = IF ~(marker.phase = "confirm" /\ late) /\ marker # NoMarker
                  THEN [version |-> marker.version, after |-> marker.phase = "confirm",
                        pc |-> "sleep"]
                  ELSE NoWatch
  BY DEF Exec, RollbackExec, Restart, Started, Boots
<1>3. CASE marker.phase = "confirm" /\ late
  BY <1>1, <1>2, <1>3 DEF NoWatch
<1>4. CASE ~(marker.phase = "confirm" /\ late)
  <2>1. rollback'.pc = "none"
    BY <1>2, <1>4 DEF NoRollback
  <2>2. CASE marker # NoMarker
    <3>1. watch' = [version |-> marker.version, after |-> marker.phase = "confirm", pc |-> "sleep"]
      BY <1>2, <1>4, <2>2
    <3>2. watch'.version = marker.version /\ (watch'.after <=> marker.phase = "confirm")
      BY <3>1
    <3> QED
      BY <1>1, <1>4, <2>1, <3>2
  <2>3. CASE marker = NoMarker
    <3>1. watch'.pc = "none"
      BY <1>2, <2>3 DEF NoWatch
    <3> QED
      BY <1>1, <1>4, <2>1, <3>1
  <2> QED
    BY <2>2, <2>3
<1> QED
  BY <1>3, <1>4

\* An instruction is admitted over a link that is up, so after the confirmation.
LEMMA EnqueueFacts ==
  ASSUME TypeOK, DiskInv, PopDelete \/ \E v \in Version : PostUpdate(v)
  PROVE  /\ UNCHANGED <<disk, running, confirmed, watch, rollback, link>>
         /\ \/ UNCHANGED job
            \/ /\ job.pc = "idle" /\ job'.pc = "download" /\ confirmed /\ link = "up"
<1>1. CASE PopDelete
  BY <1>1 DEF PopDelete, Enqueue, disk, DiskInv, ConfirmedFirst
<1>2. CASE \E v \in Version : PostUpdate(v)
  BY <1>2 DEF PostUpdate, Enqueue, disk, DiskInv, ConfirmedFirst
<1> QED
  BY <1>1, <1>2

\* PruneVersions runs only on a confirmation, and keeps the live version and the
\* one the marker names.
LEMMA HelloAckFacts ==
  ASSUME HelloAck
  PROVE  /\ link = "hello" /\ confirmed' = TRUE
         /\ UNCHANGED <<current, late, running, job, watch, rollback>>
         /\ \/ confirmed /\ UNCHANGED <<marker, installed>>
            \/ /\ ~confirmed /\ marker' = NoMarker
               /\ installed' = IF marker # NoMarker THEN installed \cap {current, marker.prev}
                               ELSE installed
         /\ \/ link' = "up" /\ outcome' = None
            \/ link' = "down" /\ outcome' \in {outcome, None}
<1>1. /\ link = "hello" /\ confirmed' = TRUE
      /\ UNCHANGED <<current, late, running, job, watch, rollback>>
  BY DEF HelloAck
<1>2. \/ confirmed /\ UNCHANGED <<marker, installed>>
      \/ /\ ~confirmed /\ marker' = NoMarker
         /\ installed' = IF marker # NoMarker THEN installed \cap {current, marker.prev}
                         ELSE installed
  BY DEF HelloAck, Pruned
<1>3. \/ link' = "up" /\ outcome' = None
      \/ link' = "down" /\ outcome' \in {outcome, None}
  <2>1. CASE Unreported = <<>>
    <3>1. outcome = None
      BY <2>1 DEF Unreported
    <3> QED
      BY <2>1, <3>1 DEF HelloAck
  <2>2. CASE Unreported # <<>>
    BY <2>2 DEF HelloAck, WriteStatus, LoseLink
  <2> QED
    BY <2>1, <2>2
<1> QED
  BY <1>1, <1>2, <1>3

\* Every step keeps the way back.
LEMMA NextDisk == TypeOK /\ DiskInv /\ [Next]_vars => DiskInv'
<1> SUFFICES ASSUME TypeOK, DiskInv, [Next]_vars PROVE DiskInv'
  OBVIOUS
<1> USE UpdateAssumption DEF disk, process, server, DiskInv, RollbackPossible, ConfirmedFirst, WayBack
<1>0. CASE UNCHANGED vars
  BY <1>0 DEF vars
<1>1. CASE PopDelete \/ \E v \in Version : PostUpdate(v)
  <2>1. /\ UNCHANGED <<current, installed, marker, confirmed, rollback, link>>
        /\ job'.pc = "swapped" => UNCHANGED job
        /\ job'.pc # "idle" => confirmed
    BY <1>1, EnqueueFacts
  <2> QED
    BY <2>1
<1>2. CASE HelloAck
  <2>1. DiskTypeOK
    BY DEF TypeOK
  <2> QED
    BY <1>2, <2>1, HelloAckFacts DEF NoMarker, DiskTypeOK
<1>3. CASE Exec \/ RollbackExec \/ Restart
  <2>1. /\ UNCHANGED <<current, installed, marker>>
        /\ job'.pc = "idle" /\ link' = "down"
    BY <1>3, StartedFacts
  <2>2. rollback'.pc = "link" => marker.phase = "confirm" /\ rollback'.prev = marker.prev
    BY <1>3, StartedFacts
  <2> QED
    BY <2>1, <2>2
<1>4. CASE Crash
  BY <1>4 DEF Crash, IdleJob, NoRollback
<1>5. CASE Hello \/ Drop \/ PostUpdateCommit \/ PopGet
  BY <1>5 DEF Hello, Drop, LoseLink, PostUpdateCommit, PopGet
<1>6. CASE SendStatus
  BY <1>6 DEF SendStatus, WriteStatus, LoseLink
<1>7. CASE Download
  BY <1>7 DEF Download, TypeOK, WorkerTypeOK
<1>8. CASE UpdateFails
  BY <1>8 DEF UpdateFails, IdleJob, NoMarker, TypeOK, WorkerTypeOK
<1>9. CASE WriteMarker
  BY <1>9 DEF WriteMarker, TypeOK, WorkerTypeOK
<1>10. CASE Swap
  BY <1>10 DEF Swap, TypeOK, WorkerTypeOK
<1>11. CASE MarkSwapped
  BY <1>11 DEF MarkSwapped, TypeOK, WorkerTypeOK
<1>12. CASE WritePendingOutcome
  BY <1>12 DEF WritePendingOutcome, TypeOK, WorkerTypeOK
<1>13. CASE DeadlinePasses
  BY <1>13 DEF DeadlinePasses
<1>14. CASE WatchWakes
  BY <1>14 DEF WatchWakes, NoRollback
<1>15. CASE AbandonMarker
  BY <1>15 DEF AbandonMarker, NoRollback, NoMarker
<1>16. CASE RollbackLink
  BY <1>16 DEF RollbackLink, TypeOK, RollbackTypeOK
<1>17. CASE WriteRollbackReport \/ ClearPendingOutcome
  BY <1>17 DEF WriteRollbackReport, ClearPendingOutcome, TypeOK, RollbackTypeOK
<1>18. CASE ClearMarker
  BY <1>18 DEF ClearMarker, NoMarker, TypeOK, RollbackTypeOK
<1> QED
  BY <1>0, <1>1, <1>2, <1>3, <1>4, <1>5, <1>6, <1>7, <1>8, <1>9, <1>10, <1>11, <1>12, <1>13,
     <1>14, <1>15, <1>16, <1>17, <1>18 DEF Next

----------------------------------------------------------------------------
(* Deadlines and recorded outcomes, in an environment whose timing is not      *)
(* degenerate: no hello.ack arrives while the watcher decides, and no second   *)
(* attempt at a version begins while the watcher of the first one sleeps.      *)

Punctual == "late_confirm" \notin Faults /\ "stale_watch" \notin Faults

Inv == TypeOK /\ DiskInv /\ TimedInv

\* Steps of the link and of the server.
LEMMA LinkTimed ==
  ASSUME Punctual, Inv,
         \/ PopDelete \/ \E v \in Version : PostUpdate(v)
         \/ HelloAck \/ Hello \/ Drop \/ PostUpdateCommit \/ PopGet \/ SendStatus
  PROVE  TimedInv'
<1> USE UpdateAssumption DEF disk, process, server, TimedInv
<1>1. TypeOK /\ DiskInv /\ TimedInv
  BY DEF Inv
<1>2. CASE PopDelete \/ \E v \in Version : PostUpdate(v)
  <2>1. /\ UNCHANGED <<disk, running, confirmed, watch, rollback, link>>
        /\ \/ UNCHANGED job
           \/ job.pc = "idle" /\ job'.pc = "download" /\ confirmed /\ link = "up"
    BY <1>1, <1>2, EnqueueFacts
  <2> QED
    BY <1>1, <2>1 DEF Exclusive, WatchOK, RollbackOK, OutcomeOK
<1>3. CASE HelloAck
  <2>1. rollback.pc = "none" /\ running # None
    BY <1>1, <1>3 DEF HelloAck, Exclusive
  <2>2. Exclusive' /\ RollbackOK'
    BY <1>1, <1>3, <2>1, HelloAckFacts DEF Exclusive, RollbackOK
  <2>3. WatchOK'
    <3>1. watch.pc = "sleep" => watch.version # None
      BY <1>1 DEF TypeOK, RollbackTypeOK
    <3> QED
      BY <1>1, <1>3, <2>1, <3>1, HelloAckFacts DEF WatchOK, NoMarker
  <2>4. OutcomeOK'
    BY <1>1, <1>3, <2>1, HelloAckFacts DEF OutcomeOK
  <2> QED
    BY <2>2, <2>3, <2>4
<1>4. CASE Hello
  <2>1. /\ rollback.pc = "none" /\ running # None /\ link' = "hello"
        /\ UNCHANGED <<disk, process>>
    BY <1>4 DEF Punctual, Hello, Reachable
  <2> QED
    BY <1>1, <2>1 DEF Exclusive, WatchOK, RollbackOK, OutcomeOK
<1>5. CASE Drop \/ PostUpdateCommit \/ PopGet \/ SendStatus
  <2>1. /\ link' \in {link, "down"}
        /\ UNCHANGED <<disk, running, job, confirmed, watch, rollback>>
    BY <1>5 DEF Drop, LoseLink, PostUpdateCommit, PopGet, SendStatus, WriteStatus
  <2> QED
    BY <1>1, <2>1 DEF Exclusive, WatchOK, RollbackOK, OutcomeOK
<1> QED
  BY <1>2, <1>3, <1>4, <1>5

\* Steps of the worker.
LEMMA WorkerTimed ==
  ASSUME Punctual, Inv,
         \/ Download \/ UpdateFails \/ WriteMarker \/ Swap \/ MarkSwapped \/ WritePendingOutcome
  PROVE  TimedInv'
<1> USE UpdateAssumption DEF disk, process, server, TimedInv
<1>1. TypeOK /\ DiskInv /\ TimedInv /\ WorkerTypeOK
  BY DEF Inv, TypeOK
<1>2. confirmed /\ rollback.pc = "none" /\ outcome = None /\ job.pc # "idle"
  BY <1>1 DEF Download, UpdateFails, WriteMarker, Swap, MarkSwapped, WritePendingOutcome,
              DiskInv, ConfirmedFirst, Exclusive, OutcomeOK
<1>3. UNCHANGED <<running, confirmed, watch, rollback, link>>
  BY DEF Download, UpdateFails, WriteMarker, Swap, MarkSwapped, WritePendingOutcome
<1>4. Exclusive' /\ RollbackOK'
  BY <1>1, <1>2, <1>3 DEF Exclusive, RollbackOK
<1>5. CASE Download
  BY <1>1, <1>2, <1>3, <1>4, <1>5 DEF Download, WatchOK, OutcomeOK, WorkerTypeOK
<1>6. CASE UpdateFails
  <2>1. watch.pc = "sleep" => watch.version # None
    BY <1>1 DEF TypeOK, RollbackTypeOK
  <2> QED
    BY <1>1, <1>2, <1>3, <1>4, <1>6, <2>1 DEF UpdateFails, WatchOK, OutcomeOK, IdleJob, NoMarker
<1>7. CASE WriteMarker
  BY <1>1, <1>2, <1>3, <1>4, <1>7 DEF Punctual, WriteMarker, WatchOK, OutcomeOK, WorkerTypeOK
<1>8. CASE Swap
  BY <1>1, <1>2, <1>3, <1>4, <1>8 DEF Swap, WatchOK, OutcomeOK, WorkerTypeOK
<1>9. CASE MarkSwapped
  BY <1>1, <1>2, <1>3, <1>4, <1>9 DEF MarkSwapped, WatchOK, OutcomeOK, WorkerTypeOK
<1>10. CASE WritePendingOutcome
  BY <1>1, <1>2, <1>3, <1>4, <1>10 DEF WritePendingOutcome, WatchOK, OutcomeOK, WorkerTypeOK
<1> QED
  BY <1>5, <1>6, <1>7, <1>8, <1>9, <1>10

\* Deaths, restarts, the deadline, the watcher and the rollback.
LEMMA RollbackTimed ==
  ASSUME Punctual, Inv,
         \/ Exec \/ RollbackExec \/ Restart \/ Crash
         \/ DeadlinePasses \/ WatchWakes \/ AbandonMarker
         \/ RollbackLink \/ WriteRollbackReport \/ ClearPendingOutcome \/ ClearMarker
  PROVE  TimedInv'
<1> USE UpdateAssumption DEF disk, process, server, TimedInv
<1>1. TypeOK /\ DiskInv /\ TimedInv /\ RollbackTypeOK /\ DiskTypeOK
  BY DEF Inv, TypeOK
\* A process that starts finds an update to undo, one to watch, or none.
<1>2. CASE Exec \/ RollbackExec \/ Restart
  <2>1. /\ UNCHANGED <<current, installed, marker, outcome, report, late>> /\ running' = current
        /\ job'.pc = "idle" /\ ~confirmed' /\ link' = "down"
    BY <1>2, StartedFacts
  <2>2. CASE marker.phase = "confirm" /\ late
    <3>1. rollback'.pc = "link" /\ watch'.pc = "none"
      BY <1>2, <2>2, StartedFacts
    <3> QED
      BY <2>1, <2>2, <3>1 DEF Exclusive, WatchOK, RollbackOK, OutcomeOK
  <2>3. CASE ~(marker.phase = "confirm" /\ late)
    <3>1. rollback'.pc = "none"
      BY <1>2, <2>3, StartedFacts
    <3>2. OutcomeOK' /\ Exclusive' /\ RollbackOK'
      BY <1>1, <2>1, <2>3, <3>1 DEF OutcomeOK, Exclusive, RollbackOK
    <3>3. watch'.pc = "sleep" => /\ watch'.version = marker.version
                                 /\ watch'.after <=> marker.phase = "confirm"
      BY <1>2, <2>3, StartedFacts
    <3>4. WatchOK'
      BY <2>1, <3>1, <3>3 DEF WatchOK
    <3> QED
      BY <3>2, <3>4
  <2> QED
    BY <2>2, <2>3
<1>3. CASE Crash
  <2>1. /\ UNCHANGED disk /\ running' = None /\ job'.pc = "idle" /\ ~confirmed'
        /\ watch'.pc = "none" /\ rollback'.pc = "none" /\ link' = "down"
    BY <1>3 DEF Crash, IdleJob, NoWatch, NoRollback
  <2> QED
    BY <1>1, <2>1 DEF Exclusive, WatchOK, RollbackOK, OutcomeOK
<1>4. CASE DeadlinePasses
  BY <1>1, <1>4 DEF DeadlinePasses, Exclusive, WatchOK, RollbackOK, OutcomeOK
<1>5. CASE WatchWakes
  <2>1. /\ UNCHANGED <<current, installed, marker, outcome, report, late, running, job, confirmed, link>>
        /\ watch.pc = "sleep" /\ watch'.pc = "none" /\ link # "hello" /\ rollback.pc = "none"
    BY <1>5 DEF Punctual, WatchWakes, NoWatch
  <2>2. CASE marker.version # watch.version
    <3>1. rollback'.pc = "none"
      BY <1>5, <2>2 DEF WatchWakes, NoRollback
    <3> QED
      BY <1>1, <2>1, <3>1 DEF Exclusive, WatchOK, RollbackOK, OutcomeOK
  <2>3. CASE marker.version = watch.version
    <3>1. ~confirmed /\ (watch.after <=> marker.phase = "confirm")
      BY <1>1, <2>1, <2>3 DEF WatchOK
    <3>2. marker.phase \in {"swap", "confirm"}
      <4>1. marker.version # None
        BY <1>1, <2>1, <2>3 DEF RollbackTypeOK
      <4> QED
        BY <1>1, <4>1 DEF DiskTypeOK, NoMarker
    <3>3. rollback'.pc = IF marker.phase = "confirm" THEN "link" ELSE "abandon"
      BY <1>5, <2>3 DEF WatchWakes
    <3>4. marker.phase = "confirm" => late
      BY <1>5, <2>3, <3>1 DEF WatchWakes
    <3> QED
      BY <1>1, <2>1, <3>1, <3>2, <3>3, <3>4 DEF Exclusive, WatchOK, RollbackOK, OutcomeOK
  <2> QED
    BY <2>2, <2>3
\* A rollback runs in a process that has not confirmed and has nothing to do.
<1>6. CASE AbandonMarker \/ RollbackLink \/ WriteRollbackReport \/ ClearPendingOutcome \/ ClearMarker
  <2>1. rollback.pc # "none" /\ UNCHANGED <<running, job, confirmed, watch, link>>
    BY <1>6 DEF AbandonMarker, RollbackLink, WriteRollbackReport, ClearPendingOutcome, ClearMarker
  <2>2. ~confirmed /\ link = "down" /\ job.pc = "idle" /\ watch.pc # "sleep"
    BY <1>1, <2>1 DEF DiskInv, ConfirmedFirst, Exclusive, WatchOK, TypeOK, ServerTypeOK
  <2>3. Exclusive' /\ WatchOK'
    BY <2>1, <2>2 DEF Exclusive, WatchOK
  <2>4. CASE AbandonMarker
    <3>1. rollback'.pc = "none" /\ UNCHANGED <<current, outcome, late>> /\ marker.phase = "swap"
      BY <1>1, <2>4 DEF AbandonMarker, NoRollback, RollbackOK
    <3> QED
      BY <1>1, <2>1, <2>2, <2>3, <3>1 DEF RollbackOK, OutcomeOK
  <2>5. CASE RollbackLink
    BY <1>1, <2>1, <2>2, <2>3, <2>5 DEF RollbackLink, RollbackOK, OutcomeOK, RollbackTypeOK
  <2>6. CASE WriteRollbackReport
    BY <1>1, <2>1, <2>2, <2>3, <2>6 DEF WriteRollbackReport, RollbackOK, OutcomeOK, RollbackTypeOK
  <2>7. CASE ClearPendingOutcome
    BY <1>1, <2>1, <2>2, <2>3, <2>7 DEF ClearPendingOutcome, RollbackOK, OutcomeOK, RollbackTypeOK
  <2>8. CASE ClearMarker
    BY <1>1, <2>1, <2>2, <2>3, <2>8 DEF ClearMarker, RollbackOK, OutcomeOK, RollbackTypeOK
  <2> QED
    BY <1>6, <2>4, <2>5, <2>6, <2>7, <2>8
<1> QED
  BY <1>2, <1>3, <1>4, <1>5, <1>6

\* Every step preserves the whole invariant.
LEMMA NextInv ==
  ASSUME Punctual
  PROVE  Inv /\ [Next]_vars => Inv'
<1> SUFFICES ASSUME Inv, [Next]_vars PROVE Inv'
  OBVIOUS
<1>1. TypeOK' /\ DiskInv'
  BY NextType, NextDisk DEF Inv
<1>2. CASE UNCHANGED vars
  <2>1. TimedInv'
    BY <1>2 DEF vars, disk, process, Inv, TimedInv, Exclusive, WatchOK, RollbackOK, OutcomeOK
  <2> QED
    BY <1>1, <2>1 DEF Inv
<1>3. CASE Next
  <2>1. TimedInv'
    BY <1>3, LinkTimed, WorkerTimed, RollbackTimed DEF Next
  <2> QED
    BY <1>1, <2>1 DEF Inv
<1> QED
  BY <1>2, <1>3

----------------------------------------------------------------------------
(* Theorems.                                                                  *)

\* The files, the process, the server's record and what every goroutine knows
\* keep their types.
THEOREM TypeCorrect == Spec => []TypeOK
<1>1. Init => TypeOK
  BY InitInv
<1> QED
  BY <1>1, NextType, PTL DEF Spec

\* What `current`, an unconfirmed update's marker and a rollback about to
\* re-point the link name is on disk, with every fault of the environment:
\* PruneVersions never removes the version a later rollback returns to.
THEOREM RollbackAlwaysPossible == Spec => []RollbackPossible
<1>1. Init => TypeOK /\ DiskInv
  BY InitInv
<1>2. TypeOK /\ DiskInv /\ [Next]_vars => (TypeOK /\ DiskInv)'
  BY NextType, NextDisk
<1>3. TypeOK /\ DiskInv => RollbackPossible
  BY DEF DiskInv
<1> QED
  BY <1>1, <1>2, <1>3, PTL DEF Spec

\* The whole invariant holds throughout when the environment is punctual.
THEOREM UpdateInvariant ==
  ASSUME Punctual
  PROVE  Spec => []Inv
<1>1. Init => Inv
  BY InitInv DEF Inv
<1>2. Inv /\ [Next]_vars => Inv'
  BY NextInv
<1> QED
  BY <1>1, <1>2, PTL DEF Spec

\* `current` is re-pointed backwards only after the confirmation deadline of the
\* update that is undone, by the watcher as by RollbackIfExpired.
THEOREM RollsBackAfterDeadline ==
  ASSUME Punctual
  PROVE  Spec => RollbackAfterDeadline
<1>1. Inv => [RollbackLink => late]_vars
  BY DEF Inv, TimedInv, RollbackOK, RollbackLink
<1>2. Spec => []Inv
  BY UpdateInvariant
<1> QED
  BY <1>1, <1>2, PTL DEF RollbackAfterDeadline

\* The success that a process replays after its hello.ack is that of the version
\* that is installed, wherever an earlier process died between the swap, the
\* record, the rollback and the exec.
THEOREM ReplaysTruthfully ==
  ASSUME Punctual
  PROVE  Spec => ReplayTruthful
<1>1. Inv => [HelloAck /\ outcome # None => current = outcome]_vars
  <2> SUFFICES ASSUME Inv, HelloAck, outcome # None PROVE current = outcome
    OBVIOUS
  <2>1. running # None /\ rollback.pc = "none"
    BY DEF Inv, TimedInv, Exclusive, HelloAck
  <2> QED
    BY <2>1 DEF Inv, TimedInv, OutcomeOK
<1>2. Spec => []Inv
  BY UpdateInvariant
<1> QED
  BY <1>1, <1>2, PTL DEF ReplayTruthful
============================================================================
