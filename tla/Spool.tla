------------------------------- MODULE Spool -------------------------------
(***************************************************************************)
(* The agent's durable outbound queue (apps/agent/internal/spool).         *)
(*                                                                         *)
(* Frames are numbered in the order they are produced.  The queue lives in *)
(* three files: queue.jsonl (variable lines, one element per line),        *)
(* queue.head (variable marker) and the eviction record (recordDisk).  All *)
(* operations run under Spool.mu, so two of them never interleave; what    *)
(* does interleave with the disk steps of one operation is the death of    *)
(* the process.  Variable pc is the next disk step of the operation that   *)
(* holds the lock.                                                         *)
(***************************************************************************)
EXTENDS Integers, Sequences, FiniteSets, SequencesExt, FiniteSetsExt, SeqFolds

CONSTANTS
  MaxFrame,       \* bound: how many frames are produced
  MaxCrash,       \* bound: how often the process dies
  MaxWriteError,  \* bound: how many disk writes fail
  Size,           \* encoded length of each frame, a function on 1..MaxFrame
  CapBytes,       \* spool_cap_bytes
  CompactHead,    \* compactHeadThreshold
  PeekFrames,     \* the drain's frame budget per tick
  PeekBytes,      \* the drain's byte budget per tick
  Faults          \* what the environment may do, a subset of FaultKinds

FaultKinds ==
  { "sync_error",    \* a complete line is written, then fsync fails
    "write_error",   \* a write fails before it changes the disk
    "cut_append",    \* a write fails with part of the line on disk
    "cut_newline",   \* everything but the line's newline reaches the disk
    "cut_crash",     \* the process dies half way through an append
    "record_error",  \* the eviction record cannot be written
    "lost_marker",   \* a power cut leaves queue.head unreadable
    "compact_gap" }  \* queue.head outlives the queue.jsonl it counts in

ASSUME SpoolAssumption ==
  /\ {MaxFrame, MaxCrash, MaxWriteError, CapBytes} \subseteq Nat
  /\ {CompactHead, PeekFrames} \subseteq Nat \ {0}
  /\ PeekBytes \in Nat
  /\ Size \in [1..MaxFrame -> Nat \ {0}]
  /\ Faults \subseteq FaultKinds

Frame == 1..MaxFrame
Garbage == 0      \* a line of queue.jsonl that frame.Decode refuses
NoMarker == -1    \* queue.head does not exist
NoFrame == 0

\* EvictionStats: how many observations were destroyed, and the window of
\* their timestamps (a frame's timestamp is its number, 0 is the zero time).
NoLoss == [frames |-> 0, oldest |-> 0, newest |-> 0]

VARIABLES
  \* the Spool struct, lost with the process
  entries,    \* consumed prefix plus live backlog
  head,       \* length of the consumed prefix
  origin,     \* absolute position of entries[head], in this process
  bytes,      \* encoded size of the live backlog
  evicted,    \* the eviction record
  \* the files
  lines,      \* queue.jsonl
  tail,       \* how queue.jsonl ends: "whole", "cut" or "nonewline"
  marker,     \* queue.head
  recordDisk, \* the persisted eviction record
  \* control
  pc,         \* next step of the operation holding Spool.mu
  op,         \* that operation: "open", "enqueue", "commit" or "record"
  arg,        \* the frame it was called with
  failed,     \* the frame whose Enqueue returned an error, not yet recorded
  handed,     \* <<position, frame>> pairs the drain holds since its PeekAt
  \* history and bounds
  produced,   \* frames handed to Enqueue so far
  accepted,   \* frames Enqueue took into the backlog
  released,   \* frames the drain asked CommitThrough to discard
  taken,      \* frames CommitThrough discarded
  dropped,    \* frames destroyed by the cap
  crashes,
  writeErrors

memory  == <<entries, head, origin, bytes, evicted>>
disk    == <<lines, tail, marker, recordDisk>>
control == <<pc, op, arg, failed, handed>>
history == <<produced, accepted, released, taken, dropped, crashes, writeErrors>>
vars == <<memory, disk, control, history>>

-----------------------------------------------------------------------------
(* Operators over the queue.                                               *)

SizeOf(s) == Weight(s, Size)

Live == SubSeq(entries, head + 1, Len(entries))

\* How many of the oldest frames of backlog q, b bytes long, the eviction loop
\* of Enqueue drops: as few as bring b under the cap, and never the last one.
EvictCount(q, b) ==
  Min({k \in 0..Len(q) - 1 :
         k = Len(q) - 1 \/ b - SizeOf(SubSeq(q, 1, k)) <= CapBytes})

\* What a PeekAt that skips the first `skip` live frames returns.
Peeked(skip) ==
  LET rest == SubSeq(Live, skip + 1, Len(Live))
      fits(n) == n <= 1 \/ SizeOf(SubSeq(rest, 1, n)) <= PeekBytes
  IN  SubSeq(rest, 1, Max({n \in 0..Min({PeekFrames, Len(rest)}) : fits(n)}))

\* Mutant: commit by count, as if the head had not moved since the peek.
CommitCount_Positional(pos) ==
  Min({Cardinality({h \in handed : h[1] <= pos}), Len(Live)})

\* How many live frames CommitThrough(pos) discards.
CommitCount(pos) ==
  IF pos < origin THEN 0 ELSE Min({pos - origin + 1, Len(Live)})

Decoded(file) == Without(file, {Garbage})

\* Mutant: a torn last line is skipped but left in the file.
NeedsHealing_Never == FALSE

\* The line a decodable unterminated tail holds is read like any other; a cut
\* one is not.  Only the latter, or garbage, tells load() to heal the file.
NeedsHealing == tail = "cut" \/ \E i \in DOMAIN lines : lines[i] = Garbage

\* The number queue.head is read as; a missing or unreadable one is 0.
PersistedHead == IF marker = NoMarker THEN 0 ELSE marker

\* Mutant: one batch counts as one destroyed observation.
Widen_PerBatch(e, s) ==
  IF s = <<>> THEN e
  ELSE [frames |-> e.frames + 1,
        oldest |-> Min(ToSet(s) \cup ({e.oldest} \ {0})),
        newest |-> Max(ToSet(s) \cup {e.newest})]

\* The eviction record widened by the frames of s.
Widen(e, s) ==
  IF s = <<>> THEN e
  ELSE [frames |-> e.frames + Len(s),
        oldest |-> Min(ToSet(s) \cup ({e.oldest} \ {0})),
        newest |-> Max(ToSet(s) \cup {e.newest})]

\* Mutant: frames leave without being subtracted.
BytesAfter_Unsubtracted(b, out) == b

\* The byte counter once the frames of out left the backlog.
BytesAfter(b, out) == b - SizeOf(out)

\* queue.jsonl after frame f is written behind whatever it ends with: onto an
\* unfinished line, f and that line become one undecodable line.
Appended(f) ==
  CASE tail = "whole"     -> Append(lines, f)
    [] tail = "cut"       -> Append(lines, Garbage)
    [] tail = "nonewline" -> Append(Front(lines), Garbage)

\* Everything but the end of a line is written.
CutAppended == IF tail = "nonewline" THEN Front(lines) ELSE lines

-----------------------------------------------------------------------------
Init ==
  /\ entries = <<>> /\ head = 0 /\ origin = 0 /\ bytes = 0 /\ evicted = NoLoss
  /\ lines = <<>> /\ tail = "whole" /\ marker = NoMarker /\ recordDisk = NoLoss
  /\ pc = "down" /\ op = "open" /\ arg = NoFrame /\ failed = NoFrame /\ handed = {}
  /\ produced = 0 /\ accepted = {} /\ released = {} /\ taken = {} /\ dropped = {}
  /\ crashes = 0 /\ writeErrors = 0

\* The operation holding the lock returns an error to its caller: Open's ends
\* the process, Enqueue's is answered by a RecordDestroyed, CommitThrough's
\* ends the connection and with it the drain's window.
ReturnError ==
  /\ pc' = IF op = "open" THEN "down" ELSE "idle"
  /\ failed' = IF op = "enqueue" THEN arg ELSE failed
  /\ handed' = IF op = "commit" THEN {} ELSE handed
  /\ UNCHANGED <<op, arg>>

WriteFails(kind) ==
  /\ kind \in Faults
  /\ writeErrors < MaxWriteError
  /\ writeErrors' = writeErrors + 1

-----------------------------------------------------------------------------
(* Open: loadEvictions, then load.                                         *)

\* Mutant: every process starts its own count.
LoadedEvictions_Fresh == NoLoss

LoadedEvictions == recordDisk

Open ==
  LET decoded == Decoded(lines)
      h == Min({PersistedHead, Len(decoded)})
  IN
  /\ pc = "down"
  /\ evicted' = LoadedEvictions
  /\ entries' = decoded
  /\ head' = h
  /\ origin' = 0
  /\ bytes' = SizeOf(SubSeq(decoded, h + 1, Len(decoded)))
  /\ op' = "open"
  /\ IF h > 0 \/ NeedsHealing
     THEN pc' = "rename" /\ UNCHANGED marker
     ELSE pc' = "idle" /\ marker' = NoMarker
  /\ UNCHANGED <<lines, tail, recordDisk, arg, failed, handed, history>>

-----------------------------------------------------------------------------
(* Enqueue: append one line, then evict, persist the record and compact.   *)

Produce(f) ==
  /\ pc = "idle"
  /\ failed = NoFrame
  /\ f = produced + 1
  /\ f \in Frame
  /\ produced' = f
  /\ arg' = f
  /\ op' = "enqueue"

AppendLine(f) ==
  /\ Produce(f)
  /\ lines' = Appended(f)
  /\ tail' = "whole"
  /\ accepted' = accepted \cup {f}
  /\ pc' = "evict"
  /\ UNCHANGED <<memory, marker, recordDisk, failed, handed, released, taken,
                 dropped, crashes, writeErrors>>

\* appendLine returns an error; what it wrote stays behind in queue.jsonl.
AppendLineFails(f, kind) ==
  /\ Produce(f)
  /\ WriteFails(kind)
  /\ \/ kind = "write_error" /\ UNCHANGED <<lines, tail>>
     \/ kind = "sync_error"  /\ lines' = Appended(f)  /\ tail' = "whole"
     \/ kind = "cut_append"  /\ lines' = CutAppended  /\ tail' = "cut"
     \/ /\ kind = "cut_newline"
        /\ lines' = IF tail = "whole" THEN Appended(f) ELSE CutAppended
        /\ tail' = IF tail = "whole" THEN "nonewline" ELSE "cut"
  /\ failed' = f
  /\ UNCHANGED <<memory, marker, recordDisk, pc, handed, accepted, released,
                 taken, dropped, crashes>>

\* The rest of Enqueue's memory updates, up to the eviction record.
Evict ==
  LET q == Append(Live, arg)
      b == bytes + Size[arg]
      k == EvictCount(q, b)
      out == SubSeq(q, 1, k)
  IN
  /\ pc = "evict"
  /\ entries' = Append(entries, arg)
  /\ head' = head + k
  /\ origin' = origin + k
  /\ bytes' = BytesAfter(b, out)
  /\ evicted' = Widen(evicted, out)
  /\ dropped' = dropped \cup ToSet(out)
  /\ pc' = IF k = 0 THEN "idle" ELSE "persist"
  /\ UNCHANGED <<disk, op, arg, failed, handed, produced, accepted, released,
                 taken, crashes, writeErrors>>

\* RecordDestroyed: Run's answer to an Enqueue that returned an error.
RecordDestroyed ==
  /\ pc = "idle"
  /\ failed # NoFrame
  /\ evicted' = Widen(evicted, <<failed>>)
  /\ failed' = NoFrame
  /\ op' = "record"
  /\ pc' = "persist"
  /\ UNCHANGED <<entries, head, origin, bytes, disk, arg, handed, history>>

\* persistEvictionsLocked: a failure is logged and otherwise ignored.
PersistEvictions ==
  /\ pc = "persist"
  /\ \/ recordDisk' = evicted /\ UNCHANGED writeErrors
     \/ WriteFails("record_error") /\ UNCHANGED recordDisk
  /\ pc' = IF op = "enqueue" THEN "rename" ELSE "idle"
  /\ UNCHANGED <<memory, lines, tail, marker, op, arg, failed, handed, produced,
                 accepted, released, taken, dropped, crashes>>

-----------------------------------------------------------------------------
(* compactLocked: the live backlog replaces queue.jsonl, then queue.head   *)
(* is removed.                                                             *)

CompactRename ==
  /\ pc = "rename"
  /\ lines' = Live
  /\ tail' = "whole"
  /\ entries' = Live
  /\ head' = 0
  /\ bytes' = SizeOf(Live)
  /\ pc' = "unlink"
  /\ UNCHANGED <<origin, evicted, marker, recordDisk, op, arg, failed, handed,
                 history>>

CompactFails ==
  /\ pc = "rename"
  /\ WriteFails("write_error")
  /\ ReturnError
  /\ UNCHANGED <<memory, disk, produced, accepted, released, taken, dropped,
                 crashes>>

CompactUnlink ==
  /\ pc = "unlink"
  /\ marker' = NoMarker
  /\ pc' = "idle"
  /\ UNCHANGED <<memory, lines, tail, recordDisk, op, arg, failed, handed,
                 history>>

CompactUnlinkFails ==
  /\ pc = "unlink"
  /\ WriteFails("compact_gap")
  /\ ReturnError
  /\ UNCHANGED <<memory, disk, produced, accepted, released, taken, dropped,
                 crashes>>

-----------------------------------------------------------------------------
(* The drain: PeekAt, then CommitThrough for the frames acknowledged.      *)

\* One drain tick: forget held frames the cap destroyed, then peek past the
\* newest one still held.
PeekAt ==
  LET held == {h \in handed : h[1] >= origin}
      skip == IF held = {} THEN 0
              ELSE Max({h[1] : h \in held}) + 1 - origin
      got == Peeked(skip)
  IN
  /\ pc = "idle"
  /\ got # <<>>
  /\ handed' = held \cup {<<origin + skip + i - 1, got[i]>> : i \in DOMAIN got}
  /\ UNCHANGED <<memory, disk, pc, op, arg, failed, history>>

\* CommitThrough(pos), for a position the drain holds, up to its disk write.
CommitThrough(pos) ==
  LET n == CommitCount(pos)
      discarded == SubSeq(Live, 1, n)
      consumed == SubSeq(entries, 1, head + n)
  IN
  /\ pc = "idle"
  /\ pos \in {h[1] : h \in handed}
  /\ released' = released \cup {h[2] : h \in {g \in handed : g[1] <= pos}}
  /\ handed' = {h \in handed : h[1] > pos}
  /\ taken' = taken \cup ToSet(discarded)
  /\ head' = head + n
  /\ origin' = origin + n
  /\ bytes' = BytesAfter(bytes, discarded)
  /\ op' = "commit"
  /\ pc' = CASE n = 0 -> "idle"
             [] n > 0 /\ (head + n >= CompactHead
                            \/ SizeOf(consumed) > CapBytes \div 4) -> "rename"
             [] OTHER -> "mark"
  /\ UNCHANGED <<entries, evicted, disk, arg, failed, produced, accepted,
                 dropped, crashes, writeErrors>>

\* Mutant: the marker holds the absolute position instead of a line count.
WriteHeadMarker_Origin ==
  /\ pc = "mark"
  /\ marker' = origin
  /\ pc' = "idle"
  /\ UNCHANGED <<memory, lines, tail, recordDisk, op, arg, failed, handed,
                 history>>

WriteHeadMarker ==
  /\ pc = "mark"
  /\ marker' = head
  /\ pc' = "idle"
  /\ UNCHANGED <<memory, lines, tail, recordDisk, op, arg, failed, handed,
                 history>>

WriteHeadMarkerFails ==
  /\ pc = "mark"
  /\ WriteFails("write_error")
  /\ ReturnError
  /\ UNCHANGED <<memory, disk, produced, accepted, released, taken, dropped,
                 crashes>>

\* The connection ends and its window with it; the spool is not told.
Disconnect ==
  /\ pc = "idle"
  /\ handed # {}
  /\ handed' = {}
  /\ UNCHANGED <<memory, disk, pc, op, arg, failed, history>>

-----------------------------------------------------------------------------
(* The process dies.                                                       *)

Die ==
  /\ crashes < MaxCrash
  /\ crashes' = crashes + 1
  /\ pc' = "down"
  /\ entries' = <<>> /\ head' = 0 /\ origin' = 0 /\ bytes' = 0 /\ evicted' = NoLoss
  /\ op' = "open" /\ arg' = NoFrame /\ failed' = NoFrame /\ handed' = {}

\* Between two disk steps; a power cut may leave queue.head unreadable.
Crash ==
  /\ pc # "down"
  /\ pc = "unlink" => "compact_gap" \in Faults
  /\ Die
  /\ \/ UNCHANGED marker
     \/ "lost_marker" \in Faults /\ marker # NoMarker /\ marker' = 0
  /\ UNCHANGED <<lines, tail, recordDisk, produced, accepted, released, taken,
                 dropped, writeErrors>>

\* In the middle of an append, leaving an unfinished last line.
CrashInAppend(f, kind) ==
  /\ pc = "idle" /\ failed = NoFrame
  /\ f = produced + 1 /\ f \in Frame
  /\ kind \in Faults
  /\ produced' = f
  /\ Die
  /\ \/ kind = "cut_crash" /\ lines' = CutAppended /\ tail' = "cut"
     \/ /\ kind = "cut_newline" /\ tail = "whole"
        /\ lines' = Appended(f) /\ tail' = "nonewline"
  /\ UNCHANGED <<marker, recordDisk, accepted, released, taken, dropped,
                 writeErrors>>

-----------------------------------------------------------------------------
AppendFaults == {"write_error", "sync_error", "cut_append", "cut_newline"}

Next ==
  \/ Open
  \/ \E f \in Frame :
       \/ AppendLine(f)
       \/ \E kind \in AppendFaults : AppendLineFails(f, kind)
       \/ \E kind \in {"cut_crash", "cut_newline"} : CrashInAppend(f, kind)
  \/ Evict \/ RecordDestroyed \/ PersistEvictions
  \/ CompactRename \/ CompactFails \/ CompactUnlink \/ CompactUnlinkFails
  \/ PeekAt
  \/ \E h \in handed : CommitThrough(h[1])
  \/ WriteHeadMarker \/ WriteHeadMarkerFails
  \/ Disconnect
  \/ Crash

Spec == Init /\ [][Next]_vars

-----------------------------------------------------------------------------
(* Properties.                                                             *)

\* The variables of the Spool struct, its files and the ghost history have
\* their types.
TypeOK ==
  /\ entries \in Seq(Frame) /\ head \in 0..Len(entries)
  /\ origin \in Nat /\ bytes \in Nat
  /\ {evicted, recordDisk} \subseteq [frames : Nat, oldest : Nat, newest : Nat]
  /\ lines \in Seq(Frame \cup {Garbage})
  /\ tail \in {"whole", "cut", "nonewline"}
  /\ marker \in {NoMarker} \cup Nat
  /\ pc \in {"down", "idle", "evict", "persist", "rename", "unlink", "mark"}
  /\ op \in {"open", "enqueue", "commit", "record"}
  /\ {arg, failed} \subseteq Frame \cup {NoFrame}
  /\ handed \subseteq Nat \X Frame
  /\ produced \in 0..MaxFrame
  /\ accepted \cup released \cup taken \cup dropped \subseteq Frame
  /\ crashes \in 0..MaxCrash /\ writeErrors \in 0..MaxWriteError

\* A frame whose line was fsync'd is in the live backlog until the drain asked
\* for it to be discarded or the cap destroyed it: across restarts too, "a
\* crash mid-burst re-sends rather than loses" (spool.go, package comment).
NothingLost ==
  pc = "idle" => accepted \ (released \cup dropped) \subseteq ToSet(Live)

\* CommitThrough discards only frames the drain had been handed and named,
\* whatever Enqueue's eviction did to the head since the PeekAt.
CommitsOnlyNamed == taken \subseteq released

\* The byte counter maintained incrementally by Enqueue, CommitThrough, load
\* and compactLocked is the size of the live backlog.
BytesExact == pc = "idle" => bytes = SizeOf(Live)

\* While the eviction record can be written, it never understates the loss:
\* each frame the cap destroyed, and that a restart did not bring back, is
\* counted and lies in the recorded window.
LossRecorded ==
  LET gone == dropped \ (ToSet(Live) \cup released)
  IN  pc = "idle" /\ "record_error" \notin Faults =>
        /\ Cardinality(gone) <= evicted.frames
        /\ \A f \in gone : evicted.oldest <= f /\ f <= evicted.newest

\* The persisted eviction record never shrinks, restarts included: the server
\* reads a decrease as a recreated state directory.
RecordNeverShrinks == [][recordDisk'.frames >= recordDisk.frames]_recordDisk

\* The eviction record never overstates the loss: spool.go says of a crash
\* between persisting the record and compacting that it "leaves the record
\* over-stating nothing and under-stating nothing".
LossNotOverstated ==
  LET lost == (dropped \cup (1..produced \ accepted)) \ ToSet(Live)
  IN  pc = "idle" => evicted.frames <= Cardinality(lost)

\* An observation Run is about to record as destroyed is gone: evictions.go's
\* RecordDestroyed requires that "callers must already know the frame is gone".
FailedIsGone ==
  pc = "idle" /\ failed # NoFrame => failed \notin ToSet(Live)

\* The files and their multi-step updates implement the queue that loses
\* nothing silently.  While the process is down, what is live is what load
\* will find.
Recoverable ==
  LET decoded == Decoded(lines)
  IN  ToSet(SubSeq(decoded, PersistedHead + 1, Len(decoded)))

Queue == INSTANCE SpoolQueue WITH
  live <- IF pc = "down" THEN Recoverable
          ELSE ToSet(Live) \cup (IF pc = "evict" THEN {arg} ELSE {})

ImplementsQueue == Queue!QSpec

=============================================================================
