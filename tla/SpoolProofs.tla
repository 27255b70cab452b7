---------------------------- MODULE SpoolProofs ----------------------------
(***************************************************************************)
(* Proofs about the spool, for every number of frames, crashes and failed  *)
(* writes, every cap, threshold and drain budget, and every size of the    *)
(* frames.                                                                 *)
(*                                                                         *)
(* Whatever fails, by the inductive invariant TInv: types, the byte        *)
(* counter, the eviction record on disk, and that a commit discards only   *)
(* what the drain named.                                                   *)
(*                                                                         *)
(* On a tidy disk (no write error leaves part of a line that the process   *)
(* goes on appending behind, and queue.head does not outlive the           *)
(* queue.jsonl it counts in), by KInv, which ties the files to the entries *)
(* in memory: the spool implements SpoolQueue, loses no accepted frame,    *)
(* and its eviction record covers what the cap destroyed.                  *)
(***************************************************************************)
EXTENDS Spool, SeqFoldsProofs, FiniteSetTheorems, TLAPS

-----------------------------------------------------------------------------
(* The operators.                                                          *)

\* Min returns the least element of a set of numbers.
LEMMA MinFacts ==
  ASSUME NEW S \in SUBSET Nat, S # {}
  PROVE  Min(S) \in S /\ \A y \in S : Min(S) <= y
<1> DEFINE R == OpToRel(<, Nat)
<1>1. IsWellFoundedOn(R, Nat)
  BY NatLessThanWellFounded
<1> HIDE DEF R
<1>2. PICK x \in S : \A y \in S : ~ (<<y, x>> \in R)
  BY <1>1, WFMin
<1>3. \A y \in S : ~ (y < x)
  BY <1>2 DEF R, OpToRel
<1>4. x \in S /\ \A y \in S : x =< y
  BY <1>3
<1> QED
  BY <1>4 DEF Min

\* Max returns the greatest element of a bounded set of numbers.
LEMMA MaxFacts ==
  ASSUME NEW n \in Nat, NEW S \in SUBSET (0..n), S # {}
  PROVE  Max(S) \in S /\ \A y \in S : y <= Max(S)
<1> DEFINE T == {n - y : y \in S}
<1>1. T \in SUBSET Nat /\ T # {}
  <2>1. \A y \in S : n - y \in Nat
    OBVIOUS
  <2>2. PICK z \in S : TRUE
    OBVIOUS
  <2>3. n - z \in T
    BY <2>2
  <2> QED
    BY <2>1, <2>3
<1>2. Min(T) \in T /\ \A y \in T : Min(T) <= y
  BY <1>1, MinFacts
<1>3. PICK x \in S : Min(T) = n - x
  BY <1>2
<1>4. \A y \in S : x >= y
  <2> SUFFICES ASSUME NEW y \in S PROVE x >= y
    OBVIOUS
  <2>1. n - x <= n - y
    BY <1>2, <1>3
  <2> QED
    BY <2>1
<1> QED
  BY <1>4 DEF Max

\* A suffix of the entries.
LEMMA SuffixFacts ==
  ASSUME NEW E, NEW s \in Seq(E), NEW h \in 0..Len(s)
  PROVE  /\ SubSeq(s, h + 1, Len(s)) \in Seq(E)
         /\ Len(SubSeq(s, h + 1, Len(s))) = Len(s) - h
         /\ \A i \in 1..(Len(s) - h) : SubSeq(s, h + 1, Len(s))[i] = s[h + i]
OBVIOUS

\* A prefix of the entries.
LEMMA PrefixFacts ==
  ASSUME NEW E, NEW s \in Seq(E), NEW k \in 0..Len(s)
  PROVE  /\ SubSeq(s, 1, k) \in Seq(E)
         /\ Len(SubSeq(s, 1, k)) = k
         /\ \A i \in 1..k : SubSeq(s, 1, k)[i] = s[i]
OBVIOUS

\* The eviction loop leaves at least one frame.
LEMMA EvictFacts ==
  ASSUME NEW q, NEW b, Len(q) \in Nat \ {0}
  PROVE  EvictCount(q, b) \in 0..(Len(q) - 1)
<1> DEFINE S == {k \in 0..Len(q) - 1 :
                   k = Len(q) - 1 \/ b - SizeOf(SubSeq(q, 1, k)) <= CapBytes}
<1>1. S \in SUBSET Nat /\ Len(q) - 1 \in S
  <2>1. Len(q) - 1 \in 0..(Len(q) - 1) /\ 0..(Len(q) - 1) \subseteq Nat
    OBVIOUS
  <2> QED
    BY <2>1, Zenon
<1>2. EvictCount(q, b) = Min(S)
  BY DEF EvictCount
<1>3. S \subseteq 0..(Len(q) - 1)
  BY Zenon
<1> HIDE DEF S
<1>4. Min(S) \in S
  BY <1>1, MinFacts
<1> QED
  BY <1>2, <1>3, <1>4, Zenon

\* CommitThrough discards live frames only, those up to its position.
LEMMA CommitFacts ==
  ASSUME NEW pos \in Nat, origin \in Nat, Len(Live) \in Nat
  PROVE  /\ CommitCount(pos) \in 0..Len(Live)
         /\ pos < origin => CommitCount(pos) = 0
         /\ CommitCount(pos) > 0 => CommitCount(pos) <= pos - origin + 1
         /\ pos >= origin /\ pos - origin + 1 <= Len(Live)
              => CommitCount(pos) = pos - origin + 1
<1>1. CASE pos < origin
  BY <1>1 DEF CommitCount
<1>2. CASE pos >= origin
  <2> DEFINE S == {pos - origin + 1, Len(Live)}
  <2>1. S \in SUBSET Nat /\ S # {}
    BY <1>2
  <2>2. Min(S) \in S /\ \A y \in S : Min(S) <= y
    BY <2>1, MinFacts
  <2>3. CommitCount(pos) = Min(S)
    BY <1>2 DEF CommitCount
  <2> QED
    BY <1>2, <2>2, <2>3
<1> QED
  BY <1>1, <1>2

Loss == [frames : Nat, oldest : Nat, newest : Nat]

\* What the eviction record says once it is widened by the frames of s.
LEMMA WidenFacts ==
  ASSUME NEW e \in Loss, NEW s \in Seq(Frame)
  PROVE  /\ Widen(e, s) \in Loss
         /\ Widen(e, s).frames = e.frames + Len(s)
         /\ Widen(e, s).newest >= e.newest
         /\ e.oldest # 0 => Widen(e, s).oldest <= e.oldest
         /\ s # <<>> \/ e.oldest # 0 => Widen(e, s).oldest # 0
         /\ \A i \in 1..Len(s) : Widen(e, s).oldest <= s[i] /\ s[i] <= Widen(e, s).newest
<1>1. CASE s = <<>>
  BY <1>1 DEF Widen, Loss
<1>2. CASE s # <<>>
  <2> DEFINE A == ToSet(s) \cup ({e.oldest} \ {0})
             B == ToSet(s) \cup {e.newest}
  <2>1. MaxFrame \in Nat /\ e.newest \in Nat /\ e.oldest \in Nat /\ e.frames \in Nat
    BY SpoolAssumption DEF Loss
  <2>2. /\ \A i \in 1..Len(s) : s[i] \in ToSet(s)
        /\ ToSet(s) \subseteq 1..MaxFrame
        /\ 1 \in 1..Len(s)
    <3>1. DOMAIN s = 1..Len(s) /\ 1 \in 1..Len(s) /\ \A i \in 1..Len(s) : s[i] \in Frame
      BY <1>2
    <3> QED
      BY <3>1 DEF ToSet, Frame
  <2>3. A \in SUBSET Nat /\ A # {} /\ 0 \notin A
    BY <2>1, <2>2
  <2>4. Min(A) \in A /\ \A y \in A : Min(A) <= y
    BY <2>3, MinFacts
  <2>5. PICK n \in Nat : n = MaxFrame + e.newest
    BY <2>1
  <2>6. B \in SUBSET (0..n) /\ B # {}
    BY <2>1, <2>2, <2>5
  <2>7. Max(B) \in B /\ \A y \in B : y <= Max(B)
    BY <2>6, MaxFacts
  <2>8. Widen(e, s) = [frames |-> e.frames + Len(s), oldest |-> Min(A), newest |-> Max(B)]
    BY <1>2 DEF Widen
  <2>9. Min(A) \in Nat /\ Max(B) \in Nat /\ Min(A) # 0 /\ Len(s) \in Nat
    BY <2>3, <2>4, <2>6, <2>7
  <2> HIDE DEF A, B
  <2>10. Max(B) >= e.newest /\ (e.oldest # 0 => Min(A) <= e.oldest)
    BY <2>4, <2>7 DEF A, B
  <2>11. \A i \in 1..Len(s) : Min(A) <= s[i] /\ s[i] <= Max(B)
    BY <2>2, <2>4, <2>7 DEF A, B
  <2>12. Widen(e, s) \in Loss
    BY <2>1, <2>8, <2>9 DEF Loss
  <2> QED
    BY <2>8, <2>9, <2>10, <2>11, <2>12
<1> QED
  BY <1>1, <1>2

\* The size of a backlog is a number; it is the sum of the sizes of its two
\* parts, and grows by the size of the frame appended.
LEMMA SizeFacts ==
  ASSUME NEW s \in Seq(Frame)
  PROVE  /\ SizeOf(<<>>) = 0
         /\ SizeOf(s) \in Nat
         /\ \A f \in Frame : SizeOf(Append(s, f)) = SizeOf(s) + Size[f]
         /\ \A k \in 0..Len(s) :
              SizeOf(SubSeq(s, k + 1, Len(s))) = SizeOf(s) - SizeOf(SubSeq(s, 1, k))
<1>1. Size \in [Frame -> Nat]
  BY SpoolAssumption DEF Frame
<1>2. ASSUME NEW f \in Frame
      PROVE  SizeOf(Append(s, f)) = SizeOf(s) + Size[f] /\ SizeOf(s) \in Nat
  BY <1>1, WeightFacts DEF SizeOf
<1>3. ASSUME NEW k \in 0..Len(s)
      PROVE  /\ SizeOf(SubSeq(s, k + 1, Len(s))) = SizeOf(s) - SizeOf(SubSeq(s, 1, k))
             /\ SizeOf(s) \in Nat
  <2>1. /\ Weight(s, Size) = Weight(SubSeq(s, 1, k), Size)
                               + Weight(SubSeq(s, k + 1, Len(s)), Size)
        /\ Weight(SubSeq(s, 1, k), Size) \in Nat
        /\ Weight(SubSeq(s, k + 1, Len(s)), Size) \in Nat
    BY <1>1, WeightSplit
  <2> QED
    BY <2>1 DEF SizeOf
<1>4. SizeOf(s) \in Nat
  BY <1>3
<1>5. SizeOf(<<>>) = 0
  <2>1. SizeOf(SubSeq(s, 0 + 1, Len(s))) = SizeOf(s) - SizeOf(SubSeq(s, 1, 0))
    BY <1>3
  <2>2. SubSeq(s, 0 + 1, Len(s)) = s
    OBVIOUS
  <2>3. SubSeq(s, 1, 0) = <<>> /\ <<>> \in Seq(Frame)
    OBVIOUS
  <2>4. ASSUME NEW t \in Seq(Frame) PROVE SizeOf(t) \in Nat
    <3>1. 0 \in 0..Len(t)
      OBVIOUS
    <3>2. /\ Weight(t, Size) = Weight(SubSeq(t, 1, 0), Size)
                               + Weight(SubSeq(t, 0 + 1, Len(t)), Size)
          /\ Weight(SubSeq(t, 1, 0), Size) \in Nat
          /\ Weight(SubSeq(t, 0 + 1, Len(t)), Size) \in Nat
      BY <1>1, <3>1, WeightSplit
    <3> QED
      BY <3>2 DEF SizeOf
  <2> QED
    <3>1. SizeOf(<<>>) \in Nat
      BY <2>3, <2>4
    <3>2. SizeOf(s) = SizeOf(s) - SizeOf(<<>>)
      BY <2>1, <2>2, <2>3, Zenon
    <3> QED
      BY <1>4, <3>1, <3>2
<1> QED
  BY <1>2, <1>3, <1>4, <1>5

\* Two sequences of the same length with the same elements.
LEMMA SameSequence ==
  ASSUME NEW E, NEW s \in Seq(E), NEW t \in Seq(E), Len(s) = Len(t),
         \A i \in 1..Len(s) : s[i] = t[i]
  PROVE  s = t
OBVIOUS

\* The backlog after k of its frames are gone.
LEMMA DropLive ==
  ASSUME NEW E, NEW s \in Seq(E), NEW h \in 0..Len(s), NEW k \in 0..(Len(s) - h)
  PROVE  SubSeq(s, (h + k) + 1, Len(s))
           = SubSeq(SubSeq(s, h + 1, Len(s)), k + 1, Len(s) - h)
<1>1. PICK n \in Nat : n = Len(s)
  OBVIOUS
<1> DEFINE u == SubSeq(s, h + 1, Len(s))
<1>2. /\ u \in Seq(E) /\ Len(u) = n - h
      /\ \A i \in 1..(n - h) : u[i] = s[h + i]
  BY <1>1, SuffixFacts
<1> DEFINE v == SubSeq(s, (h + k) + 1, Len(s))
<1>3. /\ v \in Seq(E) /\ Len(v) = n - (h + k)
      /\ \A i \in 1..(n - (h + k)) : v[i] = s[(h + k) + i]
  <2>1. h + k \in 0..Len(s)
    BY <1>1
  <2> QED
    BY <1>1, <2>1, SuffixFacts
<1> DEFINE w == SubSeq(u, k + 1, Len(u))
<1>4. /\ w \in Seq(E) /\ Len(w) = Len(u) - k
      /\ \A i \in 1..(Len(u) - k) : w[i] = u[k + i]
  <2>1. k \in 0..Len(u)
    BY <1>1, <1>2
  <2> QED
    BY <2>1, SuffixFacts
<1> HIDE DEF u, v, w
<1>5. Len(w) = Len(v)
  BY <1>1, <1>2, <1>3, <1>4
<1>6. ASSUME NEW i \in 1..Len(w) PROVE w[i] = v[i]
  <2>1. k + i \in 1..(n - h) /\ i \in 1..(Len(u) - k) /\ i \in 1..(n - (h + k))
    BY <1>1, <1>2, <1>3, <1>4, SMTT(30)
  <2>2. h + (k + i) = (h + k) + i
    BY <1>1
  <2> QED
    BY <1>2, <1>3, <1>4, <2>1, <2>2
<1>7. w = v
  BY <1>3, <1>4, <1>5, <1>6, SameSequence
<1>8. Len(u) = Len(s) - h
  BY <1>1, <1>2
<1> QED
  BY <1>7, <1>8 DEF u, v, w

\* The backlog after one more frame.
LEMMA AppendLive ==
  ASSUME NEW E, NEW s \in Seq(E), NEW h \in 0..Len(s), NEW e \in E
  PROVE  SubSeq(Append(s, e), h + 1, Len(Append(s, e)))
           = Append(SubSeq(s, h + 1, Len(s)), e)
<1>1. PICK n \in Nat : n = Len(s)
  OBVIOUS
<1> DEFINE u == SubSeq(s, h + 1, Len(s))
<1>2. /\ u \in Seq(E) /\ Len(u) = n - h
      /\ \A i \in 1..(n - h) : u[i] = s[h + i]
  BY <1>1, SuffixFacts
<1> DEFINE t == Append(s, e)
<1>3. /\ t \in Seq(E) /\ Len(t) = n + 1 /\ t[n + 1] = e
      /\ \A i \in 1..n : t[i] = s[i]
  BY <1>1
<1> DEFINE v == SubSeq(t, h + 1, Len(t))
<1>4. /\ v \in Seq(E) /\ Len(v) = (n + 1) - h
      /\ \A i \in 1..((n + 1) - h) : v[i] = t[h + i]
  <2>1. h \in 0..Len(t)
    BY <1>1, <1>3
  <2> QED
    BY <1>3, <2>1, SuffixFacts, ZenonT(60)
<1> DEFINE w == Append(u, e)
<1>5. /\ w \in Seq(E) /\ Len(w) = (n - h) + 1 /\ w[(n - h) + 1] = e
      /\ \A i \in 1..(n - h) : w[i] = u[i]
  BY <1>1, <1>2
<1>6. Len(w) = Len(v) /\ \A i \in 1..Len(w) : w[i] = v[i]
  <2>1. Len(w) = Len(v) /\ Len(w) = (n - h) + 1
    BY <1>1, <1>4, <1>5
  <2>2. ASSUME NEW i \in 1..(n - h) PROVE w[i] = v[i]
    <3>1. h + i \in 1..n /\ i \in 1..((n + 1) - h)
      BY <1>1
    <3> QED
      BY <1>2, <1>3, <1>4, <1>5, <3>1
  <2>3. w[(n - h) + 1] = v[(n - h) + 1]
    <3>1. (n - h) + 1 \in 1..((n + 1) - h) /\ h + ((n - h) + 1) = n + 1
      BY <1>1
    <3> QED
      BY <1>3, <1>4, <1>5, <3>1
  <2> QED
    BY <1>1, <2>1, <2>2, <2>3
<1>7. w = v
  BY <1>6, SameSequence
<1> QED
  BY <1>2, <1>3, <1>4, <1>5, <1>7

-----------------------------------------------------------------------------
(* Types and byte accounting, whatever fails.                              *)

MemoryOK ==
  /\ entries \in Seq(Frame) /\ head \in 0..Len(entries)
  /\ origin \in Nat /\ bytes \in Nat /\ evicted \in Loss

DiskOK ==
  /\ lines \in Seq(Frame \cup {Garbage}) /\ tail \in {"whole", "cut", "nonewline"}
  /\ marker \in {NoMarker} \cup Nat /\ recordDisk \in Loss

ControlOK ==
  /\ pc \in {"down", "idle", "evict", "persist", "rename", "unlink", "mark"}
  /\ op \in {"open", "enqueue", "commit", "record"}
  /\ arg \in Frame \cup {NoFrame} /\ failed \in Frame \cup {NoFrame}
  /\ handed \subseteq Nat \X Frame
  /\ pc = "evict" => arg \in Frame /\ op = "enqueue"

HistoryOK ==
  /\ produced \in 0..MaxFrame
  /\ accepted \subseteq Frame /\ released \subseteq Frame
  /\ taken \subseteq Frame /\ dropped \subseteq Frame
  /\ crashes \in 0..MaxCrash /\ writeErrors \in 0..MaxWriteError

\* While the process is up, the byte counter is exact and the record in memory
\* is at least the one on disk.
CountersOK ==
  pc # "down" => bytes = SizeOf(Live) /\ recordDisk.frames <= evicted.frames

\* The drain's window h: positions of the backlog l, whose first frame has
\* position o, or positions before it.  It holds every position between.
Window(hs, o, l) ==
  /\ \A h \in hs : h[1] < o + Len(l)
  /\ \A h \in hs : h[1] >= o => h[2] = l[(h[1] - o) + 1]
  /\ \A h \in hs : \A p \in o..h[1] : <<p, l[(p - o) + 1]>> \in hs

\* A process that has just started has no drain yet, and positions start anew.
WindowOK ==
  /\ pc = "down" \/ (op = "open" /\ pc # "idle") => handed = {}
  /\ Window(handed, origin, Live)

TInv == MemoryOK /\ DiskOK /\ ControlOK /\ HistoryOK /\ CountersOK /\ WindowOK

\* The backlog of a spool that has its types.
LEMMA LiveFacts ==
  ASSUME MemoryOK
  PROVE  /\ Live \in Seq(Frame)
         /\ Len(Live) = Len(entries) - head
         /\ \A i \in 1..(Len(entries) - head) : Live[i] = entries[head + i]
BY SuffixFacts DEF MemoryOK, Live

\* What Evict does to the backlog: k frames leave the old end of q.
Evicts(q, k) ==
  /\ q \in Seq(Frame) /\ k \in 0..(Len(q) - 1) /\ Len(q) = Len(Live) + 1
  /\ q = Append(Live, arg)
  /\ entries' = Append(entries, arg) /\ head' = head + k /\ origin' = origin + k
  /\ Live' = SubSeq(q, k + 1, Len(q))
  /\ bytes' = (bytes + Size[arg]) - SizeOf(SubSeq(q, 1, k))
  /\ evicted' = Widen(evicted, SubSeq(q, 1, k))
  /\ dropped' = dropped \cup ToSet(SubSeq(q, 1, k))
  /\ pc' = IF k = 0 THEN "idle" ELSE "persist"

\* Evict appends its argument and drops k of the oldest frames, for some k.
LEMMA EvictStep ==
  ASSUME TInv, Evict
  PROVE  \E q, k : Evicts(q, k)
<1> DEFINE q == Append(Live, arg)
           k == EvictCount(q, bytes + Size[arg])
<1>1. arg \in Frame /\ entries \in Seq(Frame) /\ head \in 0..Len(entries) /\ MemoryOK
  BY DEF TInv, ControlOK, MemoryOK, Evict
<1>2. q \in Seq(Frame) /\ Len(q) = Len(Live) + 1 /\ Len(Live) \in Nat
      /\ Len(Live) = Len(entries) - head
  BY <1>1, LiveFacts
<1>3. k \in 0..(Len(q) - 1)
  <2>1. Len(q) \in Nat \ {0}
    BY <1>2
  <2> QED
    BY <2>1, EvictFacts, Zenon
<1>4. /\ entries' = Append(entries, arg) /\ head' = head + k /\ origin' = origin + k
      /\ bytes' = (bytes + Size[arg]) - SizeOf(SubSeq(q, 1, k))
      /\ evicted' = Widen(evicted, SubSeq(q, 1, k))
      /\ dropped' = dropped \cup ToSet(SubSeq(q, 1, k))
      /\ pc' = IF k = 0 THEN "idle" ELSE "persist"
  BY DEF Evict, BytesAfter
<1> HIDE DEF k
<1>5. Live' = SubSeq(q, k + 1, Len(q))
  <2> DEFINE t == Append(entries, arg)
  <2>1. t \in Seq(Frame) /\ Len(t) = Len(entries) + 1 /\ Len(entries) \in Nat
    BY <1>1
  <2>2. head \in 0..Len(t) /\ k \in 0..(Len(t) - head)
    BY <1>1, <1>2, <1>3, <2>1
  <2>3. SubSeq(t, (head + k) + 1, Len(t))
          = SubSeq(SubSeq(t, head + 1, Len(t)), k + 1, Len(t) - head)
    BY <2>1, <2>2, DropLive
  <2>4. SubSeq(t, head + 1, Len(t)) = q
    BY <1>1, AppendLive DEF Live
  <2>5. Len(t) - head = Len(q)
    BY <1>1, <1>2, <2>1
  <2>6. Live' = SubSeq(t, (head + k) + 1, Len(t))
    BY <1>4 DEF Live
  <2> QED
    BY <2>3, <2>4, <2>5, <2>6
<1>6. Evicts(q, k)
  BY <1>2, <1>3, <1>4, <1>5 DEF Evicts
<1> QED
  BY <1>6

\* What CommitThrough does to the backlog: n frames leave its old end.
Commits(pos, n) ==
  /\ pos \in Nat /\ n \in 0..Len(Live) /\ Len(Live) \in Nat /\ n = CommitCount(pos)
  /\ head' = head + n /\ origin' = origin + n
  /\ Live' = SubSeq(Live, n + 1, Len(Live))
  /\ bytes' = bytes - SizeOf(SubSeq(Live, 1, n))
  /\ taken' = taken \cup ToSet(SubSeq(Live, 1, n))
  /\ n = 0 => pc' = "idle"
  /\ pc' \in {"idle", "rename", "mark"}

\* CommitThrough discards n of the oldest frames, for some n.
LEMMA CommitStep ==
  ASSUME TInv, NEW h \in handed, CommitThrough(h[1])
  PROVE  \E n : Commits(h[1], n)
<1> DEFINE n == CommitCount(h[1])
<1>1. MemoryOK /\ entries \in Seq(Frame) /\ head \in 0..Len(entries) /\ h[1] \in Nat /\ origin \in Nat
  BY DEF TInv, ControlOK, MemoryOK
<1>2. Len(Live) \in Nat /\ Len(Live) = Len(entries) - head
  BY <1>1, LiveFacts
<1>3. n \in 0..Len(Live)
  BY <1>1, <1>2, CommitFacts
<1>4. /\ entries' = entries /\ head' = head + n /\ origin' = origin + n
      /\ bytes' = bytes - SizeOf(SubSeq(Live, 1, n))
      /\ taken' = taken \cup ToSet(SubSeq(Live, 1, n))
  BY DEF CommitThrough, BytesAfter
<1>5. (n = 0 => pc' = "idle") /\ pc' \in {"idle", "rename", "mark"}
  <2> DEFINE c == head + n >= CompactHead
                    \/ SizeOf(SubSeq(entries, 1, head + n)) > CapBytes \div 4
  <2>1. pc' = CASE n = 0 -> "idle" [] n > 0 /\ c -> "rename" [] OTHER -> "mark"
    BY DEF CommitThrough
  <2> HIDE DEF c, n
  <2>2. n = 0 \/ n > 0
    BY <1>3
  <2> QED
    BY <1>3, <2>1, <2>2
<1> HIDE DEF n
<1>6. Live' = SubSeq(Live, n + 1, Len(Live))
  <2>1. n \in 0..(Len(entries) - head)
    BY <1>2, <1>3
  <2>2. SubSeq(entries, (head + n) + 1, Len(entries))
          = SubSeq(SubSeq(entries, head + 1, Len(entries)), n + 1, Len(entries) - head)
    BY <1>1, <2>1, DropLive
  <2> QED
    BY <1>2, <1>4, <2>2 DEF Live
<1> QED
  BY <1>1, <1>2, <1>3, <1>4, <1>5, <1>6 DEF Commits, n

\* What Open finds: d are the lines that decode, h the marker within them.
Opens(d, h) ==
  /\ d = Decoded(lines) /\ d \in Seq(Frame) /\ h \in 0..Len(d)
  /\ h <= PersistedHead /\ (PersistedHead <= Len(d) => h = PersistedHead)
  /\ entries' = d /\ head' = h
  /\ Live' = SubSeq(d, h + 1, Len(d)) /\ bytes' = SizeOf(Live')
  /\ h > 0 \/ NeedsHealing => pc' = "rename" /\ marker' = marker
  /\ ~ (h > 0 \/ NeedsHealing) => pc' = "idle" /\ marker' = NoMarker

\* What the lines of queue.jsonl decode to.
LEMMA DecodedFacts ==
  ASSUME DiskOK
  PROVE  /\ Decoded(lines) \in Seq(Frame) /\ Filters(Decoded(lines), lines, {Garbage})
         /\ PersistedHead \in Nat
<1>1. (Frame \cup {Garbage}) \ {Garbage} = Frame
  BY SpoolAssumption DEF Frame, Garbage
<1>2. /\ Without(lines, {Garbage}) \in Seq((Frame \cup {Garbage}) \ {Garbage})
      /\ Filters(Without(lines, {Garbage}), lines, {Garbage})
  BY WithoutFacts DEF DiskOK
<1>3. PersistedHead \in Nat
  BY DEF PersistedHead, DiskOK, NoMarker
<1> QED
  BY <1>1, <1>2, <1>3 DEF Decoded

\* Open loads the lines that decode and skips the consumed ones among them.
LEMMA OpenStep ==
  ASSUME TInv, Open
  PROVE  \E d, h : Opens(d, h)
<1> DEFINE d == Decoded(lines)
           h == Min({PersistedHead, Len(d)})
<1>1. d \in Seq(Frame) /\ PersistedHead \in Nat
  BY DecodedFacts DEF TInv
<1>2. Len(d) \in Nat
  BY <1>1
<1>3. /\ entries' = d /\ head' = h /\ bytes' = SizeOf(SubSeq(d, h + 1, Len(d)))
      /\ h > 0 \/ NeedsHealing => pc' = "rename" /\ marker' = marker
      /\ ~ (h > 0 \/ NeedsHealing) => pc' = "idle" /\ marker' = NoMarker
  BY DEF Open
<1> HIDE DEF d
<1>4. h \in {PersistedHead, Len(d)} /\ h <= PersistedHead /\ h <= Len(d)
  <2>1. {PersistedHead, Len(d)} \in SUBSET Nat /\ {PersistedHead, Len(d)} # {}
    BY <1>1, <1>2
  <2> QED
    BY <2>1, MinFacts
<1> HIDE DEF h
<1>5. h \in 0..Len(d) /\ (PersistedHead <= Len(d) => h = PersistedHead)
  BY <1>1, <1>2, <1>4
<1>6. Live' = SubSeq(d, h + 1, Len(d))
  BY <1>3 DEF Live
<1>7. d = Decoded(lines)
  BY DEF d
<1>8. Opens(d, h)
  BY <1>1, <1>3, <1>4, <1>5, <1>6, <1>7 DEF Opens
<1> QED
  BY <1>8

\* A compaction changes the representation of the backlog, not the backlog.
LEMMA RenameStep ==
  ASSUME TInv, CompactRename
  PROVE  Live' = Live /\ Live \in Seq(Frame) /\ entries' = Live /\ head' = 0
<1>1. Live \in Seq(Frame)
  BY LiveFacts DEF TInv
<1>2. entries' = Live /\ head' = 0
  BY DEF CompactRename
<1>3. Live' = SubSeq(Live, 0 + 1, Len(Live))
  BY <1>2 DEF Live
<1>4. ASSUME NEW s \in Seq(Frame) PROVE SubSeq(s, 0 + 1, Len(s)) = s
  OBVIOUS
<1> QED
  BY <1>1, <1>2, <1>3, <1>4

\* The actions that leave the Spool struct alone.
Quiet ==
  \/ \E f \in Frame : AppendLine(f) \/ \E kind \in AppendFaults : AppendLineFails(f, kind)
  \/ PersistEvictions
  \/ CompactFails \/ CompactUnlink \/ CompactUnlinkFails
  \/ PeekAt \/ WriteHeadMarker \/ WriteHeadMarkerFails \/ Disconnect
  \/ UNCHANGED vars

\* The death of the process, in an append or not.
Dies ==
  \/ Crash
  \/ \E f \in Frame : \E kind \in {"cut_crash", "cut_newline"} : CrashInAppend(f, kind)

\* The actions of the spool, sorted by what they do to the Spool struct.
LEMMA NextCases ==
  ASSUME [Next]_vars
  PROVE  \/ Open \/ Evict \/ RecordDestroyed \/ CompactRename
         \/ \E h \in handed : CommitThrough(h[1])
         \/ Dies \/ Quiet
BY DEF Next, Dies, Quiet

\* A quiet action keeps the backlog, and does not start a process.
LEMMA QuietMemory ==
  ASSUME Quiet
  PROVE  /\ UNCHANGED memory
         /\ Live' = Live
         /\ pc = "down" => pc' = "down"
<1>1. UNCHANGED memory
  BY DEF Quiet, AppendLine, AppendLineFails, PersistEvictions, CompactFails,
         CompactUnlink, CompactUnlinkFails, PeekAt, WriteHeadMarker,
         WriteHeadMarkerFails, Disconnect, vars, memory
<1>2. pc = "down" => pc' = "down"
  BY DEF Quiet, AppendLine, AppendLineFails, Produce, PersistEvictions, CompactFails,
         CompactUnlink, CompactUnlinkFails, PeekAt, WriteHeadMarker,
         WriteHeadMarkerFails, Disconnect, vars, control
<1> QED
  BY <1>1, <1>2 DEF Live, memory

\* What an append leaves in queue.jsonl.
LEMMA AppendedFacts ==
  ASSUME DiskOK, NEW f \in Frame
  PROVE  /\ Appended(f) \in Seq(Frame \cup {Garbage})
         /\ CutAppended \in Seq(Frame \cup {Garbage})
<1>1. ASSUME NEW E, NEW s \in Seq(E), NEW e \in E
      PROVE  /\ Append(s, e) \in Seq(E) /\ SubSeq(s, 1, Len(s) - 1) \in Seq(E)
             /\ Append(SubSeq(s, 1, Len(s) - 1), e) \in Seq(E)
  OBVIOUS
<1>2. lines \in Seq(Frame \cup {Garbage}) /\ f \in Frame \cup {Garbage}
      /\ Garbage \in Frame \cup {Garbage}
  BY DEF DiskOK
<1>3. /\ Append(lines, f) \in Seq(Frame \cup {Garbage})
      /\ Append(lines, Garbage) \in Seq(Frame \cup {Garbage})
      /\ Front(lines) \in Seq(Frame \cup {Garbage})
      /\ Append(Front(lines), Garbage) \in Seq(Frame \cup {Garbage})
  BY <1>1, <1>2 DEF Front
<1>4. tail \in {"whole", "cut", "nonewline"}
  BY DEF DiskOK
<1> QED
  BY <1>2, <1>3, <1>4 DEF Appended, CutAppended

\* The three files keep their types.
LEMMA DiskStep ==
  ASSUME TInv, [Next]_vars
  PROVE  DiskOK'
<1> USE DEF NoMarker
<1>1. DiskOK /\ head \in Nat /\ evicted \in Loss
  BY DEF TInv, MemoryOK
<1>2. CASE \E f \in Frame : AppendLine(f) \/ \E kind \in AppendFaults : AppendLineFails(f, kind)
  <2>1. PICK f \in Frame : AppendLine(f) \/ \E kind \in AppendFaults : AppendLineFails(f, kind)
    BY <1>2
  <2>2. lines' \in {lines, Appended(f), CutAppended} /\ tail' \in {tail, "whole", "cut", "nonewline"}
        /\ marker' = marker /\ recordDisk' = recordDisk
    BY <2>1 DEF AppendLine, AppendLineFails
  <2>3. lines' \in Seq(Frame \cup {Garbage})
    BY <1>1, <2>2, AppendedFacts DEF DiskOK
  <2> QED
    BY <1>1, <2>2, <2>3 DEF DiskOK
<1>3. CASE \E f \in Frame : \E kind \in {"cut_crash", "cut_newline"} : CrashInAppend(f, kind)
  <2>1. PICK f \in Frame : \E kind \in {"cut_crash", "cut_newline"} : CrashInAppend(f, kind)
    BY <1>3
  <2>2. lines' \in {Appended(f), CutAppended} /\ tail' \in {"cut", "nonewline"}
        /\ marker' = marker /\ recordDisk' = recordDisk
    BY <2>1 DEF CrashInAppend
  <2>3. lines' \in Seq(Frame \cup {Garbage})
    BY <1>1, <2>2, AppendedFacts DEF DiskOK
  <2> QED
    BY <1>1, <2>2, <2>3 DEF DiskOK
<1>4. CASE CompactRename
  <2>1. Live \in Seq(Frame)
    BY <1>4, RenameStep
  <2>2. Live \in Seq(Frame \cup {Garbage})
    BY <2>1
  <2>3. lines' = Live /\ tail' = "whole" /\ marker' = marker /\ recordDisk' = recordDisk
    BY <1>4 DEF CompactRename
  <2> QED
    BY <1>1, <2>2, <2>3 DEF DiskOK
<1>5. ASSUME UNCHANGED <<lines, tail>>, marker' \in {marker, NoMarker, head, 0},
             recordDisk' \in {recordDisk, evicted}
      PROVE  DiskOK'
  BY <1>1, <1>5 DEF DiskOK
<1>6. CASE Open \/ PersistEvictions \/ Crash \/ CompactUnlink \/ WriteHeadMarker
  <2>1. UNCHANGED <<lines, tail>> /\ marker' \in {marker, NoMarker, head, 0}
        /\ recordDisk' \in {recordDisk, evicted}
    BY <1>6 DEF Open, PersistEvictions, Crash, CompactUnlink, WriteHeadMarker
  <2> QED
    BY <1>5, <2>1
<1>7. CASE \/ Evict \/ RecordDestroyed \/ CompactFails \/ CompactUnlinkFails \/ PeekAt
           \/ (\E h \in handed : CommitThrough(h[1]))
           \/ WriteHeadMarkerFails \/ Disconnect \/ UNCHANGED vars
  <2>1. UNCHANGED disk
    BY <1>7 DEF Evict, RecordDestroyed, CompactFails, CompactUnlinkFails, PeekAt,
                CommitThrough, WriteHeadMarkerFails, Disconnect, vars
  <2>2. UNCHANGED <<lines, tail, marker, recordDisk>>
    BY <2>1 DEF disk
  <2> QED
    BY <1>5, <2>2
<1> QED
  BY <1>2, <1>3, <1>4, <1>6, <1>7 DEF Next

\* The counters and the history of the frames keep their types.
LEMMA HistoryStep ==
  ASSUME TInv, [Next]_vars
  PROVE  HistoryOK'
<1>1. HistoryOK /\ arg \in Frame \cup {NoFrame}
  BY DEF TInv, ControlOK
<1>2. produced' = produced \/ produced' \in Frame
  BY DEF Next, vars, history, Open, AppendLine, AppendLineFails, Produce, CrashInAppend, Evict,
         RecordDestroyed, PersistEvictions, CompactRename, CompactFails, CompactUnlink,
         CompactUnlinkFails, PeekAt, CommitThrough, WriteHeadMarker,
         WriteHeadMarkerFails, Disconnect, Crash
<1>3. accepted' = accepted \/ \E f \in Frame : accepted' = accepted \cup {f}
  BY DEF Next, vars, history, Open, AppendLine, AppendLineFails, Produce, CrashInAppend, Evict,
         RecordDestroyed, PersistEvictions, CompactRename, CompactFails, CompactUnlink,
         CompactUnlinkFails, PeekAt, CommitThrough, WriteHeadMarker,
         WriteHeadMarkerFails, Disconnect, Crash
<1>4. crashes' = crashes \/ (crashes < MaxCrash /\ crashes' = crashes + 1)
  BY DEF Next, vars, history, Open, AppendLine, AppendLineFails, Produce, CrashInAppend, Evict,
         RecordDestroyed, PersistEvictions, CompactRename, CompactFails, CompactUnlink,
         CompactUnlinkFails, PeekAt, CommitThrough, WriteHeadMarker,
         WriteHeadMarkerFails, Disconnect, Crash, Die
<1>5. writeErrors' = writeErrors \/ (writeErrors < MaxWriteError /\ writeErrors' = writeErrors + 1)
  BY DEF Next, vars, history, Open, AppendLine, AppendLineFails, Produce, CrashInAppend, Evict,
         RecordDestroyed, PersistEvictions, CompactRename, CompactFails, CompactUnlink,
         CompactUnlinkFails, PeekAt, CommitThrough, WriteHeadMarker,
         WriteHeadMarkerFails, Disconnect, Crash, WriteFails
<1>6. dropped' \subseteq Frame
  <2>1. CASE Evict
    <3>1. PICK q, k : Evicts(q, k)
      BY <2>1, EvictStep
    <3>2. SubSeq(q, 1, k) \in Seq(Frame)
      BY <3>1, PrefixFacts DEF Evicts
    <3> QED
      BY <1>1, <3>1, <3>2 DEF Evicts, HistoryOK, ToSet
  <2>2. CASE ~ Evict
    <3>1. dropped' = dropped
      BY <2>2 DEF Next, vars, history, Open, AppendLine, AppendLineFails, Produce, CrashInAppend,
             RecordDestroyed, PersistEvictions, CompactRename, CompactFails, CompactUnlink,
             CompactUnlinkFails, PeekAt, CommitThrough, WriteHeadMarker,
             WriteHeadMarkerFails, Disconnect, Crash
    <3> QED
      BY <1>1, <3>1 DEF HistoryOK
  <2> QED
    BY <2>1, <2>2
<1>7. released' \subseteq Frame /\ taken' \subseteq Frame
  <2>1. CASE \E h \in handed : CommitThrough(h[1])
    <3>1. PICK h \in handed : CommitThrough(h[1])
      BY <2>1
    <3>2. PICK n : Commits(h[1], n)
      BY <3>1, CommitStep
    <3>3. Live \in Seq(Frame)
      BY LiveFacts DEF TInv
    <3>4. SubSeq(Live, 1, n) \in Seq(Frame)
      BY <3>2, <3>3, PrefixFacts DEF Commits
    <3>5. taken' \subseteq Frame
      BY <1>1, <3>2, <3>4, SMTT(60) DEF Commits, HistoryOK, ToSet
    <3>6. \A g \in handed : g[2] \in Frame
      BY DEF TInv, ControlOK
    <3> QED
      BY <1>1, <3>1, <3>5, <3>6 DEF CommitThrough, HistoryOK
  <2>2. CASE ~ (\E h \in handed : CommitThrough(h[1]))
    <3>1. released' = released /\ taken' = taken
      BY <2>2 DEF Next, vars, history, Open, AppendLine, AppendLineFails, Produce, CrashInAppend,
             RecordDestroyed, PersistEvictions, CompactRename, CompactFails, CompactUnlink,
             CompactUnlinkFails, PeekAt, Evict, WriteHeadMarker,
             WriteHeadMarkerFails, Disconnect, Crash
    <3> QED
      BY <1>1, <3>1 DEF HistoryOK
  <2> QED
    BY <2>1, <2>2
<1>8. {MaxFrame, MaxCrash, MaxWriteError} \subseteq Nat
  BY SpoolAssumption
<1>9. produced' \in 0..MaxFrame
  BY <1>1, <1>2, <1>8 DEF HistoryOK, Frame
<1>10. crashes' \in 0..MaxCrash
  BY <1>1, <1>4, <1>8 DEF HistoryOK
<1>11. writeErrors' \in 0..MaxWriteError
  BY <1>1, <1>5, <1>8 DEF HistoryOK
<1>12. accepted' \subseteq Frame
  BY <1>1, <1>3 DEF HistoryOK
<1> QED
  BY <1>6, <1>7, <1>9, <1>10, <1>11, <1>12 DEF HistoryOK

\* The frames a peek returns are those behind the ones it skips.
PeeksAt(got, skip, l) ==
  /\ got \in Seq(Frame) /\ Len(got) <= Len(l) - skip
  /\ \A i \in 1..Len(got) : got[i] = l[skip + i]

\* PeekAt hands out a contiguous piece of the backlog.
LEMMA PeekFacts ==
  ASSUME MemoryOK, NEW skip \in 0..Len(Live)
  PROVE  PeeksAt(Peeked(skip), skip, Live)
<1>1. Live \in Seq(Frame) /\ Len(Live) \in Nat
  BY LiveFacts
<1> DEFINE rest == SubSeq(Live, skip + 1, Len(Live))
           fits(n) == n <= 1 \/ SizeOf(SubSeq(rest, 1, n)) <= PeekBytes
           lim == Min({PeekFrames, Len(rest)})
           S == {n \in 0..lim : fits(n)}
           m == Max(S)
<1>2. /\ rest \in Seq(Frame) /\ Len(rest) = Len(Live) - skip
      /\ \A i \in 1..(Len(Live) - skip) : rest[i] = Live[skip + i]
  BY <1>1, SuffixFacts
<1>3. Len(rest) \in Nat
  BY <1>2
<1>4. Peeked(skip) = SubSeq(rest, 1, m)
  BY DEF Peeked
<1> HIDE DEF rest
<1>5. lim \in Nat /\ lim <= Len(rest)
  <2>1. {PeekFrames, Len(rest)} \in SUBSET Nat /\ {PeekFrames, Len(rest)} # {}
    BY <1>3, SpoolAssumption
  <2> QED
    BY <2>1, MinFacts
<1> HIDE DEF lim
<1>6. S \in SUBSET (0..lim) /\ S # {}
  <2>1. 0 \in S
    BY <1>5
  <2> QED
    BY <2>1
<1>7. m \in S
  BY <1>5, <1>6, MaxFacts
<1>8. m \in 0..Len(rest)
  BY <1>3, <1>5, <1>7
<1> HIDE DEF S, m
<1>9. /\ SubSeq(rest, 1, m) \in Seq(Frame) /\ Len(SubSeq(rest, 1, m)) = m
      /\ \A i \in 1..m : SubSeq(rest, 1, m)[i] = rest[i]
  BY <1>2, <1>8, PrefixFacts
<1> QED
  BY <1>1, <1>2, <1>4, <1>8, <1>9 DEF PeeksAt

\* Frames that leave the old end move the window's origin; frames that come at
\* the new end are not in it.
LEMMA WindowMoves ==
  ASSUME NEW hs \in SUBSET (Nat \X Frame), NEW o \in Nat, NEW l \in Seq(Frame),
         NEW m \in Seq(Frame), NEW k \in 0..Len(m), Len(l) <= Len(m),
         \A i \in 1..Len(l) : m[i] = l[i], Window(hs, o, l)
  PROVE  Window(hs, o + k, SubSeq(m, k + 1, Len(m)))
<1> DEFINE n == SubSeq(m, k + 1, Len(m))
<1>1. Len(m) \in Nat /\ Len(l) \in Nat
  OBVIOUS
<1>2. n \in Seq(Frame) /\ Len(n) = Len(m) - k /\ \A i \in 1..(Len(m) - k) : n[i] = m[k + i]
  BY SuffixFacts
<1> HIDE DEF n
<1>3. \A h \in hs : h[1] \in Nat /\ h[1] < o + Len(l)
  BY DEF Window
<1>4. ASSUME NEW h \in hs PROVE h[1] < (o + k) + Len(n)
  BY <1>1, <1>2, <1>3
<1>5. ASSUME NEW p \in Nat, p >= o + k, p < o + Len(l)
      PROVE  n[(p - (o + k)) + 1] = l[(p - o) + 1]
  <2>1. (p - (o + k)) + 1 \in 1..(Len(m) - k) /\ k + ((p - (o + k)) + 1) = (p - o) + 1
    BY <1>1, <1>5
  <2>2. (p - o) + 1 \in 1..Len(l)
    BY <1>1, <1>5
  <2> QED
    BY <1>2, <2>1, <2>2, SMTT(60)
<1>6. ASSUME NEW h \in hs, h[1] >= o + k PROVE h[2] = n[(h[1] - (o + k)) + 1]
  <2>1. h[1] >= o
    BY <1>3, <1>6
  <2>2. h[2] = l[(h[1] - o) + 1]
    BY <2>1 DEF Window
  <2> QED
    BY <1>3, <1>5, <1>6, <2>2
<1>7. ASSUME NEW h \in hs, NEW p \in (o + k)..h[1] PROVE <<p, n[(p - (o + k)) + 1]>> \in hs
  <2>1. p \in o..h[1] /\ p \in Nat /\ p >= o + k /\ p < o + Len(l)
    BY <1>1, <1>3
  <2>2. <<p, l[(p - o) + 1]>> \in hs
    BY <2>1 DEF Window
  <2> QED
    BY <1>5, <2>1, <2>2
<1> QED
  BY <1>4, <1>6, <1>7 DEF Window, n

\* Positions before the backlog may be forgotten.
LEMMA WindowForgets ==
  ASSUME NEW hs \in SUBSET (Nat \X Frame), NEW o \in Nat, NEW l, Window(hs, o, l),
         NEW pos \in Int, pos < o
  PROVE  Window({h \in hs : h[1] > pos}, o, l)
<1> DEFINE gs == {h \in hs : h[1] > pos}
<1>1. ASSUME NEW h \in gs, NEW p \in o..h[1] PROVE <<p, l[(p - o) + 1]>> \in gs
  <2>1. <<p, l[(p - o) + 1]>> \in hs
    BY DEF Window
  <2> QED
    BY <2>1
<1> QED
  BY <1>1 DEF Window

\* The window with the frames got by a peek that skipped some.
PeekWindow(hs, o, skip, got) ==
  hs \cup {<<(o + skip) + (i - 1), got[i]>> : i \in 1..Len(got)}

\* A peek extends the window by the frames behind it.
LEMMA WindowPeeks ==
  ASSUME NEW hs \in SUBSET (Nat \X Frame), NEW o \in Nat, NEW l \in Seq(Frame),
         Window(hs, o, l), \A h \in hs : h[1] >= o,
         NEW skip \in 0..Len(l), \A h \in hs : h[1] < o + skip,
         skip > 0 => \E h \in hs : h[1] = (o + skip) - 1,
         NEW got, PeeksAt(got, skip, l)
  PROVE  /\ PeekWindow(hs, o, skip, got) \subseteq Nat \X Frame
         /\ Window(PeekWindow(hs, o, skip, got), o, l)
         /\ \A h \in PeekWindow(hs, o, skip, got) : h[1] >= o
<1> DEFINE ns == {<<(o + skip) + (i - 1), got[i]>> : i \in 1..Len(got)}
<1>1. Len(l) \in Nat /\ got \in Seq(Frame) /\ Len(got) \in Nat /\ Len(got) <= Len(l) - skip
  BY DEF PeeksAt
<1>2. ASSUME NEW h \in ns
      PROVE  \E i \in 1..Len(got) : /\ h = <<(o + skip) + (i - 1), got[i]>>
                                    /\ h[1] = (o + skip) + (i - 1) /\ h[2] = got[i]
                                    /\ h[2] = l[skip + i] /\ (h[1] - o) + 1 = skip + i
  <2>1. PICK i \in 1..Len(got) : h = <<(o + skip) + (i - 1), got[i]>>
    OBVIOUS
  <2>2. h[1] = (o + skip) + (i - 1) /\ h[2] = got[i] /\ got[i] = l[skip + i]
    BY <2>1 DEF PeeksAt
  <2> QED
    BY <1>1, <2>1, <2>2
<1>3. ns \subseteq Nat \X Frame
  <2> SUFFICES ASSUME NEW i \in 1..Len(got)
               PROVE  (o + skip) + (i - 1) \in Nat /\ got[i] \in Frame
    OBVIOUS
  <2> QED
    BY <1>1
<1>4. ASSUME NEW p \in o..((o + Len(got)) + skip - 1) PROVE <<p, l[(p - o) + 1]>> \in hs \cup ns
  <2>1. CASE p < o + skip
    <3>1. PICK h \in hs : h[1] = (o + skip) - 1
      BY <1>1, <2>1
    <3>2. p \in o..h[1]
      BY <1>1, <2>1, <3>1
    <3> QED
      BY <3>2 DEF Window
  <2>2. CASE p >= o + skip
    <3>1. PICK i \in 1..Len(got) : p = (o + skip) + (i - 1)
      <4>1. (p - (o + skip)) + 1 \in 1..Len(got)
        BY <1>1, <2>2
      <4>2. p = ((o + skip) + ((p - (o + skip)) + 1)) - 1
        BY <1>1, <2>2
      <4> QED
        BY <4>1, <4>2
    <3>2. (p - o) + 1 = skip + i
      BY <1>1, <3>1
    <3>3. <<p, got[i]>> \in ns
      BY <3>1
    <3>4. got[i] = l[skip + i]
      BY DEF PeeksAt
    <3> QED
      BY <3>2, <3>3, <3>4
  <2>3. p < o + skip \/ p >= o + skip
    BY <1>1
  <2> QED
    BY <2>1, <2>2, <2>3
<1> HIDE DEF ns
<1>5. \A h \in hs \cup ns : /\ h[1] \in Nat /\ h[1] < o + Len(l) /\ h[1] <= ((o + Len(got)) + skip) - 1
                            /\ (h[1] >= o => h[2] = l[(h[1] - o) + 1])
  <2>1. ASSUME NEW h \in hs
        PROVE  /\ h[1] \in Nat /\ h[1] < o + Len(l) /\ h[1] <= ((o + Len(got)) + skip) - 1
               /\ (h[1] >= o => h[2] = l[(h[1] - o) + 1])
    <3>1. h[1] \in Nat /\ h[1] < o + Len(l) /\ h[1] < o + skip
      BY DEF Window
    <3> QED
      BY <1>1, <3>1 DEF Window
  <2>2. ASSUME NEW h \in ns
        PROVE  /\ h[1] \in Nat /\ h[1] < o + Len(l) /\ h[1] <= ((o + Len(got)) + skip) - 1
               /\ (h[1] >= o => h[2] = l[(h[1] - o) + 1])
    BY <1>1, <1>2
  <2> QED
    BY <2>1, <2>2
<1>6. ASSUME NEW h \in hs \cup ns, NEW p \in o..h[1] PROVE <<p, l[(p - o) + 1]>> \in hs \cup ns
  <2>1. p \in o..((o + Len(got)) + skip - 1)
    BY <1>1, <1>5
  <2> QED
    BY <1>4, <2>1
<1>7. Window(hs \cup ns, o, l)
  BY <1>5, <1>6 DEF Window
<1>8. \A h \in hs \cup ns : h[1] >= o
  BY <1>1, <1>2
<1> QED
  BY <1>3, <1>7, <1>8 DEF ns, PeekWindow

\* A drain's tick keeps its window one.
LEMMA PeekStep ==
  ASSUME TInv, PeekAt
  PROVE  /\ handed' \subseteq Nat \X Frame /\ Window(handed', origin, Live)
         /\ \A h \in handed' : h[1] >= origin
<1> DEFINE held == {h \in handed : h[1] >= origin}
           skip == IF held = {} THEN 0 ELSE Max({h[1] : h \in held}) + 1 - origin
           got == Peeked(skip)
           ps == {h[1] : h \in held}
<1>1. MemoryOK /\ Live \in Seq(Frame) /\ Len(Live) \in Nat /\ origin \in Nat
  BY LiveFacts DEF TInv, MemoryOK
<1>2. handed' = held \cup {<<(origin + skip) + (i - 1), got[i]>> : i \in DOMAIN got}
  BY DEF PeekAt
<1>3. handed \in SUBSET (Nat \X Frame) /\ Window(handed, origin, Live)
  BY DEF TInv, ControlOK, WindowOK
<1>4. held \in SUBSET (Nat \X Frame) /\ Window(held, origin, Live) /\ \A h \in held : h[1] >= origin
  <2>1. origin - 1 \in Int /\ origin - 1 < origin
    BY <1>1
  <2>2. Window({h \in handed : h[1] > origin - 1}, origin, Live)
    BY <1>1, <1>3, <2>1, WindowForgets
  <2>3. \A h \in handed : h[1] \in Nat
    BY <1>3
  <2>4. {h \in handed : h[1] > origin - 1} = held
    BY <1>1, <2>3
  <2> QED
    BY <1>3, <2>2, <2>4
<1> HIDE DEF held
<1>5. /\ skip \in 0..Len(Live)
      /\ \A h \in held : h[1] < origin + skip
      /\ skip > 0 => \E h \in held : h[1] = (origin + skip) - 1
  <2>1. CASE held = {}
    BY <1>1, <2>1
  <2>2. CASE held # {}
    <3>1. \A h \in held : h[1] \in Nat /\ h[1] < origin + Len(Live) /\ h[1] >= origin
      BY <1>4 DEF Window
    <3>2. PICK n \in Nat : n = origin + Len(Live)
      BY <1>1
    <3>3. ps \in SUBSET (0..n) /\ ps # {}
      BY <2>2, <3>1, <3>2
    <3>4. Max(ps) \in ps /\ \A y \in ps : y <= Max(ps)
      BY <3>2, <3>3, MaxFacts
    <3>5. PICK g \in held : g[1] = Max(ps)
      BY <3>4
    <3>6. skip = Max(ps) + (1 - origin)
      BY <2>2
    <3>7. \A h \in held : h[1] <= g[1]
      BY <3>4, <3>5
    <3> HIDE DEF skip, ps
    <3>8. skip \in 0..Len(Live) /\ g[1] = (origin + skip) - 1
      <4>1. skip = g[1] + (1 - origin)
        BY <3>5, <3>6
      <4>2. g[1] \in Nat /\ g[1] < origin + Len(Live) /\ g[1] >= origin
        BY <3>1, <3>5
      <4>3. PICK y \in Nat : y = g[1]
        BY <4>2
      <4>4. skip = y + (1 - origin) /\ y < origin + Len(Live) /\ y >= origin
        BY <4>1, <4>2, <4>3
      <4>5. skip \in 0..Len(Live) /\ y = (origin + skip) - 1
        BY <1>1, <4>4
      <4> QED
        BY <4>3, <4>5
    <3> QED
      BY <1>1, <3>1, <3>7, <3>8
  <2> QED
    BY <2>1, <2>2
<1> HIDE DEF skip
<1>6. PeeksAt(got, skip, Live)
  BY <1>1, <1>5, PeekFacts
<1> HIDE DEF got
<1>7. DOMAIN got = 1..Len(got)
  BY <1>6 DEF PeeksAt
<1>8. handed' = PeekWindow(held, origin, skip, got)
  BY <1>2, <1>7 DEF PeekWindow
<1> QED
  BY <1>1, <1>4, <1>5, <1>6, <1>8, WindowPeeks

\* The control state and the drain's window keep their types.
LEMMA ControlStep ==
  ASSUME TInv, [Next]_vars
  PROVE  ControlOK'
<1>1. ControlOK /\ origin \in Nat
  BY DEF TInv, MemoryOK
<1>2. /\ pc' \in {"down", "idle", "evict", "persist", "rename", "unlink", "mark"}
      /\ op' \in {"open", "enqueue", "commit", "record"}
      /\ arg' \in Frame \cup {NoFrame} /\ failed' \in Frame \cup {NoFrame}
      /\ pc' = "evict" => arg' \in Frame /\ op' = "enqueue"
  <2>1. CASE \E h \in handed : CommitThrough(h[1])
    <3>1. PICK h \in handed : CommitThrough(h[1])
      BY <2>1
    <3>2. PICK n : Commits(h[1], n)
      BY <3>1, CommitStep
    <3> QED
      BY <1>1, <3>1, <3>2 DEF Commits, CommitThrough, ControlOK
  <2>2. CASE Open \/ Evict \/ RecordDestroyed \/ PersistEvictions \/ CompactRename
    BY <1>1, <2>2 DEF ControlOK, Open, Evict, RecordDestroyed, PersistEvictions, CompactRename
  <2>3. CASE CompactFails \/ CompactUnlink \/ CompactUnlinkFails \/ WriteHeadMarkerFails
    BY <1>1, <2>3 DEF ControlOK, CompactFails, CompactUnlink, CompactUnlinkFails,
                      WriteHeadMarkerFails, ReturnError
  <2>4. CASE PeekAt \/ WriteHeadMarker \/ Disconnect \/ Crash \/ UNCHANGED vars
    BY <1>1, <2>4 DEF ControlOK, PeekAt, WriteHeadMarker, Disconnect, Crash, Die, vars, control
  <2>5. CASE \E f \in Frame :
               \/ AppendLine(f)
               \/ \E kind \in AppendFaults : AppendLineFails(f, kind)
               \/ \E kind \in {"cut_crash", "cut_newline"} : CrashInAppend(f, kind)
    BY <1>1, <2>5 DEF ControlOK, AppendLine, AppendLineFails, Produce, CrashInAppend, Die
  <2> QED
    BY <2>1, <2>2, <2>3, <2>4, <2>5 DEF Next
<1>3. handed' \subseteq Nat \X Frame
  <2>1. CASE PeekAt
    BY <2>1, PeekStep
  <2>2. CASE ~ PeekAt
    <3>1. handed' \subseteq handed
      BY <2>2 DEF Next, vars, control, Open, AppendLine, AppendLineFails, Produce, CrashInAppend, Evict,
         RecordDestroyed, PersistEvictions, CompactRename, CompactFails, CompactUnlink,
         CompactUnlinkFails, CommitThrough, WriteHeadMarker,
         WriteHeadMarkerFails, Disconnect, Crash, Die, ReturnError
    <3> QED
      BY <1>1, <3>1 DEF ControlOK
  <2> QED
    BY <2>1, <2>2
<1> QED
  BY <1>2, <1>3 DEF ControlOK

\* The Spool struct keeps its types, and its counters stay exact.
LEMMA MemoryStep ==
  ASSUME TInv, [Next]_vars
  PROVE  MemoryOK' /\ CountersOK'
<1>1. MemoryOK /\ Live \in Seq(Frame) /\ Len(Live) \in Nat /\ evicted \in Loss /\ recordDisk \in Loss
  BY LiveFacts DEF TInv, MemoryOK, DiskOK
<1>2. CASE Open
  <2>1. PICK d, h : Opens(d, h)
    BY <1>2, OpenStep
  <2>2. d \in Seq(Frame) /\ h \in 0..Len(d) /\ entries' = d /\ head' = h
        /\ Live' = SubSeq(d, h + 1, Len(d)) /\ bytes' = SizeOf(Live')
    BY <2>1 DEF Opens
  <2>3. Live' \in Seq(Frame)
    BY <2>2, SuffixFacts
  <2>4. bytes' \in Nat
    BY <2>2, <2>3, SizeFacts
  <2>5. origin' = 0 /\ evicted' = recordDisk /\ recordDisk' = recordDisk
    BY <1>2 DEF Open, LoadedEvictions
  <2>6. recordDisk.frames \in Nat
    BY <1>1 DEF Loss
  <2> QED
    BY <1>1, <2>2, <2>4, <2>5, <2>6 DEF MemoryOK, CountersOK
<1>3. CASE Evict
  <2>1. PICK q, k : Evicts(q, k)
    BY <1>3, EvictStep
  <2>2. /\ q \in Seq(Frame) /\ k \in 0..(Len(q) - 1) /\ Len(q) = Len(Live) + 1
        /\ q = Append(Live, arg)
        /\ entries' = Append(entries, arg) /\ head' = head + k /\ origin' = origin + k
        /\ Live' = SubSeq(q, k + 1, Len(q))
        /\ bytes' = (bytes + Size[arg]) - SizeOf(SubSeq(q, 1, k))
        /\ evicted' = Widen(evicted, SubSeq(q, 1, k))
    BY <2>1 DEF Evicts
  <2>3. arg \in Frame /\ bytes = SizeOf(Live) /\ recordDisk' = recordDisk
        /\ recordDisk.frames <= evicted.frames
    BY <1>3 DEF Evict, TInv, ControlOK, CountersOK, disk
  <2>4. SizeOf(q) = SizeOf(Live) + Size[arg]
    BY <1>1, <2>2, <2>3, SizeFacts
  <2>5. k \in 0..Len(q)
    BY <1>1, <2>2
  <2>6. SizeOf(SubSeq(q, k + 1, Len(q))) = SizeOf(q) - SizeOf(SubSeq(q, 1, k))
    BY <2>2, <2>5, SizeFacts
  <2>7. bytes' = SizeOf(Live')
    BY <2>2, <2>3, <2>4, <2>6
  <2>8. Live' \in Seq(Frame) /\ SubSeq(q, 1, k) \in Seq(Frame) /\ Len(SubSeq(q, 1, k)) \in Nat
    BY <2>2, <2>5, SuffixFacts, PrefixFacts, SMTT(30)
  <2>9. bytes' \in Nat
    BY <2>7, <2>8, SizeFacts
  <2>10. evicted' \in Loss /\ evicted'.frames = evicted.frames + Len(SubSeq(q, 1, k))
    BY <1>1, <2>2, <2>8, WidenFacts
  <2>11. evicted'.frames >= recordDisk'.frames
    <3>1. evicted.frames \in Nat /\ recordDisk.frames \in Nat
      BY <1>1 DEF Loss
    <3> QED
      BY <2>3, <2>8, <2>10, <3>1
  <2>12. entries' \in Seq(Frame) /\ head' \in 0..Len(entries') /\ origin' \in Nat
    <3>1. entries \in Seq(Frame) /\ head \in 0..Len(entries) /\ origin \in Nat
          /\ Len(Live) = Len(entries) - head
      BY <1>1, LiveFacts DEF MemoryOK
    <3> QED
      BY <2>2, <2>3, <3>1
  <2> QED
    BY <2>7, <2>9, <2>10, <2>11, <2>12 DEF MemoryOK, CountersOK
<1>4. CASE RecordDestroyed
  <2>1. evicted' = Widen(evicted, <<failed>>) /\ recordDisk' = recordDisk
        /\ UNCHANGED <<entries, head, origin, bytes>> /\ pc = "idle"
    BY <1>4 DEF RecordDestroyed, disk
  <2>2. failed \in Frame
    BY <1>4 DEF RecordDestroyed, TInv, ControlOK
  <2>3. <<failed>> \in Seq(Frame) /\ Len(<<failed>>) = 1
    BY <2>2
  <2>4. evicted' \in Loss /\ evicted'.frames = evicted.frames + Len(<<failed>>)
    BY <1>1, <2>1, <2>3, WidenFacts
  <2>5. bytes = SizeOf(Live) /\ recordDisk.frames <= evicted.frames
    BY <2>1 DEF TInv, CountersOK
  <2>6. evicted'.frames >= recordDisk'.frames
    <3>1. evicted.frames \in Nat /\ recordDisk.frames \in Nat
      BY <1>1 DEF Loss
    <3> QED
      BY <2>1, <2>3, <2>4, <2>5, <3>1
  <2>7. Live' = Live
    BY <2>1 DEF Live
  <2> QED
    BY <1>1, <2>1, <2>4, <2>5, <2>6, <2>7 DEF MemoryOK, CountersOK
<1>5. CASE CompactRename
  <2>1. Live' = Live /\ Live \in Seq(Frame) /\ entries' = Live /\ head' = 0
    BY <1>5, RenameStep
  <2>2. bytes' = SizeOf(Live) /\ UNCHANGED <<origin, evicted, recordDisk>> /\ pc = "rename"
    BY <1>5 DEF CompactRename
  <2>3. bytes' \in Nat
    BY <2>1, <2>2, SizeFacts
  <2>4. recordDisk.frames <= evicted.frames
    BY <2>2 DEF TInv, CountersOK
  <2> QED
    BY <1>1, <2>1, <2>2, <2>3, <2>4 DEF MemoryOK, CountersOK
<1>6. CASE \E h \in handed : CommitThrough(h[1])
  <2>1. PICK h \in handed : CommitThrough(h[1])
    BY <1>6
  <2>2. PICK n : Commits(h[1], n)
    BY <2>1, CommitStep
  <2>3. /\ n \in 0..Len(Live) /\ head' = head + n /\ origin' = origin + n
        /\ Live' = SubSeq(Live, n + 1, Len(Live))
        /\ bytes' = bytes - SizeOf(SubSeq(Live, 1, n))
    BY <2>2 DEF Commits
  <2>4. UNCHANGED <<entries, evicted, recordDisk>> /\ pc = "idle"
    BY <2>1 DEF CommitThrough, disk
  <2>5. bytes = SizeOf(Live) /\ recordDisk.frames <= evicted.frames
    BY <2>4 DEF TInv, CountersOK
  <2>6. SizeOf(SubSeq(Live, n + 1, Len(Live))) = SizeOf(Live) - SizeOf(SubSeq(Live, 1, n))
    BY <1>1, <2>3, SizeFacts
  <2>7. bytes' = SizeOf(Live')
    BY <2>3, <2>5, <2>6
  <2>8. Live' \in Seq(Frame)
    BY <1>1, <2>3, SuffixFacts
  <2>9. bytes' \in Nat
    BY <2>7, <2>8, SizeFacts
  <2>10. head' \in 0..Len(entries') /\ origin' \in Nat
    <3>1. entries \in Seq(Frame) /\ head \in 0..Len(entries) /\ origin \in Nat
          /\ Len(Live) = Len(entries) - head
      BY <1>1, LiveFacts DEF MemoryOK
    <3> QED
      BY <2>3, <2>4, <3>1
  <2> QED
    BY <1>1, <2>4, <2>5, <2>7, <2>9, <2>10 DEF MemoryOK, CountersOK
<1>7. CASE Dies
  <2>1. /\ entries' = <<>> /\ head' = 0 /\ origin' = 0 /\ bytes' = 0 /\ evicted' = NoLoss
        /\ pc' = "down"
    BY <1>7 DEF Dies, Crash, CrashInAppend, Die
  <2> QED
    BY <2>1 DEF MemoryOK, CountersOK, NoLoss, Loss
<1>8. CASE Quiet
  <2>1. UNCHANGED memory /\ Live' = Live /\ (pc = "down" => pc' = "down")
    BY <1>8, QuietMemory
  <2>2. MemoryOK'
    BY <1>1, <2>1 DEF MemoryOK, memory
  <2>3. recordDisk' \in {recordDisk, evicted}
    BY <1>8 DEF Quiet, AppendLine, AppendLineFails, PersistEvictions, CompactFails,
         CompactUnlink, CompactUnlinkFails, PeekAt, WriteHeadMarker,
         WriteHeadMarkerFails, Disconnect, vars, disk
  <2>4. evicted.frames \in Nat
    BY <1>1 DEF Loss
  <2>5. CountersOK'
    BY <2>1, <2>3, <2>4 DEF TInv, CountersOK, memory
  <2> QED
    BY <2>2, <2>5
<1> QED
  BY <1>2, <1>3, <1>4, <1>5, <1>6, <1>7, <1>8, NextCases

\* The drain's window stays a window onto the backlog, whatever moves the head.
LEMMA WindowStep ==
  ASSUME TInv, [Next]_vars
  PROVE  WindowOK'
<1>1. MemoryOK /\ Live \in Seq(Frame) /\ Len(Live) \in Nat /\ origin \in Nat
  BY LiveFacts DEF TInv, MemoryOK
<1>2. /\ handed \in SUBSET (Nat \X Frame) /\ Window(handed, origin, Live)
      /\ pc = "down" \/ (op = "open" /\ pc # "idle") => handed = {}
  BY DEF TInv, ControlOK, WindowOK
<1>3. ASSUME NEW o, NEW l PROVE Window({}, o, l)
  BY DEF Window
<1>4. CASE Open
  <2>1. handed = {} /\ handed' = handed
    BY <1>2, <1>4 DEF Open
  <2> QED
    BY <1>3, <2>1 DEF WindowOK
<1>5. CASE Evict
  <2>1. PICK q, k : Evicts(q, k)
    BY <1>5, EvictStep
  <2>2. /\ q \in Seq(Frame) /\ k \in 0..(Len(q) - 1) /\ Len(q) = Len(Live) + 1
        /\ q = Append(Live, arg) /\ origin' = origin + k
        /\ Live' = SubSeq(q, k + 1, Len(q)) /\ pc' = IF k = 0 THEN "idle" ELSE "persist"
    BY <2>1 DEF Evicts
  <2>3. k \in 0..Len(q) /\ Len(Live) <= Len(q) /\ \A i \in 1..Len(Live) : q[i] = Live[i]
    <3>1. arg \in Frame
      BY <1>5 DEF Evict, TInv, ControlOK
    <3> QED
      BY <1>1, <2>2, <3>1
  <2>4. Window(handed, origin + k, SubSeq(q, k + 1, Len(q)))
    BY <1>1, <1>2, <2>2, <2>3, WindowMoves
  <2>5. handed' = handed /\ op' = "enqueue"
    BY <1>5 DEF Evict, TInv, ControlOK
  <2> QED
    BY <2>2, <2>4, <2>5 DEF WindowOK
<1>6. CASE RecordDestroyed
  <2>1. handed' = handed /\ op' = "record" /\ pc' = "persist" /\ UNCHANGED <<entries, head, origin>>
    BY <1>6 DEF RecordDestroyed
  <2>2. Live' = Live
    BY <2>1 DEF Live
  <2> QED
    BY <1>2, <2>1, <2>2 DEF WindowOK
<1>7. CASE CompactRename
  <2>1. Live' = Live
    BY <1>7, RenameStep
  <2>2. UNCHANGED <<origin, handed, op>> /\ pc = "rename" /\ pc' = "unlink"
    BY <1>7 DEF CompactRename
  <2> QED
    BY <1>2, <2>1, <2>2 DEF WindowOK
<1>8. CASE \E h \in handed : CommitThrough(h[1])
  <2>1. PICK h \in handed : CommitThrough(h[1])
    BY <1>8
  <2>2. PICK n : Commits(h[1], n)
    BY <2>1, CommitStep
  <2>3. /\ n \in 0..Len(Live) /\ origin' = origin + n /\ n = CommitCount(h[1]) /\ h[1] \in Nat
        /\ Live' = SubSeq(Live, n + 1, Len(Live)) /\ pc' \in {"idle", "rename", "mark"}
    BY <2>2 DEF Commits
  <2>4. handed' = {g \in handed : g[1] > h[1]} /\ op' = "commit"
    BY <2>1 DEF CommitThrough
  <2>5. Window(handed, origin + n, SubSeq(Live, n + 1, Len(Live)))
    <3>1. Len(Live) <= Len(Live) /\ \A i \in 1..Len(Live) : Live[i] = Live[i]
      BY <1>1
    <3> QED
      BY <1>1, <1>2, <2>3, <3>1, WindowMoves
  <2>6. h[1] < origin + n /\ h[1] \in Int /\ origin + n \in Nat
    <3>1. h[1] < origin + Len(Live)
      BY <1>2 DEF Window
    <3>2. h[1] >= origin /\ (h[1] - origin) + 1 <= Len(Live) => n = (h[1] - origin) + 1
      BY <1>1, <2>3, CommitFacts
    <3> QED
      BY <1>1, <2>3, <3>1, <3>2, SMTT(30)
  <2>7. Window({g \in handed : g[1] > h[1]}, origin + n, SubSeq(Live, n + 1, Len(Live)))
    BY <1>2, <2>5, <2>6, WindowForgets
  <2> QED
    BY <2>3, <2>4, <2>7 DEF WindowOK
<1>9. CASE Dies
  <2>1. handed' = {}
    BY <1>9 DEF Dies, Crash, CrashInAppend, Die
  <2> QED
    BY <1>3, <2>1 DEF WindowOK
<1>10. CASE Quiet
  <2>1. UNCHANGED <<origin>> /\ Live' = Live
    BY <1>10, QuietMemory DEF memory
  <2>2. CASE PeekAt
    <3>1. UNCHANGED <<pc, op>> /\ pc = "idle"
      BY <2>2 DEF PeekAt
    <3> QED
      BY <2>1, <2>2, <3>1, PeekStep DEF WindowOK
  <2>3. CASE ~ PeekAt
    <3>1. handed' \in {handed, {}}
      BY <1>10, <2>3 DEF Quiet, AppendLine, AppendLineFails, PersistEvictions, CompactFails,
         CompactUnlink, CompactUnlinkFails, WriteHeadMarker, Produce,
         WriteHeadMarkerFails, Disconnect, vars, control, ReturnError
    <3>2. (pc' = "down" \/ (op' = "open" /\ pc' # "idle"))
            => pc = "down" \/ (op = "open" /\ pc # "idle") \/ handed' = {}
      BY <1>10, <2>3 DEF Quiet, AppendLine, AppendLineFails, PersistEvictions, CompactFails,
         CompactUnlink, CompactUnlinkFails, WriteHeadMarker, Produce,
         WriteHeadMarkerFails, Disconnect, vars, control, ReturnError
    <3> QED
      BY <1>2, <1>3, <2>1, <3>1, <3>2 DEF WindowOK
  <2> QED
    BY <2>2, <2>3
<1> QED
  BY <1>4, <1>5, <1>6, <1>7, <1>8, <1>9, <1>10, NextCases

\* TInv holds before the first process opens the spool.
LEMMA TInvInit == Init => TInv
<1> SUFFICES ASSUME Init PROVE TInv
  OBVIOUS
<1>1. {MaxFrame, MaxCrash, MaxWriteError} \subseteq Nat
  BY SpoolAssumption
<1>2. MemoryOK
  BY DEF Init, MemoryOK, NoLoss, Loss
<1>3. DiskOK
  BY DEF Init, DiskOK, NoLoss, Loss
<1>4. ControlOK
  BY DEF Init, ControlOK
<1>5. HistoryOK
  BY <1>1 DEF Init, HistoryOK
<1>6. CountersOK /\ WindowOK
  BY DEF Init, CountersOK, WindowOK, Window
<1> QED
  BY <1>2, <1>3, <1>4, <1>5, <1>6 DEF TInv

\* Every step keeps TInv.
LEMMA TInvStep == TInv /\ [Next]_vars => TInv'
BY MemoryStep, DiskStep, ControlStep, HistoryStep, WindowStep DEF TInv

\* The inductive invariant behind what holds whatever fails: types, byte
\* accounting, the order of the two eviction records and the drain's window.
THEOREM SpoolInvariant == Spec => []TInv
BY TInvInit, TInvStep, PTL DEF Spec

\* The Spool struct, its files and its history keep their types, under every
\* fault: queue.head stays a number, the window positions and frames.
THEOREM TypeCorrect == Spec => []TypeOK
<1>1. TInv => TypeOK
  BY DEF TInv, MemoryOK, DiskOK, ControlOK, HistoryOK, TypeOK, Loss
<1> QED
  BY <1>1, SpoolInvariant, PTL

\* The byte counter that Enqueue, CommitThrough, load and compactLocked keep
\* is the size of the live backlog, whatever write fails and wherever the
\* process dies.
THEOREM BytesAlwaysExact == Spec => []BytesExact
<1>1. TInv => BytesExact
  BY DEF TInv, CountersOK, BytesExact
<1> QED
  BY <1>1, SpoolInvariant, PTL

\* persistEvictionsLocked never writes a smaller count than the one on disk,
\* since a process starts from the persisted record and only widens it.
THEOREM RecordOnlyGrows == Spec => RecordNeverShrinks
<1>1. TInv /\ [Next]_vars => [recordDisk'.frames >= recordDisk.frames]_recordDisk
  <2> SUFFICES ASSUME TInv, [Next]_vars, recordDisk' # recordDisk
               PROVE  recordDisk'.frames >= recordDisk.frames
    OBVIOUS
  <2>1. PersistEvictions
    BY DEF Next, vars, disk, Open, AppendLine, AppendLineFails, CrashInAppend, Evict,
         RecordDestroyed, CompactRename, CompactFails, CompactUnlink,
         CompactUnlinkFails, PeekAt, CommitThrough, WriteHeadMarker,
         WriteHeadMarkerFails, Disconnect, Crash
  <2>2. recordDisk' = evicted /\ pc = "persist"
    BY <2>1 DEF PersistEvictions
  <2>3. recordDisk.frames <= evicted.frames /\ recordDisk.frames \in Nat /\ evicted.frames \in Nat
    BY <2>2 DEF TInv, CountersOK, DiskOK, MemoryOK, Loss
  <2> QED
    BY <2>2, <2>3
<1> QED
  BY <1>1, SpoolInvariant, PTL DEF Spec, RecordNeverShrinks

\* What a commit discards, the drain held: each live position up to the one
\* named is in the window, and so released.
LEMMA NamedStep ==
  ASSUME TInv, [Next]_vars, taken \subseteq released
  PROVE  taken' \subseteq released'
<1>1. CASE \E h \in handed : CommitThrough(h[1])
  <2>1. PICK h \in handed : CommitThrough(h[1])
    BY <1>1
  <2>2. PICK n : Commits(h[1], n)
    BY <2>1, CommitStep
  <2>3. Live \in Seq(Frame) /\ Len(Live) \in Nat /\ origin \in Nat
        /\ Window(handed, origin, Live)
    BY LiveFacts DEF TInv, MemoryOK, WindowOK
  <2>4. h[1] \in Nat /\ n \in 0..Len(Live) /\ (n > 0 => n <= (h[1] - origin) + 1)
        /\ taken' = taken \cup ToSet(SubSeq(Live, 1, n))
    BY <2>2, <2>3, CommitFacts DEF Commits
  <2>5. released' = released \cup {g[2] : g \in {g \in handed : g[1] <= h[1]}}
    BY <2>1 DEF CommitThrough
  <2>6. /\ SubSeq(Live, 1, n) \in Seq(Frame) /\ Len(SubSeq(Live, 1, n)) = n
        /\ \A i \in 1..n : SubSeq(Live, 1, n)[i] = Live[i]
    BY <2>3, <2>4, PrefixFacts
  <2>7. ASSUME NEW i \in 1..n PROVE Live[i] \in released'
    <3>1. PICK p \in origin..h[1] : (p - origin) + 1 = i
      <4>1. (origin + i) - 1 \in origin..h[1] /\ (((origin + i) - 1) - origin) + 1 = i
        BY <2>3, <2>4
      <4> QED
        BY <4>1
    <3>2. <<p, Live[i]>> \in handed
      BY <2>3, <3>1 DEF Window
    <3>3. p <= h[1]
      BY <2>3, <2>4
    <3>4. <<p, Live[i]>> \in {g \in handed : g[1] <= h[1]} /\ <<p, Live[i]>>[2] = Live[i]
      BY <3>2, <3>3
    <3> QED
      BY <2>5, <3>4
  <2>8. ToSet(SubSeq(Live, 1, n)) \subseteq released'
    BY <2>4, <2>6, <2>7 DEF ToSet
  <2> QED
    BY <2>4, <2>5, <2>8
<1>2. CASE ~ (\E h \in handed : CommitThrough(h[1]))
  <2>1. taken' = taken /\ released' = released
    BY <1>2 DEF Next, vars, history, Open, AppendLine, AppendLineFails, CrashInAppend, Evict,
         RecordDestroyed, PersistEvictions, CompactRename, CompactFails, CompactUnlink,
         CompactUnlinkFails, PeekAt, WriteHeadMarker,
         WriteHeadMarkerFails, Disconnect, Crash
  <2> QED
    BY <2>1
<1> QED
  BY <1>1, <1>2

\* CommitThrough discards only frames that the drain was handed and named,
\* whatever the evictions, compactions and failed writes since the peek.
THEOREM CommitsNamed == Spec => []CommitsOnlyNamed
<1>1. Init => CommitsOnlyNamed
  BY DEF Init, CommitsOnlyNamed
<1>2. TInv /\ CommitsOnlyNamed /\ [Next]_vars => CommitsOnlyNamed'
  BY NamedStep DEF CommitsOnlyNamed
<1> QED
  BY <1>1, <1>2, SpoolInvariant, PTL DEF Spec

-----------------------------------------------------------------------------
(* The files and the backlog, where no fault cuts a line that the process  *)
(* goes on appending behind, or separates the two steps of a compaction.   *)

TidyDisk == {"cut_append", "cut_newline", "compact_gap"} \cap Faults = {}

Increasing(s) == \A i, j \in 1..Len(s) : i < j => s[i] < s[j]

Bounded(s, n) == \A i \in 1..Len(s) : s[i] <= n

\* Each element of s is in l, at its own place or behind it.
Copies(l, s) == \A i \in 1..Len(s) : \E j \in i..Len(l) : l[j] = s[i]

\* queue.jsonl holds frames in production order; only a file that is about to
\* be loaded, or was just loaded and is about to be healed, ends in a cut line.
FileOK ==
  /\ lines \in Seq(Frame) /\ Increasing(lines) /\ Bounded(lines, produced)
  /\ tail \in {"whole", "cut"}
  /\ tail = "cut" => pc = "down" \/ (pc = "rename" /\ op = "open")
  /\ pc = "down" => PersistedHead <= Len(lines)

\* Every entry is still in the file, and queue.head skips consumed ones only.
\* The file may have more lines: an append that failed may have left its own.
CopyOK ==
  /\ Increasing(entries) /\ Bounded(entries, produced) /\ Copies(lines, entries)
  /\ pc \notin {"down", "unlink"} => PersistedHead <= head

\* Between the append and the eviction loop the newest line is the argument.
ArgOK ==
  pc = "evict" => /\ arg = produced /\ Len(lines) > Len(entries) /\ lines[Len(lines)] = arg
                  /\ \A i \in 1..Len(entries) : entries[i] < arg
                  /\ \A h \in handed : h[2] < arg

\* A frame handed out at an earlier position than a live one is older.
Behind(hs, o, l) == \A h \in hs : \A i \in 1..Len(l) : h[1] < o + (i - 1) => h[2] < l[i]

HandOK == (\A h \in handed : h[2] <= produced) /\ Behind(handed, origin, Live)

KInv == FileOK /\ CopyOK /\ ArgOK /\ HandOK

\* A copy is not longer than its original.
LEMMA CopyLength ==
  ASSUME NEW E, NEW l \in Seq(E), NEW s \in Seq(E), Copies(l, s)
  PROVE  Len(s) <= Len(l)
<1>1. Len(s) \in Nat /\ Len(l) \in Nat
  OBVIOUS
<1>2. CASE Len(s) = 0
  BY <1>1, <1>2
<1>3. CASE Len(s) # 0
  <2>1. Len(s) \in 1..Len(s)
    BY <1>1, <1>3
  <2>2. PICK j \in Len(s)..Len(l) : TRUE
    BY <2>1 DEF Copies
  <2> QED
    BY <1>1, <2>2
<1> QED
  BY <1>2, <1>3

\* With no garbage in it, the whole file decodes.
LEMMA WholeFile ==
  ASSUME NEW l \in Seq(Frame)
  PROVE  Decoded(l) = l
<1>1. Garbage \notin Frame
  BY SpoolAssumption DEF Garbage, Frame
<1>2. \A i \in 1..Len(l) : l[i] \notin {Garbage}
  BY <1>1
<1> QED
  BY <1>2, WithoutNothing DEF Decoded

\* What a call of Enqueue up to its append does, if it returns at all.
Appending ==
  /\ pc = "idle" /\ failed = NoFrame
  /\ produced' = produced + 1 /\ produced' \in Frame /\ arg' = produced'
  /\ lines' \in {lines, Append(lines, produced')} /\ tail = "whole" /\ tail' = "whole"
  /\ UNCHANGED <<entries, head, origin, bytes, evicted, marker, recordDisk, handed, released, taken, dropped>>
  /\ pc' \in {"idle", "evict"}
  /\ pc' = "evict" => lines' = Append(lines, produced') /\ accepted' = accepted \cup {produced'}
  /\ pc' = "idle" => accepted' = accepted

\* On a tidy disk an append leaves a whole line or nothing.
LEMMA AppendStep ==
  ASSUME TidyDisk, KInv, NEW f \in Frame,
         AppendLine(f) \/ \E kind \in AppendFaults : AppendLineFails(f, kind)
  PROVE  Appending
<1>1. pc = "idle" => tail = "whole"
  BY DEF KInv, FileOK
<1>2. CASE AppendLine(f)
  BY <1>1, <1>2 DEF AppendLine, Produce, Appending, Appended, memory
<1>3. CASE \E kind \in AppendFaults : AppendLineFails(f, kind)
  <2>1. PICK kind \in AppendFaults : AppendLineFails(f, kind)
    BY <1>3
  <2>2. kind \in {"write_error", "sync_error"}
    BY <2>1 DEF TidyDisk, AppendFaults, AppendLineFails, WriteFails
  <2> QED
    BY <1>1, <2>1, <2>2 DEF AppendLineFails, Produce, Appending, Appended, memory
<1> QED
  BY <1>2, <1>3

\* What the death of the process leaves of its files.
Dying ==
  /\ pc \notin {"down", "unlink"} /\ pc' = "down"
  /\ entries' = <<>> /\ handed' = {} /\ lines' = lines /\ recordDisk' = recordDisk
  /\ tail' \in {tail, "cut"}
  /\ marker' = marker \/ marker' = 0
  /\ produced' = produced \/ (produced' = produced + 1 /\ produced' \in Frame)
  /\ UNCHANGED <<accepted, released, taken, dropped>>

\* On a tidy disk a death leaves every complete line, and never falls between
\* the two steps of a compaction.
LEMMA DieStep ==
  ASSUME TidyDisk, KInv, Dies
  PROVE  Dying
<1>1. CASE Crash
  BY <1>1 DEF Crash, Die, Dying, TidyDisk
<1>2. CASE \E f \in Frame : \E kind \in {"cut_crash", "cut_newline"} : CrashInAppend(f, kind)
  <2>1. PICK f \in Frame, kind \in {"cut_crash", "cut_newline"} : CrashInAppend(f, kind)
    BY <1>2
  <2>2. kind = "cut_crash"
    BY <2>1 DEF CrashInAppend, TidyDisk
  <2>3. tail = "whole"
    BY <2>1 DEF CrashInAppend, KInv, FileOK
  <2> QED
    BY <2>1, <2>2, <2>3 DEF CrashInAppend, Die, Dying, CutAppended
<1> QED
  BY <1>1, <1>2 DEF Dies

\* The steps that leave the entries and queue.jsonl alone.
Still ==
  \/ RecordDestroyed \/ PersistEvictions \/ CompactFails \/ CompactUnlink
  \/ WriteHeadMarker \/ WriteHeadMarkerFails \/ PeekAt \/ Disconnect
  \/ (\E h \in handed : CommitThrough(h[1])) \/ UNCHANGED vars

\* On a tidy disk the two steps of a compaction are one.
LEMMA TidyCases ==
  ASSUME TidyDisk, KInv, [Next]_vars
  PROVE  Open \/ Appending \/ Evict \/ CompactRename \/ Dying \/ Still
<1>1. ~ CompactUnlinkFails
  BY DEF TidyDisk, CompactUnlinkFails, WriteFails
<1>2. CASE \E f \in Frame : AppendLine(f) \/ \E kind \in AppendFaults : AppendLineFails(f, kind)
  BY <1>2, AppendStep
<1>3. CASE Dies
  BY <1>3, DieStep
<1> QED
  BY <1>1, <1>2, <1>3 DEF Next, Dies, Still

\* What such a step does to the files, to the next step and to the marker.
LEMMA StillFacts ==
  ASSUME TInv, KInv, Still
  PROVE  /\ UNCHANGED <<entries, lines, tail, produced, accepted, dropped>>
         /\ (pc # "down" /\ pc # "evict") \/ UNCHANGED vars
         /\ pc' = "evict" => UNCHANGED vars
         /\ pc = "idle" => pc' # "unlink" /\ pc' # "down"
         /\ pc' = "down" => pc \in {"down", "rename", "mark"} /\ head' = head /\ marker' = marker
                            /\ handed' \subseteq handed
         /\ pc' = "unlink" => pc = "unlink"
         /\ head' \in Nat /\ head' >= head
         /\ marker' = marker \/ marker' = NoMarker \/ marker' = head
         /\ tail = "cut" => pc = "down" \/ (pc = "rename" /\ op = "open" /\ (pc' = "down" \/ UNCHANGED vars))
<1>1. head \in Nat
  BY DEF TInv, MemoryOK
<1>2. CASE \E h \in handed : CommitThrough(h[1])
  <2>1. PICK h \in handed : CommitThrough(h[1])
    BY <1>2
  <2>2. PICK n : Commits(h[1], n)
    BY <2>1, CommitStep
  <2>3. n \in Nat /\ head' = head + n /\ pc' \in {"idle", "rename", "mark"}
    BY <2>2 DEF Commits
  <2>4. pc = "idle" /\ UNCHANGED <<entries, lines, tail, marker, produced, accepted, dropped>>
    BY <2>1 DEF CommitThrough, disk
  <2>5. tail # "cut"
    BY <2>4 DEF KInv, FileOK
  <2> QED
    BY <1>1, <2>3, <2>4, <2>5
<1>3. CASE RecordDestroyed \/ PersistEvictions \/ CompactUnlink \/ WriteHeadMarker \/ PeekAt \/ Disconnect
  <2>1. UNCHANGED <<entries, head, lines, tail, produced, accepted, dropped>>
    BY <1>3 DEF RecordDestroyed, PersistEvictions, CompactUnlink, WriteHeadMarker, PeekAt,
                Disconnect, memory, disk, history
  <2>2. pc \in {"idle", "persist", "unlink", "mark"} /\ pc' \in {"idle", "persist", "rename"}
    BY <1>3 DEF RecordDestroyed, PersistEvictions, CompactUnlink, WriteHeadMarker, PeekAt,
                Disconnect
  <2>3. marker' = marker \/ marker' = NoMarker \/ marker' = head
    BY <1>3 DEF RecordDestroyed, PersistEvictions, CompactUnlink, WriteHeadMarker, PeekAt,
                Disconnect, disk
  <2>4. tail # "cut"
    BY <2>2 DEF KInv, FileOK
  <2> QED
    BY <1>1, <2>1, <2>2, <2>3, <2>4
<1>4. CASE CompactFails \/ WriteHeadMarkerFails
  <2>1. UNCHANGED <<entries, head, lines, tail, marker, produced, accepted, dropped>>
    BY <1>4 DEF CompactFails, WriteHeadMarkerFails, memory, disk
  <2>2. pc \in {"rename", "mark"} /\ pc' = IF op = "open" THEN "down" ELSE "idle"
    BY <1>4 DEF CompactFails, WriteHeadMarkerFails, ReturnError
  <2>3. handed' \subseteq handed
    BY <1>4 DEF CompactFails, WriteHeadMarkerFails, ReturnError
  <2> QED
    BY <1>1, <2>1, <2>2, <2>3 DEF KInv, FileOK
<1>5. CASE UNCHANGED vars
  <2>1. UNCHANGED <<entries, head, lines, tail, marker, produced, accepted, dropped, pc, handed>>
    BY <1>5 DEF vars, memory, disk, control, history
  <2> QED
    BY <1>1, <1>5, <2>1 DEF KInv, FileOK
<1> QED
  BY <1>2, <1>3, <1>4, <1>5 DEF Still

\* One more line, newer than those before it.
LEMMA AppendSorted ==
  ASSUME NEW s \in Seq(Frame), NEW n \in Nat, Increasing(s), Bounded(s, n), NEW f \in Frame, f > n
  PROVE  /\ Append(s, f) \in Seq(Frame) /\ Len(Append(s, f)) = Len(s) + 1
         /\ Append(s, f)[Len(s) + 1] = f /\ \A i \in 1..Len(s) : Append(s, f)[i] = s[i]
         /\ Increasing(Append(s, f)) /\ Bounded(Append(s, f), f)
<1> DEFINE t == Append(s, f)
<1>1. /\ t \in Seq(Frame) /\ Len(t) = Len(s) + 1 /\ Len(s) \in Nat
      /\ t[Len(s) + 1] = f /\ \A i \in 1..Len(s) : t[i] = s[i]
  OBVIOUS
<1> HIDE DEF t
<1>2. f \in Nat /\ \A i \in 1..Len(s) : s[i] \in Nat /\ s[i] <= n
  BY SpoolAssumption DEF Frame, Bounded
<1>3. \A i \in 1..Len(s) : t[i] < f
  BY <1>1, <1>2
<1>4. \A i \in 1..Len(t) : i \in 1..Len(s) \/ i = Len(s) + 1
  BY <1>1
<1>5. Bounded(t, f)
  BY <1>1, <1>2, <1>3, <1>4 DEF Bounded
<1>6. Increasing(t)
  <2> SUFFICES ASSUME NEW i \in 1..Len(t), NEW j \in 1..Len(t), i < j PROVE t[i] < t[j]
    BY DEF Increasing
  <2>1. i \in 1..Len(s)
    BY <1>1
  <2>2. CASE j = Len(s) + 1
    BY <1>1, <1>3, <2>1, <2>2
  <2>3. CASE j \in 1..Len(s)
    BY <1>1, <2>1, <2>3 DEF Increasing
  <2> QED
    BY <1>4, <2>2, <2>3
<1> QED
  BY <1>1, <1>5, <1>6 DEF t

\* A suffix of a sorted backlog is sorted.
LEMMA SuffixSorted ==
  ASSUME NEW s \in Seq(Frame), NEW n, Increasing(s), Bounded(s, n), NEW h \in 0..Len(s)
  PROVE  /\ Increasing(SubSeq(s, h + 1, Len(s))) /\ Bounded(SubSeq(s, h + 1, Len(s)), n)
<1> DEFINE t == SubSeq(s, h + 1, Len(s))
<1>1. t \in Seq(Frame) /\ Len(t) = Len(s) - h /\ \A i \in 1..(Len(s) - h) : t[i] = s[h + i]
  BY SuffixFacts
<1>2. Len(s) \in Nat
  OBVIOUS
<1> HIDE DEF t
<1>3. \A i \in 1..Len(t) : h + i \in 1..Len(s) /\ t[i] = s[h + i]
  BY <1>1, <1>2
<1>4. \A i, j \in 1..Len(t) : i < j => h + i < h + j
  BY <1>1, <1>2
<1> QED
  BY <1>3, <1>4 DEF Increasing, Bounded, t

\* A larger bound.
LEMMA BoundedUp ==
  ASSUME NEW s \in Seq(Frame), NEW n \in Nat, NEW m \in Nat, n <= m, Bounded(s, n)
  PROVE  Bounded(s, m)
<1>1. \A i \in 1..Len(s) : s[i] \in Nat /\ s[i] <= n
  BY SpoolAssumption DEF Frame, Bounded
<1> QED
  BY <1>1 DEF Bounded

\* queue.jsonl stays sorted, whole except for a torn tail, and its marker inside it.
LEMMA FileStep ==
  ASSUME TidyDisk, TInv, TInv', KInv, [Next]_vars
  PROVE  FileOK'
<1>1. /\ lines \in Seq(Frame) /\ Increasing(lines) /\ Bounded(lines, produced)
      /\ tail \in {"whole", "cut"}
      /\ tail = "cut" => pc = "down" \/ (pc = "rename" /\ op = "open")
      /\ pc = "down" => PersistedHead <= Len(lines)
  BY DEF KInv, FileOK
<1>2. /\ entries \in Seq(Frame) /\ Increasing(entries) /\ Bounded(entries, produced)
      /\ Len(entries) <= Len(lines) /\ Len(entries) \in Nat /\ Len(lines) \in Nat
      /\ head \in 0..Len(entries) /\ produced \in Nat /\ produced' \in Nat
  <2>1. entries \in Seq(Frame) /\ head \in 0..Len(entries) /\ produced \in Nat /\ produced' \in Nat
    BY DEF TInv, MemoryOK, HistoryOK
  <2>2. Len(entries) <= Len(lines)
    BY <1>1, <2>1, CopyLength DEF KInv, CopyOK
  <2> QED
    BY <1>1, <2>1, <2>2 DEF KInv, CopyOK
<1>3. PersistedHead \in Nat /\ (pc \notin {"down", "unlink"} => PersistedHead <= head)
  BY DecodedFacts DEF TInv, KInv, CopyOK
<1>4. CASE Open
  <2>1. PICK d, h : Opens(d, h)
    BY <1>4, OpenStep
  <2>2. pc' \in {"idle", "rename"} /\ op' = "open" /\ (tail = "cut" => pc' = "rename")
    BY <1>4, <2>1 DEF Opens, Open, NeedsHealing
  <2>3. UNCHANGED <<lines, tail, produced>>
    BY <1>4 DEF Open, history
  <2> QED
    BY <1>1, <2>2, <2>3 DEF FileOK
<1>5. CASE Appending
  <2>1. /\ produced' = produced + 1 /\ produced' \in Frame
        /\ lines' = lines \/ lines' = Append(lines, produced')
        /\ tail' = "whole" /\ pc' # "down"
    BY <1>5 DEF Appending
  <2>2. produced' > produced
    BY <1>2, <2>1
  <2>3. lines' \in Seq(Frame) /\ Increasing(lines') /\ Bounded(lines', produced')
    <3>1. CASE lines' = lines
      BY <1>1, <1>2, <2>2, <3>1, BoundedUp
    <3>2. CASE lines' = Append(lines, produced')
      BY <1>1, <1>2, <2>1, <2>2, <3>2, AppendSorted
    <3> QED
      BY <2>1, <3>1, <3>2
  <2> QED
    BY <2>1, <2>3 DEF FileOK
<1>6. CASE Evict
  <2>1. UNCHANGED <<lines, tail, produced>> /\ pc = "evict" /\ pc' \in {"idle", "persist"}
    BY <1>6 DEF Evict, disk
  <2> QED
    BY <1>1, <2>1 DEF FileOK
<1>7. CASE CompactRename
  <2>1. lines' = Live /\ tail' = "whole" /\ produced' = produced /\ pc' = "unlink"
    BY <1>7 DEF CompactRename, history
  <2>2. Live \in Seq(Frame) /\ Increasing(Live) /\ Bounded(Live, produced)
    BY <1>2, SuffixSorted, SuffixFacts DEF Live
  <2> QED
    BY <2>1, <2>2 DEF FileOK
<1>8. CASE Dying
  <2>1. /\ pc \notin {"down", "unlink"} /\ pc' = "down" /\ lines' = lines /\ tail' \in {tail, "cut"}
        /\ marker' = marker \/ marker' = 0
        /\ produced' = produced \/ produced' = produced + 1
    BY <1>8 DEF Dying
  <2>2. PersistedHead' = PersistedHead \/ PersistedHead' = 0
    BY <2>1 DEF PersistedHead
  <2>3. PersistedHead' <= Len(lines)
    BY <1>2, <1>3, <2>1, <2>2
  <2>4. Bounded(lines, produced')
    <3>1. produced <= produced'
      BY <1>2, <2>1
    <3> QED
      BY <1>1, <1>2, <3>1, BoundedUp
  <2> QED
    BY <1>1, <2>1, <2>3, <2>4 DEF FileOK
<1>9. CASE Still
  <2>1. UNCHANGED <<lines, tail, produced>>
    BY <1>9, StillFacts
  <2>2. tail = "cut" => pc' = "down" \/ (pc' = "rename" /\ op' = "open")
    <3>1. tail = "cut" => pc = "down" \/ (pc = "rename" /\ op = "open" /\ (pc' = "down" \/ UNCHANGED vars))
      BY <1>9, StillFacts
    <3>2. pc = "down" => UNCHANGED vars
      BY <1>9, StillFacts
    <3>3. UNCHANGED vars => pc' = pc /\ op' = op
      BY DEF vars, control
    <3> QED
      BY <3>1, <3>2, <3>3
  <2>3. pc' = "down" => PersistedHead' <= Len(lines)
    <3> SUFFICES ASSUME pc' = "down" PROVE PersistedHead' <= Len(lines)
      OBVIOUS
    <3>1. pc \in {"down", "rename", "mark"} /\ marker' = marker
      BY <1>9, StillFacts
    <3>2. PersistedHead' = PersistedHead
      BY <3>1 DEF PersistedHead
    <3> QED
      BY <1>1, <1>2, <1>3, <3>1, <3>2
  <2> QED
    BY <1>1, <2>1, <2>2, <2>3 DEF FileOK
<1> QED
  BY <1>4, <1>5, <1>6, <1>7, <1>8, <1>9, TidyCases

\* Every entry in memory stays in the file, ahead of which the marker never runs.
LEMMA CopyStep ==
  ASSUME TidyDisk, TInv, TInv', KInv, [Next]_vars
  PROVE  CopyOK'
<1>1. /\ lines \in Seq(Frame) /\ Increasing(lines) /\ Bounded(lines, produced)
      /\ pc = "down" => PersistedHead <= Len(lines)
      /\ Increasing(entries) /\ Bounded(entries, produced) /\ Copies(lines, entries)
      /\ pc \notin {"down", "unlink"} => PersistedHead <= head
  BY DEF KInv, FileOK, CopyOK
<1>2. /\ entries \in Seq(Frame) /\ head \in 0..Len(entries) /\ produced \in Nat /\ produced' \in Nat
      /\ Len(entries) \in Nat /\ Len(lines) \in Nat /\ head \in Nat
  BY <1>1, SMTT(30) DEF TInv, MemoryOK, HistoryOK
<1>3. PersistedHead \in Nat
  BY DecodedFacts DEF TInv
<1>4. ASSUME NEW s \in Seq(Frame) PROVE Copies(s, s)
  <2> SUFFICES ASSUME NEW i \in 1..Len(s) PROVE \E j \in i..Len(s) : s[j] = s[i]
    BY DEF Copies
  <2>1. i \in i..Len(s)
    OBVIOUS
  <2> QED
    BY <2>1
<1>5. CASE Open
  <2>1. PICK d, h : Opens(d, h)
    BY <1>5, OpenStep
  <2>2. d = lines /\ h = PersistedHead
    <3>1. d = lines
      BY <1>1, <2>1, WholeFile DEF Opens
    <3>2. pc = "down"
      BY <1>5 DEF Open
    <3> QED
      BY <1>1, <2>1, <3>1, <3>2 DEF Opens
  <2>3. entries' = lines /\ head' = PersistedHead /\ (marker' = marker \/ marker' = NoMarker)
    BY <2>1, <2>2 DEF Opens
  <2>4. UNCHANGED <<lines, produced>>
    BY <1>5 DEF Open, history
  <2>5. PersistedHead' <= head'
    <3>1. PersistedHead' = PersistedHead \/ PersistedHead' = 0
      BY <2>3 DEF PersistedHead
    <3> QED
      BY <1>3, <2>3, <3>1
  <2> QED
    BY <1>1, <1>4, <2>3, <2>4, <2>5 DEF CopyOK
<1>6. CASE Appending
  <2>1. /\ produced' = produced + 1 /\ produced' \in Frame /\ pc = "idle"
        /\ lines' = lines \/ lines' = Append(lines, produced')
        /\ UNCHANGED <<entries, head, marker>>
    BY <1>6 DEF Appending
  <2>2. Bounded(entries, produced')
    <3>1. produced <= produced'
      BY <1>2, <2>1
    <3> QED
      BY <1>1, <1>2, <3>1, BoundedUp
  <2>3. Copies(lines', entries)
    <3>1. Len(lines') \in Nat /\ Len(lines) <= Len(lines') /\ \A j \in 1..Len(lines) : lines'[j] = lines[j]
      BY <1>1, <2>1
    <3>2. ASSUME NEW i \in 1..Len(entries) PROVE \E j \in i..Len(lines') : lines'[j] = entries[i]
      <4>1. PICK j \in i..Len(lines) : lines[j] = entries[i]
        BY <1>1 DEF Copies
      <4>2. j \in 1..Len(lines) /\ j \in i..Len(lines')
        BY <1>2, <3>1
      <4> QED
        BY <3>1, <4>1, <4>2
    <3> QED
      BY <3>2 DEF Copies
  <2>4. PersistedHead' = PersistedHead
    BY <2>1 DEF PersistedHead
  <2> QED
    BY <1>1, <2>1, <2>2, <2>3, <2>4 DEF CopyOK
<1>7. CASE Evict
  <2>1. PICK q, k : Evicts(q, k)
    BY <1>7, EvictStep
  <2>2. entries' = Append(entries, arg) /\ head' = head + k /\ k \in Nat
    BY <2>1 DEF Evicts
  <2>3. UNCHANGED <<lines, marker, produced>> /\ pc = "evict"
    BY <1>7 DEF Evict, disk
  <2>4. /\ arg = produced /\ Len(lines) > Len(entries) /\ lines[Len(lines)] = arg
        /\ \A i \in 1..Len(entries) : entries[i] < arg
    BY <2>3 DEF KInv, ArgOK
  <2>5. arg \in Frame /\ arg \in Nat /\ arg # 0 /\ \A i \in 1..Len(entries) : entries[i] \in Nat
    BY <1>2, <2>3, SpoolAssumption, SMTT(30) DEF TInv, ControlOK, Frame
  <2>6. PICK b \in Nat : b + 1 = arg
    <3>1. arg - 1 \in Nat /\ (arg - 1) + 1 = arg
      BY <2>5
    <3> QED
      BY <3>1
  <2>7. Bounded(entries, b)
    BY <2>4, <2>5, <2>6 DEF Bounded
  <2>8. /\ Len(entries') = Len(entries) + 1
        /\ entries'[Len(entries) + 1] = arg /\ \A i \in 1..Len(entries) : entries'[i] = entries[i]
        /\ Increasing(entries') /\ Bounded(entries', arg)
    BY <1>1, <1>2, <2>2, <2>5, <2>6, <2>7, AppendSorted
  <2>9. ASSUME NEW i \in 1..Len(entries') PROVE \E j \in i..Len(lines) : lines[j] = entries'[i]
    <3>1. CASE i = Len(entries) + 1
      <4>1. Len(lines) \in i..Len(lines)
        BY <1>2, <2>4, <3>1
      <4> QED
        BY <2>4, <2>8, <3>1, <4>1
    <3>2. CASE i \in 1..Len(entries)
      BY <1>1, <2>8, <3>2 DEF Copies
    <3> QED
      BY <1>2, <2>8, <3>1, <3>2
  <2>10. PersistedHead' <= head'
    <3>1. PersistedHead' = PersistedHead
      BY <2>3 DEF PersistedHead
    <3> QED
      BY <1>1, <1>2, <1>3, <2>2, <2>3, <3>1
  <2> QED
    BY <2>3, <2>4, <2>8, <2>9, <2>10 DEF CopyOK, Copies
<1>8. CASE CompactRename
  <2>1. lines' = Live /\ entries' = Live /\ produced' = produced /\ pc' = "unlink"
    BY <1>8 DEF CompactRename, history
  <2>2. Live \in Seq(Frame) /\ Increasing(Live) /\ Bounded(Live, produced)
    BY <1>1, <1>2, SuffixSorted, SuffixFacts DEF Live
  <2> QED
    BY <1>4, <2>1, <2>2 DEF CopyOK
<1>9. CASE Dying
  <2>1. entries' = <<>> /\ pc' = "down"
    BY <1>9 DEF Dying
  <2> QED
    BY <2>1 DEF CopyOK, Increasing, Bounded, Copies
<1>10. CASE Still
  <2>1. /\ UNCHANGED <<lines, entries, produced>> /\ head' \in Nat /\ head' >= head
        /\ marker' = marker \/ marker' = NoMarker \/ marker' = head
    BY <1>10, StillFacts
  <2>2. pc' \notin {"down", "unlink"} => PersistedHead' <= head'
    <3> SUFFICES ASSUME pc' \notin {"down", "unlink"} PROVE PersistedHead' <= head'
      OBVIOUS
    <3>1. CASE pc \in {"down", "unlink"}
      <4>1. pc # "down"
        <5>1. pc = "down" => UNCHANGED vars
          BY <1>10, StillFacts
        <5> QED
          BY <5>1 DEF vars, control
      <4>2. CompactUnlink
        BY <1>10, <3>1, <4>1 DEF Still, RecordDestroyed, PersistEvictions, CompactFails,
             WriteHeadMarker, WriteHeadMarkerFails, PeekAt, Disconnect, CommitThrough, vars, control
      <4>3. marker' = NoMarker
        BY <4>2 DEF CompactUnlink
      <4> QED
        BY <2>1, <4>3 DEF PersistedHead
    <3>2. CASE pc \notin {"down", "unlink"}
      <4>1. PersistedHead' = PersistedHead \/ PersistedHead' = 0 \/ PersistedHead' = head
        BY <1>2, <2>1 DEF PersistedHead, NoMarker
      <4> QED
        BY <1>1, <1>2, <1>3, <2>1, <3>2, <4>1
    <3> QED
      BY <3>1, <3>2
  <2> QED
    BY <1>1, <2>1, <2>2 DEF CopyOK
<1> QED
  BY <1>5, <1>6, <1>7, <1>8, <1>9, <1>10, TidyCases

\* The frame being enqueued is the newest line, not yet an entry.
LEMMA ArgStep ==
  ASSUME TidyDisk, TInv, TInv', KInv, [Next]_vars
  PROVE  ArgOK'
<1> SUFFICES ASSUME pc' = "evict"
             PROVE  /\ arg' = produced' /\ Len(lines') > Len(entries') /\ lines'[Len(lines')] = arg'
                    /\ \A i \in 1..Len(entries') : entries'[i] < arg'
                    /\ \A h \in handed' : h[2] < arg'
  BY DEF ArgOK
<1>1. CASE Appending
  <2>1. /\ produced' = produced + 1 /\ arg' = produced' /\ lines' = Append(lines, produced')
        /\ UNCHANGED <<entries, handed>> /\ produced' \in Frame
    BY <1>1 DEF Appending
  <2>2. /\ lines \in Seq(Frame) /\ entries \in Seq(Frame) /\ produced \in Nat
        /\ Bounded(entries, produced) /\ \A h \in handed : h[2] <= produced /\ h[2] \in Nat
    <3>1. handed \subseteq Nat \X Frame
      BY DEF TInv, ControlOK
    <3>2. \A h \in handed : h[2] \in Nat
      BY <3>1, SpoolAssumption DEF Frame
    <3> QED
      BY <3>2, SMTT(60) DEF TInv, MemoryOK, HistoryOK, KInv, FileOK, CopyOK, HandOK
  <2>3. Len(entries) <= Len(lines)
    BY <2>2, CopyLength DEF KInv, CopyOK
  <2>4. Len(lines') > Len(entries') /\ lines'[Len(lines')] = arg'
    BY <2>1, <2>2, <2>3
  <2>5. \A i \in 1..Len(entries) : entries[i] \in Nat /\ entries[i] <= produced
    BY <2>2, SpoolAssumption, SMTT(30) DEF Frame, Bounded
  <2>6. \A i \in 1..Len(entries') : entries'[i] < arg'
    BY <2>1, <2>2, <2>5
  <2>7. \A h \in handed' : h[2] < arg'
    BY <2>1, <2>2
  <2> QED
    BY <2>1, <2>4, <2>6, <2>7
<1>2. CASE Still
  <2>1. UNCHANGED vars
    BY <1>2, StillFacts
  <2>2. UNCHANGED <<pc, arg, produced, lines, entries, handed>>
    BY <2>1 DEF vars, memory, disk, control, history
  <2> QED
    BY <2>2 DEF KInv, ArgOK
<1>3. ~ Open
  <2> SUFFICES ASSUME Open PROVE FALSE
    OBVIOUS
  <2>1. PICK d, h : Opens(d, h)
    BY OpenStep
  <2> QED
    BY <2>1 DEF Opens
<1>4. ~ Evict /\ ~ CompactRename /\ ~ Dying
  BY DEF Evict, CompactRename, Dying
<1> QED
  BY <1>1, <1>2, <1>3, <1>4, TidyCases

\* Frames that leave the old end, and a newer one that comes at the new end,
\* keep what was handed out behind the backlog.
LEMMA BehindMoves ==
  ASSUME NEW hs \in SUBSET (Nat \X Frame), NEW o \in Nat, NEW l \in Seq(Frame), NEW m \in Seq(Frame),
         NEW k \in 0..Len(m), Len(l) <= Len(m), \A i \in 1..Len(l) : m[i] = l[i],
         \A i \in (Len(l) + 1)..Len(m) : \A h \in hs : h[2] < m[i], Behind(hs, o, l)
  PROVE  Behind(hs, o + k, SubSeq(m, k + 1, Len(m)))
<1> DEFINE n == SubSeq(m, k + 1, Len(m))
<1>1. Len(m) \in Nat /\ Len(l) \in Nat
  OBVIOUS
<1>2. n \in Seq(Frame) /\ Len(n) = Len(m) - k /\ \A i \in 1..(Len(m) - k) : n[i] = m[k + i]
  BY SuffixFacts
<1> HIDE DEF n
<1>3. ASSUME NEW h \in hs, NEW i \in 1..Len(n), h[1] < (o + k) + (i - 1) PROVE h[2] < n[i]
  <2>1. n[i] = m[k + i] /\ k + i \in 1..Len(m)
    BY <1>1, <1>2
  <2>2. CASE k + i \in 1..Len(l)
    <3>1. h[1] < o + ((k + i) - 1)
      <4>1. h[1] \in Nat
        OBVIOUS
      <4> QED
        BY <1>1, <1>2, <1>3, <4>1
    <3>2. h[2] < l[k + i]
      BY <2>2, <3>1 DEF Behind
    <3> QED
      BY <2>1, <2>2, <3>2
  <2>3. CASE k + i \in (Len(l) + 1)..Len(m)
    BY <2>1, <2>3
  <2> QED
    BY <1>1, <2>1, <2>2, <2>3
<1> QED
  BY <1>3 DEF Behind, n

\* Frames handed out stay older than the live ones at later positions.
LEMMA HandStep ==
  ASSUME TidyDisk, TInv, TInv', KInv, [Next]_vars
  PROVE  HandOK'
<1>1. /\ Live \in Seq(Frame) /\ Len(Live) \in Nat /\ origin \in Nat /\ produced \in Nat /\ produced' \in Nat
      /\ handed \in SUBSET (Nat \X Frame)
  BY LiveFacts, SMTT(60) DEF TInv, MemoryOK, ControlOK, HistoryOK
<1>2. /\ \A h \in handed : h[2] <= produced /\ h[2] \in Nat
      /\ Behind(handed, origin, Live)
  <2>1. \A h \in handed : h[2] \in Nat
    BY <1>1, SpoolAssumption DEF Frame
  <2> QED
    BY <2>1 DEF KInv, HandOK
<1>3. ASSUME handed' \subseteq handed, UNCHANGED <<origin, produced>>, Live' = Live PROVE HandOK'
  BY <1>2, <1>3 DEF HandOK, Behind
<1>4. ASSUME handed' = {} PROVE HandOK'
  BY <1>4 DEF HandOK, Behind
<1>5. CASE Open
  <2>1. handed' = {}
    BY <1>5 DEF Open, TInv, WindowOK
  <2> QED
    BY <1>4, <2>1
<1>6. CASE Appending
  <2>1. UNCHANGED <<handed, origin, entries, head>> /\ produced' = produced + 1
    BY <1>6 DEF Appending
  <2>2. Live' = Live
    BY <2>1 DEF Live
  <2> QED
    BY <1>1, <1>2, <2>1, <2>2 DEF HandOK
<1>7. CASE Evict
  <2>1. PICK q, k : Evicts(q, k)
    BY <1>7, EvictStep
  <2>2. /\ q \in Seq(Frame) /\ k \in 0..(Len(q) - 1) /\ Len(q) = Len(Live) + 1
        /\ q = Append(Live, arg) /\ origin' = origin + k
        /\ Live' = SubSeq(q, k + 1, Len(q))
    BY <2>1 DEF Evicts
  <2>3. pc = "evict" /\ UNCHANGED <<handed, produced>>
    BY <1>7 DEF Evict
  <2>4. \A h \in handed : h[2] < arg
    BY <2>3 DEF KInv, ArgOK
  <2>5. arg \in Frame
    BY <2>3 DEF TInv, ControlOK
  <2>6. /\ k \in 0..Len(q) /\ Len(Live) <= Len(q) /\ \A i \in 1..Len(Live) : q[i] = Live[i]
        /\ q[Len(Live) + 1] = arg
    BY <1>1, <2>2, <2>5
  <2>7. \A i \in (Len(Live) + 1)..Len(q) : \A h \in handed : h[2] < q[i]
    BY <1>1, <2>2, <2>4, <2>6
  <2>8. Behind(handed, origin + k, SubSeq(q, k + 1, Len(q)))
    BY <1>1, <1>2, <2>2, <2>6, <2>7, BehindMoves
  <2> QED
    BY <1>2, <2>2, <2>3, <2>8 DEF HandOK
<1>8. CASE CompactRename
  <2>1. Live' = Live
    BY <1>8, RenameStep
  <2>2. UNCHANGED <<origin, handed, produced>>
    BY <1>8 DEF CompactRename, history
  <2> QED
    BY <1>3, <2>1, <2>2
<1>9. CASE Dying
  BY <1>4, <1>9 DEF Dying
<1>10. CASE \E h \in handed : CommitThrough(h[1])
  <2>1. PICK h \in handed : CommitThrough(h[1])
    BY <1>10
  <2>2. PICK n : Commits(h[1], n)
    BY <2>1, CommitStep
  <2>3. /\ n \in 0..Len(Live) /\ origin' = origin + n
        /\ Live' = SubSeq(Live, n + 1, Len(Live))
    BY <2>2 DEF Commits
  <2>4. handed' \subseteq handed /\ produced' = produced
    BY <2>1 DEF CommitThrough
  <2>5. Len(Live) <= Len(Live) /\ \A i \in (Len(Live) + 1)..Len(Live) : \A g \in handed : g[2] < Live[i]
    BY <1>1
  <2>6. Behind(handed, origin + n, SubSeq(Live, n + 1, Len(Live)))
    <3>1. \A i \in 1..Len(Live) : Live[i] = Live[i]
      OBVIOUS
    <3> QED
      BY <1>1, <1>2, <2>3, <2>5, <3>1, BehindMoves
  <2>7. Behind(handed', origin + n, SubSeq(Live, n + 1, Len(Live)))
    BY <2>4, <2>6 DEF Behind
  <2> QED
    BY <1>2, <2>3, <2>4, <2>7 DEF HandOK
<1>11. CASE PeekAt
  <2>1. UNCHANGED <<origin, produced, entries, head>>
    BY <1>11 DEF PeekAt, memory, history
  <2>2. Live' = Live
    BY <2>1 DEF Live
  <2>3. Window(handed', origin, Live) /\ handed' \subseteq Nat \X Frame
    BY <1>11, PeekStep
  <2>4. \A h \in handed' : h[1] >= origin
    BY <1>11, PeekStep
  <2>5. Increasing(Live) /\ Bounded(Live, produced)
    <3>1. entries \in Seq(Frame) /\ head \in 0..Len(entries)
      BY DEF TInv, MemoryOK
    <3> QED
      BY <3>1, SuffixSorted DEF Live, KInv, CopyOK
  <2>6. ASSUME NEW h \in handed'
        PROVE  /\ h[1] \in Nat /\ h[1] >= origin /\ (h[1] - origin) + 1 \in 1..Len(Live)
               /\ h[2] = Live[(h[1] - origin) + 1]
    <3>1. h[1] \in Nat /\ h[1] >= origin /\ h[1] < origin + Len(Live)
      BY <2>3, <2>4 DEF Window
    <3> QED
      BY <1>1, <2>3, <3>1 DEF Window
  <2>7. ASSUME NEW h \in handed', NEW i \in 1..Len(Live), h[1] < origin + (i - 1)
        PROVE  h[2] < Live[i]
    <3>1. (h[1] - origin) + 1 < i
      BY <1>1, <2>6, <2>7
    <3> QED
      BY <2>5, <2>6, <3>1 DEF Increasing
  <2>8. \A h \in handed' : h[2] <= produced
    BY <2>5, <2>6 DEF Bounded
  <2> QED
    BY <2>1, <2>2, <2>7, <2>8 DEF HandOK, Behind
<1>12. CASE Still /\ ~ PeekAt /\ ~ (\E h \in handed : CommitThrough(h[1]))
  <2>1. handed' \subseteq handed /\ UNCHANGED <<origin, produced, entries, head>>
    BY <1>12 DEF Still, RecordDestroyed, PersistEvictions, CompactFails, CompactUnlink,
         WriteHeadMarker, WriteHeadMarkerFails, Disconnect, ReturnError,
         vars, memory, control, history
  <2>2. Live' = Live
    BY <2>1 DEF Live
  <2> QED
    BY <1>3, <2>1, <2>2
<1> QED
  BY <1>5, <1>6, <1>7, <1>8, <1>9, <1>10, <1>11, <1>12, TidyCases

\* On a tidy disk KInv is kept.
LEMMA KInvStep ==
  ASSUME TidyDisk, TInv, TInv', KInv, [Next]_vars
  PROVE  KInv'
BY FileStep, CopyStep, ArgStep, HandStep DEF KInv

\* KInv holds of empty files.
LEMMA KInvInit == Init => KInv
<1> SUFFICES ASSUME Init PROVE KInv
  OBVIOUS
<1>1. lines = <<>> /\ entries = <<>> /\ handed = {} /\ pc = "down" /\ tail = "whole" /\ marker = NoMarker
  BY DEF Init
<1>2. FileOK
  BY <1>1 DEF FileOK, Increasing, Bounded, PersistedHead
<1>3. CopyOK
  BY <1>1 DEF CopyOK, Increasing, Bounded, Copies
<1>4. ArgOK /\ HandOK
  BY <1>1 DEF ArgOK, HandOK, Behind
<1> QED
  BY <1>2, <1>3, <1>4 DEF KInv

-----------------------------------------------------------------------------
(* The queue that the files implement.                                     *)

\* What is left of l once its first m elements are skipped.
Beyond(l, m) == {l[j] : j \in (m + 1)..Len(l)}

\* Skipping a prefix with SubSeq and by index leave the same elements.
LEMMA BeyondFacts ==
  ASSUME NEW l \in Seq(Frame), NEW m \in Nat
  PROVE  ToSet(SubSeq(l, m + 1, Len(l))) = Beyond(l, m)
<1> DEFINE t == SubSeq(l, m + 1, Len(l))
<1>1. Len(l) \in Nat
  OBVIOUS
<1>2. CASE m <= Len(l)
  <2>1. m \in 0..Len(l)
    BY <1>1, <1>2
  <2>2. t \in Seq(Frame) /\ Len(t) = Len(l) - m /\ \A i \in 1..(Len(l) - m) : t[i] = l[m + i]
    BY <2>1, SuffixFacts
  <2> HIDE DEF t
  <2>3. DOMAIN t = 1..(Len(l) - m)
    BY <2>2
  <2>4. ASSUME NEW x \in ToSet(t) PROVE x \in Beyond(l, m)
    <3>1. PICK i \in 1..(Len(l) - m) : x = t[i]
      BY <2>3 DEF ToSet
    <3>2. m + i \in (m + 1)..Len(l) /\ x = l[m + i]
      BY <1>1, <2>2, <3>1
    <3> QED
      BY <3>2 DEF Beyond
  <2>5. ASSUME NEW x \in Beyond(l, m) PROVE x \in ToSet(t)
    <3>1. PICK j \in (m + 1)..Len(l) : x = l[j]
      BY DEF Beyond
    <3>2. j - m \in 1..(Len(l) - m) /\ m + (j - m) = j
      BY <1>1
    <3>3. t[j - m] = x
      BY <2>2, <3>1, <3>2
    <3> QED
      BY <2>3, <3>2, <3>3 DEF ToSet
  <2> QED
    BY <2>4, <2>5 DEF t
<1>3. CASE m > Len(l)
  <2>1. Beyond(l, m) = {}
    BY <1>1, <1>3 DEF Beyond
  <2>2. t = <<>>
    BY <1>1, <1>3
  <2>3. ToSet(<<>>) = {}
    BY DEF ToSet
  <2> QED
    BY <2>1, <2>2, <2>3
<1> QED
  BY <1>1, <1>2, <1>3

\* What survives in the file of a copy.
LEMMA BeyondCopies ==
  ASSUME NEW l \in Seq(Frame), NEW s \in Seq(Frame), Copies(l, s),
         NEW m \in Nat, NEW h \in Nat, m <= h
  PROVE  Beyond(s, h) \subseteq Beyond(l, m)
<1> SUFFICES ASSUME NEW i \in (h + 1)..Len(s) PROVE s[i] \in Beyond(l, m)
  BY DEF Beyond
<1>1. i \in 1..Len(s)
  OBVIOUS
<1>2. PICK j \in i..Len(l) : l[j] = s[i]
  BY <1>1 DEF Copies
<1>3. j \in (m + 1)..Len(l)
  OBVIOUS
<1> QED
  BY <1>2, <1>3 DEF Beyond

\* Skipping fewer elements leaves more.
LEMMA BeyondMore ==
  ASSUME NEW l \in Seq(Frame), NEW m \in Nat, NEW n \in Nat, m <= n
  PROVE  Beyond(l, n) \subseteq Beyond(l, m)
<1>1. Len(l) \in Nat
  OBVIOUS
<1>2. (n + 1)..Len(l) \subseteq (m + 1)..Len(l)
  BY <1>1
<1> QED
  BY <1>2 DEF Beyond

\* What the abstract queue calls live.
Backlog ==
  IF pc = "down" THEN Recoverable
  ELSE ToSet(Live) \cup (IF pc = "evict" THEN {arg} ELSE {})

\* The backlog in memory is in the file, which holds produced frames.
BacklogOK ==
  /\ Recoverable = Beyond(lines, PersistedHead)
  /\ ToSet(Live) = Beyond(entries, head)
  /\ pc \notin {"down", "unlink"} => Backlog \subseteq Recoverable
  /\ Recoverable \subseteq 1..produced

\* The backlog in memory can be recovered from the files.
LEMMA BacklogFacts ==
  ASSUME TInv, KInv
  PROVE  BacklogOK
<1>1. /\ lines \in Seq(Frame) /\ entries \in Seq(Frame) /\ head \in 0..Len(entries)
      /\ Copies(lines, entries) /\ Bounded(lines, produced) /\ produced \in Nat
  BY DEF TInv, MemoryOK, HistoryOK, KInv, FileOK, CopyOK
<1>2. PersistedHead \in Nat
  BY DecodedFacts DEF TInv
<1>3. Recoverable = Beyond(lines, PersistedHead)
  BY <1>1, <1>2, WholeFile, BeyondFacts DEF Recoverable
<1>4. ToSet(Live) = Beyond(entries, head)
  BY <1>1, BeyondFacts DEF Live
<1>5. ASSUME pc \notin {"down", "unlink"} PROVE Backlog \subseteq Recoverable
  <2>1. PersistedHead <= head
    BY <1>5 DEF KInv, CopyOK
  <2>2. Beyond(entries, head) \subseteq Beyond(lines, PersistedHead)
    BY <1>1, <1>2, <2>1, BeyondCopies
  <2>3. ASSUME pc = "evict" PROVE arg \in Beyond(lines, PersistedHead)
    <3>1. Len(lines) > Len(entries) /\ lines[Len(lines)] = arg
      BY <2>3 DEF KInv, ArgOK
    <3>2. Len(lines) \in (PersistedHead + 1)..Len(lines)
      BY <1>1, <1>2, <2>1, <3>1
    <3> QED
      BY <3>1, <3>2 DEF Beyond
  <2> QED
    BY <1>3, <1>4, <1>5, <2>2, <2>3 DEF Backlog
<1>6. Beyond(lines, PersistedHead) \subseteq 1..produced
  <2> SUFFICES ASSUME NEW j \in (PersistedHead + 1)..Len(lines) PROVE lines[j] \in 1..produced
    BY DEF Beyond
  <2>1. j \in 1..Len(lines)
    BY <1>2
  <2>2. lines[j] \in Frame /\ lines[j] <= produced
    BY <1>1, <2>1 DEF Bounded
  <2> QED
    BY <1>1, <2>2, SpoolAssumption DEF Frame
<1> QED
  BY <1>3, <1>4, <1>5, <1>6 DEF BacklogOK

\* The same as one formula, to be primed below.
LEMMA BacklogAlways == TInv /\ KInv => BacklogOK
BY BacklogFacts

\* The same after a step.
LEMMA BacklogNext == TInv' /\ KInv' => BacklogOK'
BY BacklogAlways, PTL

\* The frames of S leave the old end of the backlog, never all of it.
Drops(S) ==
  /\ S \in SUBSET Backlog /\ Queue!OldestOf(S, Backlog) /\ S # Backlog
  /\ Backlog' = Backlog \ S /\ dropped' = dropped \cup S

\* An eviction drops the oldest frames, never the newest.
LEMMA EvictDrops ==
  ASSUME TInv, KInv, Evict
  PROVE  \E q, k : Evicts(q, k) /\ Drops(ToSet(SubSeq(q, 1, k)))
<1>1. PICK q, k : Evicts(q, k)
  BY EvictStep
<1>2. /\ q \in Seq(Frame) /\ k \in 0..(Len(q) - 1) /\ Len(q) = Len(Live) + 1
      /\ q = Append(Live, arg) /\ Live' = SubSeq(q, k + 1, Len(q))
      /\ dropped' = dropped \cup ToSet(SubSeq(q, 1, k)) /\ pc' \in {"idle", "persist"}
  BY <1>1 DEF Evicts
<1>3. pc = "evict" /\ arg \in Frame /\ \A i \in 1..Len(entries) : entries[i] < arg
  BY DEF Evict, TInv, ControlOK, KInv, ArgOK
<1>4. Live \in Seq(Frame) /\ Len(Live) \in Nat /\ Increasing(Live)
  <2>1. entries \in Seq(Frame) /\ head \in 0..Len(entries)
    BY DEF TInv, MemoryOK
  <2> QED
    BY <2>1, LiveFacts, SuffixSorted DEF TInv, KInv, CopyOK, Live
<1>5. \A i \in 1..Len(Live) : Live[i] < arg
  <2>1. Len(Live) = Len(entries) - head /\ \A i \in 1..(Len(entries) - head) : Live[i] = entries[head + i]
    BY LiveFacts DEF TInv
  <2>2. head \in Nat /\ Len(entries) \in Nat
    BY DEF TInv, MemoryOK
  <2> QED
    BY <1>3, <2>1, <2>2
<1>0. Len(q) = Len(Live) + 1 /\ Len(q) \in Nat /\ k \in Nat /\ q \in Seq(Frame)
  BY <1>2, <1>4
<1>6. /\ q[Len(q)] = arg /\ \A i \in 1..Len(Live) : q[i] = Live[i]
      /\ \A i \in 1..Len(q) : q[i] \in Nat
  <2>1. \A i \in 1..Len(q) : q[i] \in Frame
    BY <1>0
  <2>2. \A i \in 1..Len(q) : q[i] \in Nat
    BY <2>1, SpoolAssumption DEF Frame
  <2>3. q[Len(Live) + 1] = arg /\ \A i \in 1..Len(Live) : q[i] = Live[i]
    BY <1>2, <1>3, <1>4
  <2> QED
    BY <1>0, <2>2, <2>3
<1>7. \A i, j \in 1..Len(q) : i < j => q[i] < q[j]
  <2> SUFFICES ASSUME NEW i \in 1..Len(q), NEW j \in 1..Len(q), i < j PROVE q[i] < q[j]
    OBVIOUS
  <2>1. i \in 1..Len(Live) /\ (j \in 1..Len(Live) \/ j = Len(q))
    BY <1>0, <1>4
  <2> QED
    BY <1>4, <1>5, <1>6, <2>1 DEF Increasing
<1>8. \A i, j \in 1..Len(q) : q[i] = q[j] => i = j
  BY <1>2, <1>6, <1>7
<1> DEFINE S == ToSet(SubSeq(q, 1, k))
<1>9. /\ SubSeq(q, 1, k) \in Seq(Frame) /\ Len(SubSeq(q, 1, k)) = k
      /\ \A i \in 1..k : SubSeq(q, 1, k)[i] = q[i]
  <2>1. k \in 0..Len(q)
    BY <1>2
  <2> QED
    BY <1>2, <2>1, PrefixFacts
<1>10. \A x : x \in S <=> \E i \in 1..k : x = q[i]
  <2>1. DOMAIN SubSeq(q, 1, k) = 1..k
    BY <1>9
  <2> QED
    BY <1>9, <2>1 DEF ToSet
<1>11. \A x : x \in Backlog <=> \E i \in 1..Len(q) : x = q[i]
  <2>1. Backlog = ToSet(Live) \cup {arg}
    BY <1>3 DEF Backlog
  <2>2. \A x : x \in ToSet(Live) <=> \E i \in 1..Len(Live) : x = Live[i]
    BY <1>4 DEF ToSet
  <2>3. \A i \in 1..Len(q) : i \in 1..Len(Live) \/ i = Len(q)
    BY <1>2, <1>4
  <2>4. \A i \in 1..Len(Live) : i \in 1..Len(q)
    BY <1>2, <1>4
  <2>5. Len(q) \in 1..Len(q)
    BY <1>2, <1>4
  <2> QED
    BY <1>6, <2>1, <2>2, <2>3, <2>4, <2>5
<1>12. \A x : x \in Backlog' <=> \E i \in (k + 1)..Len(q) : x = q[i]
  <2>1. Backlog' = ToSet(Live')
    BY <1>2 DEF Backlog
  <2>2. ToSet(SubSeq(q, k + 1, Len(q))) = Beyond(q, k)
    BY <1>0, BeyondFacts
  <2> QED
    BY <1>2, <2>1, <2>2 DEF Beyond
<1> HIDE DEF S
<1>13. \A i \in 1..k : i \in 1..Len(q)
  BY <1>2
<1>14. S \subseteq Backlog
  BY <1>10, <1>11, <1>13
<1>15. Queue!OldestOf(S, Backlog)
  <2>1. ASSUME NEW f \in S, NEW g \in Backlog \ S PROVE f < g
    <3>1. PICK i \in 1..k : f = q[i]
      BY <1>10
    <3>2. PICK j \in 1..Len(q) : g = q[j]
      BY <1>11
    <3>3. j \notin 1..k
      BY <1>10, <3>2
    <3>4. i < j
      BY <1>2, <3>3
    <3> QED
      BY <1>7, <1>13, <3>1, <3>2, <3>4
  <2> QED
    BY <1>14, <2>1 DEF Queue!OldestOf
<1>16. S # Backlog
  <2>1. q[Len(q)] \in Backlog
    <3>1. Len(q) \in 1..Len(q)
      BY <1>2, <1>4
    <3> QED
      BY <1>11, <3>1
  <2>2. q[Len(q)] \notin S
    <3> SUFFICES ASSUME NEW i \in 1..k, q[Len(q)] = q[i] PROVE FALSE
      BY <1>10
    <3>1. i \in 1..Len(q) /\ Len(q) \in 1..Len(q) /\ i # Len(q)
      BY <1>2, <1>4
    <3> QED
      BY <1>8, <3>1
  <2> QED
    BY <2>1, <2>2
<1>17. Backlog' = Backlog \ S
  <2>1. ASSUME NEW x \in Backlog' PROVE x \in Backlog \ S
    <3>1. PICK i \in (k + 1)..Len(q) : x = q[i]
      BY <1>12
    <3>2. i \in 1..Len(q) /\ i \notin 1..k
      BY <1>2
    <3> QED
      BY <1>8, <1>10, <1>11, <1>13, <3>1, <3>2
  <2>2. ASSUME NEW x \in Backlog \ S PROVE x \in Backlog'
    <3>1. PICK i \in 1..Len(q) : x = q[i]
      BY <1>11
    <3>2. i \notin 1..k
      BY <1>10, <3>1
    <3>3. i \in (k + 1)..Len(q)
      BY <1>2, <3>2
    <3> QED
      BY <1>12, <3>1, <3>3
  <2> QED
    BY <2>1, <2>2
<1>18. dropped' = dropped \cup S
  BY <1>2 DEF S
<1> QED
  BY <1>1, <1>14, <1>15, <1>16, <1>17, <1>18 DEF S, Drops

\* A commit releases the oldest frames, among others that are not live.
LEMMA CommitReleases ==
  ASSUME TInv, KInv, NEW h \in handed, CommitThrough(h[1])
  PROVE  \E S \in SUBSET (1..produced) :
           /\ Queue!OldestOf(S \cap Backlog, Backlog)
           /\ Backlog' = Backlog \ S /\ released' = released \cup S
<1>1. PICK n : Commits(h[1], n)
  BY CommitStep
<1>2. Live \in Seq(Frame) /\ Len(Live) \in Nat /\ origin \in Nat /\ Increasing(Live)
      /\ Window(handed, origin, Live) /\ Behind(handed, origin, Live)
  <2>1. entries \in Seq(Frame) /\ head \in 0..Len(entries)
    BY DEF TInv, MemoryOK
  <2> QED
    BY <2>1, LiveFacts, SuffixSorted DEF TInv, MemoryOK, WindowOK, KInv, CopyOK, HandOK, Live
<1>3. /\ h[1] \in Nat /\ n \in 0..Len(Live) /\ Live' = SubSeq(Live, n + 1, Len(Live))
      /\ pc' \in {"idle", "rename", "mark"} /\ n = CommitCount(h[1])
  BY <1>1 DEF Commits
<1>4. \A i \in 1..Len(Live) : Live[i] \in Nat
  BY <1>2, SpoolAssumption DEF Frame
<1>5. \A i, j \in 1..Len(Live) : Live[i] = Live[j] => i = j
  BY <1>2, <1>4 DEF Increasing
<1> DEFINE G == {g \in handed : g[1] <= h[1]}
           S == {g[2] : g \in G}
<1>6. released' = released \cup S /\ pc = "idle"
  BY DEF CommitThrough
<1>7. S \in SUBSET (1..produced)
  <2>1. \A g \in handed : g[2] \in Frame /\ g[2] <= produced
    BY DEF TInv, ControlOK, KInv, HandOK
  <2>2. produced \in Nat
    BY DEF TInv, HistoryOK
  <2>3. \A g \in handed : g[2] \in 1..produced
    BY <2>1, <2>2, SpoolAssumption DEF Frame
  <2> QED
    BY <2>3
<1>8. h[1] < origin + Len(Live)
  BY <1>2 DEF Window
<1>9. (h[1] >= origin => n = (h[1] - origin) + 1) /\ (h[1] < origin => n = 0)
  <2>1. (h[1] < origin => n = 0)
        /\ (h[1] >= origin /\ (h[1] - origin) + 1 <= Len(Live) => n = (h[1] - origin) + 1)
    BY <1>2, <1>3, CommitFacts
  <2> QED
    BY <1>2, <1>3, <1>8, <2>1
<1>10. ASSUME NEW i \in 1..Len(Live) PROVE Live[i] \in S <=> i <= n
  <2>1. ASSUME i <= n PROVE Live[i] \in S
    <3>1. PICK p \in origin..h[1] : (p - origin) + 1 = i
      <4>1. (origin + i) - 1 \in origin..h[1] /\ (((origin + i) - 1) - origin) + 1 = i
        BY <1>2, <1>3, <1>9, <2>1
      <4> QED
        BY <4>1
    <3>2. <<p, Live[i]>> \in handed
      BY <1>2, <3>1 DEF Window
    <3>3. p <= h[1]
      BY <1>2, <1>3
    <3>4. <<p, Live[i]>> \in G /\ <<p, Live[i]>>[2] = Live[i]
      BY <3>2, <3>3
    <3> QED
      BY <3>4
  <2>2. ASSUME Live[i] \in S PROVE i <= n
    <3>1. PICK g \in handed : g[1] <= h[1] /\ g[2] = Live[i]
      BY <2>2
    <3>2. g[1] \in Nat /\ g[1] < origin + Len(Live)
      BY <1>2 DEF TInv, ControlOK, Window
    <3>3. g[1] >= origin
      <4> SUFFICES ASSUME g[1] < origin PROVE FALSE
        BY <1>2, <3>2
      <4>1. g[1] < origin + (i - 1)
        BY <1>2, <3>2
      <4>2. g[2] < Live[i]
        BY <1>2, <4>1 DEF Behind
      <4> QED
        BY <1>4, <3>1, <4>2
    <3>4. g[2] = Live[(g[1] - origin) + 1] /\ (g[1] - origin) + 1 \in 1..Len(Live)
      BY <1>2, <3>2, <3>3 DEF Window
    <3>5. i = (g[1] - origin) + 1
      BY <1>5, <3>1, <3>4
    <3> QED
      BY <1>2, <1>3, <1>9, <3>1, <3>2, <3>3, <3>5, SMTT(60)
  <2> QED
    BY <2>1, <2>2
<1> HIDE DEF S, G
<1>11. \A x : x \in Backlog <=> \E i \in 1..Len(Live) : x = Live[i]
  <2>1. Backlog = ToSet(Live)
    BY <1>6 DEF Backlog
  <2> QED
    BY <1>2, <2>1 DEF ToSet
<1>12. \A x : x \in Backlog' <=> \E i \in (n + 1)..Len(Live) : x = Live[i]
  <2>1. Backlog' = ToSet(Live')
    BY <1>3 DEF Backlog
  <2>2. ToSet(SubSeq(Live, n + 1, Len(Live))) = Beyond(Live, n)
    BY <1>2, <1>3, BeyondFacts
  <2> QED
    BY <1>3, <2>1, <2>2 DEF Beyond
<1>13. Queue!OldestOf(S \cap Backlog, Backlog)
  <2>1. ASSUME NEW f \in S \cap Backlog, NEW g \in Backlog \ (S \cap Backlog) PROVE f < g
    <3>1. PICK i \in 1..Len(Live) : f = Live[i]
      BY <1>11
    <3>2. PICK j \in 1..Len(Live) : g = Live[j]
      BY <1>11
    <3>3. i <= n /\ ~ (j <= n)
      BY <1>10, <3>1, <3>2
    <3>4. i < j
      BY <1>3, <3>3
    <3> QED
      BY <1>2, <3>1, <3>2, <3>4 DEF Increasing
  <2> QED
    BY <2>1 DEF Queue!OldestOf
<1>14. Backlog' = Backlog \ S
  <2>1. ASSUME NEW x \in Backlog' PROVE x \in Backlog \ S
    <3>1. PICK i \in (n + 1)..Len(Live) : x = Live[i]
      BY <1>12
    <3>2. i \in 1..Len(Live) /\ ~ (i <= n)
      BY <1>3
    <3> QED
      BY <1>10, <1>11, <3>1, <3>2
  <2>2. ASSUME NEW x \in Backlog \ S PROVE x \in Backlog'
    <3>1. PICK i \in 1..Len(Live) : x = Live[i]
      BY <1>11
    <3>2. ~ (i <= n)
      BY <1>10, <3>1
    <3>3. i \in (n + 1)..Len(Live)
      BY <1>3, <3>2
    <3> QED
      BY <1>12, <3>1, <3>3
  <2> QED
    BY <2>1, <2>2
<1> QED
  BY <1>6, <1>7, <1>13, <1>14

\* The steps of the abstract queue, on the backlog.
LEMMA QueueSteps ==
  /\ Queue!Put <=>
       \E S \in SUBSET Backlog :
         /\ Queue!OldestOf(S, Backlog) /\ produced < MaxFrame /\ produced' = produced + 1
         /\ Backlog' = (Backlog \ S) \cup {produced + 1}
         /\ dropped' = dropped \cup S /\ UNCHANGED released
  /\ Queue!Refuse <=>
       /\ produced < MaxFrame /\ produced' = produced + 1
       /\ Backlog' = Backlog /\ UNCHANGED <<released, dropped>>
  /\ Queue!Drop <=>
       \E S \in SUBSET Backlog :
         /\ Queue!OldestOf(S, Backlog) /\ S # Backlog
         /\ Backlog' = Backlog \ S
         /\ dropped' = dropped \cup S /\ UNCHANGED <<produced, released>>
  /\ Queue!Release <=>
       \E S \in SUBSET (1..produced) :
         /\ Queue!OldestOf(S \cap Backlog, Backlog)
         /\ Backlog' = Backlog \ S
         /\ released' = released \cup S /\ UNCHANGED <<produced, dropped>>
  /\ Queue!Reopen <=>
       /\ produced' \in {produced, produced + 1} /\ produced' <= MaxFrame
       /\ \E back \in SUBSET (1..produced') : Backlog' = Backlog \cup back
       /\ UNCHANGED <<released, dropped>>
  /\ UNCHANGED Queue!qvars <=> Backlog' = Backlog /\ UNCHANGED <<produced, released, dropped>>
BY DEF Queue!Put, Queue!Refuse, Queue!Drop, Queue!Release, Queue!Reopen, Queue!qvars, Backlog

\* Opening the spool finds the backlog that was left.
LEMMA OpenKeepsBacklog ==
  ASSUME TInv, KInv, Open
  PROVE  Backlog' = Backlog
<1>1. PICK d, h : Opens(d, h)
  BY OpenStep
<1>2. pc = "down" /\ lines \in Seq(Frame) /\ PersistedHead <= Len(lines)
  BY DEF Open, KInv, FileOK
<1>3. d = lines
  BY <1>1, <1>2, WholeFile DEF Opens
<1>4. h = PersistedHead /\ Live' = SubSeq(lines, h + 1, Len(lines)) /\ pc' \in {"rename", "idle"}
  BY <1>1, <1>2, <1>3 DEF Opens
<1>5. Recoverable = ToSet(SubSeq(lines, h + 1, Len(lines)))
  BY <1>2, <1>4, WholeFile DEF Recoverable
<1>6. Backlog = Recoverable /\ Backlog' = ToSet(Live')
  BY <1>2, <1>4 DEF Backlog
<1> QED
  BY <1>4, <1>5, <1>6

\* An append puts its frame behind the backlog, or refuses it.
LEMMA AppendPuts ==
  ASSUME TInv, TInv', Appending
  PROVE  Queue!Put \/ Queue!Refuse
<1>1. /\ pc = "idle" /\ produced' = produced + 1 /\ produced' \in Frame /\ arg' = produced'
      /\ Live' = Live /\ pc' \in {"idle", "evict"} /\ UNCHANGED <<released, dropped>>
  BY DEF Appending, Live
<1>2. produced < MaxFrame
  <2>1. produced \in Nat /\ MaxFrame \in Nat
    BY SpoolAssumption DEF TInv, HistoryOK
  <2> QED
    BY <1>1, <2>1 DEF Frame
<1>3. Backlog = ToSet(Live)
  BY <1>1 DEF Backlog
<1>4. CASE pc' = "evict"
  <2>1. Backlog' = (Backlog \ {}) \cup {produced + 1}
    BY <1>1, <1>3, <1>4 DEF Backlog
  <2>2. Queue!OldestOf({}, Backlog) /\ dropped' = dropped \cup {} /\ {} \in SUBSET Backlog
    BY <1>1 DEF Queue!OldestOf
  <2> QED
    BY <1>1, <1>2, <2>1, <2>2, QueueSteps
<1>5. CASE pc' = "idle"
  <2>1. Backlog' = Backlog
    BY <1>1, <1>3, <1>5 DEF Backlog
  <2> QED
    BY <1>1, <1>2, <2>1, QueueSteps
<1> QED
  BY <1>1, <1>4, <1>5

\* A process that dies leaves its whole backlog in the files.
LEMMA DyingReopens ==
  ASSUME TInv, TInv', KInv, KInv', Dying
  PROVE  Queue!Reopen
<1>1. BacklogOK /\ BacklogOK'
  BY BacklogFacts, BacklogNext
<1>2. pc \notin {"down", "unlink"} /\ pc' = "down" /\ lines' = lines /\ UNCHANGED <<released, dropped>>
  BY DEF Dying
<1>3. Backlog \subseteq Beyond(lines, PersistedHead)
  BY <1>1, <1>2 DEF BacklogOK
<1>4. Backlog' = Beyond(lines, PersistedHead') /\ Backlog' \subseteq 1..produced'
  <2>1. Backlog' = Recoverable'
    BY <1>2 DEF Backlog
  <2>2. Recoverable' = Beyond(lines', PersistedHead') /\ Recoverable' \subseteq 1..produced'
    BY <1>1 DEF BacklogOK, Beyond
  <2> QED
    BY <1>2, <2>1, <2>2
<1>5. PersistedHead' = PersistedHead \/ PersistedHead' = 0
  BY DEF Dying, PersistedHead, NoMarker
<1>6. lines \in Seq(Frame) /\ PersistedHead \in Nat
  BY DecodedFacts DEF TInv, KInv, FileOK
<1>7. Beyond(lines, PersistedHead) \subseteq Beyond(lines, PersistedHead')
  BY <1>5, <1>6, BeyondMore
<1>8. Backlog' \in SUBSET (1..produced') /\ Backlog' = Backlog \cup Backlog'
  BY <1>3, <1>4, <1>7
<1>9. produced' \in {produced, produced + 1} /\ produced' <= MaxFrame
  BY SpoolAssumption DEF Dying, TInv, HistoryOK
<1> QED
  BY <1>2, <1>8, <1>9, QueueSteps

\* The steps on memory or queue.head alone: a commit releases, an Open that
\* fails reopens, and the others leave the backlog as it is.
LEMMA StillQueue ==
  ASSUME TInv, TInv', KInv, KInv', Still
  PROVE  Queue!QNext \/ UNCHANGED Queue!qvars
<1>1. CASE \E h \in handed : CommitThrough(h[1])
  <2>1. PICK h \in handed : CommitThrough(h[1])
    BY <1>1
  <2>2. PICK S \in SUBSET (1..produced) :
          /\ Queue!OldestOf(S \cap Backlog, Backlog)
          /\ Backlog' = Backlog \ S /\ released' = released \cup S
    BY <2>1, CommitReleases
  <2>3. UNCHANGED <<produced, dropped>>
    BY <2>1 DEF CommitThrough
  <2>4. Queue!Release
    BY <2>2, <2>3, QueueSteps
  <2> QED
    BY <2>4 DEF Queue!QNext
<1>2. CASE RecordDestroyed \/ PersistEvictions \/ CompactUnlink \/ WriteHeadMarker \/ PeekAt \/ Disconnect
  <2>1. Live' = Live /\ UNCHANGED <<produced, released, dropped>>
    BY <1>2 DEF RecordDestroyed, PersistEvictions, CompactUnlink, WriteHeadMarker, PeekAt,
                Disconnect, memory, history, Live
  <2>2. pc \in {"idle", "persist", "unlink", "mark"} /\ pc' \in {"idle", "persist", "rename"}
    BY <1>2 DEF RecordDestroyed, PersistEvictions, CompactUnlink, WriteHeadMarker, PeekAt,
                Disconnect
  <2>3. Backlog' = Backlog
    BY <2>1, <2>2 DEF Backlog
  <2> QED
    BY <2>1, <2>3, QueueSteps
<1>3. CASE CompactFails \/ WriteHeadMarkerFails
  <2>1. UNCHANGED <<entries, head, lines, marker, produced, released, dropped>>
    BY <1>3 DEF CompactFails, WriteHeadMarkerFails, memory, disk
  <2>2. pc \in {"rename", "mark"} /\ pc' \in {"down", "idle"}
    BY <1>3 DEF CompactFails, WriteHeadMarkerFails, ReturnError
  <2>3. Live' = Live /\ Recoverable' = Recoverable
    BY <2>1 DEF Live, Recoverable, PersistedHead
  <2>4. CASE pc' = "idle"
    <3>1. Backlog' = Backlog
      BY <2>2, <2>3, <2>4 DEF Backlog
    <3> QED
      BY <2>1, <3>1, QueueSteps
  <2>5. CASE pc' = "down"
    <3>1. BacklogOK
      BY BacklogFacts
    <3>2. Backlog \subseteq Recoverable /\ Recoverable \subseteq 1..produced
      BY <2>2, <3>1 DEF BacklogOK
    <3>3. Backlog' = Backlog \cup Recoverable
      BY <2>3, <2>5, <3>2 DEF Backlog
    <3>4. Recoverable \in SUBSET (1..produced')
      BY <2>1, <3>2
    <3>5. produced' \in {produced, produced + 1} /\ produced' <= MaxFrame
      BY <2>1, SpoolAssumption DEF TInv, HistoryOK
    <3>6. Queue!Reopen
      BY <2>1, <3>3, <3>4, <3>5, QueueSteps
    <3> QED
      BY <3>6 DEF Queue!QNext
  <2> QED
    BY <2>2, <2>4, <2>5
<1>4. CASE UNCHANGED vars
  <2>1. UNCHANGED <<entries, head, lines, marker, pc, arg, produced, released, dropped>>
    BY <1>4 DEF vars, memory, disk, control, history
  <2>2. Live' = Live /\ Recoverable' = Recoverable
    BY <2>1 DEF Live, Recoverable, PersistedHead
  <2>3. Backlog' = Backlog
    BY <2>1, <2>2 DEF Backlog
  <2> QED
    BY <2>1, <2>3, QueueSteps
<1> QED
  BY <1>1, <1>2, <1>3, <1>4 DEF Still

\* Every step of the spool is a step of the queue, or leaves it alone.
LEMMA QueueStep ==
  ASSUME TidyDisk, TInv, TInv', KInv, KInv', [Next]_vars
  PROVE  [Queue!QNext]_(Queue!qvars)
<1>1. CASE Open
  <2>1. Backlog' = Backlog /\ UNCHANGED <<produced, released, dropped>>
    BY <1>1, OpenKeepsBacklog DEF Open, history
  <2> QED
    BY <2>1, QueueSteps
<1>2. CASE Appending
  BY <1>2, AppendPuts DEF Queue!QNext
<1>3. CASE Evict
  <2>1. PICK S : Drops(S)
    BY <1>3, EvictDrops
  <2>2. UNCHANGED <<produced, released>>
    BY <1>3 DEF Evict
  <2>3. Queue!Drop
    BY <2>1, <2>2, QueueSteps DEF Drops
  <2> QED
    BY <2>3 DEF Queue!QNext
<1>4. CASE CompactRename
  <2>1. pc = "rename" /\ pc' = "unlink" /\ UNCHANGED <<produced, released, dropped>>
    BY <1>4 DEF CompactRename, history
  <2>2. Live' = Live
    BY <1>4, RenameStep
  <2>3. Backlog' = Backlog
    BY <2>1, <2>2 DEF Backlog
  <2> QED
    BY <2>1, <2>3, QueueSteps
<1>5. CASE Dying
  BY <1>5, DyingReopens DEF Queue!QNext
<1>6. CASE Still
  BY <1>6, StillQueue
<1> QED
  BY <1>1, <1>2, <1>3, <1>4, <1>5, <1>6, TidyCases

\* Where no write is cut short and no crash separates the two steps of a
\* compaction, KInv holds of every reachable state.
THEOREM FilesKept ==
  ASSUME TidyDisk
  PROVE  Spec => [](TInv /\ KInv)
<1>1. Init => TInv /\ KInv
  BY TInvInit, KInvInit
<1>2. (TInv /\ KInv) /\ [Next]_vars => (TInv /\ KInv)'
  <2> SUFFICES ASSUME TInv, KInv, [Next]_vars PROVE TInv' /\ KInv'
    OBVIOUS
  <2>1. TInv'
    BY TInvStep
  <2> QED
    BY <2>1, KInvStep
<1> QED
  BY <1>1, <1>2, PTL DEF Spec

\* On a tidy disk the files of the spool, with the steps of their updates and
\* the restarts between them, implement the queue of SpoolQueue: appends that
\* fail, failed compactions, a lost queue.head and a torn last line included.
THEOREM ImplementsTheQueue ==
  ASSUME TidyDisk
  PROVE  Spec => ImplementsQueue
<1>1. Init => Queue!QInit
  <2> SUFFICES ASSUME Init PROVE Queue!QInit
    OBVIOUS
  <2>1. produced = 0 /\ released = {} /\ dropped = {} /\ pc = "down" /\ lines = <<>>
    BY DEF Init
  <2>2. BacklogOK
    BY TInvInit, KInvInit, BacklogFacts
  <2>3. Recoverable = {}
    BY <2>1, <2>2 DEF BacklogOK
  <2>4. Backlog = {}
    BY <2>1, <2>3 DEF Backlog
  <2> QED
    BY <2>1, <2>4 DEF Queue!QInit, Backlog
<1>2. (TInv /\ KInv) /\ (TInv /\ KInv)' /\ [Next]_vars => [Queue!QNext]_(Queue!qvars)
  BY QueueStep
<1> QED
  BY <1>1, <1>2, FilesKept, PTL DEF Spec, ImplementsQueue, Queue!QSpec

\* What has been lost of the backlog was released or dropped.
LEMMA QueueKeeps ==
  ASSUME [Queue!QNext]_(Queue!qvars)
  PROVE  Backlog \cup released \cup dropped \subseteq Backlog' \cup released' \cup dropped'
<1>1. CASE Queue!Put
  BY <1>1, QueueSteps
<1>2. CASE Queue!Refuse
  BY <1>2, QueueSteps
<1>3. CASE Queue!Drop
  BY <1>3, QueueSteps
<1>4. CASE Queue!Release
  BY <1>4, QueueSteps
<1>5. CASE Queue!Reopen
  BY <1>5, QueueSteps
<1>6. CASE UNCHANGED Queue!qvars
  BY <1>6, QueueSteps
<1> QED
  BY <1>1, <1>2, <1>3, <1>4, <1>5, <1>6 DEF Queue!QNext

\* Every frame Enqueue took is in the backlog, released or dropped.
InSight == accepted \subseteq Backlog \cup released \cup dropped

\* No step takes an accepted frame out of sight.
LEMMA InSightStep ==
  ASSUME TidyDisk, TInv, TInv', KInv, KInv', InSight, [Next]_vars
  PROVE  InSight'
<1>1. Backlog \cup released \cup dropped \subseteq Backlog' \cup released' \cup dropped'
  BY QueueStep, QueueKeeps
<1>2. CASE Open \/ Evict \/ CompactRename \/ Dying
  <2>1. accepted' = accepted
    BY <1>2 DEF Open, Evict, CompactRename, Dying, history
  <2> QED
    BY <1>1, <2>1 DEF InSight
<1>3. CASE Still
  <2>1. accepted' = accepted
    BY <1>3, StillFacts
  <2> QED
    BY <1>1, <2>1 DEF InSight
<1>4. CASE Appending
  <2>1. \/ accepted' = accepted
        \/ accepted' = accepted \cup {produced'} /\ pc' = "evict" /\ arg' = produced'
    BY <1>4 DEF Appending
  <2>2. pc' = "evict" => arg' \in Backlog'
    BY DEF Backlog
  <2> QED
    BY <1>1, <2>1, <2>2 DEF InSight
<1> QED
  BY <1>2, <1>3, <1>4, TidyCases

\* On a tidy disk no accepted frame is ever lost: between two operations, it is
\* in the live backlog unless the drain named it or the cap destroyed it, after
\* any number of crashes, failed writes and compactions.
THEOREM NeverLost ==
  ASSUME TidyDisk
  PROVE  Spec => []NothingLost
<1>1. Init => InSight
  BY DEF Init, InSight
<1>2. (TInv /\ KInv) /\ (TInv /\ KInv)' /\ InSight /\ [Next]_vars => InSight'
  BY InSightStep
<1>3. InSight => NothingLost
  <2> SUFFICES ASSUME InSight, pc = "idle" PROVE accepted \ (released \cup dropped) \subseteq ToSet(Live)
    BY DEF NothingLost
  <2> QED
    BY DEF InSight, Backlog
<1> QED
  BY <1>1, <1>2, <1>3, FilesKept, PTL DEF Spec

\* The action property of the abstract queue, for the files: no step on a tidy
\* disk takes a frame from the backlog, memory or files, unless it is released
\* or dropped.
THEOREM NeverSilent ==
  ASSUME TidyDisk
  PROVE  Spec => Queue!NoSilentLoss
<1>1. (TInv /\ KInv) /\ (TInv /\ KInv)' /\ [Next]_vars
        => Backlog \subseteq Backlog' \cup released' \cup dropped'
  BY QueueStep, QueueKeeps
<1>2. (TInv /\ KInv) /\ (TInv /\ KInv)' /\ [Next]_vars
        => [Backlog \subseteq Backlog' \cup released' \cup dropped']_(Queue!qvars)
  BY <1>1
<1> QED
  BY <1>2, FilesKept, PTL DEF Spec, Queue!NoSilentLoss, Backlog

-----------------------------------------------------------------------------
(* The eviction record.                                                    *)

\* The record e counts the frames of S and its window holds them.
Covers(e, S) == Cardinality(S) <= e.frames /\ \A f \in S : e.oldest <= f /\ f <= e.newest

\* Zero is the time of no observation, so a record of one has another.
Dated(e) == e.frames # 0 => e.oldest # 0

\* Frames are numbers.
LEMMA FrameNumbers == Frame \subseteq Nat
<1>1. MaxFrame \in Nat
  BY SpoolAssumption
<1> QED
  BY <1>1 DEF Frame

\* A set of frames is finite.
LEMMA FramesFinite ==
  ASSUME NEW S \in SUBSET Frame
  PROVE  IsFiniteSet(S) /\ Cardinality(S) \in Nat
<1>1. IsFiniteSet(Frame)
  BY SpoolAssumption, FS_Interval DEF Frame
<1>2. IsFiniteSet(S)
  BY <1>1, FS_Subset
<1> QED
  BY <1>2, FS_CardinalityType

\* A record of some frames covers fewer of them.
LEMMA CoversLess ==
  ASSUME NEW e \in Loss, NEW S \in SUBSET Frame, NEW T \in SUBSET S, Covers(e, S)
  PROVE  Covers(e, T)
<1>1. Cardinality(T) <= Cardinality(S)
  BY FramesFinite, FS_Subset
<1>2. Cardinality(T) \in Nat /\ Cardinality(S) \in Nat
  BY FramesFinite
<1>3. Cardinality(S) <= e.frames /\ e.frames \in Nat
  BY DEF Covers, Loss
<1>4. Cardinality(T) <= e.frames
  BY <1>1, <1>2, <1>3
<1> QED
  BY <1>4 DEF Covers

\* A sequence has at most as many different elements as its length.
LEMMA FewElements ==
  ASSUME NEW s \in Seq(Frame)
  PROVE  ToSet(s) \in SUBSET Frame /\ Cardinality(ToSet(s)) <= Len(s)
<1>1. DOMAIN s = 1..Len(s) /\ Len(s) \in Nat /\ \A i \in 1..Len(s) : s[i] \in Frame
  OBVIOUS
<1>2. ToSet(s) \in SUBSET Frame
  BY <1>1 DEF ToSet
<1>3. s \in [1..Len(s) -> ToSet(s)] /\ \A x \in ToSet(s) : \E i \in 1..Len(s) : s[i] = x
  BY <1>1 DEF ToSet
<1>4. s \in Surjection(1..Len(s), ToSet(s))
  BY <1>3 DEF Surjection
<1>5. ExistsSurjection(1..Len(s), ToSet(s))
  BY <1>4 DEF ExistsSurjection
<1> QED
  BY <1>1, <1>2, <1>5, FS_SurjCardinalityBound

\* A widened record covers what it covered before, and what it was widened by.
LEMMA CoversMore ==
  ASSUME NEW e \in Loss, Dated(e), NEW S \in SUBSET Frame, Covers(e, S), NEW s \in Seq(Frame)
  PROVE  Covers(Widen(e, s), S \cup ToSet(s)) /\ Dated(Widen(e, s))
<1> DEFINE w == Widen(e, s)
<1>1. /\ w \in Loss /\ w.frames = e.frames + Len(s) /\ w.newest >= e.newest
      /\ e.oldest # 0 => w.oldest <= e.oldest
      /\ s # <<>> \/ e.oldest # 0 => w.oldest # 0
      /\ \A i \in 1..Len(s) : w.oldest <= s[i] /\ s[i] <= w.newest
  BY WidenFacts
<1> HIDE DEF w
<1>2. /\ w.oldest \in Nat /\ w.newest \in Nat /\ e.frames \in Nat /\ e.oldest \in Nat
      /\ e.newest \in Nat /\ Len(s) \in Nat
  BY <1>1 DEF Loss
<1>3. ToSet(s) \in SUBSET Frame /\ Cardinality(ToSet(s)) <= Len(s)
  BY FewElements
<1>4. Cardinality(S \cup ToSet(s)) <= w.frames
  <2>1. /\ IsFiniteSet(S) /\ IsFiniteSet(ToSet(s))
        /\ Cardinality(S) \in Nat /\ Cardinality(ToSet(s)) \in Nat
        /\ Cardinality(S \cap ToSet(s)) \in Nat
    <3>1. S \cap ToSet(s) \in SUBSET Frame
      OBVIOUS
    <3> QED
      BY <1>3, <3>1, FramesFinite
  <2>2. Cardinality(S \cup ToSet(s))
          = Cardinality(S) + Cardinality(ToSet(s)) - Cardinality(S \cap ToSet(s))
    BY <2>1, FS_Union
  <2>3. Cardinality(S) <= e.frames
    BY DEF Covers
  <2> QED
    BY <1>1, <1>2, <1>3, <2>1, <2>2, <2>3
<1>5. ASSUME NEW f \in S PROVE w.oldest <= f /\ f <= w.newest
  <2>1. S # {} /\ Cardinality(S) # 0
    <3>1. S # {} /\ IsFiniteSet(S)
      BY <1>5, FramesFinite
    <3> QED
      BY <3>1, FS_EmptySet
  <2>2. Cardinality(S) \in Nat /\ Cardinality(S) <= e.frames
    BY FramesFinite DEF Covers
  <2>3. e.frames # 0
    BY <1>2, <2>1, <2>2
  <2>4. e.oldest <= f /\ f <= e.newest /\ e.oldest # 0 /\ f \in Nat
    <3>1. e.oldest <= f /\ f <= e.newest
      BY <1>5 DEF Covers
    <3>2. e.oldest # 0
      BY <2>3 DEF Dated
    <3>3. f \in Nat
      BY <1>5, FrameNumbers
    <3> QED
      BY <3>1, <3>2, <3>3
  <2> QED
    BY <1>1, <1>2, <2>4
<1>6. ASSUME NEW f \in ToSet(s) PROVE w.oldest <= f /\ f <= w.newest
  <2>1. PICK i \in 1..Len(s) : s[i] = f
    BY <1>6 DEF ToSet
  <2> QED
    BY <1>1, <2>1
<1>7. Dated(w)
  <2> SUFFICES ASSUME w.frames # 0, w.oldest = 0 PROVE FALSE
    BY DEF Dated
  <2>1. s = <<>> /\ e.oldest = 0
    BY <1>1
  <2>2. Len(s) = 0 /\ e.frames = 0
    BY <2>1 DEF Dated
  <2> QED
    BY <1>1, <1>2, <2>2
<1>8. Covers(w, S \cup ToSet(s))
  BY <1>4, <1>5, <1>6 DEF Covers
<1> QED
  BY <1>7, <1>8 DEF w

\* The record in memory covers what the cap destroyed for good.  The one on
\* disk is that record, or is about to be; until then, and while the process
\* is down, it covers what a restart would not bring back.
LossInv ==
  /\ Dated(evicted) /\ Dated(recordDisk)
  /\ pc \notin {"down", "persist"} => recordDisk = evicted
  /\ pc # "down" => Covers(evicted, dropped \ (ToSet(Live) \cup released))
  /\ pc \in {"down", "persist"} => Covers(recordDisk, dropped \ (Recoverable \cup released))

\* A step that loses nothing more and leaves the records alone.
LEMMA LossUnchanged ==
  ASSUME TInv, LossInv, UNCHANGED <<evicted, recordDisk>>,
         pc \notin {"down", "persist"}, pc' \notin {"down", "persist"},
         dropped' \ (ToSet(Live') \cup released') \subseteq dropped \ (ToSet(Live) \cup released)
  PROVE  LossInv'
<1>1. evicted \in Loss /\ dropped \in SUBSET Frame
  BY DEF TInv, MemoryOK, HistoryOK
<1>2. Covers(evicted, dropped \ (ToSet(Live) \cup released))
  BY DEF LossInv
<1>3. Covers(evicted, dropped' \ (ToSet(Live') \cup released'))
  BY <1>1, <1>2, CoversLess
<1>4. Covers(evicted', dropped' \ (ToSet(Live') \cup released'))
  BY <1>3
<1>5. Dated(evicted') /\ Dated(recordDisk') /\ recordDisk' = evicted'
  BY DEF LossInv
<1> QED
  BY <1>4, <1>5 DEF LossInv

\* The record on disk is enough for the process to start again from.
LEMMA RestartCovered ==
  ASSUME TInv, KInv, LossInv, pc # "unlink"
  PROVE  Covers(recordDisk, dropped \ (Recoverable \cup released))
<1>1. CASE pc \in {"down", "persist"}
  BY <1>1 DEF LossInv
<1>2. CASE pc \notin {"down", "persist"}
  <2>1. recordDisk = evicted /\ Covers(evicted, dropped \ (ToSet(Live) \cup released))
    BY <1>2 DEF LossInv
  <2>2. Backlog \subseteq Recoverable
    BY <1>2, BacklogFacts DEF BacklogOK
  <2>3. ToSet(Live) \subseteq Recoverable
    BY <1>2, <2>2 DEF Backlog
  <2>4. evicted \in Loss /\ dropped \in SUBSET Frame
    BY DEF TInv, MemoryOK, HistoryOK
  <2>5. dropped \ (Recoverable \cup released) \subseteq dropped \ (ToSet(Live) \cup released)
    BY <2>3
  <2> QED
    BY <2>1, <2>4, <2>5, CoversLess
<1> QED
  BY <1>1, <1>2

\* The eviction loop: what it drops is recorded in memory, and still in the
\* file until the record is on disk.
LEMMA EvictRecords ==
  ASSUME TInv, TInv', KInv, KInv', LossInv, Evict
  PROVE  LossInv'
<1>1. PICK q, k : Evicts(q, k) /\ Drops(ToSet(SubSeq(q, 1, k)))
  BY EvictDrops
<1> DEFINE out == SubSeq(q, 1, k)
<1>2. pc = "evict" /\ UNCHANGED <<recordDisk, released, lines, marker>>
  BY DEF Evict, disk
<1>3. /\ q \in Seq(Frame) /\ k \in 0..(Len(q) - 1) /\ evicted' = Widen(evicted, out)
      /\ pc' = IF k = 0 THEN "idle" ELSE "persist"
  BY <1>1 DEF Evicts
<1>4. out \in Seq(Frame) /\ Len(out) = k
  <2>1. k \in 0..Len(q)
    BY <1>3
  <2> QED
    BY <1>3, <2>1, PrefixFacts
<1>5. ToSet(out) \subseteq Backlog /\ Backlog' = Backlog \ ToSet(out) /\ dropped' = dropped \cup ToSet(out)
  BY <1>1 DEF Drops
<1> HIDE DEF out
<1>6. ToSet(Live) \subseteq Backlog /\ Backlog' = ToSet(Live')
  BY <1>2, <1>3 DEF Backlog
<1>7. evicted \in Loss /\ recordDisk \in Loss /\ dropped \in SUBSET Frame
  BY DEF TInv, MemoryOK, DiskOK, HistoryOK
<1>8. /\ recordDisk = evicted /\ Dated(evicted)
      /\ Covers(evicted, dropped \ (ToSet(Live) \cup released))
  BY <1>2 DEF LossInv
<1>9. dropped \ (ToSet(Live) \cup released) \in SUBSET Frame
  BY <1>7
<1>10. Covers(evicted', (dropped \ (ToSet(Live) \cup released)) \cup ToSet(out)) /\ Dated(evicted')
  BY <1>3, <1>4, <1>7, <1>8, <1>9, CoversMore
<1>11. Covers(evicted', dropped' \ (ToSet(Live') \cup released'))
  <2>1. evicted' \in Loss /\ ToSet(out) \in SUBSET Frame
    BY <1>3, <1>4, <1>7, WidenFacts, FewElements
  <2>2. (dropped \ (ToSet(Live) \cup released)) \cup ToSet(out) \in SUBSET Frame
    BY <1>9, <2>1
  <2>3. dropped' \ (ToSet(Live') \cup released')
          \in SUBSET ((dropped \ (ToSet(Live) \cup released)) \cup ToSet(out))
    BY <1>2, <1>5, <1>6
  <2> QED
    BY <1>10, <2>1, <2>2, <2>3, CoversLess
<1>12. Covers(recordDisk', dropped' \ (Recoverable' \cup released'))
  <2>1. Recoverable' = Recoverable
    BY <1>2 DEF Recoverable, PersistedHead
  <2>2. Backlog \subseteq Recoverable
    BY <1>2, BacklogFacts DEF BacklogOK
  <2>3. dropped' \ (Recoverable' \cup released') \in SUBSET (dropped \ (ToSet(Live) \cup released))
    BY <1>2, <1>5, <1>6, <2>1, <2>2
  <2>4. Covers(evicted, dropped' \ (Recoverable' \cup released'))
    BY <1>7, <1>8, <1>9, <2>3, CoversLess
  <2> QED
    BY <1>2, <1>8, <2>4
<1>13. k = 0 => recordDisk' = evicted'
  <2> SUFFICES ASSUME k = 0 PROVE recordDisk' = evicted'
    OBVIOUS
  <2>1. out = <<>>
    BY <1>4
  <2> QED
    BY <1>2, <1>3, <1>8, <2>1 DEF Widen
<1>14. Dated(recordDisk')
  BY <1>2, <1>8
<1> QED
  BY <1>3, <1>10, <1>11, <1>12, <1>13, <1>14 DEF LossInv

\* RecordDestroyed widens the record further, over a frame Enqueue refused.
LEMMA DestroyedRecords ==
  ASSUME TInv, KInv, LossInv, RecordDestroyed
  PROVE  LossInv'
<1>1. /\ pc = "idle" /\ pc' = "persist" /\ failed # NoFrame /\ evicted' = Widen(evicted, <<failed>>)
      /\ UNCHANGED <<entries, head, lines, marker, recordDisk, released, dropped>>
  BY DEF RecordDestroyed, disk, history
<1>2. Live' = Live /\ Recoverable' = Recoverable
  BY <1>1 DEF Live, Recoverable, PersistedHead
<1>3. evicted \in Loss /\ dropped \in SUBSET Frame /\ failed \in Frame
  BY <1>1 DEF TInv, MemoryOK, HistoryOK, ControlOK
<1>4. /\ Dated(evicted) /\ Dated(recordDisk) /\ recordDisk = evicted
      /\ Covers(evicted, dropped \ (ToSet(Live) \cup released))
  BY <1>1 DEF LossInv
<1>5. <<failed>> \in Seq(Frame)
  BY <1>3
<1>6. dropped \ (ToSet(Live) \cup released) \in SUBSET Frame
  BY <1>3
<1>7. /\ Covers(evicted', (dropped \ (ToSet(Live) \cup released)) \cup ToSet(<<failed>>))
      /\ Dated(evicted')
  BY <1>1, <1>3, <1>4, <1>5, <1>6, CoversMore
<1>8. Covers(evicted', dropped' \ (ToSet(Live') \cup released'))
  <2>1. evicted' \in Loss /\ ToSet(<<failed>>) \in SUBSET Frame
    BY <1>1, <1>3, <1>5, WidenFacts, FewElements
  <2>2. (dropped \ (ToSet(Live) \cup released)) \cup ToSet(<<failed>>) \in SUBSET Frame
    BY <1>6, <2>1
  <2>3. dropped' \ (ToSet(Live') \cup released')
          \in SUBSET ((dropped \ (ToSet(Live) \cup released)) \cup ToSet(<<failed>>))
    BY <1>1, <1>2
  <2> QED
    BY <1>7, <2>1, <2>2, <2>3, CoversLess
<1>9. Covers(recordDisk', dropped' \ (Recoverable' \cup released'))
  <2>1. Covers(recordDisk, dropped \ (Recoverable \cup released))
    BY <1>1, RestartCovered
  <2> QED
    BY <1>1, <1>2, <2>1
<1>10. Dated(recordDisk')
  BY <1>1, <1>4
<1> QED
  BY <1>1, <1>7, <1>8, <1>9, <1>10 DEF LossInv

\* LossInv is kept while the record can be written.
LEMMA LossStep ==
  ASSUME TidyDisk, "record_error" \notin Faults,
         TInv, TInv', KInv, KInv', LossInv, [Next]_vars
  PROVE  LossInv'
<1>0. evicted \in Loss /\ recordDisk \in Loss /\ dropped \in SUBSET Frame
  BY DEF TInv, MemoryOK, DiskOK, HistoryOK
<1>1. CASE Open
  <2>1. /\ pc = "down" /\ evicted' = recordDisk /\ recordDisk' = recordDisk
        /\ UNCHANGED <<released, dropped>> /\ pc' \in {"rename", "idle"}
    BY <1>1 DEF Open, LoadedEvictions, history
  <2>2. ToSet(Live') = Recoverable
    <3>1. Backlog' = Backlog
      BY <1>1, OpenKeepsBacklog
    <3> QED
      BY <2>1, <3>1 DEF Backlog
  <2>3. Covers(recordDisk, dropped \ (Recoverable \cup released)) /\ Dated(recordDisk)
    BY <2>1 DEF LossInv
  <2>4. Covers(evicted', dropped' \ (ToSet(Live') \cup released'))
    BY <2>1, <2>2, <2>3
  <2>5. Dated(evicted') /\ Dated(recordDisk') /\ recordDisk' = evicted'
    BY <2>1, <2>3
  <2> QED
    BY <2>1, <2>4, <2>5 DEF LossInv
<1>2. CASE Appending
  <2>1. /\ Live' = Live /\ pc \notin {"down", "persist"} /\ pc' \notin {"down", "persist"}
        /\ UNCHANGED <<evicted, recordDisk, released, dropped>>
    BY <1>2 DEF Appending, Live
  <2> QED
    BY <2>1, LossUnchanged
<1>3. CASE Evict
  BY <1>3, EvictRecords
<1>4. CASE CompactRename
  <2>1. Live' = Live
    BY <1>4, RenameStep
  <2>2. /\ pc \notin {"down", "persist"} /\ pc' \notin {"down", "persist"}
        /\ UNCHANGED <<evicted, recordDisk, released, dropped>>
    BY <1>4 DEF CompactRename, history
  <2> QED
    BY <2>1, <2>2, LossUnchanged
<1>5. CASE Dies
  <2>1. Dying
    BY <1>5, DieStep
  <2>2. pc \notin {"down", "unlink"} /\ pc' = "down" /\ UNCHANGED <<recordDisk, released, dropped>>
    BY <2>1 DEF Dying
  <2>3. evicted' = NoLoss
    BY <1>5 DEF Dies, Crash, CrashInAppend, Die
  <2>4. Covers(recordDisk, dropped \ (Recoverable \cup released))
    BY <2>2, RestartCovered
  <2>5. Recoverable \subseteq Recoverable'
    <3>1. lines \in Seq(Frame) /\ PersistedHead \in Nat
      BY DecodedFacts DEF TInv, KInv, FileOK
    <3>2. PersistedHead' = PersistedHead \/ PersistedHead' = 0
      BY <2>1 DEF Dying, PersistedHead, NoMarker
    <3>3. Beyond(lines, PersistedHead) \subseteq Beyond(lines, PersistedHead')
      BY <3>1, <3>2, BeyondMore
    <3>4. Recoverable = Beyond(lines, PersistedHead)
      BY BacklogFacts DEF BacklogOK
    <3>5. Recoverable' = Beyond(lines, PersistedHead')
      BY <2>1, BacklogNext DEF BacklogOK, Beyond, Dying
    <3> QED
      BY <3>3, <3>4, <3>5
  <2>6. Covers(recordDisk, dropped' \ (Recoverable' \cup released'))
    <3>1. dropped \ (Recoverable \cup released) \in SUBSET Frame
      BY <1>0
    <3>2. dropped' \ (Recoverable' \cup released') \in SUBSET (dropped \ (Recoverable \cup released))
      BY <2>2, <2>5
    <3> QED
      BY <1>0, <2>4, <3>1, <3>2, CoversLess
  <2>7. Covers(recordDisk', dropped' \ (Recoverable' \cup released'))
    BY <2>2, <2>6
  <2>8. Dated(evicted') /\ Dated(recordDisk')
    BY <2>2, <2>3 DEF LossInv, Dated, NoLoss
  <2> QED
    BY <2>2, <2>7, <2>8 DEF LossInv
<1>6. CASE RecordDestroyed
  BY <1>6, DestroyedRecords
<1>7. CASE PersistEvictions
  <2>1. /\ pc = "persist" /\ pc' \in {"rename", "idle"} /\ recordDisk' = evicted
        /\ UNCHANGED <<entries, head, evicted, released, dropped>>
    BY <1>7 DEF PersistEvictions, WriteFails, memory
  <2>2. Live' = Live
    BY <2>1 DEF Live
  <2>3. Dated(evicted) /\ Covers(evicted, dropped \ (ToSet(Live) \cup released))
    BY <2>1 DEF LossInv
  <2>4. Covers(evicted', dropped' \ (ToSet(Live') \cup released'))
    BY <2>1, <2>2, <2>3
  <2>5. Dated(evicted') /\ Dated(recordDisk') /\ recordDisk' = evicted'
    BY <2>1, <2>3
  <2> QED
    BY <2>1, <2>4, <2>5 DEF LossInv
<1>8. CASE CompactFails \/ WriteHeadMarkerFails
  <2>1. UNCHANGED <<entries, head, lines, marker, evicted, recordDisk, released, dropped>>
    BY <1>8 DEF CompactFails, WriteHeadMarkerFails, memory, disk
  <2>2. pc \in {"rename", "mark"} /\ pc' \in {"down", "idle"}
    BY <1>8 DEF CompactFails, WriteHeadMarkerFails, ReturnError
  <2>3. Live' = Live /\ Recoverable' = Recoverable
    BY <2>1 DEF Live, Recoverable, PersistedHead
  <2>4. CASE pc' = "idle"
    BY <2>1, <2>2, <2>3, <2>4, LossUnchanged
  <2>5. CASE pc' = "down"
    <3>1. Covers(recordDisk, dropped \ (Recoverable \cup released))
      BY <2>2, RestartCovered
    <3>2. Covers(recordDisk', dropped' \ (Recoverable' \cup released'))
      BY <2>1, <2>3, <3>1
    <3>3. Dated(evicted') /\ Dated(recordDisk')
      BY <2>1 DEF LossInv
    <3> QED
      BY <2>5, <3>2, <3>3 DEF LossInv
  <2> QED
    BY <2>2, <2>4, <2>5
<1>9. CASE CompactUnlink \/ WriteHeadMarker \/ PeekAt \/ Disconnect
  <2>1. /\ UNCHANGED <<entries, head, evicted, recordDisk, released, dropped>>
        /\ pc \notin {"down", "persist"} /\ pc' \notin {"down", "persist"}
    BY <1>9 DEF CompactUnlink, WriteHeadMarker, PeekAt, Disconnect, memory, disk, history
  <2>2. Live' = Live
    BY <2>1 DEF Live
  <2> QED
    BY <2>1, <2>2, LossUnchanged
<1>10. CASE \E h \in handed : CommitThrough(h[1])
  <2>1. PICK h \in handed : CommitThrough(h[1])
    BY <1>10
  <2>2. PICK S \in SUBSET (1..produced) : Backlog' = Backlog \ S /\ released' = released \cup S
    BY <2>1, CommitReleases
  <2>3. pc = "idle" /\ UNCHANGED <<evicted, recordDisk, dropped>>
    BY <2>1 DEF CommitThrough, disk
  <2>4. pc' \in {"idle", "rename", "mark"}
    BY <2>1, CommitStep DEF Commits
  <2>5. Backlog = ToSet(Live) /\ Backlog' = ToSet(Live')
    BY <2>3, <2>4 DEF Backlog
  <2>6. dropped' \ (ToSet(Live') \cup released') \subseteq dropped \ (ToSet(Live) \cup released)
    BY <2>2, <2>3, <2>5
  <2> QED
    BY <2>3, <2>4, <2>6, LossUnchanged
<1>11. CASE UNCHANGED vars
  <2>1. UNCHANGED <<entries, head, evicted, lines, marker, recordDisk, pc, released, dropped>>
    BY <1>11 DEF vars, memory, disk, control, history
  <2>2. Live' = Live /\ Recoverable' = Recoverable
    BY <2>1 DEF Live, Recoverable, PersistedHead
  <2> QED
    BY <2>1, <2>2 DEF LossInv, Covers, Dated
<1>12. Open \/ Appending \/ Evict \/ CompactRename \/ Dies \/ Still
  <2>1. CASE \E f \in Frame : AppendLine(f) \/ \E kind \in AppendFaults : AppendLineFails(f, kind)
    BY <2>1, AppendStep
  <2>2. ~ CompactUnlinkFails
    BY DEF TidyDisk, CompactUnlinkFails, WriteFails
  <2> QED
    BY <2>1, <2>2 DEF Next, Dies, Still
<1> QED
  BY <1>1, <1>2, <1>3, <1>4, <1>5, <1>6, <1>7, <1>8, <1>9, <1>10, <1>11, <1>12 DEF Still

\* On a tidy disk, and while the eviction record can be written, the record
\* never understates the loss: every frame the cap destroyed and no restart
\* brought back is counted and lies in its window, wherever a crash separated
\* the eviction, the write of the record and the compaction.
THEOREM LossAlwaysRecorded ==
  ASSUME TidyDisk
  PROVE  Spec => []LossRecorded
<1>1. CASE "record_error" \in Faults
  <2>1. LossRecorded
    BY <1>1 DEF LossRecorded
  <2> QED
    BY <2>1, PTL
<1>2. CASE "record_error" \notin Faults
  <2>1. Init => LossInv
    <3> SUFFICES ASSUME Init PROVE LossInv
      OBVIOUS
    <3>1. pc = "down" /\ dropped = {} /\ evicted = NoLoss /\ recordDisk = NoLoss
      BY DEF Init
    <3>2. dropped \ (Recoverable \cup released) = {} /\ Cardinality({}) = 0
      BY <3>1, FS_EmptySet
    <3>3. Covers(recordDisk, dropped \ (Recoverable \cup released))
      BY <3>1, <3>2 DEF Covers, NoLoss
    <3>4. Dated(evicted) /\ Dated(recordDisk)
      BY <3>1 DEF Dated, NoLoss
    <3> QED
      BY <3>1, <3>3, <3>4 DEF LossInv
  <2>2. (TInv /\ KInv) /\ (TInv /\ KInv)' /\ LossInv /\ [Next]_vars => LossInv'
    BY <1>2, LossStep
  <2>3. LossInv => LossRecorded
    BY DEF LossInv, LossRecorded, Covers
  <2> QED
    BY <2>1, <2>2, <2>3, FilesKept, PTL DEF Spec
<1> QED
  BY <1>1, <1>2
=============================================================================
