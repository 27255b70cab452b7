-------------------------- MODULE AuditChainProofs --------------------------
(***************************************************************************)
(* Proofs about the audit log, for any number of writers, processes,       *)
(* drains and purges, whatever fails, and for any hash function:           *)
(*   - types, and that no entry is silently dropped;                       *)
(*   - where no row was deleted by hand, a purge keeps the rows younger    *)
(*     than its retention window, and while no repair runs either the      *)
(*     committed chain verifies from its checkpoint in every state;        *)
(*   - where no two drains of the spool overlap, an entry is chained once. *)
(***************************************************************************)
EXTENDS AuditChain, SeqFoldsProofs

-----------------------------------------------------------------------------
(* Sequences whose elements have no type: a hash may be any value.         *)

IsSeq(s) == \E S : s \in Seq(S)

\* What is known of any sequence.
LEMMA SeqFacts ==
  ASSUME NEW s, IsSeq(s)
  PROVE  /\ Len(s) \in Nat
         /\ DOMAIN s = 1..Len(s)
         /\ s = [i \in 1..Len(s) |-> s[i]]
         /\ s = <<>> <=> Len(s) = 0
<1>1. PICK S : s \in Seq(S)
  BY DEF IsSeq
<1> QED
  BY <1>1

\* The empty sequence.
LEMMA EmptyFacts == IsSeq(<<>>) /\ Len(<<>>) = 0
<1>1. <<>> \in Seq({})
  OBVIOUS
<1> QED
  BY <1>1 DEF IsSeq

\* Appending.
LEMMA AppendFacts ==
  ASSUME NEW s, IsSeq(s), NEW e
  PROVE  /\ IsSeq(Append(s, e))
         /\ Len(Append(s, e)) = Len(s) + 1
         /\ \A i \in 1..Len(s) : Append(s, e)[i] = s[i]
         /\ Append(s, e)[Len(s) + 1] = e
<1>1. PICK S : s \in Seq(S)
  BY DEF IsSeq
<1> DEFINE T == S \cup {e}
<1>2. s \in Seq(T) /\ e \in T
  BY <1>1
<1> HIDE DEF T
<1>3. Append(s, e) \in Seq(T)
  BY <1>2, AppendProperties
<1> QED
  BY <1>2, <1>3, AppendProperties DEF IsSeq

\* Concatenation.
LEMMA ConcatFacts ==
  ASSUME NEW s, IsSeq(s), NEW t, IsSeq(t)
  PROVE  /\ IsSeq(s \o t)
         /\ Len(s \o t) = Len(s) + Len(t)
         /\ \A i \in 1..Len(s) + Len(t) :
              (s \o t)[i] = IF i <= Len(s) THEN s[i] ELSE t[i - Len(s)]
<1>1. PICK S : s \in Seq(S)
  BY DEF IsSeq
<1>2. PICK T : t \in Seq(T)
  BY DEF IsSeq
<1> DEFINE U == S \cup T
<1>3. s \in Seq(U) /\ t \in Seq(U)
  BY <1>1, <1>2
<1> HIDE DEF U
<1>4. s \o t \in Seq(U)
  BY <1>3, ConcatProperties
<1> QED
  BY <1>3, <1>4, ConcatProperties DEF IsSeq

\* A row linked to the last one continues a chain.
LEMMA AppendContinues ==
  ASSUME NEW s, IsSeq(s), NEW h, Continues(s, h), NEW row, row.prev = LastHash(s, h)
  PROVE  /\ Continues(Append(s, row), h)
         /\ LastHash(Append(s, row), h) = HashOf(row)
<1> DEFINE t == Append(s, row)
<1>1. /\ IsSeq(t) /\ Len(t) = Len(s) + 1 /\ Len(s) \in Nat
      /\ \A i \in 1..Len(s) : t[i] = s[i]
      /\ t[Len(s) + 1] = row
      /\ s = <<>> <=> Len(s) = 0
  BY AppendFacts, SeqFacts
<1>2. t # <<>>
  BY <1>1, SeqFacts
<1> HIDE DEF t
<1>3. Continues(t, h)
  BY <1>1 DEF Continues, LastHash
<1> QED
  BY <1>1, <1>2, <1>3 DEF LastHash, t

\* So does a chain of rows linked to the last one.
LEMMA ConcatContinues ==
  ASSUME NEW s, IsSeq(s), NEW h, Continues(s, h),
         NEW t, IsSeq(t), Continues(t, LastHash(s, h))
  PROVE  Continues(s \o t, h)
<1> DEFINE u == s \o t
<1>1. /\ Len(u) = Len(s) + Len(t) /\ Len(s) \in Nat /\ Len(t) \in Nat
      /\ s = <<>> <=> Len(s) = 0
      /\ \A i \in 1..Len(s) + Len(t) : u[i] = IF i <= Len(s) THEN s[i] ELSE t[i - Len(s)]
  BY ConcatFacts, SeqFacts
<1> HIDE DEF u
<1>2. ASSUME NEW i \in 1..Len(u)
      PROVE  u[i].prev = IF i = 1 THEN h ELSE HashOf(u[i - 1])
  <2>1. CASE i <= Len(s)
    BY <1>1, <1>2, <2>1 DEF Continues
  <2>2. CASE i = Len(s) + 1
    <3>1. t[1].prev = LastHash(s, h) /\ u[i] = t[1]
      BY <1>1, <1>2, <2>2 DEF Continues
    <3>2. CASE s = <<>>
      BY <1>1, <2>2, <3>1, <3>2 DEF LastHash
    <3>3. CASE s # <<>>
      <4>1. u[i - 1] = s[Len(s)] /\ i # 1
        BY <1>1, <1>2, <2>2, <3>3
      <4> QED
        BY <3>1, <3>3, <4>1 DEF LastHash
    <3> QED
      BY <3>2, <3>3
  <2>3. CASE i > Len(s) + 1
    <3>1. i - Len(s) \in 1..Len(t) /\ i - Len(s) # 1 /\ i - 1 - Len(s) = i - Len(s) - 1
      BY <1>1, <1>2, <2>3
    <3>2. u[i] = t[i - Len(s)] /\ u[i - 1] = t[i - Len(s) - 1] /\ i # 1
      BY <1>1, <1>2, <2>3
    <3> QED
      BY <3>1, <3>2 DEF Continues
  <2> QED
    BY <1>1, <1>2, <2>1, <2>2, <2>3
<1> QED
  BY <1>2 DEF Continues, u

-----------------------------------------------------------------------------
(* The inductive invariant.                                                *)

\* No row was deleted by hand and no repair runs.
Undamaged == Repairer = {} /\ Cuts = {{}}

Shape ==
  /\ IsSeq(log)
  /\ DOMAIN pc = Actor /\ DOMAIN got = Actor /\ DOMAIN mark = Actor
  /\ DOMAIN rows = Actor /\ DOMAIN relinked = Actor
  /\ \A a \in Actor : IsSeq(rows[a]) /\ relinked[a] = <<>>

Inv == Shape /\ ChainInv

\* The invariant implies that the chain verifies: a row's neighbour in the
\* table is its predecessor in the log.
LEMMA InvVerifies == Inv => ChainVerifies
<1> SUFFICES ASSUME Inv, NEW i \in present PROVE ~ Breaks(i, checkpoint)
  BY DEF ChainVerifies
<1>1. Len(log) \in Nat /\ Continues(log, Genesis)
  BY SeqFacts DEF Inv, Shape, ChainInv, SuffixInv
<1>2. PICK k \in 0..Len(log) :
        /\ present = k + 1 .. Len(log)
        /\ checkpoint = IF k = 0 THEN Genesis ELSE HashOf(log[k])
  BY DEF Inv, ChainInv, SuffixInv
<1>3. i \in 1..Len(log) /\ i \in Int /\ k \in Int
  BY <1>1, <1>2
<1>4. log[i].prev = IF i = 1 THEN Genesis ELSE HashOf(log[i - 1])
  BY <1>1, <1>3 DEF Continues
<1>5. IsFirst(i) => i = k + 1
  <2>1. k + 1 \in present
    BY <1>1, <1>2, <1>3
  <2> QED
    BY <1>2, <1>3, <2>1 DEF IsFirst
<1>6. IsFirst(i) => log[i].prev = checkpoint
  BY <1>2, <1>3, <1>4, <1>5
<1>7. ASSUME NEW j \in present, Adjacent(j, i)
      PROVE  log[i].prev = HashOf(log[j])
  <2>1. j = i - 1
    <3>1. j \in Int /\ j < i /\ j >= k + 1
      BY <1>1, <1>2, <1>3, <1>7 DEF Adjacent
    <3>2. j < i - 1 => i - 1 \in present
      BY <1>1, <1>2, <1>3, <3>1
    <3> QED
      BY <1>3, <1>7, <3>1, <3>2 DEF Adjacent
  <2> QED
    BY <1>1, <1>2, <1>3, <1>4, <1>7, <2>1
<1> QED
  BY <1>6, <1>7 DEF Breaks

\* Initially the invariant holds.
LEMMA InitInv == ASSUME Undamaged PROVE Init => Inv
<1> SUFFICES ASSUME Init PROVE Inv
  OBVIOUS
<1>1. IsSeq(log) /\ Len(log) \in Nat /\ log = InitLog
  <2>1. IsSeq(InitLog)
    BY InitLogAssumption DEF IsSeq
  <2> QED
    BY <2>1, SeqFacts DEF Init
<1>2. Shape
  BY <1>1, EmptyFacts DEF Init, Shape
<1>3. Continues(log, Genesis)
  <2>1. DOMAIN log = 1..Len(log) /\ (log = <<>> <=> Len(log) = 0)
    BY <1>1, SeqFacts
  <2> QED
    BY <1>1, <2>1, InitLogAssumption DEF Linked, Continues
<1>4. present = 0 + 1 .. Len(log) /\ checkpoint = Genesis
  BY <1>1 DEF Init, Undamaged
<1>5. SuffixInv
  <2>1. log # <<>> => 0 < Len(log)
    BY <1>1, SeqFacts
  <2> QED
    BY <1>1, <1>3, <1>4, <2>1 DEF SuffixInv
<1>6. \A a \in Actor : AppendOK(a) /\ PurgeOK(a)
  BY DEF Init, AppendOK, PurgeOK
<1> QED
  BY <1>2, <1>5, <1>6 DEF Inv, ChainInv

-----------------------------------------------------------------------------
(* Steps that leave the table alone.                                       *)

\* Every actor but a, and every lock such an actor holds, is as it was.
OthersKeep(a) ==
  \A b \in Actor \ {a} :
    /\ pc'[b] = pc[b] /\ got'[b] = got[b] /\ mark'[b] = mark[b]
    /\ rows'[b] = rows[b] /\ relinked'[b] = relinked[b]
    /\ chainLock = b => chainLock' = b
    /\ settingsLock = b => settingsLock' = b

\* The functions on actors keep their domain.
DomainsKept ==
  /\ DOMAIN pc' = Actor /\ DOMAIN got' = Actor /\ DOMAIN mark' = Actor
  /\ DOMAIN rows' = Actor /\ DOMAIN relinked' = Actor

\* A step of one actor that changes no row preserves the invariant if that
\* actor's part of it holds afterwards.
LEMMA LocalStep ==
  ASSUME Inv, NEW a \in Actor,
         UNCHANGED <<log, present, checkpoint>>,
         DomainsKept, OthersKeep(a),
         IsSeq(rows'[a]), relinked'[a] = <<>>,
         AppendOK(a)', PurgeOK(a)'
  PROVE  Inv'
<1>1. Shape'
  <2>1. \A b \in Actor : IsSeq(rows'[b]) /\ relinked'[b] = <<>>
    BY DEF OthersKeep, Inv, Shape
  <2>2. IsSeq(log')
    BY DEF Inv, Shape
  <2> QED
    BY <2>1, <2>2 DEF DomainsKept, Shape
<1>2. SuffixInv'
  BY DEF Inv, ChainInv, SuffixInv
<1>3. ASSUME NEW b \in Actor \ {a} PROVE AppendOK(b)' /\ PurgeOK(b)'
  <2>1. AppendOK(b) /\ PurgeOK(b)
    BY DEF Inv, ChainInv
  <2>2. AppendOK(b)'
    BY <2>1 DEF OthersKeep, AppendOK
  <2>3. PurgeOK(b)'
    BY <2>1 DEF OthersKeep, PurgeOK
  <2> QED
    BY <2>2, <2>3
<1> QED
  BY <1>1, <1>2, <1>3 DEF Inv, ChainInv

\* A step that changes nothing the invariant speaks of.
LEMMA IdleStep ==
  ASSUME Inv,
         UNCHANGED <<log, present, checkpoint, pc, got, mark, rows, relinked,
                     chainLock, settingsLock>>
  PROVE  Inv'
<1>1. Shape'
  BY DEF Inv, Shape
<1>2. SuffixInv'
  BY DEF Inv, ChainInv, SuffixInv
<1>3. \A a \in Actor : AppendOK(a)' /\ PurgeOK(a)'
  BY DEF Inv, ChainInv, AppendOK, PurgeOK
<1> QED
  BY <1>1, <1>2, <1>3 DEF Inv, ChainInv

\* A statement that only moves its actor on, to a statement before the lock.
LEMMA MoveStep ==
  ASSUME Inv, NEW a \in Actor,
         NEW label \in {"idle", "process", "flush", "lock", "defer", "summary", "again",
                        "walk"},
         Goto(a, label),
         pc[a] # "chain",
         UNCHANGED <<log, present, checkpoint, mark, rows, relinked>>,
         DOMAIN got' = Actor,
         \A b \in Actor \ {a} : /\ got'[b] = got[b]
                                /\ chainLock = b => chainLock' = b
                                /\ settingsLock = b => settingsLock' = b
  PROVE  Inv'
<1>1. pc' = [pc EXCEPT ![a] = label] /\ DOMAIN pc = Actor
  BY DEF Goto, Inv, Shape
<1>2. DomainsKept
  BY <1>1 DEF DomainsKept, Inv, Shape
<1>3. OthersKeep(a)
  BY <1>1 DEF OthersKeep
<1>4. IsSeq(rows'[a]) /\ relinked'[a] = <<>>
  BY DEF Inv, Shape
<1>5. rows[a] = <<>> /\ pc'[a] = label
  BY <1>1 DEF Inv, ChainInv, AppendOK
<1>6. AppendOK(a)'
  BY <1>5 DEF AppendOK
<1>7. PurgeOK(a)'
  BY <1>5 DEF PurgeOK
<1> QED
  BY <1>2, <1>3, <1>4, <1>6, <1>7, LocalStep

\* What a transaction reads as the tail under the lock is the log's last hash.
LEMMA TailRead ==
  ASSUME Inv, NEW a \in Actor, ReadTail(a)
  PROVE  got' = [got EXCEPT ![a] = LastHash(log, Genesis)]
<1>1. PICK k \in 0..Len(log) :
        present = k + 1 .. Len(log) /\ (log # <<>> => k < Len(log))
  BY DEF Inv, ChainInv, SuffixInv
<1>2. Len(log) \in Nat /\ (log = <<>> <=> Len(log) = 0)
  BY SeqFacts DEF Inv, Shape
<1>3. CASE present = {} /\ Read(a, Genesis)
  <2>1. log = <<>>
    <3>1. log # <<>> => Len(log) \in present
      BY <1>1, <1>2
    <3> QED
      BY <1>3, <3>1
  <2> QED
    BY <1>3, <2>1 DEF Read, LastHash
<1>4. ASSUME NEW i \in present, IsLast(i), Read(a, HashOf(View(a)[i]))
      PROVE  got' = [got EXCEPT ![a] = LastHash(log, Genesis)]
  <2>1. i \in 1..Len(log) /\ Len(log) \in present
    BY <1>1, <1>2
  <2>2. i = Len(log) /\ log # <<>>
    BY <1>2, <1>4, <2>1 DEF IsLast
  <2>3. View(a)[i] = log[i]
    <3>1. relinked[a] = <<>> /\ DOMAIN <<>> = {}
      BY DEF Inv, Shape
    <3> QED
      BY <2>1, <3>1 DEF View
  <2> QED
    BY <1>4, <2>2, <2>3 DEF Read, LastHash
<1> QED
  BY <1>3, <1>4 DEF ReadTail

\* The statements of write_log up to its INSERT preserve the invariant.
LEMMA WriteStep ==
  ASSUME Inv, NEW a \in Actor,
         \/ \E k \in Kinds : WriteLog(a, k)
         \/ EnterProcessLock(a) \/ FlushSettings(a) \/ TakeChainLock(a)
         \/ LockTimeout(a) \/ Defer(a) \/ ReadTail(a)
  PROVE  Inv'
<1> USE DEF db, locks, writeVars, purgeVars, drainVars, verifyVars
<1>0. Nobody \notin Actor /\ DOMAIN got = Actor /\ DOMAIN pc = Actor
  BY AuditAssumption DEF Inv, Shape
<1>1. ASSUME NEW k \in Kinds, WriteLog(a, k) PROVE Inv'
  BY <1>0, <1>1, MoveStep DEF WriteLog, NewEntry
<1>2. CASE EnterProcessLock(a)
  BY <1>0, <1>2, MoveStep DEF EnterProcessLock
<1>3. CASE FlushSettings(a)
  BY <1>0, <1>3, MoveStep DEF FlushSettings
<1>4. CASE TakeChainLock(a)
  <2>1. pc' = [pc EXCEPT ![a] = "tail"] /\ chainLock' = a
    BY <1>4 DEF TakeChainLock, Goto
  <2>2. DomainsKept /\ OthersKeep(a)
    BY <1>0, <1>4, <2>1 DEF TakeChainLock, DomainsKept, OthersKeep, Inv, Shape
  <2>3. IsSeq(rows'[a]) /\ relinked'[a] = <<>>
    BY <1>4 DEF TakeChainLock, Inv, Shape
  <2>4. rows[a] = <<>> /\ pc'[a] = "tail"
    BY <1>0, <1>4, <2>1 DEF TakeChainLock, Inv, ChainInv, AppendOK
  <2>5. AppendOK(a)' /\ PurgeOK(a)'
    BY <1>4, <2>1, <2>4 DEF TakeChainLock, AppendOK, PurgeOK
  <2> QED
    BY <1>4, <2>2, <2>3, <2>5, LocalStep DEF TakeChainLock
<1>5. CASE LockTimeout(a)
  BY <1>0, <1>5, MoveStep DEF LockTimeout, Release
<1>6. CASE Defer(a)
  BY <1>0, <1>6, MoveStep DEF Defer
<1>7. CASE ReadTail(a)
  <2> DEFINE label == IF a \in Drainer THEN "chain" ELSE "insert"
  <2>1. pc' = [pc EXCEPT ![a] = label] /\ pc[a] = "tail"
    BY <1>7 DEF ReadTail, Goto
  <2>2. got' = [got EXCEPT ![a] = LastHash(log, Genesis)]
    BY <1>7, TailRead
  <2>3. UNCHANGED <<log, present, checkpoint, mark, rows, relinked, chainLock, settingsLock>>
    BY <1>7 DEF ReadTail
  <2>4. DomainsKept /\ OthersKeep(a)
    BY <1>0, <2>1, <2>2, <2>3 DEF DomainsKept, OthersKeep, Inv, Shape
  <2>5. IsSeq(rows'[a]) /\ relinked'[a] = <<>>
    BY <2>3 DEF Inv, Shape
  <2>6. rows[a] = <<>> /\ chainLock = a
    BY <2>1 DEF Inv, ChainInv, AppendOK
  <2>7. AppendOK(a)'
    <3>1. Continues(<<>>, LastHash(log, Genesis))
      BY EmptyFacts DEF Continues
    <3> QED
      BY <1>0, <2>1, <2>2, <2>3, <2>6, <3>1 DEF AppendOK, LastHash
  <2>8. PurgeOK(a)'
    BY <1>0, <2>1, <2>3 DEF PurgeOK
  <2> QED
    BY <2>3, <2>4, <2>5, <2>7, <2>8, LocalStep
<1> QED
  BY <1>1, <1>2, <1>3, <1>4, <1>5, <1>6, <1>7

-----------------------------------------------------------------------------
(* Steps that append.                                                      *)

\* The holder of the lock commits rows that continue the chain: no other
\* actor relies on the tail, and a purge's rows are where they were.
LEMMA GrowStep ==
  ASSUME Inv, NEW a \in Actor, chainLock = a,
         IsSeq(log'), Continues(log', Genesis),
         Len(log') >= Len(log),
         \A i \in 1..Len(log) : log'[i] = log[i],
         present' = present \cup (Len(log) + 1 .. Len(log')),
         checkpoint' = checkpoint,
         DomainsKept, OthersKeep(a),
         pc'[a] = "idle", rows'[a] = <<>>, relinked'[a] = <<>>
  PROVE  Inv'
<1>1. Len(log) \in Nat /\ Len(log') \in Nat /\ (log = <<>> <=> Len(log) = 0)
      /\ (log' = <<>> <=> Len(log') = 0)
  BY SeqFacts DEF Inv, Shape
<1>2. PICK k \in 0..Len(log) :
        /\ present = k + 1 .. Len(log)
        /\ log # <<>> => k < Len(log)
        /\ checkpoint = IF k = 0 THEN Genesis ELSE HashOf(log[k])
  BY DEF Inv, ChainInv, SuffixInv
<1>3. Shape'
  <2>1. \A b \in Actor : IsSeq(rows'[b]) /\ relinked'[b] = <<>>
    BY EmptyFacts DEF OthersKeep, Inv, Shape
  <2> QED
    BY <2>1 DEF DomainsKept, Shape
<1>4. SuffixInv'
  <2>1. k \in 0..Len(log') /\ present' = k + 1 .. Len(log')
    BY <1>1, <1>2
  <2>2. log' # <<>> => k < Len(log')
    BY <1>1, <1>2
  <2>3. checkpoint' = IF k = 0 THEN Genesis ELSE HashOf(log'[k])
    BY <1>1, <1>2
  <2> QED
    BY <2>1, <2>2, <2>3 DEF SuffixInv
<1>5. AppendOK(a)' /\ PurgeOK(a)'
  BY DEF AppendOK, PurgeOK
<1>6. ASSUME NEW b \in Actor \ {a} PROVE AppendOK(b)' /\ PurgeOK(b)'
  <2>1. AppendOK(b) /\ PurgeOK(b)
    BY DEF Inv, ChainInv
  <2>2. AppendOK(b)'
    BY <2>1 DEF OthersKeep, AppendOK
  <2>3. mark[b] \in present => /\ mark[b] \in present'
                              /\ log'[mark[b]] = log[mark[b]]
    BY <1>1, <1>2
  <2>4. mark[b] \in 1..Len(log) => mark[b] \in 1..Len(log')
    BY <1>1
  <2>5. mark[b] \in present /\ mark[b] < Len(log) => mark[b] < Len(log')
    BY <1>1, <1>2
  <2>6. PurgeOK(b)'
    BY <2>1, <2>3, <2>4, <2>5 DEF OthersKeep, PurgeOK
  <2> QED
    BY <2>2, <2>6
<1> QED
  BY <1>3, <1>4, <1>5, <1>6 DEF Inv, ChainInv

\* The INSERT and COMMIT of write_log.
LEMMA InsertStep ==
  ASSUME Inv, NEW a \in Actor, Insert(a)
  PROVE  Inv'
<1> DEFINE row == [entry |-> ent[a], prev |-> got[a]]
<1>0. Nobody \notin Actor /\ IsSeq(log) /\ relinked[a] = <<>>
      /\ DOMAIN pc = Actor /\ DOMAIN relinked = Actor
  BY AuditAssumption DEF Inv, Shape
<1>1. chainLock = a /\ got[a] = LastHash(log, Genesis) /\ rows[a] = <<>>
  BY DEF Inv, ChainInv, AppendOK, Insert
<1>2. View(a) = log
  <2>1. log = [i \in 1..Len(log) |-> log[i]] /\ DOMAIN <<>> = {}
    BY <1>0, SeqFacts
  <2>2. View(a) = [i \in 1..Len(log) |-> log[i]]
    BY <1>0, <2>1 DEF View
  <2> QED
    BY <2>1, <2>2
<1>3. log' = Append(log, row)
  BY <1>2 DEF Insert
<1>4. row.prev = LastHash(log, Genesis)
  BY <1>1
<1> HIDE DEF row
<1>5. /\ IsSeq(log') /\ Len(log') = Len(log) + 1
      /\ \A i \in 1..Len(log) : log'[i] = log[i]
  BY <1>0, <1>3, AppendFacts
<1>6. Continues(log', Genesis)
  BY <1>0, <1>3, <1>4, AppendContinues DEF Inv, ChainInv, SuffixInv
<1>7. present' = present \cup (Len(log) + 1 .. Len(log')) /\ Len(log') >= Len(log)
  <2>1. Len(log) \in Nat
    BY <1>0, SeqFacts
  <2> QED
    BY <1>5, <2>1 DEF Insert
<1>8. UNCHANGED <<checkpoint, got, mark, rows>>
  BY DEF Insert, drainVars
<1>9. /\ pc' = [pc EXCEPT ![a] = "idle"]
      /\ relinked' = [relinked EXCEPT ![a] = <<>>]
  BY DEF Insert, Goto
<1>10. DomainsKept /\ OthersKeep(a)
  BY <1>0, <1>8, <1>9 DEF Insert, Release, DomainsKept, OthersKeep, Inv, Shape
<1> QED
  BY <1>0, <1>1, <1>5, <1>6, <1>7, <1>8, <1>9, <1>10, GrowStep

\* The drain: selecting, chaining row by row, committing.
LEMMA DrainStep ==
  ASSUME Inv, NEW d \in Actor, Drain(d)
  PROVE  Inv'
<1>0. Nobody \notin Actor /\ IsSeq(log) /\ IsSeq(rows[d]) /\ relinked[d] = <<>>
      /\ DOMAIN pc = Actor /\ DOMAIN got = Actor /\ DOMAIN rows = Actor
  BY AuditAssumption DEF Inv, Shape
<1>1. CASE ReadPending(d)
  BY <1>0, <1>1, MoveStep DEF ReadPending, db, locks, verifyVars
<1>2. CASE ChainRow(d)
  <2> DEFINE row == [entry |-> Head(batch[d]), prev |-> got[d]]
             tail == LastHash(log, Genesis)
  <2>1. /\ pc[d] = "chain"
        /\ rows' = [rows EXCEPT ![d] = Append(rows[d], row)]
        /\ got' = [got EXCEPT ![d] = HashOf(row)]
    BY <1>2 DEF ChainRow, Read
  <2>2. UNCHANGED <<log, present, checkpoint, pc, mark, relinked, chainLock, settingsLock>>
    BY <1>2 DEF ChainRow, db, locks, verifyVars
  <2>3. chainLock = d /\ Continues(rows[d], tail) /\ row.prev = LastHash(rows[d], tail)
    BY <2>1 DEF Inv, ChainInv, AppendOK
  <2>4. rows'[d] = Append(rows[d], row) /\ got'[d] = HashOf(row)
    BY <1>0, <2>1
  <2> HIDE DEF row, tail
  <2>5. /\ IsSeq(rows'[d]) /\ Continues(rows'[d], tail)
        /\ got'[d] = LastHash(rows'[d], tail)
    BY <1>0, <2>3, <2>4, AppendFacts, AppendContinues
  <2>6. DomainsKept /\ OthersKeep(d)
    BY <1>0, <2>1, <2>2 DEF DomainsKept, OthersKeep, Inv, Shape
  <2>7. AppendOK(d)' /\ PurgeOK(d)'
    BY <2>1, <2>2, <2>3, <2>5 DEF AppendOK, PurgeOK, tail
  <2> QED
    BY <1>0, <2>2, <2>5, <2>6, <2>7, LocalStep
<1>3. CASE DrainCommit(d)
  <2>1. chainLock = d /\ Continues(rows[d], LastHash(log, Genesis))
    BY <1>3 DEF DrainCommit, Inv, ChainInv, AppendOK
  <2>2. log' = log \o rows[d]
    BY <1>3 DEF DrainCommit
  <2>3. /\ IsSeq(log') /\ Len(log') = Len(log) + Len(rows[d])
        /\ Len(log) \in Nat /\ Len(rows[d]) \in Nat
        /\ \A i \in 1..Len(log) + Len(rows[d]) :
             log'[i] = IF i <= Len(log) THEN log[i] ELSE rows[d][i - Len(log)]
    BY <1>0, <2>2, ConcatFacts, SeqFacts
  <2>4. (\A i \in 1..Len(log) : log'[i] = log[i]) /\ Len(log') >= Len(log)
    BY <2>3
  <2>5. Continues(log', Genesis)
    BY <1>0, <2>1, <2>2, ConcatContinues DEF Inv, ChainInv, SuffixInv
  <2>6. present' = present \cup (Len(log) + 1 .. Len(log'))
    BY <1>3, <2>3 DEF DrainCommit
  <2>7. /\ pc' = [pc EXCEPT ![d] = "idle"]
        /\ rows' = [rows EXCEPT ![d] = <<>>]
        /\ UNCHANGED <<checkpoint, got, mark, relinked>>
    BY <1>3 DEF DrainCommit, Goto, verifyVars
  <2>8. DomainsKept /\ OthersKeep(d)
    BY <1>0, <1>3, <2>7 DEF DrainCommit, Release, DomainsKept, OthersKeep, Inv, Shape
  <2> QED
    BY <1>0, <2>1, <2>3, <2>4, <2>5, <2>6, <2>7, <2>8, GrowStep
<1> QED
  BY <1>1, <1>2, <1>3 DEF Drain

\* A transaction that fails.
LEMMA FailStep ==
  ASSUME Inv, NEW a \in Actor, Fail(a)
  PROVE  Inv'
<1>1. Nobody \notin Actor /\ DOMAIN pc = Actor /\ DOMAIN rows = Actor /\ DOMAIN relinked = Actor
  BY AuditAssumption DEF Inv, Shape
<1>2. /\ pc' = [pc EXCEPT ![a] = "idle"]
      /\ rows' = [rows EXCEPT ![a] = <<>>]
      /\ relinked' = [relinked EXCEPT ![a] = <<>>]
      /\ UNCHANGED <<log, present, checkpoint, got, mark>>
  BY DEF Fail, Goto, db
<1>3. DomainsKept /\ OthersKeep(a)
  BY <1>1, <1>2 DEF Fail, Release, DomainsKept, OthersKeep, Inv, Shape
<1>4. AppendOK(a)' /\ PurgeOK(a)'
  BY <1>1, <1>2 DEF AppendOK, PurgeOK
<1>5. IsSeq(rows'[a]) /\ relinked'[a] = <<>>
  BY <1>1, <1>2, EmptyFacts
<1> QED
  BY <1>2, <1>3, <1>4, <1>5, LocalStep

-----------------------------------------------------------------------------
(* The purge.                                                              *)

\* A statement of the purge that deletes nothing and goes on to label.
LEMMA PurgeMove ==
  ASSUME Inv, NEW p \in Actor,
         NEW label \in {"max", "kept", "ids", "tip", "delete", "end"},
         Goto(p, label),
         pc[p] # "chain",
         settingsLock' = p, settingsLock \in {Nobody, p},
         UNCHANGED <<log, present, checkpoint, chainLock, rows, relinked>>,
         DOMAIN got' = Actor, DOMAIN mark' = Actor,
         \A b \in Actor \ {p} : got'[b] = got[b] /\ mark'[b] = mark[b],
         label \in {"kept", "ids"} => mark'[p] \in 1..Len(log),
         label \in {"tip", "delete"} => mark'[p] \in present /\ mark'[p] < Len(log),
         label = "delete" => got'[p] = HashOf(log[mark'[p]])
  PROVE  Inv'
<1>1. pc' = [pc EXCEPT ![p] = label] /\ DOMAIN pc = Actor /\ Nobody \notin Actor
  BY AuditAssumption DEF Goto, Inv, Shape
<1>2. DomainsKept
  BY <1>1 DEF DomainsKept, Inv, Shape
<1>3. OthersKeep(p)
  BY <1>1 DEF OthersKeep
<1>4. IsSeq(rows'[p]) /\ relinked'[p] = <<>>
  BY DEF Inv, Shape
<1>5. rows[p] = <<>> /\ pc'[p] = label
  BY <1>1 DEF Inv, ChainInv, AppendOK
<1>6. AppendOK(p)'
  BY <1>5 DEF AppendOK
<1>7. PurgeOK(p)'
  BY <1>5 DEF PurgeOK
<1> QED
  BY <1>2, <1>3, <1>4, <1>6, <1>7, LocalStep

\* The ids that are present, and the bounds read from them, are ids of rows.
LEMMA PresentFacts ==
  ASSUME Inv
  PROVE  Len(log) \in Nat /\ present \subseteq 1..Len(log)
<1>1. Len(log) \in Nat
  BY SeqFacts DEF Inv, Shape
<1> QED
  BY <1>1 DEF Inv, ChainInv, SuffixInv

\* Deleting a batch with its checkpoint: what is left is a shorter suffix of
\* the log, and the checkpoint is the hash before it.
LEMMA PurgeCommitStep ==
  ASSUME Inv, NEW p \in Actor, PurgeCommit(p)
  PROVE  Inv'
<1>0. Nobody \notin Actor /\ DOMAIN pc = Actor
  BY AuditAssumption DEF Inv, Shape
<1>1. /\ settingsLock = p /\ mark[p] \in present /\ mark[p] < Len(log)
      /\ got[p] = HashOf(log[mark[p]]) /\ rows[p] = <<>>
  BY DEF PurgeCommit, Inv, ChainInv, AppendOK, PurgeOK
<1>2. /\ pc' = [pc EXCEPT ![p] = "again"]
      /\ present' = {i \in present : i > mark[p]} /\ checkpoint' = got[p]
      /\ UNCHANGED <<log, got, mark, rows, relinked>>
  BY DEF PurgeCommit, Goto, drainVars, verifyVars
<1>3. DomainsKept /\ OthersKeep(p)
  BY <1>0, <1>2 DEF PurgeCommit, Release, DomainsKept, OthersKeep, Inv, Shape
<1>4. Shape'
  BY <1>2, <1>3 DEF Inv, Shape, DomainsKept
<1>5. SuffixInv'
  <2>1. PICK k \in 0..Len(log) : present = k + 1 .. Len(log)
    BY DEF Inv, ChainInv, SuffixInv
  <2>2. Len(log) \in Nat /\ mark[p] \in k + 1 .. Len(log)
    BY <1>1, <2>1, PresentFacts
  <2>3. /\ mark[p] \in 0..Len(log) /\ mark[p] # 0 /\ mark[p] < Len(log)
        /\ present' = mark[p] + 1 .. Len(log)
    BY <1>1, <1>2, <2>1, <2>2
  <2>4. checkpoint' = IF mark[p] = 0 THEN Genesis ELSE HashOf(log[mark[p]])
    BY <1>1, <1>2, <2>3
  <2>5. Continues(log, Genesis)
    BY DEF Inv, ChainInv, SuffixInv
  <2>6. log' = log
    BY <1>2
  <2> QED
    BY <2>3, <2>4, <2>5, <2>6 DEF SuffixInv
<1>6. AppendOK(p)' /\ PurgeOK(p)'
  BY <1>0, <1>1, <1>2 DEF AppendOK, PurgeOK
<1>7. ASSUME NEW b \in Actor \ {p} PROVE AppendOK(b)' /\ PurgeOK(b)'
  <2>1. AppendOK(b) /\ PurgeOK(b)
    BY DEF Inv, ChainInv
  <2>2. AppendOK(b)'
    BY <1>2, <1>3, <2>1 DEF OthersKeep, AppendOK
  <2>3. pc'[b] \notin {"max", "kept", "ids", "tip", "delete", "end"}
    BY <1>1, <1>3, <2>1 DEF OthersKeep, PurgeOK
  <2>4. PurgeOK(b)'
    BY <2>3 DEF PurgeOK
  <2> QED
    BY <2>2, <2>4
<1> QED
  BY <1>4, <1>5, <1>6, <1>7 DEF Inv, ChainInv

\* The purge's steps preserve the invariant.
LEMMA PurgeStepInv ==
  ASSUME Inv, NEW p \in Actor, PurgeBegin(p) \/ PurgeOff(p) \/ PurgeStep(p)
  PROVE  Inv'
<1> USE DEF db, locks, writeVars, purgeVars, drainVars, verifyVars
<1>0. /\ Nobody \notin Actor /\ DOMAIN pc = Actor /\ DOMAIN got = Actor
      /\ DOMAIN mark = Actor
      /\ PurgeOK(p)
  BY AuditAssumption DEF Inv, Shape, ChainInv
<1>1. CASE PurgeBegin(p)
  BY <1>0, <1>1, PurgeMove DEF PurgeBegin
<1>2. CASE PurgeOff(p)
  BY <1>0, <1>2, PurgeMove DEF PurgeOff, PurgeOK
<1>3. CASE PurgeMax(p)
  <2>0. settingsLock = p
    BY <1>0, <1>3 DEF PurgeMax, PurgeOK
  <2>1. CASE Goto(p, "end") /\ UNCHANGED mark
    BY <1>0, <1>3, <2>0, <2>1, PurgeMove DEF PurgeMax
  <2>2. ASSUME NEW i \in present, mark' = [mark EXCEPT ![p] = i], Goto(p, "kept")
        PROVE  Inv'
    BY <1>0, <1>3, <2>0, <2>2, PurgeMove, PresentFacts DEF PurgeMax
  <2> QED
    BY <1>3, <2>1, <2>2 DEF PurgeMax
<1>4. CASE PurgeKept(p)
  <2>0. settingsLock = p /\ mark[p] \in 1..Len(log)
    BY <1>0, <1>4 DEF PurgeKept, PurgeOK
  <2>1. CASE UNCHANGED mark
    BY <1>0, <1>4, <2>0, <2>1, PurgeMove DEF PurgeKept
  <2>2. ASSUME NEW i \in present, mark' = [mark EXCEPT ![p] = i]
        PROVE  Inv'
    BY <1>0, <1>4, <2>0, <2>2, PurgeMove, PresentFacts DEF PurgeKept
  <2> QED
    BY <1>4, <2>1, <2>2 DEF PurgeKept
<1>5. CASE PurgeIds(p)
  <2>0. settingsLock = p /\ mark[p] \in 1..Len(log)
    BY <1>0, <1>5 DEF PurgeIds, PurgeOK
  <2>1. CASE Goto(p, "end") /\ UNCHANGED mark
    BY <1>0, <1>5, <2>0, <2>1, PurgeMove DEF PurgeIds
  <2>2. ASSUME NEW i \in present, IsTip(p, i), mark' = [mark EXCEPT ![p] = i],
               Goto(p, "tip")
        PROVE  Inv'
    <3>1. i < Len(log)
      BY <2>0, <2>2, PresentFacts DEF IsTip
    <3> QED
      BY <1>0, <1>5, <2>0, <2>2, <3>1, PurgeMove DEF PurgeIds
  <2> QED
    BY <1>5, <2>1, <2>2 DEF PurgeIds
<1>6. CASE PurgeTipHash(p)
  <2>0. settingsLock = p /\ mark[p] \in present /\ mark[p] < Len(log)
    BY <1>0, <1>6 DEF PurgeTipHash, PurgeOK
  <2> QED
    BY <1>0, <1>6, <2>0, PurgeMove DEF PurgeTipHash, Read
<1>7. CASE PurgeCommit(p)
  BY <1>7, PurgeCommitStep
<1>8. CASE PurgeEnd(p)
  <2>1. (IF purged[p] THEN "summary" ELSE "idle") \in {"summary", "idle"}
    OBVIOUS
  <2> QED
    BY <1>0, <1>8, <2>1, MoveStep DEF PurgeEnd, Release
<1>9. CASE PurgeSummary(p)
  <2>1. CASE NewEntry(p, "background")
    BY <1>0, <1>9, <2>1, MoveStep DEF PurgeSummary, NewEntry
  <2>2. CASE Goto(p, "idle") /\ UNCHANGED writeVars
    BY <1>0, <1>9, <2>2, MoveStep DEF PurgeSummary
  <2> QED
    BY <1>9, <2>1, <2>2 DEF PurgeSummary
<1> QED
  BY <1>1, <1>2, <1>3, <1>4, <1>5, <1>6, <1>7, <1>8, <1>9 DEF PurgeStep

-----------------------------------------------------------------------------
(* Verification, and the theorem.                                          *)

\* A verification reads and keeps what it read to itself.
LEMMA VerifyStep ==
  ASSUME Inv, NEW v \in Actor, Repairer = {}, Verify(v)
  PROVE  Inv'
<1> USE DEF db, locks, writeVars, purgeVars, drainVars, verifyVars
<1>0. DOMAIN pc = Actor /\ DOMAIN got = Actor /\ DOMAIN mark = Actor
  BY DEF Inv, Shape
<1>1. CASE VerifySeed(v)
  BY <1>0, <1>1, MoveStep DEF VerifySeed, Read
<1>2. CASE VerifyWalk(v)
  <2>1. /\ pc[v] = "walk" /\ pc' = [pc EXCEPT ![v] = "idle"]
        /\ \A b \in Actor \ {v} : mark'[b] = mark[b]
        /\ DOMAIN mark' = Actor
        /\ UNCHANGED <<log, present, checkpoint, got, rows, relinked, chainLock,
                       settingsLock>>
    BY <1>0, <1>2 DEF VerifyWalk, Goto
  <2>2. DomainsKept /\ OthersKeep(v)
    BY <1>0, <2>1 DEF DomainsKept, OthersKeep, Inv, Shape
  <2>3. IsSeq(rows'[v]) /\ relinked'[v] = <<>> /\ rows[v] = <<>>
    BY <2>1 DEF Inv, Shape, ChainInv, AppendOK
  <2>4. AppendOK(v)' /\ PurgeOK(v)'
    BY <1>0, <2>1, <2>3 DEF AppendOK, PurgeOK
  <2> QED
    BY <2>1, <2>2, <2>3, <2>4, LocalStep
<1> QED
  BY <1>1, <1>2 DEF Verify

\* Every step preserves the invariant.
LEMMA NextInv ==
  ASSUME Undamaged, Inv, [Next]_vars
  PROVE  Inv'
<1>1. Repairer = {} /\ Writer \cup Drainer \cup Purger \cup Verifier \subseteq Actor
  BY DEF Undamaged, Actor
<1>2. CASE Tick
  BY <1>2, IdleStep DEF Tick, db, locks, drainVars, verifyVars
<1>3. ASSUME NEW w \in Writer, NEW k \in Kinds, WriteLog(w, k) PROVE Inv'
  BY <1>1, <1>3, WriteStep
<1>4. ASSUME NEW a \in Writer \cup Purger \cup Repairer, Write(a) PROVE Inv'
  BY <1>1, <1>4, WriteStep, InsertStep DEF Write
<1>5. ASSUME NEW a \in Actor, TakeChainLock(a) \/ ReadTail(a) \/ Fail(a) PROVE Inv'
  BY <1>5, WriteStep, FailStep
<1>6. ASSUME NEW d \in Drainer, Drain(d) PROVE Inv'
  BY <1>1, <1>6, DrainStep
<1>7. ASSUME NEW p \in Purger, PurgeBegin(p) \/ PurgeOff(p) \/ PurgeStep(p) PROVE Inv'
  BY <1>1, <1>7, PurgeStepInv
<1>8. ASSUME NEW v \in Verifier \cup Repairer, Verify(v) PROVE Inv'
  BY <1>1, <1>8, VerifyStep
<1>9. CASE UNCHANGED vars
  BY <1>9, IdleStep DEF vars, db, locks, drainVars, verifyVars
<1> QED
  BY <1>1, <1>2, <1>3, <1>4, <1>5, <1>6, <1>7, <1>8, <1>9 DEF Next

\* The inductive invariant of appends, drains and purges, for every hash
\* function, number of actors and batch size.
THEOREM ChainInvariance ==
  ASSUME Undamaged
  PROVE  Spec => []ChainInv
<1>1. Init => Inv
  BY InitInv
<1>2. Inv /\ [Next]_vars => Inv'
  BY NextInv
<1>3. Inv => ChainInv
  BY DEF Inv
<1> QED
  BY <1>1, <1>2, <1>3, PTL DEF Spec

\* In every committed state verify_audit_chain, reading checkpoint and rows
\* together, would find the chain intact.
THEOREM ChainAlwaysVerifies ==
  ASSUME Undamaged
  PROVE  Spec => []ChainVerifies
<1>1. Init => Inv
  BY InitInv
<1>2. Inv /\ [Next]_vars => Inv'
  BY NextInv
<1>3. Inv => ChainVerifies
  BY InvVerifies
<1> QED
  BY <1>1, <1>2, <1>3, PTL DEF Spec

-----------------------------------------------------------------------------
(* Types, for every value of the constants: repairs and cut logs too.      *)

\* What write_log and the drain insert.
IsRow(row) == row.entry \in Entry /\ row = [entry |-> row.entry, prev |-> row.prev]

IsRows(s) == IsSeq(s) /\ \A i \in 1..Len(s) : IsRow(s[i])

Writing == {"process", "flush", "lock", "tail", "insert", "defer"}

DbOK == IsRows(log) /\ present \subseteq 1..Len(log) /\ pending \in Seq(Entry)

LocksOK ==
  /\ processLock \in [Process -> Actor \cup {Nobody}]
  /\ chainLock \in Actor \cup {Nobody} /\ settingsLock \in Actor \cup {Nobody}

CallsOK ==
  /\ DOMAIN pc = Actor
  /\ kind \in [Actor -> {"request", "settings", "background"}]
  /\ ent \in [Actor -> Entry \cup {NoEntry}]
  /\ \A a \in Actor \ Drainer : ent[a] # NoEntry <=> pc[a] \in Writing

ReadsOK ==
  /\ mark \in [Actor -> Nat] /\ past \in [Actor -> Nat]
  /\ verdict \in [Actor -> {"none", "valid", "broken"}]
  /\ cutoff \in Nat

DrainsOK ==
  /\ batch \in [Actor -> Seq(Entry)]
  /\ \A a \in Actor : batch[a] # <<>> => a \in Drainer
  /\ DOMAIN rows = Actor /\ \A a \in Actor : IsRows(rows[a])

HistoryOK == happened \in 0..MaxEntry /\ lost \subseteq Entry /\ faults \in 0..MaxFaults

PurgedOK == purged \in [Actor -> BOOLEAN]

TInv ==
  DbOK /\ LocksOK /\ CallsOK /\ ReadsOK /\ DrainsOK /\ HistoryOK /\ PurgedOK

\* Its parts are the type invariant.
LEMMA TInvTypes == TInv => TypeOK
<1> SUFFICES ASSUME TInv PROVE TypeOK
  OBVIOUS
<1>1. purged \in [Actor -> BOOLEAN]
  BY DEF TInv, PurgedOK
<1>2. \A i \in 1..Len(log) : log[i].entry \in Entry
  BY DEF TInv, DbOK, IsRows, IsRow
<1> QED
  BY <1>1, <1>2
  DEF TInv, DbOK, LocksOK, CallsOK, ReadsOK, DrainsOK, HistoryOK, TypeOK, Writing

\* Numbers of entries.
LEMMA EntryFacts ==
  /\ MaxEntry \in Nat /\ MaxFaults \in Nat /\ Entry \subseteq Nat \ {0} /\ NoEntry = 0
  /\ NoEntry \notin Entry
BY AuditAssumption DEF Entry, NoEntry

\* Initially.
LEMMA TInvInit == Init => TInv
<1> SUFFICES ASSUME Init PROVE TInv
  OBVIOUS
<1>1. IsSeq(InitLog) /\ Len(InitLog) \in Nat
  BY InitLogAssumption, SeqFacts DEF IsSeq
<1>2. DOMAIN InitLog = 1..Len(InitLog)
  BY <1>1, SeqFacts
<1>3. \A i \in 1..Len(InitLog) : IsRow(InitLog[i]) /\ InitLog[i].entry = i
  <2> DEFINE P == {InitLog[i].prev : i \in DOMAIN InitLog}
  <2>1. InitLog \in Seq([entry : Entry, prev : P]) /\ \A i \in DOMAIN InitLog : InitLog[i].entry = i
    BY InitLogAssumption
  <2> HIDE DEF P
  <2>2. ASSUME NEW i \in 1..Len(InitLog) PROVE IsRow(InitLog[i]) /\ InitLog[i].entry = i
    <3>0. PICK T : T = [entry : Entry, prev : P]
      OBVIOUS
    <3>1. InitLog[i] \in T
      <4>1. InitLog \in Seq(T)
        BY <2>1, <3>0
      <4> QED
        BY <4>1
    <3>2. \A r \in [entry : Entry, prev : P] :
            r.entry \in Entry /\ r = [entry |-> r.entry, prev |-> r.prev]
      OBVIOUS
    <3>3. IsRow(InitLog[i])
      BY <3>0, <3>1, <3>2 DEF IsRow
    <3> QED
      BY <1>2, <2>1, <3>3
  <2> QED
    BY <2>2
<1>4. \E cut \in Cuts : present = (1..Len(InitLog)) \ cut
  BY DEF Init
<1>5. DbOK
  BY <1>1, <1>3, <1>4 DEF Init, DbOK, IsRows
<1>6. LocksOK /\ CallsOK /\ PurgedOK
  BY AuditAssumption DEF Init, LocksOK, CallsOK, PurgedOK, Writing
<1>7. ReadsOK
  BY DEF Init, ReadsOK
<1>8. IsRows(<<>>)
  BY EmptyFacts DEF IsRows
<1>9. DrainsOK
  BY <1>8 DEF Init, DrainsOK
<1>10. Len(InitLog) \in 0..MaxEntry
  <2>1. CASE Len(InitLog) = 0
    BY <2>1, EntryFacts
  <2>2. CASE Len(InitLog) # 0
    <3>1. Len(InitLog) \in 1..Len(InitLog)
      BY <1>1, <2>2
    <3>2. Len(InitLog) \in Entry
      BY <1>3, <3>1 DEF IsRow
    <3> QED
      BY <3>2, EntryFacts DEF Entry
  <2> QED
    BY <2>1, <2>2
<1>11. HistoryOK
  BY <1>10, EntryFacts DEF Init, HistoryOK
<1> QED
  BY <1>5, <1>6, <1>7, <1>9, <1>11 DEF TInv

\* What a transaction sees has the entries of the log.
LEMMA ViewFacts ==
  ASSUME IsRows(log), NEW a
  PROVE  /\ IsRows(View(a)) /\ Len(View(a)) = Len(log)
         /\ \A i \in 1..Len(log) : View(a)[i].entry = log[i].entry
<1> DEFINE v == View(a)
<1>1. IsSeq(log) /\ Len(log) \in Nat
  BY SeqFacts DEF IsRows
<1>2. v = [i \in 1..Len(log) |-> v[i]]
  BY DEF View
<1>3. ASSUME NEW i \in 1..Len(log) PROVE IsRow(v[i]) /\ v[i].entry = log[i].entry
  <2>1. IsRow(log[i])
    BY DEF IsRows
  <2>2. ASSUME NEW r, IsRow(r), NEW h
        PROVE  IsRow([r EXCEPT !.prev = h]) /\ [r EXCEPT !.prev = h].entry = r.entry
    <3>1. PICK e, q : e \in Entry /\ r = [entry |-> e, prev |-> q]
      BY <2>2 DEF IsRow
    <3>2. [r EXCEPT !.prev = h] = [entry |-> e, prev |-> h]
      BY <3>1
    <3> QED
      BY <3>1, <3>2 DEF IsRow
  <2>3. CASE i \in DOMAIN relinked[a]
    <3>1. v[i] = [log[i] EXCEPT !.prev = relinked[a][i]]
      BY <2>3 DEF View
    <3> HIDE DEF v
    <3>2. PICK r, h : r = log[i] /\ h = relinked[a][i]
      OBVIOUS
    <3>3. v[i] = [r EXCEPT !.prev = h] /\ IsRow(r)
      BY <2>1, <3>1, <3>2
    <3>4. IsRow([r EXCEPT !.prev = h]) /\ [r EXCEPT !.prev = h].entry = r.entry
      BY <2>2, <3>3
    <3> QED
      BY <3>2, <3>3, <3>4
  <2>4. CASE i \notin DOMAIN relinked[a]
    <3>1. v[i] = log[i]
      BY <2>4 DEF View
    <3> QED
      BY <2>1, <3>1
  <2> QED
    BY <2>3, <2>4
<1> HIDE DEF v
<1>4. IsSeq(v)
  <2> DEFINE S == {v[i] : i \in 1..Len(log)}
  <2>1. \A i \in 1..Len(log) : v[i] \in S
    OBVIOUS
  <2> HIDE DEF S
  <2>2. v \in Seq(S)
    BY <1>1, <1>2, <2>1
  <2> QED
    BY <2>2 DEF IsSeq
<1>5. Len(v) = Len(log)
  <2>1. DOMAIN v = 1..Len(v) /\ Len(v) \in Nat
    BY <1>4, SeqFacts
  <2>2. DOMAIN v = 1..Len(log)
    BY <1>2
  <2> QED
    BY <1>1, <2>1, <2>2
<1> QED
  BY <1>3, <1>4, <1>5 DEF IsRows, v

\* One more row.
LEMMA AppendRows ==
  ASSUME NEW s, IsRows(s), NEW r, IsRow(r)
  PROVE  IsRows(Append(s, r))
<1>1. /\ IsSeq(Append(s, r)) /\ Len(Append(s, r)) = Len(s) + 1 /\ Len(s) \in Nat
      /\ \A i \in 1..Len(s) : Append(s, r)[i] = s[i]
      /\ Append(s, r)[Len(s) + 1] = r
  BY AppendFacts, SeqFacts DEF IsRows
<1>2. ASSUME NEW i \in 1..Len(Append(s, r)) PROVE IsRow(Append(s, r)[i])
  <2>1. i \in 1..Len(s) \/ i = Len(s) + 1
    BY <1>1
  <2> QED
    BY <1>1, <2>1 DEF IsRows
<1> QED
  BY <1>1, <1>2 DEF IsRows

\* More rows.
LEMMA ConcatRows ==
  ASSUME NEW s, IsRows(s), NEW t, IsRows(t)
  PROVE  /\ IsRows(s \o t) /\ Len(s \o t) = Len(s) + Len(t)
         /\ \A i \in 1..Len(s) : (s \o t)[i] = s[i]
         /\ \A i \in 1..Len(t) : (s \o t)[Len(s) + i] = t[i]
<1> DEFINE u == s \o t
<1>1. /\ IsSeq(u) /\ Len(u) = Len(s) + Len(t) /\ Len(s) \in Nat /\ Len(t) \in Nat
      /\ \A i \in 1..Len(s) + Len(t) : u[i] = IF i <= Len(s) THEN s[i] ELSE t[i - Len(s)]
  BY ConcatFacts, SeqFacts DEF IsRows
<1> HIDE DEF u
<1>2. \A i \in 1..Len(s) : u[i] = s[i]
  BY <1>1
<1>3. ASSUME NEW i \in 1..Len(t) PROVE u[Len(s) + i] = t[i]
  <2>1. PICK j \in 1..Len(s) + Len(t) : j = Len(s) + i
    BY <1>1
  <2>2. ~ (j <= Len(s)) /\ j - Len(s) = i
    BY <1>1, <2>1
  <2> QED
    BY <1>1, <2>1, <2>2
<1>4. ASSUME NEW i \in 1..Len(u) PROVE IsRow(u[i])
  <2>1. CASE i \in 1..Len(s)
    BY <1>2, <2>1 DEF IsRows
  <2>2. CASE i \notin 1..Len(s)
    <3>1. i - Len(s) \in 1..Len(t) /\ u[i] = t[i - Len(s)]
      BY <1>1, <2>2
    <3> QED
      BY <3>1 DEF IsRows
  <2> QED
    BY <2>1, <2>2
<1> QED
  BY <1>1, <1>2, <1>3, <1>4 DEF IsRows, u

\* The actions' actors.
LEMMA ActorFacts ==
  /\ Writer \cup Drainer \cup Purger \cup Verifier \cup Repairer = Actor
  /\ Nobody \notin Actor
  /\ (Writer \cup Purger \cup Verifier \cup Repairer) \cap Drainer = {}
BY AuditAssumption DEF Actor

\* Locks are held by actors.
LEMMA LocksStep ==
  ASSUME LocksOK, [Next]_vars
  PROVE  LocksOK'
<1> USE DEF LocksOK, locks
<1>1. ASSUME NEW a \in Actor, Release(a) PROVE LocksOK'
  BY <1>1 DEF Release
<1>2. ASSUME UNCHANGED locks PROVE LocksOK'
  BY <1>2
<1>3. CASE Tick
  BY <1>2, <1>3 DEF Tick
<1>4. ASSUME NEW w \in Writer, NEW k \in Kinds, WriteLog(w, k) PROVE LocksOK'
  BY <1>2, <1>4 DEF WriteLog
<1>5. ASSUME NEW a \in Writer \cup Purger \cup Repairer, Write(a) PROVE LocksOK'
  <2>1. a \in Actor
    BY ActorFacts
  <2>2. CASE EnterProcessLock(a)
    BY <2>1, <2>2, AuditAssumption DEF EnterProcessLock
  <2>3. CASE FlushSettings(a)
    BY <2>1, <2>3 DEF FlushSettings
  <2> QED
    BY <1>1, <1>2, <1>5, <2>1, <2>2, <2>3 DEF Write, LockTimeout, Defer, Insert
<1>6. ASSUME NEW a \in Actor, TakeChainLock(a) \/ ReadTail(a) \/ Fail(a) PROVE LocksOK'
  BY <1>1, <1>2, <1>6 DEF TakeChainLock, ReadTail, Fail
<1>7. ASSUME NEW d \in Drainer, Drain(d) PROVE LocksOK'
  BY <1>1, <1>2, <1>7, ActorFacts DEF Drain, ReadPending, ChainRow, DrainCommit
<1>8. ASSUME NEW p \in Purger, PurgeBegin(p) \/ PurgeOff(p) \/ PurgeStep(p) PROVE LocksOK'
  <2>1. p \in Actor
    BY ActorFacts
  <2>2. CASE PurgeBegin(p)
    BY <2>1, <2>2 DEF PurgeBegin
  <2> QED
    BY <1>1, <1>2, <1>8, <2>1, <2>2
    DEF PurgeOff, PurgeStep, PurgeMax, PurgeKept, PurgeIds, PurgeTipHash, PurgeCommit,
        PurgeEnd, PurgeSummary
<1>9. ASSUME NEW v \in Verifier \cup Repairer, Verify(v) PROVE LocksOK'
  BY <1>2, <1>9 DEF Verify, VerifySeed, VerifyWalk
<1>10. ASSUME NEW r \in Repairer, Repair(r) PROVE LocksOK'
  BY <1>2, <1>10, ActorFacts
  DEF Repair, RepairLock, RepairSeed, RepairHead, RepairRow, RepairEvent
<1>11. CASE UNCHANGED vars
  BY <1>2, <1>11 DEF vars
<1> QED
  BY <1>3, <1>4, <1>5, <1>6, <1>7, <1>8, <1>9, <1>10, <1>11 DEF Next

\* A purge's flag is a truth value.
LEMMA PurgedStep ==
  ASSUME PurgedOK, [Next]_vars
  PROVE  PurgedOK'
<1>1. ASSUME UNCHANGED purged PROVE PurgedOK'
  BY <1>1 DEF PurgedOK
<1>2. ASSUME NEW a \in Actor, NEW b \in BOOLEAN, purged' = [purged EXCEPT ![a] = b]
      PROVE  PurgedOK'
  BY <1>2, Zenon DEF PurgedOK
<1>3. \A p \in Purger : PurgeCommit(p) \/ PurgeEnd(p) => PurgedOK'
  BY <1>2, ActorFacts DEF PurgeCommit, PurgeEnd
<1>4. \A a \in Actor : Fail(a) => PurgedOK'
  BY <1>2 DEF Fail
<1> QED
  BY <1>1, <1>3, <1>4
  DEF Next, vars, purgeVars, Tick, WriteLog, Write, EnterProcessLock, FlushSettings,
      LockTimeout, Defer, Insert, TakeChainLock, ReadTail, Drain, ReadPending, ChainRow,
      DrainCommit, PurgeBegin, PurgeOff, PurgeStep, PurgeMax, PurgeKept, PurgeIds,
      PurgeTipHash, PurgeSummary, Verify, VerifySeed, VerifyWalk, Repair, RepairLock,
      RepairSeed, RepairHead, RepairRow, RepairEvent

\* The marks, cutoffs and verdicts that statements read.
LEMMA ReadsStep ==
  ASSUME DbOK, ReadsOK, [Next]_vars
  PROVE  ReadsOK'
<1>0. present \subseteq Nat
  BY SeqFacts DEF DbOK, IsRows
<1>1. ASSUME UNCHANGED <<mark, past, verdict, cutoff>> PROVE ReadsOK'
  BY <1>1 DEF ReadsOK
<1>2. ASSUME NEW a \in Actor, NEW n \in Nat, mark' = [mark EXCEPT ![a] = n],
             UNCHANGED <<past, verdict, cutoff>>
      PROVE  ReadsOK'
  BY <1>2 DEF ReadsOK
<1>3. CASE Tick
  BY <1>3 DEF Tick, ReadsOK, verifyVars
<1>4. ASSUME NEW p \in Purger, PurgeBegin(p) \/ PurgeOff(p) \/ PurgeStep(p) PROVE ReadsOK'
  <2>1. p \in Actor
    BY ActorFacts
  <2>2. CASE PurgeBegin(p)
    BY <2>1, <2>2 DEF PurgeBegin, ReadsOK, verifyVars
  <2>3. CASE PurgeMax(p)
    BY <1>0, <1>1, <1>2, <2>1, <2>3 DEF PurgeMax, purgeVars, verifyVars
  <2>4. CASE PurgeKept(p)
    BY <1>0, <1>1, <1>2, <2>1, <2>4 DEF PurgeKept, purgeVars, verifyVars
  <2>5. CASE PurgeIds(p)
    BY <1>0, <1>1, <1>2, <2>1, <2>5 DEF PurgeIds, purgeVars, verifyVars
  <2> QED
    BY <1>1, <1>4, <2>2, <2>3, <2>4, <2>5
    DEF PurgeOff, PurgeStep, PurgeTipHash, PurgeCommit, PurgeEnd, PurgeSummary,
        purgeVars, verifyVars
<1>5. ASSUME NEW v \in Verifier \cup Repairer, Verify(v) PROVE ReadsOK'
  <2>1. v \in Actor
    BY ActorFacts
  <2>2. CASE VerifySeed(v)
    BY <1>1, <2>2 DEF VerifySeed, purgeVars, verifyVars
  <2>3. CASE VerifyWalk(v)
    <3>1. \E x \in {"valid", "broken"} : verdict' = [verdict EXCEPT ![v] = x]
      BY <2>3 DEF VerifyWalk
    <3>2. mark' = mark \/ \E n \in present : mark' = [mark EXCEPT ![v] = n]
      BY <2>3 DEF VerifyWalk
    <3>3. verdict' \in [Actor -> {"none", "valid", "broken"}]
      BY <2>1, <3>1 DEF ReadsOK
    <3>4. mark' \in [Actor -> Nat]
      BY <1>0, <2>1, <3>2 DEF ReadsOK
    <3> QED
      BY <2>3, <3>3, <3>4 DEF VerifyWalk, purgeVars, ReadsOK
  <2> QED
    BY <1>5, <2>2, <2>3 DEF Verify
<1>6. ASSUME NEW r \in Repairer, Repair(r) PROVE ReadsOK'
  <2>1. r \in Actor
    BY ActorFacts
  <2>2. CASE RepairRow(r)
    <3>1. PICK i \in present : mark' = [mark EXCEPT ![r] = i + 1]
      BY <2>2 DEF RepairRow
    <3>2. i + 1 \in Nat
      BY <1>0
    <3> QED
      BY <1>2, <2>1, <2>2, <3>1, <3>2 DEF RepairRow, purgeVars
  <2> QED
    BY <1>1, <1>6, <2>2
    DEF Repair, RepairLock, RepairSeed, RepairHead, RepairEvent, purgeVars, verifyVars
<1>7. CASE \/ \E w \in Writer, k \in Kinds : WriteLog(w, k)
           \/ \E a \in Writer \cup Purger \cup Repairer : Write(a)
           \/ \E a \in Actor : TakeChainLock(a) \/ ReadTail(a) \/ Fail(a)
           \/ \E d \in Drainer : Drain(d)
           \/ UNCHANGED vars
  BY <1>1, <1>7
  DEF vars, purgeVars, verifyVars, WriteLog, Write, EnterProcessLock, FlushSettings,
      LockTimeout, Defer, Insert, TakeChainLock, ReadTail, Fail, Drain, ReadPending,
      ChainRow, DrainCommit
<1> QED
  BY <1>3, <1>4, <1>5, <1>6, <1>7 DEF Next

\* The counters and the lost entries.
LEMMA HistoryStep ==
  ASSUME CallsOK, HistoryOK, [Next]_vars
  PROVE  HistoryOK'
<1>1. ASSUME UNCHANGED <<happened, lost, faults>> PROVE HistoryOK'
  BY <1>1 DEF HistoryOK
<1>2. ASSUME NEW a, NEW k, NewEntry(a, k) PROVE HistoryOK'
  BY <1>2, EntryFacts DEF NewEntry, HistoryOK
<1>3. ASSUME NEW a \in Actor, Fail(a) PROVE HistoryOK'
  <2>1. ent[a] \in Entry \cup {NoEntry} /\ happened' = happened
    BY <1>3 DEF Fail, CallsOK
  <2>2. lost' \subseteq Entry
    BY <1>3, <2>1 DEF Fail, HistoryOK
  <2>3. faults' \in 0..MaxFaults
    BY <1>3, EntryFacts DEF Fail, HistoryOK
  <2> QED
    BY <2>1, <2>2, <2>3 DEF HistoryOK
<1> QED
  BY <1>1, <1>2, <1>3
  DEF Next, vars, writeVars, Tick, WriteLog, Write, EnterProcessLock, FlushSettings,
      LockTimeout, Defer, Insert, TakeChainLock, ReadTail, Drain, ReadPending, ChainRow,
      DrainCommit, PurgeBegin, PurgeOff, PurgeStep, PurgeMax, PurgeKept, PurgeIds,
      PurgeTipHash, PurgeCommit, PurgeEnd, PurgeSummary, Verify, VerifySeed, VerifyWalk,
      Repair, RepairLock, RepairSeed, RepairHead, RepairRow, RepairEvent

\* The drain's batch and rows.
LEMMA DrainsStep ==
  ASSUME DbOK, DrainsOK, [Next]_vars
  PROVE  DrainsOK'
<1>1. ASSUME UNCHANGED <<batch, rows>> PROVE DrainsOK'
  BY <1>1 DEF DrainsOK
<1>2. IsRows(<<>>)
  BY EmptyFacts DEF IsRows
<1>3. ASSUME NEW a \in Actor, NEW b \in Seq(Entry), batch' = [batch EXCEPT ![a] = b],
             a \in Drainer \/ b = <<>>
      PROVE  /\ batch' \in [Actor -> Seq(Entry)]
             /\ \A c \in Actor : batch'[c] # <<>> => c \in Drainer
  <2>1. batch \in [Actor -> Seq(Entry)] /\ \A c \in Actor : batch[c] # <<>> => c \in Drainer
    BY DEF DrainsOK
  <2>2. ASSUME NEW S, batch \in [Actor -> S], b \in S PROVE batch' \in [Actor -> S]
    BY <1>3, <2>2
  <2>3. batch' \in [Actor -> Seq(Entry)]
    BY <2>1, <2>2
  <2> QED
    BY <1>3, <2>1, <2>3
<1>4. ASSUME NEW a \in Actor, NEW s, IsRows(s), rows' = [rows EXCEPT ![a] = s]
      PROVE  DOMAIN rows' = Actor /\ \A c \in Actor : IsRows(rows'[c])
  BY <1>4 DEF DrainsOK
<1>5. ASSUME NEW a \in Actor, Fail(a) PROVE DrainsOK'
  <2>1. batch' = [batch EXCEPT ![a] = <<>>] /\ rows' = [rows EXCEPT ![a] = <<>>]
    BY <1>5 DEF Fail
  <2>2. <<>> \in Seq(Entry)
    OBVIOUS
  <2>3. /\ batch' \in [Actor -> Seq(Entry)]
        /\ \A c \in Actor : batch'[c] # <<>> => c \in Drainer
    BY <1>3, <2>1, <2>2
  <2>4. DOMAIN rows' = Actor /\ \A c \in Actor : IsRows(rows'[c])
    BY <1>2, <1>4, <2>1
  <2> QED
    BY <2>3, <2>4 DEF DrainsOK
<1>6. ASSUME NEW d \in Drainer, ReadPending(d) PROVE DrainsOK'
  <2>1. d \in Actor
    BY ActorFacts
  <2> DEFINE n == IF Len(pending) < DrainBatch THEN Len(pending) ELSE DrainBatch
  <2>2. batch' = [batch EXCEPT ![d] = SubSeq(pending, 1, n)] /\ rows' = rows
    BY <1>6 DEF ReadPending
  <2>3. pending \in Seq(Entry) /\ n \in Nat /\ n <= Len(pending)
    BY AuditAssumption DEF DbOK
  <2> HIDE DEF n
  <2>4. SubSeq(pending, 1, n) \in Seq(Entry)
    BY <2>3
  <2>5. /\ batch' \in [Actor -> Seq(Entry)]
        /\ \A c \in Actor : batch'[c] # <<>> => c \in Drainer
    BY <1>3, <2>1, <2>2, <2>4
  <2> QED
    BY <2>2, <2>5 DEF DrainsOK
<1>7. ASSUME NEW d \in Drainer, ChainRow(d) PROVE DrainsOK'
  <2>1. d \in Actor
    BY ActorFacts
  <2> DEFINE row == [entry |-> Head(batch[d]), prev |-> got[d]]
  <2>2. /\ batch' = [batch EXCEPT ![d] = Tail(batch[d])] /\ batch[d] # <<>>
        /\ rows' = [rows EXCEPT ![d] = Append(rows[d], row)]
    BY <1>7 DEF ChainRow
  <2>3. batch[d] \in Seq(Entry) /\ IsRows(rows[d])
    BY <2>1 DEF DrainsOK
  <2>4. Head(batch[d]) \in Entry /\ Tail(batch[d]) \in Seq(Entry)
    BY <2>2, <2>3
  <2>5. IsRow(row)
    BY <2>4 DEF IsRow
  <2> HIDE DEF row
  <2>6. IsRows(Append(rows[d], row))
    BY <2>3, <2>5, AppendRows
  <2>7. /\ batch' \in [Actor -> Seq(Entry)]
        /\ \A c \in Actor : batch'[c] # <<>> => c \in Drainer
    BY <1>3, <2>1, <2>2, <2>4
  <2>8. DOMAIN rows' = Actor /\ \A c \in Actor : IsRows(rows'[c])
    BY <1>4, <2>1, <2>2, <2>6
  <2> QED
    BY <2>7, <2>8 DEF DrainsOK
<1>8. ASSUME NEW d \in Drainer, DrainCommit(d) PROVE DrainsOK'
  <2>1. d \in Actor
    BY ActorFacts
  <2>2. rows' = [rows EXCEPT ![d] = <<>>] /\ batch' = batch
    BY <1>8 DEF DrainCommit
  <2>3. DOMAIN rows' = Actor /\ \A c \in Actor : IsRows(rows'[c])
    BY <1>2, <1>4, <2>1, <2>2
  <2> QED
    BY <2>2, <2>3 DEF DrainsOK
<1> QED
  BY <1>1, <1>5, <1>6, <1>7, <1>8
  DEF Next, vars, drainVars, Tick, WriteLog, Write, EnterProcessLock, FlushSettings,
      LockTimeout, Defer, Insert, TakeChainLock, ReadTail, Drain, PurgeBegin, PurgeOff,
      PurgeStep, PurgeMax, PurgeKept, PurgeIds, PurgeTipHash, PurgeCommit, PurgeEnd,
      PurgeSummary, Verify, VerifySeed, VerifyWalk, Repair, RepairLock, RepairSeed,
      RepairHead, RepairRow, RepairEvent

\* A transaction has an entry exactly while it runs write_log.
LEMMA CallsStep ==
  ASSUME CallsOK, HistoryOK, [Next]_vars
  PROVE  CallsOK'
<1>1. ASSUME UNCHANGED <<pc, kind, ent>> PROVE CallsOK'
  BY <1>1 DEF CallsOK
<1>2. ASSUME NEW a \in Actor, NEW label, pc' = [pc EXCEPT ![a] = label],
             UNCHANGED <<kind, ent>>,
             a \notin Drainer => (label \in Writing <=> pc[a] \in Writing)
      PROVE  CallsOK'
  BY <1>2 DEF CallsOK
<1>3. ASSUME NEW a \in Actor, pc' = [pc EXCEPT ![a] = "idle"], kind' = kind,
             ent' = [ent EXCEPT ![a] = NoEntry]
      PROVE  CallsOK'
  BY <1>3 DEF CallsOK, Writing
<1>4. ASSUME NEW a \in Actor, NEW k \in {"request", "settings", "background"}, NewEntry(a, k)
      PROVE  CallsOK'
  <2>1. /\ pc' = [pc EXCEPT ![a] = "process"] /\ ent' = [ent EXCEPT ![a] = happened + 1]
        /\ kind' = [kind EXCEPT ![a] = k] /\ happened + 1 \in Entry
    BY <1>4, EntryFacts DEF NewEntry, Goto, HistoryOK, Entry
  <2>2. happened + 1 # NoEntry
    BY <2>1, EntryFacts
  <2>3. kind' \in [Actor -> {"request", "settings", "background"}]
    BY <2>1 DEF CallsOK
  <2> QED
    BY <2>1, <2>2, <2>3 DEF CallsOK, Writing
<1>5. CASE Tick
  BY <1>1, <1>5 DEF Tick, writeVars
<1>6. ASSUME NEW w \in Writer, NEW k \in Kinds, WriteLog(w, k) PROVE CallsOK'
  <2>1. w \in Actor /\ k \in {"request", "settings", "background"}
    BY ActorFacts, AuditAssumption
  <2> QED
    BY <1>4, <1>6, <2>1 DEF WriteLog
<1>7. ASSUME NEW a \in Writer \cup Purger \cup Repairer, Write(a) PROVE CallsOK'
  <2>1. a \in Actor
    BY ActorFacts
  <2>2. CASE EnterProcessLock(a)
    <3>1. PICK label \in {"flush", "lock"} : pc' = [pc EXCEPT ![a] = label]
      BY <2>2 DEF EnterProcessLock, Goto
    <3> QED
      BY <1>2, <2>1, <2>2, <3>1 DEF EnterProcessLock, writeVars, Writing
  <2>3. CASE FlushSettings(a)
    BY <1>2, <2>1, <2>3 DEF FlushSettings, writeVars, Writing, Goto
  <2>4. CASE LockTimeout(a)
    BY <1>2, <2>1, <2>4 DEF LockTimeout, writeVars, Writing, Goto
  <2>5. CASE Defer(a) \/ Insert(a)
    BY <1>3, <2>1, <2>5 DEF Defer, Insert, Goto
  <2> QED
    BY <1>7, <2>2, <2>3, <2>4, <2>5 DEF Write
<1>8. ASSUME NEW a \in Actor, TakeChainLock(a) \/ ReadTail(a) \/ Fail(a) PROVE CallsOK'
  <2>1. CASE TakeChainLock(a)
    BY <1>2, <2>1 DEF TakeChainLock, writeVars, Writing, Goto
  <2>2. CASE ReadTail(a)
    <3>1. PICK label : /\ pc' = [pc EXCEPT ![a] = label]
                       /\ label = IF a \in Drainer THEN "chain" ELSE "insert"
      BY <2>2 DEF ReadTail, Goto
    <3> QED
      BY <1>2, <2>2, <3>1 DEF ReadTail, writeVars, Writing
  <2>3. CASE Fail(a)
    BY <1>3, <2>3 DEF Fail, Goto
  <2> QED
    BY <1>8, <2>1, <2>2, <2>3
<1>9. ASSUME NEW d \in Drainer, Drain(d) PROVE CallsOK'
  <2>1. d \in Actor
    BY ActorFacts
  <2> QED
    BY <1>1, <1>2, <1>9, <2>1 DEF Drain, ReadPending, ChainRow, DrainCommit, writeVars, Goto
<1>10. ASSUME NEW p \in Purger, PurgeBegin(p) \/ PurgeOff(p) \/ PurgeStep(p) PROVE CallsOK'
  <2>1. p \in Actor
    BY ActorFacts
  <2>2. ASSUME NEW label \in {"idle", "again", "max", "kept", "ids", "tip", "delete", "end",
                              "summary"},
               Goto(p, label), UNCHANGED <<kind, ent>>,
               pc[p] \in {"idle", "again", "max", "kept", "ids", "tip", "delete", "end",
                          "summary"}
        PROVE  CallsOK'
    BY <1>2, <2>1, <2>2 DEF Goto, Writing
  <2>3. CASE PurgeSummary(p)
    <3>1. CASE NewEntry(p, "background")
      BY <1>4, <2>1, <3>1
    <3>2. CASE Goto(p, "idle") /\ UNCHANGED writeVars
      BY <2>2, <2>3, <3>2 DEF PurgeSummary, writeVars
    <3> QED
      BY <2>3, <3>1, <3>2 DEF PurgeSummary
  <2>4. CASE PurgeEnd(p)
    <3>1. PICK label \in {"summary", "idle"} : Goto(p, label)
      BY <2>4 DEF PurgeEnd
    <3> QED
      BY <2>2, <2>4, <3>1 DEF PurgeEnd, writeVars
  <2>5. CASE PurgeBegin(p) \/ PurgeOff(p)
    BY <2>2, <2>5 DEF PurgeBegin, PurgeOff, writeVars
  <2>6. CASE PurgeMax(p) \/ PurgeKept(p) \/ PurgeIds(p)
    BY <2>2, <2>6 DEF PurgeMax, PurgeKept, PurgeIds, writeVars
  <2>7. CASE PurgeTipHash(p) \/ PurgeCommit(p)
    BY <2>2, <2>7 DEF PurgeTipHash, PurgeCommit, writeVars
  <2> QED
    BY <1>10, <2>3, <2>4, <2>5, <2>6, <2>7 DEF PurgeStep
<1>11. ASSUME NEW v \in Verifier \cup Repairer, Verify(v) PROVE CallsOK'
  <2>1. v \in Actor
    BY ActorFacts
  <2>2. CASE VerifySeed(v)
    BY <1>2, <2>1, <2>2 DEF VerifySeed, writeVars, Writing, Goto
  <2>3. CASE VerifyWalk(v)
    <3>1. PICK label \in {"idle", "repair"} : pc' = [pc EXCEPT ![v] = label]
      BY <2>3 DEF VerifyWalk, Goto
    <3> QED
      BY <1>2, <2>1, <2>3, <3>1 DEF VerifyWalk, writeVars, Writing
  <2> QED
    BY <1>11, <2>2, <2>3 DEF Verify
<1>12. ASSUME NEW r \in Repairer, Repair(r) PROVE CallsOK'
  <2>1. r \in Actor
    BY ActorFacts
  <2>2. CASE RepairLock(r) \/ RepairHead(r)
    BY <1>2, <2>1, <2>2 DEF RepairLock, RepairHead, writeVars, Writing, Goto
  <2>3. CASE RepairSeed(r)
    <3>1. PICK label \in {"relink", "head"} : pc' = [pc EXCEPT ![r] = label]
      BY <2>3 DEF RepairSeed, Goto
    <3> QED
      BY <1>2, <2>1, <2>3, <3>1 DEF RepairSeed, writeVars, Writing
  <2>4. CASE RepairRow(r)
    BY <1>1, <2>4 DEF RepairRow, writeVars
  <2>5. CASE RepairEvent(r)
    BY <1>4, <2>1, <2>5 DEF RepairEvent
  <2> QED
    BY <1>12, <2>2, <2>3, <2>4, <2>5 DEF Repair
<1>13. CASE UNCHANGED vars
  BY <1>1, <1>13 DEF vars, writeVars
<1> QED
  BY <1>5, <1>6, <1>7, <1>8, <1>9, <1>10, <1>11, <1>12, <1>13 DEF Next

\* What an insert adds to the log.
LEMMA InsertRows ==
  ASSUME TInv, NEW a \in Writer \cup Purger \cup Repairer, Insert(a)
  PROVE  /\ IsRows(log') /\ Len(log') = Len(log) + 1 /\ Len(log) \in Nat
         /\ \A i \in 1..Len(log) : log'[i].entry = log[i].entry
         /\ log'[Len(log) + 1].entry = ent[a] /\ ent[a] \in Entry
<1> DEFINE row == [entry |-> ent[a], prev |-> got[a]]
<1>1. log' = Append(View(a), row) /\ pc[a] = "insert"
  BY DEF Insert
<1>2. ent[a] \in Entry
  <2>1. a \in Actor \ Drainer
    BY ActorFacts
  <2> QED
    BY <1>1, <2>1 DEF TInv, CallsOK, Writing
<1>3. IsRow(row) /\ row.entry = ent[a]
  BY <1>2 DEF IsRow
<1> HIDE DEF row
<1>4. /\ IsRows(View(a)) /\ Len(View(a)) = Len(log)
      /\ \A i \in 1..Len(log) : View(a)[i].entry = log[i].entry
  BY ViewFacts DEF TInv, DbOK
<1>5. IsRows(log')
  BY <1>1, <1>3, <1>4, AppendRows
<1>6. /\ Len(log') = Len(log) + 1 /\ Len(log) \in Nat
      /\ \A i \in 1..Len(log) : log'[i] = View(a)[i]
      /\ log'[Len(log) + 1] = row
  BY <1>1, <1>4, AppendFacts, SeqFacts DEF IsRows
<1> QED
  BY <1>2, <1>3, <1>4, <1>5, <1>6

\* What a drain adds to the log, and what it leaves in the spool.
LEMMA DrainRows ==
  ASSUME TInv, NEW d \in Drainer, DrainCommit(d)
  PROVE  /\ IsRows(log') /\ Len(log') = Len(log) + Len(rows[d])
         /\ Len(log) \in Nat /\ Len(rows[d]) \in Nat
         /\ \A i \in 1..Len(log) : log'[i].entry = log[i].entry
         /\ \A i \in 1..Len(rows[d]) : log'[Len(log) + i].entry = rows[d][i].entry
         /\ pending' \in Seq(Entry)
<1>1. d \in Actor
  BY ActorFacts
<1>2. IsRows(log) /\ IsRows(rows[d]) /\ pending \in Seq(Entry)
  BY <1>1 DEF TInv, DbOK, DrainsOK
<1>3. log' = log \o rows[d] /\ pending' = StillPending(d)
  BY DEF DrainCommit
<1>4. Len(log) \in Nat /\ Len(rows[d]) \in Nat
  BY <1>2, SeqFacts DEF IsRows
<1>5. /\ IsRows(log') /\ Len(log') = Len(log) + Len(rows[d])
      /\ \A i \in 1..Len(log) : log'[i] = log[i]
      /\ \A i \in 1..Len(rows[d]) : log'[Len(log) + i] = rows[d][i]
  BY <1>2, <1>3, ConcatRows
<1>6. pending' \in Seq(Entry)
  <2> DEFINE S == {rows[d][i].entry : i \in DOMAIN rows[d]}
  <2>1. pending' = Without(pending, S)
    BY <1>3 DEF StillPending
  <2> HIDE DEF S
  <2>2. Without(pending, S) \in Seq(Entry \ S)
    BY <1>2, WithoutFacts
  <2> QED
    BY <2>1, <2>2
<1> QED
  BY <1>4, <1>5, <1>6

\* The tables.
LEMMA DbStep ==
  ASSUME TInv, [Next]_vars
  PROVE  DbOK'
<1> USE DEF db
<1>1. ASSUME UNCHANGED <<log, pending>>, present' \subseteq present PROVE DbOK'
  BY <1>1 DEF TInv, DbOK
<1>2. ASSUME NEW a \in Writer \cup Purger \cup Repairer, Insert(a) PROVE DbOK'
  <2>1. IsRows(log') /\ Len(log') = Len(log) + 1 /\ Len(log) \in Nat
    BY <1>2, InsertRows
  <2>2. present' = present \cup {Len(log) + 1} /\ pending' = pending
    BY <1>2 DEF Insert
  <2>3. present \subseteq 1..Len(log) /\ pending \in Seq(Entry)
    BY DEF TInv, DbOK
  <2>4. PICK n \in Nat : n = Len(log)
    BY <2>1
  <2>5. present' = present \cup {n + 1} /\ present \subseteq 1..n /\ Len(log') = n + 1
    BY <2>1, <2>2, <2>3, <2>4
  <2>6. 1..n \cup {n + 1} \subseteq 1..n + 1
    OBVIOUS
  <2>7. present' \subseteq 1..Len(log')
    BY <2>5, <2>6
  <2> QED
    BY <2>1, <2>2, <2>3, <2>7 DEF DbOK
<1>3. ASSUME NEW a \in Writer \cup Purger \cup Repairer, Defer(a) PROVE DbOK'
  <2>1. a \in Actor \ Drainer
    BY ActorFacts
  <2>2. ent[a] \in Entry
    BY <1>3, <2>1 DEF Defer, TInv, CallsOK, Writing
  <2>3. pending' = Append(pending, ent[a]) /\ UNCHANGED <<log, present>>
    BY <1>3 DEF Defer
  <2>4. pending' \in Seq(Entry)
    BY <2>2, <2>3 DEF TInv, DbOK
  <2> QED
    BY <2>3, <2>4 DEF TInv, DbOK
<1>4. ASSUME NEW d \in Drainer, DrainCommit(d) PROVE DbOK'
  <2>1. /\ IsRows(log') /\ Len(log') = Len(log) + Len(rows[d])
        /\ Len(log) \in Nat /\ Len(rows[d]) \in Nat
        /\ pending' \in Seq(Entry)
    BY <1>4, DrainRows
  <2>2. present' = present \cup Len(log) + 1 .. Len(log) + Len(rows[d])
    BY <1>4 DEF DrainCommit
  <2>3. present \subseteq 1..Len(log)
    BY DEF TInv, DbOK
  <2>4. PICK n, m \in Nat : n = Len(log) /\ m = Len(rows[d])
    BY <2>1
  <2>5. present' = present \cup n + 1 .. n + m /\ present \subseteq 1..n /\ Len(log') = n + m
    BY <2>1, <2>2, <2>3, <2>4
  <2>6. 1..n \cup n + 1 .. n + m \subseteq 1..n + m
    OBVIOUS
  <2>7. present' \subseteq 1..Len(log')
    BY <2>5, <2>6
  <2> QED
    BY <2>1, <2>7 DEF DbOK
<1>5. ASSUME NEW p \in Purger, PurgeCommit(p) PROVE DbOK'
  BY <1>1, <1>5 DEF PurgeCommit
<1> QED
  BY <1>1, <1>2, <1>3, <1>4, <1>5
  DEF Next, vars, Tick, WriteLog, Write, EnterProcessLock, FlushSettings, LockTimeout,
      TakeChainLock, ReadTail, Fail, Drain, ReadPending, ChainRow, PurgeBegin, PurgeOff,
      PurgeStep, PurgeMax, PurgeKept, PurgeIds, PurgeTipHash, PurgeEnd, PurgeSummary,
      Verify, VerifySeed, VerifyWalk, Repair, RepairLock, RepairSeed, RepairHead,
      RepairRow, RepairEvent

\* Every step keeps the types.
LEMMA TInvStep == ASSUME TInv, [Next]_vars PROVE TInv'
BY DbStep, LocksStep, CallsStep, ReadsStep, DrainsStep, HistoryStep, PurgedStep DEF TInv

\* Tables, locks and transactions have their types in every reachable state,
\* whatever drains, purges, verifies and repairs at the same time.
THEOREM TypeCorrect == Spec => []TypeOK
<1>1. TInv /\ [Next]_vars => TInv'
  BY TInvStep
<1> QED
  BY <1>1, TInvInit, TInvTypes, PTL DEF Spec

-----------------------------------------------------------------------------
(* No audited action is dropped.                                           *)

\* A transaction that begins an entry has none in its hands.
LEMMA FreeHands ==
  ASSUME TInv, NEW a \in Actor \ Drainer, pc[a] \notin Writing
  PROVE  ent[a] = NoEntry
BY DEF TInv, CallsOK

\* An entry begins in its transaction's hands, goes from there to chain, spool
\* or the server's log, and leaves the spool only for the chain.
LEMMA DropStep ==
  ASSUME TInv, NothingDropped, [Next]_vars
  PROVE  NothingDropped'
<1> DEFINE Hands == {ent[a] : a \in Actor}
<1>0. TInv'
  BY TInvStep
<1>1. DOMAIN ent = Actor /\ happened \in Nat /\ NoEntry \notin 1..happened
  BY EntryFacts DEF TInv, CallsOK, HistoryOK
<1>2. \A e \in 1..happened : e \in Chained \/ e \in Spooled \/ e \in lost \/ e \in Hands
  BY DEF NothingDropped
<1>3. ASSUME UNCHANGED <<log, pending, lost, ent, happened>> PROVE NothingDropped'
  BY <1>3 DEF NothingDropped, Chained, Spooled
<1>4. ASSUME NEW a \in Actor, NEW k, NewEntry(a, k), UNCHANGED <<log, pending>>,
             ent[a] = NoEntry
      PROVE  NothingDropped'
  <2>1. /\ happened' = happened + 1 /\ ent' = [ent EXCEPT ![a] = happened + 1]
        /\ lost' = lost /\ Chained' = Chained /\ Spooled' = Spooled
    BY <1>4 DEF NewEntry, Chained, Spooled
  <2>2. ASSUME NEW e \in 1..happened' PROVE e \in Chained \cup Spooled \cup lost \cup Hands'
    <3>1. CASE e = happened + 1
      <4>1. ent'[a] = e
        BY <1>1, <2>1, <3>1
      <4> QED
        BY <4>1
    <3>2. CASE e \in 1..happened
      <4>1. CASE e \in Hands
        <5>1. PICK b \in Actor : e = ent[b]
          BY <4>1
        <5>2. b # a /\ ent'[b] = e
          BY <1>1, <1>4, <2>1, <3>2, <5>1
        <5> QED
          BY <5>2
      <4> QED
        BY <1>2, <3>2, <4>1
    <3> QED
      BY <1>1, <2>1, <3>1, <3>2
  <2> QED
    BY <2>1, <2>2 DEF NothingDropped
<1>5. ASSUME NEW a \in Actor, ent' = [ent EXCEPT ![a] = NoEntry], happened' = happened,
             Chained \cup Spooled \subseteq Chained' \cup Spooled', lost \subseteq lost',
             ent[a] \in Chained' \cup Spooled' \cup lost' \cup {NoEntry}
      PROVE  NothingDropped'
  <2>1. ASSUME NEW e \in 1..happened
        PROVE  e \in Chained' \cup Spooled' \cup lost' \cup Hands'
    <3>1. CASE e \in Hands
      <4>1. PICK b \in Actor : e = ent[b]
        BY <3>1
      <4>2. CASE b = a
        BY <1>1, <1>5, <4>1, <4>2
      <4>3. CASE b # a
        <5>1. ent'[b] = e
          BY <1>1, <1>5, <4>1, <4>3
        <5> QED
          BY <5>1
      <4> QED
        BY <4>2, <4>3
    <3> QED
      BY <1>2, <1>5, <3>1
  <2> QED
    BY <1>5, <2>1 DEF NothingDropped
<1>6. ASSUME NEW a \in Writer \cup Purger \cup Repairer, Defer(a) PROVE NothingDropped'
  <2>1. /\ pending' = Append(pending, ent[a]) /\ UNCHANGED <<log, lost, happened>>
        /\ ent' = [ent EXCEPT ![a] = NoEntry] /\ a \in Actor /\ pending \in Seq(Entry)
    BY <1>6, ActorFacts DEF Defer, TInv, DbOK
  <2>2. /\ Len(pending') = Len(pending) + 1 /\ Len(pending) \in Nat
        /\ \A i \in 1..Len(pending) : pending'[i] = pending[i]
        /\ pending'[Len(pending) + 1] = ent[a]
    BY <2>1, AppendFacts DEF IsSeq
  <2>3. PICK n \in Nat : n = Len(pending)
    BY <2>2
  <2>4. 1..n \subseteq 1..n + 1 /\ n + 1 \in 1..n + 1
    OBVIOUS
  <2>5. Spooled \subseteq Spooled' /\ ent[a] \in Spooled'
    BY <2>2, <2>3, <2>4 DEF Spooled
  <2>6. Chained' = Chained
    BY <2>1 DEF Chained
  <2> QED
    BY <1>5, <2>1, <2>5, <2>6
<1>7. ASSUME NEW a \in Writer \cup Purger \cup Repairer, Insert(a) PROVE NothingDropped'
  <2>1. /\ Len(log') = Len(log) + 1 /\ Len(log) \in Nat
        /\ \A i \in 1..Len(log) : log'[i].entry = log[i].entry
        /\ log'[Len(log) + 1].entry = ent[a]
    BY <1>7, InsertRows
  <2>2. PICK n \in Nat : n = Len(log)
    BY <2>1
  <2>3. 1..n \subseteq 1..n + 1 /\ n + 1 \in 1..n + 1
    OBVIOUS
  <2>4. Chained \subseteq Chained' /\ ent[a] \in Chained'
    BY <2>1, <2>2, <2>3 DEF Chained
  <2>5. /\ UNCHANGED <<pending, lost, happened>> /\ ent' = [ent EXCEPT ![a] = NoEntry]
        /\ a \in Actor
    BY <1>7, ActorFacts DEF Insert
  <2>6. Spooled' = Spooled
    BY <2>5 DEF Spooled
  <2> QED
    BY <1>5, <2>4, <2>5, <2>6
<1>8. ASSUME NEW a \in Actor, Fail(a) PROVE NothingDropped'
  <2>1. /\ UNCHANGED <<log, pending, happened>> /\ ent' = [ent EXCEPT ![a] = NoEntry]
        /\ lost' = IF ent[a] = NoEntry THEN lost ELSE lost \cup {ent[a]}
    BY <1>8 DEF Fail, db
  <2>2. Chained' = Chained /\ Spooled' = Spooled
    BY <2>1 DEF Chained, Spooled
  <2> QED
    BY <1>5, <2>1, <2>2
<1>9. ASSUME NEW d \in Drainer, DrainCommit(d) PROVE NothingDropped'
  <2>1. /\ Len(log') = Len(log) + Len(rows[d])
        /\ Len(log) \in Nat /\ Len(rows[d]) \in Nat
        /\ \A i \in 1..Len(log) : log'[i].entry = log[i].entry
        /\ \A i \in 1..Len(rows[d]) : log'[Len(log) + i].entry = rows[d][i].entry
    BY <1>9, DrainRows
  <2>2. PICK n, m \in Nat : n = Len(log) /\ m = Len(rows[d])
    BY <2>1
  <2>3. 1..n \subseteq 1..n + m /\ \A i \in 1..m : n + i \in 1..n + m
    OBVIOUS
  <2>4. Chained \subseteq Chained' /\ \A i \in 1..m : rows[d][i].entry \in Chained'
    BY <2>1, <2>2, <2>3 DEF Chained
  <2>5. UNCHANGED <<lost, happened, ent>> /\ pending' = StillPending(d)
    BY <1>9 DEF DrainCommit, writeVars
  <2>6. Spooled \subseteq Chained' \cup Spooled'
    <3> DEFINE S == {rows[d][i].entry : i \in DOMAIN rows[d]}
    <3>1. S \subseteq Chained'
      <4>1. d \in Actor
        BY ActorFacts
      <4>2. DOMAIN rows[d] = 1..m
        BY <2>2, <4>1, SeqFacts DEF TInv, DrainsOK, IsRows
      <4> QED
        BY <2>4, <4>2
    <3>2. pending' = Without(pending, S) /\ pending \in Seq(Entry)
      BY <2>5 DEF StillPending, TInv, DbOK
    <3> HIDE DEF S
    <3>3. PICK w : w = Without(pending, S)
      OBVIOUS
    <3>4. \A j \in 1..Len(pending) :
            pending[j] \notin S => \E c \in 1..Len(w) : w[c] = pending[j]
      <4>1. pending \in Seq(Entry)
        BY <3>2
      <4>2. Filters(w, pending, S)
        BY <3>3, <4>1, WithoutFacts
      <4> QED
        BY <4>2 DEF Filters
    <3>5. pending' = w
      BY <3>2, <3>3
    <3> QED
      BY <3>1, <3>4, <3>5 DEF Spooled
  <2>7. ASSUME NEW e \in 1..happened
        PROVE  e \in Chained' \cup Spooled' \cup lost' \cup Hands'
    BY <1>2, <2>4, <2>5, <2>6
  <2> QED
    BY <2>5, <2>7 DEF NothingDropped
<1>10. ASSUME NEW w \in Writer, NEW k \in Kinds, WriteLog(w, k) PROVE NothingDropped'
  <2>1. w \in Actor \ Drainer
    BY ActorFacts
  <2>2. ent[w] = NoEntry
    BY <1>10, <2>1, FreeHands DEF WriteLog, Writing
  <2> QED
    BY <1>4, <1>10, <2>1, <2>2 DEF WriteLog, db
<1>11. ASSUME NEW p \in Purger, PurgeSummary(p) PROVE NothingDropped'
  <2>1. p \in Actor \ Drainer
    BY ActorFacts
  <2>2. ent[p] = NoEntry
    BY <1>11, <2>1, FreeHands DEF PurgeSummary, Writing
  <2> QED
    BY <1>3, <1>4, <1>11, <2>1, <2>2 DEF PurgeSummary, db, writeVars
<1>12. ASSUME NEW r \in Repairer, RepairEvent(r) PROVE NothingDropped'
  <2>1. r \in Actor \ Drainer
    BY ActorFacts
  <2>2. ent[r] = NoEntry
    BY <1>12, <2>1, FreeHands DEF RepairEvent, Writing
  <2> QED
    BY <1>4, <1>12, <2>1, <2>2 DEF RepairEvent, db
<1> HIDE DEF Hands
<1> QED
  BY <1>3, <1>6, <1>7, <1>8, <1>9, <1>10, <1>11, <1>12
  DEF Next, vars, db, writeVars, Tick, Write, EnterProcessLock, FlushSettings, LockTimeout,
      TakeChainLock, ReadTail, Drain, ReadPending, ChainRow, PurgeBegin, PurgeOff,
      PurgeStep, PurgeMax, PurgeKept, PurgeIds, PurgeTipHash, PurgeCommit, PurgeEnd,
      Verify, VerifySeed, VerifyWalk, Repair, RepairLock, RepairSeed, RepairHead,
      RepairRow

\* Every audited action is in the chain, in the spool, being written, or lost
\* with an error in the server's log: for any number of writers, drains,
\* purges and repairs, on an intact or a cut log.
THEOREM NeverDropped == Spec => []NothingDropped
<1>1. Init => NothingDropped
  <2> SUFFICES ASSUME Init PROVE NothingDropped
    OBVIOUS
  <2>1. IsSeq(InitLog) /\ \A i \in DOMAIN InitLog : InitLog[i].entry = i
    BY InitLogAssumption DEF IsSeq
  <2>2. DOMAIN InitLog = 1..Len(InitLog)
    BY <2>1, SeqFacts
  <2>3. 1..happened \subseteq Chained
    BY <2>1, <2>2 DEF Init, Chained
  <2> QED
    BY <2>3 DEF NothingDropped
<1>2. TInv /\ NothingDropped /\ [Next]_vars => TInv' /\ NothingDropped'
  BY TInvStep, DropStep
<1> QED
  BY <1>1, <1>2, TInvInit, PTL DEF Spec

-----------------------------------------------------------------------------
(* The purge deletes nothing young.                                        *)

Deciding == {"kept", "ids", "tip", "delete"}

\* A purge's cutoff is not ahead of the clock; what it goes on to delete is
\* before a row that it saw, and older than its cutoff.
PurgeAge(p) ==
  /\ past[p] <= cutoff
  /\ pc[p] \in Deciding => mark[p] \in 1..Len(log)
  /\ pc[p] = "ids" => \A j \in present : j < mark[p] => log[j].entry < past[p]
  /\ pc[p] \in {"tip", "delete"} => \A j \in present : j <= mark[p] => log[j].entry < past[p]

YoungInv == RetainsYoung /\ \A p \in Purger : PurgeAge(p)

\* The table keeps its rows, but for their previous_hash, and may get more.
Grows ==
  /\ Len(log) \in Nat /\ Len(log') \in Nat /\ Len(log) <= Len(log')
  /\ \A i \in 1..Len(log) : log'[i].entry = log[i].entry
  /\ \A i \in 1..Len(log') : i \in present' <=> i \in present \/ i > Len(log)

\* p's purge is where it was, or is not deciding what to delete.
Waits(p) ==
  /\ past'[p] = past[p]
  /\ pc'[p] \in Deciding => pc'[p] = pc[p] /\ mark'[p] = mark[p]

\* A step that deletes nothing preserves the invariant, if what purges decided
\* stands: the rows that are added are behind what they decided about.
LEMMA GrowsYoung ==
  ASSUME TInv, TInv', YoungInv, Grows, cutoff <= cutoff',
         \A p \in Purger : Waits(p) \/ PurgeAge(p)'
  PROVE  YoungInv'
<1>1. /\ cutoff \in Nat /\ cutoff' \in Nat
      /\ \A p \in Purger : past[p] \in Nat /\ mark[p] \in Nat
  BY ActorFacts DEF TInv, ReadsOK
<1>2. \A i \in 1..Len(log) : log[i].entry \in Nat
  BY EntryFacts DEF TInv, DbOK, IsRows, IsRow
<1>3. present \subseteq 1..Len(log) /\ present' \subseteq 1..Len(log')
  BY DEF TInv, DbOK
<1>4. RetainsYoung'
  <2>1. ASSUME NEW i \in 1..Len(log'), i \notin present' PROVE log'[i].entry < cutoff'
    <3>1. i \in 1..Len(log) /\ i \notin present /\ log'[i].entry = log[i].entry
      BY <2>1 DEF Grows
    <3>2. log[i].entry < cutoff /\ log[i].entry \in Nat
      BY <1>2, <3>1 DEF YoungInv, RetainsYoung
    <3> QED
      BY <1>1, <3>1, <3>2
  <2> QED
    BY <2>1 DEF RetainsYoung
<1>5. ASSUME NEW p \in Purger PROVE PurgeAge(p)'
  <2>1. CASE Waits(p)
    <3>1. past'[p] = past[p] /\ PurgeAge(p) /\ past[p] \in Nat /\ mark[p] \in Nat
      BY <1>1, <2>1 DEF Waits, YoungInv
    <3>2. past'[p] <= cutoff'
      BY <1>1, <3>1 DEF PurgeAge
    <3>3. CASE pc'[p] \notin Deciding
      BY <3>2, <3>3 DEF PurgeAge, Deciding
    <3>4. CASE pc'[p] \in Deciding
      <4>1. pc'[p] = pc[p] /\ mark'[p] = mark[p]
        BY <2>1, <3>4 DEF Waits
      <4>2. mark[p] \in 1..Len(log)
        BY <3>1, <3>4, <4>1 DEF PurgeAge
      <4>3. mark'[p] \in 1..Len(log')
        BY <4>1, <4>2 DEF Grows
      <4>4. ASSUME NEW j \in present', j <= mark[p]
            PROVE  j \in present /\ log'[j].entry = log[j].entry
        <5>1. j \in 1..Len(log') /\ ~ (j > Len(log))
          BY <1>3, <4>2, <4>4 DEF Grows
        <5>2. j \in present
          BY <5>1 DEF Grows
        <5>3. j \in 1..Len(log)
          BY <1>3, <5>2
        <5> QED
          BY <5>2, <5>3 DEF Grows
      <4>5. pc'[p] = "ids" => \A j \in present' : j < mark'[p] => log'[j].entry < past'[p]
        <5> SUFFICES ASSUME pc'[p] = "ids", NEW j \in present', j < mark[p]
                     PROVE  log'[j].entry < past[p]
          BY <3>1, <4>1
        <5>1. j <= mark[p]
          BY <1>3, <3>1 DEF Grows
        <5> QED
          BY <3>1, <4>1, <4>4, <5>1 DEF PurgeAge
      <4>6. pc'[p] \in {"tip", "delete"} =>
              \A j \in present' : j <= mark'[p] => log'[j].entry < past'[p]
        BY <3>1, <4>1, <4>4 DEF PurgeAge
      <4> QED
        BY <3>2, <4>3, <4>5, <4>6 DEF PurgeAge
    <3> QED
      BY <3>3, <3>4
  <2> QED
    BY <2>1
<1> QED
  BY <1>4, <1>5 DEF YoungInv

\* A table that no step touches grows by nothing.
LEMMA GrowsNot == ASSUME TInv, UNCHANGED <<log, present>> PROVE Grows
<1>1. Len(log) \in Nat /\ present \subseteq 1..Len(log)
  BY SeqFacts DEF TInv, DbOK, IsRows
<1> QED
  BY <1>1 DEF Grows

\* The steps of writers, drains, verifications and repairs.
LEMMA OtherYoung ==
  ASSUME TInv, TInv', YoungInv,
         \/ Tick
         \/ \E w \in Writer, k \in Kinds : WriteLog(w, k)
         \/ \E a \in Writer \cup Purger \cup Repairer : Write(a)
         \/ \E a \in Actor : TakeChainLock(a) \/ ReadTail(a) \/ Fail(a)
         \/ \E d \in Drainer : Drain(d)
         \/ \E v \in Verifier \cup Repairer : Verify(v)
         \/ \E r \in Repairer : Repair(r)
         \/ UNCHANGED vars
  PROVE  YoungInv'
<1> USE DEF db, purgeVars
<1>0. DOMAIN pc = Actor /\ mark \in [Actor -> Nat] /\ cutoff \in Nat /\ Purger \subseteq Actor
  BY ActorFacts DEF TInv, CallsOK, ReadsOK
<1>1. ASSUME NEW a \in Actor, NEW label, Goto(a, label), label \notin Deciding, past' = past,
             \A b \in Actor \ {a} : mark'[b] = mark[b]
      PROVE  \A p \in Purger : Waits(p)
  BY <1>0, <1>1 DEF Goto, Waits
<1>2. ASSUME UNCHANGED <<pc, mark, past>> PROVE \A p \in Purger : Waits(p)
  BY <1>2 DEF Waits
<1>3. ASSUME Grows, cutoff' = cutoff, \A p \in Purger : Waits(p) PROVE YoungInv'
  BY <1>0, <1>3, GrowsYoung
<1>4. ASSUME UNCHANGED <<log, present, cutoff>>, \A p \in Purger : Waits(p) PROVE YoungInv'
  BY <1>3, <1>4, GrowsNot
<1>5. CASE Tick
  <2>1. cutoff <= cutoff' /\ UNCHANGED <<log, present, pc, mark, past>>
    BY <1>0, <1>5 DEF Tick
  <2> QED
    BY <1>2, <2>1, GrowsNot, GrowsYoung
<1>6. ASSUME NEW a \in Actor, NEW label, Goto(a, label), label \notin Deciding, past' = past,
             \A b \in Actor \ {a} : mark'[b] = mark[b],
             UNCHANGED <<log, present, cutoff>>
      PROVE  YoungInv'
  BY <1>1, <1>4, <1>6
<1>7. ASSUME NEW w \in Writer, NEW k \in Kinds, WriteLog(w, k) PROVE YoungInv'
  BY <1>6, <1>7, ActorFacts DEF WriteLog, NewEntry, Deciding
<1>8. ASSUME NEW a \in Writer \cup Purger \cup Repairer, Write(a) PROVE YoungInv'
  <2>1. a \in Actor
    BY ActorFacts
  <2>2. CASE EnterProcessLock(a)
    <3>1. PICK label \in {"flush", "lock"} : Goto(a, label)
      BY <2>2 DEF EnterProcessLock
    <3> QED
      BY <1>6, <2>1, <2>2, <3>1 DEF EnterProcessLock, Deciding
  <2>3. CASE FlushSettings(a) \/ LockTimeout(a) \/ Defer(a)
    BY <1>6, <2>1, <2>3 DEF FlushSettings, LockTimeout, Defer, Deciding
  <2>4. CASE Insert(a)
    <3>1. /\ Len(log') = Len(log) + 1 /\ Len(log) \in Nat
          /\ \A i \in 1..Len(log) : log'[i].entry = log[i].entry
      BY <2>4, InsertRows
    <3>2. /\ present' = present \cup {Len(log) + 1} /\ UNCHANGED <<past, mark, cutoff>>
          /\ Goto(a, "idle") /\ present \subseteq 1..Len(log)
      BY <2>4 DEF Insert, TInv, DbOK
    <3>3. Grows
      BY <3>1, <3>2 DEF Grows
    <3>4. \A p \in Purger : Waits(p)
      BY <1>1, <2>1, <3>2 DEF Deciding
    <3> QED
      BY <1>3, <3>2, <3>3, <3>4
  <2> QED
    BY <1>8, <2>2, <2>3, <2>4 DEF Write
<1>9. ASSUME NEW a \in Actor, TakeChainLock(a) \/ ReadTail(a) \/ Fail(a) PROVE YoungInv'
  <2>1. CASE TakeChainLock(a) \/ Fail(a)
    BY <1>6, <2>1 DEF TakeChainLock, Fail, Deciding
  <2>2. CASE ReadTail(a)
    <3>1. PICK label \in {"chain", "insert"} : Goto(a, label)
      BY <2>2 DEF ReadTail
    <3> QED
      BY <1>6, <2>2, <3>1 DEF ReadTail, Deciding
  <2> QED
    BY <1>9, <2>1, <2>2
<1>10. ASSUME NEW d \in Drainer, Drain(d) PROVE YoungInv'
  <2>1. d \in Actor
    BY ActorFacts
  <2>2. CASE ReadPending(d)
    BY <1>6, <2>1, <2>2 DEF ReadPending, Deciding
  <2>3. CASE ChainRow(d)
    BY <1>2, <1>4, <2>3 DEF ChainRow
  <2>4. CASE DrainCommit(d)
    <3>1. /\ Len(log') = Len(log) + Len(rows[d])
          /\ Len(log) \in Nat /\ Len(rows[d]) \in Nat
          /\ \A i \in 1..Len(log) : log'[i].entry = log[i].entry
      BY <2>4, DrainRows
    <3>2. /\ present' = present \cup Len(log) + 1 .. Len(log) + Len(rows[d])
          /\ UNCHANGED <<past, mark, cutoff>>
          /\ Goto(d, "idle") /\ present \subseteq 1..Len(log)
      BY <2>4 DEF DrainCommit, TInv, DbOK
    <3>3. Grows
      BY <3>1, <3>2 DEF Grows
    <3>4. \A p \in Purger : Waits(p)
      BY <1>1, <2>1, <3>2 DEF Deciding
    <3> QED
      BY <1>3, <3>2, <3>3, <3>4
  <2> QED
    BY <1>10, <2>2, <2>3, <2>4 DEF Drain
<1>11. ASSUME NEW v \in Verifier \cup Repairer, Verify(v) PROVE YoungInv'
  <2>1. v \in Actor
    BY ActorFacts
  <2>2. CASE VerifySeed(v)
    BY <1>6, <2>1, <2>2 DEF VerifySeed, Deciding
  <2>3. CASE VerifyWalk(v)
    <3>1. PICK label \in {"idle", "repair"} : Goto(v, label)
      BY <2>3 DEF VerifyWalk
    <3>2. \A b \in Actor \ {v} : mark'[b] = mark[b]
      BY <1>0, <2>3 DEF VerifyWalk
    <3> QED
      BY <1>6, <2>1, <2>3, <3>1, <3>2 DEF VerifyWalk, Deciding
  <2> QED
    BY <1>11, <2>2, <2>3 DEF Verify
<1>12. ASSUME NEW r \in Repairer, Repair(r) PROVE YoungInv'
  <2>1. r \in Actor
    BY ActorFacts
  <2>2. CASE RepairLock(r) \/ RepairHead(r)
    BY <1>6, <2>1, <2>2 DEF RepairLock, RepairHead, Deciding
  <2>3. CASE RepairSeed(r)
    <3>1. PICK label \in {"relink", "head"} : Goto(r, label)
      BY <2>3 DEF RepairSeed
    <3> QED
      BY <1>6, <2>1, <2>3, <3>1 DEF RepairSeed, Deciding
  <2>4. CASE RepairRow(r)
    <3>1. \A b \in Actor \ {r} : mark'[b] = mark[b]
      BY <1>0, <2>4 DEF RepairRow
    <3>2. UNCHANGED <<pc, past, log, present, cutoff>> /\ pc[r] = "relink"
      BY <2>4 DEF RepairRow
    <3>3. \A p \in Purger : Waits(p)
      BY <1>0, <3>1, <3>2 DEF Waits, Deciding
    <3> QED
      BY <1>4, <3>2, <3>3
  <2>5. CASE RepairEvent(r)
    BY <1>6, <2>1, <2>5 DEF RepairEvent, NewEntry, Deciding
  <2> QED
    BY <1>12, <2>2, <2>3, <2>4, <2>5 DEF Repair
<1>13. CASE UNCHANGED vars
  BY <1>2, <1>4, <1>13 DEF vars
<1> QED
  BY <1>5, <1>7, <1>8, <1>9, <1>10, <1>11, <1>12, <1>13

\* Where no row is the first kept, none is kept.
LEMMA FirstKept ==
  ASSUME TInv, NEW p \in Purger, NEW j \in present, log[j].entry >= past[p]
  PROVE  \E i \in present : IsFirstKept(p, i)
<1> DEFINE R == OpToRel(<, Nat)
           K == {i \in present : log[i].entry >= past[p]}
<1>1. present \subseteq Nat
  BY SeqFacts DEF TInv, DbOK, IsRows
<1>2. IsWellFoundedOn(R, Nat)
  BY NatLessThanWellFounded
<1>3. K \subseteq Nat /\ K # {}
  BY <1>1
<1> HIDE DEF R, K
<1>4. PICK i \in K : \A k \in K : ~ (<<k, i>> \in R)
  BY <1>2, <1>3, WFMin
<1>5. i \in present /\ log[i].entry >= past[p]
  BY DEF K
<1>6. ASSUME NEW k \in present, k < i PROVE log[k].entry < past[p]
  <2>1. <<k, i>> \in R
    BY <1>1, <1>5, <1>6 DEF R, OpToRel
  <2>2. k \notin K
    BY <1>4, <2>1
  <2>3. ~ (log[k].entry >= past[p])
    BY <2>2 DEF K
  <2>4. log[k].entry \in Nat /\ past[p] \in Nat
    BY EntryFacts, ActorFacts DEF TInv, DbOK, IsRows, IsRow, ReadsOK
  <2> QED
    BY <2>3, <2>4
<1> QED
  BY <1>5, <1>6 DEF IsFirstKept

\* The purge's own steps.
LEMMA PurgeYoung ==
  ASSUME TInv, TInv', YoungInv, NEW p \in Purger,
         PurgeBegin(p) \/ PurgeOff(p) \/ PurgeStep(p)
  PROVE  YoungInv'
<1> USE DEF db, purgeVars
<1>0. /\ DOMAIN pc = Actor /\ DOMAIN mark = Actor /\ DOMAIN past = Actor
      /\ cutoff \in Nat /\ p \in Actor /\ Purger \subseteq Actor
      /\ PurgeAge(p) /\ past[p] \in Nat /\ mark[p] \in Nat
  BY ActorFacts DEF TInv, CallsOK, ReadsOK, YoungInv
<1>1. Len(log) \in Nat /\ present \subseteq 1..Len(log)
  BY SeqFacts DEF TInv, DbOK, IsRows
<1>2. \A j \in present : log[j].entry \in Nat
  BY EntryFacts DEF TInv, DbOK, IsRows, IsRow
<1>3. ASSUME UNCHANGED <<log, present, cutoff>>, NEW label, Goto(p, label),
             \A q \in Actor \ {p} : mark'[q] = mark[q] /\ past'[q] = past[q],
             PurgeAge(p)'
      PROVE  YoungInv'
  <2>1. ASSUME NEW q \in Purger PROVE Waits(q) \/ PurgeAge(q)'
    BY <1>0, <1>3 DEF Goto, Waits
  <2> QED
    BY <1>0, <1>3, <2>1, GrowsNot, GrowsYoung
<1>4. ASSUME UNCHANGED <<log, present, cutoff, mark, past>>, NEW label, Goto(p, label),
             label \notin Deciding
      PROVE  YoungInv'
  <2>1. PurgeAge(p)'
    BY <1>0, <1>4 DEF Goto, PurgeAge, Deciding
  <2> QED
    BY <1>3, <1>4, <2>1
<1>5. CASE PurgeBegin(p)
  <2>1. past' = [past EXCEPT ![p] = cutoff] /\ Goto(p, "max") /\ UNCHANGED <<log, present, cutoff, mark>>
    BY <1>5 DEF PurgeBegin
  <2>2. PurgeAge(p)'
    BY <1>0, <2>1 DEF Goto, PurgeAge, Deciding
  <2>3. \A q \in Actor \ {p} : mark'[q] = mark[q] /\ past'[q] = past[q]
    BY <1>0, <2>1
  <2> QED
    BY <1>3, <2>1, <2>2, <2>3
<1>6. CASE PurgeOff(p)
  BY <1>4, <1>6 DEF PurgeOff, Deciding
<1>7. CASE PurgeMax(p)
  <2>0. UNCHANGED <<log, present, cutoff, past>>
    BY <1>7 DEF PurgeMax
  <2>1. CASE Goto(p, "end") /\ UNCHANGED mark
    BY <1>4, <2>0, <2>1 DEF Deciding
  <2>2. ASSUME NEW i \in present, mark' = [mark EXCEPT ![p] = i], Goto(p, "kept")
        PROVE  YoungInv'
    <3>1. PurgeAge(p)'
      BY <1>0, <1>1, <2>0, <2>2 DEF Goto, PurgeAge, Deciding
    <3>2. \A q \in Actor \ {p} : mark'[q] = mark[q] /\ past'[q] = past[q]
      BY <1>0, <2>0, <2>2
    <3> QED
      BY <1>3, <2>0, <2>2, <3>1, <3>2
  <2> QED
    BY <1>7, <2>1, <2>2 DEF PurgeMax
<1>8. CASE PurgeKept(p)
  <2>0. UNCHANGED <<log, present, cutoff, past>> /\ pc[p] = "kept" /\ Goto(p, "ids")
    BY <1>8 DEF PurgeKept
  <2>1. \A q \in Actor \ {p} : mark'[q] = mark[q] /\ past'[q] = past[q]
    BY <1>0, <1>8, <2>0 DEF PurgeKept
  <2>2. CASE \E i \in present : IsFirstKept(p, i) /\ mark' = [mark EXCEPT ![p] = i]
    <3>1. PICK i \in present : IsFirstKept(p, i) /\ mark' = [mark EXCEPT ![p] = i]
      BY <2>2
    <3>2. PurgeAge(p)'
      BY <1>0, <1>1, <2>0, <3>1 DEF Goto, PurgeAge, IsFirstKept
    <3> QED
      BY <1>3, <2>0, <2>1, <3>2
  <2>3. CASE ~ (\E i \in present : IsFirstKept(p, i)) /\ UNCHANGED mark
    <3>1. \A j \in present : log[j].entry < past[p]
      BY <1>0, <1>2, <2>3, FirstKept
    <3>2. mark[p] \in 1..Len(log)
      BY <1>0, <2>0 DEF PurgeAge, Deciding
    <3>3. PurgeAge(p)'
      BY <1>0, <2>0, <2>3, <3>1, <3>2 DEF Goto, PurgeAge
    <3> QED
      BY <1>3, <2>0, <2>1, <3>3
  <2> QED
    BY <1>8, <2>2, <2>3 DEF PurgeKept
<1>9. CASE PurgeIds(p)
  <2>0. UNCHANGED <<log, present, cutoff, past>> /\ pc[p] = "ids"
    BY <1>9 DEF PurgeIds
  <2>1. CASE Goto(p, "end") /\ UNCHANGED mark
    BY <1>4, <2>0, <2>1 DEF Deciding
  <2>2. ASSUME NEW i \in present, IsTip(p, i), mark' = [mark EXCEPT ![p] = i], Goto(p, "tip")
        PROVE  YoungInv'
    <3>1. i < mark[p] /\ \A j \in present : j < mark[p] => log[j].entry < past[p]
      BY <1>0, <2>0, <2>2 DEF IsTip, PurgeAge
    <3>2. \A j \in present : j <= i => log[j].entry < past[p]
      BY <1>0, <1>1, <3>1
    <3>3. PurgeAge(p)'
      BY <1>0, <1>1, <2>0, <2>2, <3>2 DEF Goto, PurgeAge
    <3>4. \A q \in Actor \ {p} : mark'[q] = mark[q] /\ past'[q] = past[q]
      BY <1>0, <2>0, <2>2
    <3> QED
      BY <1>3, <2>0, <2>2, <3>3, <3>4
  <2> QED
    BY <1>9, <2>1, <2>2 DEF PurgeIds
<1>10. CASE PurgeTipHash(p)
  <2>0. /\ UNCHANGED <<log, present, cutoff, past, mark>> /\ pc[p] = "tip"
        /\ Goto(p, "delete")
    BY <1>10 DEF PurgeTipHash
  <2>1. PurgeAge(p)'
    BY <1>0, <2>0 DEF Goto, PurgeAge, Deciding
  <2> QED
    BY <1>3, <2>0, <2>1
<1>11. CASE PurgeCommit(p)
  <2>0. /\ UNCHANGED <<log, cutoff, past, mark>> /\ pc[p] = "delete"
        /\ pc' = [pc EXCEPT ![p] = "again"]
        /\ present' = {i \in present : i > mark[p]}
    BY <1>11 DEF PurgeCommit, Goto
  <2>1. RetainsYoung'
    <3>1. ASSUME NEW i \in 1..Len(log), i \notin present' PROVE log[i].entry < cutoff
      <4>1. CASE i \notin present
        BY <3>1, <4>1 DEF YoungInv, RetainsYoung
      <4>2. CASE i \in present
        <5>1. i <= mark[p]
          BY <1>0, <1>1, <2>0, <3>1, <4>2
        <5>2. log[i].entry < past[p] /\ past[p] <= cutoff
          BY <1>0, <2>0, <4>2, <5>1 DEF PurgeAge
        <5> QED
          BY <1>0, <1>2, <4>2, <5>2
      <4> QED
        BY <4>1, <4>2
    <3> QED
      BY <2>0, <3>1 DEF RetainsYoung
  <2>2. ASSUME NEW q \in Purger PROVE PurgeAge(q)'
    <3>1. PurgeAge(q) /\ present' \subseteq present
      BY <2>0 DEF YoungInv
    <3>2. CASE q = p
      BY <1>0, <2>0, <3>1, <3>2 DEF PurgeAge, Deciding
    <3>3. CASE q # p
      BY <1>0, <2>0, <3>1, <3>3 DEF PurgeAge
    <3> QED
      BY <3>2, <3>3
  <2> QED
    BY <2>1, <2>2 DEF YoungInv
<1>12. CASE PurgeEnd(p)
  <2>1. PICK label \in {"summary", "idle"} : Goto(p, label)
    BY <1>12 DEF PurgeEnd
  <2> QED
    BY <1>4, <1>12, <2>1 DEF PurgeEnd, Deciding
<1>13. CASE PurgeSummary(p)
  <2>1. PICK label \in {"process", "idle"} : Goto(p, label)
    BY <1>13 DEF PurgeSummary, NewEntry
  <2> QED
    BY <1>4, <1>13, <2>1 DEF PurgeSummary, Deciding
<1> QED
  BY <1>5, <1>6, <1>7, <1>8, <1>9, <1>10, <1>11, <1>12, <1>13 DEF PurgeStep

\* Whatever writes, drains, repairs and other purges run, a purge deletes no
\* row younger than the retention window (where none was deleted by hand).
THEOREM AlwaysRetainsYoung ==
  ASSUME Cuts = {{}}
  PROVE  Spec => []RetainsYoung
<1>1. Init => YoungInv
  <2> SUFFICES ASSUME Init PROVE YoungInv
    OBVIOUS
  <2>1. present = 1..Len(log)
    BY DEF Init
  <2>2. RetainsYoung
    BY <2>1 DEF RetainsYoung
  <2>3. ASSUME NEW p \in Purger PROVE PurgeAge(p)
    <3>1. p \in Actor
      BY ActorFacts
    <3> QED
      BY <3>1 DEF Init, PurgeAge, Deciding
  <2> QED
    BY <2>2, <2>3 DEF YoungInv
<1>2. ASSUME TInv, YoungInv, [Next]_vars PROVE TInv' /\ YoungInv'
  <2>1. TInv'
    BY <1>2, TInvStep
  <2>2. YoungInv'
    BY <1>2, <2>1, OtherYoung, PurgeYoung DEF Next
  <2> QED
    BY <2>1, <2>2
<1>3. YoungInv => RetainsYoung
  BY DEF YoungInv
<1> QED
  BY <1>1, <1>2, <1>3, TInvInit, PTL DEF Spec

-----------------------------------------------------------------------------
(* No entry is chained twice, where at most one drain runs at a time.      *)

OneDrain == \A d, e \in Drainer : d = e

\* No entry is in the spool twice.
SpooledOnce == \A i, j \in 1..Len(pending) : pending[i] = pending[j] => i = j

\* An entry in a transaction's hands is nowhere else.
HeldOnce ==
  /\ \A a \in Actor : ent[a] # NoEntry => ent[a] \notin Chained /\ ent[a] \notin Spooled
  /\ \A a, b \in Actor : ent[a] = ent[b] /\ ent[a] # NoEntry => a = b

\* Entries have the numbers of actions that happened.
Numbered ==
  /\ \A i \in 1..Len(log) : log[i].entry <= happened
  /\ \A i \in 1..Len(pending) : pending[i] <= happened
  /\ \A a \in Actor : ent[a] <= happened

\* What a drain has chained and has still to chain is the head of the spool.
Selected(d) ==
  /\ pc[d] = "idle" => batch[d] = <<>> /\ rows[d] = <<>>
  /\ Len(rows[d]) + Len(batch[d]) <= Len(pending)
  /\ \A i \in 1..Len(rows[d]) : rows[d][i].entry = pending[i]
  /\ \A i \in 1..Len(batch[d]) : batch[d][i] = pending[Len(rows[d]) + i]

OnceInv == ChainedOnce /\ SpooledOnce /\ HeldOnce /\ Numbered /\ \A d \in Drainer : Selected(d)

\* What the types say of numbers and sequences.
LEMMA OnceTypes ==
  ASSUME TInv
  PROVE  /\ Len(log) \in Nat /\ Len(pending) \in Nat /\ happened \in Nat
         /\ \A i \in 1..Len(log) : log[i].entry \in Nat \ {0}
         /\ \A i \in 1..Len(pending) : pending[i] \in Nat \ {0}
         /\ \A a \in Actor : ent[a] \in Nat
         /\ DOMAIN ent = Actor /\ DOMAIN pc = Actor /\ DOMAIN batch = Actor /\ DOMAIN rows = Actor
         /\ Drainer \subseteq Actor /\ NoEntry = 0
<1>1. Len(log) \in Nat /\ \A i \in 1..Len(log) : log[i].entry \in Entry
  BY SeqFacts DEF TInv, DbOK, IsRows, IsRow
<1>2. Len(pending) \in Nat /\ \A i \in 1..Len(pending) : pending[i] \in Entry
  BY DEF TInv, DbOK
<1>3. happened \in Nat /\ ent \in [Actor -> Entry \cup {NoEntry}] /\ DOMAIN pc = Actor
  BY EntryFacts DEF TInv, HistoryOK, CallsOK
<1>4. DOMAIN batch = Actor /\ DOMAIN rows = Actor
  BY DEF TInv, DrainsOK
<1>5. Entry \subseteq Nat \ {0} /\ NoEntry = 0 /\ Drainer \subseteq Actor
  BY EntryFacts, ActorFacts
<1>6. ASSUME NEW a \in Actor PROVE ent[a] \in Nat
  <2>1. PICK x \in Entry \cup {NoEntry} : x = ent[a]
    BY <1>3
  <2>2. x \in Nat
    BY <1>5
  <2> QED
    BY <2>1, <2>2
<1> QED
  BY <1>1, <1>2, <1>3, <1>4, <1>5, <1>6

\* A step that moves no entry.
LEMMA OnceStill ==
  ASSUME OnceInv, UNCHANGED <<log, pending, ent, happened, batch, rows>>,
         \A d \in Drainer : pc'[d] = "idle" => pc[d] = "idle"
  PROVE  OnceInv'
<1>0. Chained' = Chained /\ Spooled' = Spooled
  BY DEF Chained, Spooled
<1>1. ChainedOnce' /\ SpooledOnce' /\ HeldOnce' /\ Numbered'
  <2>1. ChainedOnce' /\ SpooledOnce'
    BY <1>0 DEF OnceInv, ChainedOnce, SpooledOnce
  <2>2. HeldOnce'
    BY <1>0 DEF OnceInv, HeldOnce
  <2>3. Numbered'
    BY DEF OnceInv, Numbered
  <2> QED
    BY <2>1, <2>2, <2>3
<1>2. ASSUME NEW d \in Drainer PROVE Selected(d)'
  BY DEF OnceInv, Selected
<1> QED
  BY <1>1, <1>2 DEF OnceInv

\* A new entry has a new number.
LEMMA OnceNew ==
  ASSUME TInv, OnceInv, NEW a \in Actor \ Drainer, NEW k, NewEntry(a, k),
         UNCHANGED <<log, pending, batch, rows>>
  PROVE  OnceInv'
<1>0. TInv /\ Len(log) \in Nat /\ Len(pending) \in Nat /\ happened \in Nat
  BY OnceTypes
<1>1. /\ happened' = happened + 1 /\ ent' = [ent EXCEPT ![a] = happened + 1]
      /\ pc' = [pc EXCEPT ![a] = "process"] /\ Chained' = Chained /\ Spooled' = Spooled
  BY DEF NewEntry, Goto, Chained, Spooled
<1>2. /\ ent'[a] = happened + 1 /\ \A b \in Actor : b # a => ent'[b] = ent[b]
      /\ \A b \in Actor : ent[b] \in Nat /\ ent[b] <= happened
  BY <1>1, OnceTypes DEF OnceInv, Numbered
<1>3. /\ \A e \in Chained : e \in Nat /\ e <= happened
      /\ \A e \in Spooled : e \in Nat /\ e <= happened
  BY OnceTypes DEF Chained, Spooled, OnceInv, Numbered
<1>4. ChainedOnce' /\ SpooledOnce'
  BY <1>1 DEF OnceInv, ChainedOnce, SpooledOnce
<1>5. HeldOnce'
  <2>1. ASSUME NEW b \in Actor, ent'[b] # NoEntry
        PROVE  ent'[b] \notin Chained /\ ent'[b] \notin Spooled
    <3>1. CASE b = a
      BY <1>0, <1>2, <1>3, <3>1
    <3>2. CASE b # a
      BY <1>2, <2>1, <3>2 DEF OnceInv, HeldOnce
    <3> QED
      BY <3>1, <3>2
  <2>2. ASSUME NEW b \in Actor, NEW c \in Actor, ent'[b] = ent'[c], ent'[b] # NoEntry
        PROVE  b = c
    <3>1. CASE b = a \/ c = a
      BY <1>0, <1>2, <2>2, <3>1
    <3>2. CASE b # a /\ c # a
      BY <1>2, <2>2, <3>2 DEF OnceInv, HeldOnce
    <3> QED
      BY <3>1, <3>2
  <2> QED
    BY <1>1, <2>1, <2>2 DEF HeldOnce
<1>6. Numbered'
  <2>1. \A j \in 1..Len(log) : log[j].entry <= happened + 1
    BY <1>0, OnceTypes DEF OnceInv, Numbered
  <2>2. \A j \in 1..Len(pending) : pending[j] <= happened + 1
    BY <1>0, OnceTypes DEF OnceInv, Numbered
  <2>3. \A b \in Actor : ent'[b] <= happened + 1
    BY <1>0, <1>2
  <2> QED
    BY <1>1, <2>1, <2>2, <2>3 DEF Numbered
<1>7. ASSUME NEW d \in Drainer PROVE Selected(d)'
  <2>1. d \in Actor /\ d # a /\ pc'[d] = pc[d]
    BY <1>1, OnceTypes
  <2> QED
    BY <2>1 DEF OnceInv, Selected
<1> QED
  BY <1>4, <1>5, <1>6, <1>7 DEF OnceInv

\* An entry that leaves its transaction's hands is the only one to do so.
LEMMA OnceLeft ==
  ASSUME TInv, OnceInv, NEW a \in Actor, ent' = [ent EXCEPT ![a] = NoEntry],
         \A e \in Chained' \cup Spooled' : e \in Chained \cup Spooled \cup {ent[a]}
  PROVE  HeldOnce' /\ \A b \in Actor : ent'[b] <= ent[b]
<1>1. ent'[a] = NoEntry /\ \A b \in Actor : b # a => ent'[b] = ent[b]
  BY OnceTypes
<1>2. ASSUME NEW b \in Actor, ent'[b] # NoEntry
      PROVE  ent'[b] \notin Chained' /\ ent'[b] \notin Spooled'
  <2>1. b # a /\ ent'[b] = ent[b] /\ ent[b] # NoEntry
    BY <1>1, <1>2
  <2>2. ent[b] \notin Chained /\ ent[b] \notin Spooled /\ ent[b] # ent[a]
    BY <2>1 DEF OnceInv, HeldOnce
  <2> QED
    BY <2>1, <2>2
<1>3. ASSUME NEW b \in Actor, NEW c \in Actor, ent'[b] = ent'[c], ent'[b] # NoEntry
      PROVE  b = c
  BY <1>1, <1>3 DEF OnceInv, HeldOnce
<1>4. \A b \in Actor : ent'[b] <= ent[b]
  BY <1>1, OnceTypes
<1> QED
  BY <1>2, <1>3, <1>4 DEF HeldOnce

\* Deferring puts an entry at the end of the spool.
LEMMA OnceDefer ==
  ASSUME TInv, OnceInv, NEW a \in Writer \cup Purger \cup Repairer, Defer(a)
  PROVE  OnceInv'
<1>0. /\ a \in Actor \ Drainer /\ pending \in Seq(Entry) /\ Len(pending) \in Nat
      /\ ent[a] \in Nat \ {0} /\ ent[a] # NoEntry
  <2>1. a \in Actor \ Drainer /\ pc[a] = "defer"
    BY ActorFacts DEF Defer
  <2>2. ent[a] \in Entry
    BY <2>1 DEF TInv, CallsOK, Writing
  <2>3. pending \in Seq(Entry)
    BY DEF TInv, DbOK
  <2>4. Len(pending) \in Nat
    BY <2>3
  <2> QED
    BY <2>1, <2>2, <2>3, <2>4, EntryFacts
<1>1. /\ pending' = Append(pending, ent[a]) /\ ent' = [ent EXCEPT ![a] = NoEntry]
      /\ pc' = [pc EXCEPT ![a] = "idle"] /\ UNCHANGED <<log, happened, batch, rows>>
      /\ Chained' = Chained
  BY DEF Defer, Goto, Chained, drainVars
<1>2. PICK n \in Nat : n = Len(pending)
  BY <1>0
<1>3. /\ Len(pending') = n + 1 /\ pending'[n + 1] = ent[a]
      /\ \A j \in 1..n : pending'[j] = pending[j]
  BY <1>0, <1>1, <1>2, AppendFacts DEF IsSeq
<1>4. \A j \in 1..n + 1 : j \in 1..n \/ j = n + 1
  OBVIOUS
<1>5. \A e \in Spooled' : e \in Spooled \cup {ent[a]}
  BY <1>2, <1>3, <1>4 DEF Spooled
<1>6. /\ ent[a] \notin Chained /\ ent[a] \notin Spooled /\ ent[a] <= happened
      /\ \A j \in 1..n : pending[j] # ent[a] /\ pending[j] <= happened
  BY <1>0, <1>2 DEF OnceInv, HeldOnce, Numbered, Spooled
<1>7. ChainedOnce'
  BY <1>1, <1>5, <1>6 DEF OnceInv, ChainedOnce
<1>8. SpooledOnce'
  <2>1. ASSUME NEW j \in 1..n + 1, NEW k \in 1..n + 1, pending'[j] = pending'[k] PROVE j = k
    <3>1. CASE j \in 1..n /\ k \in 1..n
      BY <1>2, <1>3, <2>1, <3>1 DEF OnceInv, SpooledOnce
    <3>2. CASE j = n + 1 /\ k \in 1..n
      BY <1>3, <1>6, <2>1, <3>2
    <3>3. CASE k = n + 1 /\ j \in 1..n
      BY <1>3, <1>6, <2>1, <3>3
    <3> QED
      BY <1>4, <3>1, <3>2, <3>3
  <2> QED
    BY <1>3, <2>1 DEF SpooledOnce
<1>9. HeldOnce' /\ \A b \in Actor : ent'[b] <= ent[b]
  BY <1>0, <1>1, <1>5, OnceLeft
<1>10. Numbered'
  <2>1. \A j \in 1..n + 1 : pending'[j] <= happened
    BY <1>3, <1>4, <1>6
  <2>2. ASSUME NEW b \in Actor PROVE ent'[b] <= happened
    <3>1. ent'[b] \in Nat
      BY <1>0, <1>1, OnceTypes
    <3>2. ent'[b] <= ent[b] /\ ent[b] <= happened /\ ent[b] \in Nat /\ happened \in Nat
      BY <1>9, OnceTypes DEF OnceInv, Numbered
    <3> QED
      BY <3>1, <3>2
  <2>3. \A j \in 1..Len(log) : log[j].entry <= happened
    BY DEF OnceInv, Numbered
  <2> QED
    BY <1>1, <1>3, <2>1, <2>2, <2>3 DEF Numbered
<1>11. ASSUME NEW d \in Drainer PROVE Selected(d)'
  <2>1. d \in Actor /\ d # a /\ pc'[d] = pc[d] /\ Selected(d)
    BY <1>0, <1>1, OnceTypes DEF OnceInv
  <2>2. IsSeq(rows[d]) /\ batch[d] \in Seq(Entry)
    BY <2>1 DEF TInv, DrainsOK, IsRows
  <2>3. PICK r \in Nat, b \in Nat : r = Len(rows[d]) /\ b = Len(batch[d])
    BY <2>2, SeqFacts
  <2>4. /\ r + b <= n
        /\ \A i \in 1..r : rows[d][i].entry = pending[i]
        /\ \A i \in 1..b : batch[d][i] = pending[r + i]
    BY <1>2, <2>1, <2>3 DEF Selected
  <2>5. /\ r + b <= n + 1
        /\ \A i \in 1..r : i \in 1..n
        /\ \A i \in 1..b : r + i \in 1..n
    BY <2>4
  <2>6. /\ \A i \in 1..r : rows[d][i].entry = pending'[i]
        /\ \A i \in 1..b : batch[d][i] = pending'[r + i]
    BY <1>3, <2>4, <2>5
  <2> QED
    BY <1>1, <1>3, <2>1, <2>3, <2>5, <2>6 DEF Selected
<1> QED
  BY <1>7, <1>8, <1>9, <1>10, <1>11 DEF OnceInv

\* Inserting puts it at the end of the chain.
LEMMA OnceInsert ==
  ASSUME TInv, OnceInv, NEW a \in Writer \cup Purger \cup Repairer, Insert(a)
  PROVE  OnceInv'
<1>0. a \in Actor \ Drainer
  BY ActorFacts
<1>1. /\ UNCHANGED <<pending, happened, batch, rows>> /\ ent' = [ent EXCEPT ![a] = NoEntry]
      /\ pc' = [pc EXCEPT ![a] = "idle"] /\ Spooled' = Spooled
  BY DEF Insert, Goto, Spooled, drainVars
<1>2. PICK n \in Nat : n = Len(log)
  BY OnceTypes
<1>3. /\ Len(log') = n + 1 /\ log'[n + 1].entry = ent[a] /\ ent[a] \in Entry
      /\ \A j \in 1..n : log'[j].entry = log[j].entry
  BY <1>2, InsertRows
<1>4. \A j \in 1..n + 1 : j \in 1..n \/ j = n + 1
  OBVIOUS
<1>5. \A e \in Chained' : e \in Chained \cup {ent[a]}
  BY <1>2, <1>3, <1>4 DEF Chained
<1>6. /\ ent[a] \notin Chained /\ ent[a] \notin Spooled /\ ent[a] <= happened
      /\ \A j \in 1..n : log[j].entry # ent[a] /\ log[j].entry <= happened
  BY <1>0, <1>2, <1>3, EntryFacts DEF OnceInv, HeldOnce, Numbered, Chained
<1>7. ChainedOnce'
  <2>1. ASSUME NEW j \in 1..n + 1, NEW k \in 1..n + 1, log'[j].entry = log'[k].entry
        PROVE  j = k
    <3>1. CASE j \in 1..n /\ k \in 1..n
      BY <1>2, <1>3, <2>1, <3>1 DEF OnceInv, ChainedOnce
    <3>2. CASE j = n + 1 /\ k \in 1..n
      BY <1>3, <1>6, <2>1, <3>2
    <3>3. CASE k = n + 1 /\ j \in 1..n
      BY <1>3, <1>6, <2>1, <3>3
    <3> QED
      BY <1>4, <3>1, <3>2, <3>3
  <2>2. Chained' \cap Spooled' = {}
    BY <1>1, <1>5, <1>6 DEF OnceInv, ChainedOnce
  <2> QED
    BY <1>3, <2>1, <2>2 DEF ChainedOnce
<1>8. SpooledOnce'
  BY <1>1 DEF OnceInv, SpooledOnce
<1>9. HeldOnce' /\ \A b \in Actor : ent'[b] <= ent[b]
  BY <1>0, <1>1, <1>5, OnceLeft
<1>10. Numbered'
  <2>1. \A j \in 1..n + 1 : log'[j].entry <= happened
    BY <1>3, <1>4, <1>6
  <2>2. ASSUME NEW b \in Actor PROVE ent'[b] <= happened
    <3>1. ent'[b] \in Nat
      BY <1>0, <1>1, OnceTypes
    <3>2. ent'[b] <= ent[b] /\ ent[b] <= happened /\ ent[b] \in Nat /\ happened \in Nat
      BY <1>9, OnceTypes DEF OnceInv, Numbered
    <3> QED
      BY <3>1, <3>2
  <2>3. \A j \in 1..Len(pending) : pending[j] <= happened
    BY DEF OnceInv, Numbered
  <2> QED
    BY <1>1, <1>3, <2>1, <2>2, <2>3 DEF Numbered
<1>11. ASSUME NEW d \in Drainer PROVE Selected(d)'
  <2>1. d \in Actor /\ d # a /\ pc'[d] = pc[d] /\ Selected(d)
    BY <1>0, <1>1, OnceTypes DEF OnceInv
  <2> QED
    BY <1>1, <2>1 DEF Selected
<1> QED
  BY <1>7, <1>8, <1>9, <1>10, <1>11 DEF OnceInv

\* A drain that has selected nothing.
LEMMA SelectedNone ==
  ASSUME NEW d \in Drainer, batch'[d] = <<>>, rows'[d] = <<>>, Len(pending') \in Nat
  PROVE  Selected(d)'
<1>1. Len(rows'[d]) = 0 /\ Len(batch'[d]) = 0
  OBVIOUS
<1>2. 1..0 = {} /\ 0 + 0 <= Len(pending')
  OBVIOUS
<1>3. /\ pc'[d] = "idle" => batch'[d] = <<>> /\ rows'[d] = <<>>
      /\ Len(rows'[d]) + Len(batch'[d]) <= Len(pending')
  BY <1>1, <1>2
<1>4. /\ \A i \in 1..Len(rows'[d]) : rows'[d][i].entry = pending'[i]
      /\ \A i \in 1..Len(batch'[d]) : batch'[d][i] = pending'[Len(rows'[d]) + i]
  BY <1>1, <1>2
<1> QED
  BY <1>3, <1>4 DEF Selected

\* A failure takes an entry out of its transaction's hands, and forgets what a
\* drain selected.
LEMMA OnceFail ==
  ASSUME TInv, OnceInv, NEW a \in Actor, Fail(a)
  PROVE  OnceInv'
<1>1. /\ UNCHANGED <<log, pending, happened>> /\ ent' = [ent EXCEPT ![a] = NoEntry]
      /\ batch' = [batch EXCEPT ![a] = <<>>] /\ rows' = [rows EXCEPT ![a] = <<>>]
      /\ pc' = [pc EXCEPT ![a] = "idle"]
  BY DEF Fail, Goto, db
<1>2. Chained' = Chained /\ Spooled' = Spooled
  BY <1>1 DEF Chained, Spooled
<1>3. ChainedOnce' /\ SpooledOnce'
  BY <1>1, <1>2 DEF OnceInv, ChainedOnce, SpooledOnce
<1>4. HeldOnce' /\ \A b \in Actor : ent'[b] <= ent[b]
  BY <1>1, <1>2, OnceLeft
<1>5. Numbered'
  <2>1. ASSUME NEW b \in Actor PROVE ent'[b] <= happened
    <3>1. ent'[b] \in Nat
      BY <1>1, OnceTypes
    <3>2. ent'[b] <= ent[b] /\ ent[b] <= happened /\ ent[b] \in Nat /\ happened \in Nat
      BY <1>4, OnceTypes DEF OnceInv, Numbered
    <3> QED
      BY <3>1, <3>2
  <2> QED
    BY <1>1, <2>1 DEF OnceInv, Numbered
<1>6. ASSUME NEW d \in Drainer PROVE Selected(d)'
  <2>1. d \in Actor /\ Selected(d) /\ Len(pending) \in Nat
    BY OnceTypes DEF OnceInv
  <2>2. CASE d = a
    <3>1. batch'[d] = <<>> /\ rows'[d] = <<>>
      BY <1>1, <2>1, <2>2, OnceTypes
    <3> QED
      BY <1>1, <2>1, <3>1, SelectedNone
  <2>3. CASE d # a
    <3>1. batch'[d] = batch[d] /\ rows'[d] = rows[d] /\ pc'[d] = pc[d]
      BY <1>1, <2>1, <2>3, OnceTypes
    <3> QED
      BY <1>1, <2>1, <3>1 DEF Selected
  <2> QED
    BY <2>2, <2>3
<1> QED
  BY <1>3, <1>4, <1>5, <1>6 DEF OnceInv

\* A drain selects the head of the spool.
LEMMA OnceSelect ==
  ASSUME TInv, OnceInv, NEW d \in Drainer, ReadPending(d)
  PROVE  OnceInv'
<1> DEFINE n == IF Len(pending) < DrainBatch THEN Len(pending) ELSE DrainBatch
<1>1. /\ batch' = [batch EXCEPT ![d] = SubSeq(pending, 1, n)] /\ pc[d] = "idle"
      /\ pc' = [pc EXCEPT ![d] = "lock"]
      /\ UNCHANGED <<log, pending, ent, happened, rows>>
  BY DEF ReadPending, Goto, db, writeVars
<1>2. pending \in Seq(Entry) /\ n \in Nat /\ n <= Len(pending) /\ d \in Actor
  BY AuditAssumption, OnceTypes DEF TInv, DbOK
<1> HIDE DEF n
<1>3. Chained' = Chained /\ Spooled' = Spooled
  BY <1>1 DEF Chained, Spooled
<1>4. ChainedOnce' /\ SpooledOnce'
  BY <1>1, <1>3 DEF OnceInv, ChainedOnce, SpooledOnce
<1>5. HeldOnce'
  BY <1>1, <1>3 DEF OnceInv, HeldOnce
<1>6. Numbered'
  BY <1>1 DEF OnceInv, Numbered
<1>7. ASSUME NEW e \in Drainer PROVE Selected(e)'
  <2>1. e \in Actor /\ Selected(e)
    BY OnceTypes DEF OnceInv
  <2>2. CASE e = d
    <3>1. PICK s : s = SubSeq(pending, 1, n)
      OBVIOUS
    <3>2. /\ s \in Seq(Entry) /\ Len(s) = n
          /\ \A i \in 1..n : s[i] = pending[i]
      BY <1>2, <3>1
    <3>3. batch'[e] = s /\ pc'[e] = "lock"
      BY <1>1, <2>1, <2>2, <3>1, OnceTypes
    <3>4. rows'[e] = <<>> /\ Len(<<>>) = 0
      BY <1>1, <2>1, <2>2 DEF Selected
    <3>5. \A i \in 1..n : s[i] = pending[0 + i]
      BY <3>2
    <3> QED
      BY <1>1, <1>2, <3>2, <3>3, <3>4, <3>5 DEF Selected
  <2>3. CASE e # d
    <3>1. batch'[e] = batch[e] /\ rows'[e] = rows[e] /\ pc'[e] = pc[e]
      BY <1>1, <2>1, <2>3, OnceTypes
    <3> QED
      BY <1>1, <2>1, <3>1 DEF Selected
  <2> QED
    BY <2>2, <2>3
<1> QED
  BY <1>4, <1>5, <1>6, <1>7 DEF OnceInv

\* It chains the entry after the ones it has chained.
LEMMA OnceChain ==
  ASSUME TInv, OnceInv, NEW d \in Drainer, ChainRow(d)
  PROVE  OnceInv'
<1> DEFINE row == [entry |-> Head(batch[d]), prev |-> got[d]]
<1>1. /\ batch' = [batch EXCEPT ![d] = Tail(batch[d])] /\ batch[d] # <<>> /\ pc[d] = "chain"
      /\ rows' = [rows EXCEPT ![d] = Append(rows[d], row)]
      /\ UNCHANGED <<pc, log, pending, ent, happened>>
  BY DEF ChainRow, db, writeVars
<1>2. row.entry = Head(batch[d])
  OBVIOUS
<1> HIDE DEF row
<1>3. Chained' = Chained /\ Spooled' = Spooled
  BY <1>1 DEF Chained, Spooled
<1>4. ChainedOnce' /\ SpooledOnce'
  BY <1>1, <1>3 DEF OnceInv, ChainedOnce, SpooledOnce
<1>5. HeldOnce'
  BY <1>1, <1>3 DEF OnceInv, HeldOnce
<1>6. Numbered'
  BY <1>1 DEF OnceInv, Numbered
<1>7. ASSUME NEW e \in Drainer PROVE Selected(e)'
  <2>1. e \in Actor /\ Selected(e) /\ IsSeq(rows[e]) /\ batch[e] \in Seq(Entry)
    BY OnceTypes DEF OnceInv, TInv, DrainsOK, IsRows
  <2>2. CASE e = d
    <3>1. PICK s \in Seq(Entry), r \in Nat, b \in Nat :
            s = batch[d] /\ r = Len(rows[d]) /\ b = Len(s)
      BY <2>1, <2>2, SeqFacts, SMTT(30)
    <3>2. PICK t : t = Tail(s)
      OBVIOUS
    <3>3. PICK u : u = Append(rows[d], row)
      OBVIOUS
    <3>4. /\ s # <<>> /\ t \in Seq(Entry) /\ Len(t) = b - 1 /\ b >= 1
          /\ \A i \in 1..(b - 1) : t[i] = s[i + 1]
          /\ Head(s) = s[1]
      BY <1>1, <3>1, <3>2
    <3>5. /\ Len(u) = r + 1 /\ u[r + 1] = row
          /\ \A i \in 1..r : u[i] = rows[d][i]
      BY <2>1, <2>2, <3>1, <3>3, AppendFacts
    <3>6. /\ r + b <= Len(pending)
          /\ \A i \in 1..r : rows[d][i].entry = pending[i]
          /\ \A i \in 1..b : s[i] = pending[r + i]
      BY <2>1, <2>2, <3>1 DEF Selected
    <3>7. ASSUME NEW i \in 1..r + 1 PROVE u[i].entry = pending[i]
      <4>1. CASE i \in 1..r
        BY <3>5, <3>6, <4>1
      <4>2. CASE i = r + 1
        <5>1. 1 \in 1..b
          BY <3>4
        <5>2. row.entry = pending[r + 1]
          BY <1>2, <3>1, <3>4, <3>6, <5>1
        <5> QED
          BY <3>5, <4>2, <5>2
      <4> QED
        BY <4>1, <4>2
    <3>8. ASSUME NEW i \in 1..(b - 1) PROVE t[i] = pending[r + 1 + i]
      <4>1. PICK j \in 1..b : j = i + 1
        BY <3>4
      <4>2. r + j = r + 1 + i
        BY <4>1
      <4> QED
        BY <3>4, <3>6, <4>1, <4>2
    <3>9. batch'[e] = t /\ rows'[e] = u /\ pc'[e] = "chain"
      BY <1>1, <2>1, <2>2, <3>1, <3>2, <3>3, OnceTypes
    <3>10. r + 1 + (b - 1) <= Len(pending)
      BY <3>6
    <3>11. Len(rows'[e]) = r + 1 /\ Len(batch'[e]) = b - 1 /\ pending' = pending
      BY <1>1, <3>4, <3>5, <3>9
    <3>12. /\ pc'[e] # "idle"
           /\ Len(rows'[e]) + Len(batch'[e]) <= Len(pending')
      BY <3>9, <3>10, <3>11
    <3>13. \A i \in 1..Len(rows'[e]) : rows'[e][i].entry = pending'[i]
      BY <3>7, <3>9, <3>11
    <3>14. \A i \in 1..Len(batch'[e]) : batch'[e][i] = pending'[Len(rows'[e]) + i]
      BY <3>8, <3>9, <3>11
    <3> QED
      BY <3>12, <3>13, <3>14 DEF Selected
  <2>3. CASE e # d
    <3>1. batch'[e] = batch[e] /\ rows'[e] = rows[e] /\ pc'[e] = pc[e]
      BY <1>1, <2>1, <2>3, OnceTypes
    <3> QED
      BY <1>1, <2>1, <3>1 DEF Selected
  <2> QED
    BY <2>2, <2>3
<1> QED
  BY <1>4, <1>5, <1>6, <1>7 DEF OnceInv

\* The commit of the only drain moves what it chained from spool to chain.
LEMMA OnceCommit ==
  ASSUME TInv, OnceInv, OneDrain, NEW d \in Drainer, DrainCommit(d)
  PROVE  OnceInv'
<1>1. /\ UNCHANGED <<ent, happened, batch>> /\ rows' = [rows EXCEPT ![d] = <<>>]
      /\ pending' = StillPending(d) /\ pc' = [pc EXCEPT ![d] = "idle"] /\ batch[d] = <<>>
  BY DEF DrainCommit, Goto, writeVars
<1>2. d \in Actor /\ Selected(d) /\ IsSeq(rows[d]) /\ pending \in Seq(Entry)
  BY OnceTypes DEF OnceInv, TInv, DrainsOK, IsRows, DbOK
<1>3. PICK n \in Nat, m \in Nat, q \in Nat : n = Len(log) /\ m = Len(rows[d]) /\ q = Len(pending)
  BY <1>2, SeqFacts, OnceTypes
<1>4. /\ Len(log') = n + m
      /\ \A i \in 1..n : log'[i].entry = log[i].entry
      /\ \A i \in 1..m : log'[n + i].entry = rows[d][i].entry
  BY <1>3, DrainRows
<1>5. m <= q /\ \A i \in 1..m : rows[d][i].entry = pending[i] /\ i \in 1..q
  <2>1. Len(batch[d]) = 0
    BY <1>1
  <2>2. m + 0 <= q /\ \A i \in 1..m : rows[d][i].entry = pending[i]
    BY <1>2, <1>3, <2>1 DEF Selected
  <2> QED
    BY <2>2
<1>6. \A i \in 1..m : log'[n + i].entry = pending[i]
  BY <1>4, <1>5
<1>7. \A i \in 1..n + m : i \in 1..n \/ \E j \in 1..m : i = n + j
  <2> SUFFICES ASSUME NEW i \in 1..n + m, i \notin 1..n PROVE \E j \in 1..m : i = n + j
    OBVIOUS
  <2>1. i - n \in 1..m /\ i = n + (i - n)
    OBVIOUS
  <2> QED
    BY <2>1
<1> DEFINE S == {rows[d][i].entry : i \in DOMAIN rows[d]}
<1>8. /\ \A i \in 1..m : pending[i] \in S
      /\ \A e \in S : \E i \in 1..m : e = pending[i]
  BY <1>2, <1>3, <1>5, SeqFacts
<1>9. PICK w : w = Without(pending, S) /\ w = pending'
  BY <1>1 DEF StillPending
<1> HIDE DEF S
<1>10. w \in Seq(Entry \ S) /\ Filters(w, pending, S)
  BY <1>2, <1>9, WithoutFacts
<1>11. PICK k \in Nat : k = Len(w)
  BY <1>10
<1>12. /\ \A i \in 1..k : w[i] \notin S
       /\ \A i \in 1..k : \E j \in 1..q : w[i] = pending[j]
       /\ \A i, j \in 1..k : i < j =>
            \E x, y \in 1..q : x < y /\ w[i] = pending[x] /\ w[j] = pending[y]
  <2>1. \A i \in 1..k : w[i] \in Entry \ S
    BY <1>10, <1>11
  <2>2. \A i \in 1..k : \E j \in 1..q : w[i] = pending[j]
    BY <1>3, <1>10, <1>11 DEF Filters
  <2>3. \A i, j \in 1..k : i < j =>
          \E x, y \in 1..q : x < y /\ w[i] = pending[x] /\ w[j] = pending[y]
    <3>1. \A i, j \in 1..Len(w) : i < j =>
            \E x, y \in 1..Len(pending) : x < y /\ w[i] = pending[x] /\ w[j] = pending[y]
      BY <1>10 DEF Filters
    <3>2. Len(w) = k /\ Len(pending) = q
      BY <1>3, <1>11
    <3> QED
      BY <3>1, <3>2
  <2> QED
    BY <2>1, <2>2, <2>3
<1>13. /\ \A i, j \in 1..n : log[i].entry = log[j].entry => i = j
       /\ \A i, j \in 1..q : pending[i] = pending[j] => i = j
       /\ \A i \in 1..n, j \in 1..q : log[i].entry # pending[j]
  <2>1. \A i, j \in 1..Len(log) : log[i].entry = log[j].entry => i = j
    BY DEF OnceInv, ChainedOnce
  <2>2. \A i, j \in 1..Len(pending) : pending[i] = pending[j] => i = j
    BY DEF OnceInv, SpooledOnce
  <2>3. \A i \in 1..Len(log), j \in 1..Len(pending) : log[i].entry # pending[j]
    BY Zenon DEF OnceInv, ChainedOnce, Chained, Spooled
  <2>4. Len(log) = n /\ Len(pending) = q
    BY <1>3
  <2>5. \A i, j \in 1..n : log[i].entry = log[j].entry => i = j
    BY <2>1, <2>4
  <2>6. \A i, j \in 1..q : pending[i] = pending[j] => i = j
    BY <2>2, <2>4
  <2>7. \A i \in 1..n, j \in 1..q : log[i].entry # pending[j]
    BY <2>3, <2>4
  <2> QED
    BY <2>5, <2>6, <2>7
<1>14. /\ \A e \in Chained' : e \in Chained \cup Spooled
       /\ \A e \in Spooled' : e \in Spooled
  <2>1. \A e \in Chained' : (\E i \in 1..n : e = log[i].entry) \/ \E i \in 1..m : e = pending[i]
    <3> SUFFICES ASSUME NEW e \in Chained'
                 PROVE  (\E i \in 1..n : e = log[i].entry) \/ \E i \in 1..m : e = pending[i]
      OBVIOUS
    <3>1. PICK i \in 1..n + m : e = log'[i].entry
      BY <1>4 DEF Chained
    <3>2. CASE i \in 1..n
      BY <1>4, <3>1, <3>2
    <3>3. CASE \E j \in 1..m : i = n + j
      BY <1>6, <3>1, <3>3
    <3> QED
      BY <1>7, <3>2, <3>3
  <2>2. \A e \in Spooled' : \E j \in 1..q : e = pending[j]
    BY <1>9, <1>11, <1>12 DEF Spooled
  <2> QED
    BY <1>3, <1>5, <2>1, <2>2 DEF Chained, Spooled
<1>15. ChainedOnce'
  <2>1. ASSUME NEW i \in 1..n + m, NEW j \in 1..n + m, log'[i].entry = log'[j].entry
        PROVE  i = j
    <3>1. CASE i \in 1..n /\ j \in 1..n
      BY <1>4, <1>13, <2>1, <3>1
    <3>2. ASSUME i \in 1..n, NEW y \in 1..m, j = n + y PROVE FALSE
      BY <1>4, <1>5, <1>6, <1>13, <2>1, <3>2
    <3>3. ASSUME j \in 1..n, NEW x \in 1..m, i = n + x PROVE FALSE
      BY <1>4, <1>5, <1>6, <1>13, <2>1, <3>3
    <3>4. ASSUME NEW x \in 1..m, i = n + x, NEW y \in 1..m, j = n + y PROVE i = j
      BY <1>5, <1>6, <1>13, <2>1, <3>4
    <3> QED
      BY <1>7, <3>1, <3>2, <3>3, <3>4
  <2>2. ASSUME NEW i \in 1..n + m, NEW j \in 1..k PROVE log'[i].entry # w[j]
    <3>1. PICK y \in 1..q : w[j] = pending[y]
      BY <1>12
    <3>2. CASE i \in 1..n
      BY <1>4, <1>13, <3>1, <3>2
    <3>3. ASSUME NEW x \in 1..m, i = n + x PROVE log'[i].entry # w[j]
      BY <1>6, <1>8, <1>12, <3>3
    <3> QED
      BY <1>7, <3>2, <3>3
  <2>3. Chained' \cap Spooled' = {}
    BY <1>4, <1>9, <1>11, <2>2 DEF Chained, Spooled
  <2> QED
    BY <1>4, <2>1, <2>3 DEF ChainedOnce
<1>16. SpooledOnce'
  <2>1. ASSUME NEW i \in 1..k, NEW j \in 1..k, i < j PROVE w[i] # w[j]
    <3>1. PICK x \in 1..q, y \in 1..q : x < y /\ w[i] = pending[x] /\ w[j] = pending[y]
      BY <1>12, <2>1
    <3>2. x # y
      BY <3>1
    <3> QED
      BY <1>13, <3>1, <3>2
  <2>2. \A i, j \in 1..k : i = j \/ i < j \/ j < i
    OBVIOUS
  <2>3. \A i, j \in 1..k : w[i] = w[j] => i = j
    BY <2>1, <2>2
  <2> QED
    BY <1>9, <1>11, <2>3 DEF SpooledOnce
<1>17. HeldOnce'
  BY <1>1, <1>14 DEF OnceInv, HeldOnce
<1>18. Numbered'
  <2>0. \A i \in 1..q : pending[i] <= happened
    BY <1>3 DEF OnceInv, Numbered
  <2>1. ASSUME NEW i \in 1..n + m PROVE log'[i].entry <= happened
    <3>1. CASE i \in 1..n
      BY <1>3, <1>4, <3>1 DEF OnceInv, Numbered
    <3>2. ASSUME NEW x \in 1..m, i = n + x PROVE log'[i].entry <= happened
      BY <1>5, <1>6, <2>0, <3>2
    <3> QED
      BY <1>7, <3>1, <3>2
  <2>2. \A i \in 1..k : w[i] <= happened
    BY <1>12, <2>0
  <2>3. \A a \in Actor : ent[a] <= happened
    BY DEF OnceInv, Numbered
  <2> QED
    BY <1>1, <1>4, <1>9, <1>11, <2>1, <2>2, <2>3 DEF Numbered
<1>19. ASSUME NEW e \in Drainer PROVE Selected(e)'
  <2>1. e = d
    BY DEF OneDrain
  <2>2. rows'[e] = <<>> /\ batch'[e] = <<>>
    BY <1>1, <1>2, <2>1, OnceTypes
  <2>3. Len(pending') \in Nat
    BY <1>9, <1>11
  <2> QED
    BY <2>2, <2>3, SelectedNone
<1> QED
  BY <1>15, <1>16, <1>17, <1>18, <1>19 DEF OnceInv

\* Every step, with at most one drain.
LEMMA OnceStep ==
  ASSUME TInv, OnceInv, OneDrain, [Next]_vars
  PROVE  OnceInv'
<1> DEFINE Rest == UNCHANGED <<log, pending, ent, happened, batch, rows>>
<1>0. DOMAIN pc = Actor /\ Drainer \subseteq Actor
  BY OnceTypes
<1>1. ASSUME Rest, NEW a \in Actor, NEW label, Goto(a, label), a \notin Drainer \/ label # "idle"
      PROVE  OnceInv'
  <2>1. \A d \in Drainer : pc'[d] = "idle" => pc[d] = "idle"
    BY <1>0, <1>1 DEF Goto
  <2> QED
    BY <1>1, <2>1, OnceStill
<1>2. ASSUME Rest, UNCHANGED pc PROVE OnceInv'
  BY <1>2, OnceStill
<1> USE DEF db, writeVars, drainVars
<1>3. CASE Tick \/ UNCHANGED vars
  BY <1>2, <1>3 DEF Tick, vars
<1>4. ASSUME NEW w \in Writer, NEW k \in Kinds, WriteLog(w, k) PROVE OnceInv'
  <2>1. w \in Actor \ Drainer
    BY ActorFacts
  <2> QED
    BY <1>4, <2>1, OnceNew DEF WriteLog
<1>5. ASSUME NEW a \in Writer \cup Purger \cup Repairer, Write(a) PROVE OnceInv'
  <2>1. a \in Actor \ Drainer
    BY ActorFacts
  <2>2. CASE EnterProcessLock(a) \/ FlushSettings(a) \/ LockTimeout(a)
    BY <1>1, <2>1, <2>2 DEF EnterProcessLock, FlushSettings, LockTimeout
  <2> QED
    BY <1>5, <2>2, OnceDefer, OnceInsert DEF Write
<1>6. ASSUME NEW a \in Actor, TakeChainLock(a) \/ ReadTail(a) \/ Fail(a) PROVE OnceInv'
  <2>1. CASE TakeChainLock(a)
    BY <1>1, <2>1 DEF TakeChainLock
  <2>2. CASE ReadTail(a)
    <3>1. PICK label \in {"chain", "insert"} : Goto(a, label)
      BY <2>2 DEF ReadTail
    <3> QED
      BY <1>1, <2>2, <3>1 DEF ReadTail
  <2> QED
    BY <1>6, <2>1, <2>2, OnceFail
<1>7. ASSUME NEW d \in Drainer, Drain(d) PROVE OnceInv'
  BY <1>7, OnceSelect, OnceChain, OnceCommit DEF Drain
<1>8. ASSUME NEW p \in Purger, PurgeBegin(p) \/ PurgeOff(p) \/ PurgeStep(p) PROVE OnceInv'
  <2>1. p \in Actor \ Drainer
    BY ActorFacts
  <2>2. ASSUME Rest, NEW label, Goto(p, label) PROVE OnceInv'
    BY <1>1, <2>1, <2>2
  <2>3. CASE PurgeSummary(p)
    <3>1. CASE NewEntry(p, "background")
      BY <2>1, <2>3, <3>1, OnceNew DEF PurgeSummary
    <3>2. CASE Goto(p, "idle") /\ UNCHANGED writeVars
      BY <2>2, <2>3, <3>2 DEF PurgeSummary
    <3> QED
      BY <2>3, <3>1, <3>2 DEF PurgeSummary
  <2>4. CASE PurgeBegin(p) \/ PurgeOff(p) \/ PurgeEnd(p)
    BY <2>2, <2>4 DEF PurgeBegin, PurgeOff, PurgeEnd
  <2>5. CASE PurgeMax(p) \/ PurgeKept(p) \/ PurgeIds(p)
    BY <2>2, <2>5 DEF PurgeMax, PurgeKept, PurgeIds
  <2>6. CASE PurgeTipHash(p) \/ PurgeCommit(p)
    BY <2>2, <2>6 DEF PurgeTipHash, PurgeCommit
  <2> QED
    BY <1>8, <2>3, <2>4, <2>5, <2>6 DEF PurgeStep
<1>9. ASSUME NEW v \in Verifier \cup Repairer, Verify(v) PROVE OnceInv'
  <2>1. v \in Actor \ Drainer
    BY ActorFacts
  <2>2. Rest /\ \E label : Goto(v, label)
    BY <1>9 DEF Verify, VerifySeed, VerifyWalk
  <2> HIDE DEF Rest
  <2> QED
    BY <1>1, <2>1, <2>2
<1>10. ASSUME NEW r \in Repairer, Repair(r) PROVE OnceInv'
  <2>1. r \in Actor \ Drainer
    BY ActorFacts
  <2>2. CASE RepairLock(r) \/ RepairSeed(r) \/ RepairHead(r)
    <3>1. Rest /\ \E label : Goto(r, label)
      BY <2>2 DEF RepairLock, RepairSeed, RepairHead
    <3> HIDE DEF Rest
    <3> QED
      BY <1>1, <2>1, <3>1
  <2>3. CASE RepairRow(r)
    BY <1>2, <2>3 DEF RepairRow
  <2>4. CASE RepairEvent(r)
    BY <2>1, <2>4, OnceNew DEF RepairEvent
  <2> QED
    BY <1>10, <2>2, <2>3, <2>4 DEF Repair
<1> QED
  BY <1>3, <1>4, <1>5, <1>6, <1>7, <1>8, <1>9, <1>10 DEF Next

\* While no two drains overlap, which the scheduler sees to (max_instances=1, in
\* the one process that owns the jobs), no entry is in the chain twice or in
\* chain and spool: across lock timeouts, failed drains and repairs.
THEOREM AlwaysChainedOnce ==
  ASSUME OneDrain
  PROVE  Spec => []ChainedOnce
<1>1. Init => OnceInv
  <2> SUFFICES ASSUME Init PROVE OnceInv
    OBVIOUS
  <2>0. TInv
    BY TInvInit
  <2>1. IsSeq(InitLog) /\ \A i \in DOMAIN InitLog : InitLog[i].entry = i
    BY InitLogAssumption DEF IsSeq
  <2>2. /\ DOMAIN InitLog = 1..Len(InitLog) /\ Len(InitLog) \in Nat /\ log = InitLog
        /\ pending = <<>> /\ Len(<<>>) = 0 /\ happened = Len(InitLog)
    BY <2>1, SeqFacts DEF Init
  <2>3. \A i \in 1..Len(log) : log[i].entry = i
    BY <2>1, <2>2
  <2>4. ChainedOnce /\ SpooledOnce
    BY <2>2, <2>3 DEF ChainedOnce, SpooledOnce, Spooled
  <2>5. \A a \in Actor : ent[a] = NoEntry /\ NoEntry = 0
    BY OnceTypes, <2>0 DEF Init
  <2>6. HeldOnce
    BY <2>5 DEF HeldOnce
  <2>7. Numbered
    <3>1. \A i \in 1..Len(log) : log[i].entry <= happened
      BY <2>2, <2>3
    <3>2. \A a \in Actor : ent[a] <= happened
      BY <2>2, <2>5
    <3> QED
      BY <2>2, <3>1, <3>2 DEF Numbered
  <2>8. ASSUME NEW d \in Drainer PROVE Selected(d)
    <3>1. batch[d] = <<>> /\ rows[d] = <<>> /\ Len(batch[d]) = 0 /\ Len(rows[d]) = 0
      <4>1. d \in Actor
        BY ActorFacts
      <4> QED
        BY <4>1, <2>2 DEF Init
    <3> QED
      BY <2>2, <3>1 DEF Selected
  <2> QED
    BY <2>4, <2>6, <2>7, <2>8 DEF OnceInv
<1>2. TInv /\ OnceInv /\ [Next]_vars => TInv' /\ OnceInv'
  BY TInvStep, OnceStep
<1>3. OnceInv => ChainedOnce
  BY DEF OnceInv
<1> QED
  BY <1>1, <1>2, <1>3, TInvInit, PTL DEF Spec
=============================================================================
