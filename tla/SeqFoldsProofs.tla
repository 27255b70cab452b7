--------------------------- MODULE SeqFoldsProofs ---------------------------
(* What the recursive functions of SeqFolds compute, for every sequence.      *)
(* Induction is by a least counterexample: WFMin names it.                    *)
EXTENDS SeqFolds, SequenceTheorems, WellFoundedInduction, TLAPS

\* A set of numbers that has 0 and, with i - 1, each i up to n, has them all.
LEMMA Upwards ==
  ASSUME NEW n \in Nat, NEW S, 0 \in S, \A i \in 1..n : i - 1 \in S => i \in S
  PROVE  0..n \subseteq S
<1> DEFINE T == (0..n) \ S
           R == OpToRel(<, Nat)
<1> SUFFICES ASSUME T # {} PROVE FALSE
  OBVIOUS
<1>1. T \subseteq Nat
  OBVIOUS
<1>2. IsWellFoundedOn(R, Nat)
  BY NatLessThanWellFounded
<1> HIDE DEF R
<1>3. PICK t \in T : \A y \in T : ~ (<<y, t>> \in R)
  BY <1>1, <1>2, WFMin
<1>4. \A y \in T : ~(y < t)
  BY <1>1, <1>3 DEF R, OpToRel
<1>5. t \in 1..n /\ t - 1 \in 0..n /\ t - 1 < t
  OBVIOUS
<1> QED
  BY <1>4, <1>5

----------------------------------------------------------------------------
(* Without.                                                                   *)

\* f[i] is what is kept of the first i elements of s.
Kept(f, s, S, n) ==
  f = [i \in 0..n |-> IF i = 0 THEN <<>>
                      ELSE IF s[i] \in S THEN f[i - 1] ELSE Append(f[i - 1], s[i])]

\* There is such a function.
LEMMA KeptExists ==
  ASSUME NEW n \in Nat, NEW s, NEW S
  PROVE  \E f : Kept(f, s, S, n)
<1> DEFINE G == {m \in 0..n : \E f : Kept(f, s, S, m)}
<1>1. 0 \in G
  <2> DEFINE f == [i \in 0..0 |-> <<>>]
  <2>1. Kept(f, s, S, 0)
    BY DEF Kept
  <2> QED
    BY <2>1
<1>2. ASSUME NEW i \in 1..n, i - 1 \in G PROVE i \in G
  <2>1. PICK g : Kept(g, s, S, i - 1)
    BY <1>2
  <2> DEFINE v == IF s[i] \in S THEN g[i - 1] ELSE Append(g[i - 1], s[i])
             f == [j \in 0..i |-> IF j = i THEN v ELSE g[j]]
  <2>2. \A j \in 0..(i-1) : g[j] = IF j = 0 THEN <<>> ELSE IF s[j] \in S THEN g[j - 1] ELSE Append(g[j - 1], s[j])
    BY <2>1 DEF Kept
  <2>3. /\ f[i] = v /\ f[i - 1] = g[i - 1]
        /\ \A j \in 0..(i-1) : f[j] = g[j]
    OBVIOUS
  <2>4. \A j \in 0..i : f[j] = IF j = 0 THEN <<>>
                      ELSE IF s[j] \in S THEN f[j - 1] ELSE Append(f[j - 1], s[j])
    <3> TAKE j \in 0..i
    <3>1. CASE j = i
      BY <2>3, <3>1
    <3>2. CASE j # i
      <4>1. j \in 0..(i-1) /\ (j # 0 => j - 1 \in 0..(i-1))
        BY <3>2
      <4>2. f[j] = g[j] /\ (j # 0 => f[j-1] = g[j-1])
        BY <2>3, <4>1
      <4> HIDE DEF f
      <4> QED
        BY <2>2, <4>1, <4>2
    <3> QED
      BY <3>1, <3>2
  <2>5. f = [j \in 0..i |-> f[j]]
    OBVIOUS
  <2> HIDE DEF f
  <2>6. Kept(f, s, S, i)
    BY <2>4, <2>5 DEF Kept
  <2> QED
    BY <2>6
<1> HIDE DEF G
<1>3. 0..n \subseteq G
  BY <1>1, <1>2, Upwards
<1>4. n \in G
  BY <1>3
<1> QED
  BY <1>4 DEF G

\* Without returns its last value.
LEMMA WithoutKept ==
  ASSUME NEW E, NEW s \in Seq(E), NEW S
  PROVE  \E f : Kept(f, s, S, Len(s)) /\ Without(s, S) = f[Len(s)]
<1> DEFINE f == CHOOSE g : Kept(g, s, S, Len(s))
<1>1. Len(s) \in Nat
  OBVIOUS
<1>2. Kept(f, s, S, Len(s))
  BY <1>1, KeptExists
<1>3. Without(s, S) = f[Len(s)]
  BY DEF Without, Kept
<1> QED
  BY <1>2, <1>3

\* Its value at i, from the one before.
LEMMA KeptAt ==
  ASSUME NEW n \in Nat, NEW s, NEW S, NEW f, Kept(f, s, S, n), NEW i \in 0..n
  PROVE  /\ i = 0 => f[i] = <<>>
         /\ i # 0 /\ s[i] \in S => f[i] = f[i - 1]
         /\ i # 0 /\ s[i] \notin S => f[i] = Append(f[i - 1], s[i])
<1> DEFINE h == [j \in 0..n |-> IF j = 0 THEN <<>>
                                ELSE IF s[j] \in S THEN f[j - 1] ELSE Append(f[j - 1], s[j])]
<1>1. /\ i = 0 => h[i] = <<>>
      /\ i # 0 /\ s[i] \in S => h[i] = f[i - 1]
      /\ i # 0 /\ s[i] \notin S => h[i] = Append(f[i - 1], s[i])
  OBVIOUS
<1>2. f = h
  BY DEF Kept
<1> HIDE DEF h
<1> QED
  BY <1>1, <1>2

\* It depends only on the elements it has passed.
LEMMA KeptAgrees ==
  ASSUME NEW n \in Nat, NEW m \in Nat, NEW k \in Nat, k <= n, k <= m, NEW s, NEW t, NEW S,
         NEW f, NEW g, Kept(f, s, S, n), Kept(g, t, S, m), \A i \in 1..k : s[i] = t[i]
  PROVE  f[k] = g[k]
<1> DEFINE G == {i \in 0..k : f[i] = g[i]}
<1>1. ASSUME NEW i \in 0..k
      PROVE  /\ i = 0 => f[i] = <<>> /\ g[i] = <<>>
             /\ i # 0 /\ s[i] \in S => f[i] = f[i - 1]
             /\ i # 0 /\ s[i] \notin S => f[i] = Append(f[i - 1], s[i])
             /\ i # 0 /\ t[i] \in S => g[i] = g[i - 1]
             /\ i # 0 /\ t[i] \notin S => g[i] = Append(g[i - 1], t[i])
  <2>1. i \in 0..n /\ i \in 0..m
    OBVIOUS
  <2> QED
    BY <2>1, KeptAt
<1>2. 0 \in G
  BY <1>1
<1>3. ASSUME NEW i \in 1..k, i - 1 \in G PROVE i \in G
  <2>1. i \in 0..k /\ i # 0 /\ f[i - 1] = g[i - 1] /\ s[i] = t[i]
    BY <1>3
  <2> QED
    BY <1>1, <2>1
<1> HIDE DEF G
<1>4. 0..k \subseteq G
  BY <1>2, <1>3, Upwards
<1>5. k \in G
  BY <1>4
<1> QED
  BY <1>5 DEF G

\* Nothing is kept of nothing.
LEMMA WithoutEmpty ==
  ASSUME NEW S
  PROVE  Without(<<>>, S) = <<>>
<1>1. <<>> \in Seq({})
  OBVIOUS
<1>2. PICK f : Kept(f, <<>>, S, Len(<<>>)) /\ Without(<<>>, S) = f[Len(<<>>)]
  BY <1>1, WithoutKept
<1> QED
  BY <1>2 DEF Kept

\* One more element is kept at the end, or not.
LEMMA WithoutAppend ==
  ASSUME NEW E, NEW s \in Seq(E), NEW e \in E, NEW S
  PROVE  Without(Append(s, e), S) = IF e \in S THEN Without(s, S) ELSE Append(Without(s, S), e)
<1> DEFINE t == Append(s, e)
<1>1. t \in Seq(E) /\ Len(t) = Len(s) + 1 /\ Len(s) \in Nat
      /\ t[Len(s) + 1] = e /\ \A i \in 1..Len(s) : s[i] = t[i]
  OBVIOUS
<1>2. PICK f : Kept(f, s, S, Len(s)) /\ Without(s, S) = f[Len(s)]
  BY WithoutKept
<1> HIDE DEF t
<1>3. PICK g : Kept(g, t, S, Len(t)) /\ Without(t, S) = g[Len(t)]
  BY <1>1, WithoutKept
<1>4. f[Len(s)] = g[Len(s)]
  BY <1>1, <1>2, <1>3, KeptAgrees
<1>5. g[Len(s) + 1] = IF t[Len(s) + 1] \in S THEN g[Len(s)] ELSE Append(g[Len(s)], t[Len(s) + 1])
  <2>1. Len(s) + 1 \in 0..Len(t) /\ Len(s) + 1 # 0 /\ (Len(s) + 1) - 1 = Len(s)
    BY <1>1
  <2> QED
    BY <1>3, <2>1 DEF Kept
<1> QED
  BY <1>1, <1>2, <1>3, <1>4, <1>5 DEF t

\* Everything is kept of a sequence that has no element of S.
LEMMA WithoutNothing ==
  ASSUME NEW E, NEW s \in Seq(E), NEW S, \A i \in 1..Len(s) : s[i] \notin S
  PROVE  Without(s, S) = s
<1>1. PICK f : Kept(f, s, S, Len(s)) /\ Without(s, S) = f[Len(s)]
  BY WithoutKept
<1>2. Len(s) \in Nat
  OBVIOUS
<1> DEFINE P == {i \in 0..Len(s) : f[i] = SubSeq(s, 1, i)}
<1>3. 0 \in P
  <2>0. 0 \in 0..Len(s)
    BY <1>2
  <2>1. f[0] = <<>>
    BY <1>1, <1>2, <2>0, KeptAt
  <2>2. SubSeq(s, 1, 0) = <<>>
    OBVIOUS
  <2>3. f[0] = SubSeq(s, 1, 0)
    BY <2>1, <2>2
  <2> QED
    BY <2>0, <2>3, Zenon
<1>4. ASSUME NEW i \in 1..Len(s), i - 1 \in P PROVE i \in P
  <2>1. i \in 0..Len(s) /\ i # 0 /\ s[i] \notin S
    BY <1>2
  <2>2. f[i] = Append(f[i - 1], s[i])
    BY <1>1, <1>2, <2>1, KeptAt
  <2>3. f[i - 1] = SubSeq(s, 1, i - 1)
    BY <1>4
  <2>4. Append(SubSeq(s, 1, i - 1), s[i]) = SubSeq(s, 1, i)
    <3> DEFINE a == SubSeq(s, 1, i - 1)
               b == SubSeq(s, 1, i)
               c == Append(a, s[i])
    <3>1. i - 1 \in 0..Len(s) /\ i \in 0..Len(s) /\ s[i] \in E
      BY <1>2
    <3>2. a \in Seq(E) /\ Len(a) = i - 1 /\ \A j \in 1..(i - 1) : a[j] = s[j]
      BY <3>1
    <3>3. b \in Seq(E) /\ Len(b) = i /\ \A j \in 1..i : b[j] = s[j]
      BY <3>1
    <3> HIDE DEF a, b
    <3>4. c \in Seq(E) /\ Len(c) = i /\ c[i] = s[i] /\ \A j \in 1..(i - 1) : c[j] = a[j]
      BY <3>1, <3>2
    <3> HIDE DEF c
    <3>5. \A j \in 1..i : c[j] = b[j]
      BY <3>2, <3>3, <3>4
    <3>6. c = b
      BY <3>3, <3>4, <3>5
    <3> QED
      BY <3>6 DEF a, b, c
  <2> QED
    BY <2>1, <2>2, <2>3, <2>4
<1> HIDE DEF P
<1>5. 0..Len(s) \subseteq P
  BY <1>2, <1>3, <1>4, Upwards
<1>6. Len(s) \in P
  BY <1>2, <1>5
<1>7. f[Len(s)] = SubSeq(s, 1, Len(s))
  BY <1>6 DEF P
<1>8. SubSeq(s, 1, Len(s)) = s
  OBVIOUS
<1> QED
  BY <1>1, <1>7, <1>8

\* w has the elements of s that are not in S, and no others, each pair of them
\* in the order of s.
Filters(w, s, S) ==
  /\ \A j \in 1..Len(s) : s[j] \notin S => \E a \in 1..Len(w) : w[a] = s[j]
  /\ \A a \in 1..Len(w) : \E j \in 1..Len(s) : w[a] = s[j]
  /\ \A a, b \in 1..Len(w) : a < b =>
       \E j, k \in 1..Len(s) : j < k /\ w[a] = s[j] /\ w[b] = s[k]

\* What Without returns.
LEMMA WithoutFacts ==
  ASSUME NEW E, NEW s \in Seq(E), NEW S
  PROVE  Without(s, S) \in Seq(E \ S) /\ Filters(Without(s, S), s, S)
<1>1. PICK f : Kept(f, s, S, Len(s)) /\ Without(s, S) = f[Len(s)]
  BY WithoutKept
<1>2. Len(s) \in Nat
  OBVIOUS
<1>3. PICK n \in Nat : n = Len(s)
  BY <1>2
<1> DEFINE OK(i) == /\ f[i] \in Seq(E \ S)
                    /\ \A j \in 1..i : s[j] \notin S => \E a \in 1..Len(f[i]) : f[i][a] = s[j]
                    /\ \A a \in 1..Len(f[i]) : \E j \in 1..i : f[i][a] = s[j]
                    /\ \A a, b \in 1..Len(f[i]) : a < b =>
                         \E j, k \in 1..i : j < k /\ f[i][a] = s[j] /\ f[i][b] = s[k]
           G == {i \in 0..n : OK(i)}
<1>4. Kept(f, s, S, n)
  BY <1>1, <1>3
<1>5. 0 \in G
  <2>1. f[0] = <<>> /\ <<>> \in Seq(E \ S) /\ Len(<<>>) = 0
    <3>1. 0 \in 0..n
      OBVIOUS
    <3>2. f[0] = <<>>
      BY <1>4, <3>1, KeptAt
    <3> QED
      BY <3>2
  <2>2. 1..0 = {}
    OBVIOUS
  <2>3. OK(0)
    BY <2>1, <2>2
  <2> QED
    BY <2>3
<1>6. ASSUME NEW i \in 1..n, i - 1 \in G PROVE i \in G
  <2>1. PICK u \in Seq(E \ S) : u = f[i - 1]
    BY <1>6
  <2>2. /\ \A j \in 1..(i - 1) : s[j] \notin S => \E a \in 1..Len(u) : u[a] = s[j]
        /\ \A a \in 1..Len(u) : \E j \in 1..(i - 1) : u[a] = s[j]
        /\ \A a, b \in 1..Len(u) : a < b =>
             \E j, k \in 1..(i - 1) : j < k /\ u[a] = s[j] /\ u[b] = s[k]
    BY <1>6, <2>1
  <2>3. /\ \A j \in 1..i : j = i \/ j \in 1..(i - 1)
        /\ \A j \in 1..(i - 1) : j \in 1..i /\ j < i
        /\ i \in 1..i /\ s[i] \in E
    BY <1>3
  <2>4. CASE s[i] \in S
    <3>1. f[i] = u
      <4>1. i \in 0..n /\ i # 0
        OBVIOUS
      <4> HIDE DEF G
      <4>2. f[i] = f[i - 1]
        BY <1>4, <2>4, <4>1, KeptAt
      <4> QED
        BY <2>1, <4>2
    <3>2. OK(i)
      BY <2>1, <2>2, <2>3, <2>4, <3>1
    <3> QED
      BY <3>2
  <2>5. CASE s[i] \notin S
    <3>1. PICK v : v = Append(u, s[i])
      OBVIOUS
    <3>2. f[i] = v
      <4>1. i \in 0..n /\ i # 0
        OBVIOUS
      <4> HIDE DEF G
      <4>2. f[i] = Append(f[i - 1], s[i])
        BY <1>4, <2>5, <4>1, KeptAt
      <4> QED
        BY <2>1, <3>1, <4>2
    <3>3. /\ v \in Seq(E \ S) /\ Len(u) \in Nat /\ Len(v) = Len(u) + 1 /\ v[Len(u) + 1] = s[i]
          /\ \A a \in 1..Len(u) : v[a] = u[a]
      BY <2>3, <2>5, <3>1
    <3>4. /\ \A a \in 1..Len(v) : a = Len(u) + 1 \/ a \in 1..Len(u)
          /\ \A a \in 1..Len(u) : a \in 1..Len(v)
          /\ Len(u) + 1 \in 1..Len(v)
      BY <3>3
    <3>5. \A j \in 1..i : s[j] \notin S => \E a \in 1..Len(v) : v[a] = s[j]
      <4> SUFFICES ASSUME NEW j \in 1..i, s[j] \notin S PROVE \E a \in 1..Len(v) : v[a] = s[j]
        OBVIOUS
      <4>1. CASE j = i
        BY <3>3, <3>4, <4>1
      <4>2. CASE j \in 1..(i - 1)
        <5>1. PICK a \in 1..Len(u) : u[a] = s[j]
          BY <2>2, <4>2
        <5> QED
          BY <3>3, <3>4, <5>1
      <4> QED
        BY <2>3, <4>1, <4>2
    <3>6. ASSUME NEW a \in 1..Len(v) PROVE \E j \in 1..i : v[a] = s[j]
      <4>1. CASE a = Len(u) + 1
        BY <2>3, <3>3, <4>1
      <4>2. CASE a \in 1..Len(u)
        <5>1. PICK j \in 1..(i - 1) : u[a] = s[j]
          BY <2>2, <4>2
        <5> QED
          BY <2>3, <3>3, <4>2, <5>1
      <4> QED
        BY <3>4, <4>1, <4>2
    <3>7. ASSUME NEW a \in 1..Len(v), NEW b \in 1..Len(v), a < b
          PROVE  \E j, k \in 1..i : j < k /\ v[a] = s[j] /\ v[b] = s[k]
      <4>1. a \in 1..Len(u)
        BY <3>3, <3>7
      <4>2. CASE b \in 1..Len(u)
        <5>1. PICK j \in 1..(i - 1), k \in 1..(i - 1) : j < k /\ u[a] = s[j] /\ u[b] = s[k]
          BY <2>2, <3>7, <4>1, <4>2
        <5> QED
          BY <2>3, <3>3, <4>1, <4>2, <5>1
      <4>3. CASE b = Len(u) + 1
        <5>1. PICK j \in 1..(i - 1) : u[a] = s[j]
          BY <2>2, <4>1
        <5> QED
          BY <2>3, <3>3, <4>1, <4>3, <5>1
      <4> QED
        BY <3>4, <4>2, <4>3
    <3>8. OK(i)
      <4>1. /\ v \in Seq(E \ S)
            /\ \A a, b \in 1..Len(v) : a < b =>
                 \E j, k \in 1..i : j < k /\ v[a] = s[j] /\ v[b] = s[k]
        BY <3>3, <3>7
      <4>2. /\ f[i] \in Seq(E \ S)
            /\ \A j \in 1..i : s[j] \notin S => \E a \in 1..Len(f[i]) : f[i][a] = s[j]
        BY <3>2, <3>5, <4>1
      <4>3. \A a \in 1..Len(f[i]) : \E j \in 1..i : f[i][a] = s[j]
        BY <3>2, <3>6
      <4>4. \A a, b \in 1..Len(f[i]) : a < b =>
              \E j, k \in 1..i : j < k /\ f[i][a] = s[j] /\ f[i][b] = s[k]
        BY <3>2, <4>1
      <4> QED
        BY <4>2, <4>3, <4>4, Zenon
    <3> QED
      BY <3>8
  <2> QED
    BY <2>4, <2>5
<1> HIDE DEF G
<1>7. 0..n \subseteq G
  BY <1>5, <1>6, Upwards
<1>8. n \in G
  BY <1>7
<1>9. OK(n)
  BY <1>8 DEF G
<1> QED
  BY <1>1, <1>3, <1>9 DEF Filters

----------------------------------------------------------------------------
(* Weight.                                                                    *)

\* f[i] is the weight of the first i elements of s.
Summed(f, s, w, n) == f = [i \in 0..n |-> IF i = 0 THEN 0 ELSE f[i - 1] + w[s[i]]]

\* There is such a function.
LEMMA SummedExists ==
  ASSUME NEW n \in Nat, NEW s, NEW w
  PROVE  \E f : Summed(f, s, w, n)
<1> DEFINE G == {m \in 0..n : \E f : Summed(f, s, w, m)}
<1>1. 0 \in G
  <2> DEFINE f == [i \in 0..0 |-> 0]
  <2>1. Summed(f, s, w, 0)
    BY DEF Summed
  <2> QED
    BY <2>1
<1>2. ASSUME NEW i \in 1..n, i - 1 \in G PROVE i \in G
  <2>1. PICK g : Summed(g, s, w, i - 1)
    BY <1>2
  <2> DEFINE v == g[i - 1] + w[s[i]]
             f == [j \in 0..i |-> IF j = i THEN v ELSE g[j]]
  <2>2. \A j \in 0..(i - 1) : g[j] = IF j = 0 THEN 0 ELSE g[j - 1] + w[s[j]]
    BY <2>1 DEF Summed
  <2>3. /\ f[i] = v /\ f[i - 1] = g[i - 1]
        /\ \A j \in 0..(i - 1) : f[j] = g[j]
    OBVIOUS
  <2>4. \A j \in 0..i : f[j] = IF j = 0 THEN 0 ELSE f[j - 1] + w[s[j]]
    <3> TAKE j \in 0..i
    <3>1. CASE j = i
      BY <2>3, <3>1
    <3>2. CASE j # i
      <4>1. j \in 0..(i - 1) /\ (j # 0 => j - 1 \in 0..(i - 1))
        BY <3>2
      <4>2. f[j] = g[j] /\ (j # 0 => f[j - 1] = g[j - 1])
        BY <2>3, <4>1
      <4> HIDE DEF f
      <4> QED
        BY <2>2, <4>1, <4>2
    <3> QED
      BY <3>1, <3>2
  <2>5. f = [j \in 0..i |-> f[j]]
    OBVIOUS
  <2> HIDE DEF f
  <2>6. Summed(f, s, w, i)
    BY <2>4, <2>5 DEF Summed
  <2> QED
    BY <2>6
<1> HIDE DEF G
<1>3. 0..n \subseteq G
  BY <1>1, <1>2, Upwards
<1>4. n \in G
  BY <1>3
<1> QED
  BY <1>4 DEF G

\* Weight returns its last value.
LEMMA WeightSummed ==
  ASSUME NEW E, NEW s \in Seq(E), NEW w
  PROVE  \E f : Summed(f, s, w, Len(s)) /\ Weight(s, w) = f[Len(s)]
<1> DEFINE f == CHOOSE g : Summed(g, s, w, Len(s))
<1>1. Len(s) \in Nat
  OBVIOUS
<1>2. Summed(f, s, w, Len(s))
  BY <1>1, SummedExists
<1>3. Weight(s, w) = f[Len(s)]
  BY DEF Weight, Summed
<1> QED
  BY <1>2, <1>3

\* Its value at i, from the one before.
LEMMA SummedAt ==
  ASSUME NEW n \in Nat, NEW s, NEW w, NEW f, Summed(f, s, w, n), NEW i \in 0..n
  PROVE  /\ i = 0 => f[i] = 0
         /\ i # 0 => f[i] = f[i - 1] + w[s[i]]
<1> DEFINE h == [j \in 0..n |-> IF j = 0 THEN 0 ELSE f[j - 1] + w[s[j]]]
<1>1. /\ i = 0 => h[i] = 0
      /\ i # 0 => h[i] = f[i - 1] + w[s[i]]
  OBVIOUS
<1>2. f = h
  BY DEF Summed
<1> HIDE DEF h
<1> QED
  BY <1>1, <1>2

\* Its values are numbers.
LEMMA SummedNat ==
  ASSUME NEW E, NEW s \in Seq(E), NEW w \in [E -> Nat], NEW f, Summed(f, s, w, Len(s)),
         NEW k \in 0..Len(s)
  PROVE  f[k] \in Nat
<1> DEFINE G == {i \in 0..k : f[i] \in Nat}
<1>1. 0 \in G
  <2>1. 0 \in 0..Len(s) /\ 0 \in 0..k /\ Len(s) \in Nat
    OBVIOUS
  <2>2. f[0] = 0
    BY <2>1, SummedAt
  <2> QED
    BY <2>1, <2>2
<1>2. ASSUME NEW i \in 1..k, i - 1 \in G PROVE i \in G
  <2>1. i \in 0..Len(s) /\ i # 0 /\ i \in 0..k /\ Len(s) \in Nat /\ f[i - 1] \in Nat /\ s[i] \in E
    BY <1>2
  <2>2. f[i] = f[i - 1] + w[s[i]]
    BY <2>1, SummedAt
  <2>3. w[s[i]] \in Nat
    BY <2>1
  <2> QED
    BY <2>1, <2>2, <2>3
<1> HIDE DEF G
<1>3. k \in Nat
  OBVIOUS
<1>4. 0..k \subseteq G
  BY <1>1, <1>2, <1>3, Upwards
<1>5. k \in G
  BY <1>3, <1>4
<1> QED
  BY <1>5 DEF G

\* Both, for all of its values.
LEMMA SummedFacts ==
  ASSUME NEW E, NEW s \in Seq(E), NEW w \in [E -> Nat], NEW f, Summed(f, s, w, Len(s))
  PROVE  /\ f[0] = 0
         /\ \A i \in 0..Len(s) : f[i] \in Nat
         /\ \A i \in 1..Len(s) : f[i] = f[i - 1] + w[s[i]]
<1>1. Len(s) \in Nat /\ 0 \in 0..Len(s)
  OBVIOUS
<1>2. f[0] = 0
  BY <1>1, SummedAt
<1>3. ASSUME NEW i \in 1..Len(s) PROVE f[i] = f[i - 1] + w[s[i]]
  <2>1. i \in 0..Len(s) /\ i # 0
    OBVIOUS
  <2> QED
    BY <1>1, <2>1, SummedAt
<1> QED
  BY <1>2, <1>3, SummedNat

\* Weight is the last of the running sums.
LEMMA WeightSums ==
  ASSUME NEW E, NEW s \in Seq(E), NEW w \in [E -> Nat]
  PROVE  \E f : /\ f[0] = 0
                /\ \A i \in 0..Len(s) : f[i] \in Nat
                /\ \A i \in 1..Len(s) : f[i] = f[i - 1] + w[s[i]]
                /\ Weight(s, w) = f[Len(s)]
<1>1. PICK f : Summed(f, s, w, Len(s)) /\ Weight(s, w) = f[Len(s)]
  BY WeightSummed
<1>2. /\ f[0] = 0
      /\ \A i \in 0..Len(s) : f[i] \in Nat
      /\ \A i \in 1..Len(s) : f[i] = f[i - 1] + w[s[i]]
  BY <1>1, SummedFacts
<1> QED
  BY <1>1, <1>2

\* Two running sums that grow by the same steps stay as far apart as they began.
LEMMA SameSteps ==
  ASSUME NEW F, NEW G, NEW k \in Nat, F[0] \in Nat, G[0] = 0,
         \A i \in 1..k : \E x \in Nat : F[i] = F[i - 1] + x /\ G[i] = G[i - 1] + x
  PROVE  F[k] = F[0] + G[k]
<1> DEFINE D == {i \in 0..k : G[i] \in Nat /\ F[i] = F[0] + G[i]}
<1>1. 0 \in D
  OBVIOUS
<1>2. ASSUME NEW i \in 1..k, i - 1 \in D PROVE i \in D
  <2>1. G[i - 1] \in Nat /\ F[i - 1] = F[0] + G[i - 1]
    BY <1>2
  <2>2. PICK x \in Nat : F[i] = F[i - 1] + x /\ G[i] = G[i - 1] + x
    OBVIOUS
  <2> QED
    BY <2>1, <2>2
<1> HIDE DEF D
<1>3. 0..k \subseteq D
  BY <1>1, <1>2, Upwards
<1>4. k \in D
  BY <1>3
<1> QED
  BY <1>4 DEF D

\* Nothing weighs nothing, every weight is a number, one more element adds its
\* weight.
LEMMA WeightFacts ==
  ASSUME NEW E, NEW s \in Seq(E), NEW e \in E, NEW w \in [E -> Nat]
  PROVE  /\ Weight(<<>>, w) = 0
         /\ Weight(s, w) \in Nat
         /\ Weight(Append(s, e), w) = Weight(s, w) + w[e]
<1> DEFINE t == Append(s, e)
<1>1. /\ t \in Seq(E) /\ Len(t) = Len(s) + 1 /\ Len(s) \in Nat /\ <<>> \in Seq(E) /\ Len(<<>>) = 0
      /\ t[Len(s) + 1] = e /\ \A i \in 1..Len(s) : s[i] = t[i]
  OBVIOUS
<1> HIDE DEF t
<1>2. Weight(<<>>, w) = 0
  <2>1. PICK f : Summed(f, <<>>, w, 0) /\ Weight(<<>>, w) = f[0]
    BY <1>1, WeightSummed
  <2>2. 0 \in 0..0 /\ 0 \in Nat
    OBVIOUS
  <2> QED
    BY <2>1, <2>2, SummedAt
<1>3. PICK f : Summed(f, s, w, Len(s)) /\ Weight(s, w) = f[Len(s)]
  BY WeightSummed
<1>4. /\ f[0] = 0
      /\ \A i \in 0..Len(s) : f[i] \in Nat
      /\ \A i \in 1..Len(s) : f[i] = f[i - 1] + w[s[i]]
  BY <1>3, SummedFacts
<1>5. PICK g : Summed(g, t, w, Len(t)) /\ Weight(t, w) = g[Len(t)]
  BY <1>1, WeightSummed
<1>6. /\ g[0] = 0
      /\ \A i \in 0..Len(t) : g[i] \in Nat
      /\ \A i \in 1..Len(t) : g[i] = g[i - 1] + w[t[i]]
  <2>1. t \in Seq(E)
    BY <1>1
  <2>2. Summed(g, t, w, Len(t))
    BY <1>5
  <2> QED
    BY <2>1, <2>2, SummedFacts
<1>7. g[Len(s)] = g[0] + f[Len(s)]
  <2>1. ASSUME NEW i \in 1..Len(s)
        PROVE  \E x \in Nat : g[i] = g[i - 1] + x /\ f[i] = f[i - 1] + x
    <3>1. i \in 1..Len(t) /\ t[i] = s[i] /\ s[i] \in E
      BY <1>1
    <3>2. w[s[i]] \in Nat
      BY <3>1
    <3> QED
      BY <1>4, <1>6, <3>1, <3>2
  <2>2. g[0] \in Nat /\ f[0] = 0
    BY <1>4, <1>6
  <2>3. PICK k \in Nat : k = Len(s)
    BY <1>1
  <2>4. \A i \in 1..k : \E x \in Nat : g[i] = g[i - 1] + x /\ f[i] = f[i - 1] + x
    BY <2>1, <2>3
  <2>5. g[k] = g[0] + f[k]
    BY <2>2, <2>4, SameSteps, ZenonT(60)
  <2> QED
    BY <2>3, <2>5
<1>8. g[Len(t)] = g[Len(s)] + w[e]
  <2>1. PICK j \in 1..Len(t) : j = Len(t)
    BY <1>1
  <2>2. j - 1 = Len(s) /\ t[j] = e
    BY <1>1, <2>1
  <2>3. g[j] = g[j - 1] + w[t[j]]
    BY <1>6
  <2> QED
    BY <2>1, <2>2, <2>3
<1>9. f[Len(s)] \in Nat
  BY <1>1, <1>4
<1>10. g[Len(s)] = f[Len(s)]
  BY <1>6, <1>7, <1>9
<1> QED
  BY <1>2, <1>3, <1>5, <1>8, <1>9, <1>10 DEF t

\* A sequence weighs what its two parts weigh.
LEMMA WeightSplit ==
  ASSUME NEW E, NEW s \in Seq(E), NEW w \in [E -> Nat], NEW k \in 0..Len(s)
  PROVE  /\ Weight(s, w) = Weight(SubSeq(s, 1, k), w) + Weight(SubSeq(s, k + 1, Len(s)), w)
         /\ Weight(SubSeq(s, 1, k), w) \in Nat /\ Weight(SubSeq(s, k + 1, Len(s)), w) \in Nat
<1> DEFINE a == SubSeq(s, 1, k)
           b == SubSeq(s, k + 1, Len(s))
<1>1. /\ a \in Seq(E) /\ b \in Seq(E) /\ Len(a) = k /\ Len(b) = Len(s) - k
      /\ \A i \in 1..k : a[i] = s[i]
      /\ \A i \in 1..(Len(s) - k) : b[i] = s[k + i]
      /\ Len(s) \in Nat /\ k \in Nat /\ Len(s) - k \in Nat
  BY SMTT(60)
<1> HIDE DEF a, b
<1>2. PICK f : /\ f[0] = 0
               /\ \A i \in 0..Len(s) : f[i] \in Nat
               /\ \A i \in 1..Len(s) : f[i] = f[i - 1] + w[s[i]]
               /\ Weight(s, w) = f[Len(s)]
  BY WeightSums
<1>3. a \in Seq(E) /\ b \in Seq(E)
  BY <1>1
<1>4. PICK g : /\ g[0] = 0
               /\ \A i \in 0..Len(a) : g[i] \in Nat
               /\ \A i \in 1..Len(a) : g[i] = g[i - 1] + w[a[i]]
               /\ Weight(a, w) = g[Len(a)]
  BY <1>3, WeightSums
<1>5. PICK h : /\ h[0] = 0
               /\ \A i \in 0..Len(b) : h[i] \in Nat
               /\ \A i \in 1..Len(b) : h[i] = h[i - 1] + w[b[i]]
               /\ Weight(b, w) = h[Len(b)]
  BY <1>3, WeightSums
<1>6. /\ \A i \in 0..k : g[i] \in Nat
      /\ \A i \in 1..k : g[i] = g[i - 1] + w[a[i]]
      /\ Weight(a, w) = g[k]
  BY <1>1, <1>4
<1>7. \A i \in 1..k : i \in 1..Len(s) /\ a[i] = s[i] /\ s[i] \in E
  BY <1>1
<1>8. f[k] = f[0] + g[k]
  <2>1. ASSUME NEW i \in 1..k
        PROVE  \E x \in Nat : f[i] = f[i - 1] + x /\ g[i] = g[i - 1] + x
    <3>1. i \in 1..Len(s) /\ a[i] = s[i] /\ s[i] \in E
      BY <1>7
    <3>2. w[s[i]] \in Nat
      BY <3>1
    <3> QED
      BY <1>2, <1>6, <3>1, <3>2
  <2>2. PICK m \in Nat : m = k
    OBVIOUS
  <2>3. f[0] \in Nat /\ g[0] = 0
    BY <1>2, <1>4
  <2>4. \A i \in 1..m : \E x \in Nat : f[i] = f[i - 1] + x /\ g[i] = g[i - 1] + x
    BY <2>1, <2>2
  <2>5. f[m] = f[0] + g[m]
    BY <2>3, <2>4, SameSteps, ZenonT(60)
  <2> QED
    BY <2>2, <2>5
<1>9. f[Len(s)] = f[k] + h[Len(b)]
  <2>1. PICK m \in Nat : m = Len(b)
    BY <1>1
  <2> DEFINE F == [i \in 0..m |-> f[k + i]]
  <2>2. ASSUME NEW i \in 1..m
        PROVE  \E x \in Nat : F[i] = F[i - 1] + x /\ h[i] = h[i - 1] + x
    <3>1. PICK j \in 1..Len(s) : j = k + i
      BY <1>1, <2>1
    <3>2. j - 1 = k + (i - 1) /\ b[i] = s[j] /\ s[j] \in E
      BY <1>1, <2>1, <3>1, SMTT(60)
    <3>3. w[s[j]] \in Nat
      BY <3>2
    <3>4. F[i] = f[k + i] /\ F[i - 1] = f[k + (i - 1)]
      OBVIOUS
    <3> HIDE DEF F
    <3>5. f[j] = f[j - 1] + w[s[j]]
      BY <1>2
    <3>6. h[i] = h[i - 1] + w[b[i]]
      BY <1>5, <2>1
    <3> QED
      BY <3>1, <3>2, <3>3, <3>4, <3>5, <3>6
  <2>3. F[0] = f[k] /\ F[m] = f[Len(s)]
    <3>1. k + 0 = k /\ k + m = Len(s)
      BY <1>1, <2>1
    <3> QED
      BY <3>1, SMTT(30)
  <2> HIDE DEF F
  <2>4. F[0] \in Nat /\ h[0] = 0
    BY <1>2, <1>5, <2>3
  <2>5. F[m] = F[0] + h[m]
    BY <2>2, <2>4, SameSteps, ZenonT(60)
  <2> QED
    BY <2>1, <2>3, <2>5
<1>10. g[k] \in Nat /\ h[Len(b)] \in Nat
  <2>1. k \in 0..k /\ Len(b) \in 0..Len(b)
    BY <1>3
  <2> QED
    BY <1>5, <1>6, <2>1
<1>11. f[Len(s)] = g[k] + h[Len(b)]
  BY <1>2, <1>8, <1>9, <1>10
<1> QED
  BY <1>2, <1>5, <1>6, <1>10, <1>11 DEF a, b
============================================================================
