------------------------------ MODULE SeqFolds ------------------------------
(***************************************************************************)
(* Two functions of a sequence, each by recursion on its length: what a    *)
(* filter keeps of it, and the sum of its elements' weights.  They are     *)
(* recursive functions, whose values SeqFoldsProofs derives for every      *)
(* sequence.                                                               *)
(***************************************************************************)
EXTENDS Integers, Sequences

\* The sequence s without the elements of S, the others in their order.
Without(s, S) ==
  LET kept[i \in 0..Len(s)] ==
        IF i = 0 THEN <<>>
        ELSE IF s[i] \in S THEN kept[i - 1] ELSE Append(kept[i - 1], s[i])
  IN  kept[Len(s)]

\* The sum of the weights w of the elements of s.
Weight(s, w) ==
  LET sum[i \in 0..Len(s)] == IF i = 0 THEN 0 ELSE sum[i - 1] + w[s[i]]
  IN  sum[Len(s)]
=============================================================================
