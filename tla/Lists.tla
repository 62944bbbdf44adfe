-------------------------------- MODULE Lists --------------------------------
(* What erasing in a loop leaves of a list.  (SelectSeq says the same, but by a *)
(* recursion over its test, which no proof can expand.)                         *)
EXTENDS Naturals, Sequences, FiniteSets

\* The entry at k is the n-th of those at the positions in I.
IsNth(k, n, I) == Cardinality({j \in I : j <= k}) = n

\* The entries of s at the positions in I, in their order.
Entries(s, I) == [n \in 1..Cardinality(I) |-> s[CHOOSE k \in I : IsNth(k, n, I)]]
=============================================================================
