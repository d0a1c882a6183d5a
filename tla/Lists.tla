-------------------------------- MODULE Lists --------------------------------
(***************************************************************************)
(* The algorithms of the C++ library that the trusted entities run on      *)
(* their std::list, by the positions K of the elements that are kept.      *)
(***************************************************************************)
EXTENDS Integers, Sequences, FiniteSets, Functions

(* The i-th smallest of a set K of positions.                               *)
Nth(K, i) == CHOOSE j \in K : Cardinality({k \in K : k <= j}) = i

(* std::list::remove and remove_if: the elements at the positions in K, in  *)
(* order; the others are erased.                                            *)
Keep(s, K) == [i \in 1..Cardinality(K) |-> s[Nth(K, i)]]

(* std::remove_if: the elements at the positions in K move to the front,    *)
(* the places behind them keep what they held, and nothing is erased.       *)
Shift(s, K) ==
  [i \in 1..Len(s) |-> IF i <= Cardinality(K) THEN s[Nth(K, i)] ELSE s[i]]

(* ... and the range from the iterator std::remove_if returns to the end.   *)
Rest(s, K) == SubSeq(s, Cardinality(K) + 1, Len(s))
=============================================================================
