-------------------------------- MODULE Lists --------------------------------
(***************************************************************************)
(* The two ways in which the code makes a list: ORDER BY over rows, and a  *)
(* comprehension that keeps some of a list.  SortSeq and SelectSeq say the *)
(* same and cannot be reasoned about: the prover has no definition of them.*)
(***************************************************************************)
EXTENDS Naturals, FiniteSets, SequencesExt

\* ORDER BY: the members of S, each before those it comes before.
Arranged(S, before) ==
  CHOOSE s \in SetToSeqs(S) : \A m, n \in DOMAIN s : m < n => <<s[m], s[n]>> \in before

\* ORDER BY id: the n-th is the one with n up to it.
InOrder(S) == [n \in 1 .. Cardinality(S) |-> CHOOSE x \in S : Cardinality({y \in S : y <= x}) = n]

\* What stands at some places of a list, in the order of the list.
Picked(list, places) ==
  LET at == InOrder(places) IN [n \in DOMAIN at |-> list[at[n]]]

\* [x for x in list if x in wanted].
Kept(list, wanted) == Picked(list, {n \in DOMAIN list : list[n] \in wanted})
=============================================================================
