-------------------------------- MODULE Subseqs --------------------------------
(***************************************************************************)
(* What a loop over a vector or a list leaves that passes over, or takes   *)
(* out, some of its elements: the others, in their order.  SelectSeq says  *)
(* the same by recursion; the places are named here, so that the provers   *)
(* can reason about them (SubseqProofs).                                   *)
(***************************************************************************)
EXTENDS Integers, Sequences, FiniteSets

\* The members of a finite set of naturals, from the least one up.
Ordered(S) ==
    CHOOSE at \in [1 .. Cardinality(S) -> S] :
        \A j, k \in 1 .. Cardinality(S) : j < k => at[j] < at[k]

SubseqAt(s, S) == [k \in 1 .. Cardinality(S) |-> s[Ordered(S)[k]]]
=============================================================================
