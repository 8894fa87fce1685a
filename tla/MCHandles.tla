----------------------------- MODULE MCHandles -----------------------------
(* Two library handles and two result handles, of any kind each.           *)
EXTENDS Handles, TLC

\* Nothing tells the handles of a sort apart but their names.
Symmetry == Permutations(Quvis) \cup Permutations(Results)
=============================================================================
