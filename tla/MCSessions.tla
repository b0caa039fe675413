----------------------------- MODULE MCSessions -----------------------------
(* Symmetry of Sessions. *)
EXTENDS Sessions, TLC

Symmetric == Permutations(Threads) \cup Permutations(Names)
=============================================================================
