--------------------------- MODULE MCCelerySignals ---------------------------
(* CelerySignals for TLC: tasks, messages and ids are interchangeable. *)
EXTENDS CelerySignals, TLC

Symmetry == Permutations(Tasks) \cup Permutations(Messages) \cup Permutations(Ids)
=============================================================================
