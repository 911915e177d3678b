----------------------------- MODULE MCInstinct -----------------------------
(* Symmetry for checking InstinctStore.                                    *)
EXTENDS InstinctStore, TLC

Symmetry == Permutations(Procs) \cup Permutations(Slots)
=============================================================================
