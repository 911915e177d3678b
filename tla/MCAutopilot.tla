----------------------------- MODULE MCAutopilot -----------------------------
(* Model values for checking Autopilot.                                    *)
EXTENDS Autopilot, TLC

Symmetry == Permutations(RunIds)
=============================================================================
