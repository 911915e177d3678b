-------------------------- MODULE CheckpointRegister --------------------------
(***************************************************************************)
(* What the checkpoint files promise for each run, whatever the process    *)
(* and the disk do: what a restart would bring back only moves forward,    *)
(* never beyond what the run has been through, and once it has been given  *)
(* up it is gone for good.                                                 *)
(***************************************************************************)
EXTENDS Naturals

CONSTANTS RunIds, None

VARIABLES newest,   \* the number of the last state of a run that was to be kept
          kept,     \* the state a restart would bring back, if any
          given     \* the runs that were given up
rvars == <<newest, kept, given>>

Init ==
    /\ newest \in [RunIds -> Nat]
    /\ kept \in [RunIds -> Nat \cup {None}]
    /\ \A r \in RunIds : kept[r] # None => kept[r] <= newest[r]
    /\ given = {}

Advance(r) ==
    /\ newest' = [newest EXCEPT ![r] = @ + 1]
    /\ UNCHANGED <<kept, given>>

Keep(r) ==
    /\ r \notin given
    /\ \E v \in 0 .. newest[r] :
          /\ kept[r] # None => v > kept[r]
          /\ kept' = [kept EXCEPT ![r] = v]
    /\ UNCHANGED <<newest, given>>

GiveUp(some) ==
    /\ given' = given \cup some
    /\ kept' = [r \in RunIds |-> IF r \in some THEN None ELSE kept[r]]
    /\ UNCHANGED newest

Next ==
    \/ \E r \in RunIds : Advance(r) \/ Keep(r)
    \/ \E some \in SUBSET RunIds : GiveUp(some)

Spec == Init /\ [][Next]_rvars
=============================================================================
