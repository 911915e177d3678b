----------------------------- MODULE RunLifecycle -----------------------------
(***************************************************************************)
(* What a run promises its user, with no reducer in sight: it runs, it may *)
(* be parked and, if the reason allows, resumed; every recovery is paid    *)
(* from one budget; done and stopped are for ever.                         *)
(***************************************************************************)
EXTENDS Naturals

CONSTANT Budget        \* recoveries a run may spend

VARIABLES phase,       \* "new", "running", "paused", "stopped" or "done"
          recoverable, \* a paused run that the user may resume
          spent        \* recoveries spent

lifecycleVars == <<phase, recoverable, spent>>

Init == phase = "new" /\ recoverable = FALSE /\ spent = 0

Start == phase = "new" /\ phase' = "running" /\ UNCHANGED <<recoverable, spent>>

Recover == /\ phase = "running" /\ spent < Budget
           /\ spent' = spent + 1
           /\ UNCHANGED <<phase, recoverable>>

Park == /\ phase = "running" /\ phase' = "paused"
        /\ recoverable' \in BOOLEAN
        /\ UNCHANGED spent

(* A hard cap overrules a park that could still have been resumed.         *)
Condemn == /\ phase = "paused" /\ recoverable
           /\ recoverable' = FALSE
           /\ UNCHANGED <<phase, spent>>

Resume == /\ phase = "paused" /\ recoverable
          /\ phase' = "running" /\ recoverable' = FALSE
          /\ UNCHANGED spent

Finish == phase = "running" /\ phase' = "done" /\ UNCHANGED <<recoverable, spent>>

Stop == /\ phase \in {"running", "paused"}
        /\ phase' = "stopped" /\ recoverable' = FALSE
        /\ UNCHANGED spent

Next == Start \/ Recover \/ Park \/ Condemn \/ Resume \/ Finish \/ Stop

Spec == Init /\ [][Next]_lifecycleVars
=============================================================================
