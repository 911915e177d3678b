--------------------------- MODULE OrchestratorProofs ---------------------------
(***************************************************************************)
(* What Orchestrator checks on a small instance, for every retry budget,   *)
(* continuation budget and length of history.                              *)
(*                                                                         *)
(* The lemmas about single events are in ReducerProofs; SoundStep puts them*)
(* together.                                                               *)
(***************************************************************************)
EXTENDS Orchestrator, ReducerProofs, WellFoundedInduction

IInv == Good(run)
-----------------------------------------------------------------------------

(* Time passing touches the age and the due mark only.                     *)
LEMMA ElapseSound ==
    ASSUME Good(run), Elapse PROVE Sound(run, run')
<1>0. run \in Run /\ run.status = DeriveStatus(run.orch, run.blocked) BY DEF Good, Core
<1> DEFINE a == IF run.age = "fresh" THEN "stalled" ELSE "orphan"
           d == run.attempt > 0
<1>4. a \in {"fresh", "stalled", "orphan"} /\ d \in BOOLEAN OBVIOUS
<1>5. run' = [run EXCEPT !.age = a, !.due = d] BY <1>0 DEF Elapse, Run
<1> HIDE DEF a, d
<1>1. run' \in Run BY <1>0, <1>4, <1>5 DEF Run
<1>6. run'.enabled = run.enabled /\ run'.pause = run.pause /\ run'.attempt = run.attempt
      /\ run'.unverified = run.unverified /\ run'.evidence = run.evidence
      BY <1>0, <1>5 DEF Run
<1>2. run'.status = run.status /\ run'.orch = run.orch /\ run'.blocked = run.blocked
      BY <1>0, <1>5 DEF Run
<1>3. Core(run') /\ Kept(run, run') BY <1>1, <1>2, <1>6, Untouched
<1> QED BY <1>0, <1>2, <1>3 DEF Sound, Good
-----------------------------------------------------------------------------
(* Every step of the run is sound.                                         *)
LEMMA SoundStep == ASSUME IInv, [Next]_run PROVE Sound(run, run')
<1>0. Good(run) BY DEF IInv
<1>1. CASE Activate BY <1>0, <1>1, ActivateSound DEF Activate
<1>2. CASE Workspace BY <1>0, <1>2, WorkspaceSound DEF Workspace
<1>3. CASE TurnStart BY <1>0, <1>3, TurnStartSound DEF TurnStart
<1>4. CASE Activity BY <1>0, <1>4, ActivitySound DEF Activity
<1>5. CASE TurnFinish
  <2> DEFINE r == ResetTurnAttempts(run)
  <2>1. PICK outcome \in TurnOutcomes : run' = AgentTurnFinished(r, outcome)
        BY <1>5 DEF TurnFinish
  <2>2. Good(r) /\ Kept(run, r) BY <1>0, CountSound DEF Sound
  <2>3. Good(run') /\ Kept(r, run') BY <2>1, <2>2, TurnFinishSound DEF Sound
  <2>4. run.attempt \in Nat /\ r.attempt \in Nat /\ run'.attempt \in Nat
        BY <1>0, <2>2, <2>3 DEF Good, Core, Run
  <2>5. r.orch = run.orch /\ r.blocked = run.blocked /\ r.enabled = run.enabled
        BY <1>0 DEF ResetTurnAttempts, Good, Core, Run
  <2> HIDE DEF r
  <2>7. r.attempt = run.attempt BY <1>0, CountSound DEF r
  <2>8. Moves(run, run') BY <2>3, <2>5, <2>7 DEF Kept, Moves, Stopped, Resumable
  <2>6. Kept(run, run')
        BY <2>3, <2>5, <2>7, <2>8 DEF Kept, Terminal, Stopped, Resumable
  <2> QED BY <2>3, <2>6 DEF Sound
<1>6. CASE Stall BY <1>0, <1>6, StallSound DEF Stall
<1>7. CASE RetryTimer BY <1>0, <1>7, RetryDueSound DEF RetryTimer
<1>8. CASE GateStart BY <1>0, <1>8, GateStartSound DEF GateStart
<1>9. CASE GateFinish BY <1>0, <1>9, GateFinishSound DEF GateFinish
<1>10. CASE Stop BY <1>0, <1>10, StopSound DEF Stop
<1>11. CASE Pause BY <1>0, <1>11, PauseSound DEF Pause, PauseDispatched, PauseReasons
<1>12. CASE HardStop BY <1>0, <1>12, HardStopSound DEF HardStop
<1>13. CASE Resume BY <1>0, <1>13, ResumeSound DEF Resume
<1>14. CASE Revise BY <1>0, <1>14, CountSound DEF Revise
<1>15. CASE CrossTurns BY <1>0, <1>15, CrossTurnSound DEF CrossTurns
<1>16. CASE Flags BY <1>0, <1>16, FlagSound DEF Flags
<1>17. CASE Restore BY <1>0, <1>17, FlagSound DEF Restore
<1>18. CASE Elapse BY <1>0, <1>18, ElapseSound
<1>19. CASE UNCHANGED run BY <1>0, <1>19, Unmoved
<1> QED BY <1>1, <1>2, <1>3, <1>4, <1>5, <1>6, <1>7, <1>8, <1>9, <1>10, <1>11,
           <1>12, <1>13, <1>14, <1>15, <1>16, <1>17, <1>18, <1>19 DEF Next

(* A new run record is good.                                               *)
LEMMA InitGood == ASSUME Init PROVE IInv
<1>1. InitialState \in Run BY DEF InitialState, Run, OrchestrationStates
<1>2. Core(InitialState) BY <1>1, MaxRetriesAssumption DEF InitialState, Core, ActiveStates
<1>4. InitialState.status = "idle" /\ InitialState.orch = "none" BY DEF InitialState
<1>5. \A blocked : DeriveStatus("none", blocked) = "idle" BY DEF DeriveStatus, ActiveStates
<1>3. InitialState.status = DeriveStatus(InitialState.orch, InitialState.blocked)
      BY <1>4, <1>5
<1> QED BY <1>2, <1>3 DEF Init, IInv, Good

(* The inductive invariant.                                                *)
THEOREM Invariance == Spec => []IInv
<1>1. Init => IInv BY InitGood
<1>2. IInv /\ [Next]_run => IInv' BY SoundStep DEF IInv, Sound
<1> QED BY <1>1, <1>2, PTL DEF Spec

(* Every event, in every order, leaves a well-formed run.                  *)
THEOREM TypeCorrect == Spec => []TypeOK
<1>1. IInv => TypeOK BY DEF IInv, Good, Core, TypeOK
<1> QED BY <1>1, Invariance, PTL

(* The status always is the one its orchestration state and blocked reason *)
(* derive (ADR-016).                                                       *)
THEOREM StatusAlwaysAgrees == Spec => []StatusAgrees
<1>1. IInv => StatusAgrees BY DEF IInv, Good, StatusAgrees
<1> QED BY <1>1, Invariance, PTL

(* No order of stalls, failures, resumes and restarts exceeds the retry    *)
(* budget.                                                                 *)
THEOREM RetriesAreBounded == Spec => []RetryWithinBudget
<1>1. IInv => RetryWithinBudget BY DEF IInv, Good, Core, RetryWithinBudget
<1> QED BY <1>1, Invariance, PTL

(* Done means disabled, with an evidence record that says what was tested. *)
THEOREM DoneNeedsEvidence == Spec => []DoneIsAccounted
<1>1. IInv => DoneIsAccounted BY DEF IInv, Good, Core, DoneIsAccounted
<1> QED BY <1>1, Invariance, PTL

(* Only a blocked and disabled run shows a pause reason.                   *)
THEOREM PauseReasonIsCleared == Spec => []PauseReasonOnlyWhenPaused
<1>1. IInv => PauseReasonOnlyWhenPaused BY DEF IInv, Good, Core, PauseReasonOnlyWhenPaused
<1> QED BY <1>1, Invariance, PTL

(* Status, evidence and pause reason agree with the state of the run.      *)
THEOREM FieldsAlwaysAgree == Spec => []FieldsAgree
<1>1. StatusAgrees /\ DoneIsAccounted /\ PauseReasonOnlyWhenPaused => FieldsAgree
      BY DEF FieldsAgree
<1> QED BY <1>1, StatusAlwaysAgrees, DoneNeedsEvidence, PauseReasonIsCleared, PTL

(* Done and stopped are for ever.                                          *)
THEOREM TerminalStays == Spec => TerminalIsFinal
<1>1. IInv /\ [Next]_run =>
        [Terminal(run) => /\ run'.orch = run.orch
                          /\ run'.blocked = run.blocked
                          /\ run'.enabled = run.enabled]_run
      BY SoundStep DEF Sound, Kept
<1> QED BY <1>1, Invariance, PTL DEF Spec, TerminalIsFinal

(* A run parked for a non-resumable reason never becomes resumable.        *)
THEOREM NonResumableStays == Spec => NonResumableStaysParked
<1>1. IInv /\ [Next]_run =>
        [run.orch = "blocked" /\ ~Resumable(run)
           => run'.orch = "blocked" /\ ~Resumable(run')]_run
      BY SoundStep DEF Sound, Kept
<1> QED BY <1>1, Invariance, PTL DEF Spec, NonResumableStaysParked

(* The attempt counter never goes back.                                    *)
THEOREM RetriesAreNeverRefunded == Spec => RetryNeverRefunded
<1>1. IInv /\ [Next]_run => [run'.attempt >= run.attempt]_run
      BY SoundStep DEF Sound, Kept
<1> QED BY <1>1, Invariance, PTL DEF Spec, RetryNeverRefunded
-----------------------------------------------------------------------------
(* The delay of a queued retry (RetryDelay), in seconds.                    *)

(* Jitter of a whole number of milliseconds is one.                         *)
LEMMA JitterIsANumber ==
    ASSUME NEW delay \in Int, NEW percent \in Int, NEW draw \in Int
    PROVE  Jittered(delay, percent, draw) \in Int
<1> DEFINE delta == (delay * percent) \div 100
<1>1. delay * percent \in Int
  BY SMT
<1>2. delta \in Int
  BY <1>1, SMT
<1>3. 2 * delta * draw \in Int
  BY <1>2, SMT
<1>4. (2 * delta * draw) \div 100 \in Int
  BY <1>3, SMT
<1>5. delay - delta + (2 * delta * draw) \div 100 \in Int
  BY <1>2, <1>4, SMT
<1> QED BY <1>5 DEF Jittered

(* The bounds of the backoff of computeRetryDelay, for every attempt.      *)
THEOREM DelayIsInBounds ==
    ASSUME NEW growth \in Nat \ {0}, NEW tier, NEW retryAfter \in Nat, NEW cap \in Nat,
           NEW percent \in Nat, NEW draw \in Nat
    PROVE  DelayInBounds(growth, tier, retryAfter, cap, percent, draw)
<1> DEFINE planned == BaseDelay * growth * (IF tier = "long" THEN LongBackoffMultiplier ELSE 1)
           delay == Honored(Backoff(growth, tier, cap), retryAfter, cap)
           jittered == Jittered(delay, percent, draw)
<1>1. planned \in Int
  BY SMT DEF BaseDelay, LongBackoffMultiplier
<1>2. Backoff(growth, tier, cap) \in Int /\ Backoff(growth, tier, cap) <= cap
  BY <1>1, SMT DEF Backoff, Lesser
<1>3. delay \in Int /\ delay <= cap /\ Lesser(retryAfter, cap) <= delay
  BY <1>2, SMT DEF Honored, Lesser
<1>4. jittered \in Int
  BY <1>3, JitterIsANumber
<1>5. /\ Lesser(retryAfter, cap) <= Lesser(Greater(jittered, retryAfter), cap)
      /\ Lesser(Greater(jittered, retryAfter), cap) <= cap
  <2> HIDE DEF jittered
  <2> QED BY <1>4, SMT DEF Lesser, Greater
<1> QED BY <1>3, <1>5 DEF DelayInBounds, ComputeRetryDelay

(* A non-empty set of naturals has a least element: the form in which the  *)
(* proofs below use induction.                                             *)
LEMMA Least ==
    ASSUME NEW S \in SUBSET Nat, S # {}
    PROVE  \E m \in S : \A n \in S : m <= n
<1> DEFINE R == {p \in Nat \X Nat : p[1] < p[2]}
<1>1. R = OpToRel(<, Nat) BY DEF OpToRel
<1>2. IsWellFoundedOn(R, Nat) BY <1>1, NatLessThanWellFounded
<1>3. PICK x \in S : \A y \in S : ~(<<y, x>> \in R)
  <2> HIDE DEF R
  <2> QED BY <1>2, WFMin
<1>4. ASSUME NEW y \in S PROVE x <= y
  <2>1. x \in Nat /\ y \in Nat OBVIOUS
  <2>2. <<y, x>> \in Nat \X Nat /\ <<y, x>>[1] = y /\ <<y, x>>[2] = x BY <2>1
  <2>3. ~(y < x) BY <1>3, <2>2
  <2> QED BY <2>1, <2>3
<1> QED BY <1>4

(* A finite beginning of Growth.                                           *)
IsTable(f, n) ==
    /\ f \in [0..n -> Nat \ {0}]
    /\ f[0] = 1
    /\ \A i \in 1..n : f[i] = 2 * f[i - 1]

(* There is a table of the first n doublings, for every n.                 *)
LEMMA TableExists == \A n \in Nat : \E f : IsTable(f, n)
<1> DEFINE S == {n \in Nat : ~\E f : IsTable(f, n)}
<1>1. SUFFICES ASSUME S # {} PROVE FALSE OBVIOUS
<1>2. PICK m \in S : \A n \in S : m <= n BY <1>1, Least
<1>3. CASE m = 0
  <2>1. IsTable([i \in 0..0 |-> 1], 0) BY DEF IsTable
  <2> QED BY <1>2, <1>3, <2>1
<1>4. CASE m # 0
  <2>1. m - 1 \in Nat /\ m - 1 \notin S BY <1>2, <1>4
  <2>2. PICK f : IsTable(f, m - 1) BY <2>1
  <2> DEFINE g == [i \in 0..m |-> IF i = m THEN 2 * f[m - 1] ELSE f[i]]
  <2>3. f[m - 1] \in Nat \ {0} BY <2>1, <2>2 DEF IsTable
  <2>4. IsTable(g, m) BY <1>4, <2>1, <2>2, <2>3 DEF IsTable
  <2> QED BY <2>4
<1> QED BY <1>3, <1>4

(* Two tables agree where both are defined.                                *)
LEMMA TableUnique ==
    ASSUME NEW f, NEW g, NEW n \in Nat, NEW k \in Nat, IsTable(f, n), IsTable(g, k),
           NEW i \in Nat, i <= n, i <= k
    PROVE  f[i] = g[i]
<1> DEFINE S == {j \in Nat : j <= n /\ j <= k /\ f[j] # g[j]}
<1>1. SUFFICES ASSUME S # {} PROVE FALSE OBVIOUS
<1>2. PICK m \in S : \A j \in S : m <= j BY <1>1, Least
<1>3. CASE m = 0 BY <1>2, <1>3 DEF IsTable
<1>4. CASE m # 0
  <2>1. m - 1 \in Nat /\ m - 1 \notin S BY <1>2, <1>4
  <2>2. f[m - 1] = g[m - 1] BY <1>2, <2>1
  <2>3. m \in 1..n /\ m \in 1..k BY <1>2, <1>4
  <2> QED BY <1>2, <2>2, <2>3 DEF IsTable
<1> QED BY <1>3, <1>4

(* Growth is the function its definition describes: a power of two that is *)
(* never less than one, for every exponent.                                *)
LEMMA GrowthFacts ==
    /\ Growth \in [Nat -> Nat \ {0}]
    /\ Growth[0] = 1
    /\ \A n \in Nat : Growth[n + 1] = 2 * Growth[n]
<1> DEFINE T(n) == CHOOSE f : IsTable(f, n)
           d == [n \in Nat |-> T(n)[n]]
           body(e) == [n \in Nat |-> IF n = 0 THEN 1 ELSE 2 * e[n - 1]]
<1>1. \A n \in Nat : IsTable(T(n), n) BY TableExists
<1> HIDE DEF T
<1>2. \A n \in Nat : d[n] \in Nat \ {0} BY <1>1 DEF IsTable
<1>3. \A n \in Nat : d[n] = IF n = 0 THEN 1 ELSE 2 * d[n - 1]
  <2> SUFFICES ASSUME NEW n \in Nat PROVE d[n] = IF n = 0 THEN 1 ELSE 2 * d[n - 1] OBVIOUS
  <2>1. CASE n = 0 BY <1>1, <2>1 DEF IsTable
  <2>2. CASE n # 0
    <3>1. n - 1 \in Nat /\ n \in 1..n /\ n - 1 <= n BY <2>2
    <3>2. T(n)[n - 1] = T(n - 1)[n - 1] BY <1>1, <3>1, TableUnique
    <3> QED BY <1>1, <2>2, <3>1, <3>2 DEF IsTable
  <2> QED BY <2>1, <2>2
<1>4. d = body(d) BY <1>3
<1>5. Growth = CHOOSE e : e = body(e) BY DEF Growth
<1> HIDE DEF d
<1>6. Growth = body(Growth) BY <1>4, <1>5
<1>7. \A n \in Nat : Growth[n] = IF n = 0 THEN 1 ELSE 2 * Growth[n - 1] BY <1>6
<1> HIDE DEF body
<1>8. \A n \in Nat : Growth[n + 1] = 2 * Growth[n]
  <2> SUFFICES ASSUME NEW n \in Nat PROVE Growth[n + 1] = 2 * Growth[n] OBVIOUS
  <2>1. n + 1 \in Nat /\ n + 1 # 0 /\ (n + 1) - 1 = n OBVIOUS
  <2> QED BY <1>7, <2>1
<1>9. \A n \in Nat : Growth[n] \in Nat \ {0}
  <2> DEFINE S == {n \in Nat : Growth[n] \notin Nat \ {0}}
  <2>1. SUFFICES ASSUME S # {} PROVE FALSE OBVIOUS
  <2>2. PICK m \in S : \A j \in S : m <= j BY <2>1, Least
  <2>3. CASE m = 0 BY <1>7, <2>2, <2>3
  <2>4. CASE m # 0
    <3>1. m - 1 \in Nat /\ m - 1 \notin S BY <2>2, <2>4
    <3>2. Growth[m] = 2 * Growth[m - 1] BY <1>7, <2>2, <2>4
    <3> QED BY <2>2, <3>1, <3>2
  <2> QED BY <2>3, <2>4
<1>10. Growth = [n \in Nat |-> Growth[n]] BY <1>6 DEF body
<1> QED BY <1>7, <1>8, <1>9, <1>10
(* The delay of every retry a run ever queues is within the bounds that    *)
(* computeRetryDelay documents.                                            *)
THEOREM BackoffAlwaysBounded == Spec => []BackoffIsBounded
<1>1. IInv => BackoffIsBounded
  <2> SUFFICES ASSUME IInv, run.orch = "retry_queued",
                      NEW tier \in {"default", "long"}, NEW retryAfter \in {0, 15, 60},
                      NEW cap \in {0, 25, 300}, NEW percent \in {0, 20, 100},
                      NEW draw \in {0, 50, 99}
               PROVE  DelayInBounds(Growth[run.attempt - 1], tier, retryAfter, cap, percent, draw)
      BY DEF BackoffIsBounded
  <2>1. run.attempt \in Nat /\ run.attempt > 0 BY DEF IInv, Good, Core, Run
  <2>2. run.attempt - 1 \in Nat BY <2>1
  <2>3. Growth[run.attempt - 1] \in Nat \ {0} BY <2>2, GrowthFacts
  <2> QED BY <2>3, DelayIsInBounds
<1> QED BY <1>1, Invariance, PTL
-----------------------------------------------------------------------------
(* The phase and the resumability of a good state, by its orchestration    *)
(* state.                                                                  *)
LEMMA PhaseFacts ==
    ASSUME NEW s, Good(s)
    PROVE  /\ s.orch = "none" => PhaseOf(s) = "new"
           /\ s.orch \in ActiveStates => PhaseOf(s) = "running"
           /\ s.orch = "done" => PhaseOf(s) = "done"
           /\ Stopped(s) => PhaseOf(s) = "stopped"
           /\ s.orch = "blocked" /\ ~Stopped(s) => PhaseOf(s) = "paused"
           /\ s.orch # "blocked" => ~Resumable(s)
           /\ Stopped(s) => ~Resumable(s)
           /\ Resumable(s) \in BOOLEAN
<1>1. s.orch = "none" => PhaseOf(s) = "new" BY DEF PhaseOf, Stopped
<1>2. s.orch # "none" /\ ~Stopped(s) => PhaseOf(s) = s.status BY DEF PhaseOf
<1>3. Stopped(s) => PhaseOf(s) = "stopped" BY DEF PhaseOf, Stopped
<1>4. s.orch \in ActiveStates => s.status = "running"
      BY DEF Good, DeriveStatus, ActiveStates
<1>5. s.orch = "done" => s.status = "done" BY DEF Good, DeriveStatus, ActiveStates
<1>6. s.orch = "blocked" /\ ~Stopped(s) => s.status = "paused"
      BY DEF Good, DeriveStatus, Stopped, ActiveStates
<1>7. s.orch \in ActiveStates \cup {"done"} => s.orch # "none" /\ ~Stopped(s)
      BY DEF Stopped, ActiveStates
<1>8. (s.orch # "blocked" => ~Resumable(s)) /\ (Stopped(s) => ~Resumable(s))
      BY DEF Resumable, Stopped, ResumableReasons
<1>9. Resumable(s) \in BOOLEAN BY DEF Resumable
<1> QED BY <1>1, <1>2, <1>3, <1>4, <1>5, <1>6, <1>7, <1>8, <1>9

(* A step that moves as the events do is a step of the lifecycle.          *)
LEMMA MovesAreLifecycle ==
    ASSUME Good(run), Good(run'), Moves(run, run')
    PROVE  [Lifecycle!Next]_(Lifecycle!lifecycleVars)
<1> DEFINE p == PhaseOf(run)
           q == PhaseOf(run')
           a == run.attempt
           b == run'.attempt
<1>1. CASE run'.orch = run.orch /\ run'.blocked = run.blocked /\ b = a
  <2>1. Stopped(run') = Stopped(run) /\ Resumable(run') = Resumable(run)
        BY <1>1 DEF Stopped, Resumable
  <2>2. run'.status = run.status BY <1>1 DEF Good
  <2>3. q = p BY <1>1, <2>1, <2>2 DEF PhaseOf
  <2> QED BY <1>1, <2>1, <2>3 DEF Lifecycle!lifecycleVars
<1>2. CASE run.orch = "none" /\ run'.orch = "unclaimed" /\ b = a
  <2>1. p = "new" /\ q = "running" /\ Resumable(run) = FALSE /\ Resumable(run') = FALSE
        BY <1>2, PhaseFacts DEF ActiveStates
  <2>2. Lifecycle!Start BY <1>2, <2>1 DEF Lifecycle!Start
  <2> QED BY <2>2 DEF Lifecycle!Next
<1>3. CASE run.orch \in ActiveStates /\ run'.orch \in ActiveStates /\ b \in {a, a + 1}
  <2>1. p = "running" /\ q = "running" /\ Resumable(run) = FALSE /\ Resumable(run') = FALSE
        BY <1>3, PhaseFacts DEF ActiveStates
  <2>2. a \in Nat /\ b \in Nat /\ b <= MaxRetries BY DEF Good, Core, Run
  <2>3. CASE b = a BY <2>1, <2>3 DEF Lifecycle!lifecycleVars
  <2>4. CASE b = a + 1
    <3>1. a < MaxRetries BY <2>2, <2>4, MaxRetriesAssumption
    <3>2. Lifecycle!Recover BY <2>1, <2>4, <3>1 DEF Lifecycle!Recover
    <3> QED BY <3>2 DEF Lifecycle!Next
  <2> QED BY <1>3, <2>3, <2>4
<1>4. CASE run.orch \in ActiveStates /\ run'.orch \in {"blocked", "done"} /\ b = a
  <2>1. p = "running" /\ Resumable(run) = FALSE
        BY <1>4, PhaseFacts DEF ActiveStates
  <2>2. CASE run'.orch = "done"
    <3>1. q = "done" /\ Resumable(run') = FALSE BY <2>2, PhaseFacts
    <3>2. Lifecycle!Finish BY <1>4, <2>1, <3>1 DEF Lifecycle!Finish
    <3> QED BY <3>2 DEF Lifecycle!Next
  <2>3. CASE Stopped(run')
    <3>1. q = "stopped" /\ Resumable(run') = FALSE BY <2>3, PhaseFacts
    <3>2. Lifecycle!Stop BY <1>4, <2>1, <3>1 DEF Lifecycle!Stop
    <3> QED BY <3>2 DEF Lifecycle!Next
  <2>4. CASE run'.orch = "blocked" /\ ~Stopped(run')
    <3>1. q = "paused" /\ Resumable(run') \in BOOLEAN BY <2>4, PhaseFacts
    <3>2. Lifecycle!Park BY <1>4, <2>1, <3>1 DEF Lifecycle!Park
    <3> QED BY <3>2 DEF Lifecycle!Next
  <2> QED BY <1>4, <2>2, <2>3, <2>4
<1>5. CASE /\ run.orch = "blocked" /\ ~Stopped(run)
           /\ run'.orch = "blocked" /\ run'.blocked \notin ResumableReasons
           /\ b = a
  <2>1. p = "paused" /\ Resumable(run') = FALSE BY <1>5, PhaseFacts DEF Resumable
  <2>2. CASE Stopped(run')
    <3>1. q = "stopped" BY <2>2, PhaseFacts
    <3>2. Lifecycle!Stop BY <1>5, <2>1, <3>1 DEF Lifecycle!Stop
    <3> QED BY <3>2 DEF Lifecycle!Next
  <2>3. CASE ~Stopped(run') /\ Resumable(run)
    <3>1. q = "paused" BY <1>5, <2>3, PhaseFacts
    <3>2. Lifecycle!Condemn BY <1>5, <2>1, <2>3, <3>1 DEF Lifecycle!Condemn
    <3> QED BY <3>2 DEF Lifecycle!Next
  <2>4. CASE ~Stopped(run') /\ ~Resumable(run)
    <3>1. q = "paused" BY <1>5, <2>4, PhaseFacts
    <3>2. Resumable(run) = FALSE BY <2>4, PhaseFacts
    <3> QED BY <1>5, <2>1, <3>1, <3>2 DEF Lifecycle!lifecycleVars
  <2> QED BY <2>2, <2>3, <2>4
<1>6. CASE Resumable(run) /\ run'.orch = "claimed" /\ b = a
  <2>1. run.orch = "blocked" /\ ~Stopped(run) BY <1>6, PhaseFacts
  <2>2. p = "paused" /\ q = "running" /\ Resumable(run') = FALSE
        BY <1>6, <2>1, PhaseFacts DEF ActiveStates
  <2>3. Lifecycle!Resume BY <1>6, <2>2 DEF Lifecycle!Resume
  <2> QED BY <2>3 DEF Lifecycle!Next
<1> QED BY <1>1, <1>2, <1>3, <1>4, <1>5, <1>6 DEF Moves

(* The reducer implements the lifecycle: whatever the order of events, and *)
(* for every retry budget, a run only ever starts, recovers on budget,     *)
(* parks, resumes when entitled, finishes or stops.                        *)
THEOREM LifecycleIsImplemented == Spec => ImplementsLifecycle
<1>1. Init => Lifecycle!Init
  <2> SUFFICES ASSUME Init PROVE Lifecycle!Init OBVIOUS
  <2>1. Good(run) BY InitGood DEF IInv
  <2>2. run.orch = "none" /\ run.attempt = 0 BY DEF Init, InitialState
  <2>3. PhaseOf(run) = "new" /\ Resumable(run) = FALSE BY <2>1, <2>2, PhaseFacts
  <2> QED BY <2>2, <2>3 DEF Lifecycle!Init
<1>2. IInv /\ IInv' /\ [Next]_run => [Lifecycle!Next]_(Lifecycle!lifecycleVars)
      BY SoundStep, MovesAreLifecycle DEF IInv, Sound, Kept
<1> QED BY <1>1, <1>2, Invariance, PTL DEF Spec, ImplementsLifecycle, Lifecycle!Spec
===============================================================================
