----------------------------- MODULE Orchestrator -----------------------------
(***************************************************************************)
(* One Autopilot run under its reducer, when events reach it one at a      *)
(* time, in any order the host, the gateway and the 60 s patrol can send   *)
(* them.  Nothing here says which event comes next: the reducer's guards   *)
(* alone have to keep the run in order.                                    *)
(***************************************************************************)
EXTENDS Reducer, RetryDelay

CONSTANTS MaxTotal,   \* maxTotalContinuations
          MaxTurn     \* maxAttemptsPerTurn

ASSUME BudgetAssumption == MaxTotal \in Nat /\ MaxTurn \in Nat

VARIABLE run
-----------------------------------------------------------------------------
Init == run = InitialState

Activate  == run.orch = "none" /\ run' = ActivateRequested(run)
Workspace == run' = WorkspaceReady(run)
TurnStart == run' = AgentTurnStarted(run)
Activity  == run.orch # "none" /\ run' = AgentActivity(run)

TurnFinish == \E outcome \in TurnOutcomes :
                  run' = AgentTurnFinished(ResetTurnAttempts(run), outcome)

Stall      == run.enabled /\ run' = StallTimeout(run)
RetryTimer == run.enabled /\ run' = RetryDue(run)

GateStart  == run' = EvidenceStarted(run)
GateFinish == \E verdict \in Verdicts : run' = EvidenceFinished(run, verdict)

Stop  == run' = StopRequested(run)

(* The reasons the pause sites pass: decideContinuation, the degraded      *)
(* fallback, the loop breaker and the no-progress patrol.                  *)
PauseDispatched ==
    {"tool_error_repeated", "token_budget_exceeded", "max_cost_reached",
     "max_total_reached", "loop_breaker_triggered", "no_progress"}

Pause    == \E reason \in PauseDispatched : run' = PauseRequested(run, reason)
HardStop == /\ run.orch # "none"
            /\ \E reason \in CapReasons : run' = HardStopRequested(run, reason)

Resume == /\ run.status = "paused"
          /\ Resumable(run)
          /\ run' = ResumedByGateway(run)

Revise == /\ run.enabled /\ run.status = "running"
          /\ run.total < MaxTotal /\ run.turn < MaxTurn
          /\ run' = IncrementTotal(IncrementTurn(run))

(* The cross-turn events, each under the continuation budget its call site *)
(* tests.                                                                  *)
CrossTurns == /\ run.total < MaxTotal
              /\ \/ run' = CrossTurnEnqueued(run)
                 \/ run' = CrossTurnDegraded(run)
                 \/ run' = CrossTurnDegradedSilent(run)

Flags == /\ run.orch # "none"
         /\ \/ run' = CrossTurnResumeConsumed(run)
            \/ run' = DegradationMarked(run)
            \/ run' = DegradationCleared(run)

(* A restart from an up-to-date checkpoint; a stopped or done run has none.*)
Restore == /\ run.orch \notin {"none", "done"} /\ ~Stopped(run)
           /\ run' = Restored(run)

Elapse == run' = [run EXCEPT !.age = IF @ = "fresh" THEN "stalled" ELSE "orphan",
                             !.due = (run.attempt > 0)]

Next ==
    \/ Activate \/ Workspace \/ TurnStart \/ Activity \/ TurnFinish
    \/ Stall \/ RetryTimer \/ GateStart \/ GateFinish
    \/ Stop \/ Pause \/ HardStop \/ Resume
    \/ Revise \/ CrossTurns \/ Flags \/ Restore \/ Elapse

Spec == Init /\ [][Next]_run
-----------------------------------------------------------------------------
(* Type invariant: the run is always a well-formed state of the reducer.   *)
TypeOK == run \in Run

(* "The reducer is the sole writer of status" (ADR-016): after the resume  *)
(* spread, the counter increments and a restore, status still says what    *)
(* orchestrationState and blockedReason say.                               *)
StatusAgrees == run.status = DeriveStatus(run.orch, run.blocked)

(* Stalls, failed turns and failed validations draw on one retry budget,   *)
(* pausing and resuming never refills it, and a queued retry is always one *)
(* of the budgeted attempts.                                               *)
RetryWithinBudget ==
    /\ run.attempt <= MaxRetries
    /\ run.orch = "retry_queued" => run.attempt > 0

(* A done run is disabled, and completionUnverified tells exactly whether  *)
(* its evidence gate passed: there is no other way to done.                *)
DoneIsAccounted ==
    run.orch = "done" =>
        /\ ~run.enabled
        /\ \/ run.evidence = "passed"  /\ ~run.unverified
           \/ run.evidence = "skipped" /\ run.unverified

(* A pauseReason is shown only for a run that is blocked and disabled: a   *)
(* resumed run never shows the reason it was paused for (the H1 class of   *)
(* the resume_requested comment).                                          *)
PauseReasonOnlyWhenPaused ==
    run.pause # "none" => run.orch = "blocked" /\ ~run.enabled

(* The fields users read of a run tell one story after every event: status *)
(* with the state it is derived from, completionUnverified with the        *)
(* evidence of a done run, pauseReason with the block it explains.         *)
FieldsAgree == StatusAgrees /\ DoneIsAccounted /\ PauseReasonOnlyWhenPaused

(* Every queued retry waits within the bounds computeRetryDelay documents, *)
(* whatever the workflow configures, the server asks for and the jitter    *)
(* draws: never past the cap, never less than Retry-After says.            *)
BackoffIsBounded ==
    run.orch = "retry_queued" =>
        \A tier \in {"default", "long"}, retryAfter \in {0, 15, 60}, cap \in {0, 25, 300},
          percent \in {0, 20, 100}, draw \in {0, 50, 99} :
            DelayInBounds(Growth[run.attempt - 1], tier, retryAfter, cap, percent, draw)

(* No event, in whatever order it arrives, moves a done or a user-stopped  *)
(* run or enables it again.                                                *)
TerminalIsFinal ==
    [][Terminal(run) => /\ run'.orch = run.orch
                        /\ run'.blocked = run.blocked
                        /\ run'.enabled = run.enabled]_run

(* TENSION 1: a run parked for a reason that is not resumable is never     *)
(* made to look resumable, by any sequence of stops, caps or late events.  *)
NonResumableStaysParked ==
    [][run.orch = "blocked" /\ ~Resumable(run)
         => run'.orch = "blocked" /\ ~Resumable(run')]_run

(* The attempt number of the retry chain never goes back once the run has  *)
(* a workspace, so no interleaving of resumes, restarts and failures can   *)
(* earn extra retries.                                                     *)
RetryNeverRefunded ==
    [][run'.attempt >= run.attempt]_run
-----------------------------------------------------------------------------
(* The lifecycle phase a run shows.                                        *)
PhaseOf(s) ==
    CASE s.orch = "none" -> "new"
      [] Stopped(s)      -> "stopped"
      [] OTHER           -> s.status

Lifecycle == INSTANCE RunLifecycle WITH
    Budget      <- MaxRetries,
    phase       <- PhaseOf(run),
    recoverable <- Resumable(run),
    spent       <- run.attempt

(* Whatever the order of events, a run implements the lifecycle: parked    *)
(* runs come back only through a resume they are entitled to, recoveries   *)
(* stay within the retry budget, done and stopped are for ever.            *)
ImplementsLifecycle == Lifecycle!Spec
=============================================================================
