------------------------------- MODULE Reducer -------------------------------
(***************************************************************************)
(* The M2.5 orchestrator reducer of packages/autopilot: a pure function    *)
(* from one AutopilotState and one event to the next AutopilotState.  Each *)
(* event is an operator on a run record; an event whose guard fails        *)
(* returns its argument, whose status is already the derived one.  Two     *)
(* real-time fields are abstracted:                                        *)
(*   age  how long ago lastActivityAt was stamped: "fresh", past the stall *)
(*        threshold ("stalled") or past the 24 h sweep ("orphan");         *)
(*   due  whether now has reached retry.nextRetryAt.                       *)
(***************************************************************************)
EXTENDS Naturals

CONSTANT MaxRetries   \* workflow.maxRetries

ASSUME MaxRetriesAssumption == MaxRetries \in Nat
-----------------------------------------------------------------------------
OrchestrationStates ==   \* "none" is the undefined state before activation
    {"none", "unclaimed", "claimed", "running", "retry_queued", "released",
     "blocked", "done"}

ActiveStates == {"unclaimed", "claimed", "running", "retry_queued", "released"}

BlockedReasons ==
    {"permission_denied", "workspace_containment_failed",
     "workspace_create_failed", "validation_failed", "evidence_missing",
     "stalled", "token_budget_exceeded", "user_stopped", "config_invalid",
     "max_retries_reached", "max_total_reached", "tool_error_repeated",
     "loop_breaker_triggered", "context_overflow_unrecoverable",
     "injection_rejected", "unrecoverable_error", "max_duration_reached",
     "max_cost_reached", "no_progress"}

ResumableReasons ==
    {"stalled", "validation_failed", "evidence_missing", "injection_rejected",
     "no_progress"}

PauseReasons ==
    {"max_attempts_reached", "max_total_reached", "tool_error_repeated",
     "loop_breaker_triggered", "context_overflow_unrecoverable",
     "permission_denied", "injection_rejected", "user_stopped",
     "token_budget_exceeded", "validation_failed", "max_duration_reached",
     "max_cost_reached", "no_progress"}

CapReasons == {"max_duration_reached", "max_cost_reached"}

(* Fault: reasons without a row of their own fall back to a resumable one. *)
LossyReason(reason) ==
    IF reason \in {"user_stopped", "token_budget_exceeded"}
    THEN reason ELSE "validation_failed"

PauseReasonToBlockedReason(reason) ==
    IF reason = "max_attempts_reached" THEN "max_retries_reached" ELSE reason

(* What a failed turn's error string amounts to: an error the classifier   *)
(* calls recoverable, or the BlockedReason an unrecoverable one maps to.   *)
(* The three reason names the classifier itself calls recoverable never    *)
(* get that far.                                                           *)
UnrecoverableErrors ==
    BlockedReasons \ {"stalled", "validation_failed", "injection_rejected"}

TurnOutcomes == {"success", "recoverable"} \cup UnrecoverableErrors

(* An evidence summary: its status, with skipped split by its skipReason.  *)
Verdicts == {"passed", "failed", "not_executed", "not_configured"}

(* Fault: the skip reason is stored where the status belongs.              *)
RawVerdict(verdict) == verdict

EvidenceOf(verdict) ==
    IF verdict \in {"not_executed", "not_configured"} THEN "skipped" ELSE verdict

Run == [orch       : OrchestrationStates,
        blocked    : BlockedReasons \cup {"none"},
        status     : {"idle", "running", "paused", "done"},
        enabled    : BOOLEAN,
        pause      : PauseReasons \cup {"none"},
        attempt    : Nat,      \* retry?.attempt ?? 0
        due        : BOOLEAN,
        needs      : BOOLEAN,  \* needsCrossTurnResume
        degraded   : BOOLEAN,
        evidence   : {"none", "running", "passed", "failed", "skipped"},
        unverified : BOOLEAN,  \* completionUnverified
        total      : Nat,      \* totalContinuations
        turn       : Nat,      \* turnAttempts
        age        : {"fresh", "stalled", "orphan"}]

InitialState ==
    [orch |-> "none", blocked |-> "none", status |-> "idle", enabled |-> FALSE,
     pause |-> "none", attempt |-> 0, due |-> FALSE, needs |-> FALSE,
     degraded |-> FALSE, evidence |-> "none", unverified |-> FALSE,
     total |-> 0, turn |-> 0, age |-> "fresh"]
-----------------------------------------------------------------------------
DeriveStatus(orch, blocked) ==
    CASE orch = "none"                                -> "idle"
      [] orch = "done"                                -> "done"
      [] orch = "blocked" /\ blocked = "user_stopped" -> "idle"
      [] orch = "blocked" /\ blocked # "user_stopped" -> "paused"
      [] orch \in ActiveStates                        -> "running"

(* The step after the switch: whatever the event did, status is derived.   *)
Derived(s) == [s EXCEPT !.status = DeriveStatus(s.orch, s.blocked)]

Stopped(s) == s.orch = "blocked" /\ s.blocked = "user_stopped"

Terminal(s) == s.orch = "done" \/ Stopped(s)

(* Fault: one attempt too many.                                            *)
RetryOnceMore(attempt, recoverable) ==
    recoverable /\ MaxRetries > 0 /\ attempt <= MaxRetries + 1

ShouldRetry(attempt, recoverable) ==
    recoverable /\ MaxRetries > 0 /\ attempt <= MaxRetries

Block(s, reason) ==
    [s EXCEPT !.orch = "blocked", !.blocked = reason, !.age = "fresh"]

(* buildRetryEntry: the next attempt, waiting out a new backoff.           *)
QueueRetry(s) ==
    [s EXCEPT !.orch = "retry_queued", !.attempt = @ + 1, !.due = FALSE,
              !.age = "fresh"]

RetryOrBlock(s) ==
    IF ShouldRetry(s.attempt + 1, TRUE)
    THEN QueueRetry(s) ELSE Block(s, "max_retries_reached")
-----------------------------------------------------------------------------
ActivateRequested(s) ==
    Derived([s EXCEPT !.orch = "unclaimed", !.blocked = "none", !.attempt = 0,
                      !.due = FALSE, !.evidence = "none", !.unverified = FALSE,
                      !.enabled = TRUE, !.age = "fresh"])

WorkspaceReady(s) ==
    IF s.orch # "unclaimed" THEN s
    ELSE Derived([s EXCEPT !.orch = "claimed", !.blocked = "none",
                           !.attempt = 0, !.due = FALSE, !.age = "fresh"])

(* Fault: a turn may start in any state.                                   *)
TurnStartedAnywhere(s) == Derived([s EXCEPT !.orch = "running", !.age = "fresh"])

AgentTurnStarted(s) ==
    IF s.orch # "claimed" THEN s
    ELSE Derived([s EXCEPT !.orch = "running", !.age = "fresh"])

AgentActivity(s) == Derived([s EXCEPT !.age = "fresh"])

AgentTurnFinished(s, outcome) ==
    IF s.orch # "running" THEN s
    ELSE Derived(
        CASE outcome = "success"     -> [s EXCEPT !.orch = "released", !.age = "fresh"]
          [] outcome = "recoverable" -> RetryOrBlock(s)
          [] OTHER                   -> Block(s, outcome))

StallTimeout(s) ==
    IF s.orch \notin {"running", "claimed"} THEN s ELSE Derived(RetryOrBlock(s))

RetryDue(s) ==
    IF s.orch # "retry_queued" \/ ~s.due THEN s
    ELSE Derived([s EXCEPT !.orch = "claimed", !.needs = TRUE, !.age = "fresh"])

EvidenceStarted(s) ==
    IF s.orch # "released" THEN s
    ELSE Derived([s EXCEPT !.evidence = "running", !.age = "fresh"])

EvidenceFinished(s, verdict) ==
    LET judged == [s EXCEPT !.evidence = EvidenceOf(verdict)]
    IN  IF s.orch # "released" THEN s
        ELSE Derived(
          CASE verdict \in {"passed", "not_configured"} ->
                 [judged EXCEPT !.orch = "done", !.enabled = FALSE,
                                !.unverified = (verdict # "passed"),
                                !.age = "fresh"]
            [] verdict = "not_executed" ->
                 [Block(judged, "evidence_missing") EXCEPT
                    !.enabled = FALSE, !.needs = FALSE, !.unverified = FALSE]
            [] verdict = "failed" -> RetryOrBlock(judged))

StopRequested(s) ==
    IF s.orch \notin ActiveStates \cup {"blocked"} \/ Stopped(s) THEN s
    ELSE Derived([Block(s, "user_stopped") EXCEPT
                    !.enabled = FALSE, !.pause = "none", !.needs = FALSE,
                    !.degraded = FALSE])

(* A run that already left the running family keeps what the reducer       *)
(* decided for it: a queued retry survives a later pause.                  *)
PauseRequested(s, reason) ==
    IF s.orch \notin ActiveStates \ {"retry_queued"} THEN s
    ELSE Derived([Block(s, PauseReasonToBlockedReason(reason)) EXCEPT
                    !.enabled = FALSE, !.pause = reason, !.needs = FALSE])

(* Fault: the hard cap also overwrites the user's own stop.                *)
HardStopAnything(s, reason) ==
    IF s.orch = "done" THEN s
    ELSE Derived([Block(s, PauseReasonToBlockedReason(reason)) EXCEPT
                    !.enabled = FALSE, !.pause = reason, !.needs = FALSE,
                    !.degraded = FALSE])

HardStopRequested(s, reason) ==
    IF s.orch = "done" \/ Stopped(s) THEN s
    ELSE Derived([Block(s, PauseReasonToBlockedReason(reason)) EXCEPT
                    !.enabled = FALSE, !.pause = reason, !.needs = FALSE,
                    !.degraded = FALSE])

Resumable(s) == s.orch = "blocked" /\ s.blocked \in ResumableReasons

(* Fault: the resumed run keeps the reason it was paused for.              *)
ResumeKeepsReason(s) ==
    IF ~(Resumable(s) \/ s.orch = "unclaimed") THEN s
    ELSE Derived([s EXCEPT !.orch = "claimed", !.blocked = "none",
                           !.needs = TRUE, !.age = "fresh"])

(* Fault: the legacy setter, which resumes whatever is blocked.            *)
ResumeForced(s) ==
    IF s.orch \notin {"blocked", "unclaimed"} THEN s
    ELSE Derived([s EXCEPT !.orch = "claimed", !.blocked = "none",
                           !.pause = "none", !.needs = TRUE, !.age = "fresh"])

ResumeRequested(s) ==
    IF ~(Resumable(s) \/ s.orch = "unclaimed") THEN s
    ELSE Derived([s EXCEPT !.orch = "claimed", !.blocked = "none",
                           !.pause = "none", !.needs = TRUE, !.age = "fresh"])

CrossTurn(s) == [s EXCEPT !.total = @ + 1, !.needs = TRUE, !.turn = 0]

CrossTurnEnqueued(s) ==
    IF s.status # "running" THEN s
    ELSE Derived([CrossTurn(s) EXCEPT !.age = "fresh"])

CrossTurnDegraded(s) ==
    IF s.status # "running" THEN s
    ELSE Derived([CrossTurn(s) EXCEPT !.degraded = TRUE, !.age = "fresh"])

CrossTurnDegradedSilent(s) ==   \* no stamp: it must not hide a stall
    IF s.status # "running" THEN s
    ELSE Derived([CrossTurn(s) EXCEPT !.degraded = TRUE])

CrossTurnResumeConsumed(s) ==
    Derived([s EXCEPT !.needs = FALSE, !.age = "fresh"])

DegradationMarked(s)  == Derived([s EXCEPT !.degraded = TRUE])
DegradationCleared(s) == Derived([s EXCEPT !.degraded = FALSE])
-----------------------------------------------------------------------------
(* The writes to a run that do not go through an event.                    *)

IncrementTurn(s)     == [s EXCEPT !.turn = @ + 1]
IncrementTotal(s)    == [s EXCEPT !.total = @ + 1]
ResetTurnAttempts(s) == [s EXCEPT !.turn = 0]

(* Fault: resuming starts a new retry chain.                               *)
ResumeRefillsBudget(s) ==
    Derived([ResumeRequested(s) EXCEPT !.enabled = TRUE, !.needs = FALSE,
                                       !.degraded = FALSE, !.attempt = 0])

(* autopilot.resume: the event, then the gateway's own fields.  The retry  *)
(* entry is kept, so that pausing and resuming does not refill the budget. *)
ResumedByGateway(s) ==
    Derived([ResumeRequested(s) EXCEPT
               !.enabled = TRUE, !.needs = FALSE, !.degraded = FALSE])

(* buildCheckpoint then loadCheckpoint: pauseReason is not persisted, the  *)
(* status is derived again and the run is marked degraded.                 *)
Restored(s) == Derived([s EXCEPT !.pause = "none", !.degraded = TRUE])
=============================================================================
