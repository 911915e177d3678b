----------------------------- MODULE ReducerProofs -----------------------------
(***************************************************************************)
(* What each event of the reducer does to a run record, whoever sends it:  *)
(* the lemmas under the proofs about Orchestrator and about Autopilot.     *)
(*                                                                         *)
(* Core is what every event keeps of a run apart from its status: the type,*)
(* the invariants of Orchestrator and what they need, that a run without a *)
(* workspace has no retry chain yet and that an active run is enabled.     *)
(* Sound(s, t) is all that is claimed of a step from s to t.  Each event   *)
(* has a lemma, Good(s) implies Sound(s, Event(s)).                        *)
(***************************************************************************)
EXTENDS Reducer, TLAPS

Core(s) ==
    /\ s \in Run
    /\ s.attempt <= MaxRetries
    /\ s.orch = "retry_queued" => s.attempt > 0
    /\ s.orch \in {"none", "unclaimed"} => s.attempt = 0
    /\ s.orch = "done" =>
         /\ ~s.enabled
         /\ \/ s.evidence = "passed"  /\ ~s.unverified
            \/ s.evidence = "skipped" /\ s.unverified
    /\ s.pause # "none" => s.orch = "blocked" /\ ~s.enabled
    /\ s.orch \in ActiveStates => s.enabled

Good(s) == Core(s) /\ s.status = DeriveStatus(s.orch, s.blocked)

Moves(s, t) ==
    \/ t.orch = s.orch /\ t.blocked = s.blocked /\ t.attempt = s.attempt
    \/ /\ s.orch = "none" /\ t.orch = "unclaimed" /\ t.attempt = s.attempt
    \/ /\ s.orch \in ActiveStates /\ t.orch \in ActiveStates
       /\ t.attempt \in {s.attempt, s.attempt + 1}
    \/ /\ s.orch \in ActiveStates /\ t.orch \in {"blocked", "done"}
       /\ t.attempt = s.attempt
    \/ /\ s.orch = "blocked" /\ ~Stopped(s)
       /\ t.orch = "blocked" /\ t.blocked \notin ResumableReasons
       /\ t.attempt = s.attempt
    \/ /\ Resumable(s) /\ t.orch = "claimed" /\ t.attempt = s.attempt

Kept(s, t) ==
    /\ t.attempt >= s.attempt
    /\ Moves(s, t)
    /\ Terminal(s) => /\ t.orch = s.orch
                      /\ t.blocked = s.blocked
                      /\ t.enabled = s.enabled
    /\ s.orch = "blocked" /\ ~Resumable(s) => t.orch = "blocked" /\ ~Resumable(t)

Sound(s, t) == Good(t) /\ Kept(s, t)
-----------------------------------------------------------------------------
(* A derived status is one of the four statuses.                           *)
LEMMA StatusType ==
    ASSUME NEW orch \in OrchestrationStates, NEW blocked
    PROVE  DeriveStatus(orch, blocked) \in {"idle", "running", "paused", "done"}
BY DEF DeriveStatus, OrchestrationStates, ActiveStates

(* Deriving the status changes nothing else.                               *)
LEMMA DerivedFields ==
    ASSUME NEW s \in Run
    PROVE  /\ Derived(s) \in Run
           /\ Derived(s).status = DeriveStatus(s.orch, s.blocked)
           /\ Derived(s).orch = s.orch
           /\ Derived(s).blocked = s.blocked
           /\ Derived(s).enabled = s.enabled
           /\ Derived(s).pause = s.pause
           /\ Derived(s).attempt = s.attempt
           /\ Derived(s).evidence = s.evidence
           /\ Derived(s).unverified = s.unverified
           /\ Derived(s).total = s.total
           /\ Derived(s).needs = s.needs
BY StatusType DEF Derived, Run

(* So an exit path only has to establish Core and Kept before it derives.  *)
LEMMA DerivedIsSound ==
    ASSUME NEW s, NEW x, Core(x), Kept(s, x)
    PROVE  Sound(s, Derived(x))
<1>1. x \in Run BY DEF Core
<1>2. Good(Derived(x)) BY <1>1, DerivedFields DEF Core, Good
<1>3. Kept(s, Derived(x)) BY <1>1, DerivedFields DEF Kept, Moves, ActiveStates, Resumable
<1> QED BY <1>2, <1>3 DEF Sound

(* An event whose guard fails leaves a good state.                         *)
LEMMA Unmoved == ASSUME NEW s, Good(s) PROVE Sound(s, s)
BY DEF Good, Core, Kept, Moves, Sound, Run

(* The reasons an event stores are blocked reasons.                        *)
LEMMA ReasonType ==
    /\ \A reason \in PauseReasons : PauseReasonToBlockedReason(reason) \in BlockedReasons
    /\ CapReasons \subseteq PauseReasons
    /\ UnrecoverableErrors \subseteq BlockedReasons
    /\ \A reason \in CapReasons : PauseReasonToBlockedReason(reason) \notin ResumableReasons
BY DEF PauseReasonToBlockedReason, BlockedReasons, PauseReasons, CapReasons,
       UnrecoverableErrors, ResumableReasons

(* Blocking a run that is not done keeps Core.                             *)
LEMMA BlockFields ==
    ASSUME NEW s, Core(s), s.orch # "done", NEW reason \in BlockedReasons
    PROVE  /\ Core(Block(s, reason))
           /\ Block(s, reason) \in Run
           /\ Block(s, reason).orch = "blocked"
           /\ Block(s, reason).blocked = reason
           /\ Block(s, reason).enabled = s.enabled
           /\ Block(s, reason).pause = s.pause
           /\ Block(s, reason).attempt = s.attempt
<1> DEFINE b == Block(s, reason)
<1>1. s \in Run BY DEF Core
<1>2. b \in Run BY <1>1 DEF Block, Run, OrchestrationStates
<1>3. b.orch = "blocked" /\ b.blocked = reason /\ b.attempt = s.attempt
      BY <1>1 DEF Block, Run
<1>4. b.enabled = s.enabled /\ b.pause = s.pause BY <1>1 DEF Block, Run
<1>5. s.pause = "none" \/ ~s.enabled BY DEF Core
<1> HIDE DEF b
<1>6. Core(b) BY <1>2, <1>3, <1>4, <1>5 DEF Core, ActiveStates
<1> QED BY <1>2, <1>3, <1>4, <1>6 DEF b

(* A recovery is paid from the retry budget or ends the chain.             *)
LEMMA RetryOrBlockIsSound ==
    ASSUME NEW s, Good(s), s.orch \in ActiveStates \ {"unclaimed"}
    PROVE  Core(RetryOrBlock(s)) /\ Kept(s, RetryOrBlock(s))
<1>0. s.orch # "blocked" /\ s.orch # "done" /\ s \in Run /\ s.pause = "none"
      /\ s.enabled
      BY DEF Good, Core, ActiveStates
<1>1. CASE ShouldRetry(s.attempt + 1, TRUE)
  <2> DEFINE q == QueueRetry(s)
  <2>0. q \in Run
    <3>1. s.attempt + 1 \in Nat BY <1>0 DEF Run
    <3>2. q = [s EXCEPT !.orch = "retry_queued", !.attempt = s.attempt + 1,
                        !.due = FALSE, !.age = "fresh"]
          BY DEF QueueRetry
    <3> QED BY <1>0, <3>1, <3>2 DEF Run, OrchestrationStates
  <2>1. q.orch = "retry_queued" /\ q.attempt = s.attempt + 1 /\ q.pause = "none"
        /\ q.enabled = s.enabled
        BY <1>0 DEF QueueRetry, Run
  <2>2. s.attempt + 1 <= MaxRetries /\ s.attempt \in Nat
        BY <1>0, <1>1 DEF ShouldRetry, Run
  <2>3. Core(q) BY <1>0, <2>0, <2>1, <2>2 DEF Core
  <2>4. Kept(s, q) BY <1>0, <2>1, <2>2 DEF Kept, Moves, ActiveStates, Terminal, Stopped
  <2> QED BY <1>1, <2>3, <2>4 DEF RetryOrBlock
<1>2. CASE ~ShouldRetry(s.attempt + 1, TRUE)
  <2>1. Core(Block(s, "max_retries_reached"))
        BY <1>0, BlockFields DEF BlockedReasons, Good
  <2> DEFINE b == Block(s, "max_retries_reached")
  <2>3. b.orch = "blocked" /\ b.attempt = s.attempt /\ s.attempt \in Nat
        BY <1>0, BlockFields DEF BlockedReasons, Good, Run
  <2> HIDE DEF b
  <2>4. Moves(s, b) BY <2>3 DEF Moves
  <2>5. b.attempt >= s.attempt BY <2>3
  <2>2. Kept(s, b) BY <1>0, <2>4, <2>5 DEF Kept, Terminal, Stopped
  <2> QED BY <1>2, <2>1, <2>2 DEF RetryOrBlock, b
<1> QED BY <1>1, <1>2
-----------------------------------------------------------------------------
(* One lemma per event: it keeps a good state good, and keeps its promise. *)

(* A new run becomes unclaimed with its retry chain empty.                 *)
LEMMA ActivateSound ==
    ASSUME NEW s, Good(s), s.orch = "none"
    PROVE  Sound(s, ActivateRequested(s))
<1> DEFINE x == [s EXCEPT !.orch = "unclaimed", !.blocked = "none", !.attempt = 0,
                          !.due = FALSE, !.evidence = "none", !.unverified = FALSE,
                          !.enabled = TRUE, !.age = "fresh"]
<1>0. s \in Run /\ s.attempt = 0 /\ s.pause = "none" BY DEF Good, Core
<1>1. x \in Run BY <1>0 DEF Run, OrchestrationStates
<1>2. x.orch = "unclaimed" /\ x.attempt = 0 /\ x.pause = "none" /\ x.enabled BY <1>0 DEF Run
<1>3. ActivateRequested(s) = Derived(x) BY DEF ActivateRequested
<1> HIDE DEF x
<1>4. Core(x) BY <1>1, <1>2, MaxRetriesAssumption DEF Core
<1>5. Kept(s, x) BY <1>0, <1>2 DEF Kept, Moves, ActiveStates, Terminal, Stopped
<1> QED BY <1>3, <1>4, <1>5, DerivedIsSound

(* A workspace claims an unclaimed run and nothing else.                   *)
LEMMA WorkspaceSound ==
    ASSUME NEW s, Good(s) PROVE Sound(s, WorkspaceReady(s))
<1> DEFINE x == [s EXCEPT !.orch = "claimed", !.blocked = "none",
                          !.attempt = 0, !.due = FALSE, !.age = "fresh"]
<1>1. CASE s.orch # "unclaimed" BY <1>1, Unmoved DEF WorkspaceReady
<1>2. CASE s.orch = "unclaimed"
  <2>0. s \in Run /\ s.attempt = 0 /\ s.pause = "none" /\ s.enabled
        BY <1>2 DEF Good, Core, ActiveStates
  <2>1. x \in Run BY <2>0 DEF Run, OrchestrationStates
  <2>2. x.orch = "claimed" /\ x.attempt = 0 /\ x.pause = "none" /\ x.enabled
        BY <2>0 DEF Run
  <2>3. WorkspaceReady(s) = Derived(x) BY <1>2 DEF WorkspaceReady
  <2> HIDE DEF x
  <2>4. Core(x) BY <2>1, <2>2, MaxRetriesAssumption DEF Core
  <2>5. Kept(s, x) BY <1>2, <2>0, <2>2 DEF Kept, Moves, ActiveStates, Terminal, Stopped
  <2> QED BY <2>3, <2>4, <2>5, DerivedIsSound
<1> QED BY <1>1, <1>2

(* A turn starts on a claimed run only.                                    *)
LEMMA TurnStartSound ==
    ASSUME NEW s, Good(s) PROVE Sound(s, AgentTurnStarted(s))
<1> DEFINE x == [s EXCEPT !.orch = "running", !.age = "fresh"]
<1>1. CASE s.orch # "claimed" BY <1>1, Unmoved DEF AgentTurnStarted
<1>2. CASE s.orch = "claimed"
  <2>0. s \in Run /\ s.attempt <= MaxRetries /\ s.pause = "none" /\ s.enabled
        BY <1>2 DEF Good, Core, ActiveStates
  <2>1. x \in Run BY <2>0 DEF Run, OrchestrationStates
  <2>2. x.orch = "running" /\ x.attempt = s.attempt /\ x.pause = "none" /\ x.enabled
        BY <2>0 DEF Run
  <2>3. AgentTurnStarted(s) = Derived(x) BY <1>2 DEF AgentTurnStarted
  <2>6. s.attempt \in Nat BY <2>0 DEF Run
  <2> HIDE DEF x
  <2>4. Core(x) BY <2>0, <2>1, <2>2 DEF Core
  <2>5. Kept(s, x) BY <1>2, <2>0, <2>2, <2>6 DEF Kept, Moves, ActiveStates, Terminal, Stopped
  <2> QED BY <2>3, <2>4, <2>5, DerivedIsSound
<1> QED BY <1>1, <1>2

(* A write that touches none of the fields Core and Kept speak of.         *)
LEMMA Untouched ==
    ASSUME NEW s, Good(s), NEW x \in Run,
           x.orch = s.orch, x.blocked = s.blocked, x.enabled = s.enabled,
           x.pause \in {s.pause, "none"}, x.attempt = s.attempt,
           x.unverified = s.unverified, x.evidence = s.evidence
    PROVE  Core(x) /\ Kept(s, x)
<1>1. s.attempt \in Nat BY DEF Good, Core, Run
<1>2. Core(x) BY DEF Good, Core
<1>3. Kept(s, x) BY <1>1 DEF Kept, Moves, ActiveStates, Resumable
<1> QED BY <1>2, <1>3

(* Activity moves no run.                                                  *)
LEMMA ActivitySound ==
    ASSUME NEW s, Good(s) PROVE Sound(s, AgentActivity(s))
<1> DEFINE x == [s EXCEPT !.age = "fresh"]
<1>0. s \in Run BY DEF Good, Core
<1>1. x \in Run BY <1>0 DEF Run
<1>2. Core(x) /\ Kept(s, x)
      BY <1>0, <1>1, Untouched DEF Run
<1> QED BY <1>2, DerivedIsSound DEF AgentActivity

(* A stall spends a retry or blocks the run.                               *)
LEMMA StallSound ==
    ASSUME NEW s, Good(s) PROVE Sound(s, StallTimeout(s))
<1>1. CASE s.orch \notin {"running", "claimed"} BY <1>1, Unmoved DEF StallTimeout
<1>2. CASE s.orch \in {"running", "claimed"}
  <2>1. Core(RetryOrBlock(s)) /\ Kept(s, RetryOrBlock(s))
        BY <1>2, RetryOrBlockIsSound DEF ActiveStates
  <2> QED BY <1>2, <2>1, DerivedIsSound DEF StallTimeout
<1> QED BY <1>1, <1>2

(* A due retry puts its run back to claimed.                               *)
LEMMA RetryDueSound ==
    ASSUME NEW s, Good(s) PROVE Sound(s, RetryDue(s))
<1> DEFINE x == [s EXCEPT !.orch = "claimed", !.needs = TRUE, !.age = "fresh"]
<1>1. CASE s.orch # "retry_queued" \/ ~s.due BY <1>1, Unmoved DEF RetryDue
<1>2. CASE s.orch = "retry_queued" /\ s.due
  <2>0. s \in Run /\ s.attempt <= MaxRetries /\ s.pause = "none" /\ s.enabled
        BY <1>2 DEF Good, Core, ActiveStates
  <2>1. x \in Run BY <2>0 DEF Run, OrchestrationStates
  <2>2. x.orch = "claimed" /\ x.attempt = s.attempt /\ x.pause = "none" /\ x.enabled
        BY <2>0 DEF Run
  <2>3. RetryDue(s) = Derived(x) BY <1>2 DEF RetryDue
  <2>6. s.attempt \in Nat BY <2>0 DEF Run
  <2> HIDE DEF x
  <2>4. Core(x) BY <2>0, <2>1, <2>2 DEF Core
  <2>5. Kept(s, x) BY <1>2, <2>0, <2>2, <2>6 DEF Kept, Moves, ActiveStates, Terminal, Stopped
  <2> QED BY <2>3, <2>4, <2>5, DerivedIsSound
<1> QED BY <1>1, <1>2

(* Opening the evidence gate leaves the run released.                      *)
LEMMA GateStartSound ==
    ASSUME NEW s, Good(s) PROVE Sound(s, EvidenceStarted(s))
<1> DEFINE x == [s EXCEPT !.evidence = "running", !.age = "fresh"]
<1>1. CASE s.orch # "released" BY <1>1, Unmoved DEF EvidenceStarted
<1>2. CASE s.orch = "released"
  <2>0. s \in Run /\ s.attempt <= MaxRetries /\ s.pause = "none" /\ s.enabled
        BY <1>2 DEF Good, Core, ActiveStates
  <2>1. x \in Run BY <2>0 DEF Run
  <2>2. x.orch = "released" /\ x.attempt = s.attempt /\ x.pause = "none" /\ x.enabled
        BY <1>2, <2>0 DEF Run
  <2>3. EvidenceStarted(s) = Derived(x) BY <1>2 DEF EvidenceStarted
  <2>6. s.attempt \in Nat BY <2>0 DEF Run
  <2> HIDE DEF x
  <2>4. Core(x) BY <2>0, <2>1, <2>2 DEF Core
  <2>5. Kept(s, x) BY <1>2, <2>0, <2>2, <2>6 DEF Kept, Moves, ActiveStates, Terminal, Stopped
  <2> QED BY <2>3, <2>4, <2>5, DerivedIsSound
<1> QED BY <1>1, <1>2

(* Any write that parks a run, by whichever event.                         *)
LEMMA Parked ==
    ASSUME NEW s, Good(s), ~Terminal(s), NEW x \in Run,
           x.orch = "blocked", x.attempt = s.attempt,
           x.pause = "none" \/ ~x.enabled,
           s.orch # "none",
           s.orch = "blocked" => x.blocked \notin ResumableReasons
    PROVE  Core(x) /\ Kept(s, x)
<1>1. s.attempt \in Nat /\ s.attempt <= MaxRetries BY DEF Good, Core, Run
<1>2. Core(x) BY <1>1 DEF Core, ActiveStates
<1>4. s.orch \in ActiveStates \/ (s.orch = "blocked" /\ ~Stopped(s))
      BY DEF Good, Core, Run, OrchestrationStates, ActiveStates, Terminal
<1>5. Moves(s, x) BY <1>4 DEF Moves
<1>3. Kept(s, x) BY <1>1, <1>5 DEF Kept, Resumable
<1> QED BY <1>2, <1>3

(* A finished turn releases, retries or blocks a running run.              *)
LEMMA TurnFinishSound ==
    ASSUME NEW s, Good(s), NEW outcome \in TurnOutcomes
    PROVE  Sound(s, AgentTurnFinished(s, outcome))
<1>1. CASE s.orch # "running" BY <1>1, Unmoved DEF AgentTurnFinished
<1>2. CASE s.orch = "running"
  <2>0. s \in Run /\ s.attempt <= MaxRetries /\ s.pause = "none" /\ s.enabled
        BY <1>2 DEF Good, Core, ActiveStates
  <2>1. CASE outcome = "success"
    <3> DEFINE x == [s EXCEPT !.orch = "released", !.age = "fresh"]
    <3>1. x \in Run BY <2>0 DEF Run, OrchestrationStates
    <3>2. x.orch = "released" /\ x.attempt = s.attempt /\ x.pause = "none" /\ x.enabled
          BY <2>0 DEF Run
    <3>3. AgentTurnFinished(s, outcome) = Derived(x) BY <1>2, <2>1 DEF AgentTurnFinished
    <3>6. s.attempt \in Nat BY <2>0 DEF Run
    <3> HIDE DEF x
    <3>4. Core(x) BY <2>0, <3>1, <3>2 DEF Core
    <3>5. Kept(s, x) BY <1>2, <2>0, <3>2, <3>6 DEF Kept, Moves, ActiveStates, Terminal, Stopped
    <3> QED BY <3>3, <3>4, <3>5, DerivedIsSound
  <2>2. CASE outcome = "recoverable"
    <3>1. Core(RetryOrBlock(s)) /\ Kept(s, RetryOrBlock(s))
          BY <1>2, RetryOrBlockIsSound DEF ActiveStates
    <3>2. AgentTurnFinished(s, outcome) = Derived(RetryOrBlock(s))
          BY <1>2, <2>2 DEF AgentTurnFinished
    <3> QED BY <3>1, <3>2, DerivedIsSound
  <2>3. CASE outcome \notin {"success", "recoverable"}
    <3>1. outcome \in BlockedReasons BY <2>3, ReasonType DEF TurnOutcomes
    <3>2. AgentTurnFinished(s, outcome) = Derived(Block(s, outcome))
          BY <1>2, <2>3 DEF AgentTurnFinished
    <3>3. ~Terminal(s) BY <1>2 DEF Terminal, Stopped
    <3>4. Core(s) BY DEF Good
    <3>5. Core(Block(s, outcome)) /\ Kept(s, Block(s, outcome))
          BY <1>2, <2>0, <3>1, <3>3, <3>4, BlockFields, Parked
    <3> QED BY <3>2, <3>5, DerivedIsSound
  <2> QED BY <2>1, <2>2, <2>3
<1> QED BY <1>1, <1>2

(* A verdict finishes, retries or blocks a released run.                   *)
LEMMA GateFinishSound ==
    ASSUME NEW s, Good(s), NEW verdict \in Verdicts
    PROVE  Sound(s, EvidenceFinished(s, verdict))
<1> DEFINE judged == [s EXCEPT !.evidence = EvidenceOf(verdict)]
<1>1. CASE s.orch # "released" BY <1>1, Unmoved DEF EvidenceFinished
<1>2. CASE s.orch = "released"
  <2>0. s \in Run /\ s.attempt <= MaxRetries /\ s.pause = "none" /\ Core(s) /\ s.enabled
        BY <1>2 DEF Good, Core, ActiveStates
  <2>1. EvidenceOf(verdict) \in {"none", "running", "passed", "failed", "skipped"}
        BY DEF Verdicts, EvidenceOf
  <2>2. judged \in Run BY <2>0, <2>1 DEF Run
  <2>3. judged.orch = "released" /\ judged.blocked = s.blocked
        /\ judged.attempt = s.attempt /\ judged.pause = "none" /\ judged.enabled
        /\ judged.evidence = EvidenceOf(verdict)
        BY <1>2, <2>0 DEF Run
  <2>4. s.status = "running" /\ judged.status = s.status
        BY <1>2, <2>0 DEF Run, Good, DeriveStatus, ActiveStates
  <2>5. ~Terminal(s) /\ s.attempt \in Nat BY <1>2, <2>0 DEF Terminal, Stopped, Run
  <2>6. CASE verdict \in {"passed", "not_configured"}
    <3> DEFINE x == [judged EXCEPT !.orch = "done", !.enabled = FALSE,
                                   !.unverified = (verdict # "passed"), !.age = "fresh"]
    <3>1. EvidenceFinished(s, verdict) = Derived(x) BY <1>2, <2>6 DEF EvidenceFinished
    <3> HIDE DEF judged
    <3>2. x \in Run BY <2>2 DEF Run, OrchestrationStates
    <3>3. x.orch = "done" /\ x.attempt = s.attempt /\ x.pause = "none" /\ ~x.enabled
          BY <2>2, <2>3 DEF Run
    <3>4. x.evidence = EvidenceOf(verdict) /\ x.unverified = (verdict # "passed")
          BY <2>2, <2>3 DEF Run
    <3> HIDE DEF x
    <3>5. \/ x.evidence = "passed" /\ ~x.unverified
          \/ x.evidence = "skipped" /\ x.unverified
          BY <2>6, <3>4 DEF EvidenceOf
    <3>6. Core(x) BY <2>0, <3>2, <3>3, <3>5 DEF Core, ActiveStates
    <3>7. Kept(s, x) BY <1>2, <2>5, <3>3 DEF Kept, Moves, ActiveStates
    <3> QED BY <3>1, <3>6, <3>7, DerivedIsSound
  <2>7. CASE verdict = "not_executed"
    <3> DEFINE b == Block(judged, "evidence_missing")
               x == [b EXCEPT
                       !.enabled = FALSE, !.needs = FALSE, !.unverified = FALSE]
    <3>1. EvidenceFinished(s, verdict) = Derived(x) BY <1>2, <2>7 DEF EvidenceFinished
    <3>5. Core(judged) BY <2>0, <2>2, <2>3 DEF Core
    <3> HIDE DEF judged
    <3>6. b \in Run /\ b.orch = "blocked" /\ b.attempt = s.attempt /\ b.pause = "none"
          BY <2>3, <3>5, BlockFields DEF BlockedReasons
    <3> HIDE DEF b
    <3>2. x \in Run BY <3>6 DEF Run
    <3>3. x.orch = "blocked" /\ x.attempt = s.attempt /\ x.pause = "none"
          BY <3>6 DEF Run
    <3> HIDE DEF x
    <3>4. Core(x) /\ Kept(s, x) BY <1>2, <2>5, <3>2, <3>3, Parked
    <3> QED BY <3>1, <3>4, DerivedIsSound
  <2>8. CASE verdict = "failed"
    <3>1. EvidenceFinished(s, verdict) = Derived(RetryOrBlock(judged))
          BY <1>2, <2>8 DEF EvidenceFinished
    <3> HIDE DEF judged
    <3>2. Core(judged) BY <2>0, <2>2, <2>3 DEF Core, ActiveStates
    <3>3. Good(judged) BY <2>3, <2>4, <3>2 DEF Good, DeriveStatus, ActiveStates
    <3>4. Core(RetryOrBlock(judged)) /\ Kept(judged, RetryOrBlock(judged))
          BY <2>3, <3>3, RetryOrBlockIsSound DEF ActiveStates
    <3>5. Kept(s, RetryOrBlock(judged))
          BY <1>2, <2>3, <2>5, <3>4 DEF Kept, Moves, ActiveStates
    <3> QED BY <3>1, <3>4, <3>5, DerivedIsSound
  <2> QED BY <2>6, <2>7, <2>8 DEF Verdicts
<1> QED BY <1>1, <1>2

(* A stop ends every run that has started and is not done.                 *)
LEMMA StopSound ==
    ASSUME NEW s, Good(s) PROVE Sound(s, StopRequested(s))
<1> DEFINE b == Block(s, "user_stopped")
           x == [b EXCEPT !.enabled = FALSE, !.pause = "none", !.needs = FALSE,
                          !.degraded = FALSE]
<1>1. CASE s.orch \notin ActiveStates \cup {"blocked"} \/ Stopped(s)
      BY <1>1, Unmoved DEF StopRequested
<1>2. CASE ~(s.orch \notin ActiveStates \cup {"blocked"} \/ Stopped(s))
  <2>0. Core(s) /\ ~Terminal(s) /\ s.orch # "done" /\ s.orch # "none"
        BY <1>2 DEF Good, Terminal, ActiveStates
  <2>1. StopRequested(s) = Derived(x) BY <1>2 DEF StopRequested
  <2>2. b \in Run /\ b.orch = "blocked" /\ b.blocked = "user_stopped"
        /\ b.attempt = s.attempt
        BY <2>0, BlockFields DEF BlockedReasons
  <2> HIDE DEF b
  <2>3. x \in Run BY <2>2 DEF Run
  <2>4. x.orch = "blocked" /\ x.blocked = "user_stopped" /\ x.attempt = s.attempt
        /\ x.pause = "none"
        BY <2>2 DEF Run
  <2> HIDE DEF x
  <2>5. Core(x) /\ Kept(s, x) BY <2>0, <2>3, <2>4, Parked DEF ResumableReasons
  <2> QED BY <2>1, <2>5, DerivedIsSound
<1> QED BY <1>1, <1>2

(* A pause blocks a run outside retry_queued for its reason.               *)
LEMMA PauseSound ==
    ASSUME NEW s, Good(s), NEW reason \in PauseReasons
    PROVE  Sound(s, PauseRequested(s, reason))
<1> DEFINE b == Block(s, PauseReasonToBlockedReason(reason))
           x == [b EXCEPT !.enabled = FALSE, !.pause = reason, !.needs = FALSE]
<1>1. CASE s.orch \notin ActiveStates \ {"retry_queued"}
      BY <1>1, Unmoved DEF PauseRequested
<1>2. CASE s.orch \in ActiveStates \ {"retry_queued"}
  <2>0. Core(s) /\ ~Terminal(s) /\ s.orch \notin {"done", "blocked", "none"}
        BY <1>2 DEF Good, Terminal, ActiveStates, Stopped
  <2>1. PauseRequested(s, reason) = Derived(x) BY <1>2 DEF PauseRequested
  <2>2. b \in Run /\ b.orch = "blocked" /\ b.attempt = s.attempt
        BY <2>0, BlockFields, ReasonType
  <2> HIDE DEF b
  <2>3. x \in Run BY <2>2 DEF Run
  <2>4. x.orch = "blocked" /\ x.attempt = s.attempt BY <2>2 DEF Run
  <2>5. ~x.enabled BY <2>2 DEF Run
  <2> HIDE DEF x
  <2>6. Core(x) /\ Kept(s, x) BY <2>0, <2>3, <2>4, <2>5, Parked
  <2> QED BY <2>1, <2>6, DerivedIsSound
<1> QED BY <1>1, <1>2

(* A hard cap ends every run that is not done or stopped.                  *)
LEMMA HardStopSound ==
    ASSUME NEW s, Good(s), s.orch # "none", NEW reason \in CapReasons
    PROVE  Sound(s, HardStopRequested(s, reason))
<1> DEFINE b == Block(s, PauseReasonToBlockedReason(reason))
           x == [b EXCEPT !.enabled = FALSE, !.pause = reason, !.needs = FALSE,
                          !.degraded = FALSE]
<1>1. CASE s.orch = "done" \/ Stopped(s) BY <1>1, Unmoved DEF HardStopRequested
<1>2. CASE ~(s.orch = "done" \/ Stopped(s))
  <2>0. Core(s) /\ ~Terminal(s) /\ s.orch # "done" BY <1>2 DEF Good, Terminal
  <2>1. HardStopRequested(s, reason) = Derived(x) BY <1>2 DEF HardStopRequested
  <2>2. b \in Run /\ b.orch = "blocked" /\ b.attempt = s.attempt
        /\ b.blocked = PauseReasonToBlockedReason(reason)
        BY <2>0, BlockFields, ReasonType
  <2> HIDE DEF b
  <2>3. x \in Run BY <2>2, ReasonType DEF Run
  <2>4. x.orch = "blocked" /\ x.attempt = s.attempt
        /\ x.blocked = PauseReasonToBlockedReason(reason)
        BY <2>2 DEF Run
  <2>5. ~x.enabled BY <2>2 DEF Run
  <2> HIDE DEF x
  <2>6. Core(x) /\ Kept(s, x) BY <2>0, <2>3, <2>4, <2>5, Parked, ReasonType
  <2> QED BY <2>1, <2>6, DerivedIsSound
<1> QED BY <1>1, <1>2

(* A resume claims a run blocked for a resumable reason.                   *)
LEMMA ResumeSound ==
    ASSUME NEW s, Good(s), Resumable(s)
    PROVE  Sound(s, ResumedByGateway(s))
<1> DEFINE x == [s EXCEPT !.orch = "claimed", !.blocked = "none",
                          !.pause = "none", !.needs = TRUE, !.age = "fresh"]
           r == ResumeRequested(s)
           y == [r EXCEPT !.enabled = TRUE, !.needs = FALSE, !.degraded = FALSE]
<1>0. Core(s) /\ s \in Run /\ s.attempt \in Nat /\ s.attempt <= MaxRetries
      /\ s.orch = "blocked" /\ ~Terminal(s)
      BY DEF Good, Core, Run, Resumable, Terminal, Stopped, ResumableReasons
<1>1. x \in Run BY <1>0 DEF Run, OrchestrationStates
<1>2. x.orch = "claimed" /\ x.attempt = s.attempt /\ x.pause = "none" BY <1>0 DEF Run
<1>3. r = Derived(x) BY DEF ResumeRequested
<1>4. ResumedByGateway(s) = Derived(y) BY DEF ResumedByGateway
<1> HIDE DEF x
<1>5. r \in Run /\ r.orch = "claimed" /\ r.attempt = s.attempt /\ r.pause = "none"
      BY <1>1, <1>2, <1>3, DerivedFields
<1> HIDE DEF r
<1>6. y \in Run BY <1>5 DEF Run
<1>7. y.orch = "claimed" /\ y.attempt = s.attempt /\ y.pause = "none" /\ y.enabled
      BY <1>5 DEF Run
<1> HIDE DEF y
<1>8. Core(y) BY <1>0, <1>6, <1>7 DEF Core
<1>9. Kept(s, y) BY <1>0, <1>7 DEF Kept, Moves, ActiveStates
<1> QED BY <1>4, <1>8, <1>9, DerivedIsSound

(* The writes that only count, or mark the run.                            *)
LEMMA CountSound ==
    ASSUME NEW s, Good(s)
    PROVE  /\ Sound(s, IncrementTotal(IncrementTurn(s)))
           /\ Sound(s, ResetTurnAttempts(s))
           /\ ResetTurnAttempts(s).orch = s.orch
           /\ ResetTurnAttempts(s).attempt = s.attempt
<1> DEFINE x == IncrementTotal(IncrementTurn(s))
           y == ResetTurnAttempts(s)
<1>0. s \in Run /\ s.status = DeriveStatus(s.orch, s.blocked) BY DEF Good, Core
<1>1. x = [s EXCEPT !.turn = s.turn + 1, !.total = s.total + 1]
      BY <1>0 DEF IncrementTotal, IncrementTurn, Run
<1>10. s.turn + 1 \in Nat /\ s.total + 1 \in Nat BY <1>0 DEF Run
<1>2. x \in Run
  <2> DEFINE a == s.turn + 1
             b == s.total + 1
  <2>1. x = [s EXCEPT !.turn = a, !.total = b] BY <1>1
  <2>2. a \in Nat /\ b \in Nat BY <1>10
  <2> HIDE DEF a, b, x
  <2> QED BY <1>0, <2>1, <2>2 DEF Run
<1>3. x.status = s.status /\ Core(x) /\ Kept(s, x)
      BY <1>0, <1>1, <1>2, Untouched DEF Run
<1>4. y \in Run BY <1>0 DEF Run, ResetTurnAttempts
<1>5. y.status = s.status /\ Core(y) /\ Kept(s, y)
      BY <1>0, <1>4, Untouched DEF Run, ResetTurnAttempts
<1>6. x.orch = s.orch /\ x.blocked = s.blocked BY <1>0, <1>1 DEF Run
<1>7. y.orch = s.orch /\ y.blocked = s.blocked /\ y.attempt = s.attempt
      BY <1>0 DEF Run, ResetTurnAttempts
<1>8. Sound(s, x) BY <1>0, <1>3, <1>6 DEF Sound, Good
<1>9. Sound(s, y) BY <1>0, <1>5, <1>7 DEF Sound, Good
<1> QED BY <1>7, <1>8, <1>9

(* A cross turn of any kind moves only counters and flags.                 *)
LEMMA CrossTurnSound ==
    ASSUME NEW s, Good(s)
    PROVE  /\ Sound(s, CrossTurnEnqueued(s))
           /\ Sound(s, CrossTurnDegraded(s))
           /\ Sound(s, CrossTurnDegradedSilent(s))
<1> DEFINE c == CrossTurn(s)
           x == [c EXCEPT !.age = "fresh"]
           y == [c EXCEPT !.degraded = TRUE, !.age = "fresh"]
           z == [c EXCEPT !.degraded = TRUE]
<1>0. s \in Run BY DEF Good, Core
<1>1. c \in Run
  <2> DEFINE a == s.total + 1
  <2>1. a \in Nat BY <1>0 DEF Run
  <2>2. c = [s EXCEPT !.total = a, !.needs = TRUE, !.turn = 0] BY DEF CrossTurn
  <2> HIDE DEF a, c
  <2> QED BY <1>0, <2>1, <2>2 DEF Run
<1>2. c.orch = s.orch /\ c.blocked = s.blocked /\ c.enabled = s.enabled
      /\ c.pause = s.pause /\ c.attempt = s.attempt
      /\ c.unverified = s.unverified /\ c.evidence = s.evidence
      BY <1>0 DEF CrossTurn, Run
<1>3. s.status # "running" \/ /\ CrossTurnEnqueued(s) = Derived(x)
                              /\ CrossTurnDegraded(s) = Derived(y)
                              /\ CrossTurnDegradedSilent(s) = Derived(z)
      BY DEF CrossTurnEnqueued, CrossTurnDegraded, CrossTurnDegradedSilent
<1> HIDE DEF c
<1>4. x \in Run /\ y \in Run /\ z \in Run BY <1>1 DEF Run
<1>10. \A u \in {x, y, z} :
         /\ u.orch = c.orch /\ u.blocked = c.blocked /\ u.enabled = c.enabled
         /\ u.pause = c.pause /\ u.attempt = c.attempt
         /\ u.unverified = c.unverified /\ u.evidence = c.evidence
       BY <1>1 DEF Run
<1> HIDE DEF x, y, z
<1>11. \A u \in {x, y, z} : Core(u) /\ Kept(s, u) BY <1>2, <1>4, <1>10, Untouched
<1>5. Core(x) /\ Kept(s, x) BY <1>11
<1>6. Core(y) /\ Kept(s, y) BY <1>11
<1>7. Core(z) /\ Kept(s, z) BY <1>11
<1>8. CASE s.status # "running"
      BY <1>8, Unmoved DEF CrossTurnEnqueued, CrossTurnDegraded, CrossTurnDegradedSilent
<1>9. CASE s.status = "running"
      BY <1>3, <1>5, <1>6, <1>7, <1>9, DerivedIsSound
<1> QED BY <1>8, <1>9

(* The flag events touch neither state nor counters.                       *)
LEMMA FlagSound ==
    ASSUME NEW s, Good(s)
    PROVE  /\ Sound(s, CrossTurnResumeConsumed(s))
           /\ Sound(s, DegradationMarked(s))
           /\ Sound(s, DegradationCleared(s))
           /\ Sound(s, Restored(s))
<1> DEFINE x == [s EXCEPT !.needs = FALSE, !.age = "fresh"]
           y == [s EXCEPT !.degraded = TRUE]
           z == [s EXCEPT !.degraded = FALSE]
           w == [s EXCEPT !.pause = "none", !.degraded = TRUE]
<1>0. s \in Run BY DEF Good, Core
<1>1. x \in Run /\ y \in Run /\ z \in Run BY <1>0 DEF Run
<1>2. w \in Run BY <1>0 DEF Run
<1>8. \A u \in {x, y, z, w} :
        /\ u.orch = s.orch /\ u.blocked = s.blocked /\ u.enabled = s.enabled
        /\ u.pause \in {s.pause, "none"} /\ u.attempt = s.attempt
        /\ u.unverified = s.unverified /\ u.evidence = s.evidence
      BY <1>0 DEF Run
<1>7. /\ CrossTurnResumeConsumed(s) = Derived(x)
      /\ DegradationMarked(s) = Derived(y)
      /\ DegradationCleared(s) = Derived(z)
      /\ Restored(s) = Derived(w)
      BY DEF CrossTurnResumeConsumed, DegradationMarked, DegradationCleared, Restored
<1> HIDE DEF x, y, z, w
<1>9. \A u \in {x, y, z, w} : Core(u) /\ Kept(s, u) BY <1>1, <1>2, <1>8, Untouched
<1> QED BY <1>7, <1>9, DerivedIsSound
===============================================================================
