------------------------------ MODULE Autopilot ------------------------------
(***************************************************************************)
(* packages/autopilot/index.ts: every run of a gateway process under the   *)
(* handlers that drive it: the hooks of a host turn, the gateway RPCs, the *)
(* 60 s patrol, session ends, and a process that dies and registers again. *)
(*                                                                         *)
(* A handler runs to its next await in one step.  What it holds across the *)
(* await, including its snapshot of the run, is in hook or rpc; everything *)
(* else may happen before it continues.  The host awaits the hooks of one  *)
(* session one at a time.                                                  *)
(***************************************************************************)
EXTENDS Store

CONSTANTS MaxTotal,       \* maxTotalContinuations
          MaxTurn,        \* maxAttemptsPerTurn
          MinTurns,       \* minTurnsBeforeComplete
          MaxConcurrent,  \* maxConcurrentAutopilot
          HasCommands,    \* validation commands are configured
          Facade,         \* the host offers enqueueNextTurnInjection
          Caps,           \* the hard caps configured, of CapReasons
          Outcomes,       \* the turn outcomes agent_end reports
          Signals,        \* what a finalized turn shows besides progress
          Oldest,         \* bound: the age a run in memory may reach
          MaxSuspended    \* bound: handlers suspended at a time

ASSUME AutopilotAssumption ==
    /\ MaxTotal \in Nat /\ MaxTurn \in Nat /\ MinTurns \in Nat
    /\ MaxConcurrent \in Nat \ {0}
    /\ HasCommands \in BOOLEAN /\ Facade \in BOOLEAN
    /\ Caps \subseteq CapReasons
    /\ Outcomes \subseteq TurnOutcomes
    /\ Signals \subseteq {"complete", "no_task", "stop_hook", "tool_error_repeated",
                          "token_budget_exceeded", "max_cost_reached"}
    /\ Oldest \in Ages
    /\ MaxSuspended \in Nat \ {0}

VARIABLES store,  \* the maps and the checkpoint directory
          hook,   \* per session, the hook handler suspended at an await
          rpc,    \* per session, a resume_run suspended at its enqueue
          turn,   \* per session, the host's turn
          spent,  \* the runs whose hard cap is exceeded
          timer   \* the patrol's interval is armed

vars == <<store, hook, rpc, turn, spent, timer>>
-----------------------------------------------------------------------------
Idle == [at |-> "none", run |-> None, snap |-> None]

Suspended(at, r, snap) == [at |-> at, run |-> r, snap |-> snap]

RunOf(s) == store.current[s]
StateOf(s) == store.runs[RunOf(s)]
HasRun(s) == Found(store, s)
Enabled(s) == HasRun(s) /\ StateOf(s).enabled

(* How long ago a run was active when its checkpoint is loaded.            *)
Downtimes == {age \in Ages : AgeRank(age) <= AgeRank(Oldest)}

MaySuspend ==
    Cardinality({s \in Sessions : hook[s] # Idle})
      + Cardinality({s \in Sessions : rpc[s] # Idle}) < MaxSuspended

(* An action ends a synchronous segment: the queued writes land.           *)
Become(w) == store' = Flush(w)

Init == /\ store = EmptyStore
        /\ hook = [s \in Sessions |-> Idle]
        /\ rpc  = [s \in Sessions |-> Idle]
        /\ turn = [s \in Sessions |-> "idle"]
        /\ spent = {}
        /\ timer = TRUE
-----------------------------------------------------------------------------
(* Gateway methods.                                                        *)

(* isRunStuck: a retry that is overdue, or no activity for too long.       *)
Stuck(x) ==
    /\ x.status = "running"
    /\ IF x.orch = "retry_queued" THEN x.due ELSE x.age # "fresh"

Fresh == WorkspaceReady(ActivateRequested(InitialState))

Recovers(s) == HasRun(s) /\ Stuck(StateOf(s))

(* The maps without the run that an activation of the session replaces; a  *)
(* stuck one gives its hold back, and its checkpoint is deleted.           *)
Cleared(s) ==
    IF ~HasRun(s) THEN store
    ELSE [ReleaseIf(IF Recovers(s) /\ Checkpointing
                    THEN DeleteCheckpoint(store, RunOf(s)) ELSE store, Recovers(s))
            EXCEPT !.runs[RunOf(s)] = None, !.current[s] = None]

(* autopilot.activate: a new run for a session that has none, or whose run *)
(* is idle, done or stuck.                                                 *)
Activate(s) ==
    /\ \/ HasRun(s) /\ StateOf(s).status = "running"
       \/ Cardinality(RunningRuns(store)) < MaxConcurrent
    /\ HasRun(s) => StateOf(s).status \in {"idle", "done"} \/ Recovers(s)
    /\ \E r \in RunIds :
         /\ store.owner[r] = None
         /\ \E w \in Insertions([Cleared(s) EXCEPT !.owner[r] = s], r, Fresh) :
              /\ w.runs[r] # None
              /\ Become(Acquire([w EXCEPT !.current[s] = r]))
    /\ UNCHANGED <<hook, rpc, turn, spent, timer>>

(* autopilot.resume                                                        *)
ResumePaused(s) ==
    /\ HasRun(s) /\ StateOf(s).status = "paused"
    /\ Facade
    /\ ResumeRequested(StateOf(s)).orch = "claimed"
    /\ Become(Acquire(Put(store, RunOf(s), ResumedByGateway(StateOf(s)))))
    /\ UNCHANGED <<hook, rpc, turn, spent, timer>>

(* autopilot.resume_run: checked, then suspended at the enqueue.           *)
ResumeRun(s) ==
    /\ rpc[s] = Idle /\ Facade /\ MaySuspend
    /\ HasRun(s)
    /\ StateOf(s).needs /\ StateOf(s).status = "running" /\ StateOf(s).orch = "claimed"
    /\ rpc' = [rpc EXCEPT ![s] = Suspended("resume_run", RunOf(s), StateOf(s))]
    /\ UNCHANGED <<store, hook, turn, spent, timer>>

(* The enqueue answers: accepted, the flag is consumed on the state read   *)
(* before the await.                                                       *)
ResumeRunReply(s, accepted) ==
    LET call == rpc[s]
    IN  /\ call # Idle
        /\ rpc' = [rpc EXCEPT ![s] = Idle]
        /\ IF accepted
           THEN \E w \in Insertions(store, call.run, CrossTurnResumeConsumed(call.snap)) :
                   Become(w)
           ELSE UNCHANGED store
        /\ UNCHANGED <<hook, turn, spent, timer>>

(* autopilot.stop                                                          *)
Stop(s) ==
    /\ HasRun(s) /\ StateOf(s).status \in {"running", "paused", "done"}
    /\ Become(ReleaseIf(Put(store, RunOf(s), StopRequested(StateOf(s))),
                        StateOf(s).status = "running"))
    /\ UNCHANGED <<hook, rpc, turn, spent, timer>>

(* autopilot.setGoal                                                       *)
SetGoal(s) ==
    /\ HasRun(s)
    /\ Become(Rewrite(store, RunOf(s), StateOf(s)))
    /\ UNCHANGED <<hook, rpc, turn, spent, timer>>

(* autopilot.cleanup: every run is forgotten and the patrol is off.        *)
Cleanup ==
    /\ store' = [ReleaseAll(store, InMemory(store)) EXCEPT
                   !.runs    = [r \in RunIds |-> None],
                   !.current = [s \in Sessions |-> None],
                   !.canary  = {}, !.armed = {}]
    /\ timer' = FALSE
    /\ UNCHANGED <<hook, rpc, turn, spent>>
-----------------------------------------------------------------------------
(* Hooks of a host turn.                                                   *)

(* agent_turn_prepare opens a turn and claims it for the run.              *)
TurnPrepare(s) ==
    /\ turn[s] = "idle" /\ hook[s] = Idle
    /\ turn' = [turn EXCEPT ![s] = "open"]
    /\ IF Enabled(s)
       THEN Become(Put(store, RunOf(s), AgentTurnStarted(StateOf(s))))
       ELSE UNCHANGED store
    /\ UNCHANGED <<hook, rpc, spent, timer>>

(* before_tool_call, after_tool_call and llm_output stamp the run.         *)
Activity(s) ==
    /\ turn[s] # "idle" /\ Enabled(s)
    /\ Become(Put(store, RunOf(s), AgentActivity(StateOf(s))))
    /\ UNCHANGED <<hook, rpc, turn, spent, timer>>

(* Fault: the budget is compared one continuation too late.                *)
SpentLate(x) == x.total > MaxTotal

BudgetSpent(x) == x.total >= MaxTotal

(* decideContinuation, on the state the finalize hook decides from.        *)
Decide(x, signal) ==
    IF ~x.enabled \/ x.status # "running" \/ signal = "stop_hook" THEN "finalize"
    ELSE CASE signal = "complete" -> IF x.total < MinTurns THEN "revise" ELSE "complete"
           [] signal = "no_task"  -> "complete"
           [] signal \in PauseReasons -> signal
           [] OTHER -> IF BudgetSpent(x) THEN "max_total_reached"
                       ELSE IF x.turn >= MaxTurn THEN "cross_turn" ELSE "revise"

Verdict == IF HasCommands THEN {"passed", "failed", "not_executed"} ELSE {"not_configured"}

(* Fault: whatever the evidence says, a completed run is done.             *)
DoneAnyway(x, verdict) ==
    [x EXCEPT !.orch = "done", !.status = "done", !.enabled = FALSE,
              !.evidence = EvidenceOf(verdict)]

(* The completion chain: close the turn, open the gate, judge.             *)
Judged(x, verdict) ==
    LET closed == IF x.orch = "running" THEN AgentTurnFinished(x, "success") ELSE x
        gated  == IF closed.orch = "released"
                  THEN EvidenceFinished(EvidenceStarted(closed), verdict) ELSE closed
    IN  [gated EXCEPT !.evidence = EvidenceOf(verdict)]

(* Fault: a run that is gone is judged, and comes back.                    *)
CompleteUnguarded(w, r, x, verdict) ==
    LET y == Judged(x, verdict)
    IN  ReleaseIf(Put(w, r, y), y.status # "running")

(* The judgement, on the snapshot x, once the commands have run.           *)
Complete(w, r, x, verdict) ==
    LET now == w.runs[r]
        y   == Judged(x, verdict)
    IN  IF now = None THEN w
        ELSE IF now.orch \in {"blocked", "done", "unclaimed"} THEN w
        ELSE ReleaseIf(Put(w, r, y), y.status # "running")

(* buildCrossTurnReviseFallback                                            *)
CrossTurnFallback(x) == ResetTurnAttempts(IncrementTotal(x))

(* before_agent_finalize without a run that is found.                      *)
FinalizeNoRun(s) ==
    /\ turn[s] # "idle" /\ hook[s] = Idle /\ ~HasRun(s)
    /\ turn' = [turn EXCEPT ![s] = "finalized"]
    /\ store' = [store EXCEPT !.canary = @ \cup {s}]
    /\ UNCHANGED <<hook, rpc, spent, timer>>

(* before_agent_finalize up to its await, if it has one.                   *)
Finalize(s, signal) ==
    LET r == RunOf(s)
        fired == [store EXCEPT !.canary = @ \cup {s}]
        x == IF StateOf(s).needs THEN CrossTurnResumeConsumed(StateOf(s)) ELSE StateOf(s)
        w == IF StateOf(s).needs THEN Put(fired, r, x) ELSE fired
        decision == Decide(x, signal)
    IN  /\ turn[s] # "idle" /\ hook[s] = Idle /\ HasRun(s)
        /\ signal = "max_cost_reached" => r \in spent
        /\ turn' = [turn EXCEPT ![s] = "finalized"]
        /\ \/ /\ decision = "finalize"
              /\ Become(w) /\ UNCHANGED hook
           \/ /\ decision = "revise"
              /\ Become(Put(w, r, IncrementTotal(IncrementTurn(x)))) /\ UNCHANGED hook
           \/ /\ decision \in PauseReasons
              /\ Become(Release(Put(w, r, PauseRequested(x, decision)))) /\ UNCHANGED hook
           \/ /\ decision = "cross_turn" /\ Facade /\ MaySuspend
              /\ hook' = [hook EXCEPT ![s] = Suspended("cross_turn", r, x)]
              /\ Become(w)
           \/ /\ decision = "cross_turn" /\ ~Facade
              /\ Become(Put(w, r, CrossTurnFallback(x))) /\ UNCHANGED hook
           \/ /\ decision = "complete" /\ HasCommands /\ MaySuspend
              /\ hook' = [hook EXCEPT ![s] = Suspended("validation", r, x)]
              /\ Become(w)
           \/ /\ decision = "complete" /\ ~HasCommands
              /\ \E verdict \in Verdict : Become(Complete(w, r, x, verdict))
              /\ UNCHANGED hook
        /\ UNCHANGED <<rpc, spent, timer>>

(* The cross-turn enqueue answers.  Accepted: the event goes to the state  *)
(* of now, if there is one.  Rejected or failed: the turn is revised from  *)
(* the state of before.                                                    *)
CrossTurnReply(s, accepted) ==
    LET call == hook[s]
        now  == store.runs[call.run]
    IN  /\ call.at = "cross_turn"
        /\ hook' = [hook EXCEPT ![s] = Idle]
        /\ IF ~accepted
           THEN \E w \in Insertions(store, call.run, CrossTurnFallback(call.snap)) : Become(w)
           ELSE IF now = None THEN UNCHANGED store
           ELSE Become(Put(store, call.run, CrossTurnEnqueued(now)))
        /\ UNCHANGED <<rpc, turn, spent, timer>>

(* The validation commands finish.                                         *)
ValidationDone(s) ==
    /\ hook[s].at = "validation"
    /\ hook' = [hook EXCEPT ![s] = Idle]
    /\ \E verdict \in Verdict :
          Become(Complete(store, hook[s].run, hook[s].snap, verdict))
    /\ UNCHANGED <<rpc, turn, spent, timer>>

(* agent_end of a turn whose finalize hook never fired, up to its await.   *)
AgentEndDegraded(s, w) ==
    LET r == RunOf(s)
        x == StateOf(s)
        marked == DegradationMarked(x)
        paused == PauseRequested(marked, "max_total_reached")
    IN  \/ /\ x.status = "running" /\ BudgetSpent(x)
           /\ Become(ReleaseIf(Put(w, r, paused), paused # marked))
           /\ UNCHANGED hook
        \/ /\ x.status = "running" /\ ~BudgetSpent(x) /\ Facade /\ MaySuspend
           /\ hook' = [hook EXCEPT ![s] = Suspended("degraded", r, marked)]
           /\ Become(w)
        \/ /\ x.status = "running" /\ ~BudgetSpent(x) /\ ~Facade
           /\ Become(Put(w, r, CrossTurnDegradedSilent(x)))
           /\ UNCHANGED hook
        \/ /\ x.status # "running"
           /\ Become(w) /\ UNCHANGED hook

(* agent_end of a turn that went through finalize: the circuit breaker     *)
(* pauses, any other outcome goes to the reducer.                          *)
AgentEndNormal(s, w, outcome) ==
    LET r == RunOf(s)
        broken  == outcome = "circuit_breaker"
        cleared == DegradationCleared(IF broken
                     THEN PauseRequested(StateOf(s), "loop_breaker_triggered")
                     ELSE StateOf(s))
        y == AgentTurnFinished(ResetTurnAttempts(cleared),
                               IF broken THEN "unrecoverable_error" ELSE outcome)
    IN  /\ Become(ReleaseIf(Put(w, r, y), y.orch \in {"blocked", "done"}))
        /\ UNCHANGED hook

(* agent_end; the finished turn may have changed the progress headline.    *)
AgentEnd(s) ==
    /\ turn[s] # "idle" /\ hook[s] = Idle
    /\ turn' = [turn EXCEPT ![s] = "idle"]
    /\ IF ~Enabled(s) THEN UNCHANGED <<store, hook>>
       ELSE \E progressed \in BOOLEAN :
              LET w == [IF progressed THEN Rewrite(store, RunOf(s), StateOf(s)) ELSE store
                          EXCEPT !.canary = @ \ {s}]
              IN  IF s \notin store.canary THEN AgentEndDegraded(s, w)
                  ELSE \E outcome \in Outcomes \cup {"circuit_breaker"} :
                          AgentEndNormal(s, w, outcome)
    /\ UNCHANGED <<rpc, spent, timer>>

(* The degraded enqueue answers.  Accepted, a run that vanished meanwhile  *)
(* is created again; a run that stopped running is left alone.             *)
DegradedReply(s, accepted) ==
    LET call == hook[s]
        r    == call.run
        now  == store.runs[r]
        continued == IncrementTotal(ResetTurnAttempts(call.snap))
    IN  /\ call.at = "degraded"
        /\ hook' = [hook EXCEPT ![s] = Idle]
        /\ IF now # None
           THEN Become(IF now.status # "running" THEN store
                       ELSE Put(store, r, IF accepted THEN CrossTurnDegraded(now)
                                          ELSE CrossTurnDegradedSilent(now)))
           ELSE \E w \in Insertions(store, r, IF accepted THEN continued
                                              ELSE CrossTurnDegradedSilent(call.snap)) :
                   Become(w)
        /\ UNCHANGED <<rpc, turn, spent, timer>>
-----------------------------------------------------------------------------
(* Sessions.                                                               *)

(* session_start: a session without a run looks its run up on disk.        *)
SessionStart(s) ==
    LET r == store.index[s]
    IN  /\ ~HasRun(s) /\ r # None
        /\ store.disk[r] # None
        /\ \E age \in Downtimes, due \in BOOLEAN :
              store' = [store EXCEPT !.runs[r] = Loaded(store, r, age, due),
                                     !.current[s] = r]
        /\ UNCHANGED <<hook, rpc, turn, spent, timer>>

(* session_end: an active run is written out before it is forgotten.       *)
SessionEnd(s) ==
    LET r == RunOf(s)
        x == StateOf(s)
        w == ReleaseIf(store, x.status = "running")
        saved == IF x.orch \in {"done", "blocked"} THEN w ELSE Save(w, r, x)
    IN  /\ HasRun(s)
        /\ Become([saved EXCEPT !.runs[r] = None, !.current[s] = None,
                                !.canary = @ \ {s}])
        /\ turn' = [turn EXCEPT ![s] = "idle"]
        /\ UNCHANGED <<hook, rpc, spent, timer>>

(* The session extension's cleanup forgets the run without writing it.     *)
ExtensionCleanup(s) ==
    LET r == RunOf(s)
        w == IF HasRun(s) THEN [ReleaseIf(store, StateOf(s).status = "running")
                                  EXCEPT !.runs[r] = None]
             ELSE store
    IN  /\ RunOf(s) # None \/ s \in store.canary
        /\ store' = [w EXCEPT !.current[s] = None, !.canary = @ \ {s}]
        /\ UNCHANGED <<hook, rpc, turn, spent, timer>>
-----------------------------------------------------------------------------
(* The patrol.                                                             *)

Producing(x) == x.orch \in {"running", "claimed"}

Active(x) == x.enabled /\ x.status = "running"

Capped(r, x) == Active(x) /\ r \in spent

Stalled(x) == Active(x) /\ Producing(x) /\ x.age # "fresh"

(* Fault: the due retry is left to the pending cross turn.                 *)
DueUnlessFlagged(x) == x.enabled /\ x.orch = "retry_queued" /\ x.due /\ ~x.needs

DueForRetry(x) == x.enabled /\ x.orch = "retry_queued" /\ x.due

(* Fault: a producing run is granted a winddown turn in every tick.        *)
WinddownAgain(w, r, reason) ==
    IF Producing(w.runs[r]) THEN [w EXCEPT !.armed = @ \cup {r}]
    ELSE Release(Put(w, r, HardStopRequested(w.runs[r], reason)))

(* Hard caps: one winddown turn for a producing run, then the end.         *)
EnforceCap(w, r, reason) ==
    LET x == w.runs[r]
    IN  IF Producing(x) /\ r \notin w.armed
        THEN [w EXCEPT !.armed = @ \cup {r}]
        ELSE [Release(Put(w, r, HardStopRequested(x, reason))) EXCEPT !.armed = @ \ {r}]

(* Fault: exhausting the retries keeps the audit monitor.                  *)
StallKeepsAudit(w, r) == Put(w, r, StallTimeout(w.runs[r]))

StallOut(w, r) ==
    LET y == StallTimeout(w.runs[r])
    IN  ReleaseIf(Put(w, r, y), y.orch = "blocked")

PauseIdle(w, r) == Release(Put(w, r, PauseRequested(w.runs[r], "no_progress")))

(* One run in one tick; the state it starts from is read once.             *)
Tick(w, r, idle, reason) ==
    LET x == w.runs[r]
        checked == IF Active(x) /\ r \in idle THEN PauseIdle(w, r) ELSE w
    IN  IF Capped(r, x) THEN EnforceCap(w, r, reason)
        ELSE IF Stalled(x) THEN StallOut(w, r)
        ELSE IF DueForRetry(x) THEN Put(checked, r, RetryDue(x))
        ELSE checked

(* Runs without activity for 24 h, as the tick found them.                 *)
Orphans ==
    {r \in InMemory(store) :
       /\ store.runs[r].age = "orphan"
       /\ ~Capped(r, store.runs[r]) /\ ~Stalled(store.runs[r])}

(* Runs that have gone on at least once; by their ledgers any of them may  *)
(* have taken the last turns without output.                               *)
Continued == {r \in RunningRuns(store) : store.runs[r].total > 0}

CapReason == IF Caps = {} THEN {"max_cost_reached"} ELSE Caps

(* The loop of the patrol over the runs it finds.  A tick reads and writes *)
(* its own run only, so what they all leave is what each leaves of that run*)
(* and, of the audit holds, what is left after all of their releases.      *)
Ticked(after) ==
    LET found    == InMemory(store)
        released == {r \in found : after[r].audit # store.audit}
    IN  [store EXCEPT
           !.runs  = [r \in RunIds |-> IF r \in found THEN after[r].runs[r] ELSE None],
           !.disk  = [r \in RunIds |-> IF r \in found THEN after[r].disk[r] ELSE @[r]],
           !.queue = [r \in RunIds |-> IF r \in found THEN after[r].queue[r] ELSE @[r]],
           !.index = [s \in Sessions |->
                        IF \E r \in found : after[r].index[s] = None THEN None ELSE @[s]],
           !.armed = {r \in RunIds : r \in (IF r \in found THEN after[r].armed ELSE @)},
           !.audit = Max({AuditFloor, @ - Cardinality(released)})]

(* Every run in one tick; the orphans after that.  (The singletons have    *)
(* TLC compute each value once.)                                           *)
Patrol ==
    /\ timer
    /\ \E idle \in SUBSET Continued, reason \in CapReason :
       \E after \in {[r \in InMemory(store) |-> Tick(store, r, idle, reason)]} :
       \E w \in {Ticked(after)} :
          \E x \in {Sweep(w, Orphans)} : Become(x)
    /\ UNCHANGED <<hook, rpc, turn, spent, timer>>
-----------------------------------------------------------------------------
(* Time, and the process.                                                  *)

(* A run goes without activity for another threshold.  The states that     *)
(* suspended handlers hold of it are at least as old.                      *)
Older(x, age) == IF AgeRank(x.age) < AgeRank(age) THEN [x EXCEPT !.age = age] ELSE x

Quiet(r) ==
    /\ store.runs[r] # None /\ AgeRank(store.runs[r].age) < AgeRank(Oldest)
    /\ LET age == IF store.runs[r].age = "fresh" THEN "stalled" ELSE "orphan"
           Wait(calls) == [s \in Sessions |->
                             IF calls[s].run # r THEN calls[s]
                             ELSE [calls[s] EXCEPT !.snap = Older(@, age)]]
       IN  /\ store' = [store EXCEPT !.runs[r].age = age]
           /\ hook' = Wait(hook) /\ rpc' = Wait(rpc)
    /\ UNCHANGED <<turn, spent, timer>>

(* The backoff of a queued retry is over, and so is that of every earlier  *)
(* retry of the run a suspended handler holds.                             *)
BackoffOver(r) ==
    /\ store.runs[r] # None /\ store.runs[r].orch = "retry_queued"
    /\ ~store.runs[r].due
    /\ LET Wait(calls) == [s \in Sessions |->
                             IF calls[s].run # r THEN calls[s]
                             ELSE [calls[s] EXCEPT !.snap.due = @ \/ calls[s].snap.attempt > 0]]
       IN  /\ store' = [store EXCEPT !.runs[r].due = TRUE]
           /\ hook' = Wait(hook) /\ rpc' = Wait(rpc)
    /\ UNCHANGED <<turn, spent, timer>>

(* The run's wall clock or cost passes its cap.                            *)
CapExceeded(r) ==
    /\ Caps # {} /\ store.owner[r] # None /\ r \notin spent
    /\ spent' = spent \cup {r}
    /\ UNCHANGED <<store, hook, rpc, turn, timer>>

(* What a new process finds in the checkpoint directory: every recoverable *)
(* checkpoint is loaded, the last one of a session wins the session.       *)
Registered(age, due, swept, last) ==
    [runs    |-> [r \in RunIds |-> IF r \in Recoverable(store)
                                  THEN Loaded(store, r, age, due) ELSE None],
     owner   |-> store.owner,
     current |-> last,
     canary  |-> {},
     armed   |-> {},
     audit   |-> 0,
     disk    |-> [r \in RunIds |-> IF r \in swept THEN None ELSE store.disk[r]],
     index   |-> store.index,
     queue   |-> [r \in RunIds |-> None]]

(* Old checkpoints of runs that cannot be resumed may be swept.            *)
Sweepable == {r \in RunIds : /\ store.disk[r] # None
                             /\ store.disk[r].orch = "blocked"
                             /\ ~Resumable(store.disk[r])}

LastOne(last) ==
    \A s \in Sessions :
       LET own == {r \in Recoverable(store) : store.owner[r] = s}
       IN  IF own = {} THEN last[s] = None ELSE last[s] \in own

(* The process dies and a new one registers.                               *)
Restart ==
    /\ Checkpointing
    /\ \E age \in Downtimes, due \in BOOLEAN, swept \in SUBSET Sweepable :
       \E last \in [Sessions -> RunIds \cup {None}] :
          LastOne(last) /\ store' = Registered(age, due, swept, last)
    /\ hook' = [s \in Sessions |-> Idle] /\ rpc' = [s \in Sessions |-> Idle]
    /\ turn' = [s \in Sessions |-> "idle"]
    /\ timer' = TRUE
    /\ UNCHANGED spent
-----------------------------------------------------------------------------
Next ==
    \/ \E s \in Sessions :
         \/ Activate(s) \/ ResumePaused(s) \/ ResumeRun(s) \/ Stop(s) \/ SetGoal(s)
         \/ \E accepted \in BOOLEAN : \/ ResumeRunReply(s, accepted)
                                     \/ CrossTurnReply(s, accepted)
                                     \/ DegradedReply(s, accepted)
         \/ TurnPrepare(s) \/ Activity(s) \/ FinalizeNoRun(s)
         \/ \E signal \in Signals \cup {"none"} : Finalize(s, signal)
         \/ ValidationDone(s) \/ AgentEnd(s)
         \/ SessionStart(s) \/ SessionEnd(s) \/ ExtensionCleanup(s)
    \/ \E r \in RunIds : Quiet(r) \/ BackoffOver(r) \/ CapExceeded(r)
    \/ Cleanup \/ Patrol \/ Restart

Spec == Init /\ [][Next]_vars

(* setInterval keeps calling the patrol, and time passes.                  *)
FairSpec == Spec /\ WF_vars(Patrol) /\ \A r \in RunIds : WF_vars(BackoffOver(r))
-----------------------------------------------------------------------------
(* Type invariant; between two steps no write is queued.                   *)
HookType(ats) == [at : ats, run : RunIds, snap : Run] \cup {Idle}

TypeOK ==
    /\ store \in StoreType
    /\ \A r \in RunIds : store.queue[r] = None
    /\ hook \in [Sessions -> HookType({"cross_turn", "validation", "degraded"})]
    /\ rpc  \in [Sessions -> HookType({"resume_run"})]
    /\ turn \in [Sessions -> {"idle", "open", "finalized"}]
    /\ spent \subseteq RunIds
    /\ timer \in BOOLEAN

Memory == {store.runs[r] : r \in InMemory(store)}

(* The audit monitor is never pinned: it is held at most once for every    *)
(* run that still counts as running (GAP-23), whichever of the dozen ways  *)
(* out of running a run takes.                                             *)
NoAuditLeak == store.audit <= Cardinality(RunningRuns(store))

(* What the reducer guarantees of a run fed one event at a time holds of   *)
(* every run in memory, although handlers write back states they read      *)
(* before an await and patch fields around the reducer; and no segment     *)
(* ends with a write still queued.                                         *)
RunsStayWellFormed ==
    /\ TypeOK
    /\ \A x \in Memory :
           /\ x.status = DeriveStatus(x.orch, x.blocked)
           /\ x.attempt <= MaxRetries
           /\ x.orch = "retry_queued" => x.attempt > 0 /\ x.enabled
           /\ x.orch = "done" => /\ ~x.enabled
                                 /\ x.evidence \in {"passed", "skipped"}
                                 /\ x.unverified = (x.evidence = "skipped")
           /\ x.pause # "none" => x.orch = "blocked" /\ ~x.enabled

(* No mixture of revisions, cross turns, degraded turns, stale writes and  *)
(* restarts takes a run past its continuation budget; only the             *)
(* early-completion guard may, up to its own threshold.                    *)
ContinuationBudget ==
    \A x \in Memory : x.total <= Max({MaxTotal, MinTurns})

(* A run that ended (done, stopped or parked for a reason that cannot be   *)
(* resumed) becomes active again only through a handler that was already   *)
(* suspended with a snapshot of it, or from a checkpoint that was left     *)
(* behind when it ended.                                                   *)
Ended(x) == x.orch = "done" \/ (x.orch = "blocked" /\ ~Resumable(x))

Held(r) == \E s \in Sessions : hook[s].run = r \/ rpc[s].run = r

Reloaded(r) ==
    /\ store.disk[r] # None
    /\ \E age \in Ages, due \in BOOLEAN : store'.runs[r] = Loaded(store, r, age, due)

EndedStaysEnded ==
    [][\A r \in InMemory(store) :
          Ended(store.runs[r]) /\ ~Held(r) /\ store'.runs[r] # None
            => Ended(store'.runs[r]) \/ Reloaded(r)]_vars

(* What a crash would lose: of an active run, nothing that shouldCheckpoint*)
(* looks at.  Its checkpoint agrees with memory after every handler, stale *)
(* writes included.  (The retry attempt is not looked at: a write from a   *)
(* snapshot of another attempt can leave the checkpoint on the wrong one.) *)
Durable(x) == <<x.orch, x.blocked, x.evidence, x.enabled, x.total, x.needs>>

ActiveRunsAreDurable ==
    Checkpointing =>
        \A r \in InMemory(store) :
            store.runs[r].orch \in ActiveStates =>
                /\ store.disk[r] # None
                /\ Durable(store.disk[r]) = Durable(store.runs[r])

(* GAP-25: however runs are activated, written back and thrown out, no     *)
(* more than the cap are in memory.  (register and session_start put       *)
(* restored runs there without eviction, so this is about a process        *)
(* without checkpoints.)                                                   *)
MemoryIsBounded == ~Checkpointing => Cardinality(InMemory(store)) <= MaxRunStates

(* A running run is the one its session's hooks and gateway methods find.  *)
(* Without the injection facade no handler writes a run back that is gone, *)
(* and without checkpoints no process starts with two runs of a session.   *)
RunningRunsAreReachable ==
    ~Facade /\ ~Checkpointing =>
        \A r \in RunningRuns(store) : store.current[store.owner[r]] = r

(* While the patrol ticks, a run whose hard cap is exceeded does not stay  *)
(* active, whatever the host, the user and suspended handlers do to it.    *)
CapsAreEnforced ==
    \A r \in RunIds :
        (r \in spent /\ timer /\ store.runs[r] # None /\ Active(store.runs[r]))
          ~> (~timer \/ store.runs[r] = None \/ ~Active(store.runs[r]))

(* While the patrol ticks, a queued retry does not wait for ever.          *)
RetriesFire ==
    \A r \in RunIds :
        (timer /\ store.runs[r] # None /\ store.runs[r].orch = "retry_queued")
          ~> (~timer \/ store.runs[r] = None \/ store.runs[r].orch # "retry_queued")
-----------------------------------------------------------------------------
(* What comments and documents of the repository say, and the code does    *)
(* not always keep.                                                        *)

(* index.ts:544, GAP-23: only runs whose status is running hold the audit  *)
(* monitor, so that the refcount never goes below zero.                    *)
NeverOverReleased == store.audit >= 0

(* index.ts:402: the checkpoint of a run that ended is deleted first, so   *)
(* that a restart cannot bring it back.                                    *)
EndedHasNoCheckpoint ==
    \A r \in InMemory(store) : EndedForGood(store.runs[r]) => store.disk[r] = None

(* orchestrator.ts:408: a stop is the user's intent, not to be overwritten.*)
StopSticks ==
    [][\A r \in InMemory(store) :
          Stopped(store.runs[r]) /\ store'.runs[r] # None
             => Stopped(store'.runs[r])]_vars
===============================================================================
