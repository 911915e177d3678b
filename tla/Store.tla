-------------------------------- MODULE Store --------------------------------
(***************************************************************************)
(* The module-level maps of packages/autopilot/index.ts, the checkpoint    *)
(* directory behind them and the refcount of the audit plugin, as one      *)
(* record, and what the handlers do to them.  A handler is a composition   *)
(* of these operators.                                                     *)
(*                                                                         *)
(* saveCheckpoint queues its write on a promise and deleteCheckpoint is    *)
(* synchronous, so within one synchronous segment every delete precedes    *)
(* every write.  Writes wait in "queue" and Flush ends the segment.        *)
(***************************************************************************)
EXTENDS Reducer, Integers, FiniteSets, FiniteSetsExt

CONSTANTS Sessions,       \* session keys
          RunIds,         \* run ids
          None,           \* no run, no session, no state
          MaxRunStates,   \* MAX_RUN_STATES
          Checkpointing,  \* FALSE: persistence is off
          AuditDepth      \* bound: releases without a hold that are counted

ASSUME StoreAssumption ==
    /\ MaxRunStates \in Nat \ {0}
    /\ Checkpointing \in BOOLEAN
    /\ AuditDepth \in Nat \ {0}
    /\ IsFiniteSet(RunIds)
    /\ None \notin Sessions \cup RunIds \cup Run
-----------------------------------------------------------------------------
AuditFloor == -AuditDepth

Ages == {"fresh", "stalled", "orphan"}

(* The fields that buildCheckpoint keeps and loadCheckpoint reads back; how *)
(* long ago the run was active is only known at load time.                 *)
Snapshot(s) == [Restored(s) EXCEPT !.age = "fresh", !.due = FALSE]

StoreType ==
    [runs    : [RunIds -> Run \cup {None}],        \* stateByRun
     owner   : [RunIds -> Sessions \cup {None}],   \* state.sessionKey
     current : [Sessions -> RunIds \cup {None}],   \* sessionKeyToRunId
     canary  : SUBSET Sessions,                    \* canaryFired
     armed   : SUBSET RunIds,                      \* hardStopWinddownArmed
     audit   : {n \in Int : n >= AuditFloor},
     disk    : [RunIds -> Run \cup {None}],        \* checkpoint files
     index   : [Sessions -> RunIds \cup {None}],   \* session-index.json
     queue   : [RunIds -> Run \cup {None}]]        \* writes not yet run

EmptyStore ==
    [runs    |-> [r \in RunIds |-> None],
     owner   |-> [r \in RunIds |-> None],
     current |-> [s \in Sessions |-> None],
     canary  |-> {},
     armed   |-> {},
     audit   |-> 0,
     disk    |-> [r \in RunIds |-> None],
     index   |-> [s \in Sessions |-> None],
     queue   |-> [r \in RunIds |-> None]]

InMemory(w) == {r \in RunIds : w.runs[r] # None}

RunningRuns(w) == {r \in InMemory(w) : w.runs[r].status = "running"}

(* findRunBySession finds a run.                                           *)
Found(w, s) == w.current[s] # None /\ w.runs[w.current[s]] # None
-----------------------------------------------------------------------------
Acquire(w) == [w EXCEPT !.audit = @ + 1]

Release(w) == [w EXCEPT !.audit = IF @ > AuditFloor THEN @ - 1 ELSE @]

ReleaseIf(w, holds) == IF holds THEN Release(w) ELSE w

Save(w, r, s) ==
    IF Checkpointing THEN [w EXCEPT !.queue[r] = Snapshot(s)] ELSE w

DeleteCheckpoint(w, r) == [w EXCEPT !.disk[r] = None]

ClearIndex(w, s) == [w EXCEPT !.index[s] = None]

(* The queued writes land; each one points the index at its run.           *)
Flush(w) ==
    LET written(s) == {r \in RunIds : w.queue[r] # None /\ w.owner[r] = s}
    IN  [w EXCEPT
           !.disk  = [r \in RunIds |-> IF w.queue[r] # None THEN w.queue[r] ELSE w.disk[r]],
           !.index = [s \in Sessions |-> IF written(s) = {} THEN w.index[s]
                                         ELSE CHOOSE r \in written(s) : TRUE],
           !.queue = [r \in RunIds |-> None]]

(* Fault: only the orchestration state is compared.                        *)
ComparesStateOnly(prev, next) == prev = None \/ prev.orch # next.orch

(* The goal and the progress headline are compared too: see Rewrite.       *)
ShouldCheckpoint(prev, next) ==
    \/ prev = None
    \/ prev.orch     # next.orch
    \/ prev.blocked  # next.blocked
    \/ prev.evidence # next.evidence
    \/ prev.enabled  # next.enabled
    \/ prev.total    # next.total
    \/ prev.needs    # next.needs

EndedForGood(s) == s.orch = "done" \/ Stopped(s)

(* persistAfterTransition: a run that ended has its checkpoint deleted,    *)
(* any other change worth it is written.                                   *)
Persist(w, r, s, changed) ==
    CASE EndedForGood(s)              -> ClearIndex(DeleteCheckpoint(w, r), w.owner[r])
      [] ~EndedForGood(s) /\ changed  -> Save(w, r, s)
      [] ~EndedForGood(s) /\ ~changed -> w

(* setState of a run that is in memory already.                            *)
Put(w, r, s) ==
    Persist([w EXCEPT !.runs[r] = s], r, s, ShouldCheckpoint(w.runs[r], s))

(* setState with a changed goal or progress headline.                      *)
Rewrite(w, r, s) == Persist([w EXCEPT !.runs[r] = s], r, s, TRUE)
-----------------------------------------------------------------------------
AgeRank(age) == CASE age = "fresh" -> 0 [] age = "stalled" -> 1 [] age = "orphan" -> 2

(* The sets of runs evictOldestRuns may throw out: enough of the least     *)
(* recently active ones.  Runs of the same age are told apart by clock     *)
(* readings the model does not have.                                       *)
Evictable(w) ==
    {victims \in SUBSET InMemory(w) :
       /\ Cardinality(InMemory(w) \ victims)
            = IF Cardinality(InMemory(w)) > MaxRunStates
              THEN MaxRunStates ELSE Cardinality(InMemory(w))
       /\ \A v \in victims, r \in InMemory(w) \ victims :
             AgeRank(w.runs[v].age) >= AgeRank(w.runs[r].age)}

Forget(w, gone) ==   \* the maps keyed by the run and by its session
    LET keys == {w.owner[r] : r \in gone}
    IN  [w EXCEPT !.runs    = [r \in RunIds |-> IF r \in gone THEN None ELSE @[r]],
                  !.current = [s \in Sessions |-> IF s \in keys THEN None ELSE @[s]],
                  !.canary  = @ \ keys]

ReleaseAll(w, some) ==
    LET held == Cardinality(some \cap RunningRuns(w))
    IN  [w EXCEPT !.audit = Max({AuditFloor, @ - held})]

(* The patrol's sweep: the checkpoints stay.                               *)
Sweep(w, gone) == [Forget(ReleaseAll(w, gone), gone) EXCEPT !.armed = @ \ gone]

(* evictOldestRuns: the checkpoint goes, its index entry stays.            *)
Evict(w, victims) ==
    [Sweep(w, victims) EXCEPT
       !.disk = [r \in RunIds |-> IF r \in victims THEN None ELSE @[r]]]

(* setState that brings a run into memory: it may evict others, or itself, *)
(* before the run is persisted.                                            *)
Insertions(w, r, s) ==
    LET x == [w EXCEPT !.runs[r] = s]
    IN  {Persist(Evict(x, victims), r, s, ShouldCheckpoint(w.runs[r], s)) :
           victims \in Evictable(x)}
-----------------------------------------------------------------------------
(* loadCheckpoint after some downtime.                                     *)
Loaded(w, r, age, due) ==
    LET saved == w.disk[r]
    IN  [saved EXCEPT !.age = age, !.due = due /\ saved.attempt > 0]

Recoverable(w) == {r \in RunIds : w.disk[r] # None /\ w.disk[r].orch \in ActiveStates}
=============================================================================
