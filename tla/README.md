# A TLA+ model of oh-my-matrix

oh-my-matrix is a set of plugins for an agent gateway. Its core is
`packages/autopilot`: it keeps an agent session working on a goal over many host
turns, retries what fails, asks for evidence before it calls a goal done, and
stops when a budget is used up. `packages/permission-policy` decides which tool
calls a run and its subagents may make, and `packages/instinct` remembers what
sessions did in files that gateway processes share. This directory holds a model of
all three, the TLC runs that check it and proofs about it.

    tlc -workers 2 -config AutopilotOverlap.cfg MCAutopilot     # any run below
    tlapm AutopilotProofs.tla                                   # the proofs

## The system

| part | state it keeps | operations | talks to |
|---|---|---|---|
| orchestrator reducer (`src/orchestrator.ts`, `types.ts`) | none: a function from a run record and an event to a run record | 18 events: activation, turns, stalls, retries, evidence, pause, stop, resume, cross turns, flags | called by the runtime |
| plugin runtime (`index.ts`) | `stateByRun`, `sessionKeyToRunId`, `canaryFired`, `hardStopWinddownArmed`, the patrol timer | 12 gateway methods, 10 hooks, a 60 s patrol, eviction, cleanup, restore | host (hooks, injections), reducer, persister, audit plugin |
| checkpoint persister (`state-persister.ts`) | one file per run, a session index, a write lock per run | save (queued), delete (at once), load, list, index, move out of the legacy root | called by `setState` and at start-up |
| continuation engine (`continuation-engine.ts`) | none | `decideContinuation` | completion detector, counters of the run |
| retry queue, stall detector, cost | none | classify an error, delay of a retry, stall and cap tests | reducer and patrol |
| workflow configuration (`workflow-config.ts`) | none; the result is kept in the run | two files, an allowlist of commands, clamped settings | activation |
| evidence gate, command runner | none | run commands, judge results | finalize hook |
| progress ledger, projection | a ledger inside the run record | record a turn, headline, no-progress test | agent_end, patrol, host |
| permission policy (`packages/permission-policy`) | none | classify a command, resolve its targets, decide a tool call | both `before_tool_call` hooks |
| audit persister | files of a day that roll over | append, read back the newest | the same hooks, `autopilot.status` |
| subagent guard (`packages/dynamic-workflows/index.ts`) | none | judge a subagent's call before the run does | host, policy, audit log |
| instinct (`packages/instinct`) | rolling files of observations and instincts | append, load, purge | hooks of its own |
| goal manager, acceptance criteria, detectors, routing, projections | none | parse text, look up, present | prompts, host's interface |

What makes the core correct, part by part:

* **Reducer**: `status` always says what `orchestrationState` and `blockedReason`
  say; one retry budget for three kinds of failure, never refunded; a run is done
  only through the evidence gate and says whether the gate was passed; done and
  stopped are final; a block that may not be resumed never becomes one that may; a
  retry waits no longer than its cap and no less than the server asked.
* **Runtime**: whatever a handler writes back after an `await`, runs stay well
  formed and ended runs stay ended; the audit monitor, a refcount in another
  plugin, is given back on every way out of `running`; continuations stay within
  their budget; the maps agree with each other and stay bounded; caps and retries
  eventually take effect.
* **Persister**: a crash loses nothing that decides how an active run goes on;
  what a restart brings back of a run only moves forward, and a run that was given
  up does not come back.
* **Evidence gate and workflow**: a run that is done and verified had every required
  command of its configuration succeed.
* **Progress ledger**: folding old turns into the aggregate forgets neither a turn nor
  progress, so the patrol pauses a run only for what was recorded of it.
* **Permission policy and guard**: chaining commands hides nothing and makes
  nothing worse; the guard of subagents is no laxer than the policy of a run; each
  blocked call leaves one entry in one log, and the log is read back in order; the
  mark that relaxes stall detection does not outlive the tool.
* **Instinct store**: recall sees the newest lines, an instinct has one line, young
  lines survive and old ones go, and no interleaving of processes inflates a count.

The hard behaviours are the usual ones of a single-threaded event loop: a handler
that holds a snapshot of a run across an `await` while hooks, gateway calls and the
patrol move the run; writes queued behind a promise and deletes that are not; a
process that dies between two system calls; timers that compete in one tick; two
plugins that judge one call. The list, with the line where each bites, is `hazards`
in `PROJECT.json`.

## Modules

| module | models | state and actions |
|---|---|---|
| `Reducer` | the reducer's cases, `deriveStatus`, reason tables, retry budget, counters, `loadCheckpoint`'s mapping of a run | no variables: one operator per event, from a run record to a run record |
| `RetryDelay` | `computeRetryDelay` | a pure operator and what bounds it |
| `Orchestrator` | one run under any order of events | `run`; one action per event, with the guards of its call sites |
| `RunLifecycle` | the abstract promise to the user: new, running, paused, stopped, done, and a budget of recoveries | `phase`, `recoverable`, `spent` |
| `Store` | the module-level maps, checkpoint files, session index, write queue and audit refcount, as one record | operators `Put` (`setState`), `Insertions` (`setState` with eviction), `Persist`, `Flush`, `Sweep`, ... |
| `Autopilot` | every handler of `index.ts` that changes a run | `store`, `hook`, `rpc`, `turn`, `spent`, `timer`; one action per synchronous segment of a handler |
| `CheckpointFiles` | `state-persister.ts` one system call at a time: lock, temporary file, rename, index, deletes, sweeps, the move of legacy checkpoints, crashes and failing calls | `job` (the call under way), `fixed`, `legacy`, `index`, `orphans`, `memory`, `queue`, ...; `newest`, `dropped`, `stuck`, `failed` are history variables |
| `CheckpointRegister` | the abstract promise of the files: per run, the last state, the one a restart would bring back, and whether it was given up | `newest`, `kept`, `given` |
| `WorkflowConfig` | the two WORKFLOW.md files, the allowlist, trust, detection, defaults and clamps | pure operators, up to `ApplyWorkflowConfig` |
| `EvidenceGate` | what commands come to and `evaluateEvidence` | pure operators |
| `Subsequences` | what a filter keeps of a sequence, by positions, and its ends | pure operators |
| `ProgressLedger` | entries, folding, headline, the hooks that feed the ledger, the gate and the patrol's no-progress test, for one run | `workflow`, `mode`, `total`, `buffer`, `evidence`, `ledgered`, `ledger`, and `history`; one action per hook |
| `PermissionPolicy` | `classifyCommand`, `extractCommandSegments`, `resolveWriteTargets`, `decidePermission`, `decidePermissionForEvent` | pure operators, up to `BlocksCall` and `ClassOfCall` |
| `AuditLog` | `appendAuditEntry` with roll-over by day and size, `loadRecentAuditEntries` | pure operators over the files of a directory |
| `Guard` | both `before_tool_call` hooks, the run's audit list, the mark of a running tool | `dirs`, `run`, `audit`, `marked`, `pending`, ...; `log`, `recorded`, `blocks` are history variables; one action per hook |
| `InstinctStore` | the two file families, `appendObservation`, `appendInstinct`, `purgeExpired`, `loadRecentObservations`, for several processes | `files`, `proc` (where each process is), and `born`, `calls`, `raced` (history variables); one action per system call |
| `MCAutopilot`, `MCFiles`, `MCGuard`, `MCLedger`, `MCInstinct` | the instances: calls, configurations, symmetry | |
| `DataLemmas` | least and largest numbers, ranges and ends of sequences, ranks, sums and counts | lemmas |
| `ReducerProofs`, `OrchestratorProofs`, `AutopilotProofs`, `CheckpointFilesProofs`, `ProgressLedgerProofs`, `InstinctStoreProofs`, `GuardProofs` | | lemmas and theorems |

How they compose: `Orchestrator` and `Autopilot` are two compositions of `Reducer`.
The first asks what the reducer guarantees when nothing is assumed of its callers;
the second asks what is left of that when the real callers write states they read
earlier. `Autopilot` takes a queued write for one step; `CheckpointFiles` takes it
apart, and leaves out what a run is besides active, parked or closed. `ProgressLedger` EXTENDS
`WorkflowConfig` and `EvidenceGate`, because the verdict that an entry is stamped
with depends on both. `Guard` EXTENDS `PermissionPolicy` and `AuditLog`.

How the state corresponds to the code:

* A run record keeps the fields that decide control: `orch`
  (`orchestrationState`, `"none"` before activation), `status`, `enabled`,
  `blocked`, `pause`, `evidence`, `unverified`, `attempt` and `due` (`state.retry`),
  `total`, `turn`, `needs` (`needsCrossTurnResume`), `degraded`, and `age` for
  `lastActivityAt`.
* Clocks are classes. `age` is `fresh`, past the stall threshold in effect
  (`stalled`), or past 24 h (`orphan`); `due` says a retry's backoff is over; the
  set `spent` holds runs over their wall clock or cost cap. The marker of a tool in
  flight only stretches the threshold, so it is part of "in effect"; `Guard` says
  when it is set. A snapshot held across an `await` ages with its run.
* Error strings, validation results and messages are the classes the code tells
  apart: `TurnOutcomes`, `Verdicts`, `Signals`.
* `hook[s]` and `rpc[s]` are what a suspended handler of session `s` holds: which
  await, which run, and the snapshot it will continue from. The host awaits the hooks
  of a session one at a time, so there is one `hook` per session; a gateway call
  runs beside it. A synchronous segment ends with `Become`, which lets the queued
  writes land (`Flush`): node runs a promise's continuation before the next
  timer or request, so a crash falls between segments. Within a segment, deletes act
  at once and saves wait in `store.queue`; this is the order the code has.
* `Patrol` is the patrol's loop. `Tick` is its body for one run, which reads the run
  once; a body touches its own run only, so `Ticked` puts the results together
  instead of choosing an order, and sums the releases.
* In `CheckpointFiles` a file is the number of the state it holds and its kind.
  The persister uses synchronous calls, so nothing else of the process happens until
  `job` is over; a crash may come between any two calls, and each may fail.
* In `ProgressLedger` a file name is a model value and `mode` is what the handlers ask
  of a run: running, done, or the reason it is blocked. `Gate` keeps its verdict in
  `evidence`, and `AgentEnd` stamps an entry with it as `index.ts` does: the last
  status, whenever it was given, and no reason. A configuration field is the set of
  the value it has, empty when it is absent or has the wrong type.
* In `PermissionPolicy` a command is its program, the subcommand, flags, arguments,
  directory and targets that the classification looks at; a path is a place in a
  tree, a home-relative one, a relative one or one that cannot be resolved.
* In `InstinctStore` a file is the sequence of its lines and `<<>>` is a file that does
  not exist (the code never leaves an empty one). A line keeps its order of birth, its
  slot (text, hash and scope class), hits and timestamp. Every read of the clock may
  give any value, and every append to an existing file may be refused, which is more
  than a clock that is set back and a `chmod` can do. Calls in one process do not
  interleave, since all of them use the synchronous file calls of node.

## Runs

| run | asks | bounds |
|---|---|---|
| `orchestrator` | type, invariants and action properties of one run, refinement of `RunLifecycle`, bounds of the backoff | 2 retries, small continuation budgets; all events always offered |
| `autopilot_overlap` | reducer guarantees in memory, continuation budget, audit hold, ended runs | a hook and a `resume_run` suspended together, stalls, a cost cap, a retry, three turn outcomes, one pause signal |
| `autopilot_durable` | agreement of checkpoint and memory | persistence on, crashes, restarts, session ends and reconnects |
| `autopilot_sessions` | bounded memory, reachability, audit hold | 2 sessions, 2 run ids, a cap of one run in memory |
| `autopilot_patrol` | caps and retries take effect (liveness) | fair patrol ticks, a cost cap, no validation commands |
| `checkpoint_files` | what the files hold against what a run has been through, refinement of `CheckpointRegister` | 2 runs of one session, 2 states each, 2 waiting writes, a crash, any call failing, any legacy checkpoints |
| `progress_ledger` | folding, headline, no-progress pause, verified runs | 4 configurations, a detail window of 2, 4 recorded turns, 2 continuations, caps of 1 file |
| `guard` | the two policies against each other, the logs against what happened, the mark of a running tool | 6 calls, a run in a directory of its own, files of one entry, 2 days, 3 entries to begin a call, one lost entry |
| `instinct` | recency, one line per slot, retention both ways, hits | 2 processes, 2 slots, 3 calls that write, files of 2 lines, 3 clock values, crashes anywhere |
| `audit_over_release`, `stale_checkpoint`, `stop_overwritten` | one documented claim each that the code does not keep | see Findings |

Why the bounds are enough. Runs of different sessions share only the audit
refcount, the map cap and the limit at activation; all other properties of
`Autopilot` are about one run, so one run id with every handler around it is the
interesting instance, and `autopilot_sessions` has the smallest one in which runs
meet, and the one with runs old enough for the orphan sweep. The two invariants whose violation could need more runs, `RunsStayWellFormed`
and `NoAuditLeak`, are proved for any number of them. One retry
distinguishes a first failure from an exhausted budget. The scaled thresholds
(`MaxTurn` 0 or 1, `MinTurns` 0 or 1, for 5 and 2 or 3 in production) put each
comparison of `decideContinuation` on both sides. `MaxSuspended` bounds the handlers
suspended at a time, `Oldest` how old a run in memory may get, `AuditDepth` the
releases without a hold that are told apart. `MaxRunStates` is 1 or 2 for 50.

In `autopilot_sessions` the host does not offer the injection facade and nothing is
persisted. With the facade, a rejected enqueue can write back a run that is gone (see
`stop_overwritten`); with checkpoints, `register` may restore two active runs of one
session, of which the session finds one, and restored runs enter the map without
eviction, so a process with more than `MAX_RUN_STATES` of them starts above the cap.
The two properties say so: `RunningRunsAreReachable` is for a process without either,
`MemoryIsBounded` for one without checkpoints. Two more are stated with what the code
does not promise. `EndedStaysEnded` lets `session_start` load the checkpoint of a run
over its ended state, which is what a reconnect does to a run whose checkpoint is
stale. `ActiveRunsAreDurable` does not compare the retry attempt: `shouldCheckpoint`
does not look at it, so with two handlers suspended a stale write can leave the
checkpoint of an active run on another attempt than the run is on.

In `checkpoint_files` two runs of one session replace each other in the index, two
states make an old and a new file, and two waiting writes a promise chain. A run that
was restored while its copy in the legacy root could not be removed is in `stuck`, and
the refinement promises nothing more of it (see below).

In `progress_ledger` two entries leave a window of two, so the aggregate is merged
with one it already holds; names appear twice in a buffer, and in the aggregate and
the last turn. A strict configuration pauses after one continuation without progress,
so two continuations put the comparison on both sides of a turn that counted. The
configurations are a trusted workspace with a required, an
optional and a refused command, an untrusted one whose file cannot be read, a
project whose command is detected, and a file with two required commands of one id.

In `guard` files hold one entry, so that every append rolls over, and the log is
asked for two of three; the six calls are a chain with a harmless and a harmful part,
a command in another directory, an unknown program, a write to two places, a granted
tool, and a shell substitution. The run may use destructive git in a directory other
than the gateway's; before there is a run, the policy is asked without. Of the entries
of a call either may be lost. All seven invariants are proved for every set of calls and
all limits.

In `instinct` three lines fill one file and start the next, a refused
append puts lines of a family into three files, and two processes run every pair of
operations against each other. Properties that start with `~raced` say nothing once
operations of two processes have overlapped: `purgeExpired` documents that a line may
then be lost, and the model finds it lost. `HitsNeverInflated` has no such guard.

Deadlock is not checked where the system may stop: `Autopilot` (run ids are used
once, and with all of them used and the timer off the system rests), `ProgressLedger`
(a done run rests), `Guard` and `CheckpointFiles` (at their bounds).

**Fairness.** `FairSpec` adds weak fairness of `Patrol`, because `setInterval` keeps
calling it while the timer is armed, and of `BackoffOver`, because time passes.
Nothing is assumed of the host: turns may never come, an enqueue may never be
answered, a user may never stop anything.

## Findings

Three runs end in a violation; `PROJECT.json` quotes the lines.

* `audit_over_release`: the patrol's no-progress check releases the audit monitor
  even when the pause was a no-op because the run is in `retry_queued`. Every
  further tick releases again.
* `stale_checkpoint`: a finalize hook that clears the cross-turn flag and completes
  the run in one segment deletes the checkpoint before the queued write lands.
* `stop_overwritten`: the fallback of a rejected cross turn and `resume_run` store
  the state of before their `await`; a stop in between is lost. The same fallback
  brings back a run that was removed in between.

Seen while modelling, in the model as the code has it, without a run of their own:

* Only activation counts running runs against `maxConcurrentAutopilot`
  (`index.ts:1510-1520`); resuming and restoring do not, though
  `packages/autopilot/README.md:53` calls it "Max simultaneous autopilot runs".
* Commands that the allowlist drops reach the gate through a parameter the plugin does
  not pass (`index.ts:824-830`; `evidence-gate.ts:15-18`, `30-33` and
  `workflow-config.ts:227-231` describe it), so a run whose commands were all dropped
  is judged as one that has none configured.
* A run blocked by a stall, a failed turn or a failed validation is paused and stays
  enabled (`orchestrator.ts:163-232`, `330-340`), though the comment at 290-293 says
  that every terminal branch disables the run.
* `agent_end` (`index.ts:1310`) does not hand the skip reason to `buildEntry`, so an
  entry made after commands that could not run counts as progress, which
  `progress-ledger.ts:27-28` excludes. It stamps the last verdict of the gate, so the
  turns that repair a failed gate do not count.
* Validation results are kept by the id of their command (`evidence-gate.ts:56-60`), and
  ids are not checked to differ (`workflow-config.ts:212-214`): of two required
  commands with one id the later decides, and the failure of the earlier is hidden from
  the gate, though `packages/autopilot/README.md:21` lets a run be done only once
  validation has passed. `VerifiedMeansRun` is stated with that exception.
* Nothing calls `hasMigrationGrace`, which `progress-ledger.ts:78-80` says the
  no-progress detector must consult.
* `foldOldest` keeps the position of a file's first mention when it caps the
  aggregate from the end, so a file that the newest folded turn touched again may be
  dropped before one that was not touched since (`progress-ledger.ts:174-177`).
* `max_retry_backoff_ms` is taken as it stands (`workflow-config.ts:166-168`); a cap
  below what a server asks for wins over the server, as `BackoffIsBounded` says.
* The recency key of an audit file leaves a day room for a thousand files
  (`audit-persister.ts:105`); the next would be read as the first of the following day.
* `autopilot.status` says it merges the audit entries in memory with those on disk
  (`index.ts:1826`) and returns one or the other.
* Deleting the checkpoint of a run that ended clears the session's index entry
  whichever run it points at (`state-persister.ts:490-505`), while eviction and the
  recovery of a stuck run delete the file and leave the entry.
* A legacy checkpoint that cannot be removed is moved again at the next start, over
  whatever the run has become since. Only active legacy checkpoints are moved; one
  that is parked stays where nothing looks for it.
* `register` and `session_start` put restored runs into memory past `MAX_RUN_STATES`.
* `canaryFired`, `hardStopWinddownArmed` and the turn buffer outlive their run on some
  of the ways out; a run restored under the same id finds its old mark.
* Two gateways on one root have no lock between them: each sweeps the other's
  temporary files, and an index entry may be lost.

`ContinuationBudget` is stated with the threshold of the early-completion guard,
which revises before the budget is compared: a budget below that threshold is
overrun by the guard, and only by it.

## Proofs

Every proof is for all values of the constants, under the ASSUMEs of the modules
(limits are natural numbers, `None` is none of the ids) and what is said below.

**The reducer.** `ReducerProofs` has a lemma per event, `Good(s) => Sound(s, Event(s))`.
A step from `s` to `t` is `Sound(s, t)`: `t` is good and `Kept(s, t)`, the union of
what the action properties and the refinement need. `Good` is what the checked
invariants are missing to be inductive: a run without a workspace has no retry
chain yet (activation resets the chain, which would otherwise refund retries) and an
active run is enabled. Events end in `Derived`, so a lemma shows `Core` and `Kept` of
the state before `deriveStatus` and `DerivedIsSound` does the rest.

**One run.** `OrchestratorProofs` joins the lemmas along `Next` (`SoundStep`) and
proves type correctness, the safety invariants, the action properties, and that
`Orchestrator` implements `RunLifecycle`: the refinement maps `PhaseOf`, `Resumable`
and `attempt`, and each kind of move in `Moves` is a step or a stutter of the
lifecycle. `FieldsAlwaysAgree` is the largest of them: the status is the derived one, a
done run says truly whether it was verified, and only a blocked, disabled run has a
pause reason. `DelayIsInBounds` holds for every attempt, jitter, cap and draw, and
with it `BackoffIsBounded` for all inputs.

**All runs.** `AutopilotProofs` proves all safety properties of `Autopilot`, for any number of sessions, runs and suspended handlers,
with and without checkpoints, facade and validation commands. The first inductive
invariant, for `RunsStayWellFormed`, `NoAuditLeak` and `ActiveRunsAreDurable`, is `IInv == StoreOK /\ CallsOK /\ RestOK`:

* `StoreOK`: the maps, the files and the queue hold good states of the reducer only
  (`Stores`), of runs that have an owner (`Owned`); with checkpointing on, an active run
  in memory has an active checkpoint on disk or on its way there, and with it off
  there is none (`Backed`); the audit monitor is held at most once per running run
  (`Balanced`); no write is queued between two steps.
* `CallsOK`: a suspended handler holds a run that has an owner, and a snapshot that was
  running when it was read.
* `RestOK`: types of the other variables.

`Backed` is needed for the audit monitor: `session_start` loads a checkpoint under
the id it finds in the index, and if that id could be in memory as a running run
while its checkpoint says it is not, the load would take a running run away without
a release. `CallsOK` is needed because a snapshot is written back over anything: the
write is sound since what it writes was a running run, so it adds one or changes
nothing, and it releases when it leaves `running`. The argument for the monitor is then
the same at every site: a write that takes a run out of `running` comes with a
release, and an acquire comes with a new running run. Lemmas in its first part say what
`Put`, `Rewrite`, `Insertions`, `Evict`, `Sweep`, `ReleaseAll` and `Flush` keep
(`Written` is a write before its release); the second part has a lemma per action.
The patrol's tick is one lemma per run (`Tick` keeps `Written` and releases when it
ends a run) and a counting argument: as many holds are returned as runs were changed
at most, and the runs that left `running` are among them.

The other four properties share one technique. A frame `k` says, per run, the states
and totals a handler may leave, the owners and what sessions may find; `Within(w, k)`
says that a store is inside it. Each operator of `Store` and each handler keeps any
frame that allows the states it writes, which is proved once, and each property
chooses its frame:

* `BudgetInv`, for `ContinuationBudget`: the total of a run is no more than what the
  suspended hook that holds it has counted and no less than what a suspended
  `resume_run` holds (`Room`), so a stale write never carries a total past the budget
  that the writer compared. `CallsBounded` says the same of the two handlers against
  each other.
* `EndFrame`, for `EndedStaysEnded`: a run that ended, and that no suspended handler
  holds, may only be written ended.
* `MemoryFrame`, for `MemoryIsBounded`: outside activation no run enters memory, and
  activation evicts first.
* `ReachInv`, for `RunningRunsAreReachable`: the session of every run in memory finds
  it, and no handler that writes a run back is suspended.

**The files.** `CheckpointFilesProofs` proves type correctness, `IndexNeverDangles`,
`QuietMeansDurable` and that `CheckpointFiles` implements `CheckpointRegister`, for
any number of runs, sessions, crashes and waiting writes. The invariant is the
conjunction of: the call under way has come as far as its name says (`JobInv`), waiting
writes end with the state the run is in (`DurableInv`), the states of a run go from its
file over its queue to its memory in the order they were in (`OrderInv`), a legacy
checkpoint still to be moved is all there is of its run (`LegacyInv`), and nothing is
left of a run that was given up (`DroppedInv`).

**The ledger.** `ProgressLedgerProofs` proves all five properties of `ProgressLedger` for
every window, cap, set of files and configuration. `LedgerInv` adds to the types that
the ledger stands for the history of recorded turns: the details are its last turns
and the aggregate has counted the others, knows a turn no earlier than any of them that
counts, and has no file that none of them touched; and that turns were recorded in
order. `Dedup` picks
positions with `Subsequence` and not with `SelectSeq`, of whose recursion the prover
knows nothing; where an induction is needed it is one over a least counterexample
(`Least`). `VerifiedRunsWereRun` goes back through the gate to the commands.

**The instinct store.** `InstinctStoreProofs` proves all six properties of `InstinctStore`
for any number of processes, slots and calls. `Accounted` holds whatever overlaps: a
line has one birth and one file, in the files and in what suspended replacements
hold; and every line and every hit is paid for by a call, as a count: calls that have
not yet left a mark (`Waiting`) and marks left (`Spent`) are at most the calls made.
`HitsNeverInflated` is a consequence. `Sequential` is about histories in which no two
operations overlapped: at most one process is inside an operation, and it knows what
the files hold (`Knows`: the slot it searched is in no file it has left behind, a purge
has left no old line behind it, an append goes to the file it chose), a slot has one
line, and later files hold later lines. Recency is then a bijection between the
positions read back and the births.

**The guard.** `GuardProofs` proves all seven properties of `Guard` for every set of
calls and configurations. `ChainsHideNothing` and `GuardIsStricter` are facts about the
policy, and hardly about steps. `GuardIsStricter` has a hypothesis, `GrantsAreOrdinary`: the operator grants no
tool whose name the policy reads as a credential program, a system program or a
clean-up. The guard refuses grants of executors and writers at register, and no
others; without the hypothesis a tool named like one of those programs would be let
through to the run, which blocks it.

The other results are about the audit, and rest on one another:

* `KeptInv`, for `GuardIsTyped`: the files of a day are numbered without a gap, all but
  the last of them are full, and a log has at least the entries of the files before its
  last (`WellKept`). So `getAuditFilePath` finds a file with room. A hook writes nothing
  or one entry to one log (`Writes`), and a lemma about one write is used twice per call.
* `BlocksInv`, for `OneEntryPerBlock`: the entries are finitely many and those that tell
  of a block are as many as the blocks. `OneHookTells` goes through what both hooks may
  decide: the guard's entry of a call it lets through on a grant tells of no block, and
  a run makes none of a call the guard blocked.
* `PlacedInv`, for `TheLogIsReadBack`: each log has a map from its entries to their
  places in the files under which later is newer (`Placed`), so the places newer than
  that of entry `i` of `n` are `n - i`, and what `loadRecentAuditEntries` leaves unread
  is older than all it returns. It needs `MaxEntries < 1000 * MaxFile`:
  `auditFileRecencyKey` adds the suffix to a thousand times the day, so the thousandth
  file of a day would sort into the next. In production these are 10 GB in a day.
* `MemoryInv`, for `MemoryIsTheLogsEnd`: appending to a log adds its entry to the end of
  what the log holds of runs, or changes nothing of that, and dropping the oldest of a
  full list takes the end of the longer one (`LastOfAppend`, `LastOfLast`).

`MaxEntries` stands for what a process can write, and every limit is arbitrary.

Only model-checked: the two liveness properties of `Autopilot`, which need fairness and
ENABLED. Induction over data is out of the prover's reach where it needs an operator as
parameter; the proofs use least counterexamples instead.

## Not modelled

* The host. Hooks and calls are modelled from how `index.ts` registers them. The
  exception handler around the guard, which blocks, and the text of messages are left out.
* Two processes on one checkpoint directory; broken JSON; the counter of write errors.
* Mid-run validation: shown to the user, no effect on control. In `Autopilot` the
  no-progress verdict is a free choice of the patrol; `ProgressLedger` says when the
  ledger gives it.
* Ledgers read back from older checkpoints, and the loss of a turn's buffer in a crash.
* How YAML is read; the prompt, workspace and model-routing sections of WORKFLOW.md.
* Starting, killing and reading validation commands, which is I/O of node: what a
  command comes to is the input of the gate.
* How a command line is tokenised, the patterns of each command class, PowerShell's
  cmdlets and symbolic links: the class and the place are input of the policy.
  Redaction and broken lines in the audit log.
* The patterns that put an error message in its class and read its Retry-After.
* In `InstinctStore`: rewrite temporaries and their sweep, the empty directory, files
  that cannot be read or renamed, lines cut short by a crash, names that are not the
  store's own, scrubbing and truncation, project ids, the ranking of instincts, the
  one-shot recall per session. Listing a family and the stat of its newest file are one
  step.
* `register` a second time in a living process; list and status queries.
* The session and workflow projections, goal manager, acceptance criteria,
  completion and error detectors, effort injection, routing, the website, scripts and
  documents: no state that decides how a run goes on (`components` in `PROJECT.json`
  has the reason of each).

## What is left

1. The hazards in `PROJECT.json` that no property covers.
2. Two processes on one checkpoint root, once the code has a lock to state properties of.
