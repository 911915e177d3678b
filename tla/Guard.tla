-------------------------------- MODULE Guard --------------------------------
(***************************************************************************)
(* The two before_tool_call hooks of one gateway and the audit they keep:  *)
(* the subagent guard (packages/dynamic-workflows/index.ts, priority 11)   *)
(* and the handler of a run (packages/autopilot/index.ts, priority 10),    *)
(* which is only reached by calls the guard lets through; then the hooks   *)
(* that set and clear the mark by which the patrol gives a long tool more  *)
(* time.  There is one run at a time; what else its life consists of is    *)
(* the subject of Autopilot.  Hooks of other plugins are left out.         *)
(***************************************************************************)
EXTENDS PermissionPolicy, AuditLog, Subsequences

CONSTANTS
    Calls,          \* the tool calls the host may ask about
    Main, Subagent, \* sessions: ":subagent:" is in the key of the second
    NoSession,      \* a call whose context has no session key
    Setups,         \* what a run is activated with: its workspace and whether its
                    \* workflow allows destructive git
    ProcessCwd,     \* where the gateway runs
    HighRisk,       \* highRiskTools of the guard's configuration
    RunHighRisk,    \* highRiskTools of autopilot's configuration
    Grants,         \* subagentExtraAllowTools
    MaxAudit,       \* MAX_AUDIT: entries a run keeps in memory
    Limit,          \* entries autopilot.status asks the log for
    MaxDay,         \* bound: days
    MaxEntries,     \* bound: audit entries
    MaxPending,     \* bound: tools of a session running at the same time
    MaxLost         \* bound: entries that cannot be written

ASSUME GuardAssumption ==
    /\ {MaxAudit, Limit, MaxDay} \subseteq Nat \ {0}
    /\ {MaxEntries, MaxPending, MaxLost} \subseteq Nat
    /\ Calls \subseteq ToolCall
    /\ NoSession \notin {Main, Subagent}
    /\ ProcessCwd.kind = "at"
    /\ \A u \in Setups : u.workspace.kind = "at" /\ u.destructiveGit \in BOOLEAN

Sessions == {Main, Subagent}

VARIABLES
    today,      \* the local date
    dirs,       \* the audit files of each directory
    run,        \* the run: its state, session, workspace and workflow
    audit,      \* state.permissionAudit
    marked,     \* state.inFlightToolStartedAt is defined
    pending,    \* how many tools the host is running, by session
    log,        \* history variable: every entry written, by directory
    recorded,   \* history variable: the entries of the run since it is in memory
    blocks,     \* history variable: how many calls were blocked, unless not written
    lost        \* entries that could not be written

vars == <<today, dirs, run, audit, marked, pending, log, recorded, blocks, lost>>

NoRun == [is |-> "none", session |-> NoSession, workspace |-> Nowhere, destructiveGit |-> FALSE]

-----------------------------------------------------------------------------
(* What the hooks decide.                                                  *)

\* Fault: every name the operator lists is granted.
AllGrants == Grants

\* Names whose grant would switch the guard off are refused at register.
GrantedTools ==
    Grants \ (GenericExecTools \cup UnintrospectableWriteTools
              \cup {"write", "edit", "write_file", "code_editor"})

Or(dir, default) == IF dir = Nowhere THEN default ELSE dir

CwdOfGuard(call) == Or(CwdOf(call), ProcessCwd)

\* The directory a subagent works in is its workspace.
Untrusted(cwd) == [workspace |-> cwd, destructiveGit |-> FALSE, defaultDeny |-> TRUE]

GuardBlocks(call) ==
    \/ call.tool \in HighRisk
    \/ /\ call.tool \notin GrantedTools
       /\ BlocksCall(call, CwdOfGuard(call), Untrusted(CwdOfGuard(call)))

CwdOfRun(call) == Or(CwdOf(call), Or(run.workspace, ProcessCwd))

TrustedOpts(workspace, destructive) ==
    [workspace |-> workspace, destructiveGit |-> destructive, defaultDeny |-> FALSE]

RunBlocks(call) ==
    \/ call.tool \in RunHighRisk
    \/ BlocksCall(call, CwdOfRun(call), TrustedOpts(run.workspace, run.destructiveGit))

\* Which of the two judge a call of a session, and whether it runs.
Guarded(s) == s = Subagent

JudgedByRun(s) == s # NoSession /\ run.is = "on" /\ run.session = s

Runs(s, call) ==
    /\ s # NoSession
    /\ Guarded(s) => ~GuardBlocks(call)
    /\ JudgedByRun(s) => ~RunBlocks(call)

AuditEntry(by, class, blocked) == [by |-> by, class |-> class, blocked |-> blocked]

ClassIn(call, highRisk, cwd, opts) ==
    IF call.tool \in highRisk THEN ClassOfName(call.tool) ELSE ClassOfCall(call, cwd, opts)

\* The guard records what it blocks and what it lets through on a grant.
GuardEntries(s, call) ==
    LET cwd == CwdOfGuard(call) IN
    IF ~Guarded(s) THEN <<>>
    ELSE IF GuardBlocks(call)
         THEN <<[dir   |-> cwd,
                 entry |-> AuditEntry("guard", ClassIn(call, HighRisk, cwd, Untrusted(cwd)), TRUE)]>>
         ELSE IF call.tool \in GrantedTools
              THEN <<[dir |-> cwd, entry |-> AuditEntry("guard", ClassOfName(call.tool), FALSE)]>>
              ELSE <<>>

\* Fault: the run judges and records calls the guard has blocked.
RunEntriesAnyway(s, call) ==
    LET opts == TrustedOpts(run.workspace, run.destructiveGit) IN
    IF ~JudgedByRun(s) THEN <<>>
    ELSE <<[dir   |-> Or(run.workspace, ProcessCwd),
            entry |-> AuditEntry("run", ClassIn(call, RunHighRisk, CwdOfRun(call), opts),
                                 RunBlocks(call))]>>

\* Fault: the run records a call where it takes place.
RunEntriesInCwd(s, call) ==
    LET opts == TrustedOpts(run.workspace, run.destructiveGit) IN
    IF ~JudgedByRun(s) \/ (Guarded(s) /\ GuardBlocks(call)) THEN <<>>
    ELSE <<[dir   |-> CwdOfRun(call),
            entry |-> AuditEntry("run", ClassIn(call, RunHighRisk, CwdOfRun(call), opts),
                                 RunBlocks(call))]>>

\* The run records every call that reaches it, in its workspace.
RunEntries(s, call) ==
    LET opts == TrustedOpts(run.workspace, run.destructiveGit) IN
    IF ~JudgedByRun(s) \/ (Guarded(s) /\ GuardBlocks(call)) THEN <<>>
    ELSE <<[dir   |-> Or(run.workspace, ProcessCwd),
            entry |-> AuditEntry("run", ClassIn(call, RunHighRisk, CwdOfRun(call), opts),
                                 RunBlocks(call))]>>

-----------------------------------------------------------------------------
(* The hooks.                                                              *)

\* A hook makes one entry at most, into the log of one directory.
Saved(files, writes) ==
    IF writes = <<>> THEN files
    ELSE [files EXCEPT ![writes[1].dir] = AppendAuditEntry(@, today, writes[1].entry)]

Noted(logs, writes) ==
    IF writes = <<>> THEN logs ELSE [logs EXCEPT ![writes[1].dir] = Append(@, writes[1].entry)]

Entries(writes) == [i \in DOMAIN writes |-> writes[i].entry]

\* Fault: a full list drops nothing.
RememberAll(list, entries) == list \o entries

\* The oldest entry makes room for the new one.
Remember(list, entries) ==
    LET all == list \o entries
    IN  IF entries # <<>> /\ Len(list) >= MaxAudit
        THEN SubSeq(all, Len(all) - MaxAudit + 1, Len(all)) ELSE all

\* Where the entries of all logs are.
Logged(logs) == UNION {{d} \X DOMAIN logs[d] : d \in DOMAIN logs}

Made == Cardinality(Logged(log)) + lost

\* One call through both hooks.  An append that fails is counted and
\* otherwise ignored; the last hook the call has reached tells of a block.
BeforeToolCall(s, call) ==
    LET guards == GuardEntries(s, call)
        runs   == RunEntries(s, call)
    IN  /\ Made < MaxEntries
        /\ \E g \in {guards, <<>>}, r \in {runs, <<>>} :
              LET missed == Len(guards \o runs) - Len(g \o r)
                  told   == IF runs # <<>> THEN r # <<>> ELSE g # <<>>
              IN  /\ lost + missed <= MaxLost
                  /\ lost' = lost + missed
                  /\ dirs' = Saved(Saved(dirs, g), r)
                  /\ log' = Noted(Noted(log, g), r)
                  /\ blocks' = IF ~Runs(s, call) /\ told THEN blocks + 1 ELSE blocks
        /\ audit' = Remember(audit, Entries(runs))
        /\ recorded' = recorded \o Entries(runs)
        /\ marked' = (marked \/ (runs # <<>> /\ Runs(s, call)))
        /\ Runs(s, call) => pending[s] < MaxPending
        /\ pending' = IF Runs(s, call) THEN [pending EXCEPT ![s] = @ + 1] ELSE pending
        /\ UNCHANGED <<today, run>>

\* after_tool_call: the mark of an enabled run of the session goes.
AfterToolCall(s) ==
    /\ pending[s] > 0
    /\ pending' = [pending EXCEPT ![s] = @ - 1]
    /\ marked' = (marked /\ ~JudgedByRun(s))
    /\ UNCHANGED <<today, dirs, run, audit, log, recorded, blocks, lost>>

\* agent_end: a turn may end without the answer of its last tool.
AgentEnd(s) ==
    /\ pending' = [pending EXCEPT ![s] = 0]
    /\ marked' = (marked /\ ~JudgedByRun(s))
    /\ UNCHANGED <<today, dirs, run, audit, log, recorded, blocks, lost>>

\* autopilot.activate: a new run of the session.
Activate(s, setup) ==
    /\ run' = [is |-> "on", session |-> s, workspace |-> setup.workspace,
               destructiveGit |-> setup.destructiveGit]
    /\ audit' = <<>>
    /\ recorded' = <<>>
    /\ marked' = FALSE
    /\ UNCHANGED <<today, dirs, pending, log, blocks, lost>>

\* Whatever pauses the run leaves the mark of the tool it interrupts.
Pause ==
    /\ run.is = "on"
    /\ run' = [run EXCEPT !.is = "paused"]
    /\ UNCHANGED <<today, dirs, audit, marked, pending, log, recorded, blocks, lost>>

\* Fault: a resumed run keeps the mark it was paused with.
ResumeKeepsMark ==
    /\ run.is = "paused"
    /\ run' = [run EXCEPT !.is = "on"]
    /\ UNCHANGED <<today, dirs, audit, marked, pending, log, recorded, blocks, lost>>

Resume ==
    /\ run.is = "paused"
    /\ run' = [run EXCEPT !.is = "on"]
    /\ marked' = FALSE
    /\ UNCHANGED <<today, dirs, audit, pending, log, recorded, blocks, lost>>

\* A restart brings the run back from a checkpoint, which holds neither the
\* mark nor the list, or not at all.
Restart ==
    /\ run' \in {run, NoRun}
    /\ audit' = <<>>
    /\ recorded' = <<>>
    /\ marked' = FALSE
    /\ pending' = [s \in Sessions |-> 0]
    /\ UNCHANGED <<today, dirs, log, blocks, lost>>

NextDay ==
    /\ today < MaxDay
    /\ today' = today + 1
    /\ UNCHANGED <<dirs, run, audit, marked, pending, log, recorded, blocks, lost>>

Workspaces == {u.workspace : u \in Setups}

Places == {ProcessCwd} \cup Workspaces \cup {CwdOfGuard(c) : c \in Calls}

Init ==
    /\ today = 1
    /\ dirs = [d \in Places |-> NoFiles]
    /\ run = NoRun
    /\ audit = <<>>
    /\ marked = FALSE
    /\ pending = [s \in Sessions |-> 0]
    /\ log = [d \in Places |-> <<>>]
    /\ recorded = <<>>
    /\ blocks = 0 /\ lost = 0

Next ==
    \/ \E s \in Sessions \cup {NoSession}, c \in Calls : BeforeToolCall(s, c)
    \/ \E s \in Sessions : AfterToolCall(s) \/ AgentEnd(s)
    \/ \E s \in Sessions, u \in Setups : Activate(s, u)
    \/ Pause \/ Resume \/ Restart \/ NextDay

Spec == Init /\ [][Next]_vars

-----------------------------------------------------------------------------
(* Properties.                                                             *)

Entry == [by : {"guard", "run"}, class : CommandClasses, blocked : BOOLEAN]

\* Types, and the caps on what is kept in memory and in one file.
TypeOK ==
    /\ today \in 1..MaxDay
    /\ \A d \in Places : \A name \in DOMAIN dirs[d] :
          dirs[d][name] \in Seq(Entry) /\ Len(dirs[d][name]) \in 1..MaxFile
    /\ run \in [is : {"none", "on", "paused"}, session : Sessions \cup {NoSession},
               workspace : Workspaces \cup {Nowhere}, destructiveGit : BOOLEAN]
    /\ audit \in Seq(Entry) /\ Len(audit) <= MaxAudit
    /\ marked \in BOOLEAN
    /\ pending \in [Sessions -> 0..MaxPending]
    /\ log \in [Places -> Seq(Entry)] /\ recorded \in Seq(Entry)

\* However its files roll over within a day and from day to day, the log of a
\* directory is read back newest last, and nothing newer is left out.
LoadsTheNewest == \A d \in Places : LoadRecent(dirs[d], Limit) = LastOf(log[d], Limit)

\* What a log holds of the run.
OfTheRun(l) == Subsequence(l, {i \in DOMAIN l : l[i].by = "run"})

\* What a run keeps in memory are its last entries, and what it keeps is the end
\* of what its workspace's log holds of it, other writers of that log or not.
MemoryMatchesTheLog ==
    /\ audit = LastOf(recorded, MaxAudit)
    /\ lost = 0 =>
          recorded = LastOf(OfTheRun(log[Or(run.workspace, ProcessCwd)]), Len(recorded))

\* The i-th part of a command as a command of its own, in the same directory.
Alone(call, i) ==
    [call EXCEPT !.segments = <<[@[i] EXCEPT !.dir = Nowhere]>>, !.workdir = CwdOf(call)]

\* A chain of commands runs if and only if each part would run alone: chaining
\* hides no part from the policy, and makes none worse.
ChainsHideNothing ==
    \A s \in Sessions, c \in Calls : Len(c.segments) > 1 =>
        (Runs(s, c) <=> \A i \in DOMAIN c.segments : Runs(s, Alone(c, i)))

\* Whatever the guard lets a subagent do, a run would let its own session do as
\* well, whichever workspace and workflow it has: grants that name no tool the
\* policy refuses widen the list of known tools and never the policy.
GuardIsStricter ==
    \A c \in Calls : Runs(Subagent, c) =>
        ~BlocksCall(c, CwdOfGuard(c), TrustedOpts(run.workspace, run.destructiveGit))

\* The mark that relaxes stall detection is never left on an enabled run with no
\* tool of its session running.
LaxOnlyWhileWorking == run.is = "on" /\ marked => pending[run.session] > 0

BlockedIn(logs) == {p \in Logged(logs) : logs[p[1]][p[2]].blocked}

\* Of the two hooks and two logs exactly one gets the entry of a blocked call,
\* and a call that runs never leaves one.
BlocksAreRecordedOnce == Cardinality(BlockedIn(log)) = blocks
=============================================================================
