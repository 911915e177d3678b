------------------------------ MODULE GuardProofs ------------------------------
(***************************************************************************)
(* What Guard checks on six calls, for every set of calls.  The first two  *)
(* results are about the policy alone and hold in every state; the third   *)
(* has an invariant of its own.  The rest is about the audit: a write is   *)
(* one entry to one log, and the files of a day, numbered without a gap    *)
(* and all but the last of them full, give each entry of a log its place.  *)
(***************************************************************************)
EXTENDS Guard, DataLemmas

(* Segments that differ in the directory they name are judged alike.       *)
LEMMA DirDoesNotMatter ==
    ASSUME NEW s \in CommandSegment, NEW dir, NEW tool, NEW cwd, NEW opts
    PROVE  BlocksSegment(tool, [s EXCEPT !.dir = dir], cwd, opts)
              <=> BlocksSegment(tool, s, cwd, opts)
<1> DEFINE t == [s EXCEPT !.dir = dir]
<1>1. /\ t.program = s.program /\ t.handsString = s.handsString /\ t.sub = s.sub
      /\ t.flags = s.flags /\ t.args = s.args /\ t.targets = s.targets
  BY DEF CommandSegment
<1> HIDE DEF t
<1>2. ClassifyGit(t) = ClassifyGit(s)
  BY <1>1 DEF ClassifyGit, DestructiveGit
<1>3. ClassifyPackageManager(t) = ClassifyPackageManager(s)
  BY <1>1 DEF ClassifyPackageManager
<1>4. ClassifyCommand(tool, t) = ClassifyCommand(tool, s)
  BY <1>1, <1>2, <1>3 DEF ClassifyCommand
<1>5. BlocksSegment(tool, t, cwd, opts) <=> BlocksSegment(tool, s, cwd, opts)
  BY <1>1, <1>4 DEF BlocksSegment
<1> QED BY <1>5 DEF t

(* A part of a command takes place where the whole command does.           *)
LEMMA AloneInPlace ==
    ASSUME NEW c \in ToolCall, NEW i \in DOMAIN c.segments
    PROVE  /\ Alone(c, i).tool = c.tool
           /\ Alone(c, i).feature = c.feature
           /\ Alone(c, i).segments = <<[c.segments[i] EXCEPT !.dir = Nowhere]>>
           /\ CwdOf(Alone(c, i)) = CwdOf(c)
<1> DEFINE a == Alone(c, i)
<1>1. /\ a.tool = c.tool /\ a.feature = c.feature /\ a.workdir = CwdOf(c)
      /\ a.segments = <<[c.segments[i] EXCEPT !.dir = Nowhere]>>
  BY DEF Alone, ToolCall
<1>2. c.segments[i] \in CommandSegment
  BY DEF ToolCall
<1>3. \A j \in DOMAIN a.segments : a.segments[j].dir = Nowhere
  BY <1>1, <1>2 DEF CommandSegment
<1> HIDE DEF a
<1>4. CwdOf(a) = CwdOf(c)
  BY <1>1, <1>3 DEF CwdOf
<1> QED BY <1>1, <1>4 DEF a

(* The policy blocks a chain of commands exactly when it would block one   *)
(* of its parts.                                                           *)
LEMMA ChainIsItsParts ==
    ASSUME NEW c \in ToolCall, Len(c.segments) > 1, NEW cwd, NEW opts
    PROVE  BlocksCall(c, cwd, opts)
              <=> \E i \in DOMAIN c.segments : BlocksCall(Alone(c, i), cwd, opts)
<1>1. c.segments \in Seq(CommandSegment) /\ 1 \in DOMAIN c.segments /\ c.segments # <<>>
  BY DEF ToolCall
<1>2. ASSUME NEW i \in DOMAIN c.segments
      PROVE  BlocksCall(Alone(c, i), cwd, opts)
                <=> \/ c.feature /\ opts.defaultDeny
                    \/ BlocksSegment(c.tool, c.segments[i], cwd, opts)
  <2> DEFINE part == [c.segments[i] EXCEPT !.dir = Nowhere]
  <2>0. c.segments[i] \in CommandSegment
    BY <1>1
  <2>1. BlocksSegment(c.tool, part, cwd, opts)
           <=> BlocksSegment(c.tool, c.segments[i], cwd, opts)
    BY <2>0, DirDoesNotMatter
  <2> HIDE DEF part
  <2>2. /\ Alone(c, i).tool = c.tool /\ Alone(c, i).feature = c.feature
        /\ Alone(c, i).segments = <<part>>
    BY AloneInPlace DEF part
  <2>3. BlockingSegments(Alone(c, i), cwd, opts) # {}
           <=> BlocksSegment(c.tool, part, cwd, opts)
    BY <2>2 DEF BlockingSegments
  <2> QED BY <2>1, <2>2, <2>3 DEF BlocksCall
<1>3. BlockingSegments(c, cwd, opts) # {}
         <=> \E i \in DOMAIN c.segments : BlocksSegment(c.tool, c.segments[i], cwd, opts)
  BY DEF BlockingSegments
<1> QED BY <1>1, <1>2, <1>3 DEF BlocksCall

(* Chaining commands hides no part from the policy and makes none worse,   *)
(* for every set of calls, grants and workflows: decidePermissionForEvent  *)
(* judges every segment, in the directory the whole command names.         *)
THEOREM ChainsAreTransparent == Spec => []ChainsHideNothing
<1>1. ChainsHideNothing
  <2> SUFFICES ASSUME NEW s \in Sessions, NEW c \in Calls, Len(c.segments) > 1
               PROVE  Runs(s, c) <=> \A i \in DOMAIN c.segments : Runs(s, Alone(c, i))
    BY DEF ChainsHideNothing
  <2>1. c \in ToolCall /\ DOMAIN c.segments # {}
    <3>1. c \in ToolCall
      BY GuardAssumption
    <3>2. c.segments \in Seq(CommandSegment)
      BY <3>1 DEF ToolCall
    <3>3. 1 \in DOMAIN c.segments
      BY <3>2
    <3> QED BY <3>1, <3>3
  <2>2. \A i \in DOMAIN c.segments :
           /\ Alone(c, i).tool = c.tool
           /\ CwdOfGuard(Alone(c, i)) = CwdOfGuard(c)
           /\ CwdOfRun(Alone(c, i)) = CwdOfRun(c)
    BY <2>1, AloneInPlace DEF CwdOfGuard, CwdOfRun
  <2>3. GuardBlocks(c) <=> \E i \in DOMAIN c.segments : GuardBlocks(Alone(c, i))
    <3> DEFINE cwd == CwdOfGuard(c)
               opts == Untrusted(cwd)
    <3>1. BlocksCall(c, cwd, opts)
             <=> \E i \in DOMAIN c.segments : BlocksCall(Alone(c, i), cwd, opts)
      <4> HIDE DEF cwd, opts
      <4> QED BY <2>1, ChainIsItsParts
    <3> QED BY <2>1, <2>2, <3>1 DEF GuardBlocks
  <2>4. RunBlocks(c) <=> \E i \in DOMAIN c.segments : RunBlocks(Alone(c, i))
    <3> DEFINE cwd == CwdOfRun(c)
               opts == TrustedOpts(run.workspace, run.destructiveGit)
    <3>1. BlocksCall(c, cwd, opts)
             <=> \E i \in DOMAIN c.segments : BlocksCall(Alone(c, i), cwd, opts)
      <4> HIDE DEF cwd, opts
      <4> QED BY <2>1, ChainIsItsParts
    <3> QED BY <2>1, <2>2, <3>1 DEF RunBlocks
  <2> QED BY <2>1, <2>3, <2>4 DEF Runs
<1> QED BY <1>1, PTL

-----------------------------------------------------------------------------
(* Whatever blocks a command of a trusted session, in whichever workspace  *)
(* and under whichever workflow, blocks it for an untrusted one.           *)
LEMMA UntrustedIsStricter ==
    ASSUME NEW c, NEW cwd, NEW workspace, NEW destructive \in BOOLEAN,
           BlocksCall(c, cwd, TrustedOpts(workspace, destructive))
    PROVE  BlocksCall(c, cwd, Untrusted(cwd))
<1> DEFINE trusted == TrustedOpts(workspace, destructive)
           untrusted == Untrusted(cwd)
<1>1. /\ trusted.defaultDeny = FALSE
      /\ untrusted.defaultDeny = TRUE /\ untrusted.destructiveGit = FALSE
  BY DEF TrustedOpts, Untrusted
<1> HIDE DEF trusted, untrusted
<1>2. \A tool, class, targets :
         Blocks(tool, class, targets, cwd, trusted) => Blocks(tool, class, targets, cwd, untrusted)
  BY <1>1 DEF Blocks
<1>3. BlocksCall(c, cwd, trusted)
  BY DEF trusted
<1>4. CASE c.segments = <<>>
  BY <1>1, <1>2, <1>3, <1>4 DEF BlocksCall, untrusted
<1>5. CASE c.segments # <<>>
  <2>1. PICK i \in DOMAIN c.segments : BlocksSegment(c.tool, c.segments[i], cwd, trusted)
    BY <1>1, <1>3, <1>5 DEF BlocksCall, BlockingSegments
  <2>2. BlocksSegment(c.tool, c.segments[i], cwd, untrusted)
    BY <1>2, <2>1 DEF BlocksSegment
  <2> QED BY <1>5, <2>2 DEF BlocksCall, BlockingSegments, untrusted
<1> QED BY <1>4, <1>5

(* The grants name no tool that the policy refuses by its name.            *)
GrantsAreOrdinary ==
    \A g \in Grants :
        ClassOfName(g) \notin {"credential_access", "system_write", "workspace_cleanup"}

(* A granted tool is no generic executor, so its name alone classifies it. *)
LEMMA GrantsPassThePolicy ==
    ASSUME NEW c, NEW cwd, NEW workspace, NEW destructive \in BOOLEAN,
           c.tool \in GrantedTools, GrantsAreOrdinary
    PROVE  ~BlocksCall(c, cwd, TrustedOpts(workspace, destructive))
<1> DEFINE trusted == TrustedOpts(workspace, destructive)
           class == ClassOfName(c.tool)
<1>1. trusted.defaultDeny = FALSE
  BY DEF TrustedOpts
<1> HIDE DEF trusted
<1>2. /\ c.tool \notin GenericExecTools
      /\ class \notin {"credential_access", "system_write", "workspace_cleanup"}
  BY DEF GrantedTools, GrantsAreOrdinary
<1>3. class # "destructive_git"
  BY DEF ClassOfName
<1> HIDE DEF class
<1>4. \A targets : ~Blocks(c.tool, class, targets, cwd, trusted)
  BY <1>1, <1>2, <1>3 DEF Blocks
<1>5. \A s : ClassifyCommand(c.tool, s) = class
  BY <1>2 DEF ClassifyCommand, class
<1>6. BlockingSegments(c, cwd, trusted) = {}
  BY <1>4, <1>5 DEF BlockingSegments, BlocksSegment
<1>7. ~BlocksCall(c, cwd, trusted)
  BY <1>1, <1>4, <1>6 DEF BlocksCall, class
<1> QED BY <1>7 DEF trusted

(* What a run's own session may not do no subagent may, whichever calls,   *)
(* workspaces and workflows there are: defaultDeny only adds refusals, and *)
(* register refuses the grants that would take some away.                  *)
THEOREM GuardIsAlwaysStricter ==
    ASSUME GrantsAreOrdinary
    PROVE  Spec => []GuardIsStricter
<1> DEFINE Inv == run.destructiveGit \in BOOLEAN
<1>1. Init => Inv
  BY DEF Init, NoRun
<1>2. Inv /\ [Next]_vars => Inv'
  <2> SUFFICES ASSUME Inv, [Next]_vars PROVE Inv'
    OBVIOUS
  <2>1. ASSUME NEW s, NEW u \in Setups, Activate(s, u) PROVE Inv'
    BY <2>1, GuardAssumption DEF Activate
  <2>2. CASE Pause \/ Resume
    <3>1. PICK is : run' = [run EXCEPT !.is = is]
      BY <2>2 DEF Pause, Resume
    <3> QED BY <3>1
  <2>3. CASE Restart
    <3>1. NoRun.destructiveGit = FALSE
      BY DEF NoRun
    <3> QED BY <2>3, <3>1 DEF Restart
  <2>4. CASE UNCHANGED run
    BY <2>4
  <2> QED BY <2>1, <2>2, <2>3, <2>4 DEF Next, vars, BeforeToolCall, AfterToolCall, AgentEnd, NextDay
<1>3. Inv => GuardIsStricter
  <2> SUFFICES ASSUME Inv, NEW c \in Calls, Runs(Subagent, c)
               PROVE  ~BlocksCall(c, CwdOfGuard(c), TrustedOpts(run.workspace, run.destructiveGit))
    BY DEF GuardIsStricter
  <2>1. ~GuardBlocks(c)
    BY DEF Runs, Guarded
  <2>2. CASE c.tool \in GrantedTools
    BY <2>2, GrantsPassThePolicy
  <2>3. CASE ~BlocksCall(c, CwdOfGuard(c), Untrusted(CwdOfGuard(c)))
    BY <2>3, UntrustedIsStricter
  <2> QED BY <2>1, <2>2, <2>3 DEF GuardBlocks
<1> QED BY <1>1, <1>2, <1>3, PTL DEF Spec

-----------------------------------------------------------------------------
(* The mark of an enabled run stands for a tool of its session that has    *)
(* not answered.  The types are what this needs.                           *)
RunRecord ==
    [is : {"none", "on", "paused"}, session : Sessions \cup {NoSession},
     workspace : Workspaces \cup {Nowhere},
     destructiveGit : {FALSE} \cup {u.destructiveGit : u \in Setups}]

LaxInv ==
    /\ run \in RunRecord
    /\ run.is # "none" => run.session \in Sessions
    /\ marked \in BOOLEAN
    /\ pending \in [Sessions -> Nat]
    /\ LaxOnlyWhileWorking

(* However calls, answers, turn ends, pauses, resumes and restarts follow  *)
(* each other, the stall detector is never lenient to a run that waits for *)
(* no tool, for every number of tools running at once.                     *)
THEOREM LaxIsDeserved == Spec => []LaxOnlyWhileWorking
<1>1. Init => LaxInv
  <2> SUFFICES ASSUME Init PROVE LaxInv
    OBVIOUS
  <2>1. NoRun \in RunRecord /\ NoRun.is = "none"
    BY DEF NoRun, RunRecord
  <2>2. run = NoRun /\ marked = FALSE /\ pending \in [Sessions -> Nat]
    BY DEF Init
  <2> QED BY <2>1, <2>2 DEF LaxInv, LaxOnlyWhileWorking
<1>2. LaxInv /\ [Next]_vars => LaxInv'
  <2> SUFFICES ASSUME LaxInv, [Next]_vars PROVE LaxInv'
    OBVIOUS
  <2> USE DEF LaxInv, LaxOnlyWhileWorking
  <2>1. ASSUME NEW s \in Sessions \cup {NoSession}, NEW c \in Calls, BeforeToolCall(s, c)
        PROVE  LaxInv'
    <3>1. /\ run' = run
          /\ marked' = (marked \/ (RunEntries(s, c) # <<>> /\ Runs(s, c)))
          /\ pending' = IF Runs(s, c) THEN [pending EXCEPT ![s] = @ + 1] ELSE pending
      BY <2>1 DEF BeforeToolCall
    <3>2. RunEntries(s, c) # <<>> => run.session = s
      BY DEF RunEntries, JudgedByRun
    <3>3. Runs(s, c) => s \in Sessions
      BY DEF Runs
    <3> QED BY <3>1, <3>2, <3>3
  <2>2. ASSUME NEW s \in Sessions, AfterToolCall(s) \/ AgentEnd(s) PROVE LaxInv'
    <3>1. s # NoSession
      BY GuardAssumption DEF Sessions
    <3>2. \E n \in Nat : pending' = [pending EXCEPT ![s] = n]
      BY <2>2 DEF AfterToolCall, AgentEnd
    <3>3. run' = run /\ marked' = (marked /\ ~JudgedByRun(s))
      BY <2>2 DEF AfterToolCall, AgentEnd
    <3> QED BY <3>1, <3>2, <3>3 DEF JudgedByRun
  <2>3. ASSUME NEW s \in Sessions, NEW u \in Setups, Activate(s, u) PROVE LaxInv'
    <3>1. run' \in RunRecord /\ run'.session = s
      BY <2>3 DEF Activate, RunRecord, Workspaces
    <3>2. marked' = FALSE /\ pending' = pending
      BY <2>3 DEF Activate
    <3> QED BY <3>1, <3>2
  <2>4. CASE Pause \/ Resume
    <3>1. /\ run' \in RunRecord
          /\ run.is # "none" /\ run'.session = run.session
          /\ run'.is = "on" => marked' = FALSE
          /\ marked' \in BOOLEAN /\ pending' = pending
      BY <2>4 DEF Pause, Resume, RunRecord
    <3> QED BY <3>1
  <2>5. CASE Restart
    <3>1. NoRun \in RunRecord /\ NoRun.is = "none"
      BY DEF NoRun, RunRecord
    <3>2. pending' \in [Sessions -> Nat] /\ marked' = FALSE
      BY <2>5 DEF Restart
    <3> QED BY <2>5, <3>1, <3>2 DEF Restart
  <2>6. CASE NextDay \/ UNCHANGED vars
    BY <2>6 DEF NextDay, vars
  <2> QED BY <2>1, <2>2, <2>3, <2>4, <2>5, <2>6 DEF Next
<1>3. LaxInv => LaxOnlyWhileWorking
  BY DEF LaxInv
<1> QED BY <1>1, <1>2, <1>3, PTL DEF Spec

-----------------------------------------------------------------------------
(* What the hooks write.                                                   *)

LEMMA LimitsAre ==
    /\ MaxAudit \in Nat /\ Limit \in Nat /\ MaxDay \in Nat
    /\ MaxAudit > 0 /\ Limit > 0 /\ MaxDay > 0
    /\ MaxEntries \in Nat /\ MaxPending \in Nat /\ MaxLost \in Nat
    /\ MaxFile \in Nat /\ MaxFile > 0
<1>1. {MaxAudit, Limit, MaxDay} \subseteq Nat \ {0} BY GuardAssumption
<1>2. {MaxEntries, MaxPending, MaxLost} \subseteq Nat BY GuardAssumption
<1> QED BY <1>1, <1>2, MaxFileAssumption

LEMMA NamesHaveClasses ==
    ASSUME NEW name
    PROVE  ClassOfName(name) \in CommandClasses
BY DEF ClassOfName, CommandClasses

LEMMA CommandsHaveClasses ==
    ASSUME NEW tool, NEW s \in CommandSegment
    PROVE  ClassifyCommand(tool, s) \in CommandClasses
<1>1. ClassifyGit(s) \in CommandClasses BY DEF ClassifyGit, CommandClasses
<1>2. ClassifyPackageManager(s) \in CommandClasses BY DEF ClassifyPackageManager, CommandClasses
<1>3. "unknown" \in CommandClasses /\ "workspace_cleanup" \in CommandClasses
  BY DEF CommandClasses
<1> QED BY <1>1, <1>2, <1>3, NamesHaveClasses DEF ClassifyCommand

(* Every class has a rank, so the worst of some classes is one of them.    *)
LEMMA WorstIsAClass ==
    ASSUME NEW classes \in SUBSET CommandClasses, classes # {}
    PROVE  WorstClass(classes) \in CommandClasses
<1>1. DOMAIN DangerRank = 1..11 /\ \A r \in 1..11 : DangerRank[r] \in CommandClasses
  BY DEF DangerRank, CommandClasses
<1>2. \A c \in CommandClasses : \E r \in 1..11 : DangerRank[r] = c
  <2>1. /\ DangerRank[1] = "credential_access" /\ DangerRank[2] = "system_write"
        /\ DangerRank[3] = "destructive_git" /\ DangerRank[4] = "workspace_cleanup"
        /\ DangerRank[5] = "network" /\ DangerRank[6] = "workspace_write"
        /\ DangerRank[7] = "worktree_create" /\ DangerRank[8] = "safe_git"
        /\ DangerRank[9] = "validation" /\ DangerRank[10] = "read_only"
        /\ DangerRank[11] = "unknown"
    BY DEF DangerRank
  <2> QED BY <2>1 DEF CommandClasses
<1>3. PICK R : R = {r \in DOMAIN DangerRank : DangerRank[r] \in classes} OBVIOUS
<1>4. R \in SUBSET Nat /\ R # {} BY <1>1, <1>2, <1>3
<1>5. Min(R) \in R BY <1>4, MinOfSome
<1> QED BY <1>1, <1>3, <1>5 DEF WorstClass

LEMMA CallsHaveClasses ==
    ASSUME NEW call \in ToolCall, NEW cwd, NEW opts
    PROVE  ClassOfCall(call, cwd, opts) \in CommandClasses
<1>1. call.segments \in Seq(CommandSegment) BY DEF ToolCall
<1>2. \A i \in DOMAIN call.segments :
         ClassifyCommand(call.tool, call.segments[i]) \in CommandClasses
  BY <1>1, CommandsHaveClasses
<1>3. PICK B : B = BlockingSegments(call, cwd, opts) OBVIOUS
<1>4. B \subseteq DOMAIN call.segments BY <1>3 DEF BlockingSegments
<1>5. CASE call.segments = <<>> \/ (call.feature /\ opts.defaultDeny)
  BY <1>5, NamesHaveClasses DEF ClassOfCall
<1>6. CASE ~(call.segments = <<>> \/ (call.feature /\ opts.defaultDeny)) /\ B # {}
  <2>1. B \in SUBSET Nat BY <1>1, <1>4, LenProperties
  <2>2. Min(B) \in B BY <1>6, <2>1, MinOfSome
  <2> QED BY <1>2, <1>3, <1>4, <1>6, <2>2 DEF ClassOfCall
<1>7. CASE ~(call.segments = <<>> \/ (call.feature /\ opts.defaultDeny)) /\ B = {}
  <2>1. PICK C : C = {ClassifyCommand(call.tool, call.segments[i]) : i \in DOMAIN call.segments}
    OBVIOUS
  <2>2. C \in SUBSET CommandClasses BY <1>2, <2>1
  <2>3. 1 \in DOMAIN call.segments BY <1>1, <1>7, EmptySeq, LenProperties
  <2>4. C # {} BY <2>1, <2>3
  <2>5. WorstClass(C) \in CommandClasses BY <2>2, <2>4, WorstIsAClass
  <2> QED BY <1>3, <1>7, <2>1, <2>5 DEF ClassOfCall
<1> QED BY <1>5, <1>6, <1>7

LEMMA AllHaveClasses ==
    ASSUME NEW call \in Calls, NEW highRisk, NEW cwd, NEW opts
    PROVE  ClassIn(call, highRisk, cwd, opts) \in CommandClasses
<1>1. call \in ToolCall BY GuardAssumption
<1> QED BY <1>1, CallsHaveClasses, NamesHaveClasses DEF ClassIn

(* What one hook writes: nothing, or one entry to one log.                 *)
Write(d, e) == <<[dir |-> d, entry |-> e]>>

Writes == {<<>>} \cup {Write(d, e) : d \in Places, e \in Entry}

LEMMA WriteIs ==
    ASSUME NEW d, NEW e
    PROVE  /\ Write(d, e) # <<>> /\ Len(Write(d, e)) = 1
           /\ Write(d, e)[1].dir = d /\ Write(d, e)[1].entry = e
           /\ Entries(Write(d, e)) = <<e>>
<1>1. /\ Write(d, e) # <<>> /\ Len(Write(d, e)) = 1
      /\ Write(d, e)[1].dir = d /\ Write(d, e)[1].entry = e
  BY DEF Write
<1>2. DOMAIN Write(d, e) = {1} BY DEF Write
<1>3. Entries(Write(d, e)) = [i \in {1} |-> e] BY <1>1, <1>2 DEF Entries
<1>4. <<e>> = [i \in {1} |-> e] OBVIOUS
<1> QED BY <1>1, <1>3, <1>4

(* The guard writes what it blocks, and what it lets through on a grant.   *)
LEMMA GuardWrites ==
    ASSUME NEW s, NEW c \in Calls
    PROVE  \/ GuardEntries(s, c) = <<>> /\ ~(Guarded(s) /\ GuardBlocks(c))
           \/ \E d \in Places, e \in Entry :
                 /\ GuardEntries(s, c) = Write(d, e)
                 /\ Guarded(s) /\ e.by = "guard" /\ (e.blocked <=> GuardBlocks(c))
<1>1. PICK d : d = CwdOfGuard(c) OBVIOUS
<1>2. d \in Places BY <1>1 DEF Places
<1>3. CASE Guarded(s) /\ GuardBlocks(c)
  <2>1. PICK k : k = ClassIn(c, HighRisk, d, Untrusted(d)) OBVIOUS
  <2>2. PICK e : e = AuditEntry("guard", k, TRUE) OBVIOUS
  <2>3. k \in CommandClasses BY <2>1, AllHaveClasses
  <2>4. e \in Entry /\ e.by = "guard" /\ e.blocked = TRUE BY <2>2, <2>3 DEF AuditEntry, Entry
  <2>5. GuardEntries(s, c) = Write(d, e) BY <1>1, <1>3, <2>1, <2>2 DEF GuardEntries, Write
  <2> QED BY <1>2, <1>3, <2>4, <2>5
<1>4. CASE Guarded(s) /\ ~GuardBlocks(c) /\ c.tool \in GrantedTools
  <2>1. PICK k : k = ClassOfName(c.tool) OBVIOUS
  <2>2. PICK e : e = AuditEntry("guard", k, FALSE) OBVIOUS
  <2>3. k \in CommandClasses BY <2>1, NamesHaveClasses
  <2>4. e \in Entry /\ e.by = "guard" /\ e.blocked = FALSE BY <2>2, <2>3 DEF AuditEntry, Entry
  <2>5. GuardEntries(s, c) = Write(d, e) BY <1>1, <1>4, <2>1, <2>2 DEF GuardEntries, Write
  <2> QED BY <1>2, <1>4, <2>4, <2>5
<1>5. CASE ~Guarded(s) \/ (~GuardBlocks(c) /\ c.tool \notin GrantedTools)
  BY <1>5 DEF GuardEntries
<1> QED BY <1>3, <1>4, <1>5

(* The log of the run's workspace.                                         *)
HomeLog == Or(run.workspace, ProcessCwd)

(* The run writes every call of its session that the guard lets through.   *)
LEMMA RunWrites ==
    ASSUME NEW s, NEW c \in Calls, run.workspace \in Workspaces \cup {Nowhere}
    PROVE  \/ /\ RunEntries(s, c) = <<>>
              /\ ~JudgedByRun(s) \/ (Guarded(s) /\ GuardBlocks(c))
           \/ \E e \in Entry :
                 /\ RunEntries(s, c) = Write(HomeLog, e)
                 /\ JudgedByRun(s) /\ ~(Guarded(s) /\ GuardBlocks(c))
                 /\ e.by = "run" /\ (e.blocked <=> RunBlocks(c))
<1>1. PICK opts : opts = TrustedOpts(run.workspace, run.destructiveGit) OBVIOUS
<1>2. PICK k : k = ClassIn(c, RunHighRisk, CwdOfRun(c), opts) OBVIOUS
<1>3. PICK e : e = AuditEntry("run", k, RunBlocks(c)) OBVIOUS
<1>4. k \in CommandClasses BY <1>2, AllHaveClasses
<1>5. RunBlocks(c) \in BOOLEAN BY DEF RunBlocks
<1>6. e \in Entry /\ e.by = "run" /\ e.blocked = RunBlocks(c)
  BY <1>3, <1>4, <1>5 DEF AuditEntry, Entry
<1>7. CASE ~JudgedByRun(s) \/ (Guarded(s) /\ GuardBlocks(c)) BY <1>7 DEF RunEntries
<1>8. CASE ~(~JudgedByRun(s) \/ (Guarded(s) /\ GuardBlocks(c)))
  <2>1. RunEntries(s, c) = Write(HomeLog, e)
    BY <1>1, <1>2, <1>3, <1>8 DEF RunEntries, Write, HomeLog
  <2> QED BY <1>6, <1>8, <2>1
<1> QED BY <1>7, <1>8

LEMMA HomeIsAPlace ==
    ASSUME run.workspace \in Workspaces \cup {Nowhere}
    PROVE  HomeLog \in Places
BY DEF HomeLog, Or, Places

-----------------------------------------------------------------------------
(* The files of one directory.                                             *)

(* The files of a day are numbered without a gap, all but the last of them *)
(* full; the log has at least the entries of as many files.                *)
WellKept(f, l, day) ==
    /\ IsFiniteSet(DOMAIN f)
    /\ DOMAIN f \subseteq (1..day) \X Nat
    /\ \A name \in DOMAIN f :
          /\ f[name] \in Seq(Entry) /\ Len(f[name]) \in 1..MaxFile
          /\ name[2] * MaxFile + Len(f[name]) <= Len(l)
          /\ \A k \in 0..(name[2] - 1) :
                <<name[1], k>> \in DOMAIN f /\ Len(f[<<name[1], k>>]) = MaxFile

(* The files of a day before the n-th are full.                            *)
FullBefore(f, day, n) ==
    \A k \in 0..(n - 1) : <<day, k>> \in DOMAIN f /\ Len(f[<<day, k>>]) = MaxFile

(* getAuditFilePath finds the first file with room, and there is one.      *)
LEMMA FileWithRoom ==
    ASSUME NEW f, NEW l, NEW day \in Nat, WellKept(f, l, day), Len(l) \in Nat
    PROVE  \E n \in Nat :
              /\ AuditFile(f, day) = <<day, n>>
              /\ <<day, n>> \in DOMAIN f => Len(f[<<day, n>>]) < MaxFile
              /\ FullBefore(f, day, n)
              /\ n * MaxFile <= Len(l)
<1> DEFINE full(n) == <<day, n>> \in DOMAIN f /\ Len(f[<<day, n>>]) >= MaxFile
<1>1. PICK c : c = Cardinality(DOMAIN f) OBVIOUS
<1>2. c \in Nat /\ IsFiniteSet(DOMAIN f) BY <1>1, FS_CardinalityType DEF WellKept
<1>3. PICK R : R = {n \in 0..c : ~full(n)} OBVIOUS
<1>4. \A n : full(n) => Len(f[<<day, n>>]) = MaxFile
  <2>1. ASSUME NEW n, full(n) PROVE Len(f[<<day, n>>]) = MaxFile
    <3>1. Len(f[<<day, n>>]) \in 1..MaxFile BY <2>1 DEF WellKept
    <3> QED BY <2>1, <3>1, LimitsAre
  <2> HIDE DEF full
  <2> QED BY <2>1
<1>5. R # {}
  <2> SUFFICES ASSUME R = {} PROVE FALSE OBVIOUS
  <2>1. PICK T : T = {<<day, n>> : n \in 0..c} OBVIOUS
  <2>2. T \subseteq DOMAIN f BY <1>3, <2>1
  <2>3. IsFiniteSet(T) /\ Cardinality(T) <= c BY <1>1, <1>2, <2>2, FS_Subset
  <2>4. PICK h : h = [n \in 0..c |-> <<day, n>>] OBVIOUS
  <2>5. h \in [0..c -> T] BY <2>1, <2>4
  <2>6. \A x, y \in 0..c : h[x] = h[y] => x = y BY <2>4
  <2>7. \A t \in T : \E x \in 0..c : h[x] = t BY <2>1, <2>4
  <2>8. Cardinality(0..c) = Cardinality(T) BY <2>3, <2>5, <2>6, <2>7, SameCount
  <2>9. Cardinality(0..c) = c + 1
    <3>1. 0 \in Int /\ c \in Int BY <1>2
    <3>2. Cardinality(0..c) = IF 0 > c THEN 0 ELSE c - 0 + 1 BY ONLY <3>1, FS_Interval
    <3> QED BY <1>2, <3>2
  <2> QED BY <1>2, <2>3, <2>8, <2>9
<1>6. R \in SUBSET Nat BY <1>2, <1>3
<1>7. PICK n : n = Min(R) OBVIOUS
<1>8. n \in R /\ \A k \in R : n <= k BY <1>5, <1>6, <1>7, MinOfSome
<1>9. AuditFile(f, day) = <<day, n>> BY <1>1, <1>3, <1>7 DEF AuditFile
<1>10. n \in Nat /\ n \in 0..c /\ ~full(n) BY <1>3, <1>6, <1>8
<1>11. <<day, n>> \in DOMAIN f => Len(f[<<day, n>>]) < MaxFile
  <2>1. <<day, n>> \in DOMAIN f => Len(f[<<day, n>>]) \in 1..MaxFile BY DEF WellKept
  <2> QED BY <1>10, <2>1, LimitsAre
<1>12. ASSUME NEW k \in 0..(n - 1) PROVE full(k)
  <2>1. k \in 0..c /\ ~(n <= k) BY <1>2, <1>10
  <2>2. k \notin R BY <1>8, <2>1
  <2> QED BY <1>3, <2>1, <2>2
<1>13. FullBefore(f, day, n) BY <1>4, <1>12 DEF FullBefore
<1>14. n * MaxFile <= Len(l)
  <2>1. CASE n = 0
    <3>1. n * MaxFile = 0 BY <2>1, LimitsAre
    <3> QED BY <3>1
  <2>2. CASE n # 0
    <3>1. PICK k : k = n - 1 OBVIOUS
    <3>2. k \in Nat /\ k \in 0..(n - 1) /\ n = k + 1 BY <1>10, <2>2, <3>1
    <3>3. <<day, k>> \in DOMAIN f /\ Len(f[<<day, k>>]) = MaxFile
      BY <1>13, <3>2 DEF FullBefore
    <3>4. <<day, k>>[2] = k OBVIOUS
    <3>5. k * MaxFile + MaxFile <= Len(l) BY <3>3, <3>4 DEF WellKept
    <3>6. (k + 1) * MaxFile = k * MaxFile + MaxFile BY ONLY <3>2, LimitsAre
    <3> QED BY <3>2, <3>5, <3>6
  <2> QED BY <2>1, <2>2
<1> QED BY <1>9, <1>10, <1>11, <1>13, <1>14

(* What an append makes of the files f.                                    *)
Appended(f, g, name, e) ==
    /\ DOMAIN g = DOMAIN f \cup {name}
    /\ \A x \in DOMAIN f : x # name => g[x] = f[x]
    /\ g[name] \in Seq(Entry)
    /\ Len(g[name]) = (IF name \in DOMAIN f THEN Len(f[name]) ELSE 0) + 1
    /\ name \in DOMAIN f => \A i \in 1..Len(f[name]) : g[name][i] = f[name][i]
    /\ g[name][Len(g[name])] = e

LEMMA AppendIs ==
    ASSUME NEW f, NEW day, NEW e \in Entry, NEW name, name = AuditFile(f, day),
           name \in DOMAIN f => f[name] \in Seq(Entry),
           NEW g, g = AppendAuditEntry(f, day, e)
    PROVE  Appended(f, g, name, e)
<1>1. PICK old : old = IF name \in DOMAIN f THEN f[name] ELSE <<>> OBVIOUS
<1>2. old \in Seq(Entry) BY <1>1
<1>3. PICK new : new = Append(old, e) OBVIOUS
<1>4. /\ new \in Seq(Entry) /\ Len(new) = Len(old) + 1
      /\ \A i \in 1..Len(old) : new[i] = old[i]
      /\ new[Len(old) + 1] = e
  BY <1>2, <1>3, AppendProperties
<1>5. g = [n \in DOMAIN f \cup {name} |-> IF n = name THEN new ELSE f[n]]
  BY <1>1, <1>3 DEF AppendAuditEntry
<1>6. Len(old) = IF name \in DOMAIN f THEN Len(f[name]) ELSE 0 BY <1>1, EmptySeq
<1>7. g[name] = new BY <1>5
<1> QED BY <1>1, <1>4, <1>5, <1>6, <1>7 DEF Appended

(* An append keeps the files in order.                                     *)
LEMMA AppendKeeps ==
    ASSUME NEW f, NEW l \in Seq(Entry), NEW day \in Nat, day >= 1, WellKept(f, l, day),
           NEW e \in Entry, NEW g, g = AppendAuditEntry(f, day, e),
           NEW m, m = Append(l, e)
    PROVE  WellKept(g, m, day)
<1>0. Len(l) \in Nat /\ Len(m) = Len(l) + 1 BY LenProperties, AppendProperties
<1>1. PICK n \in Nat :
              /\ AuditFile(f, day) = <<day, n>>
              /\ <<day, n>> \in DOMAIN f => Len(f[<<day, n>>]) < MaxFile
              /\ FullBefore(f, day, n)
              /\ n * MaxFile <= Len(l)
  BY <1>0, FileWithRoom
<1>2. PICK name : name = <<day, n>> OBVIOUS
<1>3. name \in DOMAIN f => /\ f[name] \in Seq(Entry) /\ Len(f[name]) \in 1..MaxFile
                           /\ name[2] * MaxFile + Len(f[name]) <= Len(l)
  BY DEF WellKept
<1>4. Appended(f, g, name, e) BY <1>1, <1>2, <1>3, AppendIs
<1>5. DOMAIN g = DOMAIN f \cup {name} /\ \A x \in DOMAIN f : x # name => g[x] = f[x]
  BY <1>4 DEF Appended
<1>6. IsFiniteSet(DOMAIN g)
  <2>1. IsFiniteSet(DOMAIN f) BY DEF WellKept
  <2>2. IsFiniteSet(DOMAIN f \cup {name}) BY ONLY <2>1, FS_AddElement
  <2> QED BY ONLY <1>5, <2>2
<1>7. DOMAIN g \subseteq (1..day) \X Nat BY <1>1, <1>2, <1>5 DEF WellKept
<1>8. Len(g[name]) \in 1..MaxFile /\ n * MaxFile + Len(g[name]) <= Len(m)
  <2>1. n * MaxFile \in Nat BY <1>1, LimitsAre
  <2>2. PICK o : o = IF name \in DOMAIN f THEN Len(f[name]) ELSE 0 OBVIOUS
  <2>3. name[2] = n BY <1>2
  <2>4. o \in Nat /\ o < MaxFile /\ n * MaxFile + o <= Len(l)
    <3>1. CASE name \in DOMAIN f BY <1>1, <1>2, <1>3, <2>2, <2>3, <3>1, LimitsAre
    <3>2. CASE name \notin DOMAIN f BY <1>0, <1>1, <2>1, <2>2, <3>2, LimitsAre
    <3> QED BY <3>1, <3>2
  <2>5. Len(g[name]) = o + 1 BY <1>4, <2>2 DEF Appended
  <2> QED BY ONLY <1>0, <2>1, <2>4, <2>5, LimitsAre
<1>9. ASSUME NEW x \in DOMAIN g, NEW k \in 0..(x[2] - 1)
      PROVE  <<x[1], k>> \in DOMAIN g /\ Len(g[<<x[1], k>>]) = MaxFile
  <2>1. <<x[1], k>> \in DOMAIN f /\ Len(f[<<x[1], k>>]) = MaxFile
    <3>1. CASE x = name
      <4>1. x[1] = day /\ x[2] = n BY <1>2, <3>1
      <4> QED BY <1>1, <1>9, <4>1 DEF FullBefore
    <3>2. CASE x # name
      <4>1. x \in DOMAIN f BY <1>5, <3>2
      <4> QED BY <1>9, <4>1 DEF WellKept
    <3> QED BY <3>1, <3>2
  <2>2. <<x[1], k>> # name
    <3>1. name \in DOMAIN f => Len(f[name]) # MaxFile
      BY <1>1, <1>2, <1>3, LimitsAre
    <3> QED BY <2>1, <3>1
  <2> QED BY <1>5, <2>1, <2>2
<1>10. ASSUME NEW x \in DOMAIN g
       PROVE  /\ g[x] \in Seq(Entry) /\ Len(g[x]) \in 1..MaxFile
              /\ x[2] * MaxFile + Len(g[x]) <= Len(m)
  <2>1. CASE x = name
    <3>1. x[2] = n BY <1>2, <2>1
    <3>2. g[name] \in Seq(Entry) BY <1>4 DEF Appended
    <3> QED BY <1>8, <2>1, <3>1, <3>2
  <2>2. CASE x # name
    <3>1. x \in DOMAIN f /\ g[x] = f[x] BY <1>5, <2>2
    <3>2. /\ f[x] \in Seq(Entry) /\ Len(f[x]) \in 1..MaxFile
          /\ x[2] * MaxFile + Len(f[x]) <= Len(l)
      BY <3>1 DEF WellKept
    <3>3. x[2] \in Nat BY <1>7
    <3>4. x[2] * MaxFile \in Nat BY <3>3, LimitsAre
    <3>5. Len(f[x]) \in Nat BY <3>2, LimitsAre
    <3>6. x[2] * MaxFile + Len(f[x]) <= Len(m) BY ONLY <1>0, <3>2, <3>4, <3>5
    <3> QED BY <3>1, <3>2, <3>6
  <2> QED BY <2>1, <2>2
<1> QED BY <1>6, <1>7, <1>9, <1>10 DEF WellKept

-----------------------------------------------------------------------------
(* Where the entries of a log are.                                         *)

(* Entry i of the log l is at place[i]; what is logged later is newer, and *)
(* there is nothing else.                                                  *)
Placed(f, l, place) ==
    /\ place \in [1..Len(l) -> Positions(f)]
    /\ \A i \in 1..Len(l) : l[i] = f[place[i][1]][place[i][2]]
    /\ \A i, j \in 1..Len(l) : i < j => Newer(place[j], place[i])
    /\ \A p \in Positions(f) : \E i \in 1..Len(l) : place[i] = p

LEMMA PositionIs ==
    ASSUME NEW f, NEW p
    PROVE  p \in Positions(f) <=>
              /\ p = <<p[1], p[2]>>
              /\ p[1] \in DOMAIN f /\ p[2] \in DOMAIN f[p[1]]
<1>1. ASSUME p \in Positions(f)
      PROVE  p = <<p[1], p[2]>> /\ p[1] \in DOMAIN f /\ p[2] \in DOMAIN f[p[1]]
  <2>1. PICK name \in DOMAIN f : p \in {name} \X DOMAIN f[name] BY <1>1 DEF Positions
  <2> QED BY <2>1
<1>2. ASSUME p = <<p[1], p[2]>>, p[1] \in DOMAIN f, p[2] \in DOMAIN f[p[1]]
      PROVE  p \in Positions(f)
  <2>1. p \in {p[1]} \X DOMAIN f[p[1]] BY <1>2
  <2> QED BY <1>2, <2>1 DEF Positions
<1> QED BY <1>1, <1>2

(* Names are numbers, so that of two different positions one is newer.     *)
Numbers(f) ==
    \A p \in Positions(f) : RecencyKey(p[1]) \in Int /\ p[2] \in Int

LEMMA NamesAreNumbers ==
    ASSUME NEW f, NEW l, NEW day \in Nat, WellKept(f, l, day)
    PROVE  Numbers(f)
<1> SUFFICES ASSUME NEW p \in Positions(f)
             PROVE  RecencyKey(p[1]) \in Int /\ p[2] \in Int
  BY DEF Numbers
<1>1. p[1] \in DOMAIN f /\ p[2] \in DOMAIN f[p[1]] BY PositionIs
<1>2. p[1] \in (1..day) \X Nat /\ f[p[1]] \in Seq(Entry) BY <1>1 DEF WellKept
<1>3. p[1][1] \in Int /\ p[1][2] \in Int BY <1>2
<1>4. p[2] \in Int BY <1>1, <1>2, LenProperties
<1> QED BY <1>3, <1>4 DEF RecencyKey

LEMMA NewerIsAnOrder ==
    ASSUME NEW f, Numbers(f), NEW p \in Positions(f), NEW q \in Positions(f)
    PROVE  /\ ~Newer(p, p)
           /\ Newer(p, q) => ~Newer(q, p)
           /\ Newer(p, q) => RecencyKey(p[1]) >= RecencyKey(q[1])
<1>1. /\ RecencyKey(p[1]) \in Int /\ p[2] \in Int
      /\ RecencyKey(q[1]) \in Int /\ q[2] \in Int
  BY DEF Numbers
<1>2. PICK a, b : a = RecencyKey(p[1]) /\ b = RecencyKey(q[1]) OBVIOUS
<1>3. a \in Int /\ b \in Int /\ (p[1] = q[1] => a = b) BY <1>1, <1>2
<1>4. Newer(p, q) <=> a > b \/ (p[1] = q[1] /\ p[2] > q[2]) BY <1>2 DEF Newer
<1>5. Newer(q, p) <=> b > a \/ (q[1] = p[1] /\ q[2] > p[2]) BY <1>2 DEF Newer
<1>6. Newer(p, p) <=> a > a \/ p[2] > p[2] BY <1>2 DEF Newer
<1> QED BY ONLY <1>1, <1>2, <1>3, <1>4, <1>5, <1>6

(* The positions of newer entries.                                         *)
NewerThan(f, p) == {q \in Positions(f) : Newer(q, p)}

(* So many entries are newer than the i-th.                                *)
LEMMA NewerThanPlace ==
    ASSUME NEW f, NEW l, NEW place, Len(l) \in Nat, Placed(f, l, place), Numbers(f),
           NEW i \in 1..Len(l)
    PROVE  /\ IsFiniteSet(NewerThan(f, place[i]))
           /\ Cardinality(NewerThan(f, place[i])) = Len(l) - i
<1>1. PICK n, N : n = Len(l) /\ N = NewerThan(f, place[i]) OBVIOUS
<1>2. n \in Nat /\ i \in 1..n BY <1>1
<1>3. \A j \in 1..n : place[j] \in Positions(f) BY <1>1 DEF Placed
<1>4. PICK h : h = [j \in (i + 1)..n |-> place[j]] OBVIOUS
<1>5. h \in [(i + 1)..n -> N]
  <2>1. ASSUME NEW j \in (i + 1)..n PROVE place[j] \in N
    <3>1. j \in 1..n /\ i < j BY <1>2
    <3>2. Newer(place[j], place[i]) BY <1>1, <1>2, <3>1 DEF Placed
    <3> QED BY <1>1, <1>3, <3>1, <3>2 DEF NewerThan
  <2> QED BY <1>4, <2>1
<1>6. ASSUME NEW x \in (i + 1)..n, NEW y \in (i + 1)..n, h[x] = h[y] PROVE x = y
  <2>1. place[x] = place[y] BY <1>4, <1>6
  <2>2. x \in 1..n /\ y \in 1..n BY <1>2
  <2>3. ~Newer(place[x], place[x]) BY <1>3, <2>2, NewerIsAnOrder
  <2>4. ~(x < y) /\ ~(y < x) BY <1>1, <2>1, <2>2, <2>3 DEF Placed
  <2> QED BY <2>2, <2>4
<1>7. ASSUME NEW q \in N PROVE \E x \in (i + 1)..n : h[x] = q
  <2>1. q \in Positions(f) /\ Newer(q, place[i]) BY <1>1 DEF NewerThan
  <2>2. PICK j \in 1..n : place[j] = q BY <1>1, <2>1 DEF Placed
  <2>3. ~(j < i) /\ j # i
    <3>1. ~Newer(place[i], q) /\ q # place[i] BY <1>2, <1>3, <2>1, NewerIsAnOrder
    <3> QED BY <1>1, <1>2, <2>2, <3>1 DEF Placed
  <2>4. j \in (i + 1)..n BY <1>2, <2>3
  <2> QED BY <1>4, <2>2, <2>4
<1>8. IsFiniteSet((i + 1)..n) /\ Cardinality((i + 1)..n) = n - i
  <2>1. i + 1 \in Int /\ n \in Int BY <1>2
  <2>2. /\ IsFiniteSet((i + 1)..n)
        /\ Cardinality((i + 1)..n) = IF i + 1 > n THEN 0 ELSE n - (i + 1) + 1
    BY ONLY <2>1, FS_Interval
  <2> QED BY ONLY <1>2, <2>2
<1>9. IsFiniteSet(N)
  <2>2. h \in Surjection((i + 1)..n, N) BY <1>5, <1>7 DEF Surjection
  <2> QED BY <1>8, <2>2, FS_Surjection
<1>10. Cardinality((i + 1)..n) = Cardinality(N)
  <2>1. PICK D : D = (i + 1)..n OBVIOUS
  <2>2. /\ h \in [D -> N]
        /\ \A x, y \in D : h[x] = h[y] => x = y
        /\ \A q \in N : \E x \in D : h[x] = q
    BY <1>5, <1>6, <1>7, <2>1
  <2>3. Cardinality(D) = Cardinality(N) BY ONLY <1>9, <2>2, SameCount
  <2> QED BY <2>1, <2>3
<1> QED BY <1>1, <1>8, <1>9, <1>10

(* However many files are left unread, the last limit entries are read.    *)
LEMMA LoadIs ==
    ASSUME NEW f, NEW l \in Seq(Entry), NEW place, Placed(f, l, place), Numbers(f),
           IsFiniteSet(Positions(f)), Cardinality(Positions(f)) = Len(l),
           NEW limit \in Nat
    PROVE  LoadRecent(f, limit) = LastOf(l, limit)
<1> DEFINE all == Positions(f)
           above(p) == {q \in all : RecencyKey(q[1]) > RecencyKey(p[1])}
           newer(p) == NewerThan(f, p)
<1>1. PICK n : n = Len(l) OBVIOUS
<1>2. n \in Nat BY <1>1, LenProperties
<1>3. PICK read : read = ReadFor(f, limit) OBVIOUS
<1>4. read = {p \in all : Cardinality(above(p)) < limit} BY <1>3 DEF ReadFor
<1>5. /\ \A i \in 1..n : place[i] \in all /\ l[i] = f[place[i][1]][place[i][2]]
      /\ \A p \in all : \E i \in 1..n : place[i] = p
      /\ \A i, j \in 1..n : i < j => Newer(place[j], place[i])
  BY <1>1 DEF Placed
<1>6. \A p, q \in all : /\ RecencyKey(p[1]) \in Int
                        /\ Newer(p, q) => RecencyKey(p[1]) >= RecencyKey(q[1])
  BY NewerIsAnOrder DEF Numbers
<1>7. \A i \in 1..n : Cardinality(newer(place[i])) = n - i
  BY <1>1, <1>2, NewerThanPlace
<1>8. ASSUME NEW p \in all
      PROVE  /\ above(p) \subseteq newer(p)
             /\ IsFiniteSet(above(p)) /\ Cardinality(above(p)) \in Nat
             /\ IsFiniteSet(newer(p)) /\ Cardinality(above(p)) <= Cardinality(newer(p))
  <2>1. above(p) \subseteq newer(p) BY DEF Newer, NewerThan
  <2>2. newer(p) \subseteq all BY DEF NewerThan
  <2> HIDE DEF above, newer
  <2>3. IsFiniteSet(newer(p)) BY <2>2, FS_Subset
  <2>4. IsFiniteSet(above(p)) /\ Cardinality(above(p)) <= Cardinality(newer(p))
    BY <2>1, <2>3, FS_Subset
  <2>5. Cardinality(above(p)) \in Nat BY <2>4, FS_CardinalityType
  <2> QED BY <2>1, <2>3, <2>4, <2>5
(* What is newer than something read is read.                              *)
<1>9. ASSUME NEW p \in read, NEW q \in all, Newer(q, p) PROVE q \in read
  <2>1. p \in all /\ Cardinality(above(p)) < limit BY <1>4
  <2>2. above(q) \subseteq above(p)
    <3>1. RecencyKey(q[1]) >= RecencyKey(p[1]) BY <1>6, <1>9, <2>1
    <3>2. ASSUME NEW x \in all, RecencyKey(x[1]) > RecencyKey(q[1])
          PROVE  RecencyKey(x[1]) > RecencyKey(p[1])
      BY <1>6, <2>1, <3>1, <3>2
    <3> QED BY <3>2
  <2>3. Cardinality(above(q)) < limit
    <3> HIDE DEF above
    <3>1. Cardinality(above(q)) <= Cardinality(above(p)) BY <1>8, <2>1, <2>2, FS_Subset
    <3>2. Cardinality(above(q)) \in Nat /\ Cardinality(above(p)) \in Nat BY <1>8, <2>1
    <3> QED BY <2>1, <3>1, <3>2
  <2> QED BY <1>4, <2>3
<1>10. ASSUME NEW p \in read PROVE {q \in read : Newer(q, p)} = newer(p)
  <2>1. read \subseteq all BY <1>4
  <2> QED BY <1>9, <2>1 DEF NewerThan
<1>11. ASSUME NEW i \in 1..n, n - i < limit PROVE place[i] \in read
  <2>1. place[i] \in all BY <1>5
  <2>2. Cardinality(above(place[i])) <= n - i BY <1>7, <1>8, <2>1
  <2>3. Cardinality(above(place[i])) \in Nat BY <1>8, <2>1
  <2>4. Cardinality(above(place[i])) < limit
    <3> HIDE DEF above
    <3> QED BY <1>2, <1>11, <2>2, <2>3
  <2> QED BY <1>4, <2>1, <2>4
<1>12. PICK count : count = Min({limit, Cardinality(read)}) OBVIOUS
<1>13. PICK r : r = Cardinality(read) OBVIOUS
<1>14. r \in Nat /\ IsFiniteSet(read) /\ r <= n
  <2>1. read \subseteq all BY <1>4
  <2> HIDE DEF all
  <2>2. IsFiniteSet(all) /\ Cardinality(all) = n BY <1>1 DEF all
  <2>3. IsFiniteSet(read) /\ Cardinality(read) <= n BY <2>1, <2>2, FS_Subset
  <2> QED BY <1>13, <2>3, FS_CardinalityType
<1>15. PICK m : m = IF limit <= n THEN limit ELSE n OBVIOUS
<1>16. m \in Nat /\ m <= n /\ m <= limit BY <1>2, <1>15
(* The last m are read, so as many are.                                    *)
<1>17. m <= r
  <2>1. PICK T : T = {place[i] : i \in (n - m + 1)..n} OBVIOUS
  <2>2. T \subseteq read
    <3>1. ASSUME NEW i \in (n - m + 1)..n PROVE place[i] \in read
      <4>1. i \in 1..n /\ n - i < limit BY <1>2, <1>16
      <4> QED BY <1>11, <4>1
    <3> QED BY <2>1, <3>1
  <2>3. PICK h : h = [i \in (n - m + 1)..n |-> place[i]] OBVIOUS
  <2>4. h \in [(n - m + 1)..n -> T] /\ \A t \in T : \E i \in (n - m + 1)..n : h[i] = t
    BY <2>1, <2>3
  <2>5. ASSUME NEW x \in (n - m + 1)..n, NEW y \in (n - m + 1)..n, h[x] = h[y] PROVE x = y
    <3>1. x \in 1..n /\ y \in 1..n /\ place[x] = place[y] BY <1>2, <1>16, <2>3, <2>5
    <3>2. Cardinality(newer(place[x])) = n - x /\ Cardinality(newer(place[y])) = n - y
      BY <1>7, <3>1
    <3>3. n - x = n - y BY <3>1, <3>2
    <3> QED BY ONLY <1>2, <3>1, <3>3
  <2>6. IsFiniteSet(T) /\ Cardinality(T) <= r BY <1>13, <1>14, <2>2, FS_Subset
  <2>7. Cardinality((n - m + 1)..n) = Cardinality(T)
    <3>1. PICK D : D = (n - m + 1)..n OBVIOUS
    <3>2. /\ h \in [D -> T]
          /\ \A x, y \in D : h[x] = h[y] => x = y
          /\ \A t \in T : \E x \in D : h[x] = t
      BY <2>4, <2>5, <3>1
    <3>3. IsFiniteSet(T) BY <2>6
    <3>4. Cardinality(D) = Cardinality(T) BY ONLY <3>2, <3>3, SameCount
    <3> QED BY <3>1, <3>4
  <2>8. Cardinality((n - m + 1)..n) = m
    <3>1. n - m + 1 \in Int /\ n \in Int BY <1>2, <1>16
    <3>2. Cardinality((n - m + 1)..n) = IF n - m + 1 > n THEN 0 ELSE n - (n - m + 1) + 1
      BY ONLY <3>1, FS_Interval
    <3> QED BY ONLY <1>2, <1>16, <3>2
  <2> QED BY <2>6, <2>7, <2>8
<1>18. count = m
  <2>1. count = IF limit <= r THEN limit ELSE r BY <1>12, <1>13, <1>14, MinOfTwo
  <2> QED BY <1>2, <1>14, <1>15, <1>17, <2>1
<1> DEFINE Nth(k) == WithNewer(read, m - k)
<1>19. LoadRecent(f, limit) = [k \in 1..m |-> f[Nth(k)[1]][Nth(k)[2]]]
  BY <1>3, <1>12, <1>18 DEF LoadRecent
<1>20. ASSUME NEW k \in 1..m PROVE Nth(k) = place[n - m + k]
  <2>1. PICK i : i = n - m + k OBVIOUS
  <2>2. i \in 1..n /\ n - i < limit /\ n - i = m - k BY <1>2, <1>16, <2>1
  <2>3. place[i] \in read BY <1>11, <2>2
  <2>4. \A p \in read : Cardinality({q \in read : Newer(q, p)}) = Cardinality(newer(p))
    BY <1>10
  <2>5. Cardinality({q \in read : Newer(q, place[i])}) = m - k BY <1>7, <2>2, <2>3, <2>4
  <2>6. ASSUME NEW p \in read, Cardinality({q \in read : Newer(q, p)}) = m - k
        PROVE  p = place[i]
    <3>1. p \in all BY <1>4
    <3>2. PICK j \in 1..n : place[j] = p BY <1>5, <3>1
    <3>3. Cardinality(newer(p)) = n - j BY <1>7, <3>2
    <3>4. n - j = m - k BY <2>4, <2>6, <3>3
    <3>5. j = i BY <1>2, <2>2, <3>2, <3>4
    <3> QED BY <3>2, <3>5
  <2>7. Nth(k) \in read /\ Cardinality({q \in read : Newer(q, Nth(k))}) = m - k
    BY <2>3, <2>5 DEF WithNewer
  <2> HIDE DEF Nth
  <2> QED BY <2>1, <2>6, <2>7
<1> HIDE DEF Nth
<1>21. ASSUME NEW k \in 1..m PROVE f[Nth(k)[1]][Nth(k)[2]] = l[n - m + k]
  <2>1. n - m + k \in 1..n BY <1>2, <1>16
  <2> QED BY <1>5, <1>20, <2>1
<1>22. LoadRecent(f, limit) = [k \in 1..m |-> l[n - m + k]] BY <1>19, <1>21
<1>23. LastOf(l, limit) = [k \in 1..m |-> l[n - m + k]]
  <2>1. PICK t : t = LastOf(l, limit) OBVIOUS
  <2>2. /\ t \in Seq(Entry) /\ Len(t) = m
        /\ \A k \in 1..Len(t) : t[k] = l[n - Len(t) + k]
    BY <1>1, <1>15, <2>1, LastOfProperties
  <2>3. t = [k \in 1..m |-> t[k]]
    <3>1. DOMAIN t = 1..m /\ t \in [1..m -> Entry] BY <2>2, LenProperties
    <3> QED BY <3>1
  <2> QED BY <2>1, <2>2, <2>3
<1> QED BY <1>22, <1>23

(* As many positions as entries.                                           *)
LEMMA PositionsCount ==
    ASSUME NEW f, NEW l, NEW place, Len(l) \in Nat, Placed(f, l, place), Numbers(f)
    PROVE  IsFiniteSet(Positions(f)) /\ Cardinality(Positions(f)) = Len(l)
<1>1. PICK n, all, D : n = Len(l) /\ all = Positions(f) /\ D = 1..n OBVIOUS
<1>2. /\ place \in [D -> all]
      /\ \A p \in all : \E i \in D : place[i] = p
      /\ \A i, j \in D : i < j => Newer(place[j], place[i])
  BY <1>1 DEF Placed
<1>3. ASSUME NEW x \in D, NEW y \in D, place[x] = place[y] PROVE x = y
  <2>1. place[x] \in all BY <1>2
  <2>2. ~Newer(place[x], place[x]) BY <1>1, <2>1, NewerIsAnOrder
  <2>3. ~(x < y) /\ ~(y < x) BY <1>2, <1>3, <2>2
  <2> QED BY <1>1, <2>3
<1>4. IsFiniteSet(D) /\ Cardinality(D) = n
  <2>1. 1 \in Int /\ n \in Int /\ n \in Nat BY <1>1
  <2>2. /\ IsFiniteSet(1..n)
        /\ Cardinality(1..n) = IF 1 > n THEN 0 ELSE n - 1 + 1
    BY ONLY <2>1, FS_Interval
  <2> QED BY ONLY <1>1, <2>1, <2>2
<1>5. IsFiniteSet(all)
  <2>1. place \in Surjection(D, all) BY <1>2 DEF Surjection
  <2> QED BY ONLY <1>4, <2>1, FS_Surjection
<1>6. \A x, y \in D : place[x] = place[y] => x = y BY <1>3
<1>7. place \in [D -> all] /\ \A p \in all : \E i \in D : place[i] = p BY <1>2
<1>8. Cardinality(D) = Cardinality(all) BY ONLY <1>5, <1>6, <1>7, SameCount
<1> QED BY <1>1, <1>4, <1>5, <1>8

(* An appended entry is newer than all others: its file is the last of its *)
(* day, if the files of a day are fewer than a recency key tells apart.    *)
LEMMA AppendIsNewest ==
    ASSUME NEW f, NEW l \in Seq(Entry), NEW day \in Nat, WellKept(f, l, day),
           Len(l) < 1000 * MaxFile,
           NEW n \in Nat, FullBefore(f, day, n), n * MaxFile <= Len(l),
           <<day, n>> \in DOMAIN f => Len(f[<<day, n>>]) < MaxFile,
           NEW x \in DOMAIN f, x # <<day, n>>
    PROVE  RecencyKey(<<day, n>>) > RecencyKey(x)
<1>1. x \in (1..day) \X Nat BY DEF WellKept
<1>2. PICK d, k : d = x[1] /\ k = x[2] OBVIOUS
<1>3. d \in Nat /\ d <= day /\ k \in Nat /\ x = <<d, k>> BY <1>1, <1>2
<1>4. k < 1000
  <2>1. /\ Len(f[x]) \in 1..MaxFile /\ k * MaxFile + Len(f[x]) <= Len(l)
    BY <1>2 DEF WellKept
  <2>2. PICK a : a = Len(f[x]) OBVIOUS
  <2>3. a \in Nat BY <2>1, <2>2, LimitsAre
  <2>4. k * MaxFile \in Nat BY <1>3, LimitsAre
  <2>5. Len(l) \in Nat BY LenProperties
  <2>6. k * MaxFile < 1000 * MaxFile BY <2>1, <2>2, <2>3, <2>4, <2>5, LimitsAre
  <2>7. ASSUME k >= 1000 PROVE FALSE
    <3>1. k * MaxFile >= 1000 * MaxFile
      <4>1. PICK j : j = k - 1000 OBVIOUS
      <4>2. j \in Nat /\ k = 1000 + j BY <1>3, <2>7, <4>1
      <4>3. j * MaxFile \in Nat BY <4>2, LimitsAre
      <4>4. (1000 + j) * MaxFile = 1000 * MaxFile + j * MaxFile BY ONLY <4>2, LimitsAre
      <4> QED BY ONLY <4>2, <4>3, <4>4, LimitsAre
    <3> QED BY <2>4, <2>6, <3>1, LimitsAre
  <2> QED BY <1>3, <2>7
<1>5. d = day => k < n
  <2> SUFFICES ASSUME d = day, k >= n PROVE FALSE BY <1>3
  <2>1. k # n BY <1>3
  <2>2. n \in 0..(k - 1) BY <1>3, <2>1
  <2>3. <<day, n>> \in DOMAIN f /\ Len(f[<<day, n>>]) = MaxFile
    BY <1>2, <2>2 DEF WellKept
  <2> QED BY <2>3, LimitsAre
<1>6. RecencyKey(<<day, n>>) = day * 1000 + n /\ RecencyKey(x) = d * 1000 + k
  BY <1>3 DEF RecencyKey
<1> QED BY ONLY <1>3, <1>4, <1>5, <1>6

(* So the places of a log are those it had, and one.                       *)
LEMMA AppendIsPlaced ==
    ASSUME NEW f, NEW l \in Seq(Entry), NEW day \in Nat, WellKept(f, l, day),
           Len(l) < 1000 * MaxFile, NEW place, Placed(f, l, place),
           NEW e \in Entry, NEW g, g = AppendAuditEntry(f, day, e),
           NEW m, m = Append(l, e)
    PROVE  \E there : Placed(g, m, there)
<1>0. /\ Len(l) \in Nat /\ Len(m) = Len(l) + 1
      /\ \A i \in 1..Len(l) : m[i] = l[i]
      /\ m[Len(l) + 1] = e
  BY LenProperties, AppendProperties
<1>1. PICK n \in Nat :
              /\ AuditFile(f, day) = <<day, n>>
              /\ <<day, n>> \in DOMAIN f => Len(f[<<day, n>>]) < MaxFile
              /\ FullBefore(f, day, n)
              /\ n * MaxFile <= Len(l)
  BY <1>0, FileWithRoom
<1>2. PICK name : name = <<day, n>> OBVIOUS
<1>3. \A x \in DOMAIN f : f[x] \in Seq(Entry) BY DEF WellKept
<1>4. Appended(f, g, name, e) BY <1>1, <1>2, <1>3, AppendIs
<1>5. /\ DOMAIN g = DOMAIN f \cup {name}
      /\ \A x \in DOMAIN f : x # name => g[x] = f[x]
      /\ g[name] \in Seq(Entry) /\ g[name][Len(g[name])] = e
      /\ name \in DOMAIN f => /\ Len(g[name]) = Len(f[name]) + 1
                              /\ \A i \in 1..Len(f[name]) : g[name][i] = f[name][i]
      /\ name \notin DOMAIN f => Len(g[name]) = 1
  BY <1>4 DEF Appended
<1>6. PICK last : last = Len(g[name]) OBVIOUS
<1>7. PICK new : new = <<name, last>> OBVIOUS
<1>8. new[1] = name /\ new[2] = last /\ last \in Nat /\ last >= 1 /\ last \in DOMAIN g[name]
  <2>1. last \in Nat /\ DOMAIN g[name] = 1..last BY <1>5, <1>6, LenProperties
  <2>2. name \in DOMAIN f => Len(f[name]) \in Nat BY <1>3, LenProperties
  <2>3. last >= 1 BY <1>5, <1>6, <2>2
  <2> QED BY <1>7, <2>1, <2>3
<1>9. new \in Positions(g) BY <1>5, <1>7, <1>8, PositionIs
<1>10. ASSUME NEW p \in Positions(f)
       PROVE  /\ p \in Positions(g) /\ g[p[1]][p[2]] = f[p[1]][p[2]]
              /\ Newer(new, p)
  <2>1. p = <<p[1], p[2]>> /\ p[1] \in DOMAIN f /\ p[2] \in DOMAIN f[p[1]] BY PositionIs
  <2>2. CASE p[1] = name
    <3>1. DOMAIN f[name] = 1..Len(f[name]) /\ Len(f[name]) \in Nat
      BY <1>3, <2>1, <2>2, LenProperties
    <3>2. p[2] \in 1..Len(f[name]) /\ last = Len(f[name]) + 1 BY <1>5, <1>6, <2>1, <2>2, <3>1
    <3>3. DOMAIN g[name] = 1..last BY <1>5, <1>6, LenProperties
    <3>4. p[2] \in DOMAIN g[name] /\ g[name][p[2]] = f[name][p[2]]
      BY <1>5, <2>1, <2>2, <3>1, <3>2, <3>3
    <3>5. p \in Positions(g) BY <1>5, <2>1, <2>2, <3>4, PositionIs
    <3>6. Newer(new, p) BY <1>8, <2>2, <3>1, <3>2 DEF Newer
    <3> QED BY <2>2, <3>4, <3>5, <3>6
  <2>3. CASE p[1] # name
    <3>1. g[p[1]] = f[p[1]] /\ p[1] \in DOMAIN g BY <1>5, <2>1, <2>3
    <3>2. p \in Positions(g) BY <2>1, <3>1, PositionIs
    <3>3. RecencyKey(name) > RecencyKey(p[1])
      BY <1>1, <1>2, <2>1, <2>3, AppendIsNewest
    <3>4. Newer(new, p) BY <1>8, <3>3 DEF Newer
    <3> QED BY <3>1, <3>2, <3>4
  <2> QED BY <2>2, <2>3
<1>11. ASSUME NEW p \in Positions(g), p # new PROVE p \in Positions(f)
  <2>1. p = <<p[1], p[2]>> /\ p[1] \in DOMAIN g /\ p[2] \in DOMAIN g[p[1]] BY PositionIs
  <2>2. CASE p[1] = name
    <3>1. p[2] \in 1..last /\ p[2] # last
      <4>1. DOMAIN g[name] = 1..last BY <1>5, <1>6, LenProperties
      <4> QED BY <1>7, <1>11, <2>1, <2>2, <4>1
    <3>2. name \in DOMAIN f BY <1>5, <1>6, <3>1
    <3>3. last = Len(f[name]) + 1 /\ Len(f[name]) \in Nat /\ DOMAIN f[name] = 1..Len(f[name])
      BY <1>3, <1>5, <1>6, <3>2, LenProperties
    <3>4. p[2] \in DOMAIN f[name] BY <3>1, <3>3
    <3> QED BY <2>1, <2>2, <3>2, <3>4, PositionIs
  <2>3. CASE p[1] # name
    <3>1. p[1] \in DOMAIN f /\ g[p[1]] = f[p[1]] BY <1>5, <2>1, <2>3
    <3> QED BY <2>1, <3>1, PositionIs
  <2> QED BY <2>2, <2>3
<1>12. PICK c : c = Len(l) OBVIOUS
<1>13. c \in Nat /\ Len(m) = c + 1 BY <1>0, <1>12
<1>14. /\ \A i \in 1..c : place[i] \in Positions(f) /\ l[i] = f[place[i][1]][place[i][2]]
       /\ \A i, j \in 1..c : i < j => Newer(place[j], place[i])
       /\ \A p \in Positions(f) : \E i \in 1..c : place[i] = p
  BY <1>12 DEF Placed
<1>15. PICK there : there = [i \in 1..(c + 1) |-> IF i = c + 1 THEN new ELSE place[i]] OBVIOUS
<1>16. there[c + 1] = new /\ \A i \in 1..c : there[i] = place[i] BY <1>13, <1>15
<1>17. there \in [1..(c + 1) -> Positions(g)]
  <2>1. ASSUME NEW i \in 1..(c + 1) PROVE there[i] \in Positions(g)
    <3>1. CASE i = c + 1 BY <1>9, <1>16, <3>1
    <3>2. CASE i # c + 1
      <4>1. i \in 1..c BY <1>13, <3>2
      <4> QED BY <1>10, <1>14, <1>16, <4>1
    <3> QED BY <3>1, <3>2
  <2> QED BY <1>15, <2>1
<1>18. ASSUME NEW i \in 1..(c + 1) PROVE m[i] = g[there[i][1]][there[i][2]]
  <2>1. CASE i = c + 1
    <3>1. g[new[1]][new[2]] = e BY <1>5, <1>6, <1>8
    <3> QED BY <1>0, <1>12, <1>16, <2>1, <3>1
  <2>2. CASE i # c + 1
    <3>1. i \in 1..c BY <1>13, <2>2
    <3>2. m[i] = l[i] /\ there[i] = place[i] BY <1>0, <1>12, <1>16, <3>1
    <3> QED BY <1>10, <1>14, <3>1, <3>2
  <2> QED BY <2>1, <2>2
<1>19. ASSUME NEW i \in 1..(c + 1), NEW j \in 1..(c + 1), i < j
       PROVE  Newer(there[j], there[i])
  <2>1. i \in 1..c BY <1>13, <1>19
  <2>2. CASE j = c + 1 BY <1>10, <1>14, <1>16, <2>1, <2>2
  <2>3. CASE j # c + 1
    <3>1. j \in 1..c BY <1>13, <2>3
    <3> QED BY <1>14, <1>16, <1>19, <2>1, <3>1
  <2> QED BY <2>2, <2>3
<1>20. ASSUME NEW p \in Positions(g) PROVE \E i \in 1..(c + 1) : there[i] = p
  <2>1. CASE p = new
    <3>1. c + 1 \in 1..(c + 1) BY <1>13
    <3> QED BY <1>16, <2>1, <3>1
  <2>2. CASE p # new
    <3>1. PICK i \in 1..c : place[i] = p BY <1>11, <1>14, <2>2
    <3>2. i \in 1..(c + 1) BY <1>13
    <3> QED BY <1>16, <3>1, <3>2
  <2> QED BY <2>1, <2>2
<1>21. Placed(g, m, there) BY <1>13, <1>17, <1>18, <1>19, <1>20 DEF Placed
<1> QED BY <1>21

-----------------------------------------------------------------------------
(* The files and logs of all directories, through one write.               *)

LogsKept(D, L) ==
    /\ DOMAIN D = Places
    /\ L \in [Places -> Seq(Entry)]
    /\ \A d \in Places : WellKept(D[d], L[d], today)

(* A write that is made appends to the files and to the log of a place.    *)
LEMMA WriteIsMade ==
    ASSUME NEW D, NEW L, DOMAIN D = Places, L \in [Places -> Seq(Entry)],
           NEW d \in Places, NEW e,
           NEW E, E = Saved(D, Write(d, e)), NEW M, M = Noted(L, Write(d, e))
    PROVE  /\ DOMAIN E = Places /\ DOMAIN M = Places
           /\ E[d] = AppendAuditEntry(D[d], today, e) /\ M[d] = Append(L[d], e)
           /\ \A p \in Places : p # d => E[p] = D[p] /\ M[p] = L[p]
<1>1. PICK w : w = Write(d, e) OBVIOUS
<1>2. w # <<>> /\ w[1].dir = d /\ w[1].entry = e BY <1>1, WriteIs
<1>3. E = [D EXCEPT ![d] = AppendAuditEntry(@, today, e)] BY <1>1, <1>2 DEF Saved
<1>4. M = [L EXCEPT ![d] = Append(@, e)] BY <1>1, <1>2 DEF Noted
<1> QED BY <1>3, <1>4

LEMMA NoWrite ==
    ASSUME NEW D, NEW L
    PROVE  Saved(D, <<>>) = D /\ Noted(L, <<>>) = L
BY DEF Saved, Noted

LEMMA WriteKeepsLogs ==
    ASSUME NEW D, NEW L, LogsKept(D, L), today \in Nat, today >= 1, NEW w \in Writes,
           NEW E, E = Saved(D, w), NEW M, M = Noted(L, w)
    PROVE  LogsKept(E, M)
<1>1. CASE w = <<>> BY <1>1, NoWrite
<1>2. ASSUME NEW d \in Places, NEW e \in Entry, w = Write(d, e) PROVE LogsKept(E, M)
  <2>1. DOMAIN D = Places /\ L \in [Places -> Seq(Entry)] BY DEF LogsKept
  <2>2. /\ DOMAIN E = Places /\ DOMAIN M = Places
        /\ E[d] = AppendAuditEntry(D[d], today, e) /\ M[d] = Append(L[d], e)
        /\ \A p \in Places : p # d => E[p] = D[p] /\ M[p] = L[p]
    BY <1>2, <2>1, WriteIsMade
  <2>3. L[d] \in Seq(Entry) /\ WellKept(D[d], L[d], today) BY DEF LogsKept
  <2>4. WellKept(E[d], M[d], today) BY <2>2, <2>3, AppendKeeps
  <2>5. M[d] \in Seq(Entry) BY <2>2, <2>3, AppendProperties
  <2>6. ASSUME NEW p \in Places PROVE WellKept(E[p], M[p], today) /\ M[p] \in Seq(Entry)
    <3>1. CASE p = d BY <2>4, <2>5, <3>1
    <3>2. CASE p # d
      <4>1. E[p] = D[p] /\ M[p] = L[p] BY <2>2, <3>2
      <4>2. WellKept(D[p], L[p], today) /\ L[p] \in Seq(Entry) BY DEF LogsKept
      <4> QED BY <4>1, <4>2
    <3> QED BY <3>1, <3>2
  <2>7. M \in [Places -> Seq(Entry)]
    <3>1. M = [p \in Places |-> M[p]]
      <4>1. M = Noted(L, w) /\ w # <<>> BY <1>2, WriteIs
      <4>2. M = [L EXCEPT ![w[1].dir] = Append(@, w[1].entry)] BY <4>1 DEF Noted
      <4> QED BY <2>1, <4>2
    <3> QED BY <2>6, <3>1
  <2> QED BY <2>2, <2>6, <2>7 DEF LogsKept
<1> QED BY <1>1, <1>2 DEF Writes

(* Where the entries of all logs are, and which of them tell of a block.   *)
LEMMA LoggedIs ==
    ASSUME NEW L, NEW p
    PROVE  p \in Logged(L) <=>
              p = <<p[1], p[2]>> /\ p[1] \in DOMAIN L /\ p[2] \in DOMAIN L[p[1]]
<1>1. ASSUME p \in Logged(L)
      PROVE  p = <<p[1], p[2]>> /\ p[1] \in DOMAIN L /\ p[2] \in DOMAIN L[p[1]]
  <2>1. PICK d \in DOMAIN L : p \in {d} \X DOMAIN L[d] BY <1>1 DEF Logged
  <2> QED BY <2>1
<1>2. ASSUME p = <<p[1], p[2]>>, p[1] \in DOMAIN L, p[2] \in DOMAIN L[p[1]]
      PROVE  p \in Logged(L)
  <2>1. p \in {p[1]} \X DOMAIN L[p[1]] BY <1>2
  <2> QED BY <1>2, <2>1 DEF Logged
<1> QED BY <1>1, <1>2

LEMMA WriteIsLogged ==
    ASSUME NEW L \in [Places -> Seq(Entry)], NEW d \in Places, NEW e \in Entry,
           NEW M, DOMAIN M = Places, M[d] = Append(L[d], e),
           \A p \in Places : p # d => M[p] = L[p],
           NEW x, x = <<d, Len(L[d]) + 1>>
    PROVE  /\ x \notin Logged(L)
           /\ Logged(M) = Logged(L) \cup {x}
           /\ BlockedIn(M) = IF e.blocked THEN BlockedIn(L) \cup {x} ELSE BlockedIn(L)
<1>1. PICK n : n = Len(L[d]) OBVIOUS
<1>2. n \in Nat /\ DOMAIN L[d] = 1..n BY <1>1, LenProperties
<1>3. /\ M[d] \in Seq(Entry) /\ Len(M[d]) = n + 1
      /\ \A i \in 1..n : M[d][i] = L[d][i]
      /\ M[d][n + 1] = e
  <2>1. L[d] \in Seq(Entry) OBVIOUS
  <2> QED BY <1>1, <2>1, AppendProperties
<1>4. DOMAIN M[d] = 1..(n + 1) BY <1>2, <1>3, LenProperties
<1>5. x[1] = d /\ x[2] = n + 1 /\ x = <<x[1], x[2]>> BY <1>1
<1>6. x \notin Logged(L)
  <2>1. n + 1 \notin DOMAIN L[d] BY <1>2
  <2> QED BY <1>5, <2>1, LoggedIs
<1>7. ASSUME NEW p \in Logged(L) PROVE p \in Logged(M) /\ M[p[1]][p[2]] = L[p[1]][p[2]]
  <2>1. p = <<p[1], p[2]>> /\ p[1] \in DOMAIN L /\ p[2] \in DOMAIN L[p[1]] BY LoggedIs
  <2>2. CASE p[1] = d
    <3>1. p[2] \in 1..n BY <1>2, <2>1, <2>2
    <3>2. p[2] \in DOMAIN M[d] /\ M[d][p[2]] = L[d][p[2]] BY <1>2, <1>3, <1>4, <3>1
    <3> QED BY <2>1, <2>2, <3>2, LoggedIs
  <2>3. CASE p[1] # d
    <3>1. M[p[1]] = L[p[1]] BY <2>1, <2>3
    <3> QED BY <2>1, <3>1, LoggedIs
  <2> QED BY <2>2, <2>3
<1>8. x \in Logged(M) /\ M[x[1]][x[2]] = e
  <2>1. n + 1 \in DOMAIN M[d] BY <1>2, <1>4
  <2> QED BY <1>3, <1>5, <2>1, LoggedIs
<1>9. ASSUME NEW p \in Logged(M), p # x PROVE p \in Logged(L)
  <2>1. p = <<p[1], p[2]>> /\ p[1] \in DOMAIN M /\ p[2] \in DOMAIN M[p[1]] BY LoggedIs
  <2>2. CASE p[1] = d
    <3>1. p[2] # n + 1 BY <1>5, <1>9, <2>1, <2>2
    <3>2. p[2] \in DOMAIN L[d] BY <1>2, <1>4, <2>1, <2>2, <3>1
    <3> QED BY <2>1, <2>2, <3>2, LoggedIs
  <2>3. CASE p[1] # d
    <3>1. M[p[1]] = L[p[1]] BY <2>1, <2>3
    <3> QED BY <2>1, <3>1, LoggedIs
  <2> QED BY <2>2, <2>3
<1>10. Logged(M) = Logged(L) \cup {x} BY <1>7, <1>8, <1>9
<1>11. ASSUME NEW p
       PROVE  p \in BlockedIn(M) <=> p \in BlockedIn(L) \/ (p = x /\ e.blocked)
  <2>1. CASE p = x BY <1>6, <1>8, <2>1 DEF BlockedIn
  <2>2. CASE p # x /\ p \in Logged(L) BY <1>7, <2>2 DEF BlockedIn
  <2>3. CASE p # x /\ p \notin Logged(L) BY <1>10, <2>3 DEF BlockedIn
  <2> QED BY <2>1, <2>2, <2>3
<1> QED BY <1>6, <1>10, <1>11

(* No log is longer than all are.                                          *)
LEMMA LogsAreShort ==
    ASSUME NEW L \in [Places -> Seq(Entry)], IsFiniteSet(Logged(L)), NEW d \in Places
    PROVE  /\ Len(L[d]) \in Nat /\ Cardinality(Logged(L)) \in Nat
           /\ Len(L[d]) <= Cardinality(Logged(L))
<1>1. PICK n, D : n = Len(L[d]) /\ D = 1..n OBVIOUS
<1>2. n \in Nat /\ DOMAIN L[d] = 1..n BY <1>1, LenProperties
<1>3. PICK T : T = {<<d, i>> : i \in D} OBVIOUS
<1>4. T \subseteq Logged(L)
  <2>1. ASSUME NEW i \in D PROVE <<d, i>> \in Logged(L)
    <3>1. <<d, i>>[1] = d /\ <<d, i>>[2] = i OBVIOUS
    <3> QED BY <1>1, <1>2, <3>1, LoggedIs
  <2> QED BY <1>3, <2>1
<1>5. IsFiniteSet(T) /\ Cardinality(T) <= Cardinality(Logged(L)) BY <1>4, FS_Subset
<1>6. PICK h : h = [i \in D |-> <<d, i>>] OBVIOUS
<1>7. /\ h \in [D -> T]
      /\ \A x, y \in D : h[x] = h[y] => x = y
      /\ \A t \in T : \E x \in D : h[x] = t
  BY <1>3, <1>6
<1>8. Cardinality(D) = Cardinality(T) BY ONLY <1>5, <1>7, SameCount
<1>9. Cardinality(D) = n
  <2>1. 1 \in Int /\ n \in Int BY <1>2
  <2>2. Cardinality(1..n) = IF 1 > n THEN 0 ELSE n - 1 + 1 BY ONLY <2>1, FS_Interval
  <2> QED BY ONLY <1>1, <1>2, <2>2
<1>10. Cardinality(Logged(L)) \in Nat BY FS_CardinalityType
<1> QED BY <1>1, <1>2, <1>5, <1>8, <1>9, <1>10

-----------------------------------------------------------------------------
(* Types and files.                                                        *)

KeptInv == TypeOK /\ LogsKept(dirs, log) /\ lost \in Nat

(* What a call writes: what the hooks would, or not all of it.             *)
Missed(s, c, g, r) ==
    Len(GuardEntries(s, c) \o RunEntries(s, c)) - Len(g \o r)

Told(s, c, g, r) == IF RunEntries(s, c) # <<>> THEN r # <<>> ELSE g # <<>>

CallWrites(s, c, g, r) ==
    /\ g \in {GuardEntries(s, c), <<>>} /\ r \in {RunEntries(s, c), <<>>}
    /\ lost + Missed(s, c, g, r) <= MaxLost /\ lost' = lost + Missed(s, c, g, r)
    /\ dirs' = Saved(Saved(dirs, g), r) /\ log' = Noted(Noted(log, g), r)
    /\ blocks' = IF ~Runs(s, c) /\ Told(s, c, g, r) THEN blocks + 1 ELSE blocks

LEMMA CallsWrite ==
    ASSUME NEW s, NEW c, BeforeToolCall(s, c)
    PROVE  \E g, r : CallWrites(s, c, g, r)
<1>1. PICK g \in {GuardEntries(s, c), <<>>}, r \in {RunEntries(s, c), <<>>} :
         /\ lost + Missed(s, c, g, r) <= MaxLost /\ lost' = lost + Missed(s, c, g, r)
         /\ dirs' = Saved(Saved(dirs, g), r) /\ log' = Noted(Noted(log, g), r)
         /\ blocks' = IF ~Runs(s, c) /\ Told(s, c, g, r) THEN blocks + 1 ELSE blocks
  BY DEF BeforeToolCall, Missed, Told
<1> QED BY <1>1 DEF CallWrites

LEMMA RunIs ==
    ASSUME TypeOK
    PROVE  run.workspace \in Workspaces \cup {Nowhere}
BY DEF TypeOK

(* Each hook writes what it wants to, or nothing.                          *)
LEMMA WritesAre ==
    ASSUME TypeOK, NEW s, NEW c \in Calls, NEW g, NEW r, CallWrites(s, c, g, r)
    PROVE  /\ g \in Writes /\ r \in Writes
           /\ Missed(s, c, g, r) \in Nat
           /\ Missed(s, c, g, r) = 0 => g = GuardEntries(s, c) /\ r = RunEntries(s, c)
<1>1. PICK G, R : G = GuardEntries(s, c) /\ R = RunEntries(s, c) OBVIOUS
<1>2. g \in {G, <<>>} /\ r \in {R, <<>>} BY <1>1 DEF CallWrites
<1>3. G = <<>> \/ \E d \in Places, e \in Entry : G = Write(d, e) BY <1>1, GuardWrites
<1>4. R = <<>> \/ \E d \in Places, e \in Entry : R = Write(d, e)
  BY <1>1, RunIs, RunWrites, HomeIsAPlace
<1>5. G \in Writes /\ R \in Writes /\ <<>> \in Writes BY <1>3, <1>4 DEF Writes
<1>6. ASSUME NEW w \in Writes
      PROVE  w \in Seq([dir : Places, entry : Entry]) /\ (w = <<>> \/ Len(w) = 1)
  <2>1. CASE w = <<>>
    <3>1. <<>> \in Seq([dir : Places, entry : Entry]) OBVIOUS
    <3> QED BY <2>1, <3>1
  <2>2. ASSUME NEW d \in Places, NEW e \in Entry, w = Write(d, e)
        PROVE  w \in Seq([dir : Places, entry : Entry]) /\ (w = <<>> \/ Len(w) = 1)
    <3>1. [dir |-> d, entry |-> e] \in [dir : Places, entry : Entry] OBVIOUS
    <3> QED BY <2>2, <3>1 DEF Write
  <2>3. w = <<>> \/ \E d \in Places, e \in Entry : w = Write(d, e) BY DEF Writes
  <2> QED BY <2>1, <2>2, <2>3
<1>7. g \in Writes /\ r \in Writes BY <1>2, <1>5
<1>8. PICK T : T = [dir : Places, entry : Entry] OBVIOUS
<1>9. G \in Seq(T) /\ R \in Seq(T) /\ g \in Seq(T) /\ r \in Seq(T)
  BY <1>5, <1>6, <1>7, <1>8
<1>10. /\ Len(G \o R) = Len(G) + Len(R) /\ Len(g \o r) = Len(g) + Len(r)
  BY ONLY <1>9, ConcatProperties
<1>11. PICK a, b, x, y : a = Len(G) /\ b = Len(R) /\ x = Len(g) /\ y = Len(r) OBVIOUS
<1>12. Missed(s, c, g, r) = a + b - (x + y) BY <1>1, <1>10, <1>11 DEF Missed
<1>13. /\ a \in {0, 1} /\ (x = a \/ x = 0) /\ (g # G => x = 0 /\ a = 1)
  <2>1. G = <<>> \/ Len(G) = 1 BY <1>5, <1>6
  <2>2. Len(<<>>) = 0 OBVIOUS
  <2> QED BY <1>2, <1>11, <2>1, <2>2
<1>14. /\ b \in {0, 1} /\ (y = b \/ y = 0) /\ (r # R => y = 0 /\ b = 1)
  <2>1. R = <<>> \/ Len(R) = 1 BY <1>5, <1>6
  <2>2. Len(<<>>) = 0 OBVIOUS
  <2> QED BY <1>2, <1>11, <2>1, <2>2
<1>15. Missed(s, c, g, r) \in Nat /\ (Missed(s, c, g, r) = 0 => g = G /\ r = R)
  BY ONLY <1>12, <1>13, <1>14
<1> QED BY <1>1, <1>7, <1>15

(* The list in memory stays within its cap.                                *)
LEMMA RememberKeepsCap ==
    ASSUME NEW list \in Seq(Entry), Len(list) <= MaxAudit, NEW e \in Entry
    PROVE  /\ Remember(list, <<>>) = list
           /\ Remember(list, <<e>>) \in Seq(Entry)
           /\ Len(Remember(list, <<e>>)) <= MaxAudit
<1>1. list \o <<>> = list BY ConcatEmptySeq
<1>2. Remember(list, <<>>) = list BY <1>1 DEF Remember
<1>3. PICK n, all : n = Len(list) /\ all = list \o <<e>> OBVIOUS
<1>4. all = Append(list, e) BY <1>3, AppendIsConcat
<1>5. all \in Seq(Entry) /\ Len(all) = n + 1 /\ n \in Nat
  BY <1>3, <1>4, AppendProperties, LenProperties
<1>6. <<e>> # <<>> OBVIOUS
<1>7. CASE n >= MaxAudit
  <2>1. Remember(list, <<e>>) = SubSeq(all, Len(all) - MaxAudit + 1, Len(all))
    BY <1>3, <1>6, <1>7 DEF Remember
  <2>2. n = MaxAudit BY <1>3, <1>5, <1>7, LimitsAre
  <2>3. PICK k, m : k = Len(all) - MaxAudit + 1 /\ m = Len(all) OBVIOUS
  <2>4. k = 2 /\ m = MaxAudit + 1 /\ m \in Int /\ k \in Int BY <1>5, <2>2, <2>3, LimitsAre
  <2>5. \A i \in k..m : all[i] \in Entry BY <1>5, <2>3, <2>4, ElementOfSeq
  <2>6. /\ SubSeq(all, k, m) \in Seq(Entry)
        /\ Len(SubSeq(all, k, m)) = IF k <= m THEN m - k + 1 ELSE 0
    BY ONLY <2>4, <2>5, SubSeqProperties
  <2>7. Len(SubSeq(all, k, m)) <= MaxAudit BY <2>4, <2>6, LimitsAre
  <2> QED BY <1>2, <2>1, <2>3, <2>6, <2>7
<1>8. CASE ~(n >= MaxAudit)
  <2>1. Remember(list, <<e>>) = all BY <1>3, <1>8 DEF Remember
  <2>2. n + 1 <= MaxAudit BY <1>5, <1>8, LimitsAre
  <2> QED BY <1>2, <1>5, <2>1, <2>2
<1> QED BY <1>7, <1>8

(* What a call adds to the run's list.                                     *)
LEMMA CallAdds ==
    ASSUME TypeOK, NEW s, NEW c \in Calls, BeforeToolCall(s, c)
    PROVE  \/ /\ RunEntries(s, c) = <<>>
              /\ audit' = audit /\ recorded' = recorded
           \/ \E e \in Entry :
                 /\ RunEntries(s, c) = Write(HomeLog, e) /\ e.by = "run"
                 /\ audit' = Remember(audit, <<e>>) /\ recorded' = Append(recorded, e)
<1>1. PICK R : R = RunEntries(s, c) OBVIOUS
<1>2. audit' = Remember(audit, Entries(R)) /\ recorded' = recorded \o Entries(R)
  BY <1>1 DEF BeforeToolCall
<1>3. recorded \in Seq(Entry) /\ audit \in Seq(Entry) /\ Len(audit) <= MaxAudit BY DEF TypeOK
<1>4. CASE R = <<>>
  <2>1. Entries(<<>>) = <<>> BY DEF Entries
  <2>2. recorded \o <<>> = recorded BY ONLY <1>3, ConcatEmptySeq
  <2>3. Remember(audit, <<>>) = audit
    <3>1. audit \o <<>> = audit BY ONLY <1>3, ConcatEmptySeq
    <3> QED BY <3>1 DEF Remember
  <2> QED BY <1>1, <1>2, <1>4, <2>1, <2>2, <2>3
<1>5. ASSUME NEW e \in Entry, R = Write(HomeLog, e), e.by = "run"
      PROVE  audit' = Remember(audit, <<e>>) /\ recorded' = Append(recorded, e)
  <2>1. Entries(R) = <<e>> BY <1>5, WriteIs
  <2>2. recorded \o <<e>> = Append(recorded, e) BY ONLY <1>3, <1>5, AppendIsConcat
  <2> QED BY <1>2, <2>1, <2>2
<1> QED BY <1>1, <1>4, <1>5, RunIs, RunWrites

(* The files of a day that is over stay as they are.                       *)
LEMMA KeptOvernight ==
    ASSUME NEW f, NEW l, NEW day \in Nat, WellKept(f, l, day)
    PROVE  WellKept(f, l, day + 1)
<1>1. (1..day) \X Nat \subseteq (1..(day + 1)) \X Nat OBVIOUS
<1>2. DOMAIN f \subseteq (1..(day + 1)) \X Nat BY <1>1 DEF WellKept
<1> QED BY <1>2 DEF WellKept

LEMMA KeptAtFirst == Init => KeptInv
<1> SUFFICES ASSUME Init PROVE KeptInv OBVIOUS
<1>1. DOMAIN NoFiles = {} BY DEF NoFiles
<1>2. WellKept(NoFiles, <<>>, 1)
  <2>1. IsFiniteSet({}) BY FS_EmptySet
  <2> QED BY <1>1, <2>1 DEF WellKept
<1>3. <<>> \in Seq(Entry) /\ Len(<<>>) = 0 OBVIOUS
<1>4. dirs = [d \in Places |-> NoFiles] /\ log = [d \in Places |-> <<>>] /\ today = 1
  BY DEF Init
<1>5. LogsKept(dirs, log) BY <1>2, <1>3, <1>4 DEF LogsKept
<1>6. NoRun \in [is : {"none", "on", "paused"}, session : Sessions \cup {NoSession},
                 workspace : Workspaces \cup {Nowhere}, destructiveGit : BOOLEAN]
  BY DEF NoRun
<1>7. /\ today \in 1..MaxDay
      /\ pending \in [Sessions -> 0..MaxPending]
      /\ lost \in Nat
  BY <1>4, LimitsAre DEF Init
<1>8. \A d \in Places : \A name \in DOMAIN dirs[d] :
         dirs[d][name] \in Seq(Entry) /\ Len(dirs[d][name]) \in 1..MaxFile
  BY <1>1, <1>4
<1>9. TypeOK
  <2>1. audit \in Seq(Entry) /\ Len(audit) <= MaxAudit /\ recorded \in Seq(Entry)
    BY <1>3, LimitsAre DEF Init
  <2>2. run = NoRun /\ marked \in BOOLEAN BY DEF Init
  <2>3. log \in [Places -> Seq(Entry)] BY <1>3, <1>4
  <2> QED BY <1>6, <1>7, <1>8, <2>1, <2>2, <2>3 DEF TypeOK
<1> QED BY <1>5, <1>7, <1>9 DEF KeptInv

(* Both writes of a call keep the files and the logs.                      *)
LEMMA CallKeepsLogs ==
    ASSUME KeptInv, NEW s, NEW c \in Calls, BeforeToolCall(s, c)
    PROVE  LogsKept(dirs', log') /\ lost' \in Nat
<1>1. TypeOK /\ LogsKept(dirs, log) /\ lost \in Nat BY DEF KeptInv
<1>2. today \in Nat /\ today >= 1 BY <1>1, LimitsAre DEF TypeOK
<1>3. PICK g, r : CallWrites(s, c, g, r) BY CallsWrite
<1>4. g \in Writes /\ r \in Writes /\ Missed(s, c, g, r) \in Nat BY <1>1, <1>3, WritesAre
<1>5. PICK D, L : D = Saved(dirs, g) /\ L = Noted(log, g) OBVIOUS
<1>6. LogsKept(D, L) BY <1>1, <1>2, <1>4, <1>5, WriteKeepsLogs
<1>7. PICK E, M : E = Saved(D, r) /\ M = Noted(L, r) OBVIOUS
<1>8. LogsKept(E, M) BY <1>2, <1>4, <1>6, <1>7, WriteKeepsLogs
<1>9. dirs' = E /\ log' = M /\ lost' = lost + Missed(s, c, g, r)
  BY <1>3, <1>5, <1>7 DEF CallWrites
<1> QED BY <1>1, <1>4, <1>8, <1>9

LEMMA CallKeeps ==
    ASSUME KeptInv, NEW s \in Sessions \cup {NoSession}, NEW c \in Calls,
           BeforeToolCall(s, c)
    PROVE  KeptInv'
<1>1. TypeOK BY DEF KeptInv
<1>2. today' = today /\ run' = run BY DEF BeforeToolCall
<1>3. LogsKept(dirs', log') /\ lost' \in Nat BY CallKeepsLogs
<1>4. LogsKept(dirs, log)' BY <1>2, <1>3 DEF LogsKept
<1>5. \A d \in Places : \A name \in DOMAIN dirs'[d] :
         dirs'[d][name] \in Seq(Entry) /\ Len(dirs'[d][name]) \in 1..MaxFile
  BY <1>3 DEF LogsKept, WellKept
<1>6. log' \in [Places -> Seq(Entry)] BY <1>3 DEF LogsKept
<1>7. audit' \in Seq(Entry) /\ Len(audit') <= MaxAudit /\ recorded' \in Seq(Entry)
  <2>1. audit \in Seq(Entry) /\ Len(audit) <= MaxAudit /\ recorded \in Seq(Entry)
    BY <1>1 DEF TypeOK
  <2>2. CASE audit' = audit /\ recorded' = recorded BY <2>1, <2>2
  <2>3. ASSUME NEW e \in Entry, audit' = Remember(audit, <<e>>),
               recorded' = Append(recorded, e)
        PROVE  audit' \in Seq(Entry) /\ Len(audit') <= MaxAudit /\ recorded' \in Seq(Entry)
    <3>1. Remember(audit, <<e>>) \in Seq(Entry) /\ Len(Remember(audit, <<e>>)) <= MaxAudit
      BY <2>1, RememberKeepsCap
    <3>2. Append(recorded, e) \in Seq(Entry) BY <2>1, AppendProperties
    <3> QED BY <2>3, <3>1, <3>2
  <2> QED BY <1>1, <2>2, <2>3, CallAdds
<1>8. marked' \in BOOLEAN BY DEF BeforeToolCall
<1>9. pending' \in [Sessions -> 0..MaxPending]
  <2>1. pending \in [Sessions -> 0..MaxPending] BY <1>1 DEF TypeOK
  <2>2. CASE Runs(s, c)
    <3>1. s \in Sessions BY <2>2 DEF Runs
    <3>2. pending[s] < MaxPending /\ pending' = [pending EXCEPT ![s] = pending[s] + 1]
      BY <2>2 DEF BeforeToolCall
    <3>3. pending[s] + 1 \in 0..MaxPending BY <2>1, <3>1, <3>2, LimitsAre
    <3> QED BY <2>1, <3>2, <3>3
  <2>3. CASE ~Runs(s, c) BY <2>1, <2>3 DEF BeforeToolCall
  <2> QED BY <2>2, <2>3
<1>10. TypeOK'
  <2>1. today' \in 1..MaxDay BY <1>1, <1>2 DEF TypeOK
  <2>2. run' \in [is : {"none", "on", "paused"}, session : Sessions \cup {NoSession},
                  workspace : Workspaces \cup {Nowhere}, destructiveGit : BOOLEAN]
    BY <1>1, <1>2 DEF TypeOK
  <2> QED BY <1>5, <1>6, <1>7, <1>8, <1>9, <2>1, <2>2 DEF TypeOK
<1> QED BY <1>3, <1>4, <1>10 DEF KeptInv

(* What is left alone by every step but a call and the change of the day.  *)
LEMMA OthersKeep ==
    ASSUME KeptInv, UNCHANGED <<today, dirs, log, lost>>,
           run' \in [is : {"none", "on", "paused"}, session : Sessions \cup {NoSession},
                     workspace : Workspaces \cup {Nowhere}, destructiveGit : BOOLEAN],
           audit' \in {audit, <<>>}, recorded' \in {recorded, <<>>},
           marked' \in BOOLEAN, pending' \in [Sessions -> 0..MaxPending]
    PROVE  KeptInv'
<1>1. TypeOK /\ LogsKept(dirs, log) /\ lost \in Nat BY DEF KeptInv
<1>2. LogsKept(dirs, log)' BY <1>1 DEF LogsKept
<1>3. <<>> \in Seq(Entry) /\ Len(<<>>) <= MaxAudit BY LimitsAre
<1>4. audit' \in Seq(Entry) /\ Len(audit') <= MaxAudit /\ recorded' \in Seq(Entry)
  BY <1>1, <1>3 DEF TypeOK
<1>5. /\ today' \in 1..MaxDay /\ log' \in [Places -> Seq(Entry)]
      /\ \A d \in Places : \A name \in DOMAIN dirs'[d] :
            dirs'[d][name] \in Seq(Entry) /\ Len(dirs'[d][name]) \in 1..MaxFile
  BY <1>1 DEF TypeOK
<1>6. TypeOK' BY <1>4, <1>5 DEF TypeOK
<1> QED BY <1>1, <1>2, <1>6 DEF KeptInv

LEMMA KeptAtEveryStep == KeptInv /\ [Next]_vars => KeptInv'
<1> SUFFICES ASSUME KeptInv, [Next]_vars PROVE KeptInv' OBVIOUS
<1> DEFINE Record == [is : {"none", "on", "paused"}, session : Sessions \cup {NoSession},
                      workspace : Workspaces \cup {Nowhere}, destructiveGit : BOOLEAN]
<1>1. TypeOK /\ LogsKept(dirs, log) /\ lost \in Nat BY DEF KeptInv
<1>2. run \in Record /\ marked \in BOOLEAN /\ pending \in [Sessions -> 0..MaxPending]
  BY <1>1 DEF TypeOK
<1>3. ASSUME NEW s \in Sessions \cup {NoSession}, NEW c \in Calls, BeforeToolCall(s, c)
      PROVE  KeptInv'
  BY <1>3, CallKeeps
<1>4. ASSUME NEW s \in Sessions, AfterToolCall(s) PROVE KeptInv'
  <2>1. pending' \in [Sessions -> 0..MaxPending]
    <3>1. pending[s] \in 0..MaxPending /\ pending[s] > 0 /\
          pending' = [pending EXCEPT ![s] = pending[s] - 1]
      BY <1>2, <1>4 DEF AfterToolCall
    <3>2. pending[s] - 1 \in 0..MaxPending BY <3>1, LimitsAre
    <3> QED BY <1>2, <3>1, <3>2
  <2>2. marked' \in BOOLEAN /\ run' = run /\ audit' = audit /\ recorded' = recorded
        /\ UNCHANGED <<today, dirs, log, lost>>
    BY <1>4 DEF AfterToolCall
  <2> QED BY <1>2, <2>1, <2>2, OthersKeep
<1>5. ASSUME NEW s \in Sessions, AgentEnd(s) PROVE KeptInv'
  <2>1. pending' \in [Sessions -> 0..MaxPending]
    <3>1. 0 \in 0..MaxPending BY LimitsAre
    <3> QED BY <1>2, <1>5, <3>1 DEF AgentEnd
  <2>2. marked' \in BOOLEAN /\ run' = run /\ audit' = audit /\ recorded' = recorded
        /\ UNCHANGED <<today, dirs, log, lost>>
    BY <1>5 DEF AgentEnd
  <2> QED BY <1>2, <2>1, <2>2, OthersKeep
<1>6. ASSUME NEW s \in Sessions, NEW u \in Setups, Activate(s, u) PROVE KeptInv'
  <2>1. u.workspace \in Workspaces /\ u.destructiveGit \in BOOLEAN
    BY GuardAssumption DEF Workspaces
  <2>2. run' \in Record BY <1>6, <2>1 DEF Activate
  <2>3. marked' = FALSE /\ audit' = <<>> /\ recorded' = <<>> /\ pending' = pending
        /\ UNCHANGED <<today, dirs, log, lost>>
    BY <1>6 DEF Activate
  <2> QED BY <1>2, <2>2, <2>3, OthersKeep
<1>7. CASE Pause \/ Resume
  <2>1. run' = [run EXCEPT !.is = "paused"] \/ run' = [run EXCEPT !.is = "on"]
    BY <1>7 DEF Pause, Resume
  <2>2. run' \in Record BY <1>2, <2>1
  <2>3. marked' \in {marked, FALSE} /\ audit' = audit /\ recorded' = recorded
        /\ pending' = pending /\ UNCHANGED <<today, dirs, log, lost>>
    BY <1>7 DEF Pause, Resume
  <2> QED BY <1>2, <2>2, <2>3, OthersKeep
<1>8. CASE Restart
  <2>1. NoRun \in Record BY DEF NoRun
  <2>2. run' \in Record BY <1>2, <1>8, <2>1 DEF Restart
  <2>3. pending' \in [Sessions -> 0..MaxPending] BY <1>8, LimitsAre DEF Restart
  <2>4. marked' = FALSE /\ audit' = <<>> /\ recorded' = <<>>
        /\ UNCHANGED <<today, dirs, log, lost>>
    BY <1>8 DEF Restart
  <2> QED BY <2>2, <2>3, <2>4, OthersKeep
<1>9. CASE NextDay
  <2>1. /\ today < MaxDay /\ today' = today + 1
        /\ UNCHANGED <<dirs, run, audit, marked, pending, log, recorded, blocks, lost>>
    BY <1>9 DEF NextDay
  <2>2. today \in 1..MaxDay BY <1>1 DEF TypeOK
  <2>3. today \in Nat /\ today + 1 \in 1..MaxDay BY <2>1, <2>2, LimitsAre
  <2>4. \A d \in Places : WellKept(dirs'[d], log'[d], today')
    <3>1. \A d \in Places : WellKept(dirs[d], log[d], today + 1)
      BY <1>1, <2>3, KeptOvernight DEF LogsKept
    <3> QED BY <2>1, <3>1
  <2>5. LogsKept(dirs, log)' BY <1>1, <2>1, <2>4 DEF LogsKept
  <2>6. TypeOK'
    <3>1. today' \in 1..MaxDay BY <2>1, <2>3
    <3> QED BY <1>1, <2>1, <3>1 DEF TypeOK
  <2> QED BY <1>1, <2>1, <2>5, <2>6 DEF KeptInv
<1>10. CASE UNCHANGED vars
  <2>1. UNCHANGED <<today, dirs, run, audit, marked, pending, log, recorded, lost>>
    BY <1>10 DEF vars
  <2> QED BY <1>2, <2>1, OthersKeep
<1> QED BY <1>3, <1>4, <1>5, <1>6, <1>7, <1>8, <1>9, <1>10 DEF Next

LEMMA LogsAreKept == Spec => []KeptInv
BY KeptAtFirst, KeptAtEveryStep, PTL DEF Spec

(* Whatever is called, whichever entries cannot be written and however the *)
(* days go by, no file outgrows its cap and the list in memory never holds *)
(* more than MAX_AUDIT entries.                                            *)
THEOREM GuardIsTyped == Spec => []TypeOK
<1>1. KeptInv => TypeOK BY DEF KeptInv
<1> QED BY <1>1, LogsAreKept, PTL

-----------------------------------------------------------------------------
(* Of a blocked call one entry tells, whichever hook blocked it.           *)

TellsOfBlock(w) == w # <<>> /\ w[1].entry.blocked

LEMMA OneHookTells ==
    ASSUME TypeOK, NEW s, NEW c \in Calls, NEW g, NEW r, CallWrites(s, c, g, r)
    PROVE  /\ ~(TellsOfBlock(g) /\ TellsOfBlock(r))
           /\ TellsOfBlock(g) \/ TellsOfBlock(r) <=> ~Runs(s, c) /\ Told(s, c, g, r)
<1>1. PICK G, R : G = GuardEntries(s, c) /\ R = RunEntries(s, c) OBVIOUS
<1>2. g \in {G, <<>>} /\ r \in {R, <<>>} BY <1>1 DEF CallWrites
<1>3. Told(s, c, g, r) <=> IF R # <<>> THEN r # <<>> ELSE g # <<>> BY <1>1 DEF Told
<1>4. ~TellsOfBlock(<<>>) BY DEF TellsOfBlock
<1>5. Guarded(s) => s # NoSession BY GuardAssumption DEF Guarded
<1>6. JudgedByRun(s) => s # NoSession BY DEF JudgedByRun
<1>7. Runs(s, c) <=> /\ s # NoSession
                     /\ Guarded(s) => ~GuardBlocks(c)
                     /\ JudgedByRun(s) => ~RunBlocks(c)
  BY DEF Runs
<1>8. \/ G = <<>> /\ ~(Guarded(s) /\ GuardBlocks(c))
      \/ G # <<>> /\ Guarded(s) /\ (TellsOfBlock(G) <=> GuardBlocks(c))
  <2>1. ASSUME NEW d \in Places, NEW e \in Entry, G = Write(d, e),
               e.blocked <=> GuardBlocks(c)
        PROVE  G # <<>> /\ (TellsOfBlock(G) <=> GuardBlocks(c))
    BY <2>1, WriteIs DEF TellsOfBlock
  <2> QED BY <1>1, <2>1, GuardWrites
<1>9. \/ R = <<>> /\ (~JudgedByRun(s) \/ (Guarded(s) /\ GuardBlocks(c)))
      \/ /\ R # <<>> /\ JudgedByRun(s) /\ ~(Guarded(s) /\ GuardBlocks(c))
         /\ TellsOfBlock(R) <=> RunBlocks(c)
  <2>1. ASSUME NEW e \in Entry, R = Write(HomeLog, e), e.blocked <=> RunBlocks(c)
        PROVE  R # <<>> /\ (TellsOfBlock(R) <=> RunBlocks(c))
    BY <2>1, WriteIs DEF TellsOfBlock
  <2> QED BY <1>1, <2>1, RunIs, RunWrites
<1>10. CASE R # <<>>
  <2>1. ~Runs(s, c) <=> RunBlocks(c) BY <1>6, <1>7, <1>9, <1>10
  <2>2. ~TellsOfBlock(g) BY <1>2, <1>4, <1>8, <1>9, <1>10
  <2>3. TellsOfBlock(r) <=> r # <<>> /\ RunBlocks(c) BY <1>2, <1>4, <1>9, <1>10
  <2> QED BY <1>3, <1>10, <2>1, <2>2, <2>3
<1>11. CASE R = <<>>
  <2>1. r = <<>> BY <1>2, <1>11
  <2>2. G # <<>> => (~Runs(s, c) <=> GuardBlocks(c)) BY <1>5, <1>7, <1>8, <1>9, <1>11
  <2>3. TellsOfBlock(g) <=> g # <<>> /\ GuardBlocks(c) BY <1>2, <1>4, <1>8
  <2> QED BY <1>2, <1>3, <1>4, <1>11, <2>1, <2>2, <2>3
<1> QED BY <1>10, <1>11

(* What one write adds to the logs and to what they tell of blocks.        *)
LEMMA WriteCounts ==
    ASSUME NEW L \in [Places -> Seq(Entry)], IsFiniteSet(Logged(L)), NEW w \in Writes,
           NEW M, M = Noted(L, w)
    PROVE  /\ IsFiniteSet(Logged(M))
           /\ Cardinality(Logged(M)) <= Cardinality(Logged(L)) + 1
           /\ Cardinality(BlockedIn(M)) =
                 Cardinality(BlockedIn(L)) + IF TellsOfBlock(w) THEN 1 ELSE 0
<1>0. PICK k : k = Cardinality(Logged(L)) /\ k \in Nat BY FS_CardinalityType
<1>1. BlockedIn(L) \subseteq Logged(L) BY DEF BlockedIn
<1>2. IsFiniteSet(BlockedIn(L)) BY <1>1, FS_Subset
<1>3. PICK n : n = Cardinality(BlockedIn(L)) OBVIOUS
<1>4. n \in Nat BY <1>2, <1>3, FS_CardinalityType
<1>5. CASE w = <<>>
  <2>1. M = L BY <1>5, NoWrite
  <2>2. ~TellsOfBlock(w) BY <1>5 DEF TellsOfBlock
  <2>3. k <= k + 1 BY <1>0
  <2> QED BY <1>0, <1>3, <1>4, <2>1, <2>2, <2>3
<1>6. ASSUME NEW d \in Places, NEW e \in Entry, w = Write(d, e)
      PROVE  /\ IsFiniteSet(Logged(M)) /\ Cardinality(Logged(M)) <= k + 1
             /\ Cardinality(BlockedIn(M)) = n + IF TellsOfBlock(w) THEN 1 ELSE 0
  <2>1. PICK D : D = [p \in Places |-> NoFiles] OBVIOUS
  <2>2. DOMAIN D = Places BY <2>1
  <2>3. /\ DOMAIN M = Places /\ M[d] = Append(L[d], e)
        /\ \A p \in Places : p # d => M[p] = L[p]
    BY <1>6, <2>2, WriteIsMade
  <2>4. PICK x : x = <<d, Len(L[d]) + 1>> OBVIOUS
  <2>5. /\ x \notin Logged(L)
        /\ Logged(M) = Logged(L) \cup {x}
        /\ BlockedIn(M) = IF e.blocked THEN BlockedIn(L) \cup {x} ELSE BlockedIn(L)
    BY <2>3, <2>4, WriteIsLogged
  <2>6. IsFiniteSet(Logged(M)) /\ Cardinality(Logged(M)) <= k + 1
    <3>1. /\ IsFiniteSet(Logged(L) \cup {x})
          /\ Cardinality(Logged(L) \cup {x}) = k + 1
      BY <1>0, <2>5, FS_AddElement
    <3> QED BY <1>0, <2>5, <3>1
  <2>7. TellsOfBlock(w) <=> e.blocked BY <1>6, WriteIs DEF TellsOfBlock
  <2>8. x \notin BlockedIn(L) BY <1>1, <2>5
  <2>9. Cardinality(BlockedIn(L) \cup {x}) = n + 1
    BY ONLY <1>2, <1>3, <2>8, FS_AddElement
  <2>10. CASE e.blocked BY <2>5, <2>6, <2>7, <2>9, <2>10
  <2>11. CASE ~e.blocked BY <1>3, <1>4, <2>5, <2>6, <2>7, <2>11
  <2> QED BY <2>10, <2>11
<1> QED BY <1>0, <1>3, <1>5, <1>6 DEF Writes

BlocksInv ==
    /\ KeptInv
    /\ IsFiniteSet(Logged(log))
    /\ BlocksAreRecordedOnce

LEMMA CallCounts ==
    ASSUME BlocksInv, NEW s, NEW c \in Calls, BeforeToolCall(s, c)
    PROVE  /\ IsFiniteSet(Logged(log'))
           /\ Cardinality(BlockedIn(log')) = blocks'
<1>1. /\ TypeOK /\ LogsKept(dirs, log) /\ IsFiniteSet(Logged(log))
      /\ Cardinality(BlockedIn(log)) = blocks
  BY DEF BlocksInv, KeptInv, BlocksAreRecordedOnce
<1>2. today \in Nat /\ today >= 1 BY <1>1, LimitsAre DEF TypeOK
<1>3. PICK g, r : CallWrites(s, c, g, r) BY CallsWrite
<1>4. g \in Writes /\ r \in Writes BY <1>1, <1>3, WritesAre
<1>5. PICK D, L : D = Saved(dirs, g) /\ L = Noted(log, g) OBVIOUS
<1>6. LogsKept(D, L) BY <1>1, <1>2, <1>4, <1>5, WriteKeepsLogs
<1>7. log \in [Places -> Seq(Entry)] /\ L \in [Places -> Seq(Entry)]
  BY <1>1, <1>6 DEF LogsKept
<1>8. /\ IsFiniteSet(Logged(L))
      /\ Cardinality(BlockedIn(L)) = blocks + IF TellsOfBlock(g) THEN 1 ELSE 0
  BY <1>1, <1>4, <1>5, <1>7, WriteCounts
<1>9. PICK M : M = Noted(L, r) OBVIOUS
<1>10. /\ IsFiniteSet(Logged(M))
       /\ Cardinality(BlockedIn(M)) =
             Cardinality(BlockedIn(L)) + IF TellsOfBlock(r) THEN 1 ELSE 0
  BY <1>4, <1>7, <1>8, <1>9, WriteCounts
<1>11. log' = M /\ blocks' = IF ~Runs(s, c) /\ Told(s, c, g, r) THEN blocks + 1 ELSE blocks
  BY <1>3, <1>5, <1>9 DEF CallWrites
<1>12. /\ ~(TellsOfBlock(g) /\ TellsOfBlock(r))
       /\ TellsOfBlock(g) \/ TellsOfBlock(r) <=> ~Runs(s, c) /\ Told(s, c, g, r)
  BY <1>1, <1>3, OneHookTells
<1>13. blocks \in Nat
  <2>1. BlockedIn(log) \subseteq Logged(log) BY DEF BlockedIn
  <2>2. IsFiniteSet(BlockedIn(log)) BY <1>1, <2>1, FS_Subset
  <2> QED BY <1>1, <2>2, FS_CardinalityType
<1>14. Cardinality(BlockedIn(M)) = blocks'
  <2>1. CASE TellsOfBlock(g) BY <1>8, <1>10, <1>11, <1>12, <1>13, <2>1
  <2>2. CASE TellsOfBlock(r) BY <1>8, <1>10, <1>11, <1>12, <1>13, <2>2
  <2>3. CASE ~TellsOfBlock(g) /\ ~TellsOfBlock(r) BY <1>8, <1>10, <1>11, <1>12, <1>13, <2>3
  <2> QED BY <2>1, <2>2, <2>3
<1> QED BY <1>10, <1>11, <1>14

LEMMA NothingIsLogged ==
    ASSUME Init
    PROVE  Logged(log) = {} /\ BlockedIn(log) = {} /\ blocks = 0 /\ lost = 0
<1>1. log = [d \in Places |-> <<>>] /\ blocks = 0 /\ lost = 0 BY DEF Init
<1>2. DOMAIN <<>> = {} OBVIOUS
<1>3. Logged(log) = {}
  <2>1. ASSUME NEW p \in Logged(log) PROVE FALSE BY <1>1, <1>2, LoggedIs
  <2> QED BY <2>1
<1> QED BY <1>1, <1>3 DEF BlockedIn

LEMMA OnlyCallsWrite ==
    ASSUME [Next]_vars
    PROVE  \/ \E s \in Sessions \cup {NoSession}, c \in Calls : BeforeToolCall(s, c)
           \/ UNCHANGED <<dirs, log, blocks, lost>>
BY DEF Next, vars, AfterToolCall, AgentEnd, Activate, Pause, Resume, Restart, NextDay

LEMMA BlocksAreKept == Spec => []BlocksInv
<1>1. Init => BlocksInv
  <2>1. ASSUME Init PROVE BlocksInv
    <3>1. KeptInv BY <2>1, KeptAtFirst
    <3> QED BY <2>1, <3>1, NothingIsLogged, FS_EmptySet DEF BlocksInv, BlocksAreRecordedOnce
  <2> QED BY <2>1
<1>2. BlocksInv /\ [Next]_vars => BlocksInv'
  <2> SUFFICES ASSUME BlocksInv, [Next]_vars PROVE BlocksInv' OBVIOUS
  <2>1. KeptInv' BY KeptAtEveryStep DEF BlocksInv
  <2>2. CASE \E s \in Sessions \cup {NoSession}, c \in Calls : BeforeToolCall(s, c)
    <3>1. IsFiniteSet(Logged(log')) /\ Cardinality(BlockedIn(log')) = blocks'
      BY <2>2, CallCounts
    <3> QED BY <2>1, <3>1 DEF BlocksInv, BlocksAreRecordedOnce
  <2>3. CASE UNCHANGED <<dirs, log, blocks, lost>>
    BY <2>1, <2>3 DEF BlocksInv, BlocksAreRecordedOnce
  <2> QED BY <2>2, <2>3, OnlyCallsWrite
<1> QED BY <1>1, <1>2, PTL DEF Spec

(* Both hooks see a call of a subagent that has a run, and either may      *)
(* block it; still each blocked call that could be written is told of by   *)
(* exactly one entry of exactly one log, and a call that runs by none.     *)
THEOREM OneEntryPerBlock == Spec => []BlocksAreRecordedOnce
<1>1. BlocksInv => BlocksAreRecordedOnce BY DEF BlocksInv
<1> QED BY <1>1, BlocksAreKept, PTL

-----------------------------------------------------------------------------
(* Every entry of a log has its place in the files, in order of age.       *)

AllPlaced(D, L) == \A d \in Places : \E place : Placed(D[d], L[d], place)

LEMMA WriteIsPlaced ==
    ASSUME NEW D, NEW L, LogsKept(D, L), today \in Nat, today >= 1, AllPlaced(D, L),
           \A d \in Places : Len(L[d]) < 1000 * MaxFile,
           NEW w \in Writes, NEW E, E = Saved(D, w), NEW M, M = Noted(L, w)
    PROVE  AllPlaced(E, M)
<1>1. CASE w = <<>> BY <1>1, NoWrite
<1>2. ASSUME NEW d \in Places, NEW e \in Entry, w = Write(d, e) PROVE AllPlaced(E, M)
  <2>1. DOMAIN D = Places /\ L \in [Places -> Seq(Entry)] BY DEF LogsKept
  <2>2. /\ DOMAIN E = Places /\ DOMAIN M = Places
        /\ E[d] = AppendAuditEntry(D[d], today, e) /\ M[d] = Append(L[d], e)
        /\ \A p \in Places : p # d => E[p] = D[p] /\ M[p] = L[p]
    BY <1>2, <2>1, WriteIsMade
  <2>3. L[d] \in Seq(Entry) /\ WellKept(D[d], L[d], today) BY DEF LogsKept
  <2>4. PICK place : Placed(D[d], L[d], place) BY DEF AllPlaced
  <2>5. Len(L[d]) < 1000 * MaxFile OBVIOUS
  <2>6. \E there : Placed(E[d], M[d], there) BY <2>2, <2>3, <2>4, <2>5, AppendIsPlaced
  <2>7. ASSUME NEW p \in Places PROVE \E there : Placed(E[p], M[p], there)
    <3>1. CASE p = d BY <2>6, <3>1
    <3>2. CASE p # d
      <4>1. E[p] = D[p] /\ M[p] = L[p] BY <2>2, <3>2
      <4> QED BY <4>1 DEF AllPlaced
    <3> QED BY <3>1, <3>2
  <2> QED BY <2>7 DEF AllPlaced
<1> QED BY <1>1, <1>2 DEF Writes

PlacedInv == BlocksInv /\ AllPlaced(dirs, log)

LEMMA CallIsPlaced ==
    ASSUME MaxEntries < 1000 * MaxFile, PlacedInv, NEW s, NEW c \in Calls,
           BeforeToolCall(s, c)
    PROVE  AllPlaced(dirs', log')
<1>1. /\ TypeOK /\ LogsKept(dirs, log) /\ IsFiniteSet(Logged(log))
      /\ AllPlaced(dirs, log) /\ lost \in Nat
  BY DEF PlacedInv, BlocksInv, KeptInv
<1>2. today \in Nat /\ today >= 1 BY <1>1, LimitsAre DEF TypeOK
<1>3. PICK g, r : CallWrites(s, c, g, r) BY CallsWrite
<1>4. g \in Writes /\ r \in Writes BY <1>1, <1>3, WritesAre
<1>5. PICK D, L : D = Saved(dirs, g) /\ L = Noted(log, g) OBVIOUS
<1>6. LogsKept(D, L) BY <1>1, <1>2, <1>4, <1>5, WriteKeepsLogs
<1>7. log \in [Places -> Seq(Entry)] /\ L \in [Places -> Seq(Entry)]
  BY <1>1, <1>6 DEF LogsKept
<1>8. PICK n, m : n = Cardinality(Logged(log)) /\ m = Cardinality(Logged(L)) OBVIOUS
<1>9. n \in Nat /\ m \in Nat /\ IsFiniteSet(Logged(L)) /\ m <= n + 1
  <2>1. IsFiniteSet(Logged(L)) /\ m <= n + 1 BY <1>1, <1>4, <1>5, <1>7, <1>8, WriteCounts
  <2> QED BY <1>1, <1>8, <2>1, FS_CardinalityType
<1>10. n + lost < MaxEntries BY <1>8 DEF BeforeToolCall, Made
<1>11. PICK cap : cap = 1000 * MaxFile OBVIOUS
<1>12. cap \in Nat /\ MaxEntries < cap BY <1>11, LimitsAre
<1>13. \A d \in Places : Len(log[d]) < cap
  <2>1. ASSUME NEW d \in Places PROVE Len(log[d]) < cap
    <3>1. Len(log[d]) \in Nat /\ Len(log[d]) <= n BY <1>1, <1>7, <1>8, LogsAreShort
    <3> QED BY <1>1, <1>9, <1>10, <1>12, <3>1, LimitsAre
  <2> QED BY <2>1
<1>14. \A d \in Places : Len(L[d]) < cap
  <2>1. ASSUME NEW d \in Places PROVE Len(L[d]) < cap
    <3>1. Len(L[d]) \in Nat /\ Len(L[d]) <= m BY <1>7, <1>8, <1>9, LogsAreShort
    <3> QED BY <1>1, <1>9, <1>10, <1>12, <3>1, LimitsAre
  <2> QED BY <2>1
<1>15. AllPlaced(D, L) BY <1>1, <1>2, <1>4, <1>5, <1>11, <1>13, WriteIsPlaced
<1>16. PICK E, M : E = Saved(D, r) /\ M = Noted(L, r) OBVIOUS
<1>17. AllPlaced(E, M) BY <1>2, <1>4, <1>6, <1>11, <1>14, <1>15, <1>16, WriteIsPlaced
<1>18. dirs' = E /\ log' = M BY <1>3, <1>5, <1>16 DEF CallWrites
<1> QED BY <1>17, <1>18

LEMMA NothingIsPlaced ==
    ASSUME Init
    PROVE  AllPlaced(dirs, log)
<1>1. dirs = [d \in Places |-> NoFiles] /\ log = [d \in Places |-> <<>>] BY DEF Init
<1>2. Positions(NoFiles) = {}
  <2>1. DOMAIN NoFiles = {} BY DEF NoFiles
  <2>2. ASSUME NEW p \in Positions(NoFiles) PROVE FALSE BY <2>1, PositionIs
  <2> QED BY <2>2
<1>3. Len(<<>>) = 0 /\ 1..0 = {} OBVIOUS
<1>4. PICK place : place = [i \in {} |-> i] OBVIOUS
<1>5. place \in [{} -> {}] BY <1>4
<1>6. Placed(NoFiles, <<>>, place) BY <1>2, <1>3, <1>5 DEF Placed
<1> QED BY <1>1, <1>6 DEF AllPlaced

LEMMA PlacedIsRead ==
    ASSUME PlacedInv
    PROVE  LoadsTheNewest
<1>1. TypeOK /\ LogsKept(dirs, log) /\ AllPlaced(dirs, log)
  BY DEF PlacedInv, BlocksInv, KeptInv
<1>2. today \in Nat BY <1>1, LimitsAre DEF TypeOK
<1>3. ASSUME NEW d \in Places PROVE LoadRecent(dirs[d], Limit) = LastOf(log[d], Limit)
  <2>1. PICK f, l : f = dirs[d] /\ l = log[d] OBVIOUS
  <2>2. l \in Seq(Entry) /\ WellKept(f, l, today) BY <1>1, <2>1 DEF LogsKept
  <2>3. PICK place : Placed(f, l, place) BY <1>1, <2>1 DEF AllPlaced
  <2>4. Numbers(f) BY <1>2, <2>2, NamesAreNumbers
  <2>5. Len(l) \in Nat BY <2>2, LenProperties
  <2>6. IsFiniteSet(Positions(f)) /\ Cardinality(Positions(f)) = Len(l)
    BY <2>3, <2>4, <2>5, PositionsCount
  <2>7. LoadRecent(f, Limit) = LastOf(l, Limit) BY <2>2, <2>3, <2>4, <2>6, LimitsAre, LoadIs
  <2> QED BY <2>1, <2>7
<1> QED BY <1>3 DEF LoadsTheNewest

(* However its files roll over within a day and from day to day, and       *)
(* whoever writes, the log of a directory is read back newest last and     *)
(* nothing newer is left out.  The recency key leaves a day room for a     *)
(* thousand files, so this needs fewer entries than they hold.             *)
THEOREM TheLogIsReadBack ==
    ASSUME MaxEntries < 1000 * MaxFile
    PROVE  Spec => []LoadsTheNewest
<1>1. Init => PlacedInv
  <2>1. ASSUME Init PROVE PlacedInv
    <3>1. BlocksInv BY <2>1, KeptAtFirst, NothingIsLogged, FS_EmptySet
                    DEF BlocksInv, BlocksAreRecordedOnce
    <3> QED BY <2>1, <3>1, NothingIsPlaced DEF PlacedInv
  <2> QED BY <2>1
<1>2. PlacedInv /\ BlocksInv' /\ [Next]_vars => PlacedInv'
  <2> SUFFICES ASSUME PlacedInv, BlocksInv', [Next]_vars PROVE PlacedInv' OBVIOUS
  <2>1. CASE \E s \in Sessions \cup {NoSession}, c \in Calls : BeforeToolCall(s, c)
    <3>1. AllPlaced(dirs', log') BY <2>1, CallIsPlaced
    <3>2. AllPlaced(dirs, log)' BY <3>1 DEF AllPlaced
    <3> QED BY <3>2 DEF PlacedInv
  <2>2. CASE UNCHANGED <<dirs, log, blocks, lost>>
    <3>1. AllPlaced(dirs, log)' BY <2>2 DEF PlacedInv, AllPlaced
    <3> QED BY <3>1 DEF PlacedInv
  <2> QED BY <2>1, <2>2, OnlyCallsWrite
<1>3. PlacedInv => LoadsTheNewest BY PlacedIsRead
<1> QED BY <1>1, <1>2, <1>3, BlocksAreKept, PTL DEF Spec

-----------------------------------------------------------------------------
(* What a run keeps in memory.                                             *)

(* What is dropped from the list is what is no longer among the last.      *)
LEMMA RememberIsLast ==
    ASSUME NEW whole \in Seq(Entry), NEW list, list = LastOf(whole, MaxAudit),
           NEW e \in Entry
    PROVE  Remember(list, <<e>>) = LastOf(Append(whole, e), MaxAudit)
<1>1. PICK n, M : n = Len(whole) /\ M = MaxAudit OBVIOUS
<1>2. n \in Nat /\ M \in Nat /\ M > 0 BY <1>1, LimitsAre, LenProperties
<1>3. list \in Seq(Entry) /\ Len(list) = IF M <= n THEN M ELSE n
  BY <1>1, <1>2, LastOfProperties
<1>4. PICK all, after : all = Append(list, e) /\ after = Append(whole, e) OBVIOUS
<1>5. list \o <<e>> = all BY <1>3, <1>4, AppendIsConcat
<1>6. /\ all \in Seq(Entry) /\ Len(all) = Len(list) + 1
      /\ after \in Seq(Entry) /\ Len(after) = n + 1
  BY <1>1, <1>3, <1>4, AppendProperties
<1>7. <<e>> # <<>> OBVIOUS
<1>8. CASE n < M
  <2>1. list = whole BY <1>1, <1>2, <1>8, LastOfWhole
  <2>2. ~(Len(list) >= MaxAudit) BY <1>1, <1>2, <1>3, <1>8
  <2>3. Remember(list, <<e>>) = all BY <1>5, <2>2 DEF Remember
  <2>4. Len(after) <= M BY <1>2, <1>6, <1>8
  <2>5. LastOf(after, M) = after BY <1>2, <1>6, <2>4, LastOfWhole
  <2> QED BY <1>1, <1>4, <2>1, <2>3, <2>5
<1>9. CASE ~(n < M)
  <2>1. M <= n /\ Len(list) = M /\ Len(all) = M + 1 BY <1>2, <1>3, <1>6, <1>9
  <2>2. Remember(list, <<e>>) = SubSeq(all, Len(all) - M + 1, Len(all))
    <3>1. Len(list) >= MaxAudit BY <1>1, <1>2, <2>1
    <3> QED BY <1>1, <1>5, <1>7, <3>1 DEF Remember
  <2>3. Min({M, Len(all)}) = M
    <3>1. M \in Int /\ M + 1 \in Int /\ M <= M + 1 BY <1>2
    <3>2. Min({M, M + 1}) = M BY <3>1, MinOfTwo
    <3> QED BY <2>1, <3>2
  <2>4. Remember(list, <<e>>) = LastOf(all, M) BY <2>2, <2>3 DEF LastOf
  <2>5. PICK k : k = M - 1 OBVIOUS
  <2>6. k \in Nat /\ k + 1 = M /\ k <= M /\ k <= n /\ k <= Len(list)
    BY <1>2, <2>1, <2>5
  <2>7. LastOf(all, M) = Append(LastOf(list, k), e) BY <1>3, <1>4, <2>6, LastOfAppend
  <2>8. LastOf(after, M) = Append(LastOf(whole, k), e) BY <1>1, <1>4, <2>6, LastOfAppend
  <2>9. LastOf(list, k) = LastOf(whole, k) BY <1>1, <1>2, <2>6, LastOfLast
  <2> QED BY <1>1, <1>4, <2>4, <2>7, <2>8, <2>9
<1> QED BY <1>8, <1>9

(* An entry of the run is the last of the run's, another's is none of them.*)
LEMMA OneMoreOfTheRun ==
    ASSUME NEW l \in Seq(Entry), NEW e \in Entry, NEW m, m = Append(l, e)
    PROVE  OfTheRun(m) = IF e.by = "run" THEN Append(OfTheRun(l), e) ELSE OfTheRun(l)
<1>1. PICK n, P : n = Len(l) /\ P = {i \in DOMAIN l : l[i].by = "run"} OBVIOUS
<1>2. n \in Nat /\ DOMAIN l = 1..n BY <1>1, LenProperties
<1>3. /\ m \in Seq(Entry) /\ Len(m) = n + 1
      /\ \A i \in 1..n : m[i] = l[i]
      /\ m[n + 1] = e
  BY <1>1, AppendProperties
<1>4. DOMAIN m = 1..(n + 1) BY <1>2, <1>3, LenProperties
<1>5. P \in SUBSET (DOMAIN l) BY <1>1
<1>6. PICK Q : Q = AndNext(P, l) OBVIOUS
<1>7. Subsequence(m, P) = Subsequence(l, P) /\ Subsequence(m, Q) = Append(Subsequence(l, P), e)
  <2>1. l \in Seq(Entry) /\ e \in Entry /\ m = Append(l, e) OBVIOUS
  <2> QED BY ONLY <1>5, <1>6, <2>1, SubsequenceOfAppend
<1>8. Q = P \cup {n + 1} BY <1>1, <1>6 DEF AndNext
<1>9. PICK R : R = {i \in DOMAIN m : m[i].by = "run"} OBVIOUS
<1>10. R = IF e.by = "run" THEN Q ELSE P
  <2>1. \A i : i \in 1..(n + 1) <=> i \in 1..n \/ i = n + 1 BY <1>2
  <2>2. n + 1 \notin 1..n BY <1>2
  <2>3. ASSUME NEW i PROVE i \in R <=> i \in P \/ (i = n + 1 /\ e.by = "run")
    <3>1. CASE i \in 1..n
      <4>1. i # n + 1 BY <2>2, <3>1
      <4> QED BY <1>1, <1>2, <1>3, <1>4, <1>9, <2>1, <3>1, <4>1
    <3>2. CASE i = n + 1 BY <1>1, <1>2, <1>3, <1>4, <1>9, <2>1, <2>2, <3>2
    <3>3. CASE i \notin 1..n /\ i # n + 1 BY <1>1, <1>2, <1>4, <1>9, <2>1, <3>3
    <3> QED BY <3>1, <3>2, <3>3
  <2>4. CASE e.by = "run" BY <1>8, <2>3, <2>4
  <2>5. CASE e.by # "run" BY <2>3, <2>5
  <2> QED BY <2>4, <2>5
<1>11. OfTheRun(l) = Subsequence(l, P) /\ OfTheRun(m) = Subsequence(m, R)
  BY <1>1, <1>9 DEF OfTheRun
<1> QED BY <1>7, <1>10, <1>11

LEMMA OfTheRunIs ==
    ASSUME NEW l \in Seq(Entry)
    PROVE  OfTheRun(l) \in Seq(Entry)
<1>1. {i \in DOMAIN l : l[i].by = "run"} \in SUBSET (DOMAIN l) OBVIOUS
<1> QED BY <1>1, SubsequenceProperties DEF OfTheRun

(* Nothing is the end of any sequence.                                     *)
LEMMA NoneIsTheEnd ==
    ASSUME NEW s \in Seq(Entry), NEW none, none = <<>>
    PROVE  LastOf(s, Len(none)) = none /\ LastOf(none, MaxAudit) = none
<1>1. none \in Seq(Entry) /\ Len(none) = 0 OBVIOUS
<1>2. PICK k, t : k = Len(none) /\ t = LastOf(s, k) OBVIOUS
<1>3. k = 0 /\ k \in Nat /\ Len(s) \in Nat BY <1>1, <1>2, LenProperties
<1>4. t \in Seq(Entry) /\ Len(t) = IF k <= Len(s) THEN k ELSE Len(s)
  BY <1>2, <1>3, LastOfProperties
<1>5. Len(t) = 0 BY <1>3, <1>4
<1>6. t = none BY <1>4, <1>5, EmptySeq
<1>7. LastOf(none, MaxAudit) = none
  <2>1. Len(none) <= MaxAudit BY <1>1, LimitsAre
  <2> QED BY <1>1, <2>1, LimitsAre, LastOfWhole
<1> QED BY <1>2, <1>6, <1>7

(* What the run's log holds after a write, of the run.                     *)
LEMMA WriteOfTheRun ==
    ASSUME NEW D, NEW L, LogsKept(D, L), NEW d \in Places, NEW e \in Entry,
           NEW M, M = Noted(L, Write(d, e)), NEW h \in Places
    PROVE  OfTheRun(M[h]) = IF e.by = "run" /\ d = h THEN Append(OfTheRun(L[h]), e)
                            ELSE OfTheRun(L[h])
<1>1. DOMAIN D = Places /\ L \in [Places -> Seq(Entry)] BY DEF LogsKept
<1>2. M[d] = Append(L[d], e) /\ \A p \in Places : p # d => M[p] = L[p]
  <2>1. PICK E : E = Saved(D, Write(d, e)) OBVIOUS
  <2> QED BY <1>1, <2>1, WriteIsMade
<1>3. CASE d # h BY <1>2, <1>3
<1>4. CASE d = h
  <2>1. L[h] \in Seq(Entry) BY <1>1
  <2>2. M[h] = Append(L[h], e) BY <1>2, <1>4
  <2> QED BY <1>4, <2>1, <2>2, OneMoreOfTheRun
<1> QED BY <1>3, <1>4

EndOfLog == recorded = LastOf(OfTheRun(log[HomeLog]), Len(recorded))

LEMMA CallIsRemembered ==
    ASSUME KeptInv, audit = LastOf(recorded, MaxAudit),
           NEW s, NEW c \in Calls, BeforeToolCall(s, c)
    PROVE  audit' = LastOf(recorded', MaxAudit)
<1>1. TypeOK /\ recorded \in Seq(Entry) BY DEF KeptInv, TypeOK
<1>2. CASE audit' = audit /\ recorded' = recorded BY <1>2
<1>3. ASSUME NEW e \in Entry, audit' = Remember(audit, <<e>>),
             recorded' = Append(recorded, e)
      PROVE  audit' = LastOf(recorded', MaxAudit)
  BY <1>1, <1>3, RememberIsLast
<1> QED BY <1>1, <1>2, <1>3, CallAdds

LEMMA CallIsLogged ==
    ASSUME KeptInv, EndOfLog, lost' = 0, NEW s, NEW c \in Calls, BeforeToolCall(s, c)
    PROVE  EndOfLog'
<1>1. TypeOK /\ LogsKept(dirs, log) /\ lost \in Nat BY DEF KeptInv
<1>2. today \in Nat /\ today >= 1 BY <1>1, LimitsAre DEF TypeOK
<1>3. PICK g, r : CallWrites(s, c, g, r) BY CallsWrite
<1>4. g \in Writes /\ r \in Writes BY <1>1, <1>3, WritesAre
<1>5. g = GuardEntries(s, c) /\ r = RunEntries(s, c)
  <2>1. PICK x : x = Missed(s, c, g, r) OBVIOUS
  <2>2. x \in Nat BY <1>1, <1>3, <2>1, WritesAre
  <2>3. lost' = lost + x BY <1>3, <2>1 DEF CallWrites
  <2>4. x = 0 BY <1>1, <2>2, <2>3
  <2> QED BY <1>1, <1>3, <2>1, <2>4, WritesAre
<1>6. PICK h : h = HomeLog OBVIOUS
<1>7. h \in Places BY <1>1, <1>6, RunIs, HomeIsAPlace
<1>8. HomeLog' = h
  <2>1. run' = run BY DEF BeforeToolCall
  <2> QED BY <1>6, <2>1 DEF HomeLog
<1>9. PICK D, L : D = Saved(dirs, g) /\ L = Noted(log, g) OBVIOUS
<1>10. LogsKept(D, L) BY <1>1, <1>2, <1>4, <1>9, WriteKeepsLogs
<1>11. OfTheRun(L[h]) = OfTheRun(log[h])
  <2>1. CASE g = <<>>
    <3>1. L = log BY <1>9, <2>1, NoWrite
    <3> QED BY <3>1
  <2>2. ASSUME NEW d \in Places, NEW e \in Entry, g = Write(d, e), e.by = "guard"
        PROVE  OfTheRun(L[h]) = OfTheRun(log[h])
    <3>1. e.by # "run" BY <2>2
    <3> QED BY <1>1, <1>7, <1>9, <2>2, <3>1, WriteOfTheRun
  <2> QED BY <1>5, <2>1, <2>2, GuardWrites
<1>12. PICK o : o = OfTheRun(log[h]) OBVIOUS
<1>13. o \in Seq(Entry)
  <2>1. log[h] \in Seq(Entry) BY <1>1, <1>7 DEF LogsKept
  <2> QED BY <1>12, <2>1, OfTheRunIs
<1>14. log' = Noted(L, r) BY <1>3, <1>9 DEF CallWrites
<1>15. recorded \in Seq(Entry) BY <1>1 DEF TypeOK
<1>16. PICK n : n = Len(recorded) OBVIOUS
<1>17. n \in Nat /\ recorded = LastOf(o, n) BY <1>6, <1>12, <1>15, <1>16, LenProperties DEF EndOfLog
<1>18. CASE r = <<>> /\ recorded' = recorded
  <2>1. log' = L BY <1>14, <1>18, NoWrite
  <2>2. OfTheRun(log'[h]) = o BY <1>11, <1>12, <2>1
  <2> QED BY <1>8, <1>16, <1>17, <1>18, <2>2 DEF EndOfLog
<1>19. ASSUME NEW e \in Entry, r = Write(HomeLog, e), e.by = "run",
              recorded' = Append(recorded, e)
       PROVE  EndOfLog'
  <2>1. OfTheRun(log'[h]) = Append(o, e)
    <3>1. OfTheRun(log'[h]) = Append(OfTheRun(L[h]), e)
      <4>1. PICK M : M = Noted(L, Write(h, e)) OBVIOUS
      <4>2. OfTheRun(M[h]) = IF e.by = "run" /\ h = h THEN Append(OfTheRun(L[h]), e)
                             ELSE OfTheRun(L[h])
        BY <1>7, <1>10, <4>1, WriteOfTheRun
      <4>3. log' = M BY <1>6, <1>14, <1>19, <4>1
      <4> QED BY <1>19, <4>2, <4>3
    <3> QED BY <1>11, <1>12, <3>1
  <2>2. n <= Len(o)
    <3>1. Len(LastOf(o, n)) = IF n <= Len(o) THEN n ELSE Len(o) BY <1>13, <1>17, LastOfProperties
    <3>2. Len(o) \in Nat BY <1>13, LenProperties
    <3> QED BY <1>16, <1>17, <3>1, <3>2
  <2>3. LastOf(Append(o, e), n + 1) = Append(LastOf(o, n), e)
    BY <1>13, <1>17, <2>2, LastOfAppend
  <2>4. Len(recorded') = n + 1 BY <1>15, <1>16, <1>19, AppendProperties
  <2>5. recorded' = LastOf(OfTheRun(log'[h]), Len(recorded'))
    BY <1>17, <1>19, <2>1, <2>3, <2>4
  <2> QED BY <1>8, <2>5 DEF EndOfLog
<1>20. \/ r = <<>> /\ recorded' = recorded
       \/ \E e \in Entry : /\ r = Write(HomeLog, e) /\ e.by = "run"
                           /\ recorded' = Append(recorded, e)
  <2>1. \/ RunEntries(s, c) = <<>> /\ recorded' = recorded
        \/ \E e \in Entry : /\ RunEntries(s, c) = Write(HomeLog, e) /\ e.by = "run"
                            /\ recorded' = Append(recorded, e)
    BY <1>1, CallAdds
  <2> QED BY <1>5, <2>1
<1> QED BY <1>18, <1>19, <1>20

MemoryInv == KeptInv /\ MemoryMatchesTheLog

(* Other steps leave the list and the log alone, or empty the list.        *)
LEMMA OthersForget ==
    ASSUME TypeOK, [Next]_vars
    PROVE  \/ \E s \in Sessions \cup {NoSession}, c \in Calls : BeforeToolCall(s, c)
           \/ audit' = <<>> /\ recorded' = <<>>
           \/ /\ log' = log /\ lost' = lost /\ audit' = audit /\ recorded' = recorded
              /\ run'.workspace = run.workspace
<1>1. Pause \/ Resume => run'.workspace = run.workspace BY DEF Pause, Resume, TypeOK
<1> QED BY <1>1 DEF Next, vars, AfterToolCall, AgentEnd, Activate, Pause, Resume, Restart, NextDay

(* An entry that could not be written stays counted.                       *)
LEMMA LostStaysLost ==
    ASSUME KeptInv, NEW s, NEW c \in Calls, BeforeToolCall(s, c), lost' = 0
    PROVE  lost = 0
<1>1. TypeOK /\ lost \in Nat BY DEF KeptInv
<1>2. PICK g, r : CallWrites(s, c, g, r) BY CallsWrite
<1>3. PICK x : x = Missed(s, c, g, r) OBVIOUS
<1>4. x \in Nat BY <1>1, <1>2, <1>3, WritesAre
<1>5. lost' = lost + x BY <1>2, <1>3 DEF CallWrites
<1> QED BY <1>1, <1>4, <1>5

(* What a run keeps in memory are its last entries, at most MAX_AUDIT; and *)
(* unless an entry could not be written, what it has recorded is the end   *)
(* of what its workspace's log holds of it, whatever the guard, or an      *)
(* earlier run, wrote there.                                               *)
THEOREM MemoryIsTheLogsEnd == Spec => []MemoryMatchesTheLog
<1>1. Init => MemoryInv
  <2> SUFFICES ASSUME Init PROVE MemoryInv OBVIOUS
  <2>1. KeptInv BY KeptAtFirst
  <2>2. audit = <<>> /\ recorded = <<>> BY DEF Init
  <2>3. HomeLog \in Places BY <2>1, RunIs, HomeIsAPlace DEF KeptInv
  <2>4. log[HomeLog] \in Seq(Entry) BY <2>1, <2>3 DEF KeptInv, TypeOK
  <2>5. OfTheRun(log[HomeLog]) \in Seq(Entry) BY <2>4, OfTheRunIs
  <2>6. /\ LastOf(OfTheRun(log[HomeLog]), Len(recorded)) = recorded
        /\ LastOf(recorded, MaxAudit) = recorded
    BY <2>2, <2>5, NoneIsTheEnd
  <2> QED BY <2>1, <2>2, <2>6 DEF MemoryInv, MemoryMatchesTheLog, HomeLog
<1>2. MemoryInv /\ [Next]_vars => MemoryInv'
  <2> SUFFICES ASSUME MemoryInv, [Next]_vars PROVE MemoryInv' OBVIOUS
  <2>1. KeptInv /\ KeptInv' BY KeptAtEveryStep DEF MemoryInv
  <2>2. audit = LastOf(recorded, MaxAudit) /\ (lost = 0 => EndOfLog)
    BY DEF MemoryInv, MemoryMatchesTheLog, EndOfLog, HomeLog
  <2>3. ASSUME NEW s \in Sessions \cup {NoSession}, NEW c \in Calls, BeforeToolCall(s, c)
        PROVE  MemoryMatchesTheLog'
    <3>1. audit' = LastOf(recorded', MaxAudit) BY <2>1, <2>2, <2>3, CallIsRemembered
    <3>2. ASSUME lost' = 0 PROVE EndOfLog'
      <4>1. lost = 0 BY <2>1, <2>3, <3>2, LostStaysLost
      <4> QED BY <2>1, <2>2, <2>3, <3>2, <4>1, CallIsLogged
    <3> QED BY <3>1, <3>2 DEF MemoryMatchesTheLog, EndOfLog, HomeLog
  <2>4. CASE audit' = <<>> /\ recorded' = <<>>
    <3>1. run'.workspace \in Workspaces \cup {Nowhere} /\ log' \in [Places -> Seq(Entry)]
      BY <2>1 DEF KeptInv, TypeOK
    <3>2. PICK h : h = Or(run'.workspace, ProcessCwd) OBVIOUS
    <3>3. h \in Places BY <3>1, <3>2 DEF Or, Places
    <3>4. log'[h] \in Seq(Entry) BY <3>1, <3>3
    <3>5. OfTheRun(log'[h]) \in Seq(Entry) BY <3>4, OfTheRunIs
    <3>6. /\ LastOf(OfTheRun(log'[h]), Len(recorded')) = recorded'
          /\ LastOf(recorded', MaxAudit) = recorded'
      BY <2>4, <3>5, NoneIsTheEnd
    <3> QED BY <2>1, <2>4, <3>2, <3>6 DEF MemoryInv, MemoryMatchesTheLog
  <2>5. CASE /\ log' = log /\ lost' = lost /\ audit' = audit /\ recorded' = recorded
             /\ run'.workspace = run.workspace
    <3>1. /\ audit' = LastOf(recorded', MaxAudit)
          /\ lost' = 0 => recorded' =
                LastOf(OfTheRun(log'[Or(run'.workspace, ProcessCwd)]), Len(recorded'))
      BY <2>2, <2>5 DEF EndOfLog, HomeLog
    <3> QED BY <2>1, <3>1 DEF MemoryInv, MemoryMatchesTheLog
  <2>6. TypeOK BY <2>1 DEF KeptInv
  <2> QED BY <2>1, <2>3, <2>4, <2>5, <2>6, OthersForget DEF MemoryInv
<1>3. MemoryInv => MemoryMatchesTheLog BY DEF MemoryInv
<1> QED BY <1>1, <1>2, <1>3, PTL DEF Spec
=============================================================================
