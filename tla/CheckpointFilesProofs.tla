------------------------ MODULE CheckpointFilesProofs ------------------------
(***************************************************************************)
(* What CheckpointFiles checks on two runs of one session, for any number  *)
(* of runs, sessions, crashes and waiting writes.                          *)
(***************************************************************************)
EXTENDS CheckpointFiles, TLAPS

(* What is still to be moved is there to be moved.                         *)
TodoInv ==
    phase = "moving" =>
        \A r \in todo : Is(legacy, r, "active") /\ (job # None => job.run # r)

TypeInv == TypeOK /\ TodoInv

(* How far the call under way has come.                                    *)
JobInv ==
    job # None =>
        /\ job.op = "discard" => job.at = "unlink"
        /\ job.op \in {"save", "move"} /\ job.at \in {"itemp", "irename", "unlink"}
              => fixed[job.run] = IF job.op = "save" THEN Head(queue[job.run])
                                  ELSE legacy[job.run]

(* The writes that wait end with the state the run is in.                  *)
DurableInv ==
    \A r \in RunIds : memory[r] # None =>
        /\ queue[r] # <<>> => queue[r][Len(queue[r])] = memory[r]
        /\ queue[r] = <<>> /\ r \notin failed => fixed[r] = memory[r]

(* The states of a run go from its file over its queue to its memory, in   *)
(* the order they were in; n is the last of them.                          *)
InOrder(file, copy, state, waiting, n) ==
    /\ file # None => file.version \in 1..n
    /\ copy # None => copy.version \in 1..n
    /\ state # None => state.version \in 1..n
    /\ \A i \in DOMAIN waiting : waiting[i].version \in 1..n
    /\ \A i, j \in DOMAIN waiting : i <= j => waiting[i].version <= waiting[j].version
    /\ file # None /\ state # None => file.version <= state.version
    /\ file # None /\ waiting # <<>> => file.version <= waiting[1].version

OrderInv ==
    /\ \A r \in RunIds : InOrder(fixed[r], legacy[r], memory[r], queue[r], newest[r])
    /\ job # None /\ job.op \in {"end", "discard"} => newest[job.run] > 0

(* A legacy checkpoint that is still to be moved is all there is of a run. *)
LegacyInv ==
    \A r \in RunIds \ stuck : Is(legacy, r, "active") =>
        /\ memory[r] = None /\ queue[r] = <<>> /\ r \notin dropped
        /\ job # None /\ job.run = r => job.op = "move"
        /\ fixed[r] # None =>
              /\ fixed[r] = legacy[r]
              /\ phase = "serving" => r \in refused

(* Nothing is left of a run that was given up, and nothing comes back.     *)
DroppedInv ==
    \A r \in dropped \ stuck :
        fixed[r] = None /\ memory[r] = None /\ queue[r] = <<>> /\ newest[r] > 0

IInv == TypeInv /\ JobInv /\ IndexNeverDangles /\ DurableInv /\ OrderInv /\ LegacyInv /\ DroppedInv

-----------------------------------------------------------------------------
(* The type invariant is inductive.                                        *)

(* Before the process first starts, all it finds are legacy checkpoints.   *)
LEMMA InitType == Init => TypeInv
<1> SUFFICES ASSUME Init PROVE TypeInv
  OBVIOUS
<1>1. legacy \in [RunIds -> File \cup {None}]
  BY DEF Init, File
<1>2. /\ fixed \in [RunIds -> File \cup {None}] /\ memory \in [RunIds -> File \cup {None}]
      /\ queue \in [RunIds -> Seq(File)] /\ newest \in [RunIds -> Nat]
      /\ index \in [Sessions -> RunIds \cup {None}]
  BY DEF Init
<1> QED BY <1>1, <1>2 DEF Init, TypeInv, TypeOK, JobOK, TodoInv

(* A file is no stand-in for its absence.                                  *)
LEMMA FilesExist ==
    ASSUME NEW n \in Nat, NEW k \in Kinds
    PROVE  [version |-> n, kind |-> k] \in File /\ [version |-> n, kind |-> k] # None
BY FilesAssumption DEF File

(* A call that begins is a job.                                            *)
LEMMA JobsExist ==
    ASSUME NEW o \in Ops, NEW r \in RunIds, NEW at \in Steps
    PROVE  [op |-> o, run |-> r, at |-> at] \in Jobs /\ [op |-> o, run |-> r, at |-> at] # None
BY FilesAssumption DEF Jobs

(* Start-up keeps the types: moving a legacy checkpoint takes it from      *)
(* todo.                                                                   *)
LEMMA StartupType ==
    ASSUME TypeInv, Startup \/ Crash \/ \E r \in RunIds : Refuse(r)
    PROVE  TypeInv'
<1> USE DEF TypeInv, TypeOK, JobOK, TodoInv, disk, history
<1>1. CASE Start
  <2>1. job = None /\ job' = None
    BY <1>1 DEF Start, Jobs, Ops
  <2>2. PICK old \in SUBSET Closed(legacy) : legacy' = Without(legacy, old)
    BY <1>1 DEF Start
  <2>3. legacy' \in [RunIds -> File \cup {None}]
    BY <2>2 DEF Without
  <2>4. \A r \in todo' : r \in RunIds /\ Is(legacy', r, "active")
    BY <1>1, <2>2 DEF Start, Without, Resumable, Closed, Is
  <2> QED BY <1>1, <2>1, <2>3, <2>4 DEF Start
<1>2. ASSUME NEW r \in RunIds, Move(r) PROVE TypeInv'
  <2>1. job' \in Jobs /\ job' # None /\ job' = [op |-> "move", run |-> r, at |-> "temp"]
    BY <1>2, JobsExist DEF Move, Ops, Steps
  <2>2. job'.op = "move" /\ job'.run = r
    BY <2>1
  <2> QED BY <1>2, <2>1, <2>2 DEF Move, Is
<1>3. CASE AllMoved
  BY <1>3 DEF AllMoved
<1>4. CASE Restore
  BY <1>4 DEF Restore, Without, Jobs, Ops, Resumable, Closed
<1>5. CASE Crash
  BY <1>5 DEF Crash
<1>6. ASSUME NEW r \in RunIds, Refuse(r) PROVE TypeInv'
  BY <1>6 DEF Refuse
<1> QED BY <1>1, <1>2, <1>3, <1>4, <1>5, <1>6 DEF Startup

(* The handlers and the events around them keep the types.                 *)
LEMMA HandlersType ==
    ASSUME TypeInv, Handlers \/ \E r \in RunIds : Write(r)
    PROVE  TypeInv'
<1> USE DEF TypeInv, TypeOK, JobOK, TodoInv, disk, history, Quiet
<1>1. ASSUME NEW r \in RunIds, Activate(r) PROVE TypeInv'
  <2> DEFINE first == [version |-> 1, kind |-> "active"]
  <2>1. first \in File /\ first # None
    BY FilesExist DEF Kinds
  <2> HIDE DEF first
  <2>2. queue' = [queue EXCEPT ![r] = Append(@, first)]
    BY <1>1 DEF Activate, Saved, first
  <2>3. memory' \in [RunIds -> File \cup {None}]
    BY <1>1, <2>1 DEF Activate, Without, first
  <2>4. queue' \in [RunIds -> Seq(File)]
    BY <2>1, <2>2
  <2>5. newest' \in [RunIds -> Nat]
    BY <1>1 DEF Activate
  <2>6. job' = None /\ phase' = "serving"
    BY <1>1 DEF Activate
  <2> QED BY <1>1, <2>3, <2>4, <2>5, <2>6 DEF Activate
<1>2. ASSUME NEW r \in RunIds, Change(r) PROVE TypeInv'
  <2>1. PICK k \in Kinds :
           LET next == [version |-> newest[r] + 1, kind |-> k]
           IN  memory' = [memory EXCEPT ![r] = next] /\ queue' = Saved(r, next)
    BY <1>2 DEF Change
  <2> DEFINE next == [version |-> newest[r] + 1, kind |-> k]
  <2>2. next \in File /\ next # None
    <3>1. newest[r] + 1 \in Nat
      OBVIOUS
    <3> QED BY <3>1, FilesExist
  <2> HIDE DEF next
  <2>3. /\ queue' = [queue EXCEPT ![r] = Append(@, next)]
        /\ memory' = [memory EXCEPT ![r] = next]
    BY <2>1 DEF Saved, next
  <2>4. queue' \in [RunIds -> Seq(File)] /\ memory' \in [RunIds -> File \cup {None}]
    BY <2>2, <2>3
  <2>5. newest' \in [RunIds -> Nat]
    BY <1>2 DEF Change
  <2>6. job' = None /\ phase' = "serving"
    BY <1>2 DEF Change
  <2> QED BY <1>2, <2>4, <2>5, <2>6 DEF Change
<1>3. ASSUME NEW r \in RunIds, SessionEnd(r) PROVE TypeInv'
  BY <1>3 DEF SessionEnd, Saved
<1>4. ASSUME NEW s \in Sessions, SessionStart(s) PROVE TypeInv'
  BY <1>4 DEF SessionStart
<1>5. ASSUME NEW r \in RunIds, NEW op \in {"end", "discard"}, Leave(r, op) PROVE TypeInv'
  <2>1. job' \in Jobs /\ job' # None /\ job' = [op |-> op, run |-> r, at |-> "unlink"]
    BY <1>5, JobsExist DEF Leave, Ops, Steps
  <2>2. job'.op = op /\ job'.run = r /\ job'.at = "unlink"
    BY <2>1
  <2> QED BY <1>5, <2>1, <2>2 DEF Leave
<1>6. ASSUME NEW r \in RunIds, Write(r) PROVE TypeInv'
  <2>1. job' \in Jobs /\ job' # None /\ job' = [op |-> "save", run |-> r, at |-> "temp"]
    BY <1>6, JobsExist DEF Write, Ops, Steps
  <2>2. job'.op = "save" /\ job'.run = r /\ job'.at = "temp"
    BY <2>1
  <2> QED BY <1>6, <2>1, <2>2 DEF Write
<1> QED BY <1>1, <1>2, <1>3, <1>4, <1>5, <1>6 DEF Handlers

(* A call that goes on is the same call at another step.                   *)
LEMMA GoesOn ==
    ASSUME TypeInv, job # None, NEW at \in Steps, Goto(at)
    PROVE  /\ job' \in Jobs /\ job' # None /\ queue' = queue
           /\ job'.op = job.op /\ job'.run = job.run /\ job'.at = at
<1>1. job \in Jobs /\ None \notin Jobs
  BY FilesAssumption DEF TypeInv, TypeOK, JobOK
<1>2. job' \in Jobs /\ job'.op = job.op /\ job'.run = job.run /\ job'.at = at
  BY <1>1 DEF Goto, Jobs
<1> QED BY <1>1, <1>2 DEF Goto

(* A call that is over leaves its queue one write shorter, if it was one.  *)
LEMMA IsOver ==
    ASSUME TypeInv, job # None, Over
    PROVE  /\ job' = None
           /\ queue' \in [RunIds -> Seq(File)]
           /\ \A r \in RunIds :
                queue'[r] = IF job.op = "save" /\ job.run = r THEN Tail(queue[r]) ELSE queue[r]
<1>1. job \in Jobs /\ queue \in [RunIds -> Seq(File)]
  BY DEF TypeInv, TypeOK, JobOK
<1>2. job.op \in Ops /\ job.run \in RunIds
  BY <1>1 DEF Jobs
<1>3. job.op = "save" => queue[job.run] # <<>>
  BY DEF TypeInv, TypeOK, JobOK
<1>4. job.op = "save" => Tail(queue[job.run]) \in Seq(File)
  BY <1>1, <1>2, <1>3
<1> QED BY <1>1, <1>2, <1>4 DEF Over

(* Either way the call under way keeps its type: what is left to show is   *)
(* that the files keep theirs.                                             *)
LEMMA StepType ==
    ASSUME TypeInv, job # None,
           Over \/ \E at \in Steps : /\ Goto(at)
                                     /\ job.op = "save" => at # "unlink"
                                     /\ job.op \in {"end", "discard"}
                                           => at \in {"unlink", "itemp", "irename"},
           phase' = phase, memory' = memory, todo' = todo, refused' = refused,
           newest' = newest, stuck' = stuck, crashes' = crashes,
           job' # None => legacy' = legacy,
           \A r \in RunIds \ {job.run} : legacy'[r] = legacy[r],
           fixed' \in [RunIds -> File \cup {None}],
           legacy' \in [RunIds -> File \cup {None}],
           index' \in [Sessions -> RunIds \cup {None}],
           orphans' \in BOOLEAN,
           dropped' \in SUBSET RunIds, failed' \in SUBSET RunIds
    PROVE  TypeInv'
<1>1. queue' \in [RunIds -> Seq(File)]
  BY IsOver, GoesOn DEF TypeInv, TypeOK
<1>2. JobOK'
  <2>1. CASE Over
    <3>1. job' = None
      BY <2>1, IsOver
    <3> QED BY <3>1 DEF JobOK
  <2>2. ASSUME NEW at \in Steps, Goto(at),
               job.op = "save" => at # "unlink",
               job.op \in {"end", "discard"} => at \in {"unlink", "itemp", "irename"}
        PROVE  JobOK'
    <3>1. /\ job' \in Jobs /\ job' # None /\ queue' = queue
          /\ job'.op = job.op /\ job'.run = job.run /\ job'.at = at
      BY <2>2, GoesOn
    <3>2. job.op \in Ops /\ JobOK
      BY <3>1 DEF Jobs, TypeInv, TypeOK, JobOK
    <3>3. CASE job.op = "save"
      BY <2>2, <3>1, <3>2, <3>3 DEF JobOK
    <3>4. CASE job.op = "move"
      BY <2>2, <3>1, <3>2, <3>4 DEF JobOK, Is
    <3>5. CASE job.op \in {"end", "discard"}
      BY <2>2, <3>1, <3>2, <3>5 DEF JobOK
    <3> QED BY <3>2, <3>3, <3>4, <3>5 DEF Ops
  <2> QED BY <2>1, <2>2
<1>3. phase' # "serving" => \A r \in RunIds : memory'[r] = None /\ queue'[r] = <<>>
  <2>1. CASE Over
    BY <2>1, IsOver DEF TypeInv, TypeOK, JobOK
  <2>2. CASE \E at \in Steps : Goto(at)
    BY <2>2, GoesOn DEF TypeInv, TypeOK
  <2> QED BY <2>1, <2>2
<1>4. TodoInv'
  <2>1. CASE Over
    BY <2>1, IsOver DEF TypeInv, TypeOK, TodoInv, Is
  <2>2. CASE \E at \in Steps : Goto(at)
    BY <2>2, GoesOn DEF TypeInv, TypeOK, TodoInv, Is
  <2> QED BY <2>1, <2>2
<1> QED BY <1>1, <1>2, <1>3, <1>4 DEF TypeInv, TypeOK

(* Every step of a call keeps the types, and a call under way has its      *)
(* work.                                                                   *)
LEMMA JobType ==
    ASSUME TypeInv, JobStep
    PROVE  TypeInv'
<1> USE DEF TypeInv, TypeOK, disk, history
<1>0. job # None /\ job \in Jobs /\ job.run \in RunIds /\ job.op \in Ops /\ job.at \in Steps
  BY DEF JobStep, WriteTemp, Rename, RenameIndex, WriteFails, IndexFails, Unlink, UnlinkFails,
         JobOK, Jobs
<1>1. CASE WriteTemp
  BY <1>0, <1>1, StepType DEF WriteTemp, Steps, JobOK
<1>2. CASE Rename
  <2>1. job.op \in {"save", "move"} /\ job.at = "rename"
    BY <1>0, <1>2 DEF Rename, JobOK, Ops
  <2>2. (IF job.op = "save" THEN Head(queue[job.run]) ELSE legacy[job.run]) \in File
    <3>1. CASE job.op = "save"
      <4>1. queue[job.run] \in Seq(File) /\ queue[job.run] # <<>>
        BY <1>0, <3>1 DEF JobOK
      <4> QED BY <3>1, <4>1
    <3>2. CASE job.op = "move"
      BY <1>0, <3>2 DEF JobOK, Is
    <3> QED BY <2>1, <3>1, <3>2
  <2>3. fixed' \in [RunIds -> File \cup {None}]
    BY <1>0, <1>2, <2>2 DEF Rename
  <2>4. \/ Over
        \/ Goto("itemp")
        \/ job.op = "move" /\ Goto("unlink")
    BY <1>2 DEF Rename, Indexed
  <2> QED BY <1>0, <1>2, <2>1, <2>3, <2>4, StepType DEF Rename, Steps
<1>3. CASE RenameIndex \/ IndexFails
  <2>1. \/ Over
        \/ job.op = "move" /\ Goto("unlink")
    BY <1>3 DEF RenameIndex, IndexFails, Indexed
  <2>2. index' \in [Sessions -> RunIds \cup {None}]
    BY <1>0, <1>3, FilesAssumption DEF RenameIndex, IndexFails
  <2> QED BY <1>0, <1>3, <2>1, <2>2, StepType DEF RenameIndex, IndexFails, Steps
<1>4. CASE WriteFails
  BY <1>0, <1>4, StepType DEF WriteFails
<1>5. CASE Unlink
  <2>1. job.op # "save"
    BY <1>0, <1>5 DEF Unlink, JobOK
  <2>2. /\ fixed' \in [RunIds -> File \cup {None}]
        /\ legacy' \in [RunIds -> File \cup {None}]
        /\ dropped' \in SUBSET RunIds
        /\ \A r \in RunIds \ {job.run} : legacy'[r] = legacy[r]
    BY <1>0, <1>5 DEF Unlink, Without
  <2>3. Over \/ (job.op = "end" /\ Goto("itemp") /\ legacy' = legacy)
    BY <1>5 DEF Unlink, Unlinked
  <2>4. Over => job' = None
    BY <1>0, IsOver
  <2> QED BY <1>0, <1>5, <2>1, <2>2, <2>3, <2>4, StepType DEF Unlink, Steps
<1>6. CASE UnlinkFails
  <2>1. Over \/ (job.op = "end" /\ Goto("itemp"))
    BY <1>6 DEF UnlinkFails, Unlinked
  <2> QED BY <1>0, <1>6, <2>1, StepType DEF UnlinkFails, Steps
<1> QED BY <1>1, <1>2, <1>3, <1>4, <1>5, <1>6 DEF JobStep

(* No history of starts, crashes, failures and handlers leaves the types.  *)
LEMMA TypeStep ==
    ASSUME TypeInv, [Next]_vars
    PROVE  TypeInv'
<1>1. CASE UNCHANGED vars
  BY <1>1 DEF vars, disk, history, TypeInv, TypeOK, JobOK, TodoInv, Is
<1> QED BY <1>1, StartupType, HandlersType, JobType DEF Next

(* Nothing the disk or the handlers do leaves the types of the persister.  *)
THEOREM TypeCorrect == Spec => []TypeOK
<1>1. TypeInv => TypeOK
  BY DEF TypeInv
<1> QED BY <1>1, InitType, TypeStep, PTL DEF Spec

-----------------------------------------------------------------------------
(* The file is in place before the index.                                  *)

JobFree == Startup \/ Crash \/ Handlers \/ \E r \in RunIds : Refuse(r) \/ Write(r)

(* What starts a call, or leaves none under way.                           *)
Begins ==
    /\ job = None \/ job' = None
    /\ job' # None =>
          /\ fixed' = fixed /\ legacy' = legacy /\ queue' = queue /\ newest' = newest
          /\ stuck' = stuck /\ phase' = phase
          /\ job'.run \in RunIds
          /\ \/ job'.op = "move" /\ job'.at = "temp" /\ job'.run \in todo
                /\ memory' = memory /\ phase = "moving"
             \/ job'.op = "save" /\ job'.at = "temp" /\ queue[job'.run] # <<>>
                /\ memory' = memory
             \/ job'.op \in {"end", "discard"} /\ job'.at = "unlink"
                /\ memory[job'.run] # None /\ queue[job'.run] = <<>>
                /\ memory' = [memory EXCEPT ![job'.run] = None]

(* A call begins at its first step.                                        *)
LEMMA JobsBegin ==
    ASSUME TypeInv, JobFree
    PROVE  Begins
<1> USE DEF disk, history, Quiet, Begins
<1>1. CASE Start \/ AllMoved \/ Restore \/ Crash
  BY <1>1 DEF Start, AllMoved, Restore, Crash, TypeInv, TypeOK, JobOK, Jobs, Ops
<1>2. ASSUME NEW r \in RunIds, Refuse(r) \/ Activate(r) \/ Change(r) \/ SessionEnd(r) PROVE Begins
  BY <1>2 DEF Refuse, Activate, Change, SessionEnd
<1>3. ASSUME NEW s \in Sessions, SessionStart(s) PROVE Begins
  BY <1>3 DEF SessionStart
<1>4. ASSUME NEW r \in RunIds, Move(r) PROVE Begins
  BY <1>4 DEF Move
<1>5. ASSUME NEW r \in RunIds, Write(r) PROVE Begins
  BY <1>5 DEF Write
<1>6. ASSUME NEW r \in RunIds, NEW op \in {"end", "discard"}, Leave(r, op) PROVE Begins
  BY <1>6 DEF Leave
<1> QED BY <1>1, <1>2, <1>3, <1>4, <1>5, <1>6 DEF JobFree, Startup, Handlers

(* What every step of a call has in common.                                *)
LEMMA JobsRun ==
    ASSUME TypeInv, JobStep
    PROVE  /\ job # None /\ job \in Jobs
           /\ job.run \in RunIds /\ job.op \in Ops /\ job.at \in Steps
           /\ Over \/ \E at \in Steps : Goto(at)
           /\ phase' = phase /\ memory' = memory /\ todo' = todo /\ refused' = refused
           /\ newest' = newest /\ stuck' = stuck
<1> USE DEF disk, history
<1>1. job # None /\ job \in Jobs /\ job.run \in RunIds /\ job.op \in Ops /\ job.at \in Steps
  BY DEF JobStep, WriteTemp, Rename, RenameIndex, WriteFails, IndexFails, Unlink, UnlinkFails,
         TypeInv, TypeOK, JobOK, Jobs
<1>2. Over \/ \E at \in Steps : Goto(at)
  BY DEF JobStep, WriteTemp, Rename, RenameIndex, WriteFails, IndexFails, Unlink, UnlinkFails,
         Indexed, Unlinked, Steps
<1>3. /\ phase' = phase /\ memory' = memory /\ todo' = todo /\ refused' = refused
      /\ newest' = newest /\ stuck' = stuck
  BY DEF JobStep, WriteTemp, Rename, RenameIndex, WriteFails, IndexFails, Unlink, UnlinkFails
<1> QED BY <1>1, <1>2, <1>3

(* A step is one of a call under way or happens with none under way.       *)
LEMMA StepCases ==
    ASSUME [Next]_vars
    PROVE  JobFree \/ JobStep \/ UNCHANGED vars
BY DEF Next, JobFree

(* Past its rename, a call has put in the fixed root what it was to write. *)
LEMMA JobStepInv ==
    ASSUME TypeInv, JobInv, [Next]_vars
    PROVE  JobInv'
<1>1. CASE UNCHANGED vars
  BY <1>1 DEF vars, disk, history, JobInv
<1>2. CASE JobFree
  BY <1>2, JobsBegin DEF JobInv, Begins
<1>3. CASE JobStep
  <2>0. /\ job # None /\ job \in Jobs /\ job.run \in RunIds /\ job.op \in Ops
        /\ fixed \in [RunIds -> File \cup {None}]
    BY <1>3, JobsRun DEF TypeInv, TypeOK
  <2>1. CASE Over
    BY <2>0, <2>1, IsOver DEF JobInv
  <2>2. ASSUME NEW at \in Steps, Goto(at) PROVE JobInv'
    <3> USE DEF JobInv, disk
    <3>0. /\ job' # None /\ queue' = queue
          /\ job'.op = job.op /\ job'.run = job.run /\ job'.at = at
      BY <2>0, <2>2, GoesOn
    <3>1. CASE WriteTemp
      BY <2>0, <3>0, <3>1, GoesOn DEF WriteTemp, Steps
    <3>2. CASE Rename
      BY <2>0, <3>0, <3>2 DEF Rename, TypeInv, TypeOK, JobOK
    <3>3. CASE RenameIndex \/ IndexFails
      BY <2>0, <3>0, <3>3 DEF RenameIndex, IndexFails, Indexed
    <3>4. CASE WriteFails
      BY <2>0, <3>0, <3>4, IsOver DEF WriteFails
    <3>5. CASE Unlink \/ UnlinkFails
      BY <2>0, <3>0, <3>5, IsOver DEF Unlink, UnlinkFails, Unlinked
    <3> QED BY <1>3, <3>1, <3>2, <3>3, <3>4, <3>5 DEF JobStep
  <2> QED BY <1>3, <2>1, <2>2, JobsRun
<1> QED BY <1>1, <1>2, <1>3, StepCases

(* A save under way has a state to write.                                  *)
LEMMA HeadExists ==
    ASSUME TypeInv, job # None, job.op = "save", job.run \in RunIds
    PROVE  Head(queue[job.run]) \in File /\ Head(queue[job.run]) # None
<1>1. queue[job.run] \in Seq(File) /\ queue[job.run] # <<>>
  BY DEF TypeInv, TypeOK, JobOK
<1>2. Head(queue[job.run]) \in File
  BY <1>1
<1> QED BY <1>2, FilesAssumption

(* An entry is made after its file is in place, and the file of an entry   *)
(* goes only when the run is given up.                                     *)
LEMMA IndexStep ==
    ASSUME TypeInv, JobInv, IndexNeverDangles, [Next]_vars
    PROVE  IndexNeverDangles'
<1> USE DEF IndexNeverDangles, disk, history
<1>0. index \in [Sessions -> RunIds \cup {None}] /\ fixed \in [RunIds -> File \cup {None}]
  BY DEF TypeInv, TypeOK
<1>1. CASE UNCHANGED <<index, fixed, dropped>>
  BY <1>1
<1>2. CASE Restore
  BY <1>0, <1>2 DEF Restore, Without
<1>3. CASE Rename
  <2>1. fixed' \in [RunIds -> File \cup {None}] /\ job.run \in RunIds /\ job.op \in {"save", "move"}
    BY <1>3, JobsRun, JobType DEF JobStep, Rename, TypeInv, TypeOK, JobOK, Ops
  <2>2. fixed'[job.run] # None
    <3>1. CASE job.op = "save"
      BY <1>0, <1>3, <2>1, <3>1, HeadExists DEF Rename
    <3>2. CASE job.op = "move"
      BY <1>0, <1>3, <2>1, <3>2 DEF Rename, TypeInv, TypeOK, JobOK, Is
    <3> QED BY <2>1, <3>1, <3>2
  <2> QED BY <1>0, <1>3, <2>1, <2>2 DEF Rename
<1>4. CASE RenameIndex
  <2>1. job.run \in RunIds /\ job # None /\ job.op \in Ops /\ job.at = "irename"
    BY <1>4, JobsRun DEF JobStep, RenameIndex
  <2>2. job.op \in {"save", "move"} => fixed[job.run] # None
    <3>1. CASE job.op = "save"
      BY <2>1, <3>1, HeadExists DEF JobInv
    <3>2. CASE job.op = "move"
      BY <2>1, <3>2 DEF JobInv, TypeInv, TypeOK, JobOK, Is
    <3> QED BY <3>1, <3>2
  <2>3. job.op = "end" \/ job.op \in {"save", "move"}
    BY <2>1 DEF JobInv, Ops
  <2> QED BY <1>0, <1>4, <2>1, <2>2, <2>3 DEF RenameIndex
<1>5. CASE Unlink
  BY <1>0, <1>5, JobsRun DEF JobStep, Unlink, Without
<1>6. CASE JobFree /\ ~Restore
  BY <1>1, <1>6 DEF JobFree, Startup, Handlers, Start, AllMoved, Crash, Refuse, Write, Move,
                    Activate, Change, SessionEnd, SessionStart, Leave
<1>7. CASE WriteTemp \/ WriteFails \/ IndexFails \/ UnlinkFails \/ UNCHANGED vars
  BY <1>1, <1>7 DEF WriteTemp, WriteFails, IndexFails, UnlinkFails, vars
<1> QED BY <1>2, <1>3, <1>4, <1>5, <1>6, <1>7, StepCases DEF JobStep

(* The session index never points at a run without a file, except one      *)
(* whose file was deleted or swept: updateSessionIndex comes after the     *)
(* rename of the checkpoint, and no crash or failed write reverses that.   *)
THEOREM IndexIsSound == Spec => []IndexNeverDangles
<1>1. Init => JobInv /\ IndexNeverDangles
  BY DEF Init, JobInv, IndexNeverDangles
<1> QED BY <1>1, InitType, TypeStep, JobStepInv, IndexStep, PTL DEF Spec

-----------------------------------------------------------------------------
(* What has been written is what was to be written.                        *)

(* A state that is queued is the last of the queue.                        *)
LEMMA LastOfAppend ==
    ASSUME NEW s \in Seq(File), NEW e \in File
    PROVE  /\ Append(s, e) \in Seq(File) /\ Append(s, e) # <<>>
           /\ Len(Append(s, e)) = Len(s) + 1
           /\ Append(s, e)[Len(Append(s, e))] = e
           /\ \A i \in DOMAIN s : Append(s, e)[i] = s[i]
OBVIOUS

(* The head of a queue is its last element once nothing waits behind it.   *)
LEMMA LastOfTail ==
    ASSUME NEW s \in Seq(File), s # <<>>
    PROVE  /\ Tail(s) \in Seq(File) /\ Len(Tail(s)) = Len(s) - 1
           /\ Head(s) = s[1]
           /\ Tail(s) = <<>> => s[Len(s)] = Head(s)
           /\ Tail(s) # <<>> => Tail(s)[Len(Tail(s))] = s[Len(s)]
           /\ \A i \in DOMAIN Tail(s) : Tail(s)[i] = s[i + 1]
OBVIOUS

(* What the handlers put in memory they also queue.                        *)
LEMMA DurableFree ==
    ASSUME TypeInv, DurableInv, JobFree
    PROVE  DurableInv'
<1> USE DEF DurableInv, disk, history
<1>0. /\ memory \in [RunIds -> File \cup {None}] /\ fixed \in [RunIds -> File \cup {None}]
      /\ queue \in [RunIds -> Seq(File)] /\ newest \in [RunIds -> Nat]
  BY DEF TypeInv, TypeOK
<1>1. CASE Start \/ AllMoved \/ \E r \in RunIds : Move(r) \/ Write(r) \/ Refuse(r)
  BY <1>1 DEF Start, AllMoved, Move, Write, Refuse
<1>2. CASE Restore
  <2>1. \A r \in RunIds : memory'[r] # None => memory'[r] = fixed[r] /\ fixed[r].kind = "active"
    BY <1>2 DEF Restore, Resumable, Is
  <2>2. \A r \in RunIds : fixed'[r] = fixed[r] \/ fixed[r].kind = "closed"
    BY <1>0, <1>2 DEF Restore, Without, Closed, Is
  <2>3. \A r \in RunIds : queue'[r] = <<>>
    BY <1>2 DEF Restore, TypeInv, TypeOK
  <2> QED BY <1>2, <2>1, <2>2, <2>3
<1>3. CASE Crash
  BY <1>3 DEF Crash
<1>4. ASSUME NEW r \in RunIds, Activate(r) PROVE DurableInv'
  <2> DEFINE first == [version |-> 1, kind |-> "active"]
             others == {x \in RunIds : x # r /\ Owner[x] = Owner[r]}
  <2>1. first \in File /\ first # None
    BY FilesExist DEF Kinds
  <2>2. /\ queue' = [queue EXCEPT ![r] = Append(@, first)]
        /\ memory' = [Without(memory, others) EXCEPT ![r] = first]
        /\ fixed' = fixed /\ failed' = failed
    BY <1>4 DEF Activate, Saved
  <2> HIDE DEF first
  <2>3. memory'[r] = first /\ \A x \in RunIds \ {r} : memory'[x] \in {memory[x], None}
    BY <2>2 DEF Without
  <2>4. queue'[r] = Append(queue[r], first) /\ \A x \in RunIds \ {r} : queue'[x] = queue[x]
    BY <1>0, <2>2
  <2>5. queue'[r] # <<>> /\ queue'[r][Len(queue'[r])] = first
    BY <1>0, <2>1, <2>4, LastOfAppend
  <2> QED BY <2>2, <2>3, <2>4, <2>5
<1>5. ASSUME NEW r \in RunIds, Change(r) PROVE DurableInv'
  <2>1. PICK k \in Kinds :
           LET next == [version |-> newest[r] + 1, kind |-> k]
           IN  memory' = [memory EXCEPT ![r] = next] /\ queue' = Saved(r, next)
    BY <1>5 DEF Change
  <2> DEFINE next == [version |-> newest[r] + 1, kind |-> k]
  <2>2. next \in File /\ next # None
    <3>1. newest[r] + 1 \in Nat
      BY <1>0
    <3> QED BY <3>1, FilesExist
  <2> HIDE DEF next
  <2>3. /\ memory' = [memory EXCEPT ![r] = next]
        /\ queue' = [queue EXCEPT ![r] = Append(@, next)]
        /\ fixed' = fixed /\ failed' = failed
    BY <1>5, <2>1 DEF Change, Saved, next
  <2>4. queue'[r] # <<>> /\ queue'[r][Len(queue'[r])] = next
    BY <1>0, <2>2, <2>3, LastOfAppend
  <2> QED BY <1>0, <2>3, <2>4
<1>6. ASSUME NEW r \in RunIds, SessionEnd(r) PROVE DurableInv'
  BY <1>0, <1>6 DEF SessionEnd, Saved
<1>7. ASSUME NEW s \in Sessions, SessionStart(s) PROVE DurableInv'
  BY <1>0, <1>7 DEF SessionStart
<1>8. ASSUME NEW r \in RunIds, NEW op \in {"end", "discard"}, Leave(r, op) PROVE DurableInv'
  BY <1>0, <1>8 DEF Leave
<1> QED BY <1>1, <1>2, <1>3, <1>4, <1>5, <1>6, <1>7, <1>8 DEF JobFree, Startup, Handlers

(* A write that leaves the queue is on the disk, or has failed.            *)
LEMMA DurableRun ==
    ASSUME TypeInv, JobInv, DurableInv, JobStep
    PROVE  DurableInv'
<1> USE DEF disk, history
<1>0. /\ memory \in [RunIds -> File \cup {None}] /\ fixed \in [RunIds -> File \cup {None}]
      /\ queue \in [RunIds -> Seq(File)] /\ failed \in SUBSET RunIds
      /\ job # None /\ job.run \in RunIds /\ job.op \in Ops /\ memory' = memory
  BY JobsRun DEF TypeInv, TypeOK
<1>1. job.op = "save" => queue[job.run] # <<>>
  BY <1>0 DEF TypeInv, TypeOK, JobOK
<1>2. job.op # "save" => memory[job.run] = None
  BY <1>0 DEF TypeInv, TypeOK, JobOK, Ops
\* Other runs are left alone.
<1>3. \A r \in RunIds \ {job.run} :
         fixed'[r] = fixed[r] /\ (r \in failed <=> r \in failed') /\ queue'[r] = queue[r]
  <2>1. fixed' = fixed \/ fixed' = Without(fixed, {job.run})
        \/ \E file : fixed' = [fixed EXCEPT ![job.run] = file]
    BY DEF JobStep, WriteTemp, Rename, RenameIndex, WriteFails, IndexFails, Unlink, UnlinkFails
  <2>2. failed' \in {failed, failed \ {job.run}, failed \cup {job.run}}
    BY DEF JobStep, WriteTemp, Rename, RenameIndex, WriteFails, IndexFails, Unlink, UnlinkFails
  <2>3. \A r \in RunIds \ {job.run} : queue'[r] = queue[r]
    BY <1>0, JobsRun, IsOver, GoesOn
  <2> QED BY <1>0, <2>1, <2>2, <2>3 DEF Without
<1>4. CASE job.op # "save"
  BY <1>0, <1>2, <1>3, <1>4 DEF DurableInv
<1>5. CASE job.op = "save" /\ queue' = queue
  BY <1>0, <1>1, <1>3, <1>5 DEF DurableInv
<1>6. CASE job.op = "save" /\ Over
  <2> DEFINE q == queue[job.run]
  <2>1. q \in Seq(File) /\ q # <<>> /\ queue'[job.run] = Tail(q)
    BY <1>0, <1>1, <1>6, IsOver
  <2>2. job.run \notin failed' => fixed'[job.run] = Head(q)
    <3>1. job.at # "unlink"
      BY <1>0, <1>6 DEF TypeInv, TypeOK, JobOK
    <3>2. CASE Rename
      BY <1>0, <1>6, <3>2 DEF Rename
    <3>3. CASE RenameIndex \/ IndexFails
      BY <1>0, <1>6, <3>3 DEF RenameIndex, IndexFails, JobInv
    <3>4. CASE WriteFails
      BY <1>0, <3>4 DEF WriteFails
    <3>5. CASE WriteTemp
      BY <1>0, <1>6, <3>5, GoesOn, IsOver DEF WriteTemp, Steps
    <3> QED BY <3>1, <3>2, <3>3, <3>4, <3>5 DEF JobStep, Unlink, UnlinkFails
  <2>3. memory[job.run] # None => q[Len(q)] = memory[job.run]
    BY <1>0, <2>1 DEF DurableInv
  <2>4. memory[job.run] # None =>
           /\ Tail(q) # <<>> => Tail(q)[Len(Tail(q))] = memory[job.run]
           /\ Tail(q) = <<>> => Head(q) = memory[job.run]
    BY <2>1, <2>3, LastOfTail
  <2> HIDE DEF q
  <2> QED BY <1>0, <1>3, <2>1, <2>2, <2>4 DEF DurableInv
<1> QED BY <1>4, <1>5, <1>6, JobsRun, GoesOn

(* Once its writes have landed and the last one did not fail, the file of  *)
(* a run in memory is the state it is in, for any number of waiting writes *)
(* and crashes: saveCheckpoint chains the writes of a run.                 *)
THEOREM QuietIsDurable == Spec => []QuietMeansDurable
<1>1. Init => JobInv /\ DurableInv
  BY DEF Init, JobInv, DurableInv
<1>2. TypeInv /\ JobInv /\ DurableInv /\ [Next]_vars => DurableInv'
  <2>1. UNCHANGED vars /\ DurableInv => DurableInv'
    BY DEF vars, disk, history, DurableInv
  <2> QED BY <2>1, DurableFree, DurableRun, StepCases
<1>3. DurableInv => QuietMeansDurable
  BY DEF DurableInv, QuietMeansDurable
<1> QED BY <1>1, <1>2, <1>3, InitType, TypeStep, JobStepInv, PTL DEF Spec

-----------------------------------------------------------------------------
(* The states of a run stay in order, whatever happens to them.            *)

(* A crash and a restart lose states, and never mix up their order.        *)
LEMMA RestartInOrder ==
    ASSUME NEW f \in File \cup {None}, NEW c \in File \cup {None}, NEW m, NEW q, NEW n \in Nat,
           InOrder(f, c, m, q, n),
           NEW f1 \in {f, None}, NEW c1 \in {c, None}, NEW m1 \in {f, None}
    PROVE  InOrder(f1, c1, m1, <<>>, n)
BY FilesAssumption DEF InOrder, File

(* A file or the memory of a run may go, and the rest stays in order.      *)
LEMMA LossInOrder ==
    ASSUME NEW r \in RunIds, TypeInv, OrderInv,
           fixed'[r] \in {fixed[r], None}, legacy'[r] \in {legacy[r], None},
           memory'[r] \in {memory[r], None}, queue'[r] = queue[r], newest'[r] = newest[r]
    PROVE  InOrder(fixed'[r], legacy'[r], memory'[r], queue'[r], newest'[r])
BY DEF OrderInv, InOrder

(* A new state goes to the end of the queue.                               *)
LEMMA NextInOrder ==
    ASSUME NEW f \in File \cup {None}, NEW c \in File \cup {None}, NEW m, NEW q \in Seq(File),
           NEW n \in Nat, InOrder(f, c, m, q, n),
           NEW e \in File, e.version = n + 1
    PROVE  InOrder(f, c, e, Append(q, e), n + 1)
<1> DEFINE a == Append(q, e)
<1>1. /\ a \in Seq(File) /\ a # <<>> /\ Len(a) = Len(q) + 1 /\ a[Len(a)] = e
      /\ \A i \in DOMAIN q : a[i] = q[i]
  BY LastOfAppend
<1>2. \A i \in DOMAIN a : i \in DOMAIN q \/ i = Len(a)
  BY <1>1
<1>3. \A i \in DOMAIN q : q[i].version \in 1..n
  BY DEF InOrder
<1>4. \A i \in DOMAIN a : a[i].version \in 1..(n + 1)
  BY <1>1, <1>2, <1>3
<1>5. \A i, j \in DOMAIN a : i <= j => a[i].version <= a[j].version
  <2> SUFFICES ASSUME NEW i \in DOMAIN a, NEW j \in DOMAIN a, i <= j
               PROVE  a[i].version <= a[j].version
    OBVIOUS
  <2>1. CASE j = Len(a)
    BY <1>1, <1>4, <2>1
  <2>2. CASE j # Len(a)
    BY <1>1, <1>2, <2>2 DEF InOrder
  <2> QED BY <2>1, <2>2
<1>6. f # None => f.version <= a[1].version
  BY <1>1, <1>2, <1>3 DEF InOrder
<1> HIDE DEF a
<1>7. InOrder(f, c, e, a, n + 1)
  BY <1>1, <1>4, <1>5, <1>6 DEF InOrder
<1> QED BY <1>7 DEF a

(* session_end queues the state in memory once more.                       *)
LEMMA AgainInOrder ==
    ASSUME NEW f \in File \cup {None}, NEW c, NEW m \in File, NEW q \in Seq(File), NEW n \in Nat,
           InOrder(f, c, m, q, n), m # None, q # <<>> => q[Len(q)] = m
    PROVE  InOrder(f, c, None, Append(q, m), n)
<1> DEFINE a == Append(q, m)
<1>1. /\ a \in Seq(File) /\ a # <<>> /\ Len(a) = Len(q) + 1 /\ a[Len(a)] = m
      /\ \A i \in DOMAIN q : a[i] = q[i]
  BY LastOfAppend
<1>2. \A i \in DOMAIN a : i \in DOMAIN q \/ i = Len(a)
  BY <1>1
<1>3. \A i \in DOMAIN q : q[i].version \in 1..n /\ q[i].version <= m.version
  BY DEF InOrder
<1>4. \A i \in DOMAIN a : a[i].version \in 1..n
  BY <1>1, <1>2, <1>3 DEF InOrder
<1>5. \A i, j \in DOMAIN a : i <= j => a[i].version <= a[j].version
  <2> SUFFICES ASSUME NEW i \in DOMAIN a, NEW j \in DOMAIN a, i <= j
               PROVE  a[i].version <= a[j].version
    OBVIOUS
  <2>1. CASE j = Len(a)
    BY <1>1, <1>2, <1>3, <1>4, <2>1
  <2>2. CASE j # Len(a)
    BY <1>1, <1>2, <2>2 DEF InOrder
  <2> QED BY <2>1, <2>2
<1>6. f # None => f.version <= a[1].version
  BY <1>1, <1>2, <1>3 DEF InOrder
<1> HIDE DEF a
<1>7. InOrder(f, c, None, a, n)
  BY <1>1, <1>4, <1>5, <1>6 DEF InOrder
<1> QED BY <1>7 DEF a

(* A write leaves the queue.                                               *)
LEMMA TailInOrder ==
    ASSUME NEW f \in File \cup {None}, NEW c, NEW m, NEW q \in Seq(File), NEW n \in Nat,
           InOrder(f, c, m, q, n), q # <<>>
    PROVE  InOrder(f, c, m, Tail(q), n)
<1> DEFINE t == Tail(q)
<1>1. t \in Seq(File) /\ Len(t) = Len(q) - 1 /\ \A i \in DOMAIN t : t[i] = q[i + 1]
  BY LastOfTail
<1>2. \A i \in DOMAIN t : i + 1 \in DOMAIN q
  BY <1>1
<1>3. /\ \A i \in DOMAIN t : t[i].version \in 1..n
      /\ \A i, j \in DOMAIN t : i <= j => t[i].version <= t[j].version
  BY <1>1, <1>2 DEF InOrder
<1>4. f # None /\ t # <<>> => f.version <= t[1].version
  <2> SUFFICES ASSUME f # None, t # <<>> PROVE f.version <= t[1].version
    OBVIOUS
  <2>1. 1 \in DOMAIN t /\ 1 \in DOMAIN q /\ 2 \in DOMAIN q /\ t[1] = q[2]
    BY <1>1
  <2>2. f.version \in Nat /\ q[1].version \in Nat /\ q[2].version \in Nat
    BY <2>1 DEF InOrder
  <2>3. f.version <= q[1].version /\ q[1].version <= q[2].version
    BY <2>1 DEF InOrder
  <2> QED BY <2>1, <2>2, <2>3
<1> HIDE DEF t
<1>5. InOrder(f, c, m, t, n)
  BY <1>3, <1>4 DEF InOrder
<1> QED BY <1>5 DEF t

(* A write reaches the file: nothing that waits is older.                  *)
LEMMA WriteInOrder ==
    ASSUME NEW f \in File \cup {None}, NEW c, NEW m, NEW q \in Seq(File), NEW n \in Nat,
           InOrder(f, c, m, q, n), q # <<>>, m # None => q[Len(q)] = m
    PROVE  InOrder(Head(q), c, m, q, n)
<1>1. Head(q) = q[1] /\ 1 \in DOMAIN q /\ Len(q) \in DOMAIN q /\ 1 <= Len(q)
  BY LastOfTail
<1>2. q[1].version \in 1..n /\ q[1].version <= q[Len(q)].version
  BY <1>1 DEF InOrder
<1> QED BY <1>1, <1>2 DEF InOrder

(* The states of a run stay in order when no call is under way.            *)
LEMMA OrderFree ==
    ASSUME TypeInv, DurableInv, OrderInv, JobFree
    PROVE  OrderInv'
<1> USE DEF disk, history
<1>0. /\ memory \in [RunIds -> File \cup {None}] /\ fixed \in [RunIds -> File \cup {None}]
      /\ legacy \in [RunIds -> File \cup {None}]
      /\ queue \in [RunIds -> Seq(File)] /\ newest \in [RunIds -> Nat]
      /\ phase # "serving" => \A r \in RunIds : memory[r] = None /\ queue[r] = <<>>
  BY DEF TypeInv, TypeOK
<1>1. job' # None /\ job'.op \in {"end", "discard"} => newest'[job'.run] > 0
  <2> SUFFICES ASSUME job' # None, job'.op \in {"end", "discard"} PROVE newest'[job'.run] > 0
    OBVIOUS
  <2>1. job'.run \in RunIds /\ memory[job'.run] # None /\ newest' = newest
    BY JobsBegin DEF Begins
  <2> QED BY <1>0, <2>1 DEF OrderInv, InOrder
<1> DEFINE Goal == \A r \in RunIds : InOrder(fixed'[r], legacy'[r], memory'[r], queue'[r], newest'[r])
<1>2. CASE Start
  <2>1. \A r \in RunIds : legacy'[r] \in {legacy[r], None}
    BY <1>2 DEF Start, Without
  <2>2. /\ fixed' = fixed /\ memory' = memory /\ queue' = queue /\ newest' = newest
    BY <1>2 DEF Start
  <2>3. Goal
    BY <2>1, <2>2, LossInOrder
  <2> QED BY <1>1, <2>3 DEF OrderInv
<1>3. CASE Restore
  <2>1. \A r \in RunIds : fixed'[r] \in {fixed[r], None} /\ memory'[r] \in {fixed[r], None}
    BY <1>3 DEF Restore, Without
  <2>2. /\ legacy' = legacy /\ newest' = newest /\ queue' = queue
        /\ \A r \in RunIds : queue[r] = <<>>
    BY <1>0, <1>3 DEF Restore
  <2>3. Goal
    BY <1>0, <2>1, <2>2, RestartInOrder DEF OrderInv
  <2> QED BY <1>1, <2>3 DEF OrderInv
<1>4. CASE Crash
  <2>1. /\ fixed' = fixed /\ legacy' = legacy /\ newest' = newest
        /\ \A r \in RunIds : memory'[r] = None /\ queue'[r] = <<>>
    BY <1>4 DEF Crash
  <2>2. Goal
    BY <1>0, <2>1, RestartInOrder DEF OrderInv
  <2> QED BY <1>1, <2>2 DEF OrderInv
<1>5. ASSUME NEW r \in RunIds, NEW e \in File, e.version = newest[r] + 1,
             fixed' = fixed, legacy' = legacy,
             memory'[r] = e, \A x \in RunIds \ {r} : memory'[x] \in {memory[x], None},
             queue' = [queue EXCEPT ![r] = Append(@, e)],
             newest' = [newest EXCEPT ![r] = @ + 1]
      PROVE  OrderInv'
  <2>1. InOrder(fixed'[r], legacy'[r], memory'[r], queue'[r], newest'[r])
    BY <1>0, <1>5, NextInOrder DEF OrderInv
  <2>2. ASSUME NEW x \in RunIds \ {r}
        PROVE  InOrder(fixed'[x], legacy'[x], memory'[x], queue'[x], newest'[x])
    <3>1. queue'[x] = queue[x] /\ newest'[x] = newest[x]
      BY <1>0, <1>5
    <3> QED BY <1>5, <3>1, LossInOrder
  <2>3. Goal
    BY <2>1, <2>2
  <2> QED BY <1>1, <2>3 DEF OrderInv
<1>6. ASSUME NEW r \in RunIds, Activate(r) PROVE OrderInv'
  <2> DEFINE first == [version |-> 1, kind |-> "active"]
             others == {x \in RunIds : x # r /\ Owner[x] = Owner[r]}
  <2>1. first \in File /\ first.version = newest[r] + 1
    <3>1. 1 \in Nat /\ "active" \in Kinds /\ newest[r] = 0
      BY <1>6 DEF Kinds, Activate
    <3> QED BY <3>1, FilesExist
  <2>2. /\ queue' = [queue EXCEPT ![r] = Append(@, first)]
        /\ memory' = [Without(memory, others) EXCEPT ![r] = first]
        /\ fixed' = fixed /\ legacy' = legacy /\ newest' = [newest EXCEPT ![r] = 1]
        /\ newest[r] = 0
    BY <1>6 DEF Activate, Saved
  <2> HIDE DEF first
  <2>3. memory'[r] = first /\ \A x \in RunIds \ {r} : memory'[x] \in {memory[x], None}
    BY <2>2 DEF Without
  <2>4. newest' = [newest EXCEPT ![r] = @ + 1]
    BY <2>2
  <2> QED BY <1>5, <2>1, <2>2, <2>3, <2>4
<1>7. ASSUME NEW r \in RunIds, Change(r) PROVE OrderInv'
  <2>1. PICK k \in Kinds :
           LET next == [version |-> newest[r] + 1, kind |-> k]
           IN  memory' = [memory EXCEPT ![r] = next] /\ queue' = Saved(r, next)
    BY <1>7 DEF Change
  <2> DEFINE next == [version |-> newest[r] + 1, kind |-> k]
  <2>2. next \in File /\ next.version = newest[r] + 1
    <3>1. newest[r] + 1 \in Nat
      BY <1>0
    <3> QED BY <3>1, FilesExist
  <2>3. /\ memory' = [memory EXCEPT ![r] = next]
        /\ queue' = [queue EXCEPT ![r] = Append(@, next)]
        /\ fixed' = fixed /\ legacy' = legacy /\ newest' = [newest EXCEPT ![r] = @ + 1]
    BY <1>7, <2>1 DEF Change, Saved
  <2> HIDE DEF next
  <2>4. memory'[r] = next /\ \A x \in RunIds \ {r} : memory'[x] \in {memory[x], None}
    BY <1>0, <2>3
  <2> QED BY <1>5, <2>2, <2>3, <2>4
<1>8. ASSUME NEW r \in RunIds, SessionEnd(r) PROVE OrderInv'
  <2>1. /\ fixed' = fixed /\ legacy' = legacy /\ newest' = newest
        /\ memory[r] # None /\ memory' = [memory EXCEPT ![r] = None]
        /\ queue' = [queue EXCEPT ![r] = Append(@, memory[r])] \/ queue' = queue
    BY <1>8 DEF SessionEnd, Saved
  <2>2. memory[r] \in File /\ memory'[r] = None
    BY <1>0, <2>1
  <2>3. InOrder(fixed'[r], legacy'[r], memory'[r], queue'[r], newest'[r])
    <3>1. CASE queue' = queue
      BY <2>1, <2>2, <3>1, LossInOrder
    <3>2. CASE queue' = [queue EXCEPT ![r] = Append(@, memory[r])]
      <4>1. queue'[r] = Append(queue[r], memory[r])
        BY <1>0, <3>2
      <4>2. queue[r] # <<>> => queue[r][Len(queue[r])] = memory[r]
        BY <2>1 DEF DurableInv
      <4>3. InOrder(fixed[r], legacy[r], memory[r], queue[r], newest[r])
        BY DEF OrderInv
      <4>4. InOrder(fixed[r], legacy[r], None, Append(queue[r], memory[r]), newest[r])
        BY <1>0, <2>1, <2>2, <4>2, <4>3, AgainInOrder
      <4> QED BY <2>1, <2>2, <4>1, <4>4
    <3> QED BY <2>1, <3>1, <3>2
  <2>4. \A x \in RunIds \ {r} :
           InOrder(fixed'[x], legacy'[x], memory'[x], queue'[x], newest'[x])
    BY <1>0, <2>1 DEF OrderInv
  <2>5. Goal
    BY <2>3, <2>4
  <2> QED BY <1>1, <2>5 DEF OrderInv
<1>9. ASSUME NEW s \in Sessions, SessionStart(s) PROVE OrderInv'
  <2>1. PICK r \in RunIds : queue[r] = <<>> /\ memory' = [memory EXCEPT ![r] = fixed[r]]
    BY <1>9 DEF SessionStart
  <2>2. fixed' = fixed /\ legacy' = legacy /\ newest' = newest /\ queue' = queue
    BY <1>9 DEF SessionStart
  <2>3. InOrder(fixed'[r], legacy'[r], memory'[r], queue'[r], newest'[r])
    BY <1>0, <2>1, <2>2, RestartInOrder DEF OrderInv
  <2>4. \A x \in RunIds \ {r} :
           InOrder(fixed'[x], legacy'[x], memory'[x], queue'[x], newest'[x])
    BY <1>0, <2>1, <2>2 DEF OrderInv
  <2>5. Goal
    BY <2>3, <2>4
  <2> QED BY <1>1, <2>5 DEF OrderInv
<1>10. ASSUME NEW r \in RunIds, NEW op \in {"end", "discard"}, Leave(r, op) PROVE OrderInv'
  <2>1. /\ fixed' = fixed /\ legacy' = legacy /\ newest' = newest /\ queue' = queue
        /\ memory' = [memory EXCEPT ![r] = None]
    BY <1>10 DEF Leave
  <2>2. \A x \in RunIds : memory'[x] \in {memory[x], None}
    BY <1>0, <2>1
  <2>3. Goal
    BY <2>1, <2>2, LossInOrder
  <2> QED BY <1>1, <2>3 DEF OrderInv
<1>11. CASE AllMoved \/ \E r \in RunIds : Move(r) \/ Write(r) \/ Refuse(r)
  <2>1. /\ fixed' = fixed /\ legacy' = legacy /\ newest' = newest /\ queue' = queue
        /\ memory' = memory
    BY <1>11 DEF AllMoved, Move, Write, Refuse
  <2> QED BY <1>1, <2>1 DEF OrderInv
<1> QED BY <1>2, <1>3, <1>4, <1>6, <1>7, <1>8, <1>9, <1>10, <1>11
        DEF JobFree, Startup, Handlers

(* The states of a run stay in order at every step of a call.              *)
LEMMA OrderRun ==
    ASSUME TypeInv, JobInv, DurableInv, OrderInv, JobStep
    PROVE  OrderInv'
<1> USE DEF disk, history
<1>0. /\ memory \in [RunIds -> File \cup {None}] /\ fixed \in [RunIds -> File \cup {None}]
      /\ legacy \in [RunIds -> File \cup {None}]
      /\ queue \in [RunIds -> Seq(File)] /\ newest \in [RunIds -> Nat]
      /\ job # None /\ job.run \in RunIds /\ job.op \in Ops
      /\ memory' = memory /\ newest' = newest
  BY JobsRun DEF TypeInv, TypeOK
<1>1. job' # None /\ job'.op \in {"end", "discard"} => newest'[job'.run] > 0
  BY <1>0, JobsRun, GoesOn, IsOver DEF OrderInv
<1>2. \A r \in RunIds : queue'[r] = queue[r] \/ (queue'[r] = Tail(queue[r]) /\ queue[r] # <<>>)
  BY <1>0, JobsRun, GoesOn, IsOver DEF TypeInv, TypeOK, JobOK
<1>3. \A r \in RunIds : /\ InOrder(fixed'[r], legacy'[r], memory[r], queue[r], newest[r])
                        /\ fixed'[r] \in File \cup {None}
  <2>1. CASE Rename
    <3>1. legacy' = legacy /\ \A r \in RunIds \ {job.run} : fixed'[r] = fixed[r]
      BY <1>0, <2>1 DEF Rename
    <3>2. CASE job.op = "save"
      <4>1. fixed'[job.run] = Head(queue[job.run]) /\ queue[job.run] # <<>>
        BY <1>0, <2>1, <3>2 DEF Rename, TypeInv, TypeOK, JobOK
      <4>2. memory[job.run] # None => queue[job.run][Len(queue[job.run])] = memory[job.run]
        BY <1>0, <4>1 DEF DurableInv
      <4>3. fixed'[job.run] \in File
        BY <1>0, <3>2, <4>1, HeadExists
      <4>4. InOrder(fixed'[job.run], legacy'[job.run], memory[job.run], queue[job.run],
                    newest[job.run])
        <5>1. InOrder(fixed[job.run], legacy[job.run], memory[job.run], queue[job.run],
                      newest[job.run])
          BY <1>0 DEF OrderInv
        <5>2. InOrder(Head(queue[job.run]), legacy[job.run], memory[job.run], queue[job.run],
                      newest[job.run])
          BY <1>0, <4>1, <4>2, <5>1, WriteInOrder
        <5> QED BY <3>1, <4>1, <5>2
      <4> QED BY <1>0, <3>1, <4>3, <4>4 DEF OrderInv
    <3>3. CASE job.op # "save"
      <4>1. job.op = "move"
        BY <1>0, <2>1, <3>3 DEF Rename, TypeInv, TypeOK, JobOK, Ops
      <4>2. memory[job.run] = None /\ queue[job.run] = <<>>
        BY <1>0, <4>1 DEF TypeInv, TypeOK, JobOK
      <4>3. fixed'[job.run] = legacy[job.run]
        BY <1>0, <2>1, <3>3 DEF Rename
      <4>4. InOrder(legacy[job.run], legacy[job.run], None, <<>>, newest[job.run])
        BY <1>0, <4>2 DEF OrderInv, InOrder
      <4> QED BY <1>0, <3>1, <4>2, <4>3, <4>4 DEF OrderInv
    <3> QED BY <3>2, <3>3
  <2>2. CASE ~Rename
    <3>1. \A r \in RunIds : fixed'[r] \in {fixed[r], None} /\ legacy'[r] \in {legacy[r], None}
      BY <2>2 DEF JobStep, WriteTemp, RenameIndex, WriteFails, IndexFails, Unlink, UnlinkFails,
                  Without
    <3> QED BY <1>0, <3>1 DEF OrderInv, InOrder
  <2> QED BY <2>1, <2>2
<1>4. ASSUME NEW r \in RunIds
      PROVE  InOrder(fixed'[r], legacy'[r], memory'[r], queue'[r], newest'[r])
  <2>1. InOrder(fixed'[r], legacy'[r], memory[r], queue[r], newest[r])
        /\ fixed'[r] \in File \cup {None}
    BY <1>3
  <2>2. queue[r] # <<>> =>
           InOrder(fixed'[r], legacy'[r], memory[r], Tail(queue[r]), newest[r])
    BY <1>0, <2>1, TailInOrder
  <2> QED BY <1>0, <1>2, <2>1, <2>2
<1> QED BY <1>1, <1>4 DEF OrderInv

-----------------------------------------------------------------------------
(* What is still to be moved, and what was given up, is left alone.        *)

(* A run of which anything is left has been in a state.                    *)
LEMMA VersionsArePositive ==
    ASSUME TypeInv, OrderInv, NEW r \in RunIds,
           fixed[r] # None \/ legacy[r] # None \/ memory[r] # None
    PROVE  newest[r] > 0
<1>1. newest[r] \in Nat /\ InOrder(fixed[r], legacy[r], memory[r], queue[r], newest[r])
  BY DEF TypeInv, TypeOK, OrderInv
<1> QED BY <1>1 DEF InOrder

(* Before it is moved, a legacy checkpoint is all there is of its run.     *)
LEMMA LegacyFree ==
    ASSUME TypeInv, OrderInv, LegacyInv, JobFree
    PROVE  LegacyInv'
<1> USE DEF LegacyInv, disk, history
<1>0. /\ memory \in [RunIds -> File \cup {None}] /\ fixed \in [RunIds -> File \cup {None}]
      /\ legacy \in [RunIds -> File \cup {None}]
      /\ queue \in [RunIds -> Seq(File)] /\ newest \in [RunIds -> Nat]
      /\ phase # "serving" => \A r \in RunIds : memory[r] = None /\ queue[r] = <<>>
  BY DEF TypeInv, TypeOK
<1>1. CASE Start
  <2>1. job' = None /\ phase' = "moving"
    BY <1>1 DEF Start, TypeInv, TypeOK, JobOK, Jobs, Ops
  <2>2. \A r \in RunIds : Is(legacy', r, "active") => legacy'[r] = legacy[r]
    BY <1>1 DEF Start, Without, Is
  <2> QED BY <1>1, <2>1, <2>2 DEF Start, Is
<1>2. CASE Restore
  <2>1. job' = None
    BY <1>2 DEF Restore, TypeInv, TypeOK, JobOK, Jobs, Ops
  <2> SUFFICES ASSUME NEW r \in RunIds \ stuck', Is(legacy', r, "active")
               PROVE  /\ memory'[r] = None /\ queue'[r] = <<>> /\ r \notin dropped'
                      /\ fixed'[r] # None =>
                            /\ fixed'[r] = legacy'[r]
                            /\ phase' = "serving" => r \in refused'
    BY <2>1
  <2>2. r \notin stuck /\ legacy' = legacy /\ refused' = refused /\ queue' = queue
    BY <1>2 DEF Restore
  <2>3. r \notin Resumable(fixed) \/ r \notin Resumable(legacy)
    BY <1>2 DEF Restore
  <2>4. fixed[r] # None => fixed[r] = legacy[r] /\ r \in refused
    BY <2>2, <2>3 DEF Resumable, Is
  <2>5. r \notin Closed(fixed)
    BY <2>2, <2>4 DEF Closed, Is
  <2>6. fixed'[r] = fixed[r] /\ r \notin dropped'
    BY <1>2, <2>2, <2>5 DEF Restore, Without
  <2>7. memory'[r] = None
    BY <1>2, <2>4 DEF Restore, Resumable, Is
  <2> QED BY <1>0, <1>2, <2>2, <2>4, <2>6, <2>7 DEF Restore
<1>3. CASE Crash
  BY <1>3 DEF Crash
<1>4. ASSUME NEW r \in RunIds, Activate(r) PROVE LegacyInv'
  <2>1. legacy[r] = None
    BY <1>4, VersionsArePositive DEF Activate
  <2>2. \A x \in RunIds \ {r} : memory'[x] \in {memory[x], None} /\ queue'[x] = queue[x]
    BY <1>0, <1>4 DEF Activate, Without, Saved
  <2> QED BY <1>4, <2>1, <2>2 DEF Activate, Is, Quiet
<1>5. ASSUME NEW r \in RunIds, Change(r) \/ SessionEnd(r) PROVE LegacyInv'
  <2>1. memory[r] # None
    BY <1>5 DEF Change, SessionEnd
  <2>2. \A x \in RunIds \ {r} : memory'[x] = memory[x] /\ queue'[x] = queue[x]
    BY <1>0, <1>5 DEF Change, SessionEnd, Saved
  <2>3. /\ job' = None /\ fixed' = fixed /\ legacy' = legacy /\ dropped' = dropped
        /\ stuck' = stuck /\ phase' = phase /\ refused' = refused
    BY <1>5 DEF Change, SessionEnd, Quiet
  <2> QED BY <2>1, <2>2, <2>3 DEF Is
<1>6. ASSUME NEW s \in Sessions, SessionStart(s) PROVE LegacyInv'
  <2>1. PICK r \in RunIds \ refused :
           fixed[r] # None /\ memory' = [memory EXCEPT ![r] = fixed[r]]
    BY <1>6 DEF SessionStart
  <2>2. r \in stuck \/ ~Is(legacy, r, "active")
    BY <1>6, <2>1 DEF SessionStart, Quiet
  <2> QED BY <1>0, <1>6, <2>1, <2>2 DEF SessionStart, Is, Quiet
<1>7. ASSUME NEW r \in RunIds, Write(r) \/ Move(r) \/ Refuse(r) PROVE LegacyInv'
  <2>1. /\ memory' = memory /\ queue' = queue /\ dropped' = dropped /\ fixed' = fixed
        /\ legacy' = legacy /\ stuck' = stuck /\ phase' = phase /\ refused \subseteq refused'
    BY <1>7 DEF Write, Move, Refuse
  <2>2. job' # None => job'.run \in RunIds /\ (job'.op = "move" \/ queue[job'.run] # <<>>)
    BY <1>7 DEF Write, Move, Refuse
  <2> QED BY <2>1, <2>2 DEF Is
<1>8. ASSUME NEW r \in RunIds, NEW op \in {"end", "discard"}, Leave(r, op) PROVE LegacyInv'
  BY <1>0, <1>8 DEF Leave, Is, Quiet
<1>9. CASE AllMoved
  BY <1>9 DEF AllMoved, Is
<1> QED BY <1>1, <1>2, <1>3, <1>4, <1>5, <1>6, <1>7, <1>8, <1>9 DEF JobFree, Startup, Handlers

(* The same, at every step of a call.                                      *)
LEMMA LegacyRun ==
    ASSUME TypeInv, LegacyInv, JobStep
    PROVE  LegacyInv'
<1> USE DEF LegacyInv, disk, history
<1>0. /\ fixed \in [RunIds -> File \cup {None}]
      /\ job # None /\ job.run \in RunIds /\ job.op \in Ops
      /\ phase' = phase /\ memory' = memory /\ refused' = refused /\ stuck' = stuck
      /\ job' # None => job'.run = job.run /\ job'.op = job.op
  BY JobsRun, GoesOn, IsOver DEF TypeInv, TypeOK
<1>1. \A r \in RunIds : legacy'[r] \in {legacy[r], None}
  BY DEF JobStep, WriteTemp, Rename, RenameIndex, WriteFails, IndexFails, Unlink, UnlinkFails,
         Without
<1>2. \A r \in RunIds \ {job.run} : /\ fixed'[r] = fixed[r] /\ queue'[r] = queue[r]
                                    /\ r \in dropped' => r \in dropped
  <2>1. \A r \in RunIds \ {job.run} : queue'[r] = queue[r]
    BY <1>0, JobsRun, IsOver, GoesOn
  <2> QED BY <1>0, <2>1 DEF JobStep, WriteTemp, Rename, RenameIndex, WriteFails, IndexFails,
                            Unlink, UnlinkFails, Without
<1>3. job.op = "move" =>
         /\ queue' = queue /\ dropped' = dropped /\ phase = "moving"
         /\ fixed'[job.run] \in {fixed[job.run], legacy[job.run]}
  <2> SUFFICES ASSUME job.op = "move"
               PROVE  /\ queue' = queue /\ dropped' = dropped /\ phase = "moving"
                      /\ fixed'[job.run] \in {fixed[job.run], legacy[job.run]}
    OBVIOUS
  <2>1. phase = "moving"
    BY <1>0 DEF TypeInv, TypeOK, JobOK
  <2>2. queue' = queue
    BY <1>0, JobsRun DEF Over, Goto
  <2>3. dropped' = dropped /\ fixed'[job.run] \in {fixed[job.run], legacy[job.run]}
    BY <1>0 DEF JobStep, WriteTemp, Rename, RenameIndex, WriteFails, IndexFails, Unlink,
                UnlinkFails
  <2> QED BY <2>1, <2>2, <2>3
<1>4. ASSUME NEW r \in RunIds \ stuck', Is(legacy', r, "active")
      PROVE  /\ memory'[r] = None /\ queue'[r] = <<>> /\ r \notin dropped'
             /\ job' # None /\ job'.run = r => job'.op = "move"
             /\ fixed'[r] # None =>
                   /\ fixed'[r] = legacy'[r]
                   /\ phase' = "serving" => r \in refused'
  <2>1. legacy'[r] = legacy[r] /\ Is(legacy, r, "active") /\ r \notin stuck
    BY <1>0, <1>1, <1>4 DEF Is
  <2>2. CASE r # job.run
    BY <1>0, <1>2, <2>1, <2>2
  <2>3. CASE r = job.run
    <3>1. /\ job.op = "move" /\ memory[r] = None /\ queue[r] = <<>> /\ r \notin dropped
          /\ fixed[r] # None => fixed[r] = legacy[r]
      BY <1>0, <2>1, <2>3
    <3>2. fixed'[r] # None => fixed'[r] = legacy'[r]
      BY <1>3, <2>1, <2>3, <3>1
    <3>3. queue' = queue /\ dropped' = dropped /\ phase' # "serving"
      BY <1>0, <1>3, <3>1
    <3>4. job' # None => job'.op = "move"
      BY <1>0, <3>1
    <3>5. memory'[r] = None /\ queue'[r] = <<>> /\ r \notin dropped'
      BY <1>0, <3>1, <3>3
    <3> QED BY <3>2, <3>3, <3>4, <3>5
  <2> QED BY <2>2, <2>3
<1> QED BY <1>4

(* A run that was given up does not come back when no call is under way.   *)
LEMMA DroppedFree ==
    ASSUME TypeInv, OrderInv, DroppedInv, JobFree
    PROVE  DroppedInv'
<1> USE DEF DroppedInv, disk, history
<1>0. /\ memory \in [RunIds -> File \cup {None}] /\ fixed \in [RunIds -> File \cup {None}]
      /\ queue \in [RunIds -> Seq(File)] /\ newest \in [RunIds -> Nat]
      /\ phase # "serving" => \A r \in RunIds : memory[r] = None /\ queue[r] = <<>>
      /\ dropped \in SUBSET RunIds
  BY DEF TypeInv, TypeOK
<1>1. CASE Restore
  <2> SUFFICES ASSUME NEW r \in dropped' \ stuck'
               PROVE  fixed'[r] = None /\ memory'[r] = None /\ queue'[r] = <<>> /\ newest'[r] > 0
    OBVIOUS
  <2>1. r \in RunIds /\ r \notin stuck /\ newest' = newest /\ queue'[r] = <<>>
    BY <1>0, <1>1 DEF Restore, Closed
  <2>2. CASE r \in dropped
    BY <1>1, <2>1, <2>2 DEF Restore, Without, Resumable, Is
  <2>3. CASE r \notin dropped
    <3>1. r \in Closed(fixed) /\ fixed'[r] = None
      BY <1>1, <2>1, <2>3 DEF Restore, Without
    <3>2. memory'[r] = None /\ fixed[r] # None
      BY <1>1, <2>1, <3>1 DEF Restore, Resumable, Closed, Is
    <3> QED BY <2>1, <3>1, <3>2, VersionsArePositive
  <2> QED BY <2>2, <2>3
<1>2. CASE Crash
  BY <1>0, <1>2 DEF Crash
<1>3. ASSUME NEW r \in RunIds, Activate(r) PROVE DroppedInv'
  <2>1. r \notin dropped \ stuck
    BY <1>3 DEF Activate
  <2>2. \A x \in RunIds \ {r} : /\ memory'[x] \in {memory[x], None} /\ queue'[x] = queue[x]
                                /\ newest'[x] = newest[x]
    BY <1>0, <1>3 DEF Activate, Without, Saved
  <2> QED BY <1>0, <1>3, <2>1, <2>2 DEF Activate
<1>4. ASSUME NEW r \in RunIds, Change(r) \/ SessionEnd(r) PROVE DroppedInv'
  <2>1. r \notin dropped \ stuck
    BY <1>4 DEF Change, SessionEnd
  <2>2. \A x \in RunIds \ {r} : /\ memory'[x] = memory[x] /\ queue'[x] = queue[x]
                                /\ newest'[x] = newest[x]
    BY <1>0, <1>4 DEF Change, SessionEnd, Saved
  <2>3. dropped' = dropped /\ stuck' = stuck /\ fixed' = fixed
    BY <1>4 DEF Change, SessionEnd
  <2> QED BY <1>0, <2>1, <2>2, <2>3
<1>5. ASSUME NEW s \in Sessions, SessionStart(s) PROVE DroppedInv'
  BY <1>0, <1>5 DEF SessionStart
<1>6. ASSUME NEW r \in RunIds, NEW op \in {"end", "discard"}, Leave(r, op) PROVE DroppedInv'
  BY <1>0, <1>6 DEF Leave
<1>7. CASE Start \/ AllMoved \/ \E r \in RunIds : Move(r) \/ Write(r) \/ Refuse(r)
  BY <1>7 DEF Start, AllMoved, Move, Write, Refuse
<1> QED BY <1>1, <1>2, <1>3, <1>4, <1>5, <1>6, <1>7 DEF JobFree, Startup, Handlers

(* The call that deletes a file ends with nothing left of the run.         *)
LEMMA DroppedRun ==
    ASSUME TypeInv, OrderInv, LegacyInv, DroppedInv, JobStep
    PROVE  DroppedInv'
<1> USE DEF DroppedInv, disk, history
<1>0. /\ dropped \in SUBSET RunIds /\ newest' = newest /\ memory' = memory /\ stuck' = stuck
      /\ job # None /\ job.run \in RunIds /\ job.op \in Ops
  BY JobsRun DEF TypeInv, TypeOK
<1>1. /\ \A r \in RunIds \ {job.run} : /\ fixed'[r] = fixed[r] /\ queue'[r] = queue[r]
                                       /\ r \in dropped' => r \in dropped
      /\ dropped' \in SUBSET RunIds
  <2>1. \A r \in RunIds \ {job.run} : queue'[r] = queue[r]
    BY <1>0, JobsRun, IsOver, GoesOn
  <2> QED BY <1>0, <2>1 DEF JobStep, WriteTemp, Rename, RenameIndex, WriteFails, IndexFails,
                            Unlink, UnlinkFails, Without, TypeInv, TypeOK
<1>2. ASSUME job.run \in dropped' \ stuck
      PROVE  /\ fixed'[job.run] = None /\ memory'[job.run] = None
             /\ queue'[job.run] = <<>> /\ newest'[job.run] > 0
  <2>1. CASE job.op = "save"
    <3>1. queue[job.run] # <<>> /\ job.at # "unlink"
      BY <1>0, <2>1 DEF TypeInv, TypeOK, JobOK
    <3>2. dropped' = dropped
      BY <3>1 DEF JobStep, WriteTemp, Rename, RenameIndex, WriteFails, IndexFails, Unlink,
                  UnlinkFails
    <3> QED BY <1>2, <3>1, <3>2
  <2>2. CASE job.op = "move"
    <3>1. Is(legacy, job.run, "active")
      BY <1>0, <2>2 DEF TypeInv, TypeOK, JobOK
    <3>2. dropped' = dropped
      BY <2>2 DEF JobStep, WriteTemp, Rename, RenameIndex, WriteFails, IndexFails, Unlink,
                  UnlinkFails
    <3> QED BY <1>0, <1>2, <3>1, <3>2 DEF LegacyInv
  <2>3. CASE job.op \in {"end", "discard"}
    <3>1. /\ memory[job.run] = None /\ queue[job.run] = <<>>
          /\ job.at \in {"unlink", "itemp", "irename"}
      BY <1>0, <2>3 DEF TypeInv, TypeOK, JobOK
    <3>2. queue' = queue
      BY <1>0, <2>3, JobsRun DEF Over, Goto
    <3>3. newest[job.run] > 0
      BY <1>0, <2>3 DEF OrderInv
    <3>4. fixed'[job.run] = None
      <4>1. CASE Unlink
        BY <1>0, <2>3, <4>1 DEF Unlink, Without
      <4>2. CASE ~Unlink
        BY <1>0, <1>2, <3>1, <4>2 DEF JobStep, WriteTemp, Rename, RenameIndex, WriteFails,
                                      IndexFails, UnlinkFails
      <4> QED BY <4>1, <4>2
    <3> QED BY <1>0, <3>1, <3>2, <3>3, <3>4
  <2> QED BY <1>0, <2>1, <2>2, <2>3 DEF Ops
<1>3. ASSUME NEW r \in dropped' \ stuck'
      PROVE  fixed'[r] = None /\ memory'[r] = None /\ queue'[r] = <<>> /\ newest'[r] > 0
  <2>1. CASE r = job.run
    BY <1>0, <1>2, <1>3, <2>1
  <2>2. CASE r # job.run
    <3>1. r \in RunIds /\ r \in dropped \ stuck
      BY <1>0, <1>1, <1>3, <2>2
    <3>2. fixed'[r] = fixed[r] /\ queue'[r] = queue[r] /\ memory' = memory /\ newest' = newest
      BY <1>0, <1>1, <2>2, <3>1
    <3>3. fixed[r] = None /\ memory[r] = None /\ queue[r] = <<>> /\ newest[r] > 0
      BY <3>1
    <3> QED BY <3>2, <3>3
  <2> QED BY <2>1, <2>2
<1> QED BY <1>3

-----------------------------------------------------------------------------
(* The files implement the register.                                       *)

(* What a restart would bring back is up to the files and the stuck runs.  *)
LEMMA KeptByFiles ==
    ASSUME NEW r \in RunIds, r \in stuck <=> r \in stuck',
           Is(legacy, r, "active") \/ Is(legacy', r, "active") => legacy'[r] = legacy[r],
           ~Is(legacy, r, "active") => fixed'[r] = fixed[r]
    PROVE  Kept(r)' = Kept(r)
BY DEF Kept, Copy, Is

(* What a restart would bring back is a state the run has been in.         *)
LEMMA KeptIsAVersion ==
    ASSUME TypeInv, OrderInv, NEW r \in RunIds
    PROVE  Kept(r) = None \/ (Kept(r) \in Nat /\ Kept(r) <= newest[r])
<1>1. /\ newest[r] \in Nat /\ InOrder(fixed[r], legacy[r], memory[r], queue[r], newest[r])
  BY DEF TypeInv, TypeOK, OrderInv
<1>2. Copy(r) # None => Copy(r).version \in 1..newest[r]
  BY <1>1 DEF Copy, InOrder, Is
<1> QED BY <1>1, <1>2 DEF Kept

(* The legacy checkpoints of the first start are what the register holds.  *)
LEMMA RegisterInit ==
    ASSUME Init PROVE Register!Init
<1>1. TypeInv
  BY InitType
<1>2. OrderInv
  <2> SUFFICES ASSUME NEW r \in RunIds
               PROVE  InOrder(fixed[r], legacy[r], memory[r], queue[r], newest[r])
    BY DEF Init, OrderInv
  <2>1. /\ fixed[r] = None /\ memory[r] = None /\ queue[r] = <<>>
        /\ legacy[r] # None => legacy[r].version = 1 /\ newest[r] = 1
    BY DEF Init
  <2> QED BY <2>1 DEF InOrder
<1>3. \A r \in RunIds : Kept(r) \in Nat \cup {None} /\ (Kept(r) # None => Kept(r) <= newest[r])
  BY <1>1, <1>2, KeptIsAVersion
<1>4. newest \in [RunIds -> Nat] /\ dropped \cup stuck = {}
  BY <1>1 DEF Init, TypeInv, TypeOK
<1> QED BY <1>3, <1>4 DEF Register!Init

(* A run moves on: a new state is worth a checkpoint.                      *)
LEMMA RegisterAdvance ==
    ASSUME TypeInv, NEW r \in RunIds, Activate(r) \/ Change(r)
    PROVE  Register!Advance(r)
<1>1. newest' = [newest EXCEPT ![r] = @ + 1]
  BY DEF Activate, Change, TypeInv, TypeOK
<1>2. fixed' = fixed /\ legacy' = legacy /\ stuck' = stuck /\ dropped' = dropped
  BY DEF Activate, Change, disk
<1>3. \A x \in RunIds : Kept(x)' = Kept(x)
  BY <1>2, KeptByFiles
<1> QED BY <1>1, <1>2, <1>3 DEF Register!Advance

(* Nothing a restart would notice.                                         *)
Unnoticed ==
    /\ newest' = newest /\ dropped' = dropped /\ stuck' = stuck
    /\ \A r \in RunIds : Kept(r)' = Kept(r)

(* What goes unnoticed is a stutter of the register.                       *)
LEMMA RegisterStutter ==
    ASSUME Unnoticed PROVE UNCHANGED Register!rvars
BY DEF Unnoticed, Register!rvars

(* A step that leaves the files alone goes unnoticed.                      *)
LEMMA QuietSteps ==
    ASSUME UNCHANGED <<newest, dropped, stuck, fixed, legacy>>
    PROVE  Unnoticed
BY KeptByFiles DEF Unnoticed

(* With no call under way, a step is one of the register or goes           *)
(* unnoticed.                                                              *)
LEMMA RegisterFree ==
    ASSUME TypeInv, LegacyInv, JobFree
    PROVE  Register!Next \/ Unnoticed
<1> USE DEF disk, history
<1>1. ASSUME NEW r \in RunIds, Activate(r) \/ Change(r) PROVE Register!Next
  BY <1>1, RegisterAdvance DEF Register!Next
<1>2. CASE Start
  <2>1. \A r \in RunIds : Is(legacy, r, "active") \/ Is(legacy', r, "active")
                             => legacy'[r] = legacy[r]
    BY <1>2 DEF Start, Without, Closed, Is
  <2>2. UNCHANGED <<newest, dropped, stuck, fixed>>
    BY <1>2 DEF Start
  <2> QED BY <2>1, <2>2, KeptByFiles DEF Unnoticed
<1>3. CASE Restore
  <2> DEFINE some == (dropped' \cup stuck') \ (dropped \cup stuck)
  <2>1. PICK old \in SUBSET Closed(fixed) :
           fixed' = Without(fixed, old) /\ dropped' = dropped \cup old
    BY <1>3 DEF Restore
  <2>2. /\ legacy' = legacy /\ newest' = newest
        /\ stuck' = stuck \cup (Resumable(fixed) \cap Resumable(legacy))
    BY <1>3 DEF Restore
  <2>3. \A r \in RunIds : r \in old \ stuck => ~Is(legacy, r, "active")
    BY <2>1 DEF LegacyInv, Closed, Is
  <2> DEFINE out == old \cup (stuck' \ stuck)
  <2>4. out \in SUBSET RunIds
    BY <2>1, <2>2 DEF Closed, Resumable
  <2>5. \A r \in out : Kept(r)' = None
    <3> SUFFICES ASSUME NEW r \in out PROVE Kept(r)' = None
      OBVIOUS
    <3>1. CASE r \in stuck'
      BY <3>1 DEF Kept
    <3>2. CASE r \notin stuck'
      <4>1. r \in RunIds /\ r \in old \ stuck /\ fixed'[r] = None
        BY <2>1, <2>2, <2>4, <3>2 DEF Without
      <4> QED BY <2>2, <2>3, <4>1 DEF Kept, Copy, Is
    <3> QED BY <3>1, <3>2
  <2>6. \A r \in RunIds \ out : Kept(r)' = Kept(r)
    <3> SUFFICES ASSUME NEW r \in RunIds \ out PROVE Kept(r)' = Kept(r)
      OBVIOUS
    <3>1. (r \in stuck <=> r \in stuck') /\ fixed'[r] = fixed[r]
      BY <2>1, <2>2 DEF Without
    <3> QED BY <2>2, <3>1, KeptByFiles
  <2>7. Register!GiveUp(out)
    <3>1. dropped' \cup stuck' = (dropped \cup stuck) \cup out
      BY <2>1, <2>2
    <3> HIDE DEF out
    <3> QED BY <2>2, <2>4, <2>5, <2>6, <3>1 DEF Register!GiveUp
  <2> QED BY <2>4, <2>7 DEF Register!Next
<1>4. CASE AllMoved \/ Crash \/ \E r \in RunIds : Move(r) \/ Write(r) \/ Refuse(r)
  BY <1>4, QuietSteps DEF AllMoved, Crash, Move, Write, Refuse
<1>5. CASE \/ \E r \in RunIds : SessionEnd(r)
           \/ \E s \in Sessions : SessionStart(s)
           \/ \E r \in RunIds, op \in {"end", "discard"} : Leave(r, op)
  BY <1>5, QuietSteps DEF SessionEnd, SessionStart, Leave
<1> QED BY <1>1, <1>2, <1>3, <1>4, <1>5 DEF JobFree, Startup, Handlers

(* A write reaches the disk: the file moves on, or stays where it was.     *)
LEMMA RegisterKeep ==
    ASSUME TypeInv, OrderInv, LegacyInv, DroppedInv, DurableInv, Rename, job.op = "save"
    PROVE  Register!Next \/ Unnoticed
<1> USE DEF disk, history
<1>0. /\ JobStep /\ job # None /\ job.run \in RunIds /\ queue[job.run] # <<>>
      /\ fixed \in [RunIds -> File \cup {None}] /\ queue[job.run] \in Seq(File)
      /\ newest[job.run] \in Nat
  <2>1. JobStep
    BY DEF JobStep
  <2> QED BY <2>1, JobsRun DEF TypeInv, TypeOK, JobOK
<1>r. PICK r \in RunIds : r = job.run
  BY <1>0
<1>1. /\ fixed' = [fixed EXCEPT ![r] = Head(queue[r])]
      /\ legacy' = legacy /\ newest' = newest /\ dropped' = dropped /\ stuck' = stuck
  BY <1>r DEF Rename
<1>2. \A x \in RunIds \ {r} : Kept(x)' = Kept(x)
  <2>1. \A x \in RunIds \ {r} : fixed'[x] = fixed[x]
    BY <1>0, <1>1
  <2> QED BY <1>1, <2>1, KeptByFiles
<1>3. CASE Kept(r)' = Kept(r)
  <2>1. \A x \in RunIds : Kept(x)' = Kept(x)
    BY <1>2, <1>3
  <2> QED BY <1>1, <2>1 DEF Unnoticed
<1>4. CASE Kept(r)' # Kept(r)
  <2>1. r \notin stuck /\ ~Is(legacy, r, "active")
    <3>1. CASE r \in stuck
      BY <1>1, <1>4, <3>1 DEF Kept
    <3>2. CASE Is(legacy, r, "active")
      BY <1>1, <1>4, <3>2 DEF Kept, Copy, Is
    <3> QED BY <3>1, <3>2
  <2>2. r \notin dropped
    BY <1>0, <1>r, <2>1 DEF DroppedInv
  <2>3. /\ fixed'[r] = Head(queue[r]) /\ Head(queue[r]) = queue[r][1] /\ 1 \in DOMAIN queue[r]
        /\ Head(queue[r]) # None
    BY <1>0, <1>1, <1>r, HeadExists, LastOfTail
  <2>4. /\ queue[r][1].version \in 1..newest[r]
        /\ fixed[r] # None => /\ fixed[r].version \in 1..newest[r]
                              /\ fixed[r].version <= queue[r][1].version
    BY <1>0, <1>r, <2>3 DEF OrderInv, InOrder
  <2>5. Kept(r)' = queue[r][1].version
    <3>1. ~Is(legacy', r, "active") /\ r \notin stuck' /\ fixed'[r] = queue[r][1] /\ fixed'[r] # None
      BY <1>1, <2>1, <2>3 DEF Is
    <3>2. Copy(r)' = fixed'[r]
      BY <3>1 DEF Copy, Is
    <3> QED BY <3>1, <3>2 DEF Kept
  <2>6. Kept(r) = IF fixed[r] = None THEN None ELSE fixed[r].version
    BY <2>1 DEF Kept, Copy
  <2> DEFINE v == queue[r][1].version
  <2>7. v \in 0..newest[r] /\ (Kept(r) # None => v > Kept(r)) /\ Kept(r)' = v
    BY <1>0, <1>r, <1>4, <2>4, <2>5, <2>6
  <2>8. PICK w \in 0..newest[r] : (Kept(r) # None => w > Kept(r)) /\ Kept(r)' = w
    BY <2>7
  <2>9. [x \in RunIds |-> Kept(x)]' = [[x \in RunIds |-> Kept(x)] EXCEPT ![r] = w]
    BY <1>2, <2>8
  <2>10. Register!Keep(r)
    BY <1>1, <2>1, <2>2, <2>8, <2>9 DEF Register!Keep
  <2> QED BY <2>10 DEF Register!Next
<1> QED BY <1>3, <1>4

(* Every step of a call is a step of the register or goes unnoticed.       *)
LEMMA RegisterRun ==
    ASSUME TypeInv, JobInv, OrderInv, LegacyInv, DroppedInv, DurableInv, JobStep
    PROVE  Register!Next \/ Unnoticed
<1> USE DEF disk, history
<1>0. /\ job # None /\ job.run \in RunIds /\ job.op \in Ops
      /\ newest' = newest /\ stuck' = stuck
      /\ legacy \in [RunIds -> File \cup {None}] /\ fixed \in [RunIds -> File \cup {None}]
  BY JobsRun DEF TypeInv, TypeOK
<1>r. PICK r \in RunIds : r = job.run
  BY <1>0
<1>1. CASE WriteTemp \/ RenameIndex \/ WriteFails \/ IndexFails \/ UnlinkFails
  BY <1>1, QuietSteps DEF WriteTemp, RenameIndex, WriteFails, IndexFails, UnlinkFails
<1>2. CASE Rename
  <2>1. CASE job.op = "save"
    BY <1>2, <2>1, RegisterKeep
  <2>2. CASE job.op # "save"
    <3>1. Is(legacy, r, "active")
      BY <1>0, <1>r, <1>2, <2>2 DEF Rename, TypeInv, TypeOK, JobOK, Ops
    <3>2. legacy' = legacy /\ dropped' = dropped /\ \A x \in RunIds \ {r} : fixed'[x] = fixed[x]
      BY <1>0, <1>r, <1>2 DEF Rename
    <3>3. Kept(r)' = Kept(r)
      BY <1>0, <3>1, <3>2 DEF Kept, Copy, Is
    <3>4. \A x \in RunIds \ {r} : Kept(x)' = Kept(x)
      BY <1>0, <3>2, KeptByFiles
    <3> QED BY <1>0, <3>2, <3>3, <3>4 DEF Unnoticed
  <2> QED BY <2>1, <2>2
<1>3. CASE Unlink
  <2>1. CASE job.op = "move"
    <3>1. /\ Is(legacy, r, "active") /\ fixed[r] = legacy[r]
      BY <1>0, <1>r, <1>3, <2>1 DEF Unlink, JobInv, TypeInv, TypeOK, JobOK
    <3>2. /\ fixed' = fixed /\ dropped' = dropped /\ legacy' = Without(legacy, {r})
      BY <1>3, <1>r, <2>1 DEF Unlink
    <3>3. \A x \in RunIds \ {r} : Kept(x)' = Kept(x)
      <4>1. \A x \in RunIds \ {r} : legacy'[x] = legacy[x]
        BY <3>2 DEF Without
      <4> QED BY <1>0, <3>2, <4>1, KeptByFiles
    <3>4. Kept(r)' = Kept(r)
      <4>1. legacy'[r] = None
        BY <3>2 DEF Without
      <4>2. Copy(r)' = Copy(r)
        BY <3>1, <3>2, <4>1 DEF Copy, Is
      <4> QED BY <1>0, <4>2 DEF Kept
    <3> QED BY <1>0, <3>2, <3>3, <3>4 DEF Unnoticed
  <2>2. CASE job.op # "move"
    <3>1. /\ fixed' = Without(fixed, {r}) /\ dropped' = dropped \cup {r}
          /\ legacy' = legacy
      BY <1>3, <1>r, <2>2 DEF Unlink
    <3>2. r \in stuck \/ ~Is(legacy, r, "active")
      BY <1>0, <1>r, <2>2 DEF LegacyInv
    <3>3. Kept(r)' = None
      <4>1. fixed'[r] = None
        BY <3>1 DEF Without
      <4> QED BY <1>0, <3>1, <3>2, <4>1 DEF Kept, Copy, Is
    <3>4. \A x \in RunIds \ {r} : Kept(x)' = Kept(x)
      <4>1. \A x \in RunIds \ {r} : fixed'[x] = fixed[x]
        BY <3>1 DEF Without
      <4> QED BY <1>0, <3>1, <4>1, KeptByFiles
    <3> DEFINE out == {r}
    <3>5. /\ out \in SUBSET RunIds /\ \A x \in out : Kept(x)' = None
          /\ \A x \in RunIds \ out : Kept(x)' = Kept(x)
          /\ dropped' \cup stuck' = (dropped \cup stuck) \cup out
      BY <1>0, <3>1, <3>3, <3>4
    <3> HIDE DEF out
    <3>6. Register!GiveUp(out)
      BY <1>0, <3>5 DEF Register!GiveUp
    <3> QED BY <3>5, <3>6 DEF Register!Next
  <2> QED BY <2>1, <2>2
<1> QED BY <1>1, <1>2, <1>3 DEF JobStep

(* The checkpoint files, written one system call at a time by a process    *)
(* that may die between any two of them, with calls that may fail and with *)
(* the move out of the legacy root, implement the register: what a restart *)
(* brings back of a run never goes back, and never returns once the run    *)
(* was given up.                                                           *)
THEOREM RegisterIsImplemented == Spec => ImplementsRegister
<1> DEFINE Inv == TypeInv /\ JobInv /\ DurableInv /\ OrderInv /\ LegacyInv /\ DroppedInv
<1>1. Init => Inv
  <2> SUFFICES ASSUME Init PROVE Inv
    OBVIOUS
  <2>1. TypeInv /\ JobInv /\ DurableInv
    BY InitType DEF Init, JobInv, DurableInv
  <2>2. OrderInv
    <3> SUFFICES ASSUME NEW r \in RunIds
                 PROVE  InOrder(fixed[r], legacy[r], memory[r], queue[r], newest[r])
      BY DEF Init, OrderInv
    <3>1. /\ fixed[r] = None /\ memory[r] = None /\ queue[r] = <<>>
          /\ legacy[r] # None => legacy[r].version = 1 /\ newest[r] = 1
      BY DEF Init
    <3> QED BY <3>1 DEF InOrder
  <2>3. LegacyInv /\ DroppedInv
    BY DEF Init, LegacyInv, DroppedInv
  <2> QED BY <2>1, <2>2, <2>3
<1>2. Inv /\ [Next]_vars => Inv'
  <2> SUFFICES ASSUME Inv, [Next]_vars PROVE Inv'
    OBVIOUS
  <2>1. TypeInv' /\ JobInv'
    BY TypeStep, JobStepInv
  <2>2. CASE JobFree
    BY <2>1, <2>2, DurableFree, OrderFree, LegacyFree, DroppedFree
  <2>3. CASE JobStep
    BY <2>1, <2>3, DurableRun, OrderRun, LegacyRun, DroppedRun
  <2>4. CASE UNCHANGED vars
    BY <2>1, <2>4 DEF vars, disk, history, DurableInv, OrderInv, LegacyInv, DroppedInv, Is
  <2> QED BY <2>2, <2>3, <2>4, StepCases
<1>3. Inv /\ [Next]_vars => [Register!Next]_(Register!rvars)
  <2> SUFFICES ASSUME Inv, [Next]_vars PROVE [Register!Next]_(Register!rvars)
    OBVIOUS
  <2>1. CASE JobFree
    BY <2>1, RegisterFree, RegisterStutter
  <2>2. CASE JobStep
    BY <2>2, RegisterRun, RegisterStutter
  <2>3. CASE UNCHANGED vars
    BY <2>3, QuietSteps, RegisterStutter DEF vars, disk, history
  <2> QED BY <2>1, <2>2, <2>3, StepCases
<1> HIDE DEF Inv
<1> QED BY <1>1, <1>2, <1>3, RegisterInit, PTL DEF Spec, ImplementsRegister, Register!Spec
=============================================================================
