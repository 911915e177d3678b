---------------------------- MODULE CheckpointFiles ----------------------------
(***************************************************************************)
(* The checkpoint directory of packages/autopilot (src/state-persister.ts) *)
(* one system call at a time: the process may die between any two of them  *)
(* and each may fail.  Store takes a write for one step; this module shows *)
(* what is left of that when it is not.                                    *)
(*                                                                         *)
(* A file is the number of the state it holds and what kind of state that  *)
(* is.  The calls of the persister are synchronous, so "job" is the one    *)
(* under way: nothing else happens in the process before it is over.       *)
(***************************************************************************)
EXTENDS Naturals, Sequences, FiniteSets

CONSTANTS RunIds,        \* run ids
          Sessions,      \* session keys
          Owner,         \* the session of each run
          None,          \* no file, no run, no state
          MaxVersion,    \* bound: states of a run that are worth a checkpoint
          MaxQueue,      \* bound: writes of a run that wait
          MaxCrashes     \* bound: crashes

(* "active" is restored at start-up, "parked" is a block that can be       *)
(* resumed, "closed" a block that cannot.  A run that is done or stopped   *)
(* has its file deleted instead.                                           *)
Kinds == {"active", "parked", "closed"}

File == [version : Nat, kind : Kinds]

Ops == {"save", "move", "end", "discard"}

Steps == {"temp", "rename", "itemp", "irename", "unlink"}

Jobs == [op : Ops, run : RunIds, at : Steps]

ASSUME FilesAssumption ==
    /\ Owner \in [RunIds -> Sessions]
    /\ None \notin RunIds \cup File \cup Jobs \cup Nat
    /\ {MaxVersion, MaxQueue, MaxCrashes} \subseteq Nat

VARIABLES phase,      \* down, moving legacy checkpoints, restoring, serving
          job,        \* the call under way, or None
          fixed,      \* the checkpoints in the fixed root
          legacy,     \* the checkpoints in the gateway's working directory
          index,      \* session-index.json of the fixed root
          orphans,    \* whether temporary files are left over in the fixed root
          memory,     \* stateByRun
          queue,      \* the promise chain of each run: states to be written
          todo,       \* legacy checkpoints listed and not yet moved
          refused,    \* runs loadCheckpoint refuses: no workspace, newer schema
          newest,     \* history: the last state of each run worth a checkpoint
          dropped,    \* history: runs whose file was deleted or swept
          stuck,      \* history: runs restored while a legacy copy was left
          failed,     \* history: runs whose last write failed
          crashes

disk == <<fixed, legacy, index, orphans>>
history == <<newest, dropped, stuck, failed>>
vars == <<phase, job, disk, memory, queue, todo, refused, history, crashes>>

Is(files, r, kind) == files[r] # None /\ files[r].kind = kind

(* A call under way has something to work on.                              *)
JobOK ==
    /\ job \in Jobs \cup {None}
    /\ job # None =>
          CASE job.op = "save" -> phase = "serving" /\ queue[job.run] # <<>> /\ job.at # "unlink"
            [] job.op = "move" -> phase = "moving" /\ Is(legacy, job.run, "active")
            [] job.op \in {"end", "discard"} ->
                  phase = "serving" /\ memory[job.run] = None /\ queue[job.run] = <<>>
                  /\ job.at \in {"unlink", "itemp", "irename"}

(* The types, and that a process which is down holds nothing.              *)
TypeOK ==
    /\ phase \in {"down", "moving", "restoring", "serving"}
    /\ JobOK
    /\ phase # "serving" => \A r \in RunIds : memory[r] = None /\ queue[r] = <<>>
    /\ fixed \in [RunIds -> File \cup {None}]
    /\ legacy \in [RunIds -> File \cup {None}]
    /\ index \in [Sessions -> RunIds \cup {None}]
    /\ orphans \in BOOLEAN
    /\ memory \in [RunIds -> File \cup {None}]
    /\ queue \in [RunIds -> Seq(File)]
    /\ todo \in SUBSET RunIds
    /\ refused \in SUBSET RunIds
    /\ newest \in [RunIds -> Nat]
    /\ {dropped, stuck, failed} \subseteq SUBSET RunIds
    /\ crashes \in Nat
-----------------------------------------------------------------------------
(* What listResumableCheckpoints names and loadCheckpoint accepts.         *)
Resumable(files) == {r \in RunIds : Is(files, r, "active")} \ refused

(* Closed checkpoints may be past their 24 hours when a list is made.      *)
Closed(files) == {r \in RunIds : Is(files, r, "closed")}

Without(files, gone) == [r \in RunIds |-> IF r \in gone THEN None ELSE files[r]]

Quiet == phase = "serving" /\ job = None

(* Fault: a save finds another under way and gives up.                     *)
SavedIfFree(r, file) == IF queue[r] = <<>> THEN [queue EXCEPT ![r] = <<file>>] ELSE queue

(* A state of r that is worth a checkpoint: saveCheckpoint puts its write  *)
(* behind those that wait.                                                 *)
Saved(r, file) == [queue EXCEPT ![r] = Append(@, file)]

(* The process may have started with any legacy checkpoints.               *)
Init ==
    /\ phase = "down" /\ job = None
    /\ fixed = [r \in RunIds |-> None]
    /\ \E old \in SUBSET RunIds, k \in Kinds :
          legacy = [r \in RunIds |-> IF r \in old THEN [version |-> 1, kind |-> k] ELSE None]
    /\ index = [s \in Sessions |-> None]
    /\ orphans = FALSE
    /\ memory = [r \in RunIds |-> None]
    /\ queue = [r \in RunIds |-> <<>>]
    /\ todo = {} /\ refused = {}
    /\ newest = [r \in RunIds |-> IF legacy[r] = None THEN 0 ELSE 1]
    /\ dropped = {} /\ stuck = {} /\ failed = {}
    /\ crashes = 0
-----------------------------------------------------------------------------
(* Start-up.  listResumableCheckpoints also sweeps the closed checkpoints  *)
(* that are too old; nothing reads the legacy index any more.              *)
Start ==
    /\ phase = "down"
    /\ phase' = "moving"
    /\ todo' = Resumable(legacy)
    /\ \E old \in SUBSET Closed(legacy) : legacy' = Without(legacy, old)
    /\ UNCHANGED <<job, fixed, index, orphans, memory, queue, refused, history, crashes>>

Move(r) ==
    /\ phase = "moving" /\ job = None /\ r \in todo
    /\ todo' = todo \ {r}
    /\ job' = [op |-> "move", run |-> r, at |-> "temp"]
    /\ UNCHANGED <<phase, disk, memory, queue, refused, history, crashes>>

AllMoved ==
    /\ phase = "moving" /\ job = None /\ todo = {}
    /\ phase' = "restoring"
    /\ UNCHANGED <<job, disk, memory, queue, todo, refused, history, crashes>>

(* The sweep of temporary files may fail, silently.                        *)
Restore ==
    /\ phase = "restoring"
    /\ phase' = "serving"
    /\ orphans' \in {FALSE, orphans}
    /\ \E old \in SUBSET Closed(fixed) :
          /\ fixed' = Without(fixed, old)
          /\ dropped' = dropped \cup old
    /\ memory' = [r \in RunIds |-> IF r \in Resumable(fixed) THEN fixed[r] ELSE None]
    /\ stuck' = stuck \cup (Resumable(fixed) \cap Resumable(legacy))
    /\ UNCHANGED <<job, legacy, index, queue, todo, refused, newest, failed, crashes>>

Crash ==
    /\ phase # "down" /\ crashes < MaxCrashes
    /\ phase' = "down" /\ job' = None
    /\ orphans' = (orphans \/ (job # None /\ job.at \in {"rename", "irename"}))
    /\ memory' = [r \in RunIds |-> None]
    /\ queue' = [r \in RunIds |-> <<>>]
    /\ todo' = {}
    /\ crashes' = crashes + 1
    /\ UNCHANGED <<fixed, legacy, index, refused, history>>

(* A workspace disappears.                                                 *)
Refuse(r) ==
    /\ phase \in {"down", "serving"} /\ job = None /\ r \notin refused
    /\ refused' = refused \cup {r}
    /\ UNCHANGED <<phase, job, disk, memory, queue, todo, history, crashes>>
-----------------------------------------------------------------------------
(* What the handlers do to a run, as far as the files are concerned.       *)

(* A new run takes the place of the one its session had, which may not be  *)
(* under way.                                                              *)
Activate(r) ==
    LET others == {x \in RunIds : x # r /\ Owner[x] = Owner[r]}
        first  == [version |-> 1, kind |-> "active"]
    IN  /\ Quiet /\ newest[r] = 0
        /\ \A x \in others : ~Is(memory, x, "active")
        /\ newest' = [newest EXCEPT ![r] = 1]
        /\ memory' = [Without(memory, others) EXCEPT ![r] = first]
        /\ queue' = Saved(r, first)
        /\ UNCHANGED <<phase, job, disk, todo, refused, dropped, stuck, failed, crashes>>

Change(r) ==
    /\ Quiet /\ memory[r] # None /\ memory[r].kind # "closed"
    /\ newest[r] < MaxVersion /\ Len(queue[r]) < MaxQueue
    /\ \E k \in Kinds :
          LET next == [version |-> newest[r] + 1, kind |-> k]
          IN  /\ memory' = [memory EXCEPT ![r] = next]
              /\ queue' = Saved(r, next)
    /\ newest' = [newest EXCEPT ![r] = @ + 1]
    /\ UNCHANGED <<phase, job, disk, todo, refused, dropped, stuck, failed, crashes>>

SessionEnd(r) ==
    /\ Quiet /\ memory[r] # None /\ Len(queue[r]) < MaxQueue
    /\ queue' = IF memory[r].kind = "active" THEN Saved(r, memory[r]) ELSE queue
    /\ memory' = [memory EXCEPT ![r] = None]
    /\ UNCHANGED <<phase, job, disk, todo, refused, history, crashes>>

(* Host events come when the queued writes of the run have landed.         *)
SessionStart(s) ==
    /\ Quiet /\ \A r \in RunIds : Owner[r] = s => memory[r] = None
    /\ \E r \in RunIds \ refused :
          /\ index[s] = r /\ fixed[r] # None /\ queue[r] = <<>>
          /\ memory' = [memory EXCEPT ![r] = fixed[r]]
    /\ UNCHANGED <<phase, job, disk, queue, todo, refused, history, crashes>>

(* Fault: the files go, the run stays in memory.                           *)
LeaveOnDisk(r, op) ==
    /\ Quiet /\ memory[r] # None /\ queue[r] = <<>>
    /\ job' = [op |-> op, run |-> r, at |-> "unlink"]
    /\ UNCHANGED <<phase, disk, memory, queue, todo, refused, history, crashes>>

(* The run is done or stopped ("end"), or thrown out of memory for good    *)
(* ("discard": evicted, or stuck and replaced).  A save of the same        *)
(* segment is the subject of Store.                                        *)
Leave(r, op) ==
    /\ Quiet /\ memory[r] # None /\ queue[r] = <<>>
    /\ memory' = [memory EXCEPT ![r] = None]
    /\ job' = [op |-> op, run |-> r, at |-> "unlink"]
    /\ UNCHANGED <<phase, disk, queue, todo, refused, history, crashes>>

Write(r) ==
    /\ Quiet /\ queue[r] # <<>>
    /\ job' = [op |-> "save", run |-> r, at |-> "temp"]
    /\ UNCHANGED <<phase, disk, memory, queue, todo, refused, history, crashes>>
-----------------------------------------------------------------------------
(* The steps of a call.                                                    *)

(* A save leaves the promise chain, whatever became of it.                 *)
Over ==
    /\ job' = None
    /\ queue' = IF job.op = "save" THEN [queue EXCEPT ![job.run] = Tail(@)] ELSE queue

Goto(at) ==
    /\ job' = [job EXCEPT !.at = at]
    /\ UNCHANGED queue

(* The index is up to date, or could not be written, which is only logged. *)
Indexed == IF job.op = "move" THEN Goto("unlink") ELSE Over

WriteTemp ==
    /\ job # None
    /\ \/ job.at = "temp"  /\ Goto("rename")
       \/ job.at = "itemp" /\ Goto("irename")
    /\ UNCHANGED <<phase, disk, memory, todo, refused, history, crashes>>

Rename ==
    /\ job # None /\ job.at = "rename"
    /\ fixed' = [fixed EXCEPT ![job.run] =
                   IF job.op = "save" THEN Head(queue[job.run]) ELSE legacy[job.run]]
    /\ failed' = failed \ {job.run}
    /\ IF index[Owner[job.run]] = job.run THEN Indexed ELSE Goto("itemp")
    /\ UNCHANGED <<phase, legacy, index, orphans, memory, todo, refused,
                   newest, dropped, stuck, crashes>>

RenameIndex ==
    /\ job # None /\ job.at = "irename"
    /\ index' = [index EXCEPT ![Owner[job.run]] = IF job.op = "end" THEN None ELSE job.run]
    /\ Indexed
    /\ UNCHANGED <<phase, fixed, legacy, orphans, memory, todo, refused, history, crashes>>

(* Fault: a failed write is only logged, as that of the index is, and the  *)
(* call goes on with the index and the legacy copy.                        *)
WriteFailsUnnoticed ==
    /\ job # None /\ job.at \in {"temp", "rename"}
    /\ orphans' \in {TRUE, orphans}
    /\ failed' = failed \cup {job.run}
    /\ Goto("itemp")
    /\ UNCHANGED <<phase, fixed, legacy, index, memory, todo, refused,
                   newest, dropped, stuck, crashes>>

(* A write that fails may leave its temporary file.                        *)
WriteFails ==
    /\ job # None /\ job.at \in {"temp", "rename"}
    /\ orphans' \in {TRUE, orphans}
    /\ failed' = failed \cup {job.run}
    /\ Over
    /\ UNCHANGED <<phase, fixed, legacy, index, memory, todo, refused,
                   newest, dropped, stuck, crashes>>

IndexFails ==
    /\ job # None /\ job.at \in {"itemp", "irename"}
    /\ orphans' \in {TRUE, orphans}
    /\ Indexed
    /\ UNCHANGED <<phase, fixed, legacy, index, memory, todo, refused, history, crashes>>

(* A run that ended also leaves the index, whichever run stands there.     *)
Unlinked ==
    IF job.op = "end" /\ index[Owner[job.run]] # None THEN Goto("itemp") ELSE Over

Unlink ==
    /\ job # None /\ job.at = "unlink"
    /\ IF job.op = "move"
       THEN /\ legacy' = Without(legacy, {job.run})
            /\ UNCHANGED <<fixed, dropped>>
       ELSE /\ fixed' = Without(fixed, {job.run})
            /\ dropped' = dropped \cup {job.run}
            /\ UNCHANGED legacy
    /\ Unlinked
    /\ UNCHANGED <<phase, index, orphans, memory, todo, refused, newest, stuck, failed, crashes>>

(* The file stays, and with it what a restart would bring back.            *)
UnlinkFails ==
    /\ job # None /\ job.at = "unlink"
    /\ Unlinked
    /\ UNCHANGED <<phase, disk, memory, todo, refused, history, crashes>>
-----------------------------------------------------------------------------
Handlers ==
    \/ \E r \in RunIds : Activate(r) \/ Change(r) \/ SessionEnd(r)
    \/ \E r \in RunIds, op \in {"end", "discard"} : Leave(r, op)
    \/ \E s \in Sessions : SessionStart(s)

JobStep == WriteTemp \/ Rename \/ RenameIndex \/ WriteFails \/ IndexFails
           \/ Unlink \/ UnlinkFails

Startup == Start \/ AllMoved \/ Restore \/ \E r \in RunIds : Move(r)

Next ==
    \/ Startup \/ Handlers \/ JobStep \/ Crash
    \/ \E r \in RunIds : Write(r) \/ Refuse(r)

Spec == Init /\ [][Next]_vars
-----------------------------------------------------------------------------
(* What a start with no failures would bring back: the legacy copy if      *)
(* there is one to move, since a move overwrites what is in the fixed root.*)
Copy(r) == IF Is(legacy, r, "active") THEN legacy[r] ELSE fixed[r]

Kept(r) == IF r \in stuck \/ Copy(r) = None THEN None ELSE Copy(r).version

Register == INSTANCE CheckpointRegister WITH
    kept  <- [r \in RunIds |-> Kept(r)],
    given <- dropped \cup stuck

(* Crashes, failed writes and start-up moves included, what a restart      *)
(* would bring back of a run only moves forward and, once the run has been *)
(* given up, stays away.  Nothing is promised of a run that was restored   *)
(* while a copy in the legacy root could not be removed.                   *)
ImplementsRegister == Register!Spec

(* The index never points at a run that has no file, unless the file was   *)
(* deleted or swept: the file is in place before its entry.                *)
IndexNeverDangles ==
    \A s \in Sessions :
        index[s] # None => fixed[index[s]] # None \/ index[s] \in dropped

(* Once its writes have landed and the last one did not fail, the file of  *)
(* a run in memory is the state it is in.                                  *)
QuietMeansDurable ==
    Quiet => \A r \in RunIds :
                memory[r] # None /\ queue[r] = <<>> /\ r \notin failed
                    => fixed[r] = memory[r]
=============================================================================
