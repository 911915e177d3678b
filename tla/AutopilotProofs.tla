---------------------------- MODULE AutopilotProofs ----------------------------
(***************************************************************************)
(* For any sessions, runs and limits: every run in memory stays well       *)
(* formed, the audit monitor is held at most once per running run, no run  *)
(* passes its continuation budget, what ended stays ended, checkpoints     *)
(* follow their runs, memory is bounded, and sessions find their runs.     *)
(***************************************************************************)
EXTENDS Autopilot, ReducerProofs, FiniteSetTheorems

(***************************************************************************)
(* What the operators of Store keep: the types, that every run in memory,  *)
(* on disk or in a queued write is a good state of the reducer, that an    *)
(* active run has an active checkpoint, and that the audit monitor is held *)
(* at most once per running run.                                           *)
(***************************************************************************)

(* The states a run can have once it has been activated.                   *)
States == {s \in Run : Good(s) /\ s.orch # "none"}

Slot == States \cup {None}

Stores ==
    [runs    : [RunIds -> Slot],
     owner   : [RunIds -> Sessions \cup {None}],
     current : [Sessions -> RunIds \cup {None}],
     canary  : SUBSET Sessions,
     armed   : SUBSET RunIds,
     audit   : {n \in Int : n >= AuditFloor},
     disk    : [RunIds -> Slot],
     index   : [Sessions -> RunIds \cup {None}],
     queue   : [RunIds -> Slot]]

(* A run that is anywhere belongs to a session.                            *)
Owned(w) ==
    \A r \in RunIds :
        w.runs[r] # None \/ w.disk[r] # None \/ w.queue[r] # None => w.owner[r] # None

(* What the disk will hold of a run once the queued writes have landed.    *)
Landed(w, r) == IF w.queue[r] # None THEN w.queue[r] ELSE w.disk[r]

(* The fields a change of which is worth a checkpoint.                     *)
Same(s, t) ==
    /\ s.orch = t.orch /\ s.blocked = t.blocked /\ s.evidence = t.evidence
    /\ s.enabled = t.enabled /\ s.total = t.total /\ s.needs = t.needs

(* Of an active run, a checkpoint that agrees with it is on disk or on its *)
(* way there; with checkpointing off there is none of anything.            *)
Backed(w) ==
    \A r \in RunIds :
        /\ Checkpointing /\ w.runs[r] # None /\ w.runs[r].orch \in ActiveStates
             => Landed(w, r) # None /\ Same(w.runs[r], Landed(w, r))
        /\ ~Checkpointing => w.disk[r] = None /\ w.queue[r] = None

(* Every hold of the audit monitor is that of a running run.               *)
Balanced(w) == w.audit <= Cardinality(RunningRuns(w))

(* What a write keeps even before its release.                             *)
Sturdy(w) == w \in Stores /\ Owned(w) /\ Backed(w)

Fine(w) == Sturdy(w) /\ Balanced(w)

(* All that a write to r does, but for what it releases.                   *)
Written(w, p, r, s) ==
    /\ p.runs = [w.runs EXCEPT ![r] = s]
    /\ p.owner = w.owner /\ p.current = w.current /\ p.canary = w.canary
    /\ p.armed = w.armed
    /\ \A q \in RunIds \ {r} : p.disk[q] = w.disk[q] /\ p.queue[q] = w.queue[q]
-----------------------------------------------------------------------------
(* A state is None or a good state, never both.                            *)
LEMMA NoneIsNoState == None \notin States /\ None \notin RunIds /\ None \notin Sessions
BY StoreAssumption DEF States

(* A good state is running exactly when its orchestration state is active. *)
LEMMA RunningIsActive ==
    ASSUME NEW s \in States
    PROVE  s.status = "running" <=> s.orch \in ActiveStates
BY DEF States, Good, Core, Run, DeriveStatus, ActiveStates, OrchestrationStates

(* A state that differs in its age or in the end of its backoff is good.   *)
LEMMA Aged ==
    ASSUME NEW s \in States, NEW a \in Ages, NEW d \in BOOLEAN
    PROVE  /\ [s EXCEPT !.age = a, !.due = d] \in States
           /\ [s EXCEPT !.age = a, !.due = d].orch = s.orch
           /\ [s EXCEPT !.age = a, !.due = d].status = s.status
           /\ Same(s, [s EXCEPT !.age = a, !.due = d])
<1> DEFINE x == [s EXCEPT !.age = a, !.due = d]
<1>1. Good(s) /\ s \in Run /\ s.status = DeriveStatus(s.orch, s.blocked) /\ s.orch # "none"
      BY DEF States, Good
<1>2. x \in Run BY <1>1 DEF Run, Ages
<1>3. /\ x.orch = s.orch /\ x.blocked = s.blocked /\ x.enabled = s.enabled
      /\ x.pause = s.pause /\ x.attempt = s.attempt
      /\ x.unverified = s.unverified /\ x.evidence = s.evidence
      /\ x.status = s.status /\ x.total = s.total /\ x.needs = s.needs
      BY <1>1 DEF Run
<1> HIDE DEF x
<1>4. Core(x) BY <1>1, <1>2, <1>3, Untouched
<1>5. x \in States BY <1>1, <1>2, <1>3, <1>4 DEF States, Good
<1>6. Same(s, x) BY <1>3 DEF Same
<1> QED BY <1>3, <1>5, <1>6 DEF x

(* An event that is sound for good states keeps them states.               *)
LEMMA SoundKeepsState ==
    ASSUME NEW s \in States, NEW t, Sound(s, t)
    PROVE  t \in States
<1>1. Good(t) /\ Kept(s, t) BY DEF Sound
<1>2. t \in Run BY <1>1 DEF Good, Core
<1>3. t.orch # "none" BY <1>1 DEF Kept, Moves, States, ActiveStates
<1> QED BY <1>1, <1>2, <1>3 DEF States

(* What a checkpoint keeps of a run is a state that agrees with the run.   *)
LEMMA SnapshotState ==
    ASSUME NEW s \in States
    PROVE  Snapshot(s) \in States /\ Same(s, Snapshot(s))
<1>1. Good(s) /\ s \in Run BY DEF States
<1>2. Restored(s) \in States BY <1>1, FlagSound, SoundKeepsState
<1>3. Same(s, Restored(s))
  <2> DEFINE y == [s EXCEPT !.pause = "none", !.degraded = TRUE]
  <2>1. y \in Run /\ Same(s, y) BY <1>1 DEF Run, Same
  <2>2. Restored(s) = Derived(y) BY DEF Restored
  <2> HIDE DEF y
  <2>3. Same(y, Restored(s)) BY <2>1, <2>2, DerivedFields DEF Same
  <2> QED BY <2>1, <2>3 DEF Same
<1>4. "fresh" \in Ages /\ FALSE \in BOOLEAN BY DEF Ages
<1>5. Snapshot(s) \in States /\ Same(Restored(s), Snapshot(s))
      BY <1>2, <1>4, Aged DEF Snapshot
<1> QED BY <1>3, <1>5 DEF Same
-----------------------------------------------------------------------------
(* The bound on releases is below zero.                                    *)
LEMMA FloorIsNegative == AuditFloor \in Int /\ AuditFloor <= -1
BY StoreAssumption DEF AuditFloor

(* persistAfterTransition writes or deletes the checkpoint of its run, and *)
(* touches nothing else but the index.                                     *)
LEMMA PersistFacts ==
    ASSUME NEW w \in Stores, NEW r \in RunIds, NEW s \in States, NEW changed \in BOOLEAN,
           NEW p, p = Persist(w, r, s, changed)
    PROVE  /\ p \in Stores
           /\ p.runs = w.runs /\ p.owner = w.owner /\ p.current = w.current
           /\ p.canary = w.canary /\ p.armed = w.armed /\ p.audit = w.audit
           /\ \A q \in RunIds \ {r} : p.disk[q] = w.disk[q] /\ p.queue[q] = w.queue[q]
           /\ p.disk[r] \in {w.disk[r], None}
           /\ \/ p.queue[r] = w.queue[r]
              \/ Checkpointing /\ p.queue[r] = Snapshot(s)
           /\ s.orch \in ActiveStates =>
                 /\ p.disk[r] = w.disk[r]
                 /\ p.queue[r] = IF changed /\ Checkpointing THEN Snapshot(s) ELSE w.queue[r]
<1>0. None \in Slot /\ Snapshot(s) \in Slot BY SnapshotState DEF Slot
<1>1. PICK d : d = DeleteCheckpoint(w, r) OBVIOUS
<1>2. /\ d \in Stores
      /\ d.runs = w.runs /\ d.owner = w.owner /\ d.current = w.current
      /\ d.canary = w.canary /\ d.armed = w.armed /\ d.audit = w.audit
      /\ d.queue = w.queue /\ d.disk = [w.disk EXCEPT ![r] = None]
      BY <1>0, <1>1 DEF DeleteCheckpoint, Stores
<1>3. d.disk[r] = None /\ \A q \in RunIds \ {r} : d.disk[q] = w.disk[q]
      BY <1>2 DEF Stores
<1>4. PICK c : c = ClearIndex(d, w.owner[r]) OBVIOUS
<1>5. /\ c \in Stores
      /\ c.runs = d.runs /\ c.owner = d.owner /\ c.current = d.current
      /\ c.canary = d.canary /\ c.armed = d.armed /\ c.audit = d.audit
      /\ c.queue = d.queue /\ c.disk = d.disk
  <2> DEFINE v == [d.index EXCEPT ![w.owner[r]] = None]
  <2>1. d.index \in [Sessions -> RunIds \cup {None}] BY <1>2 DEF Stores
  <2>2. v \in [Sessions -> RunIds \cup {None}] BY <2>1
  <2>3. c = [d EXCEPT !.index = v] BY <1>4 DEF ClearIndex
  <2> HIDE DEF v
  <2> QED BY <1>2, <2>2, <2>3 DEF Stores
<1>6. CASE EndedForGood(s)
  <2>1. p = c BY <1>1, <1>4, <1>6 DEF Persist
  <2>2. s.orch \notin ActiveStates BY <1>6 DEF EndedForGood, Stopped, ActiveStates
  <2>3. p.queue = w.queue /\ p.disk = d.disk BY <1>2, <1>5, <2>1
  <2>4. p.queue[r] = w.queue[r] /\ \A q \in RunIds \ {r} : p.queue[q] = w.queue[q] BY <2>3
  <2>5. p.disk[r] = None /\ \A q \in RunIds \ {r} : p.disk[q] = w.disk[q] BY <1>3, <2>3
  <2>6. /\ p.runs = w.runs /\ p.owner = w.owner /\ p.current = w.current
        /\ p.canary = w.canary /\ p.armed = w.armed /\ p.audit = w.audit
        BY <1>2, <1>5, <2>1
  <2> QED BY <1>5, <2>1, <2>2, <2>4, <2>5, <2>6
<1>7. CASE ~EndedForGood(s) /\ (~changed \/ ~Checkpointing)
  <2>1. p = w BY <1>7, StoreAssumption DEF Persist, Save
  <2> QED BY <1>7, <2>1
<1>8. CASE ~EndedForGood(s) /\ changed /\ Checkpointing
  <2>1. p = [w EXCEPT !.queue[r] = Snapshot(s)] BY <1>8 DEF Persist, Save
  <2>2. /\ p \in Stores
        /\ p.runs = w.runs /\ p.owner = w.owner /\ p.current = w.current
        /\ p.canary = w.canary /\ p.armed = w.armed /\ p.audit = w.audit
        /\ p.disk = w.disk /\ p.queue = [w.queue EXCEPT ![r] = Snapshot(s)]
        BY <1>0, <2>1 DEF Stores
  <2>3. p.queue[r] = Snapshot(s) /\ \A q \in RunIds \ {r} : p.queue[q] = w.queue[q]
        BY <2>2 DEF Stores
  <2> QED BY <1>8, <2>2, <2>3
<1> QED BY <1>6, <1>7, <1>8, StoreAssumption

(* The queued writes land, and nothing else changes but the index.         *)
LEMMA FlushFacts ==
    ASSUME NEW w \in Stores
    PROVE  LET f == Flush(w)
           IN  /\ f \in Stores
               /\ f.runs = w.runs /\ f.owner = w.owner /\ f.current = w.current
               /\ f.canary = w.canary /\ f.armed = w.armed /\ f.audit = w.audit
               /\ \A r \in RunIds : f.disk[r] = Landed(w, r) /\ f.queue[r] = None
<1> DEFINE disk == [r \in RunIds |-> IF w.queue[r] # None THEN w.queue[r] ELSE w.disk[r]]
           written(s) == {r \in RunIds : w.queue[r] # None /\ w.owner[r] = s}
           index == [s \in Sessions |-> IF written(s) = {} THEN w.index[s]
                                         ELSE CHOOSE r \in written(s) : TRUE]
           queue == [r \in RunIds |-> None]
<1>1. disk \in [RunIds -> Slot] /\ queue \in [RunIds -> Slot] BY DEF Stores, Slot
<1>2. index \in [Sessions -> RunIds \cup {None}]
  <2> SUFFICES ASSUME NEW s \in Sessions PROVE index[s] \in RunIds \cup {None} OBVIOUS
  <2>1. w.index[s] \in RunIds \cup {None} BY DEF Stores
  <2>2. written(s) # {} => (CHOOSE r \in written(s) : TRUE) \in written(s) OBVIOUS
  <2> QED BY <2>1, <2>2
<1>3. Flush(w) = [w EXCEPT !.disk = disk, !.index = index, !.queue = queue] BY DEF Flush
<1>4. \A r \in RunIds : disk[r] = Landed(w, r) /\ queue[r] = None BY DEF Landed
<1> HIDE DEF disk, index, queue
<1> QED BY <1>1, <1>2, <1>3, <1>4 DEF Stores
-----------------------------------------------------------------------------
(* A write to a run that has an owner keeps the store sturdy, if whatever  *)
(* moves the run in or out of the active states is worth a checkpoint.     *)
LEMMA WriteFacts ==
    ASSUME NEW w, Sturdy(w), NEW r \in RunIds, w.owner[r] # None,
           NEW s \in States, NEW changed \in BOOLEAN,
           changed \/ (w.runs[r] # None /\ Same(w.runs[r], s)),
           NEW p, p = Persist([w EXCEPT !.runs[r] = s], r, s, changed)
    PROVE  Sturdy(p) /\ Written(w, p, r, s) /\ p.audit = w.audit
<1>1. w \in Stores /\ Owned(w) /\ Backed(w) BY DEF Sturdy
<1>2. PICK x : x = [w EXCEPT !.runs[r] = s] OBVIOUS
<1>3. /\ x \in Stores /\ x.runs = [w.runs EXCEPT ![r] = s]
      /\ x.owner = w.owner /\ x.current = w.current /\ x.canary = w.canary
      /\ x.armed = w.armed /\ x.audit = w.audit /\ x.disk = w.disk /\ x.queue = w.queue
      BY <1>1, <1>2 DEF Stores, Slot
<1>4. x.runs[r] = s /\ \A q \in RunIds \ {r} : x.runs[q] = w.runs[q]
      BY <1>1, <1>3 DEF Stores
<1>5. p = Persist(x, r, s, changed) BY <1>2
<1>6. /\ p \in Stores
      /\ p.runs = x.runs /\ p.owner = x.owner /\ p.current = x.current
      /\ p.canary = x.canary /\ p.armed = x.armed /\ p.audit = x.audit
      /\ \A q \in RunIds \ {r} : p.disk[q] = x.disk[q] /\ p.queue[q] = x.queue[q]
      /\ p.disk[r] \in {x.disk[r], None}
      /\ p.queue[r] = x.queue[r] \/ (Checkpointing /\ p.queue[r] = Snapshot(s))
      /\ s.orch \in ActiveStates =>
            /\ p.disk[r] = x.disk[r]
            /\ p.queue[r] = IF changed /\ Checkpointing THEN Snapshot(s) ELSE x.queue[r]
  <2>1. x \in Stores BY <1>3
  <2>2. /\ p \in Stores
        /\ p.runs = x.runs /\ p.owner = x.owner /\ p.current = x.current
        /\ p.canary = x.canary /\ p.armed = x.armed /\ p.audit = x.audit
        BY <1>5, <2>1, PersistFacts
  <2>3. \A q \in RunIds \ {r} : p.disk[q] = x.disk[q] /\ p.queue[q] = x.queue[q]
        BY <1>5, <2>1, PersistFacts
  <2>4. /\ p.disk[r] \in {x.disk[r], None}
        /\ p.queue[r] = x.queue[r] \/ (Checkpointing /\ p.queue[r] = Snapshot(s))
        BY <1>5, <2>1, PersistFacts
  <2>5. s.orch \in ActiveStates =>
            /\ p.disk[r] = x.disk[r]
            /\ p.queue[r] = IF changed /\ Checkpointing THEN Snapshot(s) ELSE x.queue[r]
        BY <1>5, <2>1, PersistFacts
  <2> QED BY <2>2, <2>3, <2>4, <2>5
<1>7. /\ p.owner = w.owner /\ p.runs[r] = s /\ p.disk[r] \in {w.disk[r], None}
      /\ p.queue[r] = w.queue[r] \/ (Checkpointing /\ p.queue[r] = Snapshot(s))
      BY <1>3, <1>4, <1>6
<1>8. \A q \in RunIds \ {r} :
          p.runs[q] = w.runs[q] /\ p.disk[q] = w.disk[q] /\ p.queue[q] = w.queue[q]
      BY <1>3, <1>4, <1>6
<1>9. Owned(p)
  <2>1. \A q \in RunIds \ {r} :
           p.runs[q] # None \/ p.disk[q] # None \/ p.queue[q] # None => w.owner[q] # None
        BY <1>1, <1>8 DEF Owned
  <2> QED BY <1>7, <2>1 DEF Owned
<1>10. Backed(p)
  <2> SUFFICES ASSUME NEW q \in RunIds
               PROVE  /\ Checkpointing /\ p.runs[q] # None /\ p.runs[q].orch \in ActiveStates
                            => Landed(p, q) # None /\ Same(p.runs[q], Landed(p, q))
                      /\ ~Checkpointing => p.disk[q] = None /\ p.queue[q] = None
      BY DEF Backed
  <2>1. CASE q # r
    <3>1. p.runs[q] = w.runs[q] /\ p.disk[q] = w.disk[q] /\ p.queue[q] = w.queue[q]
          BY <1>8, <2>1
    <3>2. Landed(p, q) = Landed(w, q) BY <3>1 DEF Landed
    <3>3. /\ Checkpointing /\ w.runs[q] # None /\ w.runs[q].orch \in ActiveStates
               => Landed(w, q) # None /\ Same(w.runs[q], Landed(w, q))
          /\ ~Checkpointing => w.disk[q] = None /\ w.queue[q] = None
          BY <1>1 DEF Backed
    <3> QED BY <3>1, <3>2, <3>3
  <2>2. CASE q = r
    <3>1. ~Checkpointing => p.disk[r] = None /\ p.queue[r] = None
          BY <1>1, <1>7 DEF Backed
    <3>2. CASE s.orch \in ActiveStates /\ Checkpointing /\ changed
      <4>1. p.queue[r] = Snapshot(s) BY <1>6, <3>2
      <4>2. Landed(p, r) = Snapshot(s) /\ Same(s, Snapshot(s)) /\ Snapshot(s) # None
            BY <4>1, SnapshotState, NoneIsNoState DEF Landed
      <4> QED BY <1>7, <2>2, <3>2, <4>2
    <3>3. CASE s.orch \in ActiveStates /\ Checkpointing /\ ~changed
      <4>1. p.disk[r] = w.disk[r] /\ p.queue[r] = w.queue[r] BY <1>3, <1>6, <3>3
      <4>2. Landed(p, r) = Landed(w, r) BY <4>1 DEF Landed
      <4>3. /\ w.runs[r] # None /\ w.runs[r].orch \in ActiveStates
            /\ Same(w.runs[r], s)
            BY <3>3 DEF Same
      <4>4. Landed(w, r) # None /\ Same(w.runs[r], Landed(w, r))
            BY <1>1, <3>3, <4>3 DEF Backed
      <4>5. Landed(p, r) # None /\ Same(s, Landed(p, r)) BY <4>2, <4>3, <4>4 DEF Same
      <4> QED BY <1>7, <2>2, <3>3, <4>5
    <3>4. CASE s.orch \notin ActiveStates \/ ~Checkpointing
      <4>1. p.runs[r].orch = s.orch BY <1>7
      <4> QED BY <2>2, <3>1, <3>4, <4>1
    <3> QED BY <3>2, <3>3, <3>4
  <2> QED BY <2>1, <2>2
<1>11. /\ p.runs = [w.runs EXCEPT ![r] = s] /\ p.current = w.current
       /\ p.canary = w.canary /\ p.armed = w.armed /\ p.audit = w.audit
       BY <1>3, <1>6
<1>12. Written(w, p, r, s) BY <1>7, <1>8, <1>11 DEF Written
<1> QED BY <1>6, <1>9, <1>10, <1>11, <1>12 DEF Sturdy

(* Only the audit count changes when the monitor is released.              *)
LEMMA ReleaseFacts ==
    ASSUME NEW w, Sturdy(w), NEW c \in BOOLEAN, NEW p, p = ReleaseIf(w, c)
    PROVE  /\ Sturdy(p)
           /\ p.runs = w.runs /\ p.owner = w.owner /\ p.current = w.current
           /\ p.canary = w.canary /\ p.armed = w.armed
           /\ p.disk = w.disk /\ p.queue = w.queue
           /\ p.audit = IF c /\ w.audit > AuditFloor THEN w.audit - 1 ELSE w.audit
<1>1. w \in Stores /\ w.audit \in Int /\ w.audit >= AuditFloor BY DEF Sturdy, Stores
<1>2. /\ p \in Stores
      /\ p.runs = w.runs /\ p.owner = w.owner /\ p.current = w.current
      /\ p.canary = w.canary /\ p.armed = w.armed
      /\ p.disk = w.disk /\ p.queue = w.queue
      /\ p.audit = IF c /\ w.audit > AuditFloor THEN w.audit - 1 ELSE w.audit
  <2>1. CASE c
    <3> DEFINE v == IF w.audit > AuditFloor THEN w.audit - 1 ELSE w.audit
    <3>1. v \in Int /\ v >= AuditFloor BY <1>1, FloorIsNegative
    <3>2. p = [w EXCEPT !.audit = v] BY <1>1, <2>1 DEF ReleaseIf, Release, Stores
    <3>3. v = IF c /\ w.audit > AuditFloor THEN w.audit - 1 ELSE w.audit BY <2>1
    <3> HIDE DEF v
    <3> QED BY <1>1, <3>1, <3>2, <3>3 DEF Stores
  <2>2. CASE ~c BY <1>1, <2>2 DEF ReleaseIf
  <2> QED BY <2>1, <2>2
<1>3. Owned(p) BY <1>2 DEF Owned, Sturdy
<1>4. Backed(p) BY <1>2 DEF Backed, Landed, Sturdy
<1> QED BY <1>2, <1>3, <1>4 DEF Sturdy

(* How a write to one run changes the number of running runs.              *)
LEMMA CountFacts ==
    ASSUME NEW w \in Stores
    PROVE  IsFiniteSet(RunningRuns(w)) /\ Cardinality(RunningRuns(w)) \in Nat
<1>1. RunningRuns(w) \in SUBSET RunIds BY DEF RunningRuns, InMemory
<1> QED BY <1>1, StoreAssumption, FS_Subset, FS_CardinalityType

(* A write to one run changes the number of running runs by one at most.   *)
LEMMA WriteCounts ==
    ASSUME NEW w \in Stores, NEW x \in Stores, NEW r \in RunIds, NEW s \in States,
           x.runs = [w.runs EXCEPT ![r] = s]
    PROVE  LET before == Cardinality(RunningRuns(w))
               after  == Cardinality(RunningRuns(x))
           IN  IF s.status = "running"
               THEN after = IF r \in RunningRuns(w) THEN before ELSE before + 1
               ELSE after = IF r \in RunningRuns(w) THEN before - 1 ELSE before
<1>1. s # None BY NoneIsNoState
<1>2. x.runs[r] = s /\ \A q \in RunIds \ {r} : x.runs[q] = w.runs[q] BY DEF Stores
<1>3. s.status = "running" => RunningRuns(x) = RunningRuns(w) \cup {r}
      BY <1>1, <1>2 DEF RunningRuns, InMemory
<1>4. s.status # "running" => RunningRuns(x) = RunningRuns(w) \ {r}
      BY <1>1, <1>2 DEF RunningRuns, InMemory
<1> QED BY <1>3, <1>4, CountFacts, FS_AddElement, FS_RemoveElement

(* Whoever takes a run out of running releases the monitor.                *)
LEMMA WriteIsFine ==
    ASSUME NEW w, Fine(w), NEW r \in RunIds, w.owner[r] # None,
           NEW s \in States, NEW changed \in BOOLEAN,
           changed \/ (w.runs[r] # None /\ Same(w.runs[r], s)),
           NEW c \in BOOLEAN, r \in RunningRuns(w) /\ s.status # "running" => c,
           NEW p, p = ReleaseIf(Persist([w EXCEPT !.runs[r] = s], r, s, changed), c)
    PROVE  /\ Fine(p)
           /\ Written(w, p, r, s)
           /\ p.audit = IF c /\ w.audit > AuditFloor THEN w.audit - 1 ELSE w.audit
<1>0. Sturdy(w) /\ w \in Stores /\ w.audit \in Int /\ w.audit >= AuditFloor
      BY DEF Fine, Sturdy, Stores
<1>1. PICK x : x = Persist([w EXCEPT !.runs[r] = s], r, s, changed) OBVIOUS
<1>2. Sturdy(x) BY <1>0, <1>1, WriteFacts
<1>3. Written(w, x, r, s) BY <1>0, <1>1, WriteFacts
<1>4. x.audit = w.audit BY <1>0, <1>1, WriteFacts
<1>5. x.runs = [w.runs EXCEPT ![r] = s] BY <1>3 DEF Written
<1>6. p = ReleaseIf(x, c) BY <1>1
<1>7. /\ Sturdy(p)
      /\ p.runs = x.runs /\ p.owner = x.owner /\ p.current = x.current
      /\ p.canary = x.canary /\ p.armed = x.armed
      /\ p.disk = x.disk /\ p.queue = x.queue
  <2>1. /\ Sturdy(p) /\ p.runs = x.runs /\ p.owner = x.owner /\ p.current = x.current
        BY <1>2, <1>6, ReleaseFacts
  <2>2. /\ p.canary = x.canary /\ p.armed = x.armed /\ p.disk = x.disk /\ p.queue = x.queue
        BY <1>2, <1>6, ReleaseFacts
  <2> QED BY <2>1, <2>2
<1>8. p.audit = IF c /\ x.audit > AuditFloor THEN x.audit - 1 ELSE x.audit
      BY <1>2, <1>6, ReleaseFacts
<1>9. Balanced(p)
  <2> DEFINE before == Cardinality(RunningRuns(w))
             after  == Cardinality(RunningRuns(p))
  <2>1. p \in Stores /\ p.runs = [w.runs EXCEPT ![r] = s] BY <1>5, <1>7 DEF Sturdy
  <2>2. IF s.status = "running"
        THEN after = IF r \in RunningRuns(w) THEN before ELSE before + 1
        ELSE after = IF r \in RunningRuns(w) THEN before - 1 ELSE before
        BY <1>0, <2>1, WriteCounts
  <2>3. before \in Nat /\ after \in Nat BY <1>0, <2>1, CountFacts
  <2>4. w.audit <= before BY DEF Fine, Balanced
  <2>5. p.audit = IF c /\ w.audit > AuditFloor THEN w.audit - 1 ELSE w.audit BY <1>4, <1>8
  <2> HIDE DEF before, after
  <2>6. p.audit <= after BY <1>0, <2>2, <2>3, <2>4, <2>5, FloorIsNegative
  <2> QED BY <2>6 DEF Balanced, after
<1>10. Written(w, p, r, s) BY <1>3, <1>7 DEF Written
<1> QED BY <1>4, <1>7, <1>8, <1>9, <1>10 DEF Fine

(* setState of a run in memory, with or without the release.               *)
LEMMA PutIsFine ==
    ASSUME NEW w, Fine(w), NEW r \in InMemory(w), NEW s \in States,
           NEW c \in BOOLEAN, r \in RunningRuns(w) /\ s.status # "running" => c,
           NEW p, p = ReleaseIf(Put(w, r, s), c)
    PROVE  /\ Fine(p)
           /\ Written(w, p, r, s)
           /\ p.audit = IF c /\ w.audit > AuditFloor THEN w.audit - 1 ELSE w.audit
<1>1. r \in RunIds /\ w.runs[r] # None BY DEF InMemory
<1>2. w.owner[r] # None BY <1>1 DEF Fine, Sturdy, Owned
<1>3. PICK changed \in BOOLEAN : changed = ShouldCheckpoint(w.runs[r], s)
      BY DEF ShouldCheckpoint
<1>4. changed \/ Same(w.runs[r], s) BY <1>3 DEF ShouldCheckpoint, Same
<1>5. p = ReleaseIf(Persist([w EXCEPT !.runs[r] = s], r, s, changed), c) BY <1>3 DEF Put
<1>6. Fine(p) BY <1>1, <1>2, <1>4, <1>5, WriteIsFine
<1>7. Written(w, p, r, s) BY <1>1, <1>2, <1>4, <1>5, WriteIsFine
<1>8. p.audit = IF c /\ w.audit > AuditFloor THEN w.audit - 1 ELSE w.audit
      BY <1>1, <1>2, <1>4, <1>5, WriteIsFine
<1> QED BY <1>6, <1>7, <1>8

(* Persisting a run again under a new goal changes no run.                 *)
LEMMA RewriteIsFine ==
    ASSUME NEW w, Fine(w), NEW r \in InMemory(w),
           NEW p, p = Rewrite(w, r, w.runs[r])
    PROVE  /\ Fine(p)
           /\ p.runs = w.runs /\ p.owner = w.owner /\ p.current = w.current
           /\ p.canary = w.canary
<1>1. r \in RunIds /\ w.runs[r] # None BY DEF InMemory
<1>2. w.owner[r] # None BY <1>1 DEF Fine, Sturdy, Owned
<1>3. w.runs[r] \in States BY <1>1 DEF Fine, Sturdy, Stores, Slot
<1>4. p = ReleaseIf(Persist([w EXCEPT !.runs[r] = w.runs[r]], r, w.runs[r], TRUE), FALSE)
      BY DEF Rewrite, ReleaseIf
<1>5. r \in RunningRuns(w) => w.runs[r].status = "running" BY DEF RunningRuns
<1>6. Fine(p) BY <1>1, <1>2, <1>3, <1>4, <1>5, WriteIsFine
<1>7. Written(w, p, r, w.runs[r]) BY <1>1, <1>2, <1>3, <1>4, <1>5, WriteIsFine
<1>8. [w.runs EXCEPT ![r] = w.runs[r]] = w.runs BY DEF Fine, Sturdy, Stores
<1> QED BY <1>6, <1>7, <1>8 DEF Written
-----------------------------------------------------------------------------
(* The larger of two.                                                      *)
LEMMA MaxOfTwo ==
    ASSUME NEW a \in Int, NEW b \in Int
    PROVE  Max({a, b}) = IF a >= b THEN a ELSE b
<1> DEFINE m == IF a >= b THEN a ELSE b
<1>1. m \in {a, b} /\ \A y \in {a, b} : m >= y OBVIOUS
<1>2. \A x \in {a, b} : (\A y \in {a, b} : x >= y) => x = m OBVIOUS
<1> QED BY <1>1, <1>2 DEF Max

(* Forgetting runs, whatever else becomes of their checkpoints, keeps the  *)
(* store fine if their holds of the audit monitor go with them.            *)
LEMMA DropIsFine ==
    ASSUME NEW w, Fine(w), NEW gone \in SUBSET RunIds, NEW x \in Stores,
           x.runs = [q \in RunIds |-> IF q \in gone THEN None ELSE w.runs[q]],
           x.owner = w.owner,
           \A q \in RunIds :
              /\ q \notin gone => x.disk[q] = w.disk[q] /\ x.queue[q] = w.queue[q]
              /\ x.disk[q] \in {w.disk[q], None}
              /\ x.queue[q] = w.queue[q] \/ (Checkpointing /\ w.owner[q] # None),
           \/ x.audit <= w.audit - Cardinality(gone \cap RunningRuns(w))
           \/ x.audit = AuditFloor
    PROVE  Fine(x)
<1>1. Owned(w) /\ Backed(w) /\ w \in Stores BY DEF Fine, Sturdy
<1>2. Owned(x)
  <2> SUFFICES ASSUME NEW q \in RunIds,
                      x.runs[q] # None \/ x.disk[q] # None \/ x.queue[q] # None
               PROVE  w.owner[q] # None
      BY DEF Owned
  <2>1. x.runs[q] # None => w.runs[q] # None OBVIOUS
  <2>2. x.disk[q] # None => w.disk[q] # None OBVIOUS
  <2>3. x.queue[q] # None => w.queue[q] # None \/ w.owner[q] # None OBVIOUS
  <2> QED BY <1>1, <2>1, <2>2, <2>3 DEF Owned
<1>3. Backed(x)
  <2> SUFFICES ASSUME NEW q \in RunIds
               PROVE  /\ Checkpointing /\ x.runs[q] # None /\ x.runs[q].orch \in ActiveStates
                            => Landed(x, q) # None /\ Same(x.runs[q], Landed(x, q))
                      /\ ~Checkpointing => x.disk[q] = None /\ x.queue[q] = None
      BY DEF Backed
  <2>1. /\ Checkpointing /\ w.runs[q] # None /\ w.runs[q].orch \in ActiveStates
             => Landed(w, q) # None /\ Same(w.runs[q], Landed(w, q))
        /\ ~Checkpointing => w.disk[q] = None /\ w.queue[q] = None
        BY <1>1 DEF Backed
  <2>2. x.runs[q] = IF q \in gone THEN None ELSE w.runs[q] OBVIOUS
  <2>3. q \notin gone => Landed(x, q) = Landed(w, q) BY DEF Landed
  <2>4. ~Checkpointing => x.disk[q] \in {w.disk[q], None} /\ x.queue[q] = w.queue[q] OBVIOUS
  <2> QED BY <2>1, <2>2, <2>3, <2>4
<1>4. Balanced(x)
  <2> DEFINE run == RunningRuns(w)
             before == Cardinality(run)
             held   == Cardinality(run \cap gone)
             after  == Cardinality(RunningRuns(x))
  <2>1. RunningRuns(x) = run \ gone BY DEF RunningRuns, InMemory
  <2>2. IsFiniteSet(run) /\ before \in Nat BY <1>1, CountFacts
  <2>3. IsFiniteSet(run \cap gone) BY <2>2, FS_Intersection
  <2>4. held \in Nat BY <2>3, FS_CardinalityType
  <2>5. after = before - held BY <2>1, <2>2, FS_Difference
  <2>6. after \in Nat BY CountFacts
  <2>7. gone \cap run = run \cap gone OBVIOUS
  <2>8. x.audit <= w.audit - held \/ x.audit = AuditFloor BY <2>7
  <2>9. w.audit <= before BY DEF Fine, Balanced
  <2>10. x.audit \in Int /\ w.audit \in Int BY <1>1 DEF Stores
  <2> HIDE DEF before, held, after
  <2>11. x.audit <= after
         BY <2>2, <2>4, <2>5, <2>6, <2>8, <2>9, <2>10, FloorIsNegative
  <2> QED BY <2>11 DEF Balanced, after
<1> QED BY <1>2, <1>3, <1>4 DEF Fine, Sturdy

(* The queued writes land.                                                 *)
LEMMA FlushIsFine ==
    ASSUME NEW w, Fine(w), NEW f, f = Flush(w)
    PROVE  /\ Fine(f)
           /\ f.runs = w.runs /\ f.owner = w.owner
           /\ \A r \in RunIds : f.queue[r] = None
<1>1. Owned(w) /\ Backed(w) /\ w \in Stores BY DEF Fine, Sturdy
<1>2. /\ f \in Stores /\ f.runs = w.runs /\ f.owner = w.owner /\ f.audit = w.audit
      BY <1>1, FlushFacts
<1>3. \A r \in RunIds : f.disk[r] = Landed(w, r) /\ f.queue[r] = None
      BY <1>1, FlushFacts
<1>4. \A r \in RunIds : Landed(f, r) = Landed(w, r) BY <1>3 DEF Landed
<1>5. Owned(f) BY <1>1, <1>2, <1>3 DEF Owned, Landed
<1>6. Backed(f)
  <2>1. ~Checkpointing => \A r \in RunIds : Landed(w, r) = None
        BY <1>1 DEF Backed, Landed
  <2> QED BY <1>1, <1>2, <1>3, <1>4, <2>1 DEF Backed
<1>7. Balanced(f)
  <2>1. RunningRuns(f) = RunningRuns(w) BY <1>2 DEF RunningRuns, InMemory
  <2> QED BY <1>2, <2>1 DEF Fine, Balanced
<1> QED BY <1>2, <1>3, <1>5, <1>6, <1>7 DEF Fine, Sturdy

(* The runs that are left when some are gone.                              *)
Without(w, gone) == [q \in RunIds |-> IF q \in gone THEN None ELSE w.runs[q]]

(* Releasing for a set of runs gives back at most what they hold, and      *)
(* never passes the floor.                                                 *)
LEMMA ReleaseAllFacts ==
    ASSUME NEW w \in Stores, NEW some \in SUBSET RunIds,
           NEW x, x = ReleaseAll(w, some)
    PROVE  /\ x \in Stores
           /\ x.runs = w.runs /\ x.owner = w.owner /\ x.current = w.current
           /\ x.canary = w.canary /\ x.armed = w.armed
           /\ x.disk = w.disk /\ x.queue = w.queue
           /\ \/ x.audit = w.audit - Cardinality(some \cap RunningRuns(w))
              \/ x.audit = AuditFloor
           /\ x.audit <= w.audit
<1> DEFINE held == Cardinality(some \cap RunningRuns(w))
           v == Max({AuditFloor, w.audit - held})
<1>1. w.audit \in Int /\ w.audit >= AuditFloor BY DEF Stores
<1>2. IsFiniteSet(some \cap RunningRuns(w)) BY CountFacts, FS_Intersection
<1>3. held \in Nat BY <1>2, FS_CardinalityType
<1>4. x = [w EXCEPT !.audit = v] BY DEF ReleaseAll
<1> HIDE DEF held
<1>5. w.audit - held \in Int BY <1>1, <1>3
<1>6. v = IF AuditFloor >= w.audit - held THEN AuditFloor ELSE w.audit - held
      BY <1>5, FloorIsNegative, MaxOfTwo
<1> HIDE DEF v
<1>7. /\ v \in Int /\ v >= AuditFloor /\ v <= w.audit
      /\ v = w.audit - held \/ v = AuditFloor
      BY <1>1, <1>3, <1>6, FloorIsNegative
<1>8. x \in Stores BY <1>4, <1>7 DEF Stores
<1>9. /\ x.runs = w.runs /\ x.owner = w.owner /\ x.current = w.current
      /\ x.canary = w.canary /\ x.armed = w.armed
      /\ x.disk = w.disk /\ x.queue = w.queue /\ x.audit = v
      BY <1>4 DEF Stores
<1> QED BY <1>7, <1>8, <1>9 DEF held

(* Forgetting runs empties their slots in the maps.                        *)
LEMMA ForgetFacts ==
    ASSUME NEW w \in Stores, NEW gone \in SUBSET RunIds, NEW x, x = Forget(w, gone)
    PROVE  /\ x \in Stores
           /\ x.runs = Without(w, gone) /\ x.owner = w.owner
           /\ x.audit = w.audit /\ x.armed = w.armed
           /\ x.disk = w.disk /\ x.queue = w.queue
<1> DEFINE keys == {w.owner[r] : r \in gone}
           current == [s \in Sessions |-> IF s \in keys THEN None ELSE w.current[s]]
<1>1. x = [w EXCEPT !.runs = Without(w, gone), !.current = current,
                    !.canary = w.canary \ keys]
      BY DEF Forget, Without
<1>2. Without(w, gone) \in [RunIds -> Slot] BY DEF Without, Stores, Slot
<1>3. current \in [Sessions -> RunIds \cup {None}] BY DEF Stores
<1>4. w.canary \ keys \in SUBSET Sessions BY DEF Stores
<1> HIDE DEF current, keys
<1> QED BY <1>1, <1>2, <1>3, <1>4 DEF Stores

(* The sweep of the patrol and the cleanup forget runs with their holds.   *)
LEMMA SweepIsFine ==
    ASSUME NEW w, Fine(w), NEW gone \in SUBSET RunIds, NEW x, x = Sweep(w, gone)
    PROVE  Fine(x) /\ x.runs = Without(w, gone) /\ x.owner = w.owner
<1>1. w \in Stores BY DEF Fine, Sturdy
<1>2. PICK a : a = ReleaseAll(w, gone) OBVIOUS
<1>3. PICK b : b = Forget(a, gone) OBVIOUS
<1>4. x = [b EXCEPT !.armed = b.armed \ gone] BY <1>2, <1>3 DEF Sweep
<1>5. /\ a \in Stores /\ a.runs = w.runs /\ a.owner = w.owner
      /\ a.disk = w.disk /\ a.queue = w.queue
      BY <1>1, <1>2, ReleaseAllFacts
<1>6. \/ a.audit = w.audit - Cardinality(gone \cap RunningRuns(w))
      \/ a.audit = AuditFloor
      BY <1>1, <1>2, ReleaseAllFacts
<1>7. /\ b \in Stores /\ b.runs = Without(a, gone) /\ b.owner = a.owner
      BY <1>3, <1>5, ForgetFacts
<1>8. b.audit = a.audit /\ b.disk = a.disk /\ b.queue = a.queue
      BY <1>3, <1>5, ForgetFacts
<1>9. /\ x \in Stores /\ x.runs = b.runs /\ x.owner = b.owner
      /\ x.audit = b.audit /\ x.disk = b.disk /\ x.queue = b.queue
      BY <1>4, <1>7 DEF Stores
<1>10. x.runs = Without(w, gone) /\ x.owner = w.owner
       BY <1>5, <1>7, <1>9 DEF Without
<1>11. x.disk = w.disk /\ x.queue = w.queue /\ x.audit = a.audit BY <1>5, <1>8, <1>9
<1>12. /\ w.audit \in Int /\ Cardinality(gone \cap RunningRuns(w)) \in Nat
  <2>1. IsFiniteSet(gone \cap RunningRuns(w)) BY <1>1, CountFacts, FS_Intersection
  <2> QED BY <1>1, <2>1, FS_CardinalityType DEF Stores
<1>13. \/ x.audit <= w.audit - Cardinality(gone \cap RunningRuns(w))
       \/ x.audit = AuditFloor
       BY <1>6, <1>11, <1>12
<1>14. Fine(x) BY <1>9, <1>10, <1>11, <1>13, DropIsFine DEF Without
<1> QED BY <1>10, <1>14

(* Eviction deletes the checkpoints of the runs it forgets.                *)
Evicted(w, x, gone) ==
    /\ x.runs = Without(w, gone) /\ x.owner = w.owner /\ x.queue = w.queue
    /\ \A q \in RunIds : x.disk[q] = IF q \in gone THEN None ELSE w.disk[q]
    /\ \/ x.audit = w.audit - Cardinality(gone \cap RunningRuns(w))
       \/ x.audit = AuditFloor

(* What eviction leaves of the store.                                      *)
LEMMA EvictFacts ==
    ASSUME NEW w \in Stores, NEW gone \in SUBSET RunIds, NEW x, x = Evict(w, gone)
    PROVE  x \in Stores /\ Evicted(w, x, gone)
<1> DEFINE disk == [q \in RunIds |-> IF q \in gone THEN None ELSE w.disk[q]]
<1>1. PICK a : a = ReleaseAll(w, gone) OBVIOUS
<1>2. PICK b : b = Forget(a, gone) OBVIOUS
<1>3. PICK c : c = [b EXCEPT !.armed = b.armed \ gone] OBVIOUS
<1>4. /\ a \in Stores /\ a.runs = w.runs /\ a.owner = w.owner
      /\ a.disk = w.disk /\ a.queue = w.queue
      BY <1>1, ReleaseAllFacts
<1>5. \/ a.audit = w.audit - Cardinality(gone \cap RunningRuns(w))
      \/ a.audit = AuditFloor
      BY <1>1, ReleaseAllFacts
<1>6. /\ b \in Stores /\ b.runs = Without(a, gone) /\ b.owner = a.owner
      BY <1>2, <1>4, ForgetFacts
<1>7. b.audit = a.audit /\ b.disk = a.disk /\ b.queue = a.queue
      BY <1>2, <1>4, ForgetFacts
<1>8. /\ c \in Stores /\ c.runs = b.runs /\ c.owner = b.owner
      /\ c.audit = b.audit /\ c.disk = b.disk /\ c.queue = b.queue
      BY <1>3, <1>6 DEF Stores
<1>9. x = [c EXCEPT !.disk = [q \in RunIds |-> IF q \in gone THEN None ELSE c.disk[q]]]
      BY <1>1, <1>2, <1>3 DEF Evict, Sweep
<1>10. x = [c EXCEPT !.disk = disk] BY <1>4, <1>7, <1>8, <1>9
<1>11. disk \in [RunIds -> Slot] BY DEF Stores, Slot
<1>12. \A q \in RunIds : disk[q] = IF q \in gone THEN None ELSE w.disk[q] OBVIOUS
<1> HIDE DEF disk
<1>13. /\ x \in Stores /\ x.runs = c.runs /\ x.owner = c.owner /\ x.queue = c.queue
       /\ x.audit = c.audit /\ x.disk = disk
       BY <1>8, <1>10, <1>11 DEF Stores
<1>14. x.runs = Without(w, gone) BY <1>4, <1>6, <1>8, <1>13 DEF Without
<1>15. x.owner = w.owner /\ x.queue = w.queue /\ x.audit = a.audit
       BY <1>4, <1>6, <1>7, <1>8, <1>13
<1>16. Evicted(w, x, gone) BY <1>5, <1>12, <1>13, <1>14, <1>15 DEF Evicted
<1> QED BY <1>13, <1>16

(* A run brought into memory, with the evictions this causes.  If it stays *)
(* and was not running before, there is room for one more hold.            *)
LEMMA InsertIsFine ==
    ASSUME NEW w, Fine(w), NEW r \in RunIds, w.owner[r] # None,
           NEW s \in States, s.status = "running",
           NEW p \in Insertions(w, r, s)
    PROVE  /\ Fine(p) /\ p.owner = w.owner
           /\ r \notin RunningRuns(w) /\ p.runs[r] # None
                => p.audit + 1 <= Cardinality(RunningRuns(p))
<1>0. w \in Stores /\ s.orch \in ActiveStates /\ s # None
      BY RunningIsActive, NoneIsNoState DEF Fine, Sturdy
<1>1. PICK x : x = [w EXCEPT !.runs[r] = s] OBVIOUS
<1>2. /\ x \in Stores /\ x.runs = [w.runs EXCEPT ![r] = s] /\ x.owner = w.owner
      /\ x.audit = w.audit /\ x.disk = w.disk /\ x.queue = w.queue
      BY <1>0, <1>1 DEF Stores, Slot
<1>3. PICK changed \in BOOLEAN : changed = ShouldCheckpoint(w.runs[r], s)
      BY DEF ShouldCheckpoint
<1>4. changed \/ (w.runs[r] # None /\ Same(w.runs[r], s))
      BY <1>3 DEF ShouldCheckpoint, Same
<1>5. PICK gone \in Evictable(x) : p = Persist(Evict(x, gone), r, s, changed)
      BY <1>1, <1>3 DEF Insertions
<1>6. gone \in SUBSET RunIds BY DEF Evictable, InMemory
<1>7. PICK e : e = Evict(x, gone) OBVIOUS
<1>18. e \in Stores /\ Evicted(x, e, gone)
  <2>1. x \in Stores BY <1>2
  <2> QED BY <1>6, <1>7, <2>1, EvictFacts
<1>8. /\ e \in Stores /\ e.runs = Without(x, gone) /\ e.owner = x.owner /\ e.queue = x.queue
      BY <1>18 DEF Evicted
<1>9. \A q \in RunIds : e.disk[q] = IF q \in gone THEN None ELSE x.disk[q]
      BY <1>18 DEF Evicted
<1>10. \/ e.audit = x.audit - Cardinality(gone \cap RunningRuns(x))
       \/ e.audit = AuditFloor
       BY <1>18 DEF Evicted
<1>11. p = Persist(e, r, s, changed) BY <1>5, <1>7
<1>12. w.runs \in [RunIds -> Slot] BY <1>0 DEF Stores
<1>13. RunningRuns(x) = RunningRuns(w) \cup {r}
       BY <1>0, <1>2, <1>12 DEF RunningRuns, InMemory
<1>14. IsFiniteSet(gone \cap RunningRuns(x)) /\ IsFiniteSet(gone \cap RunningRuns(w))
       BY <1>0, <1>2, CountFacts, FS_Intersection
<1>15. /\ Cardinality(gone \cap RunningRuns(x)) \in Nat
       /\ Cardinality(gone \cap RunningRuns(w)) \in Nat
       /\ w.audit \in Int
       BY <1>0, <1>14, FS_CardinalityType DEF Stores
<1>16. CASE r \notin gone
  <2>1. PICK d : d = [e EXCEPT !.runs = Without(w, gone)] OBVIOUS
  <2>2. Without(w, gone) \in [RunIds -> Slot] BY <1>12 DEF Without, Slot
  <2>3. /\ d \in Stores /\ d.runs = Without(w, gone) /\ d.owner = w.owner
        /\ d.queue = w.queue /\ d.disk = e.disk /\ d.audit = e.audit
        BY <1>2, <1>8, <2>1, <2>2 DEF Stores
  <2>4. gone \cap RunningRuns(x) = gone \cap RunningRuns(w) BY <1>13, <1>16
  <2>5. \/ d.audit <= w.audit - Cardinality(gone \cap RunningRuns(w))
        \/ d.audit = AuditFloor
    <3>1. Cardinality(gone \cap RunningRuns(x)) = Cardinality(gone \cap RunningRuns(w))
          BY <2>4
    <3>2. d.audit = e.audit /\ x.audit = w.audit BY <1>2, <2>3
    <3> QED BY <1>10, <1>15, <3>1, <3>2
  <2>6. \A q \in RunIds : d.disk[q] = IF q \in gone THEN None ELSE w.disk[q]
        BY <1>2, <1>9, <2>3
  <2>7. Fine(d) BY <1>6, <2>3, <2>5, <2>6, DropIsFine DEF Without
  <2>8. Without(x, gone) = [Without(w, gone) EXCEPT ![r] = s]
        BY <1>2, <1>12, <1>16 DEF Without
  <2>9. e = [d EXCEPT !.runs[r] = s] BY <1>8, <2>1, <2>8 DEF Stores
  <2>10. d.runs[r] = w.runs[r] BY <1>16, <2>3 DEF Without
  <2>11. p = ReleaseIf(Persist([d EXCEPT !.runs[r] = s], r, s, changed), FALSE)
         BY <1>11, <2>9 DEF ReleaseIf
  <2>12. changed \/ (d.runs[r] # None /\ Same(d.runs[r], s)) BY <1>4, <2>10
  <2>13. d.owner[r] # None BY <2>3
  <2>14. Fine(p) BY <2>7, <2>11, <2>12, <2>13, WriteIsFine
  <2>15. Written(d, p, r, s) BY <2>7, <2>11, <2>12, <2>13, WriteIsFine
  <2>16. p.audit = d.audit
    <3>1. PICK c \in BOOLEAN : c = FALSE OBVIOUS
    <3>2. p = ReleaseIf(Persist([d EXCEPT !.runs[r] = s], r, s, changed), c)
          BY <2>11, <3>1
    <3>3. p.audit = IF c /\ d.audit > AuditFloor THEN d.audit - 1 ELSE d.audit
          BY <2>7, <2>12, <2>13, <3>2, WriteIsFine
    <3> QED BY <3>1, <3>3
  <2>17. r \notin RunningRuns(w) => p.audit + 1 <= Cardinality(RunningRuns(p))
    <3>1. r \notin RunningRuns(w) => r \notin RunningRuns(d)
          BY <2>10 DEF RunningRuns, InMemory
    <3>2. p \in Stores /\ p.runs = [d.runs EXCEPT ![r] = s]
          BY <2>14, <2>15 DEF Fine, Sturdy, Written
    <3>3. r \notin RunningRuns(w) =>
             Cardinality(RunningRuns(p)) = Cardinality(RunningRuns(d)) + 1
          BY <2>3, <3>1, <3>2, WriteCounts
    <3>4. d.audit \in Int /\ Cardinality(RunningRuns(d)) \in Nat
          /\ d.audit <= Cardinality(RunningRuns(d))
          BY <2>3, <2>7, CountFacts DEF Fine, Balanced, Stores
    <3> QED BY <2>16, <3>3, <3>4
  <2> QED BY <2>3, <2>14, <2>15, <2>17 DEF Written
<1>17. CASE r \in gone
  <2>1. /\ p \in Stores /\ p.runs = e.runs /\ p.owner = e.owner /\ p.audit = e.audit
        BY <1>8, <1>11, PersistFacts
  <2>2. \A q \in RunIds \ {r} : p.disk[q] = e.disk[q] /\ p.queue[q] = e.queue[q]
        BY <1>8, <1>11, PersistFacts
  <2>3. /\ p.disk[r] \in {e.disk[r], None}
        /\ p.queue[r] = e.queue[r] \/ (Checkpointing /\ p.queue[r] = Snapshot(s))
        BY <1>8, <1>11, PersistFacts
  <2>4. p.runs = Without(w, gone) BY <1>2, <1>8, <1>12, <1>17, <2>1 DEF Without
  <2>5. Cardinality(gone \cap RunningRuns(w)) <= Cardinality(gone \cap RunningRuns(x))
        BY <1>13, <1>14, FS_Subset
  <2>6. \/ p.audit <= w.audit - Cardinality(gone \cap RunningRuns(w))
        \/ p.audit = AuditFloor
        BY <1>2, <1>10, <1>15, <2>1, <2>5
  <2>7. p.owner = w.owner BY <1>2, <1>8, <2>1
  <2>8. \A q \in RunIds : q \notin gone =>
              p.disk[q] = w.disk[q] /\ p.queue[q] = w.queue[q]
        BY <1>2, <1>8, <1>9, <1>17, <2>2
  <2>9. \A q \in RunIds : p.disk[q] \in {w.disk[q], None}
    <3>1. p.disk[r] \in {w.disk[r], None} BY <1>2, <1>9, <2>3
    <3> QED BY <1>2, <1>9, <2>2, <3>1
  <2>10. \A q \in RunIds : p.queue[q] = w.queue[q] \/ (Checkpointing /\ w.owner[q] # None)
    <3>1. p.queue[r] = w.queue[r] \/ (Checkpointing /\ w.owner[r] # None) BY <1>2, <1>8, <2>3
    <3> QED BY <1>2, <1>8, <2>2, <3>1
  <2>11. Fine(p)
    <3>1. \A q \in RunIds :
             /\ q \notin gone => p.disk[q] = w.disk[q] /\ p.queue[q] = w.queue[q]
             /\ p.disk[q] \in {w.disk[q], None}
             /\ p.queue[q] = w.queue[q] \/ (Checkpointing /\ w.owner[q] # None)
          BY <2>8, <2>9, <2>10
    <3>2. p.runs = [q \in RunIds |-> IF q \in gone THEN None ELSE w.runs[q]]
          BY <2>4 DEF Without
    <3>3. p \in Stores BY <2>1
    <3> HIDE <1>17
    <3> QED BY <1>6, <2>6, <2>7, <3>1, <3>2, <3>3, DropIsFine
  <2>12. p.runs[r] = None BY <1>17, <2>4 DEF Without
  <2> QED BY <2>7, <2>11, <2>12
<1> QED BY <1>16, <1>17

(* The session maps, the canaries and the armed runs matter to neither.    *)
LEMMA PassiveIsFine ==
    ASSUME NEW w, Fine(w), NEW x \in Stores,
           x.runs = w.runs, x.owner = w.owner, x.disk = w.disk,
           x.queue = w.queue, x.audit = w.audit
    PROVE  Fine(x)
<1>1. Owned(x) BY DEF Fine, Sturdy, Owned
<1>2. Backed(x) BY DEF Fine, Sturdy, Backed, Landed
<1>3. RunningRuns(x) = RunningRuns(w) BY DEF RunningRuns, InMemory
<1>4. Balanced(x) BY <1>3 DEF Fine, Balanced
<1> QED BY <1>1, <1>2, <1>4 DEF Fine, Sturdy

(* The monitor may be held once more while a running run has no hold.      *)
LEMMA AcquireIsFine ==
    ASSUME NEW w, Sturdy(w), w.audit + 1 <= Cardinality(RunningRuns(w)),
           NEW x, x = Acquire(w)
    PROVE  Fine(x) /\ x.owner = w.owner
<1>1. w \in Stores /\ w.audit \in Int /\ w.audit >= AuditFloor BY DEF Sturdy, Stores
<1>2. w.audit + 1 \in Int /\ w.audit + 1 >= AuditFloor BY <1>1, FloorIsNegative
<1>3. x = [w EXCEPT !.audit = w.audit + 1] BY DEF Acquire
<1>4. /\ x \in Stores /\ x.runs = w.runs /\ x.owner = w.owner
      /\ x.disk = w.disk /\ x.queue = w.queue /\ x.audit = w.audit + 1
      BY <1>1, <1>2, <1>3 DEF Stores
<1>5. Owned(x) BY <1>4 DEF Sturdy, Owned
<1>6. Backed(x) BY <1>4 DEF Sturdy, Backed, Landed
<1>7. RunningRuns(x) = RunningRuns(w) BY <1>4 DEF RunningRuns, InMemory
<1>8. Balanced(x) BY <1>4, <1>7 DEF Balanced
<1> QED BY <1>4, <1>5, <1>6, <1>8 DEF Fine, Sturdy

-----------------------------------------------------------------------------
(* The handlers.                                                           *)

(* A suspended handler holds a state that was running when it was read.    *)
Alive == {x \in States : x.status = "running"}

(* A handler suspended at one of ats, or none.                             *)
Calls(ats) == [at : ats, run : RunIds, snap : Alive] \cup {Idle}

HookAts == {"cross_turn", "validation", "degraded"}

(* Between two steps no write is queued.                                   *)
StoreOK == Fine(store) /\ \A r \in RunIds : store.queue[r] = None

(* A suspended handler holds a run of some session.                        *)
CallsOK ==
    /\ hook \in [Sessions -> Calls(HookAts)]
    /\ rpc  \in [Sessions -> Calls({"resume_run"})]
    /\ \A s \in Sessions :
          /\ hook[s] # Idle => store.owner[hook[s].run] # None
          /\ rpc[s]  # Idle => store.owner[rpc[s].run] # None

(* The other variables have their types.                                   *)
RestOK ==
    /\ turn \in [Sessions -> {"idle", "open", "finalized"}]
    /\ spent \subseteq RunIds
    /\ timer \in BOOLEAN

(* The inductive invariant.                                                *)
IInv == StoreOK /\ CallsOK /\ RestOK

(* No run loses its owner.                                                 *)
Grows(w) == \A r \in RunIds : store.owner[r] # None => w.owner[r] # None
-----------------------------------------------------------------------------
(* Events keep states; most of them keep an active run active.             *)
LEMMA EventStates ==
    ASSUME NEW x \in States
    PROVE  /\ AgentTurnStarted(x) \in States
           /\ AgentActivity(x) \in States
           /\ StallTimeout(x) \in States
           /\ RetryDue(x) \in States
           /\ EvidenceStarted(x) \in States
           /\ StopRequested(x) \in States
           /\ \A reason \in PauseReasons : PauseRequested(x, reason) \in States
           /\ \A reason \in CapReasons : HardStopRequested(x, reason) \in States
           /\ \A outcome \in TurnOutcomes : AgentTurnFinished(x, outcome) \in States
           /\ \A verdict \in Verdicts : EvidenceFinished(x, verdict) \in States
<1>1. Good(x) /\ x.orch # "none" BY DEF States
<1>2. AgentTurnStarted(x) \in States BY <1>1, TurnStartSound, SoundKeepsState
<1>3. AgentActivity(x) \in States BY <1>1, ActivitySound, SoundKeepsState
<1>4. StallTimeout(x) \in States BY <1>1, StallSound, SoundKeepsState
<1>5. RetryDue(x) \in States BY <1>1, RetryDueSound, SoundKeepsState
<1>6. EvidenceStarted(x) \in States BY <1>1, GateStartSound, SoundKeepsState
<1>7. StopRequested(x) \in States BY <1>1, StopSound, SoundKeepsState
<1>8. \A reason \in PauseReasons : PauseRequested(x, reason) \in States
      BY <1>1, PauseSound, SoundKeepsState
<1>9. \A reason \in CapReasons : HardStopRequested(x, reason) \in States
      BY <1>1, HardStopSound, SoundKeepsState
<1>10. \A outcome \in TurnOutcomes : AgentTurnFinished(x, outcome) \in States
       BY <1>1, TurnFinishSound, SoundKeepsState
<1>11. \A verdict \in Verdicts : EvidenceFinished(x, verdict) \in States
       BY <1>1, GateFinishSound, SoundKeepsState
<1> QED BY <1>2, <1>3, <1>4, <1>5, <1>6, <1>7, <1>8, <1>9, <1>10, <1>11

(* So do the writes that only count or mark a run.                         *)
LEMMA FlagStates ==
    ASSUME NEW x \in States
    PROVE  /\ CrossTurnResumeConsumed(x) \in States
           /\ DegradationMarked(x) \in States
           /\ DegradationCleared(x) \in States
           /\ ResetTurnAttempts(x) \in States
           /\ IncrementTotal(IncrementTurn(x)) \in States
           /\ CrossTurnEnqueued(x) \in States
           /\ CrossTurnDegraded(x) \in States
           /\ CrossTurnDegradedSilent(x) \in States
<1>1. Good(x) /\ x.orch # "none" BY DEF States
<1>2. CrossTurnResumeConsumed(x) \in States BY <1>1, FlagSound, SoundKeepsState
<1>3. DegradationMarked(x) \in States BY <1>1, FlagSound, SoundKeepsState
<1>4. DegradationCleared(x) \in States BY <1>1, FlagSound, SoundKeepsState
<1>5. ResetTurnAttempts(x) \in States BY <1>1, CountSound, SoundKeepsState
<1>6. IncrementTotal(IncrementTurn(x)) \in States BY <1>1, CountSound, SoundKeepsState
<1>7. CrossTurnEnqueued(x) \in States BY <1>1, CrossTurnSound, SoundKeepsState
<1>8. CrossTurnDegraded(x) \in States BY <1>1, CrossTurnSound, SoundKeepsState
<1>9. CrossTurnDegradedSilent(x) \in States BY <1>1, CrossTurnSound, SoundKeepsState
<1> QED BY <1>2, <1>3, <1>4, <1>5, <1>6, <1>7, <1>8, <1>9

(* The counters of a continuation.                                         *)
LEMMA CountStates ==
    ASSUME NEW x \in States
    PROVE  /\ CrossTurnFallback(x) \in States
           /\ IncrementTotal(ResetTurnAttempts(x)) \in States
           /\ CrossTurnFallback(x).orch = x.orch
           /\ IncrementTotal(ResetTurnAttempts(x)).orch = x.orch
<1>1. Good(x) /\ x \in Run /\ x.orch # "none" /\ x.status = DeriveStatus(x.orch, x.blocked)
      BY DEF States, Good
<1>2. PICK y : y = [x EXCEPT !.total = x.total + 1, !.turn = 0] OBVIOUS
<1>3. x.total + 1 \in Nat BY <1>1 DEF Run
<1>4. y \in Run BY <1>1, <1>2, <1>3 DEF Run
<1>5. /\ y.orch = x.orch /\ y.blocked = x.blocked /\ y.enabled = x.enabled
      /\ y.pause = x.pause /\ y.attempt = x.attempt
      /\ y.unverified = x.unverified /\ y.evidence = x.evidence /\ y.status = x.status
      BY <1>1, <1>2 DEF Run
<1>6. Core(y) BY <1>1, <1>4, <1>5, Untouched
<1>7. y \in States BY <1>1, <1>4, <1>5, <1>6 DEF States, Good
<1>8. CrossTurnFallback(x) = y
      BY <1>1, <1>2 DEF CrossTurnFallback, IncrementTotal, ResetTurnAttempts, Run
<1>9. IncrementTotal(ResetTurnAttempts(x)) = y
      BY <1>1, <1>2 DEF IncrementTotal, ResetTurnAttempts, Run
<1> QED BY <1>5, <1>7, <1>8, <1>9

(* Events that keep the orchestration state, or keep it active.            *)
LEMMA StaysActive ==
    ASSUME NEW x \in States
    PROVE  /\ CrossTurnResumeConsumed(x).orch = x.orch
           /\ DegradationMarked(x).orch = x.orch
           /\ DegradationCleared(x).orch = x.orch
           /\ IncrementTotal(IncrementTurn(x)).orch = x.orch
           /\ CrossTurnEnqueued(x).orch = x.orch
           /\ CrossTurnDegraded(x).orch = x.orch
           /\ CrossTurnDegradedSilent(x).orch = x.orch
           /\ AgentActivity(x).orch = x.orch
           /\ x.orch \in ActiveStates => AgentTurnStarted(x).orch \in ActiveStates
           /\ x.orch \in ActiveStates => RetryDue(x).orch \in ActiveStates
BY DEF States, Run, Derived, CrossTurnResumeConsumed, DegradationMarked,
       DegradationCleared, IncrementTotal, IncrementTurn, CrossTurnEnqueued,
       CrossTurnDegraded, CrossTurnDegradedSilent, CrossTurn, AgentActivity,
       AgentTurnStarted, RetryDue, ActiveStates

(* The verdict is stored whatever it does to the run.                      *)
LEMMA EvidenceStored ==
    ASSUME NEW z \in States, z.orch = "released", NEW verdict \in Verdicts
    PROVE  EvidenceFinished(z, verdict).evidence = EvidenceOf(verdict)
<1>1. PICK j : j = [z EXCEPT !.evidence = EvidenceOf(verdict)] OBVIOUS
<1>2. z \in Run BY DEF States
<1>3. EvidenceOf(verdict) \in {"none", "running", "passed", "failed", "skipped"}
      BY DEF Verdicts, EvidenceOf
<1>4. j \in Run /\ j.evidence = EvidenceOf(verdict) /\ j.orch = "released"
      BY <1>1, <1>2, <1>3 DEF Run
<1>5. CASE verdict \in {"passed", "not_configured"}
  <2>1. PICK d : d = [j EXCEPT !.orch = "done", !.enabled = FALSE,
                               !.unverified = (verdict # "passed"), !.age = "fresh"]
        OBVIOUS
  <2>2. EvidenceFinished(z, verdict) = Derived(d)
        BY <1>1, <1>5, <2>1 DEF EvidenceFinished
  <2>3. d.evidence = j.evidence BY <1>4, <2>1 DEF Run
  <2>4. Derived(d).evidence = d.evidence
    <3>1. d \in Run BY <1>4, <2>1 DEF Run, OrchestrationStates
    <3> QED BY <3>1, DerivedFields
  <2> QED BY <1>4, <2>2, <2>3, <2>4
<1>6. CASE verdict = "not_executed"
  <2>1. PICK b : b = Block(j, "evidence_missing") OBVIOUS
  <2>2. b \in Run /\ b.evidence = j.evidence
        BY <1>4, <2>1 DEF Block, Run, OrchestrationStates, BlockedReasons
  <2>3. PICK d : d = [b EXCEPT !.enabled = FALSE, !.needs = FALSE, !.unverified = FALSE]
        OBVIOUS
  <2>4. d \in Run /\ d.evidence = b.evidence BY <2>2, <2>3 DEF Run
  <2>5. EvidenceFinished(z, verdict) = Derived(d)
        BY <1>1, <1>6, <2>1, <2>3 DEF EvidenceFinished
  <2> QED BY <1>4, <2>2, <2>4, <2>5, DerivedFields
<1>7. CASE verdict = "failed"
  <2>1. EvidenceFinished(z, verdict) = Derived(RetryOrBlock(j))
        BY <1>1, <1>7 DEF EvidenceFinished
  <2>2. RetryOrBlock(j) \in Run /\ RetryOrBlock(j).evidence = j.evidence
    <3>1. CASE ShouldRetry(j.attempt + 1, TRUE)
      <4>1. RetryOrBlock(j) = [j EXCEPT !.orch = "retry_queued", !.attempt = j.attempt + 1,
                                       !.due = FALSE, !.age = "fresh"]
            BY <1>4, <3>1 DEF RetryOrBlock, QueueRetry, Run
      <4>2. j.attempt + 1 \in Nat BY <1>4 DEF Run
      <4> QED BY <1>4, <4>1, <4>2 DEF Run, OrchestrationStates
    <3>2. CASE ~ShouldRetry(j.attempt + 1, TRUE)
      <4>1. RetryOrBlock(j) = Block(j, "max_retries_reached") BY <3>2 DEF RetryOrBlock
      <4>2. PICK b : b = Block(j, "max_retries_reached") OBVIOUS
      <4>3. b \in Run /\ b.evidence = j.evidence
            BY <1>4, <4>2 DEF Block, Run, OrchestrationStates, BlockedReasons
      <4> QED BY <4>1, <4>2, <4>3
    <3> QED BY <3>1, <3>2
  <2> QED BY <1>4, <2>1, <2>2, DerivedFields
<1> QED BY <1>5, <1>6, <1>7 DEF Verdicts

(* What the completion chain makes of a running run is a state.            *)
LEMMA JudgedState ==
    ASSUME NEW x \in Alive, NEW verdict \in Verdicts
    PROVE  Judged(x, verdict) \in States
<1>1. x \in States /\ x.orch \in ActiveStates BY RunningIsActive DEF Alive
<1>2. PICK c : c = IF x.orch = "running" THEN AgentTurnFinished(x, "success") ELSE x
      OBVIOUS
<1>3. c \in States BY <1>1, <1>2, EventStates DEF TurnOutcomes
<1>4. c.orch \in ActiveStates
  <2>1. CASE x.orch = "running"
    <3>1. PICK y : y = [x EXCEPT !.orch = "released", !.age = "fresh"] OBVIOUS
    <3>2. c = Derived(y) BY <1>2, <2>1, <3>1 DEF AgentTurnFinished
    <3>3. y \in Run /\ y.orch = "released"
          BY <1>1, <3>1 DEF States, Run, OrchestrationStates
    <3> QED BY <3>2, <3>3, DerivedFields DEF ActiveStates
  <2> QED BY <1>1, <1>2, <2>1
<1>5. CASE c.orch = "released"
  <2>1. PICK z : z = EvidenceStarted(c) OBVIOUS
  <2>2. z \in States BY <1>3, <2>1, EventStates
  <2>3. z.orch = "released"
    <3>1. PICK y : y = [c EXCEPT !.evidence = "running", !.age = "fresh"] OBVIOUS
    <3>2. z = Derived(y) BY <1>5, <2>1, <3>1 DEF EvidenceStarted
    <3>3. y \in Run /\ y.orch = "released" BY <1>3, <1>5, <3>1 DEF States, Run
    <3> QED BY <3>2, <3>3, DerivedFields
  <2>4. PICK g : g = EvidenceFinished(z, verdict) OBVIOUS
  <2>5. g \in States BY <2>2, <2>4, EventStates
  <2>6. g.evidence = EvidenceOf(verdict) BY <2>2, <2>3, <2>4, EvidenceStored
  <2>7. Judged(x, verdict) = [g EXCEPT !.evidence = EvidenceOf(verdict)]
        BY <1>2, <1>5, <2>1, <2>4 DEF Judged
  <2>8. [g EXCEPT !.evidence = EvidenceOf(verdict)] = g BY <2>5, <2>6 DEF States, Run
  <2> QED BY <2>5, <2>7, <2>8
<1>6. CASE c.orch # "released"
  <2>1. PICK y : y = [c EXCEPT !.evidence = EvidenceOf(verdict)] OBVIOUS
  <2>2. Judged(x, verdict) = y BY <1>2, <1>6, <2>1 DEF Judged
  <2>3. Good(c) /\ c \in Run /\ c.orch # "done" BY <1>3, <1>4 DEF States, ActiveStates
  <2>4. EvidenceOf(verdict) \in {"none", "running", "passed", "failed", "skipped"}
        BY DEF Verdicts, EvidenceOf
  <2>5. y \in Run BY <2>1, <2>3, <2>4 DEF Run
  <2>6. /\ y.orch = c.orch /\ y.blocked = c.blocked /\ y.enabled = c.enabled
        /\ y.pause = c.pause /\ y.attempt = c.attempt /\ y.status = c.status
        BY <2>1, <2>3 DEF Run
  <2>7. Good(y) BY <2>3, <2>5, <2>6 DEF Good, Core
  <2>8. y.orch # "none" BY <1>3, <2>6 DEF States
  <2> QED BY <2>2, <2>5, <2>7, <2>8 DEF States
<1> QED BY <1>5, <1>6
-----------------------------------------------------------------------------
(* A segment ends with the writes landing.                                 *)
LEMMA Settle ==
    ASSUME NEW w, Fine(w), Grows(w), Become(w)
    PROVE  StoreOK' /\ Grows(store')
<1>1. PICK f : f = Flush(w) OBVIOUS
<1>2. Fine(f) /\ f.owner = w.owner /\ \A r \in RunIds : f.queue[r] = None
      BY <1>1, FlushIsFine
<1>3. store' = f BY <1>1 DEF Become
<1> QED BY <1>2, <1>3 DEF StoreOK, Grows

(* A handler that writes nothing.                                          *)
LEMMA StoreStays ==
    ASSUME StoreOK, UNCHANGED store
    PROVE  StoreOK' /\ Grows(store')
BY DEF StoreOK, Grows

(* The suspended handlers stay, answer or start.                           *)
LEMMA CallsStay ==
    ASSUME CallsOK, Grows(store'), UNCHANGED <<hook, rpc>>
    PROVE  CallsOK'
BY DEF CallsOK, Grows, Calls, Idle

(* A hook handler is suspended, or answers.                                *)
LEMMA HookSet ==
    ASSUME CallsOK, Grows(store'), NEW s \in Sessions, NEW c \in Calls(HookAts),
           c # Idle => store'.owner[c.run] # None,
           hook' = [hook EXCEPT ![s] = c], UNCHANGED rpc
    PROVE  CallsOK'
<1>1. hook' \in [Sessions -> Calls(HookAts)] BY DEF CallsOK
<1>2. \A t \in Sessions : hook'[t] = IF t = s THEN c ELSE hook[t] BY DEF CallsOK
<1>3. \A t \in Sessions : hook'[t] # Idle => store'.owner[hook'[t].run] # None
      BY <1>2 DEF CallsOK, Grows, Calls, Idle
<1>4. \A t \in Sessions : rpc[t] # Idle => store'.owner[rpc[t].run] # None
      BY DEF CallsOK, Grows, Calls, Idle
<1> QED BY <1>1, <1>3, <1>4 DEF CallsOK

(* So does a gateway method.                                               *)
LEMMA RpcSet ==
    ASSUME CallsOK, Grows(store'), NEW s \in Sessions, NEW c \in Calls({"resume_run"}),
           c # Idle => store'.owner[c.run] # None,
           rpc' = [rpc EXCEPT ![s] = c], UNCHANGED hook
    PROVE  CallsOK'
<1>1. rpc' \in [Sessions -> Calls({"resume_run"})] BY DEF CallsOK
<1>2. \A t \in Sessions : rpc'[t] = IF t = s THEN c ELSE rpc[t] BY DEF CallsOK
<1>3. \A t \in Sessions : rpc'[t] # Idle => store'.owner[rpc'[t].run] # None
      BY <1>2 DEF CallsOK, Grows, Calls, Idle
<1>4. \A t \in Sessions : hook[t] # Idle => store'.owner[hook[t].run] # None
      BY DEF CallsOK, Grows, Calls, Idle
<1> QED BY <1>1, <1>3, <1>4 DEF CallsOK

(* The run a session finds is in memory, in a state, and owned.            *)
LEMMA FoundRun ==
    ASSUME StoreOK, NEW s \in Sessions, HasRun(s)
    PROVE  /\ RunOf(s) \in InMemory(store) /\ RunOf(s) \in RunIds
           /\ StateOf(s) = store.runs[RunOf(s)] /\ StateOf(s) \in States
           /\ store.owner[RunOf(s)] # None
           /\ RunOf(s) \in RunningRuns(store) <=> StateOf(s).status = "running"
<1>1. Fine(store) /\ store \in Stores BY DEF StoreOK, Fine, Sturdy
<1>2. RunOf(s) \in RunIds
  <2>1. store.current[s] \in RunIds \cup {None} BY <1>1 DEF Stores
  <2> QED BY <2>1 DEF HasRun, Found, RunOf
<1>3. store.runs[RunOf(s)] # None BY DEF HasRun, Found, RunOf
<1>4. store.runs[RunOf(s)] \in States BY <1>1, <1>2, <1>3 DEF Stores, Slot
<1>5. store.owner[RunOf(s)] # None BY <1>1, <1>2, <1>3 DEF Fine, Sturdy, Owned
<1> QED BY <1>2, <1>3, <1>4, <1>5 DEF StateOf, InMemory, RunningRuns

(* A call that is suspended holds an owned run and a running state.        *)
LEMMA HeldRun ==
    ASSUME CallsOK, NEW s \in Sessions
    PROVE  /\ hook[s] # Idle => /\ hook[s].run \in RunIds /\ hook[s].snap \in Alive
                                /\ store.owner[hook[s].run] # None
           /\ rpc[s] # Idle  => /\ rpc[s].run \in RunIds /\ rpc[s].snap \in Alive
                                /\ store.owner[rpc[s].run] # None
BY DEF CallsOK, Calls

(* Idle is a call, and so is a suspension at a running state.              *)
LEMMA CallTypes ==
    /\ \A ats : Idle \in Calls(ats)
    /\ \A ats : \A at \in ats : \A r \in RunIds : \A x \in Alive :
           Suspended(at, r, x) \in Calls(ats) /\ Suspended(at, r, x).run = r
BY DEF Calls, Suspended, Idle
-----------------------------------------------------------------------------
(* Writes to a run in memory, then the end of the segment.                 *)
LEMMA PutGrows ==
    ASSUME NEW w, Fine(w), Grows(w), NEW r \in InMemory(w), NEW y \in States,
           NEW c \in BOOLEAN, r \in RunningRuns(w) /\ y.status # "running" => c,
           NEW p, p = ReleaseIf(Put(w, r, y), c)
    PROVE  Fine(p) /\ Grows(p)
<1>1. Fine(p) BY PutIsFine
<1>2. Written(w, p, r, y) BY PutIsFine
<1> QED BY <1>1, <1>2 DEF Written, Grows

(* The same for a write that leaves a running run running.                 *)
LEMMA PutPlain ==
    ASSUME NEW w, Fine(w), Grows(w), NEW r \in InMemory(w), NEW y \in States,
           r \in RunningRuns(w) => y.status = "running",
           NEW p, p = Put(w, r, y)
    PROVE  Fine(p) /\ Grows(p)
<1>1. PICK c \in BOOLEAN : c = FALSE OBVIOUS
<1>2. p = ReleaseIf(Put(w, r, y), c) BY <1>1 DEF ReleaseIf
<1> QED BY <1>2, PutGrows

(* A running state brought back by a handler that held it.                 *)
LEMMA InsertGrows ==
    ASSUME StoreOK, NEW r \in RunIds, store.owner[r] # None, NEW y \in Alive,
           NEW p \in Insertions(store, r, y)
    PROVE  Fine(p) /\ Grows(p)
<1>1. y \in States /\ y.status = "running" BY DEF Alive
<1>2. Fine(p) /\ p.owner = store.owner BY <1>1, InsertIsFine DEF StoreOK
<1> QED BY <1>2 DEF Grows

(* The store as it is.                                                     *)
LEMMA SelfGrows == StoreOK => Fine(store) /\ Grows(store)
BY DEF StoreOK, Grows

(* A run that was running and is still active is still running.            *)
LEMMA StillRunning ==
    ASSUME NEW x \in States, NEW y \in States,
           x.orch \in ActiveStates => y.orch \in ActiveStates
    PROVE  x.status = "running" => y.status = "running"
BY RunningIsActive
-----------------------------------------------------------------------------
(* The actions.                                                            *)
LEMMA StopStep ==
    ASSUME StoreOK, CallsOK, NEW s \in Sessions, Stop(s)
    PROVE  StoreOK' /\ CallsOK'
<1>1. HasRun(s) BY DEF Stop
<1>2. PICK c \in BOOLEAN : c = (StateOf(s).status = "running") OBVIOUS
<1>3. PICK w : w = ReleaseIf(Put(store, RunOf(s), StopRequested(StateOf(s))), c) OBVIOUS
<1>4. Become(w) /\ UNCHANGED <<hook, rpc>> BY <1>2, <1>3 DEF Stop
<1>5. StopRequested(StateOf(s)) \in States BY <1>1, FoundRun, EventStates
<1>6. Fine(w) /\ Grows(w) BY <1>1, <1>2, <1>3, <1>5, FoundRun, SelfGrows, PutGrows
<1> QED BY <1>4, <1>6, Settle, CallsStay

(* setGoal keeps the invariant.                                            *)
LEMMA SetGoalStep ==
    ASSUME StoreOK, CallsOK, NEW s \in Sessions, SetGoal(s)
    PROVE  StoreOK' /\ CallsOK'
<1>1. HasRun(s) BY DEF SetGoal
<1>2. PICK w : w = Rewrite(store, RunOf(s), StateOf(s)) OBVIOUS
<1>3. Become(w) /\ UNCHANGED <<hook, rpc>> BY <1>2 DEF SetGoal
<1>4. Fine(w) /\ w.owner = store.owner
      BY <1>1, <1>2, FoundRun, SelfGrows, RewriteIsFine
<1> QED BY <1>3, <1>4, Settle, CallsStay DEF Grows

(* agent_turn_prepare keeps the invariant.                                 *)
LEMMA TurnPrepareStep ==
    ASSUME StoreOK, CallsOK, NEW s \in Sessions, TurnPrepare(s)
    PROVE  StoreOK' /\ CallsOK'
<1>1. UNCHANGED <<hook, rpc>> BY DEF TurnPrepare
<1>2. CASE Enabled(s)
  <2>1. HasRun(s) BY <1>2 DEF Enabled
  <2>2. PICK w : w = Put(store, RunOf(s), AgentTurnStarted(StateOf(s))) OBVIOUS
  <2>3. Become(w) BY <1>2, <2>2 DEF TurnPrepare
  <2>4. AgentTurnStarted(StateOf(s)) \in States BY <2>1, FoundRun, EventStates
  <2>5. StateOf(s).status = "running" => AgentTurnStarted(StateOf(s)).status = "running"
        BY <2>1, <2>4, FoundRun, StaysActive, StillRunning
  <2>6. Fine(w) /\ Grows(w) BY <2>1, <2>2, <2>4, <2>5, FoundRun, SelfGrows, PutPlain
  <2> QED BY <1>1, <2>3, <2>6, Settle, CallsStay
<1>3. CASE ~Enabled(s) BY <1>1, <1>3, StoreStays, CallsStay DEF TurnPrepare
<1> QED BY <1>2, <1>3

(* The activity hooks keep the invariant.                                  *)
LEMMA ActivityStep ==
    ASSUME StoreOK, CallsOK, NEW s \in Sessions, Activity(s)
    PROVE  StoreOK' /\ CallsOK'
<1>1. HasRun(s) BY DEF Activity, Enabled
<1>2. PICK w : w = Put(store, RunOf(s), AgentActivity(StateOf(s))) OBVIOUS
<1>3. Become(w) /\ UNCHANGED <<hook, rpc>> BY <1>2 DEF Activity
<1>4. AgentActivity(StateOf(s)) \in States BY <1>1, FoundRun, EventStates
<1>5. StateOf(s).status = "running" => AgentActivity(StateOf(s)).status = "running"
      BY <1>1, <1>4, FoundRun, StaysActive, StillRunning
<1>6. Fine(w) /\ Grows(w) BY <1>1, <1>2, <1>4, <1>5, FoundRun, SelfGrows, PutPlain
<1> QED BY <1>3, <1>6, Settle, CallsStay

(* resume_run, up to its await, keeps the invariant.                       *)
LEMMA ResumeRunStep ==
    ASSUME StoreOK, CallsOK, NEW s \in Sessions, ResumeRun(s)
    PROVE  StoreOK' /\ CallsOK'
<1>1. HasRun(s) /\ StateOf(s).status = "running" BY DEF ResumeRun
<1>2. PICK c : c = Suspended("resume_run", RunOf(s), StateOf(s)) OBVIOUS
<1>3. rpc' = [rpc EXCEPT ![s] = c] /\ UNCHANGED <<store, hook>> BY <1>2 DEF ResumeRun
<1>4. StateOf(s) \in Alive /\ RunOf(s) \in RunIds BY <1>1, FoundRun DEF Alive
<1>5. c \in Calls({"resume_run"}) /\ c.run = RunOf(s) BY <1>2, <1>4, CallTypes
<1>6. StoreOK' /\ Grows(store') BY <1>3, StoreStays
<1>7. store'.owner[c.run] # None BY <1>1, <1>3, <1>5, FoundRun
<1> QED BY <1>3, <1>5, <1>6, <1>7, RpcSet

(* The answer of its enqueue keeps the invariant.                          *)
LEMMA ResumeRunReplyStep ==
    ASSUME StoreOK, CallsOK, NEW s \in Sessions, NEW accepted \in BOOLEAN,
           ResumeRunReply(s, accepted)
    PROVE  StoreOK' /\ CallsOK'
<1>1. rpc[s] # Idle /\ rpc' = [rpc EXCEPT ![s] = Idle] /\ UNCHANGED hook
      BY DEF ResumeRunReply
<1>2. /\ rpc[s].run \in RunIds /\ rpc[s].snap \in Alive
      /\ store.owner[rpc[s].run] # None
      BY <1>1, HeldRun
<1>3. CrossTurnResumeConsumed(rpc[s].snap) \in Alive
  <2>1. rpc[s].snap \in States /\ rpc[s].snap.status = "running" BY <1>2 DEF Alive
  <2>2. CrossTurnResumeConsumed(rpc[s].snap) \in States BY <2>1, FlagStates
  <2>3. CrossTurnResumeConsumed(rpc[s].snap).orch = rpc[s].snap.orch BY <2>1, StaysActive
  <2> QED BY <2>1, <2>2, <2>3, StillRunning DEF Alive
<1>4. StoreOK' /\ Grows(store')
  <2>1. CASE accepted
    <3>1. PICK w \in Insertions(store, rpc[s].run, CrossTurnResumeConsumed(rpc[s].snap)) :
             Become(w)
          BY <2>1 DEF ResumeRunReply
    <3>2. Fine(w) /\ Grows(w) BY <1>2, <1>3, InsertGrows
    <3> QED BY <3>1, <3>2, Settle
  <2>2. CASE ~accepted BY <2>2, StoreStays DEF ResumeRunReply
  <2> QED BY <2>1, <2>2
<1> QED BY <1>1, <1>4, CallTypes, RpcSet

(* A finalize that finds no run keeps the invariant.                       *)
LEMMA FinalizeNoRunStep ==
    ASSUME StoreOK, CallsOK, NEW s \in Sessions, FinalizeNoRun(s)
    PROVE  StoreOK' /\ CallsOK'
<1>1. store' = [store EXCEPT !.canary = store.canary \cup {s}] /\ UNCHANGED <<hook, rpc>>
      BY DEF FinalizeNoRun
<1>2. PICK w : w = [store EXCEPT !.canary = store.canary \cup {s}] OBVIOUS
<1>3. /\ w \in Stores /\ w.runs = store.runs /\ w.owner = store.owner
      /\ w.disk = store.disk /\ w.queue = store.queue /\ w.audit = store.audit
      BY <1>2 DEF StoreOK, Fine, Sturdy, Stores
<1>4. Fine(w) BY <1>3, PassiveIsFine DEF StoreOK
<1>5. StoreOK' /\ Grows(store') BY <1>1, <1>2, <1>3, <1>4 DEF StoreOK, Grows
<1> QED BY <1>1, <1>5, CallsStay

(* autopilot.resume: the run is running again, and held once more.         *)
LEMMA ResumePausedStep ==
    ASSUME StoreOK, CallsOK, NEW s \in Sessions, ResumePaused(s)
    PROVE  StoreOK' /\ CallsOK'
<1> DEFINE x == StateOf(s)
           r == RunOf(s)
<1>1. /\ HasRun(s) /\ x.status = "paused" /\ ResumeRequested(x).orch = "claimed"
      BY DEF ResumePaused
<1>2. r \in InMemory(store) /\ r \in RunIds /\ x \in States /\ r \notin RunningRuns(store)
      BY <1>1, FoundRun
<1>3. PICK y : y = ResumedByGateway(x) OBVIOUS
<1>4. PICK w : w = Put(store, r, y) OBVIOUS
<1>5. PICK a : a = Acquire(w) OBVIOUS
<1>6. Become(a) /\ UNCHANGED <<hook, rpc>> BY <1>3, <1>4, <1>5 DEF ResumePaused
<1>7. Good(x) /\ x \in Run /\ x.orch = "blocked"
      BY <1>1, <1>2 DEF States, Good, DeriveStatus, Run, OrchestrationStates, ActiveStates
<1>8. Resumable(x) BY <1>1, <1>7 DEF ResumeRequested
<1>9. y \in States BY <1>2, <1>3, <1>7, <1>8, ResumeSound, SoundKeepsState
<1>10. y.orch = "claimed"
  <2>1. PICK q : q = [x EXCEPT !.orch = "claimed", !.blocked = "none",
                               !.pause = "none", !.needs = TRUE, !.age = "fresh"]
        OBVIOUS
  <2>2. q \in Run /\ q.orch = "claimed" BY <1>7, <2>1 DEF Run, OrchestrationStates
  <2>3. ResumeRequested(x) = Derived(q) BY <1>8, <2>1 DEF ResumeRequested
  <2>4. Derived(q) \in Run /\ Derived(q).orch = "claimed" BY <2>2, DerivedFields
  <2>5. PICK g : g = [Derived(q) EXCEPT !.enabled = TRUE, !.needs = FALSE,
                                        !.degraded = FALSE]
        OBVIOUS
  <2>6. g \in Run /\ g.orch = "claimed" BY <2>4, <2>5 DEF Run
  <2>7. y = Derived(g) BY <1>3, <2>3, <2>5 DEF ResumedByGateway
  <2> QED BY <2>6, <2>7, DerivedFields
<1>11. y.status = "running" BY <1>9, <1>10, RunningIsActive DEF ActiveStates
<1> HIDE DEF x, r
<1>12. Fine(store) /\ store \in Stores BY DEF StoreOK, Fine, Sturdy
<1>13. PICK c \in BOOLEAN : c = FALSE OBVIOUS
<1>14. w = ReleaseIf(Put(store, r, y), c) BY <1>4, <1>13 DEF ReleaseIf
<1>15. Fine(w) BY <1>2, <1>9, <1>12, <1>13, <1>14, <1>11, PutIsFine
<1>16. Written(store, w, r, y) BY <1>2, <1>9, <1>11, <1>12, <1>14, PutIsFine
<1>17. w.audit = IF c /\ store.audit > AuditFloor THEN store.audit - 1 ELSE store.audit
       BY <1>2, <1>9, <1>11, <1>12, <1>14, PutIsFine
<1>18. w.audit = store.audit BY <1>13, <1>17
<1>19. w \in Stores /\ w.runs = [store.runs EXCEPT ![r] = y]
       BY <1>15, <1>16 DEF Fine, Sturdy, Written
<1>20. Cardinality(RunningRuns(w)) = Cardinality(RunningRuns(store)) + 1
       BY <1>2, <1>9, <1>11, <1>12, <1>19, WriteCounts
<1>21. /\ store.audit \in Int /\ Cardinality(RunningRuns(store)) \in Nat
       /\ store.audit <= Cardinality(RunningRuns(store))
       BY <1>12, CountFacts DEF Fine, Balanced, Stores
<1>22. w.audit + 1 <= Cardinality(RunningRuns(w)) BY <1>18, <1>20, <1>21
<1>23. Fine(a) /\ a.owner = w.owner BY <1>5, <1>15, <1>22, AcquireIsFine DEF Fine
<1>24. Grows(a) BY <1>16, <1>23 DEF Written, Grows
<1> QED BY <1>6, <1>23, <1>24, Settle, CallsStay

(* The answer to a cross turn keeps the invariant.                         *)
LEMMA CrossTurnReplyStep ==
    ASSUME StoreOK, CallsOK, NEW s \in Sessions, NEW accepted \in BOOLEAN,
           CrossTurnReply(s, accepted)
    PROVE  StoreOK' /\ CallsOK'
<1> DEFINE call == hook[s]
           now  == store.runs[call.run]
<1>1. call # Idle /\ hook' = [hook EXCEPT ![s] = Idle] /\ UNCHANGED rpc
      BY DEF CrossTurnReply, Idle
<1>2. call.run \in RunIds /\ call.snap \in Alive /\ store.owner[call.run] # None
      BY <1>1, HeldRun
<1>3. StoreOK' /\ Grows(store')
  <2>1. CASE ~accepted
    <3>1. CrossTurnFallback(call.snap) \in Alive
          BY <1>2, CountStates, StillRunning DEF Alive
    <3>2. PICK w \in Insertions(store, call.run, CrossTurnFallback(call.snap)) : Become(w)
          BY <2>1 DEF CrossTurnReply
    <3>3. Fine(w) /\ Grows(w) BY <1>2, <3>1, <3>2, InsertGrows
    <3> QED BY <3>2, <3>3, Settle
  <2>2. CASE accepted /\ now = None BY <2>2, StoreStays DEF CrossTurnReply
  <2>3. CASE accepted /\ now # None
    <3>1. PICK w : w = Put(store, call.run, CrossTurnEnqueued(now)) OBVIOUS
    <3>2. Become(w) BY <2>3, <3>1 DEF CrossTurnReply
    <3>3. call.run \in InMemory(store) BY <1>2, <2>3 DEF InMemory
    <3>4. now \in States BY <1>2, <2>3 DEF StoreOK, Fine, Sturdy, Stores, Slot
    <3>5. CrossTurnEnqueued(now) \in States BY <3>4, FlagStates
    <3>6. now.status = "running" => CrossTurnEnqueued(now).status = "running"
          BY <3>4, <3>5, StaysActive, StillRunning
    <3>7. call.run \in RunningRuns(store) => now.status = "running" BY DEF RunningRuns
    <3> HIDE DEF call, now
    <3> QED BY <3>1, <3>2, <3>3, <3>5, <3>6, <3>7, SelfGrows, PutPlain, Settle
  <2> QED BY <2>1, <2>2, <2>3
<1> QED BY <1>1, <1>3, CallTypes, HookSet

(* The answer to a degraded turn keeps the invariant.                      *)
LEMMA DegradedReplyStep ==
    ASSUME StoreOK, CallsOK, NEW s \in Sessions, NEW accepted \in BOOLEAN,
           DegradedReply(s, accepted)
    PROVE  StoreOK' /\ CallsOK'
<1> DEFINE call == hook[s]
           now  == store.runs[call.run]
<1>1. call # Idle /\ hook' = [hook EXCEPT ![s] = Idle] /\ UNCHANGED rpc
      BY DEF DegradedReply, Idle
<1>2. call.run \in RunIds /\ call.snap \in Alive /\ store.owner[call.run] # None
      BY <1>1, HeldRun
<1>3. StoreOK' /\ Grows(store')
  <2>1. CASE now = None
    <3>1. PICK y : y = IF accepted THEN IncrementTotal(ResetTurnAttempts(call.snap))
                       ELSE CrossTurnDegradedSilent(call.snap)
          OBVIOUS
    <3>2. call.snap \in States /\ call.snap.status = "running" BY <1>2 DEF Alive
    <3>3. y \in States BY <3>1, <3>2, CountStates, FlagStates
    <3>4. y.orch = call.snap.orch BY <3>1, <3>2, CountStates, StaysActive
    <3>5. y \in Alive BY <3>2, <3>3, <3>4, StillRunning DEF Alive
    <3>6. PICK w \in Insertions(store, call.run, y) : Become(w)
          BY <2>1, <3>1 DEF DegradedReply
    <3>7. Fine(w) /\ Grows(w) BY <1>2, <3>5, <3>6, InsertGrows
    <3> QED BY <3>6, <3>7, Settle
  <2>2. CASE now # None /\ now.status # "running"
    <3>1. Become(store) BY <2>2 DEF DegradedReply
    <3> QED BY <3>1, SelfGrows, Settle
  <2>3. CASE now # None /\ now.status = "running"
    <3>1. PICK y : y = IF accepted THEN CrossTurnDegraded(now)
                       ELSE CrossTurnDegradedSilent(now)
          OBVIOUS
    <3>2. PICK w : w = Put(store, call.run, y) OBVIOUS
    <3>3. Become(w) BY <2>3, <3>1, <3>2 DEF DegradedReply
    <3>4. call.run \in InMemory(store) BY <1>2, <2>3 DEF InMemory
    <3>5. now \in States BY <1>2, <2>3 DEF StoreOK, Fine, Sturdy, Stores, Slot
    <3>6. y \in States BY <3>1, <3>5, FlagStates
    <3>7. y.orch = now.orch BY <3>1, <3>5, StaysActive
    <3>8. y.status = "running" BY <2>3, <3>5, <3>6, <3>7, StillRunning
    <3> HIDE DEF call, now
    <3> QED BY <3>2, <3>3, <3>4, <3>6, <3>8, SelfGrows, PutPlain, Settle
  <2> QED BY <2>1, <2>2, <2>3
<1> QED BY <1>1, <1>3, CallTypes, HookSet

(* The judgement writes only a run that is in memory and not over.         *)
LEMMA CompleteIsFine ==
    ASSUME NEW w, Fine(w), Grows(w), NEW r \in RunIds, NEW x \in Alive,
           NEW verdict \in Verdict, NEW p, p = Complete(w, r, x, verdict)
    PROVE  Fine(p) /\ Grows(p)
<1>1. PICK y : y = Judged(x, verdict) OBVIOUS
<1>2. verdict \in Verdicts BY DEF Verdict, Verdicts
<1>3. y \in States BY <1>1, <1>2, JudgedState
<1>4. PICK c \in BOOLEAN : c = (y.status # "running") OBVIOUS
<1>5. \/ p = w
      \/ w.runs[r] # None /\ p = ReleaseIf(Put(w, r, y), c)
      BY <1>1, <1>4 DEF Complete
<1>6. CASE p = w BY <1>6
<1>7. CASE w.runs[r] # None /\ p = ReleaseIf(Put(w, r, y), c)
  <2>1. r \in InMemory(w) BY <1>7 DEF InMemory
  <2> QED BY <1>3, <1>4, <1>7, <2>1, PutGrows
<1> QED BY <1>5, <1>6, <1>7

(* The end of the validation commands keeps the invariant.                 *)
LEMMA ValidationDoneStep ==
    ASSUME StoreOK, CallsOK, NEW s \in Sessions, ValidationDone(s)
    PROVE  StoreOK' /\ CallsOK'
<1>1. hook[s] # Idle /\ hook' = [hook EXCEPT ![s] = Idle] /\ UNCHANGED rpc
      BY DEF ValidationDone, Idle
<1>2. hook[s].run \in RunIds /\ hook[s].snap \in Alive BY <1>1, HeldRun
<1>3. PICK verdict \in Verdict : Become(Complete(store, hook[s].run, hook[s].snap, verdict))
      BY DEF ValidationDone
<1>4. PICK p : p = Complete(store, hook[s].run, hook[s].snap, verdict) OBVIOUS
<1>5. Fine(p) /\ Grows(p) BY <1>2, <1>4, SelfGrows, CompleteIsFine
<1>6. StoreOK' /\ Grows(store') BY <1>3, <1>4, <1>5, Settle
<1> QED BY <1>1, <1>6, CallTypes, HookSet

(* The state a checkpoint is loaded as is as active as the one it holds.   *)
LEMMA LoadedState ==
    ASSUME NEW w \in Stores, NEW r \in RunIds, w.disk[r] # None,
           NEW age \in Ages, NEW due \in BOOLEAN
    PROVE  /\ Loaded(w, r, age, due) \in States
           /\ Same(w.disk[r], Loaded(w, r, age, due))
           /\ Loaded(w, r, age, due).orch = w.disk[r].orch
<1>1. PICK t : t = w.disk[r] OBVIOUS
<1>2. t \in States BY <1>1 DEF Stores, Slot
<1>3. PICK d \in BOOLEAN : d = (due /\ t.attempt > 0) OBVIOUS
<1>4. Loaded(w, r, age, due) = [t EXCEPT !.age = age, !.due = d]
      BY <1>1, <1>3 DEF Loaded
<1>5. [t EXCEPT !.age = age, !.due = d] \in States BY <1>2, Aged
<1>6. Same(t, [t EXCEPT !.age = age, !.due = d]) BY <1>2, Aged
<1> QED BY <1>1, <1>4, <1>5, <1>6 DEF Same

(* A run found by session_start may be in memory already: its checkpoint is*)
(* active if it is, so no hold is left behind.                             *)
LEMMA SessionStartStep ==
    ASSUME StoreOK, CallsOK, NEW s \in Sessions, SessionStart(s)
    PROVE  StoreOK' /\ CallsOK'
<1>1. PICK r : r = store.index[s] OBVIOUS
<1>2. /\ Fine(store) /\ store \in Stores /\ store.index[s] \in RunIds \cup {None}
      /\ Owned(store) /\ Backed(store)
      BY DEF StoreOK, Fine, Sturdy, Stores
<1>3. r \in RunIds /\ store.disk[r] # None /\ UNCHANGED <<hook, rpc>>
      BY <1>1, <1>2 DEF SessionStart
<1>4. PICK age \in Downtimes, due \in BOOLEAN :
        store' = [store EXCEPT !.runs[r] = Loaded(store, r, age, due), !.current[s] = r]
      BY <1>1 DEF SessionStart
<1>5. PICK y : y = Loaded(store, r, age, due) OBVIOUS
<1>6. y \in States /\ y.orch = store.disk[r].orch /\ Same(y, store.disk[r])
      BY <1>2, <1>3, <1>5, LoadedState DEF Downtimes, Same
<1>7. PICK x : x = [store EXCEPT !.runs[r] = y, !.current[s] = r] OBVIOUS
<1>8. /\ x \in Stores /\ x.runs = [store.runs EXCEPT ![r] = y] /\ x.owner = store.owner
      /\ x.disk = store.disk /\ x.queue = store.queue /\ x.audit = store.audit
      BY <1>2, <1>3, <1>6, <1>7 DEF Stores, Slot
<1>9. x.runs[r] = y /\ \A q \in RunIds \ {r} : x.runs[q] = store.runs[q]
      BY <1>2, <1>3, <1>8 DEF Stores
<1>10. Owned(x) BY <1>2, <1>3, <1>8, <1>9 DEF Owned
<1>11. Backed(x)
  <2> SUFFICES ASSUME NEW q \in RunIds
               PROVE  /\ Checkpointing /\ x.runs[q] # None /\ x.runs[q].orch \in ActiveStates
                            => Landed(x, q) # None /\ Same(x.runs[q], Landed(x, q))
                      /\ ~Checkpointing => x.disk[q] = None /\ x.queue[q] = None
      BY DEF Backed
  <2>1. Landed(x, q) = Landed(store, q) BY <1>8 DEF Landed
  <2>2. ~Checkpointing => x.disk[q] = None /\ x.queue[q] = None BY <1>2, <1>8 DEF Backed
  <2>3. CASE q = r
    <3>1. Landed(x, r) = store.disk[r] BY <1>3, <2>1, <2>3 DEF StoreOK, Landed
    <3> QED BY <1>3, <1>6, <1>9, <2>2, <2>3, <3>1
  <2>4. CASE q # r
    <3>1. x.runs[q] = store.runs[q] BY <1>9, <2>4
    <3> QED BY <1>2, <2>1, <2>2, <3>1 DEF Backed
  <2> QED BY <2>3, <2>4
<1>12. r \in RunningRuns(store) => y.status = "running"
  <2> SUFFICES ASSUME r \in RunningRuns(store) PROVE y.status = "running" OBVIOUS
  <2>1. store.runs[r] # None /\ store.runs[r].status = "running"
        BY DEF RunningRuns, InMemory
  <2>2. store.runs[r].orch \in ActiveStates
    <3>1. store.runs[r] \in States BY <1>2, <1>3, <2>1 DEF Stores, Slot
    <3> QED BY <2>1, <3>1, RunningIsActive
  <2>3. Checkpointing BY <1>2, <1>3, StoreAssumption DEF Backed
  <2>4. Landed(store, r).orch \in ActiveStates
        BY <1>2, <1>3, <2>1, <2>2, <2>3 DEF Backed, Same
  <2>5. Landed(store, r) = store.disk[r] BY <1>3 DEF StoreOK, Landed
  <2> QED BY <1>6, <2>4, <2>5, RunningIsActive
<1>13. Balanced(x)
  <2>1. Cardinality(RunningRuns(x)) >= Cardinality(RunningRuns(store))
    <3>1. /\ Cardinality(RunningRuns(x)) \in Nat
          /\ Cardinality(RunningRuns(store)) \in Nat
          BY <1>2, <1>8, CountFacts
    <3>2. IF y.status = "running"
          THEN Cardinality(RunningRuns(x)) =
                 IF r \in RunningRuns(store) THEN Cardinality(RunningRuns(store))
                 ELSE Cardinality(RunningRuns(store)) + 1
          ELSE Cardinality(RunningRuns(x)) =
                 IF r \in RunningRuns(store) THEN Cardinality(RunningRuns(store)) - 1
                 ELSE Cardinality(RunningRuns(store))
          BY <1>2, <1>3, <1>6, <1>8, WriteCounts
    <3> QED BY <1>12, <3>1, <3>2
  <2>2. Cardinality(RunningRuns(x)) \in Nat /\ Cardinality(RunningRuns(store)) \in Nat
        BY <1>2, <1>8, CountFacts
  <2>3. store.audit \in Int /\ store.audit <= Cardinality(RunningRuns(store))
        BY <1>2 DEF Stores, Fine, Balanced
  <2>4. store.audit <= Cardinality(RunningRuns(x)) BY <2>1, <2>2, <2>3
  <2> QED BY <1>8, <2>4 DEF Balanced
<1>14. Fine(x) BY <1>8, <1>10, <1>11, <1>13 DEF Fine, Sturdy
<1>15. store' = x BY <1>4, <1>5, <1>7
<1>16. StoreOK' /\ Grows(store') BY <1>8, <1>14, <1>15 DEF StoreOK, Grows
<1> QED BY <1>3, <1>16, CallsStay

(* One run forgotten, with its hold if it has one.                         *)
LEMMA ForgetOne ==
    ASSUME StoreOK, NEW r \in RunIds, NEW c \in BOOLEAN,
           r \in RunningRuns(store) => c,
           NEW x \in Stores,
           x.runs = [store.runs EXCEPT ![r] = None], x.owner = store.owner,
           x.disk = store.disk \/ x.disk = [store.disk EXCEPT ![r] = None],
           x.audit = ReleaseIf(store, c).audit,
           \/ x.queue = store.queue
           \/ /\ Checkpointing /\ store.owner[r] # None
              /\ \A q \in RunIds \ {r} : x.queue[q] = store.queue[q]
    PROVE  Fine(x) /\ Grows(x)
<1>1. Fine(store) /\ Sturdy(store) /\ store \in Stores BY DEF StoreOK, Fine, Sturdy
<1>2. PICK gone : gone = {r} OBVIOUS
<1>3. gone \in SUBSET RunIds BY <1>2
<1>4. x.runs = [q \in RunIds |-> IF q \in gone THEN None ELSE store.runs[q]]
      BY <1>1, <1>2 DEF Stores
<1>5. \A q \in RunIds :
         /\ q \notin gone => x.disk[q] = store.disk[q] /\ x.queue[q] = store.queue[q]
         /\ x.disk[q] \in {store.disk[q], None}
         /\ x.queue[q] = store.queue[q] \/ (Checkpointing /\ store.owner[q] # None)
      BY <1>1, <1>2 DEF Stores
<1>6. Cardinality(gone \cap RunningRuns(store)) = IF r \in RunningRuns(store) THEN 1 ELSE 0
  <2>1. CASE r \in RunningRuns(store)
    <3>1. gone \cap RunningRuns(store) = {r} BY <1>2, <2>1
    <3>2. Cardinality({r}) = 1 BY FS_Singleton
    <3> QED BY <2>1, <3>1, <3>2
  <2>2. CASE r \notin RunningRuns(store)
    <3>1. gone \cap RunningRuns(store) = {} BY <1>2, <2>2
    <3> QED BY <2>2, <3>1, FS_EmptySet
  <2> QED BY <2>1, <2>2
<1>7. x.audit = IF c /\ store.audit > AuditFloor THEN store.audit - 1 ELSE store.audit
  <2>1. PICK p : p = ReleaseIf(store, c) OBVIOUS
  <2>2. p.audit = IF c /\ store.audit > AuditFloor THEN store.audit - 1 ELSE store.audit
        BY <1>1, <2>1, ReleaseFacts
  <2> QED BY <2>1, <2>2
<1>8. \/ x.audit <= store.audit - Cardinality(gone \cap RunningRuns(store))
      \/ x.audit = AuditFloor
  <2>1. store.audit \in Int /\ store.audit >= AuditFloor BY <1>1 DEF Stores
  <2> QED BY <1>6, <1>7, <2>1, FloorIsNegative
<1>9. Fine(x) BY <1>1, <1>3, <1>4, <1>5, <1>8, DropIsFine
<1> QED BY <1>9 DEF Grows

(* session_end keeps the invariant.                                        *)
LEMMA SessionEndStep ==
    ASSUME StoreOK, CallsOK, NEW s \in Sessions, SessionEnd(s)
    PROVE  StoreOK' /\ CallsOK'
<1> DEFINE x == StateOf(s)
<1>1. PICK r : r = RunOf(s) OBVIOUS
<1>2. HasRun(s) /\ UNCHANGED <<hook, rpc>> BY DEF SessionEnd
<1>3. /\ r \in RunIds /\ store.owner[r] # None /\ x \in States
      /\ r \in RunningRuns(store) => x.status = "running"
      BY <1>1, <1>2, FoundRun
<1>4. Fine(store) /\ Sturdy(store) /\ store \in Stores BY DEF StoreOK, Fine, Sturdy
<1>5. PICK c \in BOOLEAN : c = (x.status = "running") OBVIOUS
<1>6. PICK w : w = ReleaseIf(store, c) OBVIOUS
<1>7. /\ w \in Stores /\ w.runs = store.runs /\ w.owner = store.owner
      /\ w.disk = store.disk /\ w.queue = store.queue
      BY <1>4, <1>6, ReleaseFacts DEF Sturdy
<1>8. PICK v : v = IF x.orch \in {"done", "blocked"} THEN w ELSE Save(w, r, x) OBVIOUS
<1>9. PICK z : z = [v EXCEPT !.runs[r] = None, !.current[s] = None,
                             !.canary = v.canary \ {s}]
      OBVIOUS
<1>10. Become(z) BY <1>1, <1>5, <1>6, <1>8, <1>9 DEF SessionEnd
<1>11. Snapshot(x) \in Slot BY <1>3, SnapshotState DEF Slot
<1>12. /\ v \in Stores /\ v.runs = w.runs /\ v.owner = w.owner /\ v.disk = w.disk
       /\ v.audit = w.audit
       /\ \/ v.queue = w.queue
          \/ Checkpointing /\ v.queue = [w.queue EXCEPT ![r] = Snapshot(x)]
  <2>1. CASE v = w BY <1>7, <2>1
  <2>2. CASE Checkpointing /\ v = [w EXCEPT !.queue[r] = Snapshot(x)]
        BY <1>3, <1>7, <1>11, <2>2 DEF Stores
  <2> QED BY <1>8, <2>1, <2>2, StoreAssumption DEF Save
<1>13. /\ z \in Stores /\ z.runs = [v.runs EXCEPT ![r] = None] /\ z.owner = v.owner
       /\ z.disk = v.disk /\ z.audit = v.audit /\ z.queue = v.queue
       BY <1>3, <1>9, <1>12 DEF Stores, Slot
<1>14. \/ z.queue = store.queue
       \/ /\ Checkpointing /\ store.owner[r] # None
          /\ \A q \in RunIds \ {r} : z.queue[q] = store.queue[q]
  <2>1. CASE v.queue = w.queue BY <1>7, <1>13, <2>1
  <2>2. CASE Checkpointing /\ v.queue = [w.queue EXCEPT ![r] = Snapshot(x)]
        BY <1>3, <1>4, <1>7, <1>13, <2>2 DEF Stores
  <2> QED BY <1>12, <2>1, <2>2
<1>15. /\ z \in Stores /\ z.runs = [store.runs EXCEPT ![r] = None]
       /\ z.owner = store.owner /\ z.disk = store.disk
       /\ z.audit = ReleaseIf(store, c).audit
       BY <1>6, <1>7, <1>12, <1>13
<1>16. r \in RunningRuns(store) => c BY <1>3, <1>5
<1> HIDE DEF x
<1>17. Fine(z) /\ Grows(z) BY <1>3, <1>14, <1>15, <1>16, ForgetOne
<1> QED BY <1>2, <1>10, <1>17, Settle, CallsStay

(* The cleanup of the session extension keeps the invariant.               *)
LEMMA ExtensionCleanupStep ==
    ASSUME StoreOK, CallsOK, NEW s \in Sessions, ExtensionCleanup(s)
    PROVE  StoreOK' /\ CallsOK'
<1>1. PICK r : r = RunOf(s) OBVIOUS
<1>2. UNCHANGED <<hook, rpc>> BY DEF ExtensionCleanup
<1>3. Fine(store) /\ Sturdy(store) /\ store \in Stores BY DEF StoreOK, Fine, Sturdy
<1>4. CASE HasRun(s)
  <2>1. /\ r \in RunIds
        /\ r \in RunningRuns(store) => StateOf(s).status = "running"
        BY <1>1, <1>4, FoundRun
  <2>2. PICK c \in BOOLEAN : c = (StateOf(s).status = "running") OBVIOUS
  <2>3. PICK v : v = ReleaseIf(store, c) OBVIOUS
  <2>4. PICK w : w = [v EXCEPT !.runs[r] = None] OBVIOUS
  <2>5. PICK z : z = [w EXCEPT !.current[s] = None, !.canary = w.canary \ {s}] OBVIOUS
  <2>6. store' = z
        BY <1>1, <1>4, <2>2, <2>3, <2>4, <2>5 DEF ExtensionCleanup
  <2>7. /\ v \in Stores /\ v.runs = store.runs /\ v.owner = store.owner
        /\ v.disk = store.disk /\ v.queue = store.queue
        BY <1>3, <2>3, ReleaseFacts DEF Sturdy
  <2>8. /\ w \in Stores /\ w.runs = [v.runs EXCEPT ![r] = None] /\ w.owner = v.owner
        /\ w.disk = v.disk /\ w.queue = v.queue /\ w.audit = v.audit
        BY <2>1, <2>4, <2>7 DEF Stores, Slot
  <2>9. /\ z \in Stores /\ z.runs = w.runs /\ z.owner = w.owner
        /\ z.disk = w.disk /\ z.queue = w.queue /\ z.audit = w.audit
        BY <2>5, <2>8 DEF Stores
  <2>10. /\ z.runs = [store.runs EXCEPT ![r] = None] /\ z.owner = store.owner
         /\ z.disk = store.disk /\ z.queue = store.queue
         /\ z.audit = ReleaseIf(store, c).audit
         BY <2>3, <2>7, <2>8, <2>9
  <2>11. r \in RunningRuns(store) => c BY <2>1, <2>2
  <2>12. Fine(z) /\ Grows(z) BY <2>1, <2>9, <2>10, <2>11, ForgetOne
  <2>13. StoreOK' /\ Grows(store') BY <2>6, <2>10, <2>12 DEF StoreOK
  <2> QED BY <1>2, <2>13, CallsStay
<1>5. CASE ~HasRun(s)
  <2>1. PICK z : z = [store EXCEPT !.current[s] = None, !.canary = store.canary \ {s}]
        OBVIOUS
  <2>2. store' = z BY <1>5, <2>1 DEF ExtensionCleanup
  <2>3. /\ z \in Stores /\ z.runs = store.runs /\ z.owner = store.owner
        /\ z.disk = store.disk /\ z.queue = store.queue /\ z.audit = store.audit
        BY <1>3, <2>1 DEF Stores
  <2>4. Fine(z) BY <1>3, <2>3, PassiveIsFine
  <2>5. StoreOK' /\ Grows(store') BY <2>2, <2>3, <2>4 DEF StoreOK, Grows
  <2> QED BY <1>2, <2>5, CallsStay
<1> QED BY <1>4, <1>5

(* autopilot.cleanup gives back every hold.                                *)
LEMMA CleanupStep ==
    ASSUME StoreOK, CallsOK, Cleanup
    PROVE  StoreOK' /\ CallsOK'
<1>1. UNCHANGED <<hook, rpc>> BY DEF Cleanup
<1>2. Fine(store) /\ store \in Stores BY DEF StoreOK, Fine, Sturdy
<1>3. PICK gone : gone = InMemory(store) OBVIOUS
<1>4. gone \in SUBSET RunIds BY <1>3 DEF InMemory
<1>5. PICK a : a = ReleaseAll(store, gone) OBVIOUS
<1>6. /\ a \in Stores /\ a.runs = store.runs /\ a.owner = store.owner
      /\ a.disk = store.disk /\ a.queue = store.queue
      BY <1>2, <1>4, <1>5, ReleaseAllFacts
<1>7. \/ a.audit = store.audit - Cardinality(gone \cap RunningRuns(store))
      \/ a.audit = AuditFloor
      BY <1>2, <1>4, <1>5, ReleaseAllFacts
<1>8. PICK z : z = [a EXCEPT !.runs = [r \in RunIds |-> None],
                             !.current = [s \in Sessions |-> None],
                             !.canary = {}, !.armed = {}]
      OBVIOUS
<1>9. store' = z BY <1>3, <1>5, <1>8 DEF Cleanup
<1>10. /\ z \in Stores /\ z.runs = [r \in RunIds |-> None] /\ z.owner = a.owner
       /\ z.disk = a.disk /\ z.queue = a.queue /\ z.audit = a.audit
       BY <1>6, <1>8 DEF Stores, Slot
<1>11. z.runs = [q \in RunIds |-> IF q \in gone THEN None ELSE store.runs[q]]
       BY <1>3, <1>10 DEF InMemory
<1>12. /\ store.audit \in Int
       /\ Cardinality(gone \cap RunningRuns(store)) \in Nat
  <2>1. IsFiniteSet(gone \cap RunningRuns(store)) BY <1>2, CountFacts, FS_Intersection
  <2> QED BY <1>2, <2>1, FS_CardinalityType DEF Stores
<1>13. \/ z.audit <= store.audit - Cardinality(gone \cap RunningRuns(store))
       \/ z.audit = AuditFloor
       BY <1>7, <1>10, <1>12
<1>14. z.owner = store.owner /\ z.disk = store.disk /\ z.queue = store.queue
       BY <1>6, <1>10
<1>15. Fine(z) BY <1>2, <1>4, <1>10, <1>11, <1>13, <1>14, DropIsFine
<1>16. StoreOK' /\ Grows(store') BY <1>9, <1>14, <1>15 DEF StoreOK, Grows
<1> QED BY <1>1, <1>16, CallsStay

(* Time passing ages what the suspended handlers hold of r.                *)
Waits(f, g, r) ==
    /\ g = [t \in Sessions |-> g[t]]
    /\ \A t \in Sessions :
          /\ f[t].run # r => g[t] = f[t]
          /\ f[t].run = r => \E y \in Alive : g[t] = [f[t] EXCEPT !.snap = y]

(* What waits stays suspended, at the same run.                            *)
LEMMA WaitCalls ==
    ASSUME NEW ats, NEW f \in [Sessions -> Calls(ats)], NEW r \in RunIds, NEW g,
           Waits(f, g, r)
    PROVE  /\ g \in [Sessions -> Calls(ats)]
           /\ \A t \in Sessions : g[t] # Idle => f[t] # Idle /\ g[t].run = f[t].run
<1>1. \A t \in Sessions :
         /\ g[t] \in Calls(ats)
         /\ g[t] # Idle => f[t] # Idle /\ g[t].run = f[t].run
  <2> SUFFICES ASSUME NEW t \in Sessions
               PROVE  /\ g[t] \in Calls(ats)
                      /\ g[t] # Idle => f[t] # Idle /\ g[t].run = f[t].run
      OBVIOUS
  <2>1. CASE f[t].run # r
    <3>1. g[t] = f[t] BY <2>1 DEF Waits
    <3> QED BY <3>1
  <2>2. CASE f[t].run = r
    <3>1. f[t] # Idle BY <2>2, NoneIsNoState DEF Idle
    <3>2. f[t] \in [at : ats, run : RunIds, snap : Alive] BY <3>1 DEF Calls
    <3>3. PICK y \in Alive : g[t] = [f[t] EXCEPT !.snap = y] BY <2>2 DEF Waits
    <3>4. g[t] \in [at : ats, run : RunIds, snap : Alive] /\ g[t].run = f[t].run
          BY <3>2, <3>3
    <3> QED BY <3>1, <3>4 DEF Calls
  <2> QED BY <2>1, <2>2
<1>2. g = [t \in Sessions |-> g[t]] BY DEF Waits
<1> QED BY <1>1, <1>2

(* Waiting handlers keep the invariant.                                    *)
LEMMA WaitStep ==
    ASSUME CallsOK, Grows(store'), NEW r \in RunIds,
           Waits(hook, hook', r), Waits(rpc, rpc', r)
    PROVE  CallsOK'
<1>1. hook \in [Sessions -> Calls(HookAts)] /\ rpc \in [Sessions -> Calls({"resume_run"})]
      BY DEF CallsOK
<1>2. hook' \in [Sessions -> Calls(HookAts)] BY <1>1, WaitCalls
<1>3. \A t \in Sessions : hook'[t] # Idle => hook[t] # Idle /\ hook'[t].run = hook[t].run
      BY <1>1, WaitCalls
<1>4. rpc' \in [Sessions -> Calls({"resume_run"})] BY <1>1, WaitCalls
<1>5. \A t \in Sessions : rpc'[t] # Idle => rpc[t] # Idle /\ rpc'[t].run = rpc[t].run
      BY <1>1, WaitCalls
<1>6. \A t \in Sessions : /\ hook[t] # Idle => hook[t].run \in RunIds
                          /\ rpc[t] # Idle => rpc[t].run \in RunIds
      BY HeldRun
<1>7. \A t \in Sessions : hook'[t] # Idle => store'.owner[hook'[t].run] # None
      BY <1>3, <1>6 DEF CallsOK, Grows
<1>8. \A t \in Sessions : rpc'[t] # Idle => store'.owner[rpc'[t].run] # None
      BY <1>5, <1>6 DEF CallsOK, Grows
<1> QED BY <1>2, <1>4, <1>7, <1>8 DEF CallsOK

(* A run that only gets older, or whose backoff ends, stays as it was.     *)
LEMMA AgedIsFine ==
    ASSUME StoreOK, NEW r \in InMemory(store), NEW y \in States,
           Same(store.runs[r], y), y.status = store.runs[r].status,
           NEW x, x = [store EXCEPT !.runs[r] = y]
    PROVE  Fine(x) /\ Grows(x) /\ \A q \in RunIds : x.queue[q] = None
<1>1. Fine(store) /\ store \in Stores /\ r \in RunIds /\ store.runs[r] # None
      /\ Owned(store) /\ Backed(store)
      BY DEF StoreOK, Fine, Sturdy, InMemory
<1>2. /\ x \in Stores /\ x.runs = [store.runs EXCEPT ![r] = y] /\ x.owner = store.owner
      /\ x.disk = store.disk /\ x.queue = store.queue /\ x.audit = store.audit
      BY <1>1 DEF Stores, Slot
<1>3. x.runs[r] = y /\ (\A q \in RunIds \ {r} : x.runs[q] = store.runs[q]) /\ y # None
      BY <1>1, <1>2, NoneIsNoState DEF Stores
<1>4. \A q \in RunIds : /\ x.runs[q] # None <=> store.runs[q] # None
                        /\ Same(store.runs[q], x.runs[q])
                        /\ x.runs[q].status = store.runs[q].status
      BY <1>1, <1>3 DEF Same
<1>5. Owned(x) BY <1>1, <1>2, <1>4 DEF Owned
<1>6. Backed(x)
  <2>1. \A q \in RunIds : Landed(x, q) = Landed(store, q) BY <1>2 DEF Landed
  <2> QED BY <1>1, <1>2, <1>4, <2>1 DEF Backed, Same
<1>7. RunningRuns(x) = RunningRuns(store) BY <1>4 DEF RunningRuns, InMemory
<1>8. Balanced(x) BY <1>1, <1>2, <1>7 DEF Fine, Balanced
<1> QED BY <1>2, <1>5, <1>6, <1>8 DEF Fine, Sturdy, StoreOK, Grows

(* A run going quiet keeps the invariant.                                  *)
LEMMA QuietStep ==
    ASSUME StoreOK, CallsOK, NEW r \in RunIds, Quiet(r)
    PROVE  StoreOK' /\ CallsOK'
<1>1. PICK age : age = IF store.runs[r].age = "fresh" THEN "stalled" ELSE "orphan"
      OBVIOUS
<1>2. age \in Ages BY <1>1 DEF Ages
<1>3. r \in InMemory(store) /\ store.runs[r] \in States
      BY DEF Quiet, InMemory, StoreOK, Fine, Sturdy, Stores, Slot
<1>4. PICK y : y = [store.runs[r] EXCEPT !.age = age] OBVIOUS
<1>5. y \in States /\ Same(store.runs[r], y) /\ y.status = store.runs[r].status
  <2>1. PICK t : t = store.runs[r] OBVIOUS
  <2>2. t \in States /\ t.due \in BOOLEAN BY <1>3, <2>1 DEF States, Run
  <2>3. PICK d \in BOOLEAN : d = t.due BY <2>2
  <2>4. y = [t EXCEPT !.age = age, !.due = d] BY <1>4, <2>1, <2>2, <2>3 DEF States, Run
  <2>5. /\ [t EXCEPT !.age = age, !.due = d] \in States
        /\ Same(t, [t EXCEPT !.age = age, !.due = d])
        /\ [t EXCEPT !.age = age, !.due = d].status = t.status
        BY <1>2, <2>2, Aged
  <2> QED BY <2>1, <2>4, <2>5
<1>6. PICK x : x = [store EXCEPT !.runs[r] = y] OBVIOUS
<1>7. store' = x
  <2>1. store' = [store EXCEPT !.runs[r].age = age] BY <1>1 DEF Quiet
  <2> QED BY <1>4, <1>6, <2>1 DEF StoreOK, Fine, Sturdy, Stores
<1>8. Fine(x) /\ Grows(x) /\ \A q \in RunIds : x.queue[q] = None
      BY <1>3, <1>5, <1>6, AgedIsFine
<1>9. StoreOK' /\ Grows(store') BY <1>7, <1>8 DEF StoreOK
<1>10. \A z \in Alive : Older(z, age) \in Alive
  <2> SUFFICES ASSUME NEW z \in Alive PROVE Older(z, age) \in Alive OBVIOUS
  <2>1. z \in States /\ z.status = "running" /\ z \in Run BY DEF Alive, States
  <2>2. PICK d \in BOOLEAN : d = z.due BY <2>1 DEF Run
  <2>3. [z EXCEPT !.age = age] = [z EXCEPT !.age = age, !.due = d] BY <2>1, <2>2 DEF Run
  <2>4. [z EXCEPT !.age = age, !.due = d] \in States
        /\ [z EXCEPT !.age = age, !.due = d].status = z.status
        BY <1>2, <2>1, Aged
  <2> QED BY <2>1, <2>3, <2>4 DEF Older, Alive
<1>11. \A t \in Sessions : /\ hook[t].run = r => hook[t].snap \in Alive
                           /\ rpc[t].run = r => rpc[t].snap \in Alive
  <2>1. Idle.run # r BY NoneIsNoState DEF Idle
  <2> QED BY <2>1, HeldRun
<1>12. /\ hook' = [t \in Sessions |->
                      IF hook[t].run # r THEN hook[t]
                      ELSE [hook[t] EXCEPT !.snap = Older(hook[t].snap, age)]]
       /\ rpc' = [t \in Sessions |->
                      IF rpc[t].run # r THEN rpc[t]
                      ELSE [rpc[t] EXCEPT !.snap = Older(rpc[t].snap, age)]]
       BY <1>1 DEF Quiet
<1>13. Waits(hook, hook', r) BY <1>10, <1>11, <1>12 DEF Waits
<1>14. Waits(rpc, rpc', r) BY <1>10, <1>11, <1>12 DEF Waits
<1> QED BY <1>9, <1>13, <1>14, WaitStep

(* Setting whether the backoff is over keeps a state.                      *)
LEMMA DueState ==
    ASSUME NEW t \in States, NEW d \in BOOLEAN, NEW y, y = [t EXCEPT !.due = d]
    PROVE  y \in States /\ Same(t, y) /\ y.status = t.status
<1>1. t.age \in Ages /\ t \in Run BY DEF States, Run, Ages
<1>2. PICK a \in Ages : a = t.age BY <1>1
<1>3. y = [t EXCEPT !.age = a, !.due = d] BY <1>1, <1>2 DEF Run
<1>4. /\ [t EXCEPT !.age = a, !.due = d] \in States
      /\ Same(t, [t EXCEPT !.age = a, !.due = d])
      /\ [t EXCEPT !.age = a, !.due = d].status = t.status
      BY Aged
<1> QED BY <1>3, <1>4

(* The end of a backoff keeps the invariant.                               *)
LEMMA BackoffOverStep ==
    ASSUME StoreOK, CallsOK, NEW r \in RunIds, BackoffOver(r)
    PROVE  StoreOK' /\ CallsOK'
<1>1. r \in InMemory(store) /\ store.runs[r] \in States
      BY DEF BackoffOver, InMemory, StoreOK, Fine, Sturdy, Stores, Slot
<1>2. PICK y : y = [store.runs[r] EXCEPT !.due = TRUE] OBVIOUS
<1>3. y \in States /\ Same(store.runs[r], y) /\ y.status = store.runs[r].status
  <2>1. PICK t : t = store.runs[r] OBVIOUS
  <2>2. PICK d \in BOOLEAN : d = TRUE OBVIOUS
  <2>3. t \in States /\ y = [t EXCEPT !.due = d] BY <1>1, <1>2, <2>1, <2>2
  <2> QED BY <2>1, <2>3, DueState
<1>4. PICK x : x = [store EXCEPT !.runs[r] = y] OBVIOUS
<1>5. store' = x
  <2>1. store' = [store EXCEPT !.runs[r].due = TRUE] BY DEF BackoffOver
  <2> QED BY <1>2, <1>4, <2>1 DEF StoreOK, Fine, Sturdy, Stores
<1>6. Fine(x) /\ Grows(x) /\ \A q \in RunIds : x.queue[q] = None
      BY <1>1, <1>3, <1>4, AgedIsFine
<1>7. StoreOK' /\ Grows(store') BY <1>5, <1>6 DEF StoreOK
<1>8. \A z \in Alive : [z EXCEPT !.due = z.due \/ z.attempt > 0] \in Alive
  <2> SUFFICES ASSUME NEW z \in Alive
               PROVE  [z EXCEPT !.due = z.due \/ z.attempt > 0] \in Alive
      OBVIOUS
  <2>1. z \in States /\ z.status = "running" BY DEF Alive
  <2>2. PICK d \in BOOLEAN : d = (z.due \/ z.attempt > 0) OBVIOUS
  <2>3. PICK v : v = [z EXCEPT !.due = d] OBVIOUS
  <2>4. v \in States /\ v.status = z.status BY <2>1, <2>3, DueState
  <2> QED BY <2>1, <2>2, <2>3, <2>4 DEF Alive
<1>9. \A t \in Sessions : /\ hook[t].run = r => hook[t].snap \in Alive
                          /\ rpc[t].run = r => rpc[t].snap \in Alive
  <2>1. Idle.run # r BY NoneIsNoState DEF Idle
  <2> QED BY <2>1, HeldRun
<1>10. /\ hook' = [t \in Sessions |->
                      IF hook[t].run # r THEN hook[t]
                      ELSE [hook[t] EXCEPT !.snap.due = @ \/ hook[t].snap.attempt > 0]]
       /\ rpc' = [t \in Sessions |->
                      IF rpc[t].run # r THEN rpc[t]
                      ELSE [rpc[t] EXCEPT !.snap.due = @ \/ rpc[t].snap.attempt > 0]]
       BY DEF BackoffOver
<1>11. \A t \in Sessions :
          /\ hook[t].run # r => hook'[t] = hook[t]
          /\ hook[t].run = r =>
               hook'[t] = [hook[t] EXCEPT !.snap =
                             [hook[t].snap EXCEPT !.due = hook[t].snap.due
                                                          \/ hook[t].snap.attempt > 0]]
       BY <1>10
<1>12. \A t \in Sessions :
          /\ rpc[t].run # r => rpc'[t] = rpc[t]
          /\ rpc[t].run = r =>
               rpc'[t] = [rpc[t] EXCEPT !.snap =
                             [rpc[t].snap EXCEPT !.due = rpc[t].snap.due
                                                         \/ rpc[t].snap.attempt > 0]]
       BY <1>10
<1>13. hook' = [t \in Sessions |-> hook'[t]] /\ rpc' = [t \in Sessions |-> rpc'[t]]
       BY <1>10
<1>14. Waits(hook, hook', r) BY <1>8, <1>9, <1>11, <1>13 DEF Waits
<1>15. Waits(rpc, rpc', r) BY <1>8, <1>9, <1>12, <1>13 DEF Waits
<1> QED BY <1>7, <1>14, <1>15, WaitStep

(* A cap that is exceeded touches no run yet.                              *)
LEMMA CapExceededStep ==
    ASSUME StoreOK, CallsOK, NEW r \in RunIds, CapExceeded(r)
    PROVE  StoreOK' /\ CallsOK'
BY StoreStays, CallsStay DEF CapExceeded

(* A restart loads good states and holds nothing.                          *)
LEMMA RestartStep ==
    ASSUME StoreOK, CallsOK, Restart
    PROVE  StoreOK' /\ CallsOK'
<1>1. Fine(store) /\ store \in Stores /\ Owned(store) BY DEF StoreOK, Fine, Sturdy
<1>2. PICK age \in Downtimes, due \in BOOLEAN, swept \in SUBSET Sweepable,
           last \in [Sessions -> RunIds \cup {None}] :
         store' = Registered(age, due, swept, last)
      BY DEF Restart
<1>3. PICK disk : disk = [r \in RunIds |-> IF r \in swept THEN None ELSE store.disk[r]]
      OBVIOUS
<1>4. PICK runs : runs = [r \in RunIds |-> IF r \in Recoverable(store)
                                         THEN Loaded(store, r, age, due) ELSE None]
      OBVIOUS
<1>5. PICK none : none = [r \in RunIds |-> None] OBVIOUS
<1>6. PICK x : x = [runs |-> runs, owner |-> store.owner, current |-> last,
                    canary |-> {}, armed |-> {}, audit |-> 0, disk |-> disk,
                    index |-> store.index, queue |-> none]
      OBVIOUS
<1>7. store' = x BY <1>2, <1>3, <1>4, <1>5, <1>6 DEF Registered
<1>8. \A r \in Recoverable(store) :
         /\ r \in RunIds /\ store.disk[r] # None /\ store.disk[r].orch \in ActiveStates
         /\ Loaded(store, r, age, due) \in States
         /\ Same(Loaded(store, r, age, due), store.disk[r])
      BY <1>1, LoadedState DEF Recoverable, Downtimes, Same
<1>9. runs \in [RunIds -> Slot] BY <1>4, <1>8 DEF Slot
<1>10. disk \in [RunIds -> Slot] BY <1>1, <1>3 DEF Stores, Slot
<1>11. none \in [RunIds -> Slot] BY <1>5 DEF Slot
<1>12. /\ store.owner \in [RunIds -> Sessions \cup {None}]
       /\ store.index \in [Sessions -> RunIds \cup {None}]
       BY <1>1 DEF Stores
<1>13. /\ x.runs = runs /\ x.owner = store.owner /\ x.audit = 0 /\ x.disk = disk
       /\ x.queue = none
       BY <1>6
<1>14. x \in Stores
  <2>1. 0 >= AuditFloor /\ 0 \in Int BY FloorIsNegative
  <2> QED BY <1>6, <1>9, <1>10, <1>11, <1>12, <2>1 DEF Stores
<1>15. Owned(x)
  <2> SUFFICES ASSUME NEW q \in RunIds,
                      x.runs[q] # None \/ x.disk[q] # None \/ x.queue[q] # None
               PROVE  store.owner[q] # None
      BY <1>13 DEF Owned
  <2>1. store.disk[q] # None
    <3>1. x.runs[q] # None => store.disk[q] # None BY <1>4, <1>8, <1>13
    <3>2. x.disk[q] # None => store.disk[q] # None BY <1>3, <1>13
    <3>3. x.queue[q] = None BY <1>5, <1>13
    <3> QED BY <3>1, <3>2, <3>3
  <2> QED BY <1>1, <2>1 DEF Owned
<1>16. Backed(x)
  <2> SUFFICES ASSUME NEW q \in RunIds
               PROVE  /\ Checkpointing /\ x.runs[q] # None /\ x.runs[q].orch \in ActiveStates
                            => Landed(x, q) # None /\ Same(x.runs[q], Landed(x, q))
                      /\ ~Checkpointing => x.disk[q] = None /\ x.queue[q] = None
      BY DEF Backed
  <2>1. Checkpointing BY DEF Restart
  <2>2. Landed(x, q) = disk[q] BY <1>5, <1>13 DEF Landed
  <2>3. x.runs[q] # None => q \in Recoverable(store) BY <1>4, <1>13
  <2>4. x.runs[q] # None => disk[q] = store.disk[q] /\ Same(x.runs[q], store.disk[q])
        BY <1>3, <1>4, <1>8, <1>13, <2>3 DEF Sweepable, ActiveStates
  <2> QED BY <1>8, <2>1, <2>2, <2>3, <2>4
<1>17. Balanced(x)
  <2>1. Cardinality(RunningRuns(x)) \in Nat BY <1>14, CountFacts
  <2> QED BY <1>13, <2>1 DEF Balanced
<1>18. Fine(x) BY <1>14, <1>15, <1>16, <1>17 DEF Fine, Sturdy
<1>19. StoreOK' /\ Grows(store') BY <1>5, <1>7, <1>13, <1>18 DEF StoreOK, Grows
<1>20. /\ hook' = [t \in Sessions |-> Idle] /\ rpc' = [t \in Sessions |-> Idle]
       BY DEF Restart
<1>21. CallsOK' BY <1>20, CallTypes DEF CallsOK
<1> QED BY <1>19, <1>21
(* A new run is running, with its workspace ready.                         *)
LEMMA FreshRun == Fresh \in Alive
<1>1. Good(InitialState) /\ InitialState.orch = "none"
  <2>1. InitialState \in Run BY DEF InitialState, Run, OrchestrationStates
  <2> QED BY <2>1, MaxRetriesAssumption DEF InitialState, Good, Core, DeriveStatus, ActiveStates
<1>2. PICK a : a = ActivateRequested(InitialState) OBVIOUS
<1>3. Good(a) BY <1>1, <1>2, ActivateSound DEF Sound
<1>4. a.orch = "unclaimed" /\ a \in Run
  <2>1. PICK y : y = [InitialState EXCEPT !.orch = "unclaimed", !.blocked = "none",
                        !.attempt = 0, !.due = FALSE, !.evidence = "none",
                        !.unverified = FALSE, !.enabled = TRUE, !.age = "fresh"]
        OBVIOUS
  <2>2. y \in Run /\ y.orch = "unclaimed"
        BY <2>1 DEF InitialState, Run, OrchestrationStates
  <2>3. a = Derived(y) BY <1>2, <2>1 DEF ActivateRequested
  <2> QED BY <2>2, <2>3, DerivedFields
<1>5. Good(Fresh) BY <1>2, <1>3, WorkspaceSound DEF Fresh, Sound
<1>6. Fresh.orch = "claimed" /\ Fresh \in Run
  <2>1. PICK y : y = [a EXCEPT !.orch = "claimed", !.blocked = "none", !.attempt = 0,
                               !.due = FALSE, !.age = "fresh"]
        OBVIOUS
  <2>2. y \in Run /\ y.orch = "claimed" BY <1>4, <2>1 DEF Run, OrchestrationStates
  <2>3. Fresh = Derived(y) BY <1>2, <1>4, <2>1 DEF Fresh, WorkspaceReady
  <2> QED BY <2>2, <2>3, DerivedFields
<1>7. Fresh \in States BY <1>5, <1>6 DEF States
<1> QED BY <1>6, <1>7, RunningIsActive DEF Alive, ActiveStates

(* A run leaves the map of runs, and its session the map of sessions.      *)
Emptied(p, r, s) == [p EXCEPT !.runs[r] = None, !.current[s] = None]

(* It keeps the types, and changes no other map.                           *)
LEMMA SlotEmptied ==
    ASSUME NEW p \in Stores, NEW r \in RunIds, NEW s \in Sessions,
           NEW x, x = Emptied(p, r, s)
    PROVE  /\ x \in Stores /\ x.runs = [p.runs EXCEPT ![r] = None] /\ x.owner = p.owner
           /\ x.disk = p.disk /\ x.queue = p.queue /\ x.audit = p.audit
BY DEF Stores, Slot, Emptied

(* The run that an activation replaces goes, with its hold and, if it was  *)
(* stuck, with its checkpoint.                                             *)
LEMMA ReplacedRun ==
    ASSUME StoreOK, NEW s \in Sessions, HasRun(s), NEW c \in BOOLEAN,
           StateOf(s).status = "running" => c,
           NEW d, d = IF c /\ Checkpointing THEN DeleteCheckpoint(store, RunOf(s)) ELSE store,
           NEW x, x = [ReleaseIf(d, c) EXCEPT !.runs[RunOf(s)] = None, !.current[s] = None]
    PROVE  Fine(x) /\ x.owner = store.owner
<1>1. PICK r : r = RunOf(s) OBVIOUS
<1>2. /\ r \in RunIds
      /\ r \in RunningRuns(store) => StateOf(s).status = "running"
      BY <1>1, FoundRun
<1>3. store \in Stores BY DEF StoreOK, Fine, Sturdy
<1>4. d = store \/ d = [store EXCEPT !.disk[r] = None] BY <1>1 DEF DeleteCheckpoint
<1>5. /\ d \in Stores /\ d.runs = store.runs /\ d.owner = store.owner
      /\ d.queue = store.queue /\ d.audit = store.audit
      /\ d.disk = store.disk \/ d.disk = [store.disk EXCEPT ![r] = None]
  <2>1. CASE d = store BY <1>3, <2>1
  <2>2. CASE d = [store EXCEPT !.disk[r] = None] BY <1>2, <1>3, <2>2 DEF Stores, Slot
  <2> QED BY <1>4, <2>1, <2>2
<1>6. PICK p : p = ReleaseIf(d, c) OBVIOUS
<1>7. /\ p \in Stores /\ p.runs = d.runs /\ p.owner = d.owner /\ p.disk = d.disk
      /\ p.queue = d.queue /\ p.audit = ReleaseIf(store, c).audit
  <2>1. CASE ~c BY <1>5, <1>6, <2>1 DEF ReleaseIf
  <2>2. CASE c
    <3>1. PICK n : n = IF d.audit > AuditFloor THEN d.audit - 1 ELSE d.audit OBVIOUS
    <3>2. d.audit \in Int /\ d.audit >= AuditFloor BY <1>5 DEF Stores
    <3>3. n \in Int /\ n >= AuditFloor BY <3>1, <3>2, FloorIsNegative
    <3>4. p = [d EXCEPT !.audit = n] BY <1>6, <2>2, <3>1 DEF ReleaseIf, Release
    <3>5. /\ p \in Stores /\ p.runs = d.runs /\ p.owner = d.owner /\ p.disk = d.disk
          /\ p.queue = d.queue /\ p.audit = n
          BY <1>5, <3>3, <3>4 DEF Stores
    <3>6. ReleaseIf(store, c).audit = n
          BY <1>3, <1>5, <2>2, <3>1 DEF ReleaseIf, Release, Stores
    <3> QED BY <3>5, <3>6
  <2> QED BY <2>1, <2>2
<1>8. x = [p EXCEPT !.runs[r] = None, !.current[s] = None] BY <1>1, <1>6
<1>9. /\ x \in Stores /\ x.runs = [p.runs EXCEPT ![r] = None] /\ x.owner = p.owner
      /\ x.disk = p.disk /\ x.queue = p.queue /\ x.audit = p.audit
  <2>1. p \in Stores BY <1>7
  <2>2. PICK y : y = Emptied(p, r, s) OBVIOUS
  <2>3. /\ y \in Stores /\ y.runs = [p.runs EXCEPT ![r] = None] /\ y.owner = p.owner
        /\ y.disk = p.disk /\ y.queue = p.queue /\ y.audit = p.audit
        BY <1>2, <2>1, <2>2, SlotEmptied
  <2>4. x = y BY <1>8, <2>2 DEF Emptied
  <2> QED BY <2>3, <2>4
<1>10. /\ x.runs = [store.runs EXCEPT ![r] = None] /\ x.owner = store.owner
       /\ x.disk = store.disk \/ x.disk = [store.disk EXCEPT ![r] = None]
       /\ x.queue = store.queue /\ x.audit = ReleaseIf(store, c).audit
       BY <1>5, <1>7, <1>9
<1>11. r \in RunningRuns(store) => c BY <1>2
<1>12. Fine(x) BY <1>2, <1>9, <1>10, <1>11, ForgetOne
<1> QED BY <1>10, <1>12

(* A run that nobody owned is given to a session, brought in and counted.  *)
LEMMA ActivatedRun ==
    ASSUME NEW v, Fine(v), NEW s \in Sessions, NEW r \in RunIds, v.owner[r] = None,
           NEW u, u = [v EXCEPT !.owner[r] = s],
           NEW w \in Insertions(u, r, Fresh), w.runs[r] # None,
           NEW z, z = [w EXCEPT !.current[s] = r],
           NEW a, a = Acquire(z)
    PROVE  Fine(a) /\ \A q \in RunIds : v.owner[q] # None => a.owner[q] # None
<1>1. v \in Stores /\ Owned(v) /\ Backed(v) /\ Balanced(v) BY DEF Fine, Sturdy
<1>2. /\ u \in Stores /\ u.runs = v.runs /\ u.owner = [v.owner EXCEPT ![r] = s]
      /\ u.disk = v.disk /\ u.queue = v.queue /\ u.audit = v.audit
      BY <1>1 DEF Stores
<1>3. s # None BY NoneIsNoState
<1>4. u.owner[r] = s /\ \A q \in RunIds \ {r} : u.owner[q] = v.owner[q]
      BY <1>1, <1>2 DEF Stores
<1>5. Owned(u) BY <1>1, <1>2, <1>3, <1>4 DEF Owned
<1>6. Backed(u) BY <1>1, <1>2 DEF Backed, Landed
<1>7. RunningRuns(u) = RunningRuns(v) BY <1>2 DEF RunningRuns, InMemory
<1>8. Fine(u) BY <1>1, <1>2, <1>5, <1>6, <1>7 DEF Fine, Sturdy, Balanced
<1>9. r \notin RunningRuns(u) BY <1>1, <1>2 DEF Owned, RunningRuns, InMemory
<1>10. Fresh \in States /\ Fresh.status = "running" BY FreshRun DEF Alive
<1>11. PICK f : f = Fresh OBVIOUS
<1>12. f \in States /\ f.status = "running" /\ w \in Insertions(u, r, f) BY <1>10, <1>11
<1>13. /\ Fine(w) /\ w.owner = u.owner
       /\ w.audit + 1 <= Cardinality(RunningRuns(w))
       BY <1>3, <1>4, <1>8, <1>9, <1>12, InsertIsFine
<1>14. w \in Stores BY <1>13 DEF Fine, Sturdy
<1>15. /\ z \in Stores /\ z.runs = w.runs /\ z.owner = w.owner
       /\ z.disk = w.disk /\ z.queue = w.queue /\ z.audit = w.audit
       BY <1>14 DEF Stores
<1>16. Fine(z) BY <1>13, <1>15, PassiveIsFine
<1>17. RunningRuns(z) = RunningRuns(w) BY <1>15 DEF RunningRuns, InMemory
<1>18. z.audit + 1 <= Cardinality(RunningRuns(z)) BY <1>13, <1>15, <1>17
<1>19. Fine(a) /\ a.owner = z.owner BY <1>16, <1>18, AcquireIsFine DEF Fine
<1> QED BY <1>3, <1>4, <1>13, <1>15, <1>19

(* activate keeps the invariant.                                           *)
LEMMA ActivateStep ==
    ASSUME StoreOK, CallsOK, NEW s \in Sessions, Activate(s)
    PROVE  StoreOK' /\ CallsOK'
<1>1. PICK c \in BOOLEAN : c = Recovers(s) BY DEF Recovers
<1>2. PICK d : d = IF c /\ Checkpointing THEN DeleteCheckpoint(store, RunOf(s)) ELSE store
      OBVIOUS
<1>3. PICK v : v = Cleared(s) OBVIOUS
<1>4. UNCHANGED <<hook, rpc>> BY DEF Activate
<1>5. PICK r \in RunIds :
        /\ store.owner[r] = None
        /\ \E w \in Insertions([v EXCEPT !.owner[r] = s], r, Fresh) :
              w.runs[r] # None /\ Become(Acquire([w EXCEPT !.current[s] = r]))
      BY <1>3 DEF Activate
<1>6. PICK u : u = [v EXCEPT !.owner[r] = s] OBVIOUS
<1>7. PICK w \in Insertions(u, r, Fresh) :
        w.runs[r] # None /\ Become(Acquire([w EXCEPT !.current[s] = r]))
      BY <1>5, <1>6
<1>8. HasRun(s) => StateOf(s).status \in {"idle", "done"} \/ c BY <1>1 DEF Activate
<1>9. Fine(v) /\ v.owner = store.owner
  <2>1. CASE ~HasRun(s) BY <1>3, <2>1 DEF StoreOK, Cleared
  <2>2. CASE HasRun(s)
    <3>1. StateOf(s).status = "running" => c BY <1>8, <2>2
    <3>2. v = [ReleaseIf(d, c) EXCEPT !.runs[RunOf(s)] = None, !.current[s] = None]
          BY <1>1, <1>2, <1>3, <2>2 DEF Cleared
    <3> QED BY <1>2, <2>2, <3>1, <3>2, ReplacedRun
  <2> QED BY <2>1, <2>2
<1>10. PICK z : z = [w EXCEPT !.current[s] = r] OBVIOUS
<1>11. PICK a : a = Acquire(z) OBVIOUS
<1>12. Fine(a) BY <1>5, <1>6, <1>7, <1>9, <1>10, <1>11, ActivatedRun
<1>13. \A q \in RunIds : v.owner[q] # None => a.owner[q] # None
       BY <1>5, <1>6, <1>7, <1>9, <1>10, <1>11, ActivatedRun
<1>14. Grows(a) BY <1>9, <1>13 DEF Grows
<1>15. Become(a) BY <1>7, <1>10, <1>11
<1> QED BY <1>4, <1>12, <1>14, <1>15, Settle, CallsStay
(* The canaries are no part of what the proofs are about.                  *)
LEMMA CanaryIsFine ==
    ASSUME NEW w, Fine(w), NEW canary \in SUBSET Sessions,
           NEW x, x = [w EXCEPT !.canary = canary]
    PROVE  /\ Fine(x) /\ x.runs = w.runs /\ x.owner = w.owner
           /\ InMemory(x) = InMemory(w) /\ RunningRuns(x) = RunningRuns(w)
<1>1. w \in Stores BY DEF Fine, Sturdy
<1>2. /\ x \in Stores /\ x.runs = w.runs /\ x.owner = w.owner /\ x.disk = w.disk
      /\ x.queue = w.queue /\ x.audit = w.audit
      BY <1>1 DEF Stores
<1>3. Fine(x) BY <1>2, PassiveIsFine
<1> QED BY <1>2, <1>3 DEF InMemory, RunningRuns

(* A handler is suspended with a run of a session and a running state.     *)
LEMMA SuspendStep ==
    ASSUME CallsOK, NEW s \in Sessions, NEW at \in HookAts, NEW r \in RunIds,
           NEW x \in Alive, store.owner[r] # None, StoreOK' /\ Grows(store'),
           hook' = [hook EXCEPT ![s] = Suspended(at, r, x)], UNCHANGED rpc
    PROVE  CallsOK'
<1>1. PICK c : c = Suspended(at, r, x) OBVIOUS
<1>2. c \in Calls(HookAts) /\ c.run = r BY <1>1, CallTypes
<1>3. store'.owner[c.run] # None BY <1>2 DEF Grows
<1> QED BY <1>1, <1>2, <1>3, HookSet

(* A turn goes on, or is judged, for a running run only.                   *)
LEMMA DecideRunning ==
    ASSUME NEW x, NEW signal, Decide(x, signal) \in {"cross_turn", "complete"}
    PROVE  x.status = "running"
BY DEF Decide

(* What before_agent_finalize starts from: the canary has fired, and a     *)
(* pending cross turn is consumed.                                         *)
LEMMA FinalizeStart ==
    ASSUME StoreOK, NEW s \in Sessions, HasRun(s), NEW r, r = RunOf(s),
           NEW fired, fired = [store EXCEPT !.canary = @ \cup {s}],
           NEW x, x = IF StateOf(s).needs THEN CrossTurnResumeConsumed(StateOf(s))
                      ELSE StateOf(s),
           NEW w, w = IF StateOf(s).needs THEN Put(fired, r, x) ELSE fired
    PROVE  /\ Fine(w) /\ Grows(w) /\ r \in InMemory(w) /\ x \in States
           /\ r \in RunningRuns(w) => x.status = "running"
<1>1. Fine(store) /\ store \in Stores BY DEF StoreOK, Fine, Sturdy
<1>2. /\ Fine(fired) /\ fired.runs = store.runs /\ fired.owner = store.owner
      /\ InMemory(fired) = InMemory(store) /\ RunningRuns(fired) = RunningRuns(store)
  <2>1. PICK canary : canary = store.canary \cup {s} OBVIOUS
  <2>2. canary \in SUBSET Sessions BY <1>1, <2>1 DEF Stores
  <2> QED BY <1>1, <2>1, <2>2, CanaryIsFine
<1>3. Grows(fired) BY <1>2 DEF Grows
<1>4. PICK z : z = StateOf(s) OBVIOUS
<1>5. /\ r \in InMemory(fired) /\ r \in RunIds /\ z \in States
      /\ r \in RunningRuns(fired) <=> z.status = "running"
      BY <1>2, <1>4, FoundRun
<1>6. CASE StateOf(s).needs
  <2>1. x = CrossTurnResumeConsumed(z) /\ w = Put(fired, r, x) BY <1>4, <1>6
  <2>2. x \in States /\ x.orch = z.orch BY <1>5, <2>1, FlagStates, StaysActive
  <2>3. z.status = "running" <=> x.status = "running" BY <1>5, <2>2, RunningIsActive
  <2>4. PICK c \in BOOLEAN : c = FALSE OBVIOUS
  <2>5. w = ReleaseIf(Put(fired, r, x), c) BY <2>1, <2>4 DEF ReleaseIf
  <2>6. Fine(w) BY <1>2, <1>5, <2>2, <2>3, <2>5, PutIsFine
  <2>7. Written(fired, w, r, x) BY <1>2, <1>5, <2>2, <2>3, <2>5, PutIsFine
  <2>8. w.owner = fired.owner /\ w.runs = [fired.runs EXCEPT ![r] = x] BY <2>7 DEF Written
  <2>9. x # None BY <2>2, NoneIsNoState
  <2>10. w.runs[r] = x
    <3>1. fired.runs \in [RunIds -> Slot] BY <1>2 DEF Fine, Sturdy, Stores
    <3> QED BY <1>5, <2>8, <3>1
  <2>11. r \in InMemory(w) BY <1>5, <2>9, <2>10 DEF InMemory
  <2>12. r \in RunningRuns(w) => x.status = "running" BY <2>10 DEF RunningRuns
  <2>13. Grows(w) BY <1>3, <2>8 DEF Grows
  <2> QED BY <2>2, <2>6, <2>11, <2>12, <2>13
<1>7. CASE ~StateOf(s).needs
  <2>1. x = z /\ w = fired BY <1>4, <1>7
  <2> QED BY <1>2, <1>3, <1>5, <2>1
<1> QED BY <1>6, <1>7

(* before_agent_finalize keeps the invariant, whatever it decides.         *)
LEMMA FinalizeStep ==
    ASSUME StoreOK, CallsOK, NEW s \in Sessions, NEW signal, Finalize(s, signal)
    PROVE  StoreOK' /\ CallsOK'
<1>1. HasRun(s) /\ UNCHANGED rpc BY DEF Finalize
<1>2. PICK r : r = RunOf(s) OBVIOUS
<1>3. PICK fired : fired = [store EXCEPT !.canary = @ \cup {s}] OBVIOUS
<1>4. PICK x : x = IF StateOf(s).needs THEN CrossTurnResumeConsumed(StateOf(s))
                   ELSE StateOf(s)
      OBVIOUS
<1>5. PICK w : w = IF StateOf(s).needs THEN Put(fired, r, x) ELSE fired OBVIOUS
<1>6. Fine(w) /\ Grows(w) BY <1>1, <1>2, <1>3, <1>4, <1>5, FinalizeStart
<1>7. r \in InMemory(w) /\ x \in States /\ (r \in RunningRuns(w) => x.status = "running")
      BY <1>1, <1>2, <1>3, <1>4, <1>5, FinalizeStart
<1>8. r \in RunIds /\ store.owner[r] # None BY <1>1, <1>2, FoundRun
<1>9. PICK decision : decision = Decide(x, signal) OBVIOUS
<1>10. \/ decision = "finalize" /\ Become(w) /\ UNCHANGED hook
       \/ /\ decision = "revise"
          /\ Become(Put(w, r, IncrementTotal(IncrementTurn(x)))) /\ UNCHANGED hook
       \/ /\ decision \in PauseReasons
          /\ Become(Release(Put(w, r, PauseRequested(x, decision)))) /\ UNCHANGED hook
       \/ /\ decision = "cross_turn"
          /\ hook' = [hook EXCEPT ![s] = Suspended("cross_turn", r, x)] /\ Become(w)
       \/ /\ decision = "cross_turn"
          /\ Become(Put(w, r, CrossTurnFallback(x))) /\ UNCHANGED hook
       \/ /\ decision = "complete"
          /\ hook' = [hook EXCEPT ![s] = Suspended("validation", r, x)] /\ Become(w)
       \/ /\ decision = "complete"
          /\ \E verdict \in Verdict : Become(Complete(w, r, x, verdict))
          /\ UNCHANGED hook
       BY <1>2, <1>3, <1>4, <1>5, <1>9 DEF Finalize
<1>11. CASE decision = "finalize" /\ Become(w) /\ UNCHANGED hook
       BY <1>1, <1>6, <1>11, Settle, CallsStay
<1>12. CASE /\ decision = "revise"
            /\ Become(Put(w, r, IncrementTotal(IncrementTurn(x)))) /\ UNCHANGED hook
  <2>1. PICK y : y = IncrementTotal(IncrementTurn(x)) OBVIOUS
  <2>2. y \in States /\ y.orch = x.orch BY <1>7, <2>1, FlagStates, StaysActive
  <2>3. r \in RunningRuns(w) => y.status = "running" BY <1>7, <2>2, StillRunning
  <2>4. PICK p : p = Put(w, r, y) OBVIOUS
  <2>5. Fine(p) /\ Grows(p) BY <1>6, <1>7, <2>2, <2>3, <2>4, PutPlain
  <2>6. Become(p) BY <1>12, <2>1, <2>4
  <2> QED BY <1>1, <1>12, <2>5, <2>6, Settle, CallsStay
<1>13. CASE /\ decision \in PauseReasons
            /\ Become(Release(Put(w, r, PauseRequested(x, decision)))) /\ UNCHANGED hook
  <2>1. PICK y : y = PauseRequested(x, decision) OBVIOUS
  <2>2. y \in States BY <1>7, <1>13, <2>1, EventStates
  <2>3. PICK c \in BOOLEAN : c = TRUE OBVIOUS
  <2>4. PICK p : p = ReleaseIf(Put(w, r, y), c) OBVIOUS
  <2>5. Fine(p) /\ Grows(p) BY <1>6, <1>7, <2>2, <2>3, <2>4, PutGrows
  <2>6. Become(p) BY <1>13, <2>1, <2>3, <2>4 DEF ReleaseIf
  <2> QED BY <1>1, <1>13, <2>5, <2>6, Settle, CallsStay
<1>14. CASE /\ decision = "cross_turn"
            /\ hook' = [hook EXCEPT ![s] = Suspended("cross_turn", r, x)] /\ Become(w)
  <2>1. x \in Alive
    <3>1. Decide(x, signal) \in {"cross_turn", "complete"} BY <1>9, <1>14
    <3>2. x.status = "running" BY <3>1, DecideRunning
    <3> QED BY <1>7, <3>2 DEF Alive
  <2>2. "cross_turn" \in HookAts BY DEF HookAts
  <2>3. StoreOK' /\ Grows(store') BY <1>6, <1>14, Settle
  <2> QED BY <1>1, <1>8, <1>14, <2>1, <2>2, <2>3, SuspendStep
<1>15. CASE /\ decision = "cross_turn"
            /\ Become(Put(w, r, CrossTurnFallback(x))) /\ UNCHANGED hook
  <2>1. PICK y : y = CrossTurnFallback(x) OBVIOUS
  <2>2. y \in States /\ y.orch = x.orch BY <1>7, <2>1, CountStates
  <2>3. r \in RunningRuns(w) => y.status = "running" BY <1>7, <2>2, StillRunning
  <2>4. PICK p : p = Put(w, r, y) OBVIOUS
  <2>5. Fine(p) /\ Grows(p) BY <1>6, <1>7, <2>2, <2>3, <2>4, PutPlain
  <2>6. Become(p) BY <1>15, <2>1, <2>4
  <2> QED BY <1>1, <1>15, <2>5, <2>6, Settle, CallsStay
<1>16. CASE /\ decision = "complete"
            /\ hook' = [hook EXCEPT ![s] = Suspended("validation", r, x)] /\ Become(w)
  <2>1. x \in Alive
    <3>1. Decide(x, signal) \in {"cross_turn", "complete"} BY <1>9, <1>16
    <3>2. x.status = "running" BY <3>1, DecideRunning
    <3> QED BY <1>7, <3>2 DEF Alive
  <2>2. "validation" \in HookAts BY DEF HookAts
  <2>3. StoreOK' /\ Grows(store') BY <1>6, <1>16, Settle
  <2> QED BY <1>1, <1>8, <1>16, <2>1, <2>2, <2>3, SuspendStep
<1>17. CASE /\ decision = "complete"
            /\ \E verdict \in Verdict : Become(Complete(w, r, x, verdict))
            /\ UNCHANGED hook
  <2>1. x \in Alive
    <3>1. Decide(x, signal) \in {"cross_turn", "complete"} BY <1>9, <1>17
    <3>2. x.status = "running" BY <3>1, DecideRunning
    <3> QED BY <1>7, <3>2 DEF Alive
  <2>2. PICK verdict \in Verdict : Become(Complete(w, r, x, verdict)) BY <1>17
  <2>3. PICK p : p = Complete(w, r, x, verdict) OBVIOUS
  <2>4. Fine(p) /\ Grows(p) BY <1>6, <1>8, <2>1, <2>3, CompleteIsFine
  <2>5. Become(p) BY <2>2, <2>3
  <2> QED BY <1>1, <1>17, <2>4, <2>5, Settle, CallsStay
<1> QED BY <1>10, <1>11, <1>12, <1>13, <1>14, <1>15, <1>16, <1>17

(* agent_end of a turn without its finalize keeps the invariant.           *)
LEMMA AgentEndDegradedStep ==
    ASSUME StoreOK, CallsOK, NEW s \in Sessions, HasRun(s),
           NEW w, Fine(w), Grows(w), w.runs = store.runs,
           AgentEndDegraded(s, w), UNCHANGED rpc
    PROVE  StoreOK' /\ CallsOK'
<1>1. PICK r : r = RunOf(s) OBVIOUS
<1>2. PICK x : x = StateOf(s) OBVIOUS
<1>3. /\ r \in InMemory(w) /\ r \in RunIds /\ x \in States /\ store.owner[r] # None
      /\ r \in RunningRuns(w) <=> x.status = "running"
      BY <1>1, <1>2, FoundRun DEF InMemory, RunningRuns
<1>4. PICK marked : marked = DegradationMarked(x) OBVIOUS
<1>5. PICK paused : paused = PauseRequested(marked, "max_total_reached") OBVIOUS
<1>6. marked \in States /\ marked.orch = x.orch BY <1>3, <1>4, FlagStates, StaysActive
<1>7. x.status = "running" => marked.status = "running" BY <1>3, <1>6, StillRunning
<1>8. \/ /\ x.status = "running"
         /\ Become(ReleaseIf(Put(w, r, paused), paused # marked)) /\ UNCHANGED hook
      \/ /\ x.status = "running"
         /\ hook' = [hook EXCEPT ![s] = Suspended("degraded", r, marked)] /\ Become(w)
      \/ /\ x.status = "running"
         /\ Become(Put(w, r, CrossTurnDegradedSilent(x))) /\ UNCHANGED hook
      \/ Become(w) /\ UNCHANGED hook
      BY <1>1, <1>2, <1>4, <1>5 DEF AgentEndDegraded
<1>9. CASE /\ x.status = "running"
           /\ Become(ReleaseIf(Put(w, r, paused), paused # marked)) /\ UNCHANGED hook
  <2>1. "max_total_reached" \in PauseReasons BY DEF PauseReasons
  <2>2. paused \in States BY <1>5, <1>6, <2>1, EventStates
  <2>3. PICK c \in BOOLEAN : c = (paused # marked) OBVIOUS
  <2>4. PICK p : p = ReleaseIf(Put(w, r, paused), c) OBVIOUS
  <2>5. paused.status # "running" => c BY <1>7, <1>9, <2>3
  <2>6. Fine(p) /\ Grows(p) BY <1>3, <2>2, <2>4, <2>5, PutGrows
  <2>7. Become(p) BY <1>9, <2>3, <2>4
  <2> QED BY <1>9, <2>6, <2>7, Settle, CallsStay
<1>10. CASE /\ x.status = "running"
            /\ hook' = [hook EXCEPT ![s] = Suspended("degraded", r, marked)] /\ Become(w)
  <2>1. marked \in Alive BY <1>6, <1>7, <1>10 DEF Alive
  <2>2. "degraded" \in HookAts BY DEF HookAts
  <2>3. StoreOK' /\ Grows(store') BY <1>10, Settle
  <2> QED BY <1>3, <1>10, <2>1, <2>2, <2>3, SuspendStep
<1>11. CASE /\ x.status = "running"
            /\ Become(Put(w, r, CrossTurnDegradedSilent(x))) /\ UNCHANGED hook
  <2>1. PICK y : y = CrossTurnDegradedSilent(x) OBVIOUS
  <2>2. y \in States /\ y.orch = x.orch BY <1>3, <2>1, FlagStates, StaysActive
  <2>3. y.status = "running" BY <1>3, <1>11, <2>2, StillRunning
  <2>4. PICK p : p = Put(w, r, y) OBVIOUS
  <2>5. Fine(p) /\ Grows(p) BY <1>3, <2>2, <2>3, <2>4, PutPlain
  <2>6. Become(p) BY <1>11, <2>1, <2>4
  <2> QED BY <1>11, <2>5, <2>6, Settle, CallsStay
<1>12. CASE Become(w) /\ UNCHANGED hook BY <1>12, Settle, CallsStay
<1> QED BY <1>8, <1>9, <1>10, <1>11, <1>12

(* agent_end of a finalized turn keeps the invariant.                      *)
LEMMA AgentEndNormalStep ==
    ASSUME StoreOK, CallsOK, NEW s \in Sessions, HasRun(s),
           NEW w, Fine(w), Grows(w), w.runs = store.runs,
           NEW outcome \in Outcomes \cup {"circuit_breaker"},
           AgentEndNormal(s, w, outcome), UNCHANGED rpc
    PROVE  StoreOK' /\ CallsOK'
<1>1. PICK r : r = RunOf(s) OBVIOUS
<1>2. PICK x : x = StateOf(s) OBVIOUS
<1>3. r \in InMemory(w) /\ x \in States BY <1>1, <1>2, FoundRun DEF InMemory
<1>4. PICK broken \in BOOLEAN : broken = (outcome = "circuit_breaker") OBVIOUS
<1>5. PICK b : b = IF broken THEN PauseRequested(x, "loop_breaker_triggered") ELSE x
      OBVIOUS
<1>6. PICK result : result = IF broken THEN "unrecoverable_error" ELSE outcome OBVIOUS
<1>7. PICK y : y = AgentTurnFinished(ResetTurnAttempts(DegradationCleared(b)), result)
      OBVIOUS
<1>8. b \in States
  <2>1. "loop_breaker_triggered" \in PauseReasons BY DEF PauseReasons
  <2> QED BY <1>3, <1>5, <2>1, EventStates
<1>9. result \in TurnOutcomes
  <2>1. "unrecoverable_error" \in TurnOutcomes
        BY DEF TurnOutcomes, UnrecoverableErrors, BlockedReasons
  <2> QED BY <1>4, <1>6, <2>1, AutopilotAssumption
<1>10. DegradationCleared(b) \in States BY <1>8, FlagStates
<1>11. ResetTurnAttempts(DegradationCleared(b)) \in States BY <1>10, FlagStates
<1>12. y \in States BY <1>7, <1>9, <1>11, EventStates
<1>13. PICK c \in BOOLEAN : c = (y.orch \in {"blocked", "done"})
  <2>1. (y.orch \in {"blocked", "done"}) \in BOOLEAN OBVIOUS
  <2> QED BY <2>1
<1>14. y.status # "running" => c
       BY <1>12, <1>13, RunningIsActive DEF States, Run, OrchestrationStates, ActiveStates
<1>15. PICK p : p = ReleaseIf(Put(w, r, y), c) OBVIOUS
<1>16. Fine(p) /\ Grows(p) BY <1>3, <1>12, <1>14, <1>15, PutGrows
<1>17. Become(p) /\ UNCHANGED hook
       BY <1>1, <1>2, <1>4, <1>5, <1>6, <1>7, <1>13, <1>15 DEF AgentEndNormal
<1> QED BY <1>16, <1>17, Settle, CallsStay

(* agent_end keeps the invariant.                                          *)
LEMMA AgentEndStep ==
    ASSUME StoreOK, CallsOK, NEW s \in Sessions, AgentEnd(s)
    PROVE  StoreOK' /\ CallsOK'
<1>1. UNCHANGED rpc BY DEF AgentEnd
<1>2. CASE ~Enabled(s)
  <2>1. UNCHANGED <<store, hook>> BY <1>2 DEF AgentEnd
  <2> QED BY <1>1, <2>1, StoreStays, CallsStay
<1>3. CASE Enabled(s)
  <2>1. HasRun(s) BY <1>3 DEF Enabled
  <2>2. PICK progressed \in BOOLEAN :
          LET w == [IF progressed THEN Rewrite(store, RunOf(s), StateOf(s)) ELSE store
                      EXCEPT !.canary = @ \ {s}]
          IN  IF s \notin store.canary THEN AgentEndDegraded(s, w)
              ELSE \E outcome \in Outcomes \cup {"circuit_breaker"} :
                      AgentEndNormal(s, w, outcome)
        BY <1>3 DEF AgentEnd
  <2>3. PICK v : v = IF progressed THEN Rewrite(store, RunOf(s), StateOf(s)) ELSE store
        OBVIOUS
  <2>4. Fine(v) /\ v.owner = store.owner /\ v.runs = store.runs
    <3>1. CASE progressed
          BY <2>1, <2>3, <3>1, FoundRun, SelfGrows, RewriteIsFine
    <3>2. CASE ~progressed BY <2>3, <3>2, SelfGrows
    <3> QED BY <3>1, <3>2
  <2>5. PICK canary : canary = v.canary \ {s} OBVIOUS
  <2>6. canary \in SUBSET Sessions BY <2>4, <2>5 DEF Fine, Sturdy, Stores
  <2>7. PICK w : w = [v EXCEPT !.canary = canary] OBVIOUS
  <2>8. Fine(w) /\ w.runs = v.runs /\ w.owner = v.owner
        BY <2>4, <2>6, <2>7, CanaryIsFine
  <2>9. Grows(w) BY <2>4, <2>8 DEF Grows
  <2>10. \/ AgentEndDegraded(s, w)
         \/ \E outcome \in Outcomes \cup {"circuit_breaker"} :
               AgentEndNormal(s, w, outcome)
         BY <2>2, <2>3, <2>5, <2>7
  <2>11. w.runs = store.runs BY <2>4, <2>8
  <2>12. CASE AgentEndDegraded(s, w)
         BY <1>1, <2>1, <2>8, <2>9, <2>11, <2>12, AgentEndDegradedStep
  <2>13. CASE \E outcome \in Outcomes \cup {"circuit_breaker"} :
                 AgentEndNormal(s, w, outcome)
    <3>1. PICK outcome \in Outcomes \cup {"circuit_breaker"} :
             AgentEndNormal(s, w, outcome)
          BY <2>13
    <3> QED BY <1>1, <2>1, <2>8, <2>9, <2>11, <3>1, AgentEndNormalStep
  <2> QED BY <2>10, <2>12, <2>13
<1> QED BY <1>2, <1>3
-----------------------------------------------------------------------------
(* What the patrol's tick leaves of one run: who is taken out of running   *)
(* is released, unless the count is at its floor.                          *)
Beat(a, r) ==
    /\ Fine(a) /\ a.owner = store.owner /\ a.runs[r] \in States
    /\ r \in RunningRuns(store) /\ a.runs[r].status # "running"
         => a.audit # store.audit \/ store.audit = AuditFloor

(* One write, with its release, is a beat.                                 *)
LEMMA WriteBeats ==
    ASSUME StoreOK, NEW r \in InMemory(store), NEW y \in States, NEW c \in BOOLEAN,
           r \in RunningRuns(store) /\ y.status # "running" => c,
           NEW p, p = ReleaseIf(Put(store, r, y), c)
    PROVE  /\ Beat(p, r) /\ p.runs = [store.runs EXCEPT ![r] = y] /\ p.runs[r] = y
           /\ p.audit = IF c /\ store.audit > AuditFloor THEN store.audit - 1 ELSE store.audit
<1>1. Fine(store) /\ store \in Stores /\ r \in RunIds /\ store.audit \in Int
      /\ store.audit >= AuditFloor
      BY DEF StoreOK, Fine, Sturdy, Stores, InMemory
<1>2. Fine(p) BY <1>1, PutIsFine
<1>3. Written(store, p, r, y) BY <1>1, PutIsFine
<1>4. p.audit = IF c /\ store.audit > AuditFloor THEN store.audit - 1 ELSE store.audit
      BY <1>1, PutIsFine
<1>5. p.runs = [store.runs EXCEPT ![r] = y] /\ p.owner = store.owner BY <1>3 DEF Written
<1>6. p.runs[r] = y
  <2>1. store.runs \in [RunIds -> Slot] BY <1>1 DEF Stores
  <2> QED BY <1>1, <1>5, <2>1
<1>7. r \in RunningRuns(store) /\ y.status # "running"
        => p.audit # store.audit \/ store.audit = AuditFloor
      BY <1>1, <1>4, FloorIsNegative
<1>8. Beat(p, r) BY <1>2, <1>5, <1>6, <1>7 DEF Beat
<1> QED BY <1>4, <1>5, <1>6, <1>8

(* The armed runs are no part of what the proofs are about.                *)
LEMMA ArmedBeats ==
    ASSUME NEW a, NEW r, Beat(a, r), NEW armed \in SUBSET RunIds,
           NEW x, x = [a EXCEPT !.armed = armed]
    PROVE  Beat(x, r)
<1>1. a \in Stores /\ Fine(a) BY DEF Beat, Fine, Sturdy
<1>2. /\ x \in Stores /\ x.runs = a.runs /\ x.owner = a.owner /\ x.disk = a.disk
      /\ x.queue = a.queue /\ x.audit = a.audit
      BY <1>1 DEF Stores
<1>3. Fine(x) BY <1>1, <1>2, PassiveIsFine
<1> QED BY <1>2, <1>3 DEF Beat

(* A stall queues a retry or blocks the run.                               *)
LEMMA StallEnds ==
    ASSUME NEW x \in States, x.orch \in {"running", "claimed"}
    PROVE  StallTimeout(x).orch \in {"retry_queued", "blocked"}
<1>1. x \in Run BY DEF States
<1>2. PICK y : y = RetryOrBlock(x) OBVIOUS
<1>3. StallTimeout(x) = Derived(y) BY <1>2 DEF StallTimeout
<1>4. y.orch \in {"retry_queued", "blocked"}
  <2>1. CASE y = QueueRetry(x) BY <1>1, <2>1 DEF QueueRetry, Run
  <2>2. CASE y = Block(x, "max_retries_reached") BY <1>1, <2>2 DEF Block, Run
  <2> QED BY <1>2, <2>1, <2>2 DEF RetryOrBlock
<1>5. Derived(y).orch = y.orch
  <2>1. CASE y = QueueRetry(x)
    <3>1. x.attempt + 1 \in Nat BY <1>1 DEF Run
    <3>2. y = [x EXCEPT !.orch = "retry_queued", !.attempt = x.attempt + 1,
                        !.due = FALSE, !.age = "fresh"]
          BY <1>1, <2>1 DEF QueueRetry, Run
    <3>3. y \in Run BY <1>1, <3>1, <3>2 DEF Run, OrchestrationStates
    <3> QED BY <3>3, DerivedFields
  <2>2. CASE y = Block(x, "max_retries_reached")
    <3>1. PICK b : b = Block(x, "max_retries_reached") OBVIOUS
    <3>2. "max_retries_reached" \in BlockedReasons BY DEF BlockedReasons
    <3>3. Core(x) BY DEF States, Good
    <3>4. b \in Run BY <3>1, <3>2, <3>3, BlockFields
    <3> QED BY <2>2, <3>1, <3>4, DerivedFields
  <2> QED BY <1>2, <2>1, <2>2 DEF RetryOrBlock
<1> QED BY <1>3, <1>4, <1>5

(* Each way through the tick of a run is a beat.                           *)
LEMMA TickBeats ==
    ASSUME StoreOK, NEW r \in InMemory(store), NEW idle, NEW reason \in CapReasons,
           NEW a, a = Tick(store, r, idle, reason)
    PROVE  Beat(a, r)
<1>1. PICK x : x = store.runs[r] OBVIOUS
<1>2. /\ Fine(store) /\ store \in Stores /\ r \in RunIds /\ x \in States
      /\ r \in RunningRuns(store) <=> x.status = "running"
      BY <1>1 DEF StoreOK, Fine, Sturdy, Stores, Slot, InMemory, RunningRuns
<1>3. Beat(store, r) BY <1>1, <1>2 DEF Beat
<1>4. PICK yes \in BOOLEAN : yes = TRUE OBVIOUS
<1>5. PICK no \in BOOLEAN : no = FALSE OBVIOUS
<1>6. PICK checked : checked = IF Active(x) /\ r \in idle THEN PauseIdle(store, r) ELSE store
      OBVIOUS
<1>7. PICK z : z = PauseRequested(x, "no_progress") OBVIOUS
<1>8. z \in States
  <2>1. "no_progress" \in PauseReasons BY DEF PauseReasons
  <2> QED BY <1>2, <1>7, <2>1, EventStates
<1>9. PauseIdle(store, r) = ReleaseIf(Put(store, r, z), yes)
      BY <1>1, <1>4, <1>7 DEF PauseIdle, ReleaseIf
<1>10. \/ checked = store
       \/ checked = ReleaseIf(Put(store, r, z), yes)
       BY <1>6, <1>9
<1>11. Beat(checked, r) BY <1>3, <1>4, <1>8, <1>10, WriteBeats
<1>12. CASE Capped(r, x)
  <2>1. a = EnforceCap(store, r, reason) BY <1>1, <1>12 DEF Tick
  <2>2. CASE Producing(x) /\ r \notin store.armed
    <3>1. PICK armed : armed = store.armed \cup {r} OBVIOUS
    <3>2. armed \in SUBSET RunIds BY <1>2, <3>1 DEF Stores
    <3>3. a = [store EXCEPT !.armed = armed] BY <1>1, <2>1, <2>2, <3>1 DEF EnforceCap
    <3> QED BY <1>3, <3>2, <3>3, ArmedBeats
  <2>3. CASE ~(Producing(x) /\ r \notin store.armed)
    <3>1. PICK y : y = HardStopRequested(x, reason) OBVIOUS
    <3>2. y \in States BY <1>2, <3>1, EventStates
    <3>3. PICK p : p = ReleaseIf(Put(store, r, y), yes) OBVIOUS
    <3>4. Beat(p, r) BY <1>4, <3>2, <3>3, WriteBeats
    <3>5. PICK armed : armed = p.armed \ {r} OBVIOUS
    <3>6. armed \in SUBSET RunIds BY <3>4, <3>5 DEF Beat, Fine, Sturdy, Stores
    <3>7. a = [p EXCEPT !.armed = armed]
          BY <1>1, <1>4, <2>1, <2>3, <3>1, <3>3, <3>5 DEF EnforceCap, ReleaseIf
    <3> QED BY <3>4, <3>6, <3>7, ArmedBeats
  <2> QED BY <2>2, <2>3
<1>13. CASE ~Capped(r, x) /\ Stalled(x)
  <2>1. a = StallOut(store, r) BY <1>1, <1>13 DEF Tick
  <2>2. PICK y : y = StallTimeout(x) OBVIOUS
  <2>3. y \in States BY <1>2, <2>2, EventStates
  <2>4. y.orch \in {"retry_queued", "blocked"}
        BY <1>2, <1>13, <2>2, StallEnds DEF Stalled, Producing
  <2>5. PICK c \in BOOLEAN : c = (y.orch = "blocked") OBVIOUS
  <2>6. y.status # "running" => c BY <2>3, <2>4, <2>5, RunningIsActive DEF ActiveStates
  <2>7. a = ReleaseIf(Put(store, r, y), c) BY <1>1, <2>1, <2>2, <2>5 DEF StallOut
  <2> QED BY <2>3, <2>6, <2>7, WriteBeats
<1>14. CASE ~Capped(r, x) /\ ~Stalled(x) /\ DueForRetry(x)
  <2>1. PICK y : y = RetryDue(x) OBVIOUS
  <2>2. a = Put(checked, r, y) BY <1>1, <1>6, <1>14, <2>1 DEF Tick
  <2>3. y \in States BY <1>2, <2>1, EventStates
  <2>4. y.status = "running"
    <3>1. x.orch \in ActiveStates BY <1>14 DEF DueForRetry, ActiveStates
    <3>2. y.orch \in ActiveStates BY <1>2, <2>1, <3>1, StaysActive
    <3> QED BY <2>3, <3>2, RunningIsActive
  <2>5. Fine(checked) /\ checked.owner = store.owner BY <1>11 DEF Beat
  <2>6. r \in InMemory(checked)
    <3>1. checked.runs[r] # None BY <1>11, NoneIsNoState DEF Beat
    <3> QED BY <1>2, <3>1 DEF InMemory
  <2>7. a = ReleaseIf(Put(checked, r, y), no) BY <1>5, <2>2 DEF ReleaseIf
  <2>8. Fine(a) BY <1>5, <2>3, <2>4, <2>5, <2>6, <2>7, PutIsFine
  <2>9. Written(checked, a, r, y) BY <1>5, <2>3, <2>4, <2>5, <2>6, <2>7, PutIsFine
  <2>10. a.owner = checked.owner /\ a.runs = [checked.runs EXCEPT ![r] = y]
         BY <2>9 DEF Written
  <2>11. a.runs[r] = y
    <3>1. checked.runs \in [RunIds -> Slot] BY <2>5 DEF Fine, Sturdy, Stores
    <3> QED BY <1>2, <2>10, <3>1
  <2> QED BY <2>3, <2>4, <2>5, <2>8, <2>10, <2>11 DEF Beat
<1>15. CASE ~Capped(r, x) /\ ~Stalled(x) /\ ~DueForRetry(x)
  <2>1. a = checked BY <1>1, <1>6, <1>15 DEF Tick
  <2> QED BY <1>11, <2>1
<1> QED BY <1>12, <1>13, <1>14, <1>15

(* All the beats of a tick together.                                       *)
LEMMA TickedIsFine ==
    ASSUME StoreOK, NEW idle, NEW reason \in CapReasons,
           NEW after, after = [r \in InMemory(store) |-> Tick(store, r, idle, reason)],
           NEW x, x = Ticked(after)
    PROVE  Fine(x) /\ x.owner = store.owner
<1> DEFINE found == InMemory(store)
           released == {r \in found : after[r].audit # store.audit}
           runs == [r \in RunIds |-> IF r \in found THEN after[r].runs[r] ELSE None]
           disk == [r \in RunIds |-> IF r \in found THEN after[r].disk[r] ELSE store.disk[r]]
           queue == [r \in RunIds |-> IF r \in found THEN after[r].queue[r]
                                     ELSE store.queue[r]]
           index == [s \in Sessions |->
                       IF \E r \in found : after[r].index[s] = None THEN None
                       ELSE store.index[s]]
           armed == {r \in RunIds : r \in (IF r \in found THEN after[r].armed
                                          ELSE store.armed)}
           audit == Max({AuditFloor, store.audit - Cardinality(released)})
<1>1. Fine(store) /\ store \in Stores /\ Owned(store) /\ Backed(store)
      BY DEF StoreOK, Fine, Sturdy
<1>2. found \in SUBSET RunIds BY DEF InMemory
<1>3. \A r \in found : Beat(after[r], r)
  <2> SUFFICES ASSUME NEW r \in found PROVE Beat(after[r], r) OBVIOUS
  <2>1. PICK a : a = Tick(store, r, idle, reason) OBVIOUS
  <2>2. Beat(a, r) BY <2>1, TickBeats
  <2> QED BY <2>1, <2>2
<1>4. x = [store EXCEPT !.runs = runs, !.disk = disk, !.queue = queue, !.index = index,
                        !.armed = armed, !.audit = audit]
      BY DEF Ticked
<1>5. \A r \in found :
         /\ after[r] \in Stores /\ Backed(after[r]) /\ after[r].runs[r] \in States
         /\ r \in RunningRuns(store) /\ after[r].runs[r].status # "running"
              => r \in released \/ store.audit = AuditFloor
      BY <1>3 DEF Beat, Fine, Sturdy
<1>6. released \in SUBSET RunIds BY <1>2
<1> HIDE DEF released
<1>7. runs \in [RunIds -> Slot] BY <1>5 DEF Slot
<1>8. disk \in [RunIds -> Slot] BY <1>1, <1>5 DEF Stores
<1>9. queue \in [RunIds -> Slot] BY <1>1, <1>5 DEF Stores
<1>10. index \in [Sessions -> RunIds \cup {None}] BY <1>1 DEF Stores
<1>11. armed \in SUBSET RunIds OBVIOUS
<1>12. /\ store.audit \in Int /\ store.audit >= AuditFloor
       /\ IsFiniteSet(released) /\ Cardinality(released) \in Nat
       BY <1>1, <1>6, StoreAssumption, FS_Subset, FS_CardinalityType DEF Stores
<1>13. audit = IF AuditFloor >= store.audit - Cardinality(released) THEN AuditFloor
               ELSE store.audit - Cardinality(released)
  <2>1. store.audit - Cardinality(released) \in Int BY <1>12
  <2> QED BY <2>1, MaxOfTwo, FloorIsNegative
<1>14. \A r \in RunIds :
          /\ r \in found => /\ runs[r] = after[r].runs[r] /\ disk[r] = after[r].disk[r]
                            /\ queue[r] = after[r].queue[r]
          /\ r \notin found => /\ runs[r] = None /\ disk[r] = store.disk[r]
                               /\ queue[r] = store.queue[r]
       OBVIOUS
<1> HIDE DEF runs, disk, queue, index, armed, audit
<1>15. audit \in Int /\ audit >= AuditFloor BY <1>12, <1>13, FloorIsNegative
<1>16. /\ x \in Stores /\ x.runs = runs /\ x.owner = store.owner /\ x.disk = disk
       /\ x.queue = queue /\ x.audit = audit
       BY <1>1, <1>4, <1>7, <1>8, <1>9, <1>10, <1>11, <1>15 DEF Stores
<1>17. Owned(x)
  <2> SUFFICES ASSUME NEW q \in RunIds,
                      x.runs[q] # None \/ x.disk[q] # None \/ x.queue[q] # None
               PROVE  store.owner[q] # None
      BY <1>16 DEF Owned
  <2>1. CASE q \in found BY <1>1, <2>1 DEF Owned, InMemory
  <2>2. CASE q \notin found BY <1>1, <1>14, <1>16, <2>2 DEF Owned
  <2> QED BY <2>1, <2>2
<1>18. Backed(x)
  <2> SUFFICES ASSUME NEW q \in RunIds
               PROVE  /\ Checkpointing /\ x.runs[q] # None /\ x.runs[q].orch \in ActiveStates
                            => Landed(x, q) # None /\ Same(x.runs[q], Landed(x, q))
                      /\ ~Checkpointing => x.disk[q] = None /\ x.queue[q] = None
      BY DEF Backed
  <2>1. CASE q \in found
    <3>1. Backed(after[q]) BY <1>5, <2>1
    <3>2. /\ x.runs[q] = after[q].runs[q] /\ x.disk[q] = after[q].disk[q]
          /\ x.queue[q] = after[q].queue[q]
          BY <1>14, <1>16, <2>1
    <3>3. Landed(x, q) = Landed(after[q], q) BY <3>2 DEF Landed
    <3> QED BY <3>1, <3>2, <3>3 DEF Backed
  <2>2. CASE q \notin found
    <3>1. x.runs[q] = None /\ x.disk[q] = store.disk[q] /\ x.queue[q] = store.queue[q]
          BY <1>14, <1>16, <2>2
    <3> QED BY <1>1, <3>1 DEF Backed
  <2> QED BY <2>1, <2>2
<1>19. Balanced(x)
  <2>1. /\ IsFiniteSet(RunningRuns(x)) /\ Cardinality(RunningRuns(x)) \in Nat
        /\ IsFiniteSet(RunningRuns(store)) /\ Cardinality(RunningRuns(store)) \in Nat
        BY <1>1, <1>16, CountFacts
  <2>2. store.audit <= Cardinality(RunningRuns(store)) BY <1>1 DEF Fine, Balanced
  <2>3. CASE store.audit = AuditFloor
    <3>1. audit = AuditFloor BY <1>12, <1>13, <2>3, FloorIsNegative
    <3>2. audit <= Cardinality(RunningRuns(x)) BY <2>1, <3>1, FloorIsNegative
    <3> QED BY <1>16, <3>2 DEF Balanced
  <2>4. CASE store.audit # AuditFloor
    <3>1. RunningRuns(store) \subseteq RunningRuns(x) \cup released
      <4> SUFFICES ASSUME NEW q \in RunningRuns(store), q \notin released
                   PROVE  q \in RunningRuns(x)
          OBVIOUS
      <4>1. q \in found /\ q \in RunIds BY DEF RunningRuns, InMemory
      <4>2. x.runs[q] = after[q].runs[q] BY <1>14, <1>16, <4>1
      <4>3. x.runs[q] \in States /\ x.runs[q].status = "running"
            BY <1>5, <2>4, <4>1, <4>2
      <4> QED BY <4>1, <4>3, NoneIsNoState DEF RunningRuns, InMemory
    <3>2. /\ IsFiniteSet(RunningRuns(x) \cup released)
          /\ Cardinality(RunningRuns(x) \cup released)
               = Cardinality(RunningRuns(x)) + Cardinality(released)
                   - Cardinality(RunningRuns(x) \cap released)
          BY <1>12, <2>1, FS_Union
    <3>3. Cardinality(RunningRuns(x) \cap released) \in Nat
          BY <2>1, FS_Intersection, FS_CardinalityType
    <3>4. Cardinality(RunningRuns(store)) <= Cardinality(RunningRuns(x) \cup released)
          BY <3>1, <3>2, FS_Subset
    <3>5. Cardinality(RunningRuns(x) \cup released)
            <= Cardinality(RunningRuns(x)) + Cardinality(released)
          BY <1>12, <2>1, <3>2, <3>3
    <3>6. Cardinality(RunningRuns(x) \cup released) \in Nat
          BY <3>2, FS_CardinalityType
    <3>7. store.audit - Cardinality(released) <= Cardinality(RunningRuns(x))
          BY <1>12, <2>1, <2>2, <3>4, <3>5, <3>6
    <3>8. audit <= Cardinality(RunningRuns(x))
          BY <1>12, <1>13, <2>1, <3>7, FloorIsNegative
    <3> QED BY <1>16, <3>8 DEF Balanced
  <2> QED BY <2>3, <2>4
<1> QED BY <1>16, <1>17, <1>18, <1>19 DEF Fine, Sturdy

(* A tick of the patrol, with its sweep, keeps the invariant.              *)
LEMMA PatrolStep ==
    ASSUME StoreOK, CallsOK, Patrol
    PROVE  StoreOK' /\ CallsOK'
<1>1. UNCHANGED <<hook, rpc>> BY DEF Patrol
<1>2. PICK idle \in SUBSET Continued, reason \in CapReason :
         \E after \in {[r \in InMemory(store) |-> Tick(store, r, idle, reason)]} :
         \E w \in {Ticked(after)} : \E x \in {Sweep(w, Orphans)} : Become(x)
      BY DEF Patrol
<1>3. reason \in CapReasons
      BY <1>2, AutopilotAssumption DEF CapReason, CapReasons
<1>4. PICK after : after = [r \in InMemory(store) |-> Tick(store, r, idle, reason)]
       OBVIOUS
<1>5. PICK x : x = Ticked(after) OBVIOUS
<1>6. Fine(x) /\ x.owner = store.owner BY <1>3, <1>5, <1>4, TickedIsFine
<1>7. PICK gone : gone = Orphans OBVIOUS
<1>8. gone \in SUBSET RunIds BY <1>7 DEF Orphans, InMemory
<1>9. PICK z : z = Sweep(x, gone) OBVIOUS
<1>10. Fine(z) /\ z.owner = x.owner BY <1>6, <1>8, <1>9, SweepIsFine
<1>11. Grows(z) BY <1>6, <1>10 DEF Grows
<1>12. Become(z) BY <1>2, <1>5, <1>7, <1>9, <1>4
<1> QED BY <1>1, <1>10, <1>11, <1>12, Settle, CallsStay
-----------------------------------------------------------------------------
(* The theorems.                                                           *)

(* A new process has no runs.                                              *)
LEMMA InitInvariant == Init => IInv
<1> SUFFICES ASSUME Init PROVE IInv OBVIOUS
<1>1. store = EmptyStore BY DEF Init
<1>2. 0 >= AuditFloor /\ 0 \in Int BY FloorIsNegative
<1>3. EmptyStore \in Stores BY <1>2 DEF EmptyStore, Stores, Slot
<1>4. Owned(EmptyStore) /\ Backed(EmptyStore) BY DEF Owned, Backed, Landed, EmptyStore
<1>5. Balanced(EmptyStore)
  <2>1. Cardinality(RunningRuns(EmptyStore)) \in Nat BY <1>3, CountFacts
  <2>2. EmptyStore.audit = 0 BY DEF EmptyStore
  <2> QED BY <2>1, <2>2 DEF Balanced
<1>6. StoreOK BY <1>1, <1>3, <1>4, <1>5 DEF StoreOK, Fine, Sturdy, EmptyStore
<1>7. CallsOK BY CallTypes DEF Init, CallsOK
<1>8. RestOK BY DEF Init, RestOK
<1> QED BY <1>6, <1>7, <1>8 DEF IInv

(* The host's turns, the exceeded caps and the timer keep their types.     *)
LEMMA RestStep == RestOK /\ [Next]_vars => RestOK'
<1> SUFFICES ASSUME RestOK, [Next]_vars PROVE RestOK' OBVIOUS
<1>1. \/ UNCHANGED <<turn, spent, timer>>
      \/ /\ \E s \in Sessions, phase \in {"idle", "open", "finalized"} :
               turn' = [turn EXCEPT ![s] = phase]
         /\ UNCHANGED <<spent, timer>>
      \/ \E r \in RunIds : spent' = spent \cup {r} /\ UNCHANGED <<turn, timer>>
      \/ timer' = FALSE /\ UNCHANGED <<turn, spent>>
      \/ turn' = [s \in Sessions |-> "idle"] /\ timer' = TRUE /\ UNCHANGED spent
  <2>1. CASE UNCHANGED vars BY <2>1 DEF vars
  <2>2. CASE Next
    <3>1. ASSUME NEW s \in Sessions,
                 \/ Activate(s) \/ ResumePaused(s) \/ ResumeRun(s) \/ Stop(s)
                 \/ SetGoal(s) \/ Activity(s) \/ ValidationDone(s)
                 \/ SessionStart(s) \/ ExtensionCleanup(s)
          PROVE  UNCHANGED <<turn, spent, timer>>
          BY <3>1 DEF Activate, ResumePaused, ResumeRun, Stop, SetGoal, Activity,
                      ValidationDone, SessionStart, ExtensionCleanup
    <3>2. ASSUME NEW s \in Sessions, NEW accepted \in BOOLEAN,
                 \/ ResumeRunReply(s, accepted) \/ CrossTurnReply(s, accepted)
                 \/ DegradedReply(s, accepted)
          PROVE  UNCHANGED <<turn, spent, timer>>
          BY <3>2 DEF ResumeRunReply, CrossTurnReply, DegradedReply
    <3>3. ASSUME NEW s \in Sessions,
                 \/ TurnPrepare(s) \/ FinalizeNoRun(s) \/ AgentEnd(s) \/ SessionEnd(s)
          PROVE  /\ \E phase \in {"idle", "open", "finalized"} :
                       turn' = [turn EXCEPT ![s] = phase]
                 /\ UNCHANGED <<spent, timer>>
          BY <3>3 DEF TurnPrepare, FinalizeNoRun, AgentEnd, SessionEnd
    <3>4. ASSUME NEW s \in Sessions, NEW signal, Finalize(s, signal)
          PROVE  turn' = [turn EXCEPT ![s] = "finalized"] /\ UNCHANGED <<spent, timer>>
          BY <3>4 DEF Finalize
    <3>5. ASSUME NEW r \in RunIds, Quiet(r) \/ BackoffOver(r)
          PROVE  UNCHANGED <<turn, spent, timer>>
          BY <3>5 DEF Quiet, BackoffOver
    <3>6. ASSUME NEW r \in RunIds, CapExceeded(r)
          PROVE  spent' = spent \cup {r} /\ UNCHANGED <<turn, timer>>
          BY <3>6 DEF CapExceeded
    <3>7. Cleanup => timer' = FALSE /\ UNCHANGED <<turn, spent>> BY DEF Cleanup
    <3>8. Patrol => UNCHANGED <<turn, spent, timer>> BY DEF Patrol
    <3>9. Restart => turn' = [s \in Sessions |-> "idle"] /\ timer' = TRUE /\ UNCHANGED spent
          BY DEF Restart
    <3> QED BY <2>2, <3>1, <3>2, <3>3, <3>4, <3>5, <3>6, <3>7, <3>8, <3>9 DEF Next
  <2> QED BY <2>1, <2>2
<1> QED BY <1>1 DEF RestOK

(* Every action keeps the store and the suspended handlers as they should  *)
(* be.                                                                     *)
LEMMA StoreStep == StoreOK /\ CallsOK /\ [Next]_vars => StoreOK' /\ CallsOK'
<1> SUFFICES ASSUME StoreOK, CallsOK, [Next]_vars PROVE StoreOK' /\ CallsOK' OBVIOUS
<1>1. CASE UNCHANGED vars
  <2>1. UNCHANGED store /\ UNCHANGED <<hook, rpc>> BY <1>1 DEF vars
  <2> QED BY <2>1, StoreStays, CallsStay
<1>2. ASSUME NEW s \in Sessions,
             Activate(s) \/ ResumePaused(s) \/ ResumeRun(s) \/ Stop(s) \/ SetGoal(s)
      PROVE  StoreOK' /\ CallsOK'
      BY <1>2, ActivateStep, ResumePausedStep, ResumeRunStep, StopStep, SetGoalStep
<1>3. ASSUME NEW s \in Sessions, NEW accepted \in BOOLEAN,
             \/ ResumeRunReply(s, accepted) \/ CrossTurnReply(s, accepted)
             \/ DegradedReply(s, accepted)
      PROVE  StoreOK' /\ CallsOK'
      BY <1>3, ResumeRunReplyStep, CrossTurnReplyStep, DegradedReplyStep
<1>4. ASSUME NEW s \in Sessions,
             \/ TurnPrepare(s) \/ Activity(s) \/ FinalizeNoRun(s) \/ ValidationDone(s)
             \/ AgentEnd(s)
      PROVE  StoreOK' /\ CallsOK'
      BY <1>4, TurnPrepareStep, ActivityStep, FinalizeNoRunStep, ValidationDoneStep,
         AgentEndStep
<1>5. ASSUME NEW s \in Sessions, NEW signal, Finalize(s, signal)
      PROVE  StoreOK' /\ CallsOK'
      BY <1>5, FinalizeStep
<1>6. ASSUME NEW s \in Sessions, SessionStart(s) \/ SessionEnd(s) \/ ExtensionCleanup(s)
      PROVE  StoreOK' /\ CallsOK'
      BY <1>6, SessionStartStep, SessionEndStep, ExtensionCleanupStep
<1>7. ASSUME NEW r \in RunIds, Quiet(r) \/ BackoffOver(r) \/ CapExceeded(r)
      PROVE  StoreOK' /\ CallsOK'
      BY <1>7, QuietStep, BackoffOverStep, CapExceededStep
<1>8. CASE Cleanup \/ Patrol \/ Restart
      BY <1>8, CleanupStep, PatrolStep, RestartStep
<1> QED BY <1>1, <1>2, <1>3, <1>4, <1>5, <1>6, <1>7, <1>8 DEF Next

(* The invariant is inductive.                                             *)
THEOREM AutopilotInvariance == Spec => []IInv
<1>1. IInv /\ [Next]_vars => IInv' BY StoreStep, RestStep DEF IInv
<1> QED BY <1>1, InitInvariant, PTL DEF Spec

(* For any number of sessions and runs, any limits and any interleaving of *)
(* the handlers, with or without checkpoints: every run in memory is one   *)
(* that the reducer could have made.                                       *)
THEOREM RunsAlwaysWellFormed == Spec => []RunsStayWellFormed
<1>1. IInv => RunsStayWellFormed
  <2> SUFFICES ASSUME IInv PROVE RunsStayWellFormed OBVIOUS
  <2>1. StoreOK /\ CallsOK /\ RestOK /\ store \in Stores
        BY DEF IInv, StoreOK, Fine, Sturdy
  <2>2. Slot \subseteq Run \cup {None} BY DEF Slot, States
  <2>3. store \in StoreType BY <2>1, <2>2 DEF Stores, StoreType
  <2>4. \A ats : Calls(ats) \subseteq HookType(ats)
        BY DEF Calls, HookType, Alive, States
  <2>5. /\ hook \in [Sessions -> HookType({"cross_turn", "validation", "degraded"})]
        /\ rpc \in [Sessions -> HookType({"resume_run"})]
        BY <2>1, <2>4 DEF CallsOK, HookAts
  <2>6. TypeOK BY <2>1, <2>3, <2>5 DEF TypeOK, StoreOK, RestOK
  <2>7. \A x \in Memory : x \in States
    <3>1. \A r \in InMemory(store) : store.runs[r] \in States
          BY <2>1 DEF InMemory, Stores, Slot
    <3> QED BY <3>1 DEF Memory
  <2>8. ASSUME NEW x \in States
        PROVE  /\ x.status = DeriveStatus(x.orch, x.blocked)
               /\ x.attempt <= MaxRetries
               /\ x.orch = "retry_queued" => x.attempt > 0 /\ x.enabled
               /\ x.orch = "done" => /\ ~x.enabled
                                     /\ x.evidence \in {"passed", "skipped"}
                                     /\ x.unverified = (x.evidence = "skipped")
               /\ x.pause # "none" => x.orch = "blocked" /\ ~x.enabled
    <3>1. x \in Run /\ x.unverified \in BOOLEAN BY DEF States, Run
    <3> QED BY <3>1 DEF States, Good, Core, ActiveStates
  <2> QED BY <2>6, <2>7, <2>8 DEF RunsStayWellFormed
<1> QED BY <1>1, AutopilotInvariance, PTL

(* Likewise, the audit monitor is held at most once per running run:       *)
(* GAP-23 for every configuration.                                         *)
THEOREM AuditNeverLeaks == Spec => []NoAuditLeak
<1>1. IInv => NoAuditLeak
      BY DEF IInv, StoreOK, Fine, Balanced, NoAuditLeak
<1> QED BY <1>1, AutopilotInvariance, PTL
-----------------------------------------------------------------------------
(* What is allowed of a store: the states its runs may be in, the totals   *)
(* their copies may have, whose they are, and what the sessions may find.  *)
Within(w, k) ==
    /\ w \in Stores /\ w.owner = k.owner /\ w.current \in k.currents
    /\ \A t \in Sessions : w.index[t] # None => k.owner[w.index[t]] = t
    /\ \A q \in RunIds :
          /\ w.runs[q]  # None => w.runs[q] \in k.states[q] /\ w.runs[q].total \in k.totals[q]
          /\ w.disk[q]  # None => w.disk[q].total \in k.totals[q]
          /\ w.queue[q] # None => w.queue[q].total \in k.totals[q]

(* A state that may be written to run q.                                   *)
Allowed(k, q, y) == y \in States /\ y \in k.states[q] /\ y.total \in k.totals[q]

(* Sessions may lose their runs.                                           *)
Loose(k) ==
    \A c \in k.currents : \A keys :
        [t \in Sessions |-> IF t \in keys THEN None ELSE c[t]] \in k.currents
-----------------------------------------------------------------------------
(* Persisting clears index entries at most.                                *)
LEMMA PersistIndex ==
    ASSUME NEW w \in Stores, NEW r \in RunIds, NEW s, NEW changed,
           NEW p, p = Persist(w, r, s, changed)
    PROVE  \A t \in Sessions : p.index[t] \in {w.index[t], None}
<1>1. PICK d : d = DeleteCheckpoint(w, r) OBVIOUS
<1>2. d.index = w.index BY <1>1 DEF DeleteCheckpoint, Stores
<1>3. PICK c : c = ClearIndex(d, w.owner[r]) OBVIOUS
<1>4. c.index = [d.index EXCEPT ![w.owner[r]] = None]
  <2>1. d = [w EXCEPT !.disk = [w.disk EXCEPT ![r] = None]]
        BY <1>1 DEF DeleteCheckpoint
  <2> QED BY <1>3, <2>1 DEF ClearIndex, Stores
<1>5. PICK v : v = Save(w, r, s) OBVIOUS
<1>6. v.index = w.index BY <1>5 DEF Save, Stores
<1>7. p \in {c, v, w} BY <1>1, <1>3, <1>5 DEF Persist
<1>8. w.index \in [Sessions -> RunIds \cup {None}] BY DEF Stores
<1> QED BY <1>2, <1>4, <1>6, <1>7, <1>8

(* A write of an allowed state.                                            *)
LEMMA WriteWithin ==
    ASSUME NEW k, NEW w, Within(w, k), NEW r \in RunIds, NEW s, Allowed(k, r, s),
           NEW changed \in BOOLEAN,
           NEW p, p = Persist([w EXCEPT !.runs[r] = s], r, s, changed)
    PROVE  Within(p, k)
<1>1. w \in Stores /\ s \in States BY DEF Within, Allowed
<1>2. PICK x : x = [w EXCEPT !.runs[r] = s] OBVIOUS
<1>3. /\ x \in Stores /\ x.runs = [w.runs EXCEPT ![r] = s]
      /\ x.owner = w.owner /\ x.current = w.current /\ x.index = w.index
      /\ x.disk = w.disk /\ x.queue = w.queue
      BY <1>1, <1>2 DEF Stores, Slot
<1>4. x.runs[r] = s /\ \A q \in RunIds \ {r} : x.runs[q] = w.runs[q]
      BY <1>1, <1>3 DEF Stores
<1>5. p = Persist(x, r, s, changed) BY <1>2
<1>6. p \in Stores /\ p.runs = x.runs /\ p.owner = x.owner /\ p.current = x.current
      BY <1>1, <1>3, <1>5, PersistFacts
<1>7. \A q \in RunIds \ {r} : p.disk[q] = x.disk[q] /\ p.queue[q] = x.queue[q]
      BY <1>1, <1>3, <1>5, PersistFacts
<1>8. /\ p.disk[r] \in {x.disk[r], None}
      /\ p.queue[r] = x.queue[r] \/ p.queue[r] = Snapshot(s)
      BY <1>1, <1>3, <1>5, PersistFacts
<1>9. \A t \in Sessions : p.index[t] \in {w.index[t], None}
      BY <1>3, <1>5, PersistIndex
<1>10. Snapshot(s).total = s.total BY <1>1, SnapshotState DEF Same
<1>11. \A q \in RunIds \ {r} :
         /\ p.runs[q]  # None => p.runs[q] \in k.states[q] /\ p.runs[q].total \in k.totals[q]
         /\ p.disk[q]  # None => p.disk[q].total \in k.totals[q]
         /\ p.queue[q] # None => p.queue[q].total \in k.totals[q]
  <2>1. \A q \in RunIds \ {r} : /\ p.runs[q] = w.runs[q] /\ p.disk[q] = w.disk[q]
                                /\ p.queue[q] = w.queue[q]
        BY <1>3, <1>4, <1>6, <1>7
  <2>2. \A q \in RunIds :
         /\ w.runs[q]  # None => w.runs[q] \in k.states[q] /\ w.runs[q].total \in k.totals[q]
         /\ w.disk[q]  # None => w.disk[q].total \in k.totals[q]
         /\ w.queue[q] # None => w.queue[q].total \in k.totals[q]
        BY DEF Within
  <2> QED BY <2>1, <2>2
<1>12. /\ p.runs[r] \in k.states[r] /\ p.runs[r].total \in k.totals[r]
       /\ p.disk[r]  # None => p.disk[r].total \in k.totals[r]
       /\ p.queue[r] # None => p.queue[r].total \in k.totals[r]
  <2>1. p.runs[r] = s BY <1>4, <1>6
  <2>2. p.disk[r] \in {w.disk[r], None} BY <1>3, <1>8
  <2>3. p.queue[r] = w.queue[r] \/ p.queue[r] = Snapshot(s) BY <1>3, <1>8
  <2>4. p.disk[r] # None => p.disk[r].total \in k.totals[r] BY <2>2 DEF Within
  <2>5. p.queue[r] # None => p.queue[r].total \in k.totals[r]
        BY <1>10, <2>3 DEF Within, Allowed
  <2> QED BY <2>1, <2>4, <2>5 DEF Allowed
<1>13. p.owner = k.owner /\ p.current \in k.currents BY <1>3, <1>6 DEF Within
<1>14. \A t \in Sessions : p.index[t] # None => k.owner[p.index[t]] = t
       BY <1>9 DEF Within
<1> QED BY <1>6, <1>11, <1>12, <1>13, <1>14 DEF Within

(* Changes to the other maps.                                              *)
LEMMA PassiveWithin ==
    ASSUME NEW k, NEW w, Within(w, k), NEW x \in Stores,
           x.runs = w.runs, x.owner = w.owner, x.index = w.index,
           x.disk = w.disk, x.queue = w.queue, x.current \in k.currents
    PROVE  Within(x, k)
BY DEF Within

(* Holds of the audit monitor.                                             *)
LEMMA ReleaseWithin ==
    ASSUME NEW k, NEW w, Within(w, k), NEW c \in BOOLEAN, NEW p, p = ReleaseIf(w, c)
    PROVE  Within(p, k)
<1>1. w \in Stores /\ w.audit \in Int /\ w.audit >= AuditFloor BY DEF Within, Stores
<1>2. CASE c
  <2>1. PICK v : v = IF w.audit > AuditFloor THEN w.audit - 1 ELSE w.audit OBVIOUS
  <2>2. v \in Int /\ v >= AuditFloor BY <1>1, <2>1, FloorIsNegative
  <2>3. p = [w EXCEPT !.audit = v] BY <1>1, <1>2, <2>1 DEF ReleaseIf, Release, Stores
  <2>4. /\ p \in Stores /\ p.runs = w.runs /\ p.owner = w.owner /\ p.index = w.index
        /\ p.disk = w.disk /\ p.queue = w.queue /\ p.current = w.current
        BY <1>1, <2>2, <2>3 DEF Stores
  <2> QED BY <2>4, PassiveWithin DEF Within
<1>3. CASE ~c BY <1>3 DEF ReleaseIf
<1> QED BY <1>2, <1>3

(* A hold is acquired.                                                     *)
LEMMA AcquireWithin ==
    ASSUME NEW k, NEW w, Within(w, k), NEW p, p = Acquire(w)
    PROVE  Within(p, k)
<1>1. w \in Stores /\ w.audit \in Int /\ w.audit >= AuditFloor BY DEF Within, Stores
<1>2. w.audit + 1 \in Int /\ w.audit + 1 >= AuditFloor BY <1>1, FloorIsNegative
<1>3. p = [w EXCEPT !.audit = w.audit + 1] BY DEF Acquire
<1>4. /\ p \in Stores /\ p.runs = w.runs /\ p.owner = w.owner /\ p.index = w.index
      /\ p.disk = w.disk /\ p.queue = w.queue /\ p.current = w.current
      BY <1>1, <1>2, <1>3 DEF Stores
<1> QED BY <1>4, PassiveWithin DEF Within

(* setState of an allowed state, with or without the release.              *)
LEMMA PutWithin ==
    ASSUME NEW k, NEW w, Within(w, k), NEW r \in RunIds, NEW s, Allowed(k, r, s),
           NEW c \in BOOLEAN, NEW p, p = ReleaseIf(Put(w, r, s), c)
    PROVE  Within(p, k)
<1>1. PICK changed \in BOOLEAN : changed = ShouldCheckpoint(w.runs[r], s)
      BY DEF ShouldCheckpoint
<1>2. PICK x : x = Persist([w EXCEPT !.runs[r] = s], r, s, changed) OBVIOUS
<1>3. Within(x, k) BY <1>2, WriteWithin
<1>4. p = ReleaseIf(x, c) BY <1>1, <1>2 DEF Put
<1> QED BY <1>3, <1>4, ReleaseWithin

(* The same without a release.                                             *)
LEMMA PlainWithin ==
    ASSUME NEW k, NEW w, Within(w, k), NEW r \in RunIds, NEW s, Allowed(k, r, s)
    PROVE  \A p : p = Put(w, r, s) \/ p = Rewrite(w, r, s) => Within(p, k)
<1> SUFFICES ASSUME NEW p, p = Put(w, r, s) \/ p = Rewrite(w, r, s) PROVE Within(p, k)
    OBVIOUS
<1>1. CASE p = Put(w, r, s)
  <2>1. PICK c \in BOOLEAN : c = FALSE OBVIOUS
  <2>2. p = ReleaseIf(Put(w, r, s), c) BY <1>1, <2>1 DEF ReleaseIf
  <2> QED BY <2>2, PutWithin
<1>2. CASE p = Rewrite(w, r, s)
  <2>1. PICK c \in BOOLEAN : c = TRUE OBVIOUS
  <2>2. p = Persist([w EXCEPT !.runs[r] = s], r, s, c) BY <1>2, <2>1 DEF Rewrite
  <2> QED BY <2>2, WriteWithin
<1> QED BY <1>1, <1>2

(* The queued writes land.                                                 *)
LEMMA FlushWithin ==
    ASSUME NEW k, NEW w, Within(w, k), NEW f, f = Flush(w)
    PROVE  Within(f, k)
<1>1. w \in Stores BY DEF Within
<1>2. f \in Stores /\ f.runs = w.runs /\ f.owner = w.owner /\ f.current = w.current
      BY <1>1, FlushFacts
<1>3. \A r \in RunIds : f.disk[r] = Landed(w, r) /\ f.queue[r] = None BY <1>1, FlushFacts
<1>4. \A t \in Sessions : f.index[t] = w.index[t] \/ w.owner[f.index[t]] = t
  <2> DEFINE written(t) == {r \in RunIds : w.queue[r] # None /\ w.owner[r] = t}
  <2>1. f.index = [t \in Sessions |-> IF written(t) = {} THEN w.index[t]
                                     ELSE CHOOSE r \in written(t) : TRUE]
        BY <1>1 DEF Flush, Stores
  <2> SUFFICES ASSUME NEW t \in Sessions
               PROVE  f.index[t] = w.index[t] \/ w.owner[f.index[t]] = t
      OBVIOUS
  <2>2. written(t) # {} => (CHOOSE r \in written(t) : TRUE) \in written(t) OBVIOUS
  <2>3. \A r \in written(t) : w.owner[r] = t OBVIOUS
  <2> QED BY <2>1, <2>2, <2>3
<1>5. \A q \in RunIds : f.disk[q] # None => f.disk[q].total \in k.totals[q]
      BY <1>3 DEF Within, Landed
<1>6. \A t \in Sessions : f.index[t] # None => k.owner[f.index[t]] = t
      BY <1>4 DEF Within
<1> QED BY <1>2, <1>3, <1>5, <1>6 DEF Within

(* Runs that are forgotten.                                                *)
LEMMA SweepWithin ==
    ASSUME NEW k, Loose(k), NEW w, Within(w, k), NEW gone \in SUBSET RunIds,
           NEW x, x = Sweep(w, gone)
    PROVE  Within(x, k) /\ x.runs = Without(w, gone)
<1>1. w \in Stores BY DEF Within
<1>2. PICK a : a = ReleaseAll(w, gone) OBVIOUS
<1>3. PICK b : b = Forget(a, gone) OBVIOUS
<1>4. x = [b EXCEPT !.armed = b.armed \ gone] BY <1>2, <1>3 DEF Sweep
<1>5. /\ a \in Stores /\ a.runs = w.runs /\ a.owner = w.owner /\ a.current = w.current
      /\ a.disk = w.disk /\ a.queue = w.queue
      BY <1>1, <1>2, ReleaseAllFacts
<1>6. a.index = w.index BY <1>1, <1>2 DEF ReleaseAll, Stores
<1>7. /\ b \in Stores /\ b.runs = Without(a, gone) /\ b.owner = a.owner
      /\ b.disk = a.disk /\ b.queue = a.queue
      BY <1>3, <1>5, ForgetFacts
<1>8. PICK keys : keys = {a.owner[r] : r \in gone} OBVIOUS
<1>9. b.current = [t \in Sessions |-> IF t \in keys THEN None ELSE a.current[t]]
      BY <1>3, <1>5, <1>8 DEF Forget, Stores
<1>10. b.index = a.index BY <1>3, <1>5 DEF Forget, Stores
<1>11. /\ x \in Stores /\ x.runs = b.runs /\ x.owner = b.owner /\ x.index = b.index
       /\ x.disk = b.disk /\ x.queue = b.queue /\ x.current = b.current
       BY <1>4, <1>7 DEF Stores
<1>12. x.current \in k.currents BY <1>5, <1>9, <1>11 DEF Within, Loose
<1>13. x.runs = Without(w, gone) BY <1>5, <1>7, <1>11 DEF Without
<1>14. \A q \in RunIds : x.runs[q] \in {w.runs[q], None} BY <1>13 DEF Without
<1>15. /\ x.owner = w.owner /\ x.index = w.index /\ x.disk = w.disk /\ x.queue = w.queue
       BY <1>5, <1>6, <1>7, <1>10, <1>11
<1> QED BY <1>11, <1>12, <1>13, <1>14, <1>15 DEF Within
(* A run brought into memory, with the evictions this causes.              *)
LEMMA InsertWithin ==
    ASSUME NEW k, Loose(k), NEW w, Within(w, k), NEW r \in RunIds, NEW s,
           Allowed(k, r, s), NEW p \in Insertions(w, r, s)
    PROVE  Within(p, k)
<1>1. w \in Stores /\ s \in States BY DEF Within, Allowed
<1>2. PICK x : x = [w EXCEPT !.runs[r] = s] OBVIOUS
<1>3. /\ x \in Stores /\ x.runs = [w.runs EXCEPT ![r] = s]
      /\ x.owner = w.owner /\ x.current = w.current /\ x.index = w.index
      /\ x.disk = w.disk /\ x.queue = w.queue
      BY <1>1, <1>2 DEF Stores, Slot
<1>4. x.runs[r] = s /\ \A q \in RunIds \ {r} : x.runs[q] = w.runs[q]
      BY <1>1, <1>3 DEF Stores
<1>5. Within(x, k)
  <2>1. \A q \in RunIds : x.runs[q] # None =>
           x.runs[q] \in k.states[q] /\ x.runs[q].total \in k.totals[q]
        BY <1>4 DEF Within, Allowed
  <2> QED BY <1>3, <2>1 DEF Within
<1>6. PICK changed \in BOOLEAN : changed = ShouldCheckpoint(w.runs[r], s)
      BY DEF ShouldCheckpoint
<1>7. PICK gone \in Evictable(x) : p = Persist(Evict(x, gone), r, s, changed)
      BY <1>2, <1>6 DEF Insertions
<1>8. gone \in SUBSET RunIds BY DEF Evictable, InMemory
<1>9. PICK y : y = Sweep(x, gone) OBVIOUS
<1>10. Within(y, k) BY <1>5, <1>8, <1>9, SweepWithin
<1>11. PICK disk : disk = [q \in RunIds |-> IF q \in gone THEN None ELSE y.disk[q]]
       OBVIOUS
<1>12. PICK e : e = Evict(x, gone) OBVIOUS
<1>13. e = [y EXCEPT !.disk = disk] BY <1>9, <1>11, <1>12, <1>10 DEF Evict, Within, Stores
<1>14. y \in Stores /\ disk \in [RunIds -> Slot] BY <1>10, <1>11 DEF Within, Stores, Slot
<1>15. /\ e \in Stores /\ e.runs = y.runs /\ e.owner = y.owner /\ e.current = y.current
       /\ e.index = y.index /\ e.queue = y.queue /\ e.disk = disk
       BY <1>13, <1>14 DEF Stores
<1>16. Within(e, k)
  <2>1. \A q \in RunIds : e.disk[q] \in {y.disk[q], None} BY <1>11, <1>15
  <2> QED BY <1>10, <1>15, <2>1 DEF Within
<1>17. p = Persist(e, r, s, changed) BY <1>7, <1>12
<1>18. p \in Stores /\ p.runs = e.runs /\ p.owner = e.owner /\ p.current = e.current
       BY <1>1, <1>15, <1>17, PersistFacts
<1>19. \A q \in RunIds \ {r} : p.disk[q] = e.disk[q] /\ p.queue[q] = e.queue[q]
       BY <1>1, <1>15, <1>17, PersistFacts
<1>20. /\ p.disk[r] \in {e.disk[r], None}
       /\ p.queue[r] = e.queue[r] \/ p.queue[r] = Snapshot(s)
       BY <1>1, <1>15, <1>17, PersistFacts
<1>21. \A t \in Sessions : p.index[t] \in {e.index[t], None}
       BY <1>15, <1>17, PersistIndex
<1>22. Snapshot(s).total = s.total BY <1>1, SnapshotState DEF Same
<1>23. \A q \in RunIds : p.disk[q] # None => p.disk[q].total \in k.totals[q]
       BY <1>16, <1>19, <1>20 DEF Within
<1>24. \A q \in RunIds : p.queue[q] # None => p.queue[q].total \in k.totals[q]
       BY <1>16, <1>19, <1>20, <1>22 DEF Within, Allowed
<1>25. \A t \in Sessions : p.index[t] # None => k.owner[p.index[t]] = t
       BY <1>16, <1>21 DEF Within
<1> QED BY <1>16, <1>18, <1>23, <1>24, <1>25 DEF Within
-----------------------------------------------------------------------------
(* A state a handler may make of x without counting a continuation and     *)
(* without bringing x back once it has ended.                              *)
Steady(x, y) == y \in States /\ y.total = x.total /\ (Ended(x) => Ended(y))

(* No event of the reducer counts a continuation.                          *)
LEMMA EventTotals ==
    ASSUME NEW x \in Run
    PROVE  /\ AgentTurnStarted(x).total = x.total
           /\ AgentActivity(x).total = x.total
           /\ StallTimeout(x).total = x.total
           /\ RetryDue(x).total = x.total
           /\ EvidenceStarted(x).total = x.total
           /\ StopRequested(x).total = x.total
           /\ \A reason : PauseRequested(x, reason).total = x.total
           /\ \A reason : HardStopRequested(x, reason).total = x.total
           /\ \A outcome : AgentTurnFinished(x, outcome).total = x.total
           /\ \A verdict \in Verdicts : EvidenceFinished(x, verdict).total = x.total
           /\ ResumedByGateway(x).total = x.total
           /\ CrossTurnResumeConsumed(x).total = x.total
           /\ DegradationMarked(x).total = x.total
           /\ DegradationCleared(x).total = x.total
           /\ ResetTurnAttempts(x).total = x.total
<1>1. AgentTurnStarted(x).total = x.total BY DEF Run, Derived, AgentTurnStarted
<1>2. AgentActivity(x).total = x.total BY DEF Run, Derived, AgentActivity
<1>3. StallTimeout(x).total = x.total
      BY DEF Run, Derived, StallTimeout, RetryOrBlock, QueueRetry, Block
<1>4. RetryDue(x).total = x.total BY DEF Run, Derived, RetryDue
<1>5. EvidenceStarted(x).total = x.total BY DEF Run, Derived, EvidenceStarted
<1>6. StopRequested(x).total = x.total BY DEF Run, Derived, StopRequested, Block
<1>7. \A reason : PauseRequested(x, reason).total = x.total
      BY DEF Run, Derived, PauseRequested, Block
<1>8. \A reason : HardStopRequested(x, reason).total = x.total
      BY DEF Run, Derived, HardStopRequested, Block
<1>9. \A outcome : AgentTurnFinished(x, outcome).total = x.total
      BY DEF Run, Derived, AgentTurnFinished, RetryOrBlock, QueueRetry, Block
<1>10. \A verdict \in Verdicts : EvidenceFinished(x, verdict).total = x.total
      BY DEF Run, Verdicts, Derived, EvidenceFinished, RetryOrBlock, QueueRetry, Block
<1>11. ResumedByGateway(x).total = x.total
      BY DEF Run, Derived, ResumedByGateway, ResumeRequested
<1>12. CrossTurnResumeConsumed(x).total = x.total
      BY DEF Run, Derived, CrossTurnResumeConsumed
<1>13. DegradationMarked(x).total = x.total BY DEF Run, Derived, DegradationMarked
<1>14. DegradationCleared(x).total = x.total BY DEF Run, Derived, DegradationCleared
<1>15. ResetTurnAttempts(x).total = x.total BY DEF Run, ResetTurnAttempts
<1> QED BY <1>1, <1>2, <1>3, <1>4, <1>5, <1>6, <1>7, <1>8, <1>9, <1>10, <1>11, <1>12,
           <1>13, <1>14, <1>15

(* A sound event does not bring back a run that has ended.                 *)
LEMMA SoundStaysEnded ==
    ASSUME NEW x, NEW y, Sound(x, y)
    PROVE  Ended(x) => Ended(y)
BY DEF Sound, Kept, Terminal, Ended

(* The events a handler sends to a run keep it steady.                     *)
LEMMA EventsSteady ==
    ASSUME NEW x \in States
    PROVE  /\ Steady(x, x)
           /\ Steady(x, AgentTurnStarted(x))
           /\ Steady(x, AgentActivity(x))
           /\ Steady(x, StallTimeout(x))
           /\ Steady(x, RetryDue(x))
           /\ Steady(x, StopRequested(x))
           /\ \A reason \in PauseReasons : Steady(x, PauseRequested(x, reason))
           /\ \A reason \in CapReasons : Steady(x, HardStopRequested(x, reason))
           /\ \A outcome \in TurnOutcomes : Steady(x, AgentTurnFinished(x, outcome))
           /\ Steady(x, CrossTurnResumeConsumed(x))
           /\ Steady(x, DegradationMarked(x))
           /\ Steady(x, DegradationCleared(x))
           /\ Steady(x, ResetTurnAttempts(x))
           /\ Resumable(x) => Steady(x, ResumedByGateway(x))
<1>1. Good(x) /\ x.orch # "none" /\ x \in Run BY DEF States
<1>2. ASSUME NEW y, Sound(x, y), y.total = x.total PROVE Steady(x, y)
      BY <1>2, SoundStaysEnded, SoundKeepsState DEF Steady
<1>3. Steady(x, x) BY DEF Steady
<1>4. Steady(x, AgentTurnStarted(x)) BY <1>1, <1>2, TurnStartSound, EventTotals
<1>5. Steady(x, AgentActivity(x)) BY <1>1, <1>2, ActivitySound, EventTotals
<1>6. Steady(x, StallTimeout(x)) BY <1>1, <1>2, StallSound, EventTotals
<1>7. Steady(x, RetryDue(x)) BY <1>1, <1>2, RetryDueSound, EventTotals
<1>8. Steady(x, StopRequested(x)) BY <1>1, <1>2, StopSound, EventTotals
<1>9. \A reason \in PauseReasons : Steady(x, PauseRequested(x, reason))
      BY <1>1, <1>2, PauseSound, EventTotals
<1>10. \A reason \in CapReasons : Steady(x, HardStopRequested(x, reason))
      BY <1>1, <1>2, HardStopSound, EventTotals
<1>11. \A outcome \in TurnOutcomes : Steady(x, AgentTurnFinished(x, outcome))
      BY <1>1, <1>2, TurnFinishSound, EventTotals
<1>12. Steady(x, CrossTurnResumeConsumed(x)) BY <1>1, <1>2, FlagSound, EventTotals
<1>13. Steady(x, DegradationMarked(x)) BY <1>1, <1>2, FlagSound, EventTotals
<1>14. Steady(x, DegradationCleared(x)) BY <1>1, <1>2, FlagSound, EventTotals
<1>15. Steady(x, ResetTurnAttempts(x)) BY <1>1, <1>2, CountSound, EventTotals
<1>16. Resumable(x) => Steady(x, ResumedByGateway(x))
      BY <1>1, <1>2, ResumeSound, EventTotals
<1> QED BY <1>3, <1>4, <1>5, <1>6, <1>7, <1>8, <1>9, <1>10, <1>11, <1>12, <1>13, <1>14,
           <1>15, <1>16

(* One steady step after another.                                          *)
LEMMA SteadyTwice ==
    ASSUME NEW x, NEW y, NEW z, Steady(x, y), Steady(y, z)
    PROVE  Steady(x, z)
BY DEF Steady

(* Judging a turn does not count it.                                       *)
LEMMA JudgedTotal ==
    ASSUME NEW x \in Alive, NEW verdict \in Verdicts
    PROVE  Judged(x, verdict).total = x.total
<1>1. x \in States BY DEF Alive
<1>2. PICK c : c = IF x.orch = "running" THEN AgentTurnFinished(x, "success") ELSE x
      OBVIOUS
<1>3. c \in States /\ c.total = x.total
      BY <1>1, <1>2, EventsSteady DEF Steady, TurnOutcomes
<1>4. PICK g : g = IF c.orch = "released"
                   THEN EvidenceFinished(EvidenceStarted(c), verdict) ELSE c
      OBVIOUS
<1>5. g \in Run /\ g.total = x.total
  <2>1. EvidenceStarted(c) \in States /\ EvidenceStarted(c).total = c.total
        BY <1>3, EventStates, EventTotals DEF States
  <2>2. PICK z : z = EvidenceStarted(c) OBVIOUS
  <2>3. EvidenceFinished(z, verdict) \in States /\ EvidenceFinished(z, verdict).total = z.total
        BY <2>1, <2>2, EventStates, EventTotals DEF States
  <2> QED BY <1>3, <1>4, <2>1, <2>2, <2>3 DEF States
<1>6. Judged(x, verdict) = [g EXCEPT !.evidence = EvidenceOf(verdict)]
      BY <1>2, <1>4 DEF Judged
<1> QED BY <1>5, <1>6 DEF Run

(* The continuations that are counted.                                     *)
LEMMA CountTotals ==
    ASSUME NEW x \in States
    PROVE  /\ CrossTurnFallback(x).total = x.total + 1
           /\ IncrementTotal(ResetTurnAttempts(x)).total = x.total + 1
           /\ IncrementTotal(IncrementTurn(x)).total = x.total + 1
           /\ CrossTurnEnqueued(x).total \in {x.total, x.total + 1}
           /\ CrossTurnDegraded(x).total \in {x.total, x.total + 1}
           /\ CrossTurnDegradedSilent(x).total \in {x.total, x.total + 1}
<1>1. x \in Run BY DEF States
<1>2. /\ CrossTurnFallback(x).total = x.total + 1
      /\ IncrementTotal(ResetTurnAttempts(x)).total = x.total + 1
      /\ IncrementTotal(IncrementTurn(x)).total = x.total + 1
      BY <1>1 DEF Run, CrossTurnFallback, IncrementTotal, ResetTurnAttempts, IncrementTurn
<1>3. /\ CrossTurnEnqueued(x).total \in {x.total, x.total + 1}
      /\ CrossTurnDegraded(x).total \in {x.total, x.total + 1}
      /\ CrossTurnDegradedSilent(x).total \in {x.total, x.total + 1}
      BY <1>1 DEF Run, Derived, CrossTurnEnqueued, CrossTurnDegraded,
         CrossTurnDegradedSilent, CrossTurn
<1> QED BY <1>2, <1>3
-----------------------------------------------------------------------------
(* The store is within k, and so is every steady write to a run.           *)
Open(k) ==
    /\ Within(store, k)
    /\ \A q \in RunIds : \A y :
          store.runs[q] # None /\ Steady(store.runs[q], y) => Allowed(k, q, y)

(* The end of a segment.                                                   *)
LEMMA SettleWithin ==
    ASSUME NEW k, NEW w, Within(w, k), Become(w)
    PROVE  Within(store', k)
<1>1. PICK f : f = Flush(w) OBVIOUS
<1>2. Within(f, k) BY <1>1, FlushWithin
<1> QED BY <1>1, <1>2 DEF Become

(* A steady write to the run of a session is allowed.                      *)
LEMMA MayWrite ==
    ASSUME StoreOK, NEW k, Open(k), NEW s \in Sessions, HasRun(s),
           NEW y, Steady(StateOf(s), y)
    PROVE  Allowed(k, RunOf(s), y)
<1>1. RunOf(s) \in RunIds /\ store.runs[RunOf(s)] # None /\ StateOf(s) = store.runs[RunOf(s)]
      BY FoundRun DEF InMemory
<1> QED BY <1>1 DEF Open

(* One steady write, with or without a release.                            *)
LEMMA OneWrite ==
    ASSUME StoreOK, NEW k, Open(k), NEW s \in Sessions, HasRun(s),
           NEW y, Steady(StateOf(s), y), NEW c \in BOOLEAN,
           Become(ReleaseIf(Put(store, RunOf(s), y), c))
    PROVE  Within(store', k)
<1>1. RunOf(s) \in RunIds /\ Allowed(k, RunOf(s), y) BY FoundRun, MayWrite
<1>2. PICK p : p = ReleaseIf(Put(store, RunOf(s), y), c) OBVIOUS
<1>3. Within(store, k) BY DEF Open
<1>4. Within(p, k) BY <1>1, <1>2, <1>3, PutWithin
<1> QED BY <1>2, <1>4, SettleWithin

(* The same without a release.                                             *)
LEMMA OnePlainWrite ==
    ASSUME StoreOK, NEW k, Open(k), NEW s \in Sessions, HasRun(s),
           NEW y, Steady(StateOf(s), y), Become(Put(store, RunOf(s), y))
    PROVE  Within(store', k)
<1>1. PICK c \in BOOLEAN : c = FALSE OBVIOUS
<1>2. Become(ReleaseIf(Put(store, RunOf(s), y), c)) BY <1>1 DEF ReleaseIf
<1> QED BY <1>2, OneWrite

(* autopilot.stop writes a steady state.                                   *)
LEMMA StopWithin ==
    ASSUME StoreOK, NEW k, Open(k), NEW s \in Sessions, Stop(s)
    PROVE  Within(store', k)
<1>1. HasRun(s) BY DEF Stop
<1>2. PICK c \in BOOLEAN : c = (StateOf(s).status = "running") OBVIOUS
<1>3. Become(ReleaseIf(Put(store, RunOf(s), StopRequested(StateOf(s))), c))
      BY <1>2 DEF Stop
<1>4. Steady(StateOf(s), StopRequested(StateOf(s))) BY <1>1, FoundRun, EventsSteady
<1> QED BY <1>1, <1>3, <1>4, OneWrite

(* autopilot.setGoal writes the state it read.                             *)
LEMMA SetGoalWithin ==
    ASSUME StoreOK, NEW k, Open(k), NEW s \in Sessions, SetGoal(s)
    PROVE  Within(store', k)
<1>1. HasRun(s) BY DEF SetGoal
<1>2. PICK w : w = Rewrite(store, RunOf(s), StateOf(s)) OBVIOUS
<1>3. Become(w) BY <1>2 DEF SetGoal
<1>4. Steady(StateOf(s), StateOf(s)) BY <1>1, FoundRun, EventsSteady
<1>5. RunOf(s) \in RunIds /\ Allowed(k, RunOf(s), StateOf(s))
      BY <1>1, <1>4, FoundRun, MayWrite
<1>6. Within(store, k) BY DEF Open
<1>7. Within(w, k) BY <1>2, <1>5, <1>6, PlainWithin
<1> QED BY <1>3, <1>7, SettleWithin

(* The claim of a turn is a steady state.                                  *)
LEMMA TurnPrepareWithin ==
    ASSUME StoreOK, NEW k, Open(k), NEW s \in Sessions, TurnPrepare(s)
    PROVE  Within(store', k)
<1>1. CASE Enabled(s)
  <2>1. HasRun(s) BY <1>1 DEF Enabled
  <2>2. Become(Put(store, RunOf(s), AgentTurnStarted(StateOf(s)))) BY <1>1 DEF TurnPrepare
  <2>3. Steady(StateOf(s), AgentTurnStarted(StateOf(s))) BY <2>1, FoundRun, EventsSteady
  <2> QED BY <2>1, <2>2, <2>3, OnePlainWrite
<1>2. CASE ~Enabled(s) BY <1>2 DEF TurnPrepare, Open
<1> QED BY <1>1, <1>2

(* So is a stamp of activity.                                              *)
LEMMA ActivityWithin ==
    ASSUME StoreOK, NEW k, Open(k), NEW s \in Sessions, Activity(s)
    PROVE  Within(store', k)
<1>1. HasRun(s) BY DEF Activity, Enabled
<1>2. Become(Put(store, RunOf(s), AgentActivity(StateOf(s)))) BY DEF Activity
<1>3. Steady(StateOf(s), AgentActivity(StateOf(s))) BY <1>1, FoundRun, EventsSteady
<1> QED BY <1>1, <1>2, <1>3, OnePlainWrite

(* A resumed run keeps its total, and one that ended is not resumed.       *)
LEMMA ResumePausedWithin ==
    ASSUME StoreOK, NEW k, Open(k), NEW s \in Sessions, ResumePaused(s)
    PROVE  Within(store', k)
<1> DEFINE x == StateOf(s)
           r == RunOf(s)
<1>1. /\ HasRun(s) /\ x.status = "paused" /\ ResumeRequested(x).orch = "claimed"
      BY DEF ResumePaused
<1>2. r \in RunIds /\ x \in States BY <1>1, FoundRun
<1>3. PICK y : y = ResumedByGateway(x) OBVIOUS
<1>4. PICK w : w = Put(store, r, y) OBVIOUS
<1>5. PICK a : a = Acquire(w) OBVIOUS
<1>6. Become(a) BY <1>3, <1>4, <1>5 DEF ResumePaused
<1>7. Good(x) /\ x \in Run /\ x.orch = "blocked"
      BY <1>1, <1>2 DEF States, Good, DeriveStatus, Run, OrchestrationStates, ActiveStates
<1>8. Resumable(x) BY <1>1, <1>7 DEF ResumeRequested
<1>9. y \in States BY <1>2, <1>3, <1>7, <1>8, ResumeSound, SoundKeepsState
<1>10. y.total = x.total BY <1>3, <1>7, EventTotals
<1>11. ~Ended(x) BY <1>7, <1>8 DEF Ended
<1>12. Steady(x, y) BY <1>9, <1>10, <1>11 DEF Steady
<1>13. Allowed(k, r, y) BY <1>1, <1>12, MayWrite
<1> HIDE DEF x, r
<1>14. Within(store, k) BY DEF Open
<1>15. Within(w, k) BY <1>2, <1>4, <1>13, <1>14, PlainWithin
<1>16. Within(a, k) BY <1>5, <1>15, AcquireWithin
<1> QED BY <1>6, <1>16, SettleWithin

(* Without a run only the canary is set.                                   *)
LEMMA FinalizeNoRunWithin ==
    ASSUME StoreOK, NEW k, Open(k), NEW s \in Sessions, FinalizeNoRun(s)
    PROVE  Within(store', k)
<1>1. PICK w : w = [store EXCEPT !.canary = store.canary \cup {s}] OBVIOUS
<1>2. /\ w \in Stores /\ w.runs = store.runs /\ w.owner = store.owner
      /\ w.disk = store.disk /\ w.queue = store.queue
      /\ w.index = store.index /\ w.current = store.current
      BY <1>1 DEF StoreOK, Fine, Sturdy, Stores
<1>3. Within(store, k) BY DEF Open
<1>4. w.current \in k.currents BY <1>2, <1>3 DEF Within
<1>5. Within(w, k) BY <1>2, <1>3, <1>4, PassiveWithin
<1> QED BY <1>1, <1>5 DEF FinalizeNoRun

(* A write to a run that is as steady, but reaches memory only.            *)
LEMMA AgedWithin ==
    ASSUME StoreOK, NEW k, Open(k), NEW r \in InMemory(store), NEW y,
           Steady(store.runs[r], y), NEW x, x = [store EXCEPT !.runs[r] = y]
    PROVE  Within(x, k)
<1>1. r \in RunIds /\ store.runs[r] # None /\ store \in Stores /\ y \in States
      BY DEF InMemory, Steady, StoreOK, Fine, Sturdy
<1>2. Allowed(k, r, y) BY <1>1 DEF Open
<1>3. /\ x \in Stores /\ x.runs = [store.runs EXCEPT ![r] = y]
      /\ x.owner = store.owner /\ x.current = store.current /\ x.index = store.index
      /\ x.disk = store.disk /\ x.queue = store.queue
      BY <1>1 DEF Stores, Slot
<1>4. Within(store, k) BY DEF Open
<1>5. \A q \in RunIds : x.runs[q] = IF q = r THEN y ELSE store.runs[q]
      BY <1>1, <1>3 DEF Stores
<1> QED BY <1>2, <1>3, <1>4, <1>5 DEF Within, Allowed

(* Time only changes the age of a run.                                     *)
LEMMA QuietWithin ==
    ASSUME StoreOK, NEW k, Open(k), NEW r \in RunIds, Quiet(r)
    PROVE  Within(store', k)
<1>1. PICK age : age = IF store.runs[r].age = "fresh" THEN "stalled" ELSE "orphan"
      OBVIOUS
<1>2. age \in Ages BY <1>1 DEF Ages
<1>3. r \in InMemory(store) /\ store.runs[r] \in States
      BY DEF Quiet, InMemory, StoreOK, Fine, Sturdy, Stores, Slot
<1>4. PICK y : y = [store.runs[r] EXCEPT !.age = age] OBVIOUS
<1>5. Steady(store.runs[r], y)
  <2>1. PICK t : t = store.runs[r] OBVIOUS
  <2>2. t \in States /\ t.due \in BOOLEAN BY <1>3, <2>1 DEF States, Run
  <2>3. PICK d \in BOOLEAN : d = t.due BY <2>2
  <2>4. y = [t EXCEPT !.age = age, !.due = d] BY <1>4, <2>1, <2>2, <2>3 DEF States, Run
  <2>5. /\ [t EXCEPT !.age = age, !.due = d] \in States
        /\ Same(t, [t EXCEPT !.age = age, !.due = d])
        BY <1>2, <2>2, Aged
  <2> QED BY <2>1, <2>4, <2>5 DEF Same, Steady, Ended, Resumable
<1>6. PICK x : x = [store EXCEPT !.runs[r] = y] OBVIOUS
<1>7. store' = x
  <2>1. store' = [store EXCEPT !.runs[r].age = age] BY <1>1 DEF Quiet
  <2> QED BY <1>4, <1>6, <2>1 DEF StoreOK, Fine, Sturdy, Stores
<1>8. Within(x, k) BY <1>3, <1>5, <1>6, AgedWithin
<1> QED BY <1>7, <1>8

(* The end of a backoff only changes whether the retry is due.             *)
LEMMA BackoffOverWithin ==
    ASSUME StoreOK, NEW k, Open(k), NEW r \in RunIds, BackoffOver(r)
    PROVE  Within(store', k)
<1>1. r \in InMemory(store) /\ store.runs[r] \in States
      BY DEF BackoffOver, InMemory, StoreOK, Fine, Sturdy, Stores, Slot
<1>2. PICK y : y = [store.runs[r] EXCEPT !.due = TRUE] OBVIOUS
<1>3. Steady(store.runs[r], y)
  <2>1. PICK t : t = store.runs[r] OBVIOUS
  <2>2. PICK d \in BOOLEAN : d = TRUE OBVIOUS
  <2>3. t \in States /\ y = [t EXCEPT !.due = d] BY <1>1, <1>2, <2>1, <2>2
  <2>4. y \in States /\ Same(t, y) BY <2>3, DueState
  <2> QED BY <2>1, <2>4 DEF Same, Steady, Ended, Resumable
<1>4. PICK x : x = [store EXCEPT !.runs[r] = y] OBVIOUS
<1>5. store' = x
  <2>1. store' = [store EXCEPT !.runs[r].due = TRUE] BY DEF BackoffOver
  <2> QED BY <1>2, <1>4, <2>1 DEF StoreOK, Fine, Sturdy, Stores
<1>6. Within(x, k) BY <1>1, <1>3, <1>4, AgedWithin
<1> QED BY <1>5, <1>6

(* What forgetting a run leaves; its checkpoint may have been saved first. *)
LEMMA ForgetWithin ==
    ASSUME NEW k, NEW w, Within(w, k), NEW r \in RunIds, NEW z \in Stores,
           z.runs = [w.runs EXCEPT ![r] = None], z.owner = w.owner,
           z.index = w.index, z.disk = w.disk, z.current \in k.currents,
           \A q \in RunIds \ {r} : z.queue[q] = w.queue[q],
           \/ z.queue[r] = w.queue[r]
           \/ w.runs[r] # None /\ z.queue[r].total = w.runs[r].total
    PROVE  Within(z, k)
<1>1. w \in Stores BY DEF Within
<1>2. \A q \in RunIds : z.runs[q] = IF q = r THEN None ELSE w.runs[q]
      BY <1>1 DEF Stores
<1>3. \A t \in Sessions : z.index[t] # None => k.owner[z.index[t]] = t BY DEF Within
<1>4. ASSUME NEW q \in RunIds
      PROVE  /\ z.runs[q]  # None => z.runs[q] \in k.states[q] /\ z.runs[q].total \in k.totals[q]
             /\ z.disk[q]  # None => z.disk[q].total \in k.totals[q]
             /\ z.queue[q] # None => z.queue[q].total \in k.totals[q]
      BY <1>2 DEF Within
<1> QED BY <1>3, <1>4 DEF Within

(* A session end writes a checkpoint and forgets the run.                  *)
LEMMA SessionEndWithin ==
    ASSUME StoreOK, NEW k, Open(k), Loose(k), NEW s \in Sessions, SessionEnd(s)
    PROVE  Within(store', k)
<1> DEFINE x == StateOf(s)
<1>1. PICK r : r = RunOf(s) OBVIOUS
<1>2. HasRun(s) BY DEF SessionEnd
<1>3. r \in RunIds /\ x = store.runs[r] /\ x # None /\ x \in States
      BY <1>1, <1>2, FoundRun DEF InMemory
<1>4. Within(store, k) /\ store \in Stores BY DEF Open, Within
<1>5. PICK c \in BOOLEAN : c = (x.status = "running") OBVIOUS
<1>6. PICK w : w = ReleaseIf(store, c) OBVIOUS
<1>7. Within(w, k) /\ w \in Stores BY <1>4, <1>6, ReleaseWithin DEF Within
<1>8. w.runs = store.runs /\ w.current = store.current
      BY <1>6, ReleaseFacts DEF StoreOK, Fine
<1>9. PICK v : v = IF x.orch \in {"done", "blocked"} THEN w ELSE Save(w, r, x) OBVIOUS
<1>10. PICK z : z = [v EXCEPT !.runs[r] = None, !.current[s] = None,
                             !.canary = v.canary \ {s}]
      OBVIOUS
<1>11. Become(z) BY <1>1, <1>5, <1>6, <1>9, <1>10 DEF SessionEnd
<1>12. Snapshot(x) \in Slot /\ Snapshot(x).total = x.total
       BY <1>3, SnapshotState DEF Slot, Same
<1>13. /\ v \in Stores /\ v.runs = w.runs /\ v.owner = w.owner /\ v.disk = w.disk
       /\ v.index = w.index /\ v.current = w.current
       /\ v.queue = w.queue \/ v.queue = [w.queue EXCEPT ![r] = Snapshot(x)]
  <2>1. CASE v = w BY <1>7, <2>1
  <2>2. CASE v = [w EXCEPT !.queue[r] = Snapshot(x)]
        BY <1>3, <1>7, <1>12, <2>2 DEF Stores
  <2> QED BY <1>9, <2>1, <2>2, StoreAssumption DEF Save
<1>14. /\ z \in Stores /\ z.runs = [v.runs EXCEPT ![r] = None] /\ z.owner = v.owner
       /\ z.disk = v.disk /\ z.index = v.index /\ z.queue = v.queue
       /\ z.current = [v.current EXCEPT ![s] = None]
       BY <1>3, <1>10, <1>13 DEF Stores, Slot
<1>15. z.current \in k.currents
  <2>1. store.current \in k.currents /\ store.current \in [Sessions -> RunIds \cup {None}]
        BY <1>4 DEF Within, Stores
  <2>2. PICK keys : keys = {s} OBVIOUS
  <2>3. z.current = [t \in Sessions |-> IF t \in keys THEN None ELSE store.current[t]]
        BY <1>8, <1>13, <1>14, <2>1, <2>2
  <2> QED BY <2>1, <2>3 DEF Loose
<1>16. /\ \A q \in RunIds \ {r} : z.queue[q] = w.queue[q]
       /\ \/ z.queue[r] = w.queue[r]
          \/ w.runs[r] # None /\ z.queue[r].total = w.runs[r].total
  <2>1. w.queue \in [RunIds -> Slot] BY <1>7 DEF Stores
  <2> QED BY <1>3, <1>8, <1>12, <1>13, <1>14, <2>1
<1> HIDE DEF x
<1>17. Within(z, k) BY <1>3, <1>7, <1>13, <1>14, <1>15, <1>16, ForgetWithin
<1> QED BY <1>11, <1>17, SettleWithin

(* The extension's cleanup forgets the run.                                *)
LEMMA ExtensionCleanupWithin ==
    ASSUME StoreOK, NEW k, Open(k), Loose(k), NEW s \in Sessions, ExtensionCleanup(s)
    PROVE  Within(store', k)
<1>1. PICK r : r = RunOf(s) OBVIOUS
<1>2. Within(store, k) /\ store \in Stores BY DEF Open, Within
<1>3. [store.current EXCEPT ![s] = None] \in k.currents
  <2>1. store.current \in k.currents /\ store.current \in [Sessions -> RunIds \cup {None}]
        BY <1>2 DEF Within, Stores
  <2>2. PICK keys : keys = {s} OBVIOUS
  <2>3. [store.current EXCEPT ![s] = None]
          = [t \in Sessions |-> IF t \in keys THEN None ELSE store.current[t]]
        BY <2>1, <2>2
  <2> QED BY <2>1, <2>3 DEF Loose
<1>4. CASE HasRun(s)
  <2>1. r \in RunIds BY <1>1, <1>4, FoundRun
  <2>2. PICK c \in BOOLEAN : c = (StateOf(s).status = "running") OBVIOUS
  <2>3. PICK v : v = ReleaseIf(store, c) OBVIOUS
  <2>4. PICK w : w = [v EXCEPT !.runs[r] = None] OBVIOUS
  <2>5. PICK z : z = [w EXCEPT !.current[s] = None, !.canary = w.canary \ {s}] OBVIOUS
  <2>6. store' = z
        BY <1>1, <1>4, <2>2, <2>3, <2>4, <2>5 DEF ExtensionCleanup
  <2>7. Within(v, k) /\ v \in Stores BY <1>2, <2>3, ReleaseWithin DEF Within
  <2>8. v.current = store.current BY <2>3, ReleaseFacts DEF StoreOK, Fine
  <2>9. /\ w \in Stores /\ w.runs = [v.runs EXCEPT ![r] = None] /\ w.owner = v.owner
        /\ w.disk = v.disk /\ w.queue = v.queue /\ w.index = v.index
        /\ w.current = v.current
        BY <2>1, <2>4, <2>7 DEF Stores, Slot
  <2>10. /\ z \in Stores /\ z.runs = w.runs /\ z.owner = w.owner
         /\ z.disk = w.disk /\ z.queue = w.queue /\ z.index = w.index
         /\ z.current = [w.current EXCEPT ![s] = None]
         BY <2>5, <2>9 DEF Stores
  <2>11. z.current \in k.currents BY <1>3, <2>8, <2>9, <2>10
  <2>12. Within(z, k) BY <2>1, <2>7, <2>9, <2>10, <2>11, ForgetWithin
  <2> QED BY <2>6, <2>12
<1>5. CASE ~HasRun(s)
  <2>1. PICK z : z = [store EXCEPT !.current[s] = None, !.canary = store.canary \ {s}]
        OBVIOUS
  <2>2. store' = z BY <1>5, <2>1 DEF ExtensionCleanup
  <2>3. /\ z \in Stores /\ z.runs = store.runs /\ z.owner = store.owner
        /\ z.disk = store.disk /\ z.queue = store.queue /\ z.index = store.index
        /\ z.current = [store.current EXCEPT ![s] = None]
        BY <1>2, <2>1 DEF Stores
  <2>4. Within(z, k) BY <1>2, <1>3, <2>3, PassiveWithin
  <2> QED BY <2>2, <2>4
<1> QED BY <1>4, <1>5

(* autopilot.cleanup forgets every run.                                    *)
LEMMA CleanupWithin ==
    ASSUME StoreOK, NEW k, Open(k), Loose(k), Cleanup
    PROVE  Within(store', k)
<1>1. Within(store, k) /\ store \in Stores BY DEF Open, Within
<1>2. PICK gone : gone = InMemory(store) OBVIOUS
<1>3. gone \in SUBSET RunIds BY <1>2 DEF InMemory
<1>4. PICK a : a = ReleaseAll(store, gone) OBVIOUS
<1>5. /\ a \in Stores /\ a.owner = store.owner
      /\ a.disk = store.disk /\ a.queue = store.queue
      BY <1>1, <1>3, <1>4, ReleaseAllFacts
<1>6. a.index = store.index BY <1>1, <1>4 DEF ReleaseAll, Stores
<1>7. PICK z : z = [a EXCEPT !.runs = [r \in RunIds |-> None],
                             !.current = [s \in Sessions |-> None],
                             !.canary = {}, !.armed = {}]
      OBVIOUS
<1>8. store' = z BY <1>2, <1>4, <1>7 DEF Cleanup
<1>9. /\ z \in Stores /\ z.runs = [r \in RunIds |-> None] /\ z.owner = store.owner
      /\ z.disk = store.disk /\ z.queue = store.queue /\ z.index = store.index
      /\ z.current = [s \in Sessions |-> None]
      BY <1>5, <1>6, <1>7 DEF Stores, Slot
<1>10. z.current \in k.currents
  <2>1. store.current \in k.currents BY <1>1 DEF Within
  <2>2. PICK keys : keys = Sessions OBVIOUS
  <2>3. z.current = [t \in Sessions |-> IF t \in keys THEN None ELSE store.current[t]]
        BY <1>9, <2>2
  <2> QED BY <2>1, <2>3 DEF Loose
<1>11. Within(z, k) BY <1>1, <1>9, <1>10 DEF Within
<1> QED BY <1>8, <1>11

(* What the patrol does to one run.                                        *)
LEMMA TickWithin ==
    ASSUME StoreOK, NEW k, Open(k), NEW r \in InMemory(store), NEW idle,
           NEW reason \in CapReasons, NEW a, a = Tick(store, r, idle, reason)
    PROVE  Within(a, k)
<1>1. PICK x : x = store.runs[r] OBVIOUS
<1>2. store \in Stores /\ r \in RunIds /\ x \in States /\ x # None
      BY <1>1 DEF StoreOK, Fine, Sturdy, Stores, Slot, InMemory
<1>3. Within(store, k) BY DEF Open
<1>4. PICK yes \in BOOLEAN : yes = TRUE OBVIOUS
<1>5. \A y : Steady(x, y) => Allowed(k, r, y) BY <1>1, <1>2 DEF Open
<1>6. PICK z : z = PauseRequested(x, "no_progress") OBVIOUS
<1>7. Allowed(k, r, z)
  <2>1. "no_progress" \in PauseReasons BY DEF PauseReasons
  <2>2. Steady(x, z) BY <1>2, <1>6, <2>1, EventsSteady
  <2> QED BY <1>5, <2>2
<1>8. PICK checked : checked = IF Active(x) /\ r \in idle THEN PauseIdle(store, r) ELSE store
      OBVIOUS
<1>9. PauseIdle(store, r) = ReleaseIf(Put(store, r, z), yes)
      BY <1>1, <1>4, <1>6 DEF PauseIdle, ReleaseIf
<1>10. PICK paused : paused = ReleaseIf(Put(store, r, z), yes) OBVIOUS
<1>11. Within(paused, k) BY <1>2, <1>3, <1>7, <1>10, PutWithin
<1>12. Within(checked, k) BY <1>3, <1>8, <1>9, <1>10, <1>11
<1>13. CASE Capped(r, x)
  <2>1. a = EnforceCap(store, r, reason) BY <1>1, <1>13 DEF Tick
  <2>2. CASE Producing(x) /\ r \notin store.armed
    <3>1. PICK armed : armed = store.armed \cup {r} OBVIOUS
    <3>2. armed \in SUBSET RunIds BY <1>2, <3>1 DEF Stores
    <3>3. a = [store EXCEPT !.armed = armed] BY <1>1, <2>1, <2>2, <3>1 DEF EnforceCap
    <3>4. /\ a \in Stores /\ a.runs = store.runs /\ a.owner = store.owner
          /\ a.index = store.index /\ a.disk = store.disk /\ a.queue = store.queue
          /\ a.current = store.current
          BY <1>2, <3>2, <3>3 DEF Stores
    <3>5. a.current \in k.currents BY <1>3, <3>4 DEF Within
    <3> QED BY <1>3, <3>4, <3>5, PassiveWithin
  <2>3. CASE ~(Producing(x) /\ r \notin store.armed)
    <3>1. PICK y : y = HardStopRequested(x, reason) OBVIOUS
    <3>2. Steady(x, y) BY <1>2, <3>1, EventsSteady
    <3>3. PICK p : p = ReleaseIf(Put(store, r, y), yes) OBVIOUS
    <3>4. Within(p, k) BY <1>2, <1>3, <1>5, <3>2, <3>3, PutWithin
    <3>5. PICK armed : armed = p.armed \ {r} OBVIOUS
    <3>6. p \in Stores BY <3>4 DEF Within
    <3>7. armed \in SUBSET RunIds BY <3>5, <3>6 DEF Stores
    <3>8. a = [p EXCEPT !.armed = armed]
          BY <1>1, <1>4, <2>1, <2>3, <3>1, <3>3, <3>5 DEF EnforceCap, ReleaseIf
    <3>9. /\ a \in Stores /\ a.runs = p.runs /\ a.owner = p.owner
          /\ a.index = p.index /\ a.disk = p.disk /\ a.queue = p.queue
          /\ a.current = p.current
          BY <3>6, <3>7, <3>8 DEF Stores
    <3>10. a.current \in k.currents BY <3>4, <3>9 DEF Within
    <3> QED BY <3>4, <3>9, <3>10, PassiveWithin
  <2> QED BY <2>2, <2>3
<1>14. CASE ~Capped(r, x) /\ Stalled(x)
  <2>1. a = StallOut(store, r) BY <1>1, <1>14 DEF Tick
  <2>2. PICK y : y = StallTimeout(x) OBVIOUS
  <2>3. Steady(x, y) BY <1>2, <2>2, EventsSteady
  <2>4. PICK c \in BOOLEAN : c = (y.orch = "blocked") OBVIOUS
  <2>5. a = ReleaseIf(Put(store, r, y), c) BY <1>1, <2>1, <2>2, <2>4 DEF StallOut
  <2> QED BY <1>2, <1>3, <1>5, <2>3, <2>5, PutWithin
<1>15. CASE ~Capped(r, x) /\ ~Stalled(x) /\ DueForRetry(x)
  <2>1. PICK y : y = RetryDue(x) OBVIOUS
  <2>2. a = Put(checked, r, y) BY <1>1, <1>8, <1>15, <2>1 DEF Tick
  <2>3. Steady(x, y) BY <1>2, <2>1, EventsSteady
  <2> QED BY <1>2, <1>5, <1>12, <2>2, <2>3, PlainWithin
<1>16. CASE ~Capped(r, x) /\ ~Stalled(x) /\ ~DueForRetry(x)
  <2>1. a = checked BY <1>1, <1>8, <1>16 DEF Tick
  <2> QED BY <1>12, <2>1
<1> QED BY <1>13, <1>14, <1>15, <1>16

(* What one tick does to all of them.                                      *)
LEMMA TickedWithin ==
    ASSUME StoreOK, NEW k, Open(k), NEW idle, NEW reason \in CapReasons,
           NEW after, after = [r \in InMemory(store) |-> Tick(store, r, idle, reason)],
           NEW x, x = Ticked(after)
    PROVE  Within(x, k) /\ x.current = store.current
<1> DEFINE found == InMemory(store)
           released == {r \in found : after[r].audit # store.audit}
           runs == [r \in RunIds |-> IF r \in found THEN after[r].runs[r] ELSE None]
           disk == [r \in RunIds |-> IF r \in found THEN after[r].disk[r] ELSE store.disk[r]]
           queue == [r \in RunIds |-> IF r \in found THEN after[r].queue[r]
                                     ELSE store.queue[r]]
           index == [s \in Sessions |->
                       IF \E r \in found : after[r].index[s] = None THEN None
                       ELSE store.index[s]]
           armed == {r \in RunIds : r \in (IF r \in found THEN after[r].armed
                                          ELSE store.armed)}
           audit == Max({AuditFloor, store.audit - Cardinality(released)})
<1>1. Within(store, k) /\ store \in Stores BY DEF Open, Within
<1>2. x \in Stores BY TickedIsFine DEF Fine, Sturdy
<1>3. x = [store EXCEPT !.runs = runs, !.disk = disk, !.queue = queue, !.index = index,
                        !.armed = armed, !.audit = audit]
      BY DEF Ticked
<1>4. \A r \in found : Within(after[r], k)
  <2> SUFFICES ASSUME NEW r \in found PROVE Within(after[r], k) OBVIOUS
  <2>1. PICK a : a = Tick(store, r, idle, reason) OBVIOUS
  <2>2. Within(a, k) BY <2>1, TickWithin
  <2> QED BY <2>1, <2>2
<1> HIDE DEF released, armed, audit
<1>5. /\ x.runs = runs /\ x.owner = store.owner /\ x.disk = disk /\ x.queue = queue
      /\ x.index = index /\ x.current = store.current
  <2> HIDE DEF runs, disk, queue, index
  <2> QED BY <1>1, <1>3 DEF Stores
<1>6. \A t \in Sessions : x.index[t] # None => k.owner[x.index[t]] = t
      BY <1>1, <1>5 DEF Within
<1>7. ASSUME NEW q \in RunIds
      PROVE  /\ x.runs[q]  # None => x.runs[q] \in k.states[q] /\ x.runs[q].total \in k.totals[q]
             /\ x.disk[q]  # None => x.disk[q].total \in k.totals[q]
             /\ x.queue[q] # None => x.queue[q].total \in k.totals[q]
  <2>1. CASE q \in found
    <3>1. Within(after[q], k) BY <1>4, <2>1
    <3>2. x.runs[q] = after[q].runs[q] /\ x.disk[q] = after[q].disk[q]
          /\ x.queue[q] = after[q].queue[q]
          BY <1>5, <2>1
    <3> QED BY <3>1, <3>2 DEF Within
  <2>2. CASE q \notin found
    <3>1. x.runs[q] = None /\ x.disk[q] = store.disk[q] /\ x.queue[q] = store.queue[q]
          BY <1>5, <2>2
    <3> QED BY <1>1, <3>1 DEF Within
  <2> QED BY <2>1, <2>2
<1>8. x.owner = k.owner /\ x.current \in k.currents BY <1>1, <1>5 DEF Within
<1> HIDE DEF runs, disk, queue, index, found
<1> QED BY <1>2, <1>5, <1>6, <1>7, <1>8 DEF Within

(* The patrol ticks every run and forgets the orphans.                     *)
LEMMA PatrolWithin ==
    ASSUME StoreOK, NEW k, Open(k), Loose(k), Patrol
    PROVE  Within(store', k)
<1>1. PICK idle \in SUBSET Continued, reason \in CapReason :
         \E after \in {[r \in InMemory(store) |-> Tick(store, r, idle, reason)]} :
         \E w \in {Ticked(after)} : \E x \in {Sweep(w, Orphans)} : Become(x)
      BY DEF Patrol
<1>2. reason \in CapReasons
      BY <1>1, AutopilotAssumption DEF CapReason, CapReasons
<1>3. PICK after : after = [r \in InMemory(store) |-> Tick(store, r, idle, reason)]
       OBVIOUS
<1>4. PICK x : x = Ticked(after) OBVIOUS
<1>5. Within(x, k) BY <1>2, <1>3, <1>4, TickedWithin
<1>6. PICK gone : gone = Orphans OBVIOUS
<1>7. gone \in SUBSET RunIds BY <1>6 DEF Orphans, InMemory
<1>8. PICK z : z = Sweep(x, gone) OBVIOUS
<1>9. Within(z, k) BY <1>5, <1>7, <1>8, SweepWithin
<1>10. Become(z) BY <1>1, <1>3, <1>4, <1>6, <1>8
<1> QED BY <1>9, <1>10, SettleWithin

(* All the actions that write nothing but steady states.                   *)
Plain ==
    \/ \E s \in Sessions : \/ ResumePaused(s) \/ ResumeRun(s) \/ Stop(s) \/ SetGoal(s)
                           \/ TurnPrepare(s) \/ Activity(s) \/ FinalizeNoRun(s)
    \/ \E r \in RunIds : Quiet(r) \/ BackoffOver(r) \/ CapExceeded(r)
    \/ UNCHANGED vars

Forgetting ==
    \/ \E s \in Sessions : SessionEnd(s) \/ ExtensionCleanup(s)
    \/ Cleanup \/ Patrol

(* The actions that write steady states only.                              *)
LEMMA PlainStaysWithin ==
    ASSUME StoreOK, NEW k, Open(k), Plain
    PROVE  Within(store', k)
<1>1. CASE UNCHANGED store BY <1>1 DEF Open
<1>2. ASSUME NEW s \in Sessions,
             \/ ResumePaused(s) \/ ResumeRun(s) \/ Stop(s) \/ SetGoal(s)
             \/ TurnPrepare(s) \/ Activity(s) \/ FinalizeNoRun(s)
      PROVE  Within(store', k)
  <2>1. CASE ResumeRun(s) BY <1>1, <2>1 DEF ResumeRun
  <2> QED BY <1>2, <2>1, ResumePausedWithin, StopWithin, SetGoalWithin, TurnPrepareWithin,
             ActivityWithin, FinalizeNoRunWithin
<1>3. ASSUME NEW r \in RunIds, Quiet(r) \/ BackoffOver(r) \/ CapExceeded(r)
      PROVE  Within(store', k)
  <2>1. CASE CapExceeded(r) BY <1>1, <2>1 DEF CapExceeded
  <2> QED BY <1>3, <2>1, QuietWithin, BackoffOverWithin
<1> QED BY <1>1, <1>2, <1>3 DEF Plain, vars

(* The actions that forget runs besides.                                   *)
LEMMA ForgettingStaysWithin ==
    ASSUME StoreOK, NEW k, Open(k), Loose(k), Forgetting
    PROVE  Within(store', k)
BY SessionEndWithin, ExtensionCleanupWithin, CleanupWithin, PatrolWithin DEF Forgetting
-----------------------------------------------------------------------------
(* The continuation budget, and the early-completion guard above it.       *)
Cap == Max({MaxTotal, MinTurns})

(* The cap is the larger of the two limits.                                *)
LEMMA CapIsLargest == Cap \in Nat /\ MaxTotal <= Cap /\ MinTurns <= Cap
<1>1. MaxTotal \in Nat /\ MinTurns \in Nat BY AutopilotAssumption
<1>2. Cap = IF MaxTotal >= MinTurns THEN MaxTotal ELSE MinTurns
      BY <1>1, MaxOfTwo DEF Cap
<1> QED BY <1>1, <1>2

(* A turn is only counted below the budget.                                *)
LEMMA DecideCounts ==
    ASSUME NEW x \in States, NEW signal
    PROVE  /\ Decide(x, signal) \in {"revise", "cross_turn", "complete"} => x.status = "running"
           /\ Decide(x, signal) = "revise" => x.total < Cap
           /\ Decide(x, signal) = "cross_turn" => x.total < MaxTotal
<1>1. x.total \in Nat /\ MaxTotal \in Nat /\ MinTurns \in Nat
      BY AutopilotAssumption DEF States, Run
<1>2. "revise" \notin PauseReasons /\ "cross_turn" \notin PauseReasons
      BY DEF PauseReasons
<1>3. /\ Decide(x, signal) = "revise" => x.total < MinTurns \/ ~BudgetSpent(x)
      /\ Decide(x, signal) = "cross_turn" => ~BudgetSpent(x)
      BY <1>2 DEF Decide
<1>4. Decide(x, signal) \in {"revise", "cross_turn", "complete"} => x.status = "running"
      BY DEF Decide
<1> QED BY <1>1, <1>3, <1>4, CapIsLargest DEF BudgetSpent

(* A running run has not ended.                                            *)
LEMMA RunningIsNotEnded ==
    ASSUME NEW x \in States, x.status = "running"
    PROVE  ~Ended(x)
BY RunningIsActive DEF Ended, ActiveStates, Resumable

(* The judgement of a running state counts nothing.                        *)
LEMMA JudgedSteady ==
    ASSUME NEW x \in Alive, NEW verdict \in Verdict
    PROVE  Steady(x, Judged(x, verdict))
<1>1. verdict \in Verdicts BY DEF Verdict, Verdicts
<1>2. x \in States /\ ~Ended(x) BY RunningIsNotEnded DEF Alive
<1> QED BY <1>1, <1>2, JudgedState, JudgedTotal DEF Steady

(* One more continuation of the run of s may be written within k.          *)
Counting(k, s) ==
    \A y \in States :
        StateOf(s).status = "running" /\ StateOf(s).total < Cap
          /\ y.total = StateOf(s).total + 1 => Allowed(k, RunOf(s), y)

(* A hook handler is suspended with the run as it is.                      *)
Suspends(s) ==
    \E at \in HookAts, x \in Alive :
       /\ hook' = [hook EXCEPT ![s] = Suspended(at, RunOf(s), x)]
       /\ store'.runs[RunOf(s)] # None /\ store'.runs[RunOf(s)].orch \in ActiveStates
       /\ store'.runs[RunOf(s)].total = x.total
       /\ at # "validation" => x.total < MaxTotal

(* The judgement is written only to a run that is in memory.               *)
LEMMA CompleteWithin ==
    ASSUME NEW k, NEW w, Within(w, k), NEW r \in RunIds, NEW x \in Alive,
           NEW verdict \in Verdict, Allowed(k, r, Judged(x, verdict)),
           NEW p, p = Complete(w, r, x, verdict)
    PROVE  Within(p, k)
<1>1. PICK y : y = Judged(x, verdict) OBVIOUS
<1>2. PICK c \in BOOLEAN : c = (y.status # "running") OBVIOUS
<1>3. PICK q : q = ReleaseIf(Put(w, r, y), c) OBVIOUS
<1>4. p = w \/ p = q BY <1>1, <1>2, <1>3 DEF Complete
<1>5. Within(q, k) BY <1>1, <1>3, PutWithin
<1> QED BY <1>4, <1>5

(* before_agent_finalize up to its await.                                  *)
LEMMA FinalizeWithin ==
    ASSUME StoreOK, NEW k, Open(k), NEW s \in Sessions, Counting(k, s),
           NEW signal, Finalize(s, signal)
    PROVE  Within(store', k) /\ (UNCHANGED hook \/ Suspends(s))
<1>1. HasRun(s) BY DEF Finalize
<1>2. PICK r : r = RunOf(s) OBVIOUS
<1>3. PICK fired : fired = [store EXCEPT !.canary = @ \cup {s}] OBVIOUS
<1>4. PICK z : z = StateOf(s) OBVIOUS
<1>5. PICK x : x = IF z.needs THEN CrossTurnResumeConsumed(z) ELSE z OBVIOUS
<1>6. PICK w : w = IF z.needs THEN Put(fired, r, x) ELSE fired OBVIOUS
<1>7. r \in RunIds /\ z \in States /\ z = store.runs[r] /\ z # None
      BY <1>1, <1>2, <1>4, FoundRun DEF InMemory
<1>8. Within(store, k) /\ store \in Stores BY DEF Open, Within
<1>9. Steady(z, x) /\ x.orch = z.orch BY <1>5, <1>7, EventsSteady, StaysActive
<1>10. x \in States /\ x.total = z.total /\ (x.status = "running" <=> z.status = "running")
       BY <1>7, <1>9, RunningIsActive DEF Steady
<1>11. \A y : Steady(x, y) => Allowed(k, r, y)
       BY <1>1, <1>2, <1>4, <1>9, SteadyTwice, MayWrite
<1>12. \A y \in States : x.status = "running" /\ x.total < Cap /\ y.total = x.total + 1
                           => Allowed(k, r, y)
       BY <1>2, <1>4, <1>10 DEF Counting
<1>13. /\ fired \in Stores /\ fired.runs = store.runs /\ fired.owner = store.owner
       /\ fired.disk = store.disk /\ fired.queue = store.queue
       /\ fired.index = store.index /\ fired.current = store.current
       BY <1>3, <1>8 DEF Stores
<1>14. Within(fired, k)
  <2>1. fired.current \in k.currents BY <1>8, <1>13 DEF Within
  <2> QED BY <1>8, <1>13, <2>1, PassiveWithin
<1>15. Within(w, k) /\ w.runs[r] = x
  <2>1. CASE z.needs
    <3>1. Allowed(k, r, x) BY <1>7, <1>9, <1>10, <1>11, EventsSteady
    <3>2. w = Put(fired, r, x) BY <1>6, <2>1
    <3>3. Within(w, k) BY <1>7, <1>14, <3>1, <3>2, PlainWithin
    <3>4. PICK y : y = [fired EXCEPT !.runs[r] = x] OBVIOUS
    <3>5. y \in Stores /\ y.runs[r] = x BY <1>7, <1>10, <1>13, <3>4 DEF Stores, Slot
    <3>6. PICK changed \in BOOLEAN : changed = ShouldCheckpoint(fired.runs[r], x)
          BY DEF ShouldCheckpoint
    <3>7. w = Persist(y, r, x, changed) BY <3>2, <3>4, <3>6 DEF Put
    <3>8. w.runs = y.runs BY <1>7, <1>10, <3>5, <3>7, PersistFacts
    <3> QED BY <3>3, <3>5, <3>8
  <2>2. CASE ~z.needs BY <1>5, <1>6, <1>7, <1>13, <1>14, <2>2
  <2> QED BY <2>1, <2>2
<1>16. Become(w) => Within(store', k) /\ store'.runs = w.runs
  <2>1. PICK f : f = Flush(w) OBVIOUS
  <2>2. w \in Stores BY <1>15 DEF Within
  <2>3. f.runs = w.runs BY <2>1, <2>2, FlushFacts
  <2> QED BY <1>15, <2>1, <2>3, SettleWithin DEF Become
<1>17. PICK decision : decision = Decide(x, signal) OBVIOUS
<1>18. \/ decision = "finalize" /\ Become(w) /\ UNCHANGED hook
       \/ /\ decision = "revise"
          /\ Become(Put(w, r, IncrementTotal(IncrementTurn(x)))) /\ UNCHANGED hook
       \/ /\ decision \in PauseReasons
          /\ Become(Release(Put(w, r, PauseRequested(x, decision)))) /\ UNCHANGED hook
       \/ /\ decision = "cross_turn"
          /\ hook' = [hook EXCEPT ![s] = Suspended("cross_turn", r, x)] /\ Become(w)
       \/ /\ decision = "cross_turn"
          /\ Become(Put(w, r, CrossTurnFallback(x))) /\ UNCHANGED hook
       \/ /\ decision = "complete"
          /\ hook' = [hook EXCEPT ![s] = Suspended("validation", r, x)] /\ Become(w)
       \/ /\ decision = "complete"
          /\ \E verdict \in Verdict : Become(Complete(w, r, x, verdict))
          /\ UNCHANGED hook
       BY <1>2, <1>3, <1>4, <1>5, <1>6, <1>17 DEF Finalize
<1>19. /\ decision \in {"revise", "cross_turn", "complete"} => x.status = "running"
       /\ decision = "revise" => x.total < Cap
       /\ decision = "cross_turn" => x.total < MaxTotal
       BY <1>10, <1>17, DecideCounts
<1>20. CASE decision = "finalize" /\ Become(w) /\ UNCHANGED hook BY <1>16, <1>20
<1>21. CASE /\ decision = "revise"
            /\ Become(Put(w, r, IncrementTotal(IncrementTurn(x)))) /\ UNCHANGED hook
  <2>1. PICK y : y = IncrementTotal(IncrementTurn(x)) OBVIOUS
  <2>2. y \in States /\ y.total = x.total + 1 BY <1>10, <2>1, FlagStates, CountTotals
  <2>3. Allowed(k, r, y) BY <1>12, <1>19, <1>21, <2>2
  <2>4. PICK p : p = Put(w, r, y) OBVIOUS
  <2>5. Within(p, k) BY <1>7, <1>15, <2>3, <2>4, PlainWithin
  <2>6. Become(p) BY <1>21, <2>1, <2>4
  <2> QED BY <1>21, <2>5, <2>6, SettleWithin
<1>22. CASE /\ decision \in PauseReasons
            /\ Become(Release(Put(w, r, PauseRequested(x, decision)))) /\ UNCHANGED hook
  <2>1. PICK y : y = PauseRequested(x, decision) OBVIOUS
  <2>2. Allowed(k, r, y) BY <1>10, <1>11, <1>22, <2>1, EventsSteady
  <2>3. PICK c \in BOOLEAN : c = TRUE OBVIOUS
  <2>4. PICK p : p = ReleaseIf(Put(w, r, y), c) OBVIOUS
  <2>5. Within(p, k) BY <1>7, <1>15, <2>2, <2>4, PutWithin
  <2>6. Become(p) BY <1>22, <2>1, <2>3, <2>4 DEF ReleaseIf
  <2> QED BY <1>22, <2>5, <2>6, SettleWithin
<1>23. ASSUME NEW at \in HookAts, at = "validation" \/ decision = "cross_turn",
              decision \in {"cross_turn", "complete"},
              hook' = [hook EXCEPT ![s] = Suspended(at, r, x)], Become(w)
       PROVE  Within(store', k) /\ Suspends(s)
  <2>1. x \in Alive BY <1>10, <1>19, <1>23 DEF Alive
  <2>2. store'.runs[r] = x BY <1>15, <1>16, <1>23
  <2>3. x.orch \in ActiveStates /\ x # None
        BY <1>10, <2>1, RunningIsActive, NoneIsNoState DEF Alive
  <2>4. at # "validation" => x.total < MaxTotal BY <1>19, <1>23
  <2>5. Suspends(s) BY <1>2, <1>23, <2>1, <2>2, <2>3, <2>4 DEF Suspends
  <2> QED BY <1>16, <1>23, <2>5
<1>24. CASE /\ decision = "cross_turn"
            /\ hook' = [hook EXCEPT ![s] = Suspended("cross_turn", r, x)] /\ Become(w)
       BY <1>23, <1>24 DEF HookAts
<1>25. CASE /\ decision = "cross_turn"
            /\ Become(Put(w, r, CrossTurnFallback(x))) /\ UNCHANGED hook
  <2>1. PICK y : y = CrossTurnFallback(x) OBVIOUS
  <2>2. y \in States /\ y.total = x.total + 1 BY <1>10, <2>1, CountStates, CountTotals
  <2>3. x.total < Cap
        BY <1>10, <1>19, <1>25, CapIsLargest, AutopilotAssumption DEF States, Run
  <2>4. Allowed(k, r, y) BY <1>12, <1>19, <1>25, <2>2, <2>3
  <2>5. PICK p : p = Put(w, r, y) OBVIOUS
  <2>6. Within(p, k) BY <1>7, <1>15, <2>4, <2>5, PlainWithin
  <2>7. Become(p) BY <1>25, <2>1, <2>5
  <2> QED BY <1>25, <2>6, <2>7, SettleWithin
<1>26. CASE /\ decision = "complete"
            /\ hook' = [hook EXCEPT ![s] = Suspended("validation", r, x)] /\ Become(w)
       BY <1>23, <1>26 DEF HookAts
<1>27. CASE /\ decision = "complete"
            /\ \E verdict \in Verdict : Become(Complete(w, r, x, verdict))
            /\ UNCHANGED hook
  <2>1. x \in Alive BY <1>10, <1>19, <1>27 DEF Alive
  <2>2. PICK verdict \in Verdict : Become(Complete(w, r, x, verdict)) BY <1>27
  <2>3. Allowed(k, r, Judged(x, verdict)) BY <1>11, <2>1, JudgedSteady
  <2>4. PICK p : p = Complete(w, r, x, verdict) OBVIOUS
  <2>5. Within(p, k) BY <1>7, <1>15, <2>1, <2>3, <2>4, CompleteWithin
  <2>6. Become(p) BY <2>2, <2>4
  <2> QED BY <1>27, <2>5, <2>6, SettleWithin
<1> QED BY <1>18, <1>20, <1>21, <1>22, <1>24, <1>25, <1>26, <1>27

(* agent_end of a turn without its finalize.                               *)
LEMMA AgentEndDegradedWithin ==
    ASSUME StoreOK, NEW k, Open(k), NEW s \in Sessions, HasRun(s), Counting(k, s),
           NEW w, Within(w, k), w.runs = store.runs, AgentEndDegraded(s, w)
    PROVE  Within(store', k) /\ (UNCHANGED hook \/ Suspends(s))
<1>1. PICK r : r = RunOf(s) OBVIOUS
<1>2. PICK x : x = StateOf(s) OBVIOUS
<1>3. r \in RunIds /\ x \in States /\ x = store.runs[r] /\ x # None
      BY <1>1, <1>2, FoundRun DEF InMemory
<1>4. PICK marked : marked = DegradationMarked(x) OBVIOUS
<1>5. PICK paused : paused = PauseRequested(marked, "max_total_reached") OBVIOUS
<1>6. Steady(x, marked) /\ marked.orch = x.orch BY <1>3, <1>4, EventsSteady, StaysActive
<1>7. marked \in States /\ marked.total = x.total BY <1>6 DEF Steady
<1>8. \A y : Steady(marked, y) => Allowed(k, r, y)
      BY <1>1, <1>2, <1>6, SteadyTwice, MayWrite
<1>9. \/ /\ x.status = "running"
         /\ Become(ReleaseIf(Put(w, r, paused), paused # marked)) /\ UNCHANGED hook
      \/ /\ x.status = "running" /\ ~BudgetSpent(x)
         /\ hook' = [hook EXCEPT ![s] = Suspended("degraded", r, marked)] /\ Become(w)
      \/ /\ x.status = "running" /\ ~BudgetSpent(x)
         /\ Become(Put(w, r, CrossTurnDegradedSilent(x))) /\ UNCHANGED hook
      \/ Become(w) /\ UNCHANGED hook
      BY <1>1, <1>2, <1>4, <1>5 DEF AgentEndDegraded
<1>10. x.total \in Nat /\ MaxTotal \in Nat BY <1>3, AutopilotAssumption DEF States, Run
<1>11. ~BudgetSpent(x) => x.total < MaxTotal BY <1>10 DEF BudgetSpent
<1>12. CASE /\ x.status = "running"
            /\ Become(ReleaseIf(Put(w, r, paused), paused # marked)) /\ UNCHANGED hook
  <2>1. "max_total_reached" \in PauseReasons BY DEF PauseReasons
  <2>2. Allowed(k, r, paused) BY <1>5, <1>7, <1>8, <2>1, EventsSteady
  <2>3. PICK c \in BOOLEAN : c = (paused # marked) OBVIOUS
  <2>4. PICK p : p = ReleaseIf(Put(w, r, paused), c) OBVIOUS
  <2>5. Within(p, k) BY <1>3, <2>2, <2>4, PutWithin
  <2>6. Become(p) BY <1>12, <2>3, <2>4
  <2> QED BY <1>12, <2>5, <2>6, SettleWithin
<1>13. CASE /\ x.status = "running" /\ ~BudgetSpent(x)
            /\ hook' = [hook EXCEPT ![s] = Suspended("degraded", r, marked)] /\ Become(w)
  <2>1. marked \in Alive /\ x.orch \in ActiveStates
        BY <1>3, <1>6, <1>7, <1>13, RunningIsActive DEF Alive
  <2>2. "degraded" \in HookAts BY DEF HookAts
  <2>3. PICK f : f = Flush(w) OBVIOUS
  <2>4. w \in Stores BY DEF Within
  <2>5. f.runs = w.runs BY <2>3, <2>4, FlushFacts
  <2>6. store'.runs = store.runs BY <1>13, <2>3, <2>5 DEF Become
  <2>7. store'.runs[r] = x BY <1>3, <2>6
  <2>8. Suspends(s)
        BY <1>1, <1>3, <1>7, <1>11, <1>13, <2>1, <2>2, <2>7 DEF Suspends
  <2> QED BY <1>13, <2>8, SettleWithin
<1>14. CASE /\ x.status = "running" /\ ~BudgetSpent(x)
            /\ Become(Put(w, r, CrossTurnDegradedSilent(x))) /\ UNCHANGED hook
  <2>1. PICK y : y = CrossTurnDegradedSilent(x) OBVIOUS
  <2>2. y \in States /\ y.total \in {x.total, x.total + 1}
        BY <1>3, <2>1, FlagStates, CountTotals
  <2>3. x.total < Cap BY <1>10, <1>11, <1>14, CapIsLargest
  <2>4. Allowed(k, r, y)
    <3>1. CASE y.total = x.total + 1
          BY <1>1, <1>2, <1>14, <2>2, <2>3, <3>1 DEF Counting
    <3>2. CASE y.total = x.total
      <4>1. Steady(x, y) BY <1>3, <1>14, <2>2, <3>2, RunningIsNotEnded DEF Steady
      <4> QED BY <1>1, <1>2, <4>1, MayWrite
    <3> QED BY <2>2, <3>1, <3>2
  <2>5. PICK p : p = Put(w, r, y) OBVIOUS
  <2>6. Within(p, k) BY <1>3, <2>4, <2>5, PlainWithin
  <2>7. Become(p) BY <1>14, <2>1, <2>5
  <2> QED BY <1>14, <2>6, <2>7, SettleWithin
<1>15. CASE Become(w) /\ UNCHANGED hook BY <1>15, SettleWithin
<1> QED BY <1>9, <1>12, <1>13, <1>14, <1>15

(* agent_end of a finalized turn.                                          *)
LEMMA AgentEndNormalWithin ==
    ASSUME StoreOK, NEW k, Open(k), NEW s \in Sessions, HasRun(s),
           NEW w, Within(w, k), NEW outcome \in Outcomes \cup {"circuit_breaker"},
           AgentEndNormal(s, w, outcome)
    PROVE  Within(store', k) /\ UNCHANGED hook
<1>1. PICK r : r = RunOf(s) OBVIOUS
<1>2. PICK x : x = StateOf(s) OBVIOUS
<1>3. r \in RunIds /\ x \in States BY <1>1, <1>2, FoundRun
<1>4. PICK broken \in BOOLEAN : broken = (outcome = "circuit_breaker") OBVIOUS
<1>5. PICK b : b = IF broken THEN PauseRequested(x, "loop_breaker_triggered") ELSE x
      OBVIOUS
<1>6. PICK result : result = IF broken THEN "unrecoverable_error" ELSE outcome OBVIOUS
<1>7. PICK d : d = DegradationCleared(b) OBVIOUS
<1>8. PICK t : t = ResetTurnAttempts(d) OBVIOUS
<1>9. PICK y : y = AgentTurnFinished(t, result) OBVIOUS
<1>10. Steady(x, b)
  <2>1. "loop_breaker_triggered" \in PauseReasons BY DEF PauseReasons
  <2> QED BY <1>3, <1>5, <2>1, EventsSteady
<1>11. result \in TurnOutcomes
  <2>1. "unrecoverable_error" \in TurnOutcomes
        BY DEF TurnOutcomes, UnrecoverableErrors, BlockedReasons
  <2> QED BY <1>4, <1>6, <2>1, AutopilotAssumption
<1>12. Steady(b, d)
  <2>1. b \in States BY <1>10 DEF Steady
  <2> QED BY <1>7, <2>1, EventsSteady
<1>13. Steady(d, t)
  <2>1. d \in States BY <1>12 DEF Steady
  <2> QED BY <1>8, <2>1, EventsSteady
<1>14. Steady(t, y)
  <2>1. t \in States BY <1>13 DEF Steady
  <2> QED BY <1>9, <1>11, <2>1, EventsSteady
<1>15. Steady(x, y)
  <2>1. Steady(x, d) BY <1>10, <1>12, SteadyTwice
  <2>2. Steady(x, t) BY <1>13, <2>1, SteadyTwice
  <2> QED BY <1>14, <2>2, SteadyTwice
<1>16. Allowed(k, r, y) BY <1>1, <1>2, <1>15, MayWrite
<1>17. PICK c \in BOOLEAN : c = (y.orch \in {"blocked", "done"})
  <2>1. (y.orch \in {"blocked", "done"}) \in BOOLEAN OBVIOUS
  <2> QED BY <2>1
<1>18. PICK p : p = ReleaseIf(Put(w, r, y), c) OBVIOUS
<1>19. Within(p, k) BY <1>3, <1>16, <1>18, PutWithin
<1>20. Become(p) /\ UNCHANGED hook
       BY <1>1, <1>2, <1>4, <1>5, <1>6, <1>7, <1>8, <1>9, <1>17, <1>18 DEF AgentEndNormal
<1> QED BY <1>19, <1>20, SettleWithin

(* agent_end up to its await.                                              *)
LEMMA AgentEndWithin ==
    ASSUME StoreOK, NEW k, Open(k), NEW s \in Sessions, HasRun(s) => Counting(k, s),
           AgentEnd(s)
    PROVE  Within(store', k) /\ (UNCHANGED hook \/ (HasRun(s) /\ Suspends(s)))
<1>1. CASE ~Enabled(s)
  <2>1. UNCHANGED <<store, hook>> BY <1>1 DEF AgentEnd
  <2> QED BY <2>1 DEF Open
<1>2. CASE Enabled(s)
  <2>1. HasRun(s) BY <1>2 DEF Enabled
  <2>2. PICK progressed \in BOOLEAN :
          LET w == [IF progressed THEN Rewrite(store, RunOf(s), StateOf(s)) ELSE store
                      EXCEPT !.canary = @ \ {s}]
          IN  IF s \notin store.canary THEN AgentEndDegraded(s, w)
              ELSE \E outcome \in Outcomes \cup {"circuit_breaker"} :
                      AgentEndNormal(s, w, outcome)
        BY <1>2 DEF AgentEnd
  <2>3. PICK v : v = IF progressed THEN Rewrite(store, RunOf(s), StateOf(s)) ELSE store
        OBVIOUS
  <2>4. v.runs = store.runs
        BY <2>1, <2>3, FoundRun, SelfGrows, RewriteIsFine
  <2>5. Within(v, k)
    <3>1. Within(store, k) BY DEF Open
    <3>2. Steady(StateOf(s), StateOf(s)) BY <2>1, FoundRun, EventsSteady
    <3>3. RunOf(s) \in RunIds /\ Allowed(k, RunOf(s), StateOf(s))
          BY <2>1, <3>2, FoundRun, MayWrite
    <3>4. PICK rewritten : rewritten = Rewrite(store, RunOf(s), StateOf(s)) OBVIOUS
    <3>5. Within(rewritten, k) BY <3>1, <3>3, <3>4, PlainWithin
    <3> QED BY <2>3, <3>1, <3>4, <3>5
  <2>6. v \in Stores /\ v.current \in k.currents BY <2>5 DEF Within
  <2>7. PICK w : w = [v EXCEPT !.canary = v.canary \ {s}] OBVIOUS
  <2>8. /\ w \in Stores /\ w.runs = v.runs /\ w.owner = v.owner /\ w.index = v.index
        /\ w.disk = v.disk /\ w.queue = v.queue /\ w.current = v.current
        BY <2>6, <2>7 DEF Stores
  <2>9. Within(w, k) BY <2>5, <2>6, <2>8, PassiveWithin
  <2>10. \/ AgentEndDegraded(s, w)
         \/ \E outcome \in Outcomes \cup {"circuit_breaker"} :
               AgentEndNormal(s, w, outcome)
         BY <2>2, <2>3, <2>7
  <2>11. w.runs = store.runs BY <2>4, <2>8
  <2>12. CASE AgentEndDegraded(s, w)
         BY <2>1, <2>9, <2>11, <2>12, AgentEndDegradedWithin
  <2>13. CASE \E outcome \in Outcomes \cup {"circuit_breaker"} :
                 AgentEndNormal(s, w, outcome)
    <3>1. PICK outcome \in Outcomes \cup {"circuit_breaker"} :
             AgentEndNormal(s, w, outcome)
          BY <2>13
    <3> QED BY <2>1, <2>9, <3>1, AgentEndNormalWithin
  <2> QED BY <2>10, <2>12, <2>13
<1> QED BY <1>1, <1>2
-----------------------------------------------------------------------------
(* Every state of run r with one of these totals may be written within k.  *)
Writable(k, r, totals) == \A y \in States : y.total \in totals => Allowed(k, r, y)

(* The answer to resume_run.                                               *)
LEMMA ResumeRunReplyWithin ==
    ASSUME StoreOK, CallsOK, NEW k, Within(store, k), Loose(k), NEW s \in Sessions,
           Writable(k, rpc[s].run, {rpc[s].snap.total}),
           NEW accepted \in BOOLEAN, ResumeRunReply(s, accepted)
    PROVE  Within(store', k)
<1>1. rpc[s] # Idle BY DEF ResumeRunReply
<1>2. PICK r : r = rpc[s].run OBVIOUS
<1>3. PICK h : h = rpc[s].snap OBVIOUS
<1>4. r \in RunIds /\ h \in States BY <1>1, <1>2, <1>3, HeldRun DEF Alive
<1>5. CASE accepted
  <2>1. PICK y : y = CrossTurnResumeConsumed(h) OBVIOUS
  <2>2. y \in States /\ y.total = h.total BY <1>4, <2>1, EventsSteady DEF Steady
  <2>3. Allowed(k, r, y) BY <1>2, <1>3, <2>2 DEF Writable
  <2>4. PICK w \in Insertions(store, r, y) : Become(w)
        BY <1>2, <1>3, <1>5, <2>1 DEF ResumeRunReply
  <2>5. Within(w, k) BY <1>4, <2>3, <2>4, InsertWithin
  <2> QED BY <2>4, <2>5, SettleWithin
<1>6. CASE ~accepted BY <1>6 DEF ResumeRunReply
<1> QED BY <1>5, <1>6

(* The end of the validation commands.                                     *)
LEMMA ValidationDoneWithin ==
    ASSUME StoreOK, CallsOK, NEW k, Within(store, k), NEW s \in Sessions,
           Writable(k, hook[s].run, {hook[s].snap.total}), ValidationDone(s)
    PROVE  Within(store', k)
<1>1. hook[s] # Idle BY DEF ValidationDone, Idle
<1>2. PICK r : r = hook[s].run OBVIOUS
<1>3. PICK h : h = hook[s].snap OBVIOUS
<1>4. r \in RunIds /\ h \in Alive BY <1>1, <1>2, <1>3, HeldRun
<1>5. PICK verdict \in Verdict : Become(Complete(store, r, h, verdict))
      BY <1>2, <1>3 DEF ValidationDone
<1>6. Steady(h, Judged(h, verdict)) BY <1>4, JudgedSteady
<1>7. Allowed(k, r, Judged(h, verdict)) BY <1>2, <1>3, <1>6 DEF Writable, Steady
<1>8. PICK p : p = Complete(store, r, h, verdict) OBVIOUS
<1>9. Within(p, k) BY <1>4, <1>7, <1>8, CompleteWithin
<1> QED BY <1>5, <1>8, <1>9, SettleWithin

(* The totals a turn's enqueue may leave: one more than the handler held,  *)
(* or what the run has by now and one more than that.                      *)
Counted(c) ==
    {c.snap.total + 1}
      \cup (IF store.runs[c.run] = None THEN {}
            ELSE {store.runs[c.run].total, store.runs[c.run].total + 1})

(* The answer to a cross turn counts a turn at most.                       *)
LEMMA CrossTurnReplyWithin ==
    ASSUME StoreOK, CallsOK, NEW k, Within(store, k), Loose(k), NEW s \in Sessions,
           Writable(k, hook[s].run, Counted(hook[s])),
           NEW accepted \in BOOLEAN, CrossTurnReply(s, accepted)
    PROVE  Within(store', k)
<1>1. hook[s] # Idle BY DEF CrossTurnReply, Idle
<1>2. PICK r : r = hook[s].run OBVIOUS
<1>3. PICK h : h = hook[s].snap OBVIOUS
<1>4. PICK now : now = store.runs[r] OBVIOUS
<1>5. r \in RunIds /\ h \in States BY <1>1, <1>2, <1>3, HeldRun DEF Alive
<1>6. \A y \in States :
         \/ y.total = h.total + 1
         \/ now # None /\ y.total \in {now.total, now.total + 1}
         => Allowed(k, r, y)
      BY <1>2, <1>3, <1>4 DEF Writable, Counted
<1>7. CASE ~accepted
  <2>1. PICK y : y = CrossTurnFallback(h) OBVIOUS
  <2>2. y \in States /\ y.total = h.total + 1 BY <1>5, <2>1, CountStates, CountTotals
  <2>3. Allowed(k, r, y) BY <1>6, <2>2
  <2>4. PICK w \in Insertions(store, r, y) : Become(w)
        BY <1>2, <1>3, <1>7, <2>1 DEF CrossTurnReply
  <2>5. Within(w, k) BY <1>5, <2>3, <2>4, InsertWithin
  <2> QED BY <2>4, <2>5, SettleWithin
<1>8. CASE accepted /\ now = None BY <1>2, <1>4, <1>8 DEF CrossTurnReply
<1>9. CASE accepted /\ now # None
  <2>1. PICK y : y = CrossTurnEnqueued(now) OBVIOUS
  <2>2. now \in States BY <1>4, <1>5, <1>9 DEF StoreOK, Fine, Sturdy, Stores, Slot
  <2>3. y \in States BY <2>1, <2>2, FlagStates
  <2>4. y.total \in {now.total, now.total + 1} BY <2>1, <2>2, CountTotals
  <2>5. Allowed(k, r, y) BY <1>6, <1>9, <2>3, <2>4
  <2>6. PICK p : p = Put(store, r, y) OBVIOUS
  <2>7. Within(p, k) BY <1>5, <2>5, <2>6, PlainWithin
  <2>8. Become(p) BY <1>2, <1>4, <1>9, <2>1, <2>6 DEF CrossTurnReply
  <2> QED BY <2>7, <2>8, SettleWithin
<1> QED BY <1>7, <1>8, <1>9

(* So does the answer to a degraded turn.                                  *)
LEMMA DegradedReplyWithin ==
    ASSUME StoreOK, CallsOK, NEW k, Within(store, k), Loose(k), NEW s \in Sessions,
           Writable(k, hook[s].run, Counted(hook[s])),
           NEW accepted \in BOOLEAN, DegradedReply(s, accepted)
    PROVE  Within(store', k)
<1>1. hook[s] # Idle BY DEF DegradedReply, Idle
<1>2. PICK r : r = hook[s].run OBVIOUS
<1>3. PICK h : h = hook[s].snap OBVIOUS
<1>4. PICK now : now = store.runs[r] OBVIOUS
<1>5. r \in RunIds /\ h \in States /\ h.status = "running"
      BY <1>1, <1>2, <1>3, HeldRun DEF Alive
<1>6. \A y \in States :
         \/ y.total = h.total + 1
         \/ now # None /\ y.total \in {now.total, now.total + 1}
         => Allowed(k, r, y)
      BY <1>2, <1>3, <1>4 DEF Writable, Counted
<1>7. CASE now = None
  <2>1. PICK y : y = IF accepted THEN IncrementTotal(ResetTurnAttempts(h))
                     ELSE CrossTurnDegradedSilent(h)
        OBVIOUS
  <2>2. y \in States BY <1>5, <2>1, CountStates, FlagStates
  <2>3. y.total = h.total + 1
    <3>1. CASE accepted BY <1>5, <2>1, <3>1, CountTotals
    <3>2. CASE ~accepted
      <4>1. PICK u : u = CrossTurn(h) OBVIOUS
      <4>2. u \in Run /\ u.total = h.total + 1
        <5>1. PICK n \in Nat : n = h.total + 1 BY <1>5 DEF States, Run
        <5>2. u = [h EXCEPT !.total = n, !.needs = TRUE, !.turn = 0]
              BY <4>1, <5>1 DEF CrossTurn
        <5>3. h \in Run BY <1>5 DEF States
        <5> QED BY <5>1, <5>2, <5>3 DEF Run
      <4>3. PICK v : v = [u EXCEPT !.degraded = TRUE] OBVIOUS
      <4>4. v \in Run /\ v.total = u.total BY <4>2, <4>3 DEF Run
      <4>5. y = Derived(v)
            BY <1>5, <2>1, <3>2, <4>1, <4>3 DEF CrossTurnDegradedSilent
      <4> QED BY <4>2, <4>4, <4>5, DerivedFields
    <3> QED BY <3>1, <3>2
  <2>4. Allowed(k, r, y) BY <1>6, <2>2, <2>3
  <2>5. PICK w \in Insertions(store, r, y) : Become(w)
        BY <1>2, <1>3, <1>4, <1>7, <2>1 DEF DegradedReply
  <2>6. Within(w, k) BY <1>5, <2>4, <2>5, InsertWithin
  <2> QED BY <2>5, <2>6, SettleWithin
<1>8. CASE now # None /\ now.status # "running"
  <2>1. Become(store) BY <1>2, <1>4, <1>8 DEF DegradedReply
  <2> QED BY <2>1, SettleWithin
<1>9. CASE now # None /\ now.status = "running"
  <2>1. PICK y : y = IF accepted THEN CrossTurnDegraded(now)
                     ELSE CrossTurnDegradedSilent(now)
        OBVIOUS
  <2>2. now \in States BY <1>4, <1>5, <1>9 DEF StoreOK, Fine, Sturdy, Stores, Slot
  <2>3. y \in States BY <2>1, <2>2, FlagStates
  <2>4. y.total \in {now.total, now.total + 1} BY <2>1, <2>2, CountTotals
  <2>5. Allowed(k, r, y) BY <1>6, <1>9, <2>3, <2>4
  <2>6. PICK p : p = Put(store, r, y) OBVIOUS
  <2>7. Within(p, k) BY <1>5, <2>5, <2>6, PlainWithin
  <2>8. Become(p) BY <1>2, <1>4, <1>9, <2>1, <2>6 DEF DegradedReply
  <2> QED BY <2>7, <2>8, SettleWithin
<1> QED BY <1>7, <1>8, <1>9

(* The run that an activation replaces goes.                               *)
LEMMA ClearedWithin ==
    ASSUME StoreOK, NEW k, Within(store, k), Loose(k), NEW s \in Sessions,
           NEW x, x = Cleared(s)
    PROVE  Within(x, k)
<1>1. CASE ~HasRun(s) BY <1>1 DEF Cleared
<1>2. CASE HasRun(s)
  <2>1. PICK r : r = RunOf(s) OBVIOUS
  <2>2. r \in RunIds BY <1>2, <2>1, FoundRun
  <2>3. PICK c \in BOOLEAN : c = Recovers(s) BY DEF Recovers
  <2>4. PICK d : d = IF c /\ Checkpointing THEN DeleteCheckpoint(store, r) ELSE store
        OBVIOUS
  <2>5. PICK e : e = ReleaseIf(d, c) OBVIOUS
  <2>6. x = [e EXCEPT !.runs[r] = None, !.current[s] = None]
        BY <1>2, <2>1, <2>3, <2>4, <2>5 DEF Cleared
  <2>7. store \in Stores BY DEF Within
  <2>8. /\ d \in Stores /\ d.runs = store.runs /\ d.owner = store.owner
        /\ d.current = store.current /\ d.index = store.index /\ d.queue = store.queue
        /\ \A q \in RunIds : d.disk[q] \in {store.disk[q], None}
    <3>1. CASE d = store BY <2>7, <3>1
    <3>2. CASE d = DeleteCheckpoint(store, r)
          BY <2>2, <2>7, <3>2 DEF DeleteCheckpoint, Stores, Slot
    <3> QED BY <2>4, <3>1, <3>2
  <2>9. Within(d, k) BY <2>8 DEF Within
  <2>10. Within(e, k) BY <2>5, <2>9, ReleaseWithin
  <2>11. e.current = store.current
        BY <2>5, <2>8 DEF ReleaseIf, Release, Stores
  <2>12. e \in Stores BY <2>10 DEF Within
  <2>13. /\ x \in Stores /\ x.runs = [e.runs EXCEPT ![r] = None] /\ x.owner = e.owner
         /\ x.disk = e.disk /\ x.queue = e.queue /\ x.index = e.index
         /\ x.current = [e.current EXCEPT ![s] = None]
    <3>1. PICK y : y = Emptied(e, r, s) OBVIOUS
    <3>2. /\ y \in Stores /\ y.runs = [e.runs EXCEPT ![r] = None] /\ y.owner = e.owner
          /\ y.disk = e.disk /\ y.queue = e.queue
          BY <2>2, <2>12, <3>1, SlotEmptied
    <3>3. PICK current : current = [e.current EXCEPT ![s] = None] OBVIOUS
    <3>4. PICK runs : runs = [e.runs EXCEPT ![r] = None] OBVIOUS
    <3>5. y = [e EXCEPT !.runs = runs, !.current = current]
          BY <3>1, <3>3, <3>4 DEF Emptied
    <3>6. y.index = e.index /\ y.current = current BY <2>12, <3>5 DEF Stores
    <3>7. x = y BY <2>6, <3>1 DEF Emptied
    <3> QED BY <3>2, <3>3, <3>6, <3>7
  <2>14. x.current \in k.currents
    <3>1. store.current \in k.currents /\ store.current \in [Sessions -> RunIds \cup {None}]
          BY <2>7 DEF Within, Stores
    <3>2. PICK keys : keys = {s} OBVIOUS
    <3>3. x.current = [t \in Sessions |-> IF t \in keys THEN None ELSE store.current[t]]
          BY <2>11, <2>13, <3>1, <3>2
    <3> QED BY <3>1, <3>3 DEF Loose
  <2> QED BY <2>2, <2>10, <2>13, <2>14, ForgetWithin
<1> QED BY <1>1, <1>2

(* k with run r given to s.                                                *)
Gives(k, l, r, s) ==
    /\ l.states = k.states /\ l.totals = k.totals
    /\ l.owner = [k.owner EXCEPT ![r] = s]
    /\ k.currents \subseteq l.currents /\ Loose(l)
    /\ \A c \in l.currents : [c EXCEPT ![s] = r] \in l.currents

(* An activation gives a run without an owner to its session.              *)
LEMMA ActivateWithin ==
    ASSUME StoreOK, NEW k, Within(store, k), Loose(k), NEW s \in Sessions, Activate(s)
    PROVE  \E r \in RunIds :
              /\ store.owner[r] = None
              /\ \A l : Gives(k, l, r, s) /\ Allowed(l, r, Fresh) => Within(store', l)
<1>1. PICK v : v = Cleared(s) OBVIOUS
<1>2. PICK r \in RunIds :
        /\ store.owner[r] = None
        /\ \E w \in Insertions([v EXCEPT !.owner[r] = s], r, Fresh) :
              w.runs[r] # None /\ Become(Acquire([w EXCEPT !.current[s] = r]))
      BY <1>1 DEF Activate
<1>3. PICK u : u = [v EXCEPT !.owner[r] = s] OBVIOUS
<1>4. PICK w \in Insertions(u, r, Fresh) : Become(Acquire([w EXCEPT !.current[s] = r]))
      BY <1>2, <1>3
<1>5. PICK z : z = [w EXCEPT !.current[s] = r] OBVIOUS
<1>6. PICK a : a = Acquire(z) OBVIOUS
<1>7. Become(a) BY <1>4, <1>5, <1>6
<1>8. Within(v, k) BY <1>1, ClearedWithin
<1>9. v \in Stores /\ v.owner = k.owner /\ store.owner = k.owner BY <1>8 DEF Within
<1>10. /\ u \in Stores /\ u.runs = v.runs /\ u.current = v.current /\ u.index = v.index
       /\ u.disk = v.disk /\ u.queue = v.queue /\ u.owner = [v.owner EXCEPT ![r] = s]
       BY <1>3, <1>9 DEF Stores
<1>11. ASSUME NEW l, Gives(k, l, r, s), Allowed(l, r, Fresh)
       PROVE  Within(store', l)
  <2>1. /\ l.states = k.states /\ l.totals = k.totals /\ u.owner = l.owner
        /\ u.current \in l.currents
        BY <1>8, <1>9, <1>10, <1>11 DEF Gives, Within
  <2>2. \A t \in Sessions : u.index[t] # None => l.owner[u.index[t]] = t
    <3> SUFFICES ASSUME NEW t \in Sessions, u.index[t] # None
                 PROVE  l.owner[u.index[t]] = t
        OBVIOUS
    <3>1. k.owner[u.index[t]] = t BY <1>8, <1>10 DEF Within
    <3>2. u.index[t] # r BY <1>2, <1>9, <3>1, NoneIsNoState
    <3>3. u.index[t] \in RunIds BY <1>10 DEF Stores
    <3>4. k.owner \in [RunIds -> Sessions \cup {None}] BY <1>9 DEF Stores
    <3> QED BY <1>11, <3>1, <3>2, <3>3, <3>4 DEF Gives
  <2>3. Within(u, l) BY <1>8, <1>10, <2>1, <2>2 DEF Within
  <2>4. Within(w, l) BY <1>4, <1>11, <2>3, InsertWithin DEF Gives
  <2>5. w \in Stores /\ w.current \in l.currents BY <2>4 DEF Within
  <2>6. /\ z \in Stores /\ z.runs = w.runs /\ z.owner = w.owner /\ z.index = w.index
        /\ z.disk = w.disk /\ z.queue = w.queue /\ z.current = [w.current EXCEPT ![s] = r]
        BY <1>5, <2>5 DEF Stores
  <2>7. z.current \in l.currents BY <1>11, <2>5, <2>6 DEF Gives
  <2>8. Within(z, l) BY <2>4, <2>6, <2>7, PassiveWithin
  <2>9. Within(a, l) BY <1>6, <2>8, AcquireWithin
  <2> QED BY <1>7, <2>9, SettleWithin
<1> QED BY <1>2, <1>11

(* A session finds its run on disk.                                        *)
LEMMA SessionStartWithin ==
    ASSUME StoreOK, NEW k, Within(store, k), NEW s \in Sessions,
           \A c \in k.currents : [c EXCEPT ![s] = store.index[s]] \in k.currents,
           SessionStart(s),
           \A age \in Ages : \A due \in BOOLEAN :
              Loaded(store, store.index[s], age, due) \in k.states[store.index[s]]
    PROVE  Within(store', k)
<1>1. PICK r : r = store.index[s] OBVIOUS
<1>2. r # None /\ store.disk[r] # None BY <1>1 DEF SessionStart
<1>3. PICK age \in Downtimes, due \in BOOLEAN :
         store' = [store EXCEPT !.runs[r] = Loaded(store, r, age, due), !.current[s] = r]
      BY <1>1 DEF SessionStart
<1>4. store \in Stores /\ age \in Ages BY DEF Within, Downtimes
<1>5. r \in RunIds BY <1>1, <1>2, <1>4 DEF Stores
<1>6. PICK y : y = Loaded(store, r, age, due) OBVIOUS
<1>7. y \in States /\ y.total = store.disk[r].total
      BY <1>2, <1>4, <1>5, <1>6, LoadedState DEF Same
<1>8. y \in k.states[r] BY <1>1, <1>4, <1>6
<1>9. y.total \in k.totals[r] BY <1>2, <1>5, <1>7 DEF Within
<1>10. PICK x : x = [store EXCEPT !.runs[r] = y, !.current[s] = r] OBVIOUS
<1>11. /\ x \in Stores /\ x.runs = [store.runs EXCEPT ![r] = y] /\ x.owner = store.owner
       /\ x.current = [store.current EXCEPT ![s] = r]
       /\ x.index = store.index /\ x.disk = store.disk /\ x.queue = store.queue
       BY <1>4, <1>5, <1>7, <1>10 DEF Stores, Slot
<1>12. \A q \in RunIds : x.runs[q] = IF q = r THEN y ELSE store.runs[q]
       BY <1>4, <1>11 DEF Stores
<1>13. x.current \in k.currents BY <1>1, <1>11 DEF Within
<1>14. Within(x, k) BY <1>8, <1>9, <1>11, <1>12, <1>13 DEF Within
<1> QED BY <1>3, <1>6, <1>10, <1>14
-----------------------------------------------------------------------------
(* The totals that run q may have: no more than what the hook handler that *)
(* holds it has counted, no less than what a resume_run has.               *)
Room(h, p, q) ==
    {n \in 0..Cap : \A s \in Sessions : /\ h[s].run = q => n <= h[s].snap.total
                                        /\ p[s].run = q => p[s].snap.total <= n}

(* The sessions that find only runs of their own.                          *)
OwnRuns(owner) ==
    {c \in [Sessions -> RunIds \cup {None}] :
        \A t \in Sessions : c[t] # None => owner[c[t]] = t}

Frame(h, p, owner) ==
    [states   |-> [q \in RunIds |-> States],
     totals   |-> [q \in RunIds |-> Room(h, p, q)],
     owner    |-> owner,
     currents |-> OwnRuns(owner)]

(* A suspended handler holds a run of its own session, within the budget;  *)
(* what resume_run holds of it is no newer than what the hook holds.       *)
CallsBounded(h, p, owner) ==
    \A s \in Sessions :
       /\ h[s].run # None => /\ owner[h[s].run] = s /\ h[s].snap.total <= Cap
                             /\ h[s].at # "validation" => h[s].snap.total < MaxTotal
       /\ p[s].run # None => owner[p[s].run] = s /\ p[s].snap.total <= Cap
       /\ h[s].run # None /\ p[s].run = h[s].run => p[s].snap.total <= h[s].snap.total

(* The strengthening of ContinuationBudget.                                *)
BudgetInv ==
    Within(store, Frame(hook, rpc, store.owner)) /\ CallsBounded(hook, rpc, store.owner)

(* A session that finds no run is within its own runs.                     *)
LEMMA FrameIsLoose ==
    ASSUME NEW h, NEW p, NEW owner, NEW k, k = Frame(h, p, owner)
    PROVE  Loose(k)
BY DEF Loose, Frame, OwnRuns

(* What a frame allows of a run is up to its total.                        *)
LEMMA FrameAllows ==
    ASSUME NEW h, NEW p, NEW owner, NEW k, k = Frame(h, p, owner),
           NEW q \in RunIds, NEW y \in States
    PROVE  Allowed(k, q, y) <=> y.total \in Room(h, p, q)
BY DEF Allowed, Frame

(* Steady writes stay within the budget.                                   *)
LEMMA BudgetOpen ==
    ASSUME BudgetInv, NEW k, k = Frame(hook, rpc, store.owner)
    PROVE  Open(k)
<1>1. Within(store, k) BY DEF BudgetInv
<1>2. ASSUME NEW q \in RunIds, NEW y, store.runs[q] # None, Steady(store.runs[q], y)
      PROVE  Allowed(k, q, y)
  <2>1. store.runs[q].total \in k.totals[q] BY <1>1, <1>2 DEF Within
  <2>2. store.runs[q].total \in Room(hook, rpc, q) BY <2>1 DEF Frame
  <2>3. y \in States /\ y.total = store.runs[q].total BY <1>2 DEF Steady
  <2> QED BY <2>2, <2>3, FrameAllows
<1> QED BY <1>1, <1>2 DEF Open

(* An action that leaves the handlers alone.                               *)
LEMMA BudgetStays ==
    ASSUME BudgetInv, NEW k, k = Frame(hook, rpc, store.owner), Within(store', k),
           UNCHANGED <<hook, rpc>>
    PROVE  BudgetInv'
<1>1. store'.owner = store.owner BY DEF Within, Frame
<1> QED BY <1>1 DEF BudgetInv

(* What a handler holds of a run may change in all but its total.          *)
SameCalls(f, g) ==
    \A t \in Sessions : g[t].run = f[t].run /\ g[t].at = f[t].at
                        /\ (f[t].run # None => g[t].snap.total = f[t].snap.total)

(* Handlers that only wait keep the budget.                                *)
LEMMA BudgetWaits ==
    ASSUME BudgetInv, NEW k, k = Frame(hook, rpc, store.owner), Within(store', k),
           SameCalls(hook, hook'), SameCalls(rpc, rpc')
    PROVE  BudgetInv'
<1>1. store'.owner = store.owner BY DEF Within, Frame
<1>2. \A q \in RunIds : Room(hook, rpc, q) = Room(hook', rpc', q)
      BY NoneIsNoState DEF Room, SameCalls
<1>3. Frame(hook, rpc, store.owner) = Frame(hook', rpc', store.owner)
      BY <1>2 DEF Frame
<1>4. CallsBounded(hook', rpc', store.owner)
      BY DEF BudgetInv, CallsBounded, SameCalls
<1> QED BY <1>1, <1>3, <1>4 DEF BudgetInv

(* The handlers that hold a run are those of its session.                  *)
LEMMA OwnCalls ==
    ASSUME BudgetInv, NEW s \in Sessions, HasRun(s), StoreOK
    PROVE  /\ store.owner[RunOf(s)] = s
           /\ \A t \in Sessions : /\ hook[t].run = RunOf(s) => t = s
                                  /\ rpc[t].run = RunOf(s) => t = s
<1>1. store.owner[RunOf(s)] = s
      BY DEF BudgetInv, Within, Frame, OwnRuns, HasRun, Found, RunOf
<1>2. RunOf(s) # None BY FoundRun, NoneIsNoState
<1> QED BY <1>1, <1>2 DEF BudgetInv, CallsBounded

(* The totals on disk and in memory are all there is to a run.             *)
LEMMA FrameMoves ==
    ASSUME NEW h, NEW p, NEW owner, NEW k, k = Frame(h, p, owner),
           NEW i, NEW j, NEW l, l = Frame(i, j, owner),
           NEW w, Within(w, k), \A q \in RunIds : w.queue[q] = None, NEW r \in RunIds,
           \A q \in RunIds \ {r} : Room(h, p, q) \subseteq Room(i, j, q),
           w.runs[r] # None => w.runs[r].total \in Room(i, j, r),
           w.disk[r] # None => w.disk[r].total \in Room(i, j, r)
    PROVE  Within(w, l)
<1>1. /\ k.owner = l.owner /\ k.currents = l.currents /\ k.states = l.states
      /\ \A q \in RunIds : k.totals[q] = Room(h, p, q) /\ l.totals[q] = Room(i, j, q)
      BY DEF Frame
<1>2. ASSUME NEW q \in RunIds
      PROVE  /\ w.runs[q]  # None => w.runs[q] \in l.states[q] /\ w.runs[q].total \in l.totals[q]
             /\ w.disk[q]  # None => w.disk[q].total \in l.totals[q]
             /\ w.queue[q] # None => w.queue[q].total \in l.totals[q]
      BY <1>1 DEF Within
<1> QED BY <1>1, <1>2 DEF Within

(* The checkpoint of an active run has its total.                          *)
LEMMA DurableTotal ==
    ASSUME NEW w, Fine(w), NEW r \in RunIds, w.queue[r] = None, w.runs[r] # None,
           w.runs[r].orch \in ActiveStates, w.disk[r] # None
    PROVE  w.disk[r].total = w.runs[r].total
<1>1. Backed(w) BY DEF Fine, Sturdy
<1>2. Checkpointing \in BOOLEAN BY StoreAssumption
<1>3. Checkpointing BY <1>1, <1>2 DEF Backed
<1>4. Same(w.runs[r], Landed(w, r)) BY <1>1, <1>3 DEF Backed
<1>5. Landed(w, r) = w.disk[r] BY DEF Landed
<1> QED BY <1>4, <1>5 DEF Same

(* A hook handler is suspended with the total of its run.                  *)
LEMMA BudgetSuspends ==
    ASSUME StoreOK, CallsOK, BudgetInv, StoreOK', NEW s \in Sessions, HasRun(s),
           hook[s] = Idle, NEW k, k = Frame(hook, rpc, store.owner), Within(store', k),
           Suspends(s), UNCHANGED rpc
    PROVE  BudgetInv'
<1>1. PICK r : r = RunOf(s) OBVIOUS
<1>2. PICK at \in HookAts, x \in Alive :
         /\ hook' = [hook EXCEPT ![s] = Suspended(at, r, x)]
         /\ store'.runs[r] # None /\ store'.runs[r].orch \in ActiveStates
         /\ store'.runs[r].total = x.total
         /\ at # "validation" => x.total < MaxTotal
      BY <1>1 DEF Suspends
<1>3. r \in RunIds /\ r # None BY <1>1, FoundRun, NoneIsNoState
<1>4. store.owner[r] = s /\ \A t \in Sessions : rpc[t].run = r => t = s
      BY <1>1, OwnCalls
<1>5. PICK c : c = Suspended(at, r, x) OBVIOUS
<1>6. c.at = at /\ c.run = r /\ c.snap = x BY <1>5 DEF Suspended
<1>7. \A t \in Sessions : hook'[t] = IF t = s THEN c ELSE hook[t]
      BY <1>2, <1>5 DEF CallsOK
<1>8. hook[s].run = None BY DEF Idle
<1>9. store'.owner = store.owner BY DEF Within, Frame
<1>10. Fine(store') /\ \A q \in RunIds : store'.queue[q] = None BY DEF StoreOK
<1>11. x.total \in Room(hook, rpc, r)
  <2>1. store'.runs[r].total \in k.totals[r] BY <1>2, <1>3 DEF Within
  <2> QED BY <1>2, <1>3, <2>1 DEF Frame
<1>12. x.total \in 0..Cap BY <1>11 DEF Room
<1>13. x.total \in Room(hook', rpc', r)
  <2>1. x.total <= x.total BY <1>12, CapIsLargest
  <2> QED BY <1>6, <1>7, <1>11, <1>12, <2>1 DEF Room
<1>14. \A q \in RunIds \ {r} : Room(hook, rpc, q) \subseteq Room(hook', rpc', q)
       BY <1>6, <1>7 DEF Room
<1>15. store'.disk[r] # None => store'.disk[r].total = x.total
       BY <1>2, <1>3, <1>10, DurableTotal
<1>16. PICK l : l = Frame(hook', rpc', store.owner) OBVIOUS
<1>17. Within(store', l)
  <2>1. PICK w : w = store' OBVIOUS
  <2>2. w.runs[r].total \in Room(hook', rpc', r) BY <1>2, <1>13, <2>1
  <2>3. w.disk[r] # None => w.disk[r].total \in Room(hook', rpc', r)
        BY <1>13, <1>15, <2>1
  <2>4. Within(w, k) /\ \A q \in RunIds : w.queue[q] = None BY <1>10, <2>1
  <2>5. Within(w, l) BY <1>3, <1>14, <1>16, <2>2, <2>3, <2>4, FrameMoves
  <2> QED BY <2>1, <2>5
<1>18. CallsBounded(hook', rpc', store.owner)
  <2> SUFFICES ASSUME NEW t \in Sessions
               PROVE  /\ hook'[t].run # None =>
                            /\ store.owner[hook'[t].run] = t /\ hook'[t].snap.total <= Cap
                            /\ hook'[t].at # "validation" => hook'[t].snap.total < MaxTotal
                      /\ rpc'[t].run # None =>
                            store.owner[rpc'[t].run] = t /\ rpc'[t].snap.total <= Cap
                      /\ hook'[t].run # None /\ rpc'[t].run = hook'[t].run
                           => rpc'[t].snap.total <= hook'[t].snap.total
      BY DEF CallsBounded
  <2>1. CASE t # s BY <1>7, <2>1 DEF BudgetInv, CallsBounded
  <2>2. CASE t = s
    <3>1. hook'[t] = c BY <1>7, <2>2
    <3>2. x.total <= Cap BY <1>12, CapIsLargest
    <3>3. rpc[t].run = r => rpc[t].snap.total <= x.total BY <1>11 DEF Room
    <3>4. rpc[t].run # None => store.owner[rpc[t].run] = t /\ rpc[t].snap.total <= Cap
          BY DEF BudgetInv, CallsBounded
    <3> QED BY <1>2, <1>4, <1>6, <2>2, <3>1, <3>2, <3>3, <3>4
  <2> QED BY <2>1, <2>2
<1> QED BY <1>9, <1>16, <1>17, <1>18 DEF BudgetInv

(* resume_run is suspended with the total of its run.                      *)
LEMMA BudgetResumeRun ==
    ASSUME StoreOK, CallsOK, BudgetInv, NEW s \in Sessions, ResumeRun(s)
    PROVE  BudgetInv'
<1>1. PICK r : r = RunOf(s) OBVIOUS
<1>2. PICK x : x = StateOf(s) OBVIOUS
<1>3. HasRun(s) /\ x.status = "running" /\ UNCHANGED <<store, hook>> /\ rpc[s] = Idle
      BY <1>2 DEF ResumeRun
<1>4. PICK c : c = Suspended("resume_run", r, x) OBVIOUS
<1>5. c.run = r /\ c.snap = x BY <1>4 DEF Suspended
<1>6. rpc' = [rpc EXCEPT ![s] = c] BY <1>1, <1>2, <1>4 DEF ResumeRun
<1>7. \A t \in Sessions : rpc'[t] = IF t = s THEN c ELSE rpc[t] BY <1>6 DEF CallsOK
<1>8. r \in RunIds /\ r # None /\ x \in States /\ x = store.runs[r] /\ x # None
      BY <1>1, <1>2, <1>3, FoundRun, NoneIsNoState DEF InMemory
<1>9. store.owner[r] = s BY <1>1, <1>3, OwnCalls
<1>10. PICK k : k = Frame(hook, rpc, store.owner) OBVIOUS
<1>11. Within(store, k) BY <1>10 DEF BudgetInv
<1>12. x.total \in Room(hook, rpc, r) BY <1>8, <1>10, <1>11 DEF Within, Frame
<1>13. x.total \in Nat BY <1>8 DEF States, Run
<1>14. x.total \in Room(hook', rpc', r) BY <1>3, <1>5, <1>7, <1>12, <1>13 DEF Room
<1>15. \A q \in RunIds \ {r} : Room(hook, rpc, q) \subseteq Room(hook', rpc', q)
       BY <1>3, <1>5, <1>7 DEF Room
<1>16. Fine(store) /\ \A q \in RunIds : store.queue[q] = None BY DEF StoreOK
<1>17. store.disk[r] # None => store.disk[r].total = x.total
       BY <1>3, <1>8, <1>16, RunningIsActive, DurableTotal
<1>18. PICK l : l = Frame(hook', rpc', store.owner) OBVIOUS
<1>19. Within(store, l)
       BY <1>8, <1>10, <1>11, <1>14, <1>15, <1>16, <1>17, <1>18, FrameMoves
<1>20. CallsBounded(hook', rpc', store.owner)
  <2> SUFFICES ASSUME NEW t \in Sessions
               PROVE  /\ hook'[t].run # None =>
                            /\ store.owner[hook'[t].run] = t /\ hook'[t].snap.total <= Cap
                            /\ hook'[t].at # "validation" => hook'[t].snap.total < MaxTotal
                      /\ rpc'[t].run # None =>
                            store.owner[rpc'[t].run] = t /\ rpc'[t].snap.total <= Cap
                      /\ hook'[t].run # None /\ rpc'[t].run = hook'[t].run
                           => rpc'[t].snap.total <= hook'[t].snap.total
      BY DEF CallsBounded
  <2>1. CASE t # s BY <1>3, <1>7, <2>1 DEF BudgetInv, CallsBounded
  <2>2. CASE t = s
    <3>1. rpc'[t] = c BY <1>7, <2>2
    <3>2. hook[t].run = r => x.total <= hook[t].snap.total BY <1>12 DEF Room
    <3>3. hook[t].run # None => /\ store.owner[hook[t].run] = t /\ hook[t].snap.total <= Cap
                                /\ hook[t].at # "validation" => hook[t].snap.total < MaxTotal
          BY DEF BudgetInv, CallsBounded
    <3>4. x.total <= Cap BY <1>12, CapIsLargest DEF Room
    <3> QED BY <1>3, <1>5, <1>9, <2>2, <3>1, <3>2, <3>3, <3>4
  <2> QED BY <2>1, <2>2
<1> QED BY <1>3, <1>18, <1>19, <1>20 DEF BudgetInv

(* A handler that answers leaves more room.                                *)
LEMMA FrameWidens ==
    ASSUME NEW h, NEW p, NEW owner, NEW k, k = Frame(h, p, owner),
           NEW i, NEW j, NEW l, l = Frame(i, j, owner), NEW w, Within(w, k),
           \A q \in RunIds : Room(h, p, q) \subseteq Room(i, j, q)
    PROVE  Within(w, l)
<1>1. /\ k.owner = l.owner /\ k.currents = l.currents /\ k.states = l.states
      /\ \A q \in RunIds : k.totals[q] \subseteq l.totals[q]
      BY DEF Frame
<1> QED BY <1>1 DEF Within

(* The hook handler of s answers.                                          *)
LEMMA HookAnswers ==
    ASSUME StoreOK, CallsOK, BudgetInv, NEW s \in Sessions, hook[s] # Idle,
           hook' = [hook EXCEPT ![s] = Idle], UNCHANGED rpc,
           NEW l, l = Frame(hook', rpc', store.owner)
    PROVE  /\ Within(store, l)
           /\ Writable(l, hook[s].run, {hook[s].snap.total})
           /\ hook[s].at # "validation" => Writable(l, hook[s].run, Counted(hook[s]))
           /\ Within(store', l) => BudgetInv'
<1>1. PICK k : k = Frame(hook, rpc, store.owner) OBVIOUS
<1>2. Within(store, k) BY <1>1 DEF BudgetInv
<1>3. \A t \in Sessions : hook'[t] = IF t = s THEN Idle ELSE hook[t] BY DEF CallsOK
<1>4. Idle.run = None BY DEF Idle
<1>5. \A q \in RunIds : Room(hook, rpc, q) \subseteq Room(hook', rpc', q)
      BY <1>3, <1>4, NoneIsNoState DEF Room
<1>6. Within(store, l)
  <2>1. PICK w : w = store OBVIOUS
  <2>2. PICK i, j : i = hook' /\ j = rpc' OBVIOUS
  <2>3. \A q \in RunIds : Room(hook, rpc, q) \subseteq Room(i, j, q) BY <1>5, <2>2
  <2>4. l = Frame(i, j, store.owner) BY <2>2
  <2>5. Within(w, k) BY <1>2, <2>1
  <2>6. Within(w, l) BY ONLY <1>1, <2>3, <2>4, <2>5, FrameWidens
  <2> QED BY <2>1, <2>6
<1>7. PICK r : r = hook[s].run OBVIOUS
<1>8. PICK n : n = hook[s].snap.total OBVIOUS
<1>9. r \in RunIds /\ r # None /\ hook[s].snap \in Alive BY <1>7, HeldRun, NoneIsNoState
<1>10. n \in Nat /\ Cap \in Nat BY <1>8, <1>9, CapIsLargest DEF Alive, States, Run
<1>11. n <= Cap /\ (hook[s].at # "validation" => n < MaxTotal)
       BY <1>7, <1>8, <1>9 DEF BudgetInv, CallsBounded
<1>12. \A t \in Sessions : /\ hook'[t].run # r
                           /\ rpc'[t].run = r => /\ rpc'[t].snap.total <= n
                                                 /\ rpc'[t].snap.total \in Nat
  <2> SUFFICES ASSUME NEW t \in Sessions
               PROVE  /\ hook'[t].run # r
                      /\ rpc'[t].run = r => /\ rpc'[t].snap.total <= n
                                            /\ rpc'[t].snap.total \in Nat
      OBVIOUS
  <2>1. store.owner[r] = s BY <1>7, <1>9 DEF BudgetInv, CallsBounded
  <2>2. hook[t].run = r => t = s BY <1>9, <2>1 DEF BudgetInv, CallsBounded
  <2>3. rpc[t].run = r => t = s BY <1>9, <2>1 DEF BudgetInv, CallsBounded
  <2>4. rpc[s].run = r => rpc[s].snap.total <= n
        BY <1>7, <1>8, <1>9 DEF BudgetInv, CallsBounded
  <2>5. rpc[t].run = r => rpc[t].snap.total \in Nat
    <3>1. rpc[t].run = r => rpc[t].snap \in Alive BY <1>4, <1>9, HeldRun
    <3> QED BY <3>1 DEF Alive, States, Run
  <2> QED BY <1>3, <1>4, <1>9, <2>2, <2>3, <2>4, <2>5
<1>13. \A m \in n..Cap : m \in Room(hook', rpc', r) BY <1>10, <1>12 DEF Room
<1>14. Writable(l, r, {n})
  <2>1. n \in n..Cap BY <1>10, <1>11
  <2>2. n \in Room(hook', rpc', r) BY <1>13, <2>1
  <2> QED BY <1>9, <2>2, FrameAllows DEF Writable
<1>15. ASSUME hook[s].at # "validation" PROVE Writable(l, r, Counted(hook[s]))
  <2>1. n < Cap /\ n + 1 \in n..Cap BY <1>10, <1>11, <1>15, CapIsLargest, AutopilotAssumption
  <2>2. ASSUME store.runs[r] # None
        PROVE  /\ store.runs[r].total \in Room(hook', rpc', r)
               /\ store.runs[r].total + 1 \in Room(hook', rpc', r)
    <3>1. PICK m : m = store.runs[r].total OBVIOUS
    <3>2. m \in Room(hook, rpc, r) BY <1>1, <1>2, <1>9, <2>2, <3>1 DEF Within, Frame
    <3>3. m \in Room(hook', rpc', r) BY <1>5, <1>9, <3>2
    <3>4. m \in Nat /\ m <= n BY <1>7, <1>8, <3>2, CapIsLargest DEF Room
    <3>5. m + 1 \in 0..Cap BY <1>10, <2>1, <3>4
    <3>6. \A t \in Sessions : rpc'[t].run = r => rpc'[t].snap.total <= m BY <3>3 DEF Room
    <3>7. \A t \in Sessions : rpc'[t].run = r => rpc'[t].snap.total <= m + 1
          BY <1>12, <3>4, <3>6
    <3> QED BY <1>12, <3>1, <3>3, <3>5, <3>7 DEF Room
  <2>3. n + 1 \in Room(hook', rpc', r) BY <1>13, <2>1
  <2>4. \A m \in Counted(hook[s]) : m \in Room(hook', rpc', r)
        BY <1>7, <1>8, <2>2, <2>3 DEF Counted
  <2> QED BY <1>9, <2>4, FrameAllows DEF Writable
<1>16. CallsBounded(hook', rpc', store.owner)
       BY <1>3, <1>4 DEF BudgetInv, CallsBounded
<1>17. ASSUME Within(store', l) PROVE BudgetInv'
  <2>1. store'.owner = store.owner BY <1>17 DEF Within, Frame
  <2> QED BY <1>16, <1>17, <2>1 DEF BudgetInv
<1> QED BY <1>6, <1>7, <1>8, <1>14, <1>15, <1>17

(* The resume_run of s answers.                                            *)
LEMMA RpcAnswers ==
    ASSUME StoreOK, CallsOK, BudgetInv, NEW s \in Sessions, rpc[s] # Idle,
           rpc' = [rpc EXCEPT ![s] = Idle], UNCHANGED hook,
           NEW l, l = Frame(hook', rpc', store.owner)
    PROVE  /\ Within(store, l)
           /\ Writable(l, rpc[s].run, {rpc[s].snap.total})
           /\ Within(store', l) => BudgetInv'
<1>1. PICK k : k = Frame(hook, rpc, store.owner) OBVIOUS
<1>2. Within(store, k) BY <1>1 DEF BudgetInv
<1>3. \A t \in Sessions : rpc'[t] = IF t = s THEN Idle ELSE rpc[t] BY DEF CallsOK
<1>4. Idle.run = None BY DEF Idle
<1>5. \A q \in RunIds : Room(hook, rpc, q) \subseteq Room(hook', rpc', q)
      BY <1>3, <1>4, NoneIsNoState DEF Room
<1>6. Within(store, l)
  <2>1. PICK w : w = store OBVIOUS
  <2>2. PICK i, j : i = hook' /\ j = rpc' OBVIOUS
  <2>3. \A q \in RunIds : Room(hook, rpc, q) \subseteq Room(i, j, q) BY <1>5, <2>2
  <2>4. l = Frame(i, j, store.owner) BY <2>2
  <2>5. Within(w, k) BY <1>2, <2>1
  <2>6. Within(w, l) BY ONLY <1>1, <2>3, <2>4, <2>5, FrameWidens
  <2> QED BY <2>1, <2>6
<1>7. PICK r : r = rpc[s].run OBVIOUS
<1>8. PICK n : n = rpc[s].snap.total OBVIOUS
<1>9. r \in RunIds /\ r # None /\ rpc[s].snap \in Alive BY <1>7, HeldRun, NoneIsNoState
<1>10. n \in 0..Cap
  <2>1. n \in Nat /\ Cap \in Nat BY <1>8, <1>9, CapIsLargest DEF Alive, States, Run
  <2>2. n <= Cap BY <1>7, <1>8, <1>9 DEF BudgetInv, CallsBounded
  <2> QED BY <2>1, <2>2
<1>11. \A t \in Sessions : /\ rpc'[t].run # r
                           /\ hook[t].run = r => n <= hook[t].snap.total
  <2> SUFFICES ASSUME NEW t \in Sessions
               PROVE  rpc'[t].run # r /\ (hook[t].run = r => n <= hook[t].snap.total)
      OBVIOUS
  <2>1. store.owner[r] = s BY <1>7, <1>9 DEF BudgetInv, CallsBounded
  <2>2. hook[t].run = r => t = s BY <1>9, <2>1 DEF BudgetInv, CallsBounded
  <2>3. rpc[t].run = r => t = s BY <1>9, <2>1 DEF BudgetInv, CallsBounded
  <2>4. hook[s].run = r => n <= hook[s].snap.total
        BY <1>7, <1>8, <1>9 DEF BudgetInv, CallsBounded
  <2> QED BY <1>3, <1>4, <1>9, <2>2, <2>3, <2>4
<1>12. n \in Room(hook', rpc', r) BY <1>10, <1>11 DEF Room
<1>13. Writable(l, r, {n}) BY <1>9, <1>12, FrameAllows DEF Writable
<1>14. CallsBounded(hook', rpc', store.owner)
       BY <1>3, <1>4 DEF BudgetInv, CallsBounded
<1>15. ASSUME Within(store', l) PROVE BudgetInv'
  <2>1. store'.owner = store.owner BY <1>15 DEF Within, Frame
  <2> QED BY <1>14, <1>15, <2>1 DEF BudgetInv
<1> QED BY <1>6, <1>7, <1>8, <1>13, <1>15
-----------------------------------------------------------------------------
(* A new run has counted nothing.                                          *)
LEMMA FreshTotal == Fresh.total = 0
<1>1. PICK a : a = ActivateRequested(InitialState) OBVIOUS
<1>2. PICK y : y = [InitialState EXCEPT !.orch = "unclaimed", !.blocked = "none",
                      !.attempt = 0, !.due = FALSE, !.evidence = "none",
                      !.unverified = FALSE, !.enabled = TRUE, !.age = "fresh"]
      OBVIOUS
<1>3. y \in Run /\ y.total = 0 /\ y.orch = "unclaimed"
      BY <1>2 DEF InitialState, Run, OrchestrationStates
<1>4. a = Derived(y) BY <1>1, <1>2 DEF ActivateRequested
<1>5. a \in Run /\ a.total = 0 /\ a.orch = "unclaimed" BY <1>3, <1>4, DerivedFields
<1>6. PICK z : z = [a EXCEPT !.orch = "claimed", !.blocked = "none", !.attempt = 0,
                             !.due = FALSE, !.age = "fresh"]
      OBVIOUS
<1>7. z \in Run /\ z.total = 0 BY <1>5, <1>6 DEF Run, OrchestrationStates
<1>8. Fresh = Derived(z) BY <1>1, <1>5, <1>6 DEF Fresh, WorkspaceReady
<1> QED BY <1>7, <1>8, DerivedFields

(* An activation gives the session a run that nobody holds.                *)
LEMMA BudgetActivate ==
    ASSUME StoreOK, CallsOK, BudgetInv, NEW s \in Sessions, Activate(s)
    PROVE  BudgetInv'
<1>1. PICK k : k = Frame(hook, rpc, store.owner) OBVIOUS
<1>2. Within(store, k) /\ Loose(k) BY <1>1, FrameIsLoose DEF BudgetInv
<1>3. PICK r \in RunIds :
        /\ store.owner[r] = None
        /\ \A l : Gives(k, l, r, s) /\ Allowed(l, r, Fresh) => Within(store', l)
      BY <1>2, ActivateWithin
<1>4. PICK o : o = [store.owner EXCEPT ![r] = s] OBVIOUS
<1>5. PICK l : l = Frame(hook, rpc, o) OBVIOUS
<1>6. store.owner \in [RunIds -> Sessions \cup {None}]
      BY DEF StoreOK, Fine, Sturdy, Stores
<1>7. r # None /\ \A t \in Sessions : t # None BY NoneIsNoState
<1>8. \A t \in Sessions : hook[t].run # r /\ rpc[t].run # r
      BY <1>3, <1>7 DEF BudgetInv, CallsBounded
<1>9. Gives(k, l, r, s)
  <2>1. /\ l.states = k.states /\ l.totals = k.totals
        /\ l.owner = [k.owner EXCEPT ![r] = s]
        BY <1>1, <1>4, <1>5 DEF Frame
  <2>2. Loose(l) BY <1>5, FrameIsLoose
  <2>3. k.currents = OwnRuns(store.owner) /\ l.currents = OwnRuns(o)
        BY <1>1, <1>5 DEF Frame
  <2>4. ASSUME NEW c \in OwnRuns(store.owner) PROVE c \in OwnRuns(o)
    <3>1. ASSUME NEW t \in Sessions, c[t] # None PROVE o[c[t]] = t
      <4>1. c[t] \in RunIds /\ store.owner[c[t]] = t BY <3>1 DEF OwnRuns
      <4> QED BY <1>3, <1>4, <1>6, <1>7, <4>1
    <3> QED BY <3>1 DEF OwnRuns
  <2>5. ASSUME NEW c \in OwnRuns(o) PROVE [c EXCEPT ![s] = r] \in OwnRuns(o)
        BY <1>4, <1>6 DEF OwnRuns
  <2> QED BY <2>1, <2>2, <2>3, <2>4, <2>5 DEF Gives
<1>10. Allowed(l, r, Fresh)
  <2>1. Fresh \in States BY FreshRun DEF Alive
  <2>2. 0 \in 0..Cap BY CapIsLargest
  <2>3. Fresh.total \in Room(hook, rpc, r) BY <1>8, <2>2, FreshTotal DEF Room
  <2> QED BY <1>5, <2>1, <2>3, FrameAllows
<1>11. Within(store', l) BY <1>3, <1>9, <1>10
<1>12. UNCHANGED <<hook, rpc>> BY DEF Activate
<1>13. store'.owner = o BY <1>5, <1>11 DEF Within, Frame
<1>14. CallsBounded(hook, rpc, o)
  <2>1. \A t \in Sessions : /\ hook[t].run # None => o[hook[t].run] = store.owner[hook[t].run]
                            /\ rpc[t].run # None => o[rpc[t].run] = store.owner[rpc[t].run]
    <3>1. \A t \in Sessions : /\ hook[t] # Idle => hook[t].run \in RunIds
                              /\ rpc[t] # Idle => rpc[t].run \in RunIds
          BY HeldRun
    <3>2. Idle.run = None BY DEF Idle
    <3>3. \A t \in Sessions : /\ hook[t].run # None => hook[t].run \in RunIds
                              /\ rpc[t].run # None => rpc[t].run \in RunIds
          BY <3>1, <3>2
    <3> QED BY <1>4, <1>6, <1>8, <3>3
  <2> QED BY <2>1 DEF BudgetInv, CallsBounded
<1> QED BY <1>5, <1>11, <1>12, <1>13, <1>14 DEF BudgetInv

(* The index names runs of the session.                                    *)
LEMMA BudgetSessionStart ==
    ASSUME StoreOK, BudgetInv, NEW s \in Sessions, SessionStart(s)
    PROVE  BudgetInv'
<1>1. PICK k : k = Frame(hook, rpc, store.owner) OBVIOUS
<1>2. Within(store, k) BY <1>1 DEF BudgetInv
<1>3. PICK r : r = store.index[s] OBVIOUS
<1>4. r # None /\ store.disk[r] # None BY <1>3 DEF SessionStart
<1>5. store \in Stores /\ r \in RunIds BY <1>2, <1>3, <1>4 DEF Within, Stores
<1>6. store.owner[r] = s BY <1>1, <1>2, <1>3, <1>4 DEF Within, Frame
<1>7. \A c \in k.currents : [c EXCEPT ![s] = store.index[s]] \in k.currents
      BY <1>1, <1>3, <1>5, <1>6 DEF Frame, OwnRuns
<1>8. \A age \in Ages : \A due \in BOOLEAN :
         Loaded(store, r, age, due) \in k.states[r]
      BY <1>1, <1>4, <1>5, LoadedState DEF Frame
<1>9. Within(store', k) BY <1>2, <1>3, <1>7, <1>8, SessionStartWithin
<1>10. UNCHANGED <<hook, rpc>> BY DEF SessionStart
<1> QED BY <1>1, <1>9, <1>10, BudgetStays

(* A new process holds no run in a handler.                                *)
LEMMA BudgetRestart ==
    ASSUME StoreOK, StoreOK', BudgetInv, Restart
    PROVE  BudgetInv'
<1>1. PICK k : k = Frame(hook, rpc, store.owner) OBVIOUS
<1>2. Within(store, k) /\ store \in Stores BY <1>1 DEF BudgetInv, Within
<1>3. PICK age \in Downtimes, due \in BOOLEAN, swept \in SUBSET Sweepable,
           last \in [Sessions -> RunIds \cup {None}] :
         LastOne(last) /\ store' = Registered(age, due, swept, last)
      BY DEF Restart
<1>4. /\ store'.owner = store.owner /\ store'.index = store.index
      /\ store'.current = last
      /\ \A q \in RunIds :
            /\ store'.queue[q] = None
            /\ store'.disk[q] # None => store'.disk[q] = store.disk[q]
            /\ store'.runs[q] # None =>
                 q \in Recoverable(store) /\ store'.runs[q] = Loaded(store, q, age, due)
      BY <1>3 DEF Registered
<1>5. hook' = [t \in Sessions |-> Idle] /\ rpc' = [t \in Sessions |-> Idle]
      BY DEF Restart
<1>6. \A t \in Sessions : hook'[t].run = None /\ rpc'[t].run = None
      BY <1>5 DEF Idle
<1>7. \A q \in RunIds : Room(hook, rpc, q) \subseteq Room(hook', rpc', q)
      BY <1>6, NoneIsNoState DEF Room
<1>8. last \in OwnRuns(store.owner)
  <2>1. ASSUME NEW t \in Sessions, last[t] # None PROVE store.owner[last[t]] = t
        BY <1>3, <2>1 DEF LastOne
  <2> QED BY <2>1 DEF OwnRuns
<1>9. ASSUME NEW q \in RunIds
      PROVE  /\ store'.disk[q] # None => store'.disk[q].total \in Room(hook', rpc', q)
             /\ store'.runs[q] # None => /\ store'.runs[q] \in States
                                         /\ store'.runs[q].total \in Room(hook', rpc', q)
  <2>1. store.disk[q] # None => store.disk[q].total \in Room(hook', rpc', q)
        BY <1>1, <1>2, <1>7 DEF Within, Frame
  <2>2. store'.disk[q] # None => store'.disk[q].total \in Room(hook', rpc', q)
        BY <1>4, <2>1
  <2>3. ASSUME store'.runs[q] # None
        PROVE  /\ store'.runs[q] \in States
               /\ store'.runs[q].total \in Room(hook', rpc', q)
    <3>1. store.disk[q] # None /\ store'.runs[q] = Loaded(store, q, age, due)
          BY <1>4, <2>3 DEF Recoverable
    <3>2. /\ Loaded(store, q, age, due) \in States
          /\ Same(store.disk[q], Loaded(store, q, age, due))
          BY <1>2, <3>1, LoadedState DEF Downtimes
    <3> QED BY <2>1, <3>1, <3>2 DEF Same
  <2> QED BY <2>2, <2>3
<1>10. PICK l : l = Frame(hook', rpc', store.owner) OBVIOUS
<1>11. Within(store', l)
  <2>1. store' \in Stores BY DEF StoreOK, Fine, Sturdy
  <2>2. /\ l.owner = store.owner /\ l.currents = OwnRuns(store.owner)
        /\ \A q \in RunIds : l.states[q] = States /\ l.totals[q] = Room(hook', rpc', q)
        BY <1>10 DEF Frame
  <2>3. \A t \in Sessions : store.index[t] # None => store.owner[store.index[t]] = t
        BY <1>1, <1>2 DEF Within, Frame
  <2> QED BY <1>4, <1>8, <1>9, <2>1, <2>2, <2>3 DEF Within
<1>12. CallsBounded(hook', rpc', store.owner) BY <1>6 DEF CallsBounded
<1> QED BY <1>4, <1>10, <1>11, <1>12 DEF BudgetInv

(* Time does not count continuations.                                      *)
LEMMA BudgetQuiet ==
    ASSUME StoreOK, CallsOK, BudgetInv, NEW r \in RunIds, Quiet(r)
    PROVE  BudgetInv'
<1>1. PICK k : k = Frame(hook, rpc, store.owner) OBVIOUS
<1>2. Open(k) BY <1>1, BudgetOpen
<1>3. Within(store', k) BY <1>2, QuietWithin
<1>4. PICK age : age = IF store.runs[r].age = "fresh" THEN "stalled" ELSE "orphan"
      OBVIOUS
<1>5. /\ hook' = [t \in Sessions |->
                      IF hook[t].run # r THEN hook[t]
                      ELSE [hook[t] EXCEPT !.snap = Older(hook[t].snap, age)]]
      /\ rpc' = [t \in Sessions |->
                      IF rpc[t].run # r THEN rpc[t]
                      ELSE [rpc[t] EXCEPT !.snap = Older(rpc[t].snap, age)]]
      BY <1>4 DEF Quiet
<1>6. \A z \in Alive : Older(z, age).total = z.total BY DEF Older, Alive, States, Run
<1>7. Idle.run # r BY NoneIsNoState DEF Idle
<1>8. \A ats : \A f \in Calls(ats) :
         f.run = r => LET g == [f EXCEPT !.snap = Older(f.snap, age)]
                      IN  g.run = f.run /\ g.at = f.at /\ g.snap.total = f.snap.total
  <2> SUFFICES ASSUME NEW ats, NEW f \in Calls(ats), f.run = r,
                      NEW y, y = Older(f.snap, age), NEW g, g = [f EXCEPT !.snap = y]
               PROVE  g.run = f.run /\ g.at = f.at /\ g.snap.total = f.snap.total
      OBVIOUS
  <2>1. f \in [at : ats, run : RunIds, snap : Alive] BY <1>7 DEF Calls
  <2>2. g.run = f.run /\ g.at = f.at /\ g.snap = y BY <2>1
  <2>3. y.total = f.snap.total BY <1>6, <2>1
  <2> QED BY <2>2, <2>3
<1>9. SameCalls(hook, hook') BY <1>5, <1>8 DEF SameCalls, CallsOK
<1>10. SameCalls(rpc, rpc') BY <1>5, <1>8 DEF SameCalls, CallsOK
<1> QED BY <1>1, <1>3, <1>9, <1>10, BudgetWaits

(* The end of a backoff does not count continuations either.               *)
LEMMA BudgetBackoffOver ==
    ASSUME StoreOK, CallsOK, BudgetInv, NEW r \in RunIds, BackoffOver(r)
    PROVE  BudgetInv'
<1>1. PICK k : k = Frame(hook, rpc, store.owner) OBVIOUS
<1>2. Open(k) BY <1>1, BudgetOpen
<1>3. Within(store', k) BY <1>2, BackoffOverWithin
<1>4. /\ hook' = [t \in Sessions |->
                      IF hook[t].run # r THEN hook[t]
                      ELSE [hook[t] EXCEPT !.snap.due = @ \/ hook[t].snap.attempt > 0]]
      /\ rpc' = [t \in Sessions |->
                      IF rpc[t].run # r THEN rpc[t]
                      ELSE [rpc[t] EXCEPT !.snap.due = @ \/ rpc[t].snap.attempt > 0]]
      BY DEF BackoffOver
<1>5. Idle.run # r BY NoneIsNoState DEF Idle
<1>6. \A ats : \A f \in Calls(ats) :
         f.run = r => LET g == [f EXCEPT !.snap.due = @ \/ f.snap.attempt > 0]
                      IN  g.run = f.run /\ g.at = f.at /\ g.snap.total = f.snap.total
  <2> SUFFICES ASSUME NEW ats, NEW f \in Calls(ats), f.run = r,
                      NEW d, d = (f.snap.due \/ f.snap.attempt > 0),
                      NEW g, g = [f EXCEPT !.snap.due = d]
               PROVE  g.run = f.run /\ g.at = f.at /\ g.snap.total = f.snap.total
      OBVIOUS
  <2>1. f \in [at : ats, run : RunIds, snap : Alive] BY <1>5 DEF Calls
  <2>2. PICK y : y = [f.snap EXCEPT !.due = d] OBVIOUS
  <2>3. g = [f EXCEPT !.snap = y] BY <2>2
  <2>4. g.run = f.run /\ g.at = f.at /\ g.snap = y BY <2>1, <2>3
  <2>5. y.total = f.snap.total BY <2>1, <2>2 DEF Alive, States, Run
  <2> QED BY <2>4, <2>5
<1>7. SameCalls(hook, hook') BY <1>4, <1>6 DEF SameCalls, CallsOK
<1>8. SameCalls(rpc, rpc') BY <1>4, <1>6 DEF SameCalls, CallsOK
<1> QED BY <1>1, <1>3, <1>7, <1>8, BudgetWaits

(* A turn is counted by a session whose handler does not hold its run.     *)
LEMMA BudgetCounting ==
    ASSUME StoreOK, CallsOK, BudgetInv, NEW s \in Sessions, HasRun(s), hook[s] = Idle,
           NEW k, k = Frame(hook, rpc, store.owner)
    PROVE  Counting(k, s)
<1>1. PICK r : r = RunOf(s) OBVIOUS
<1>2. PICK x : x = StateOf(s) OBVIOUS
<1>3. r \in RunIds /\ r # None /\ x \in States /\ x = store.runs[r] /\ x # None
      BY <1>1, <1>2, FoundRun, NoneIsNoState DEF InMemory
<1>4. \A t \in Sessions : hook[t].run # r
  <2>1. hook[s].run = None BY DEF Idle
  <2> QED BY <1>1, <1>3, <2>1, OwnCalls
<1>5. Within(store, k) BY DEF BudgetInv
<1>6. PICK n : n = x.total OBVIOUS
<1>7. n \in Room(hook, rpc, r) BY <1>3, <1>5, <1>6 DEF Within, Frame
<1>8. n \in Nat /\ \A t \in Sessions : rpc[t].run = r => rpc[t].snap.total <= n
      BY <1>7, CapIsLargest DEF Room
<1>9. \A t \in Sessions : rpc[t].run = r => rpc[t].snap.total \in Nat
  <2>1. Idle.run # r BY <1>3 DEF Idle
  <2>2. \A t \in Sessions : rpc[t].run = r => rpc[t].snap \in Alive BY <2>1, HeldRun
  <2> QED BY <2>2 DEF Alive, States, Run
<1>10. ASSUME NEW y \in States, n < Cap, y.total = n + 1 PROVE Allowed(k, r, y)
  <2>1. n + 1 \in 0..Cap BY <1>8, <1>10, CapIsLargest
  <2>2. \A t \in Sessions : rpc[t].run = r => rpc[t].snap.total <= n + 1
        BY <1>8, <1>9
  <2>3. n + 1 \in Room(hook, rpc, r) BY <1>4, <2>1, <2>2 DEF Room
  <2>4. y.total \in Room(hook, rpc, r) BY <1>10, <2>3
  <2> QED BY <1>3, <1>10, <2>4, FrameAllows
<1> QED BY <1>1, <1>2, <1>6, <1>10 DEF Counting

(* The finalize hook counts a turn or is suspended.                        *)
LEMMA BudgetFinalize ==
    ASSUME StoreOK, CallsOK, BudgetInv, StoreOK', NEW s \in Sessions, NEW signal,
           Finalize(s, signal)
    PROVE  BudgetInv'
<1>1. PICK k : k = Frame(hook, rpc, store.owner) OBVIOUS
<1>2. HasRun(s) /\ hook[s] = Idle /\ UNCHANGED rpc BY DEF Finalize
<1>3. Open(k) /\ Counting(k, s) BY <1>1, <1>2, BudgetOpen, BudgetCounting
<1>4. Within(store', k) /\ (UNCHANGED hook \/ Suspends(s)) BY <1>3, FinalizeWithin
<1> QED BY <1>1, <1>2, <1>4, BudgetStays, BudgetSuspends

(* So does agent_end.                                                      *)
LEMMA BudgetAgentEnd ==
    ASSUME StoreOK, CallsOK, BudgetInv, StoreOK', NEW s \in Sessions, AgentEnd(s)
    PROVE  BudgetInv'
<1>1. PICK k : k = Frame(hook, rpc, store.owner) OBVIOUS
<1>2. hook[s] = Idle /\ UNCHANGED rpc BY DEF AgentEnd
<1>3. Open(k) BY <1>1, BudgetOpen
<1>4. HasRun(s) => Counting(k, s) BY <1>1, <1>2, BudgetCounting
<1>5. Within(store', k) /\ (UNCHANGED hook \/ (HasRun(s) /\ Suspends(s)))
      BY <1>3, <1>4, AgentEndWithin
<1> QED BY <1>1, <1>2, <1>5, BudgetStays, BudgetSuspends

(* A handler that continues after its await.                               *)
LEMMA BudgetReply ==
    ASSUME StoreOK, CallsOK, BudgetInv, NEW s \in Sessions,
           \/ ValidationDone(s)
           \/ \E accepted \in BOOLEAN : \/ ResumeRunReply(s, accepted)
                                        \/ CrossTurnReply(s, accepted)
                                        \/ DegradedReply(s, accepted)
    PROVE  BudgetInv'
<1>1. PICK l : l = Frame(hook', rpc', store.owner) OBVIOUS
<1>2. Loose(l) BY <1>1, FrameIsLoose
<1>3. ASSUME NEW accepted \in BOOLEAN, ResumeRunReply(s, accepted) PROVE BudgetInv'
  <2>1. rpc[s] # Idle /\ rpc' = [rpc EXCEPT ![s] = Idle] /\ UNCHANGED hook
        BY <1>3 DEF ResumeRunReply
  <2>2. /\ Within(store, l) /\ Writable(l, rpc[s].run, {rpc[s].snap.total})
        /\ Within(store', l) => BudgetInv'
        BY <1>1, <2>1, RpcAnswers
  <2>3. Within(store', l) BY <1>2, <1>3, <2>2, ResumeRunReplyWithin
  <2> QED BY <2>2, <2>3
<1>4. ASSUME hook[s].at # "none", hook' = [hook EXCEPT ![s] = Idle], UNCHANGED rpc
      PROVE  /\ Within(store, l)
             /\ Writable(l, hook[s].run, {hook[s].snap.total})
             /\ hook[s].at # "validation" => Writable(l, hook[s].run, Counted(hook[s]))
             /\ Within(store', l) => BudgetInv'
  <2>1. hook[s] # Idle BY <1>4 DEF Idle
  <2> QED BY <1>1, <1>4, <2>1, HookAnswers
<1>5. CASE ValidationDone(s)
  <2>1. hook[s].at # "none" /\ hook' = [hook EXCEPT ![s] = Idle] /\ UNCHANGED rpc
        BY <1>5 DEF ValidationDone
  <2>2. Within(store', l) BY <1>4, <1>5, <2>1, ValidationDoneWithin
  <2> QED BY <1>4, <2>1, <2>2
<1>6. ASSUME NEW accepted \in BOOLEAN, CrossTurnReply(s, accepted) PROVE BudgetInv'
  <2>1. /\ hook[s].at # "none" /\ hook[s].at # "validation"
        /\ hook' = [hook EXCEPT ![s] = Idle] /\ UNCHANGED rpc
        BY <1>6 DEF CrossTurnReply
  <2>2. Within(store', l) BY <1>2, <1>4, <1>6, <2>1, CrossTurnReplyWithin
  <2> QED BY <1>4, <2>1, <2>2
<1>7. ASSUME NEW accepted \in BOOLEAN, DegradedReply(s, accepted) PROVE BudgetInv'
  <2>1. /\ hook[s].at # "none" /\ hook[s].at # "validation"
        /\ hook' = [hook EXCEPT ![s] = Idle] /\ UNCHANGED rpc
        BY <1>7 DEF DegradedReply
  <2>2. Within(store', l) BY <1>2, <1>4, <1>7, <2>1, DegradedReplyWithin
  <2> QED BY <1>4, <2>1, <2>2
<1> QED BY <1>3, <1>5, <1>6, <1>7

(* Actions that write steady states and leave the handlers alone.          *)
LEMMA BudgetPlain ==
    ASSUME StoreOK, CallsOK, BudgetInv, Plain \/ Forgetting
    PROVE  BudgetInv'
<1>1. PICK k : k = Frame(hook, rpc, store.owner) OBVIOUS
<1>2. Open(k) /\ Loose(k) BY <1>1, BudgetOpen, FrameIsLoose
<1>3. Within(store', k) BY <1>2, PlainStaysWithin, ForgettingStaysWithin
<1>4. CASE UNCHANGED <<hook, rpc>> BY <1>1, <1>3, <1>4, BudgetStays
<1>5. ASSUME NEW s \in Sessions, ResumeRun(s) PROVE BudgetInv' BY <1>5, BudgetResumeRun
<1>6. ASSUME NEW r \in RunIds, Quiet(r) \/ BackoffOver(r) PROVE BudgetInv'
      BY <1>6, BudgetQuiet, BudgetBackoffOver
<1>7. \/ UNCHANGED <<hook, rpc>>
      \/ \E s \in Sessions : ResumeRun(s)
      \/ \E r \in RunIds : Quiet(r) \/ BackoffOver(r)
  <2>1. CASE Forgetting
        BY <2>1 DEF Forgetting, SessionEnd, ExtensionCleanup, Cleanup, Patrol
  <2>2. CASE Plain
        BY <2>2 DEF Plain, ResumePaused, Stop, SetGoal, TurnPrepare, Activity,
                    FinalizeNoRun, CapExceeded, vars
  <2> QED BY <2>1, <2>2
<1> QED BY <1>4, <1>5, <1>6, <1>7

(* Every action keeps the budget.                                          *)
LEMMA BudgetStep == IInv /\ IInv' /\ BudgetInv /\ [Next]_vars => BudgetInv'
<1> SUFFICES ASSUME StoreOK, CallsOK, StoreOK', BudgetInv, [Next]_vars PROVE BudgetInv'
    BY DEF IInv
<1>1. \/ Plain \/ Forgetting
      \/ \E s \in Sessions :
           \/ Activate(s) \/ SessionStart(s) \/ AgentEnd(s) \/ ValidationDone(s)
           \/ \E signal : Finalize(s, signal)
           \/ \E accepted \in BOOLEAN : \/ ResumeRunReply(s, accepted)
                                        \/ CrossTurnReply(s, accepted)
                                        \/ DegradedReply(s, accepted)
      \/ Restart
      BY DEF Next, Plain, Forgetting
<1>2. ASSUME NEW s \in Sessions,
             \/ Activate(s) \/ SessionStart(s) \/ AgentEnd(s) \/ ValidationDone(s)
             \/ \E signal : Finalize(s, signal)
             \/ \E accepted \in BOOLEAN : \/ ResumeRunReply(s, accepted)
                                          \/ CrossTurnReply(s, accepted)
                                          \/ DegradedReply(s, accepted)
      PROVE  BudgetInv'
  <2>1. CASE \E signal : Finalize(s, signal) BY <2>1, BudgetFinalize
  <2>2. CASE \/ ValidationDone(s)
             \/ \E accepted \in BOOLEAN : \/ ResumeRunReply(s, accepted)
                                          \/ CrossTurnReply(s, accepted)
                                          \/ DegradedReply(s, accepted)
        BY <2>2, BudgetReply
  <2> QED BY <1>2, <2>1, <2>2, BudgetActivate, BudgetSessionStart, BudgetAgentEnd
<1> QED BY <1>1, <1>2, BudgetPlain, BudgetRestart

(* Nothing is counted at first.                                            *)
LEMMA InitBudget == Init => BudgetInv
<1> SUFFICES ASSUME Init PROVE BudgetInv OBVIOUS
<1>1. store = EmptyStore /\ StoreOK BY InitInvariant DEF Init, IInv
<1>2. store \in Stores BY <1>1 DEF StoreOK, Fine, Sturdy
<1>3. /\ \A q \in RunIds : /\ store.runs[q] = None /\ store.disk[q] = None
                           /\ store.queue[q] = None
      /\ \A s \in Sessions : store.index[s] = None
      /\ store.current = [s \in Sessions |-> None]
      BY <1>1 DEF EmptyStore
<1>4. store.current \in OwnRuns(store.owner) BY <1>3 DEF OwnRuns
<1>5. Within(store, Frame(hook, rpc, store.owner))
      BY <1>2, <1>3, <1>4 DEF Within, Frame
<1>6. \A s \in Sessions : hook[s].run = None /\ rpc[s].run = None BY DEF Init, Idle
<1>7. CallsBounded(hook, rpc, store.owner) BY <1>6 DEF CallsBounded
<1> QED BY <1>5, <1>7 DEF BudgetInv

(* The strengthening is inductive beside IInv.                             *)
LEMMA BudgetInvariance == Spec => []BudgetInv
<1>1. BudgetInv /\ IInv /\ IInv' /\ [Next]_vars => BudgetInv' BY BudgetStep
<1> QED BY <1>1, AutopilotInvariance, InitBudget, PTL DEF Spec

(* For any number of sessions and runs and any limits: no interleaving of  *)
(* turns, resumptions, stale writes and restarts takes a run past its      *)
(* continuation budget or the early-completion guard above it.             *)
THEOREM BudgetHolds == Spec => []ContinuationBudget
<1>1. IInv /\ BudgetInv => ContinuationBudget
  <2> SUFFICES ASSUME BudgetInv, NEW r \in InMemory(store)
               PROVE  store.runs[r].total <= Cap
      BY DEF ContinuationBudget, Memory, Cap
  <2>1. store.runs[r].total \in Room(hook, rpc, r)
        BY DEF BudgetInv, Within, Frame, InMemory
  <2> QED BY <2>1, CapIsLargest DEF Room
<1> QED BY <1>1, AutopilotInvariance, BudgetInvariance, PTL
-----------------------------------------------------------------------------
(* A run that ended and that no handler holds may only be written ended.   *)
EndFrame ==
    [states   |-> [q \in RunIds |->
                     {y \in States :
                        ~Held(q) /\ store.runs[q] # None /\ Ended(store.runs[q]) => Ended(y)}],
     totals   |-> [q \in RunIds |-> Nat],
     owner    |-> store.owner,
     currents |-> [Sessions -> RunIds \cup {None}]]

(* What it means for a store.                                              *)
KeepsEnds(w) ==
    \A r \in InMemory(store) :
        Ended(store.runs[r]) /\ ~Held(r) /\ w.runs[r] # None => Ended(w.runs[r])

(* What may be written to run q.                                           *)
LEMMA EndAllows ==
    ASSUME NEW k, k = EndFrame, NEW q \in RunIds, NEW y \in States
    PROVE  Allowed(k, q, y) <=>
             (~Held(q) /\ store.runs[q] # None /\ Ended(store.runs[q]) => Ended(y))
BY DEF Allowed, EndFrame, States, Run

(* Steady writes keep a run that ended ended.                              *)
LEMMA EndIsOpen ==
    ASSUME StoreOK, BudgetInv, NEW k, k = EndFrame
    PROVE  Open(k) /\ Loose(k) /\ Within(store, k)
<1>1. store \in Stores /\ \A q \in RunIds : store.queue[q] = None
      BY DEF StoreOK, Fine, Sturdy
<1>2. \A t \in Sessions : store.index[t] # None => store.owner[store.index[t]] = t
      BY DEF BudgetInv, Within, Frame
<1>3. \A y \in States : y.total \in Nat BY DEF States, Run
<1>4. /\ k.owner = store.owner /\ k.currents = [Sessions -> RunIds \cup {None}]
      /\ \A q \in RunIds :
           /\ k.totals[q] = Nat
           /\ \A y \in States : y \in k.states[q] <=>
                (~Held(q) /\ store.runs[q] # None /\ Ended(store.runs[q]) => Ended(y))
      BY DEF EndFrame
<1>5. Within(store, k)
  <2>1. \A q \in RunIds : /\ store.runs[q] # None => store.runs[q] \in States
                          /\ store.disk[q] # None => store.disk[q] \in States
        BY <1>1 DEF Stores, Slot
  <2>2. store.current \in k.currents BY <1>1, <1>4 DEF Stores
  <2> QED BY <1>1, <1>2, <1>3, <1>4, <2>1, <2>2 DEF Within
<1>6. Loose(k) BY <1>4 DEF Loose
<1>7. ASSUME NEW q \in RunIds, NEW y, store.runs[q] # None, Steady(store.runs[q], y)
      PROVE  Allowed(k, q, y)
      BY <1>7, EndAllows DEF Steady
<1> QED BY <1>5, <1>6, <1>7 DEF Open

(* A store within the frame keeps the ends.                                *)
LEMMA EndHolds ==
    ASSUME NEW k, k = EndFrame, NEW w, Within(w, k)
    PROVE  KeepsEnds(w)
BY DEF KeepsEnds, Within, EndFrame, InMemory

(* The handlers that write.                                                *)
LEMMA EndKept ==
    ASSUME StoreOK, CallsOK, BudgetInv, [Next]_vars,
           ~Restart, \A s \in Sessions : ~SessionStart(s)
    PROVE  KeepsEnds(store')
<1>1. PICK k : k = EndFrame OBVIOUS
<1>2. Open(k) /\ Loose(k) /\ Within(store, k) BY <1>1, EndIsOpen
<1>3. \/ Plain \/ Forgetting
      \/ \E s \in Sessions :
           \/ Activate(s) \/ AgentEnd(s) \/ ValidationDone(s)
           \/ \E signal : Finalize(s, signal)
           \/ \E accepted \in BOOLEAN : \/ ResumeRunReply(s, accepted)
                                        \/ CrossTurnReply(s, accepted)
                                        \/ DegradedReply(s, accepted)
      BY DEF Next, Plain, Forgetting
<1>4. CASE Plain \/ Forgetting
  <2>1. Within(store', k) BY <1>2, <1>4, PlainStaysWithin, ForgettingStaysWithin
  <2>2. PICK w : w = store' OBVIOUS
  <2>3. KeepsEnds(w) BY <1>1, <2>1, <2>2, EndHolds
  <2> QED BY <2>2, <2>3
<1>5. ASSUME NEW s \in Sessions, NEW r \in RunIds, r = hook[s].run \/ r = rpc[s].run,
             NEW totals
      PROVE  Writable(k, r, totals)
      BY <1>1, <1>5, EndAllows DEF Writable, Held
<1>6. ASSUME NEW s \in Sessions, HasRun(s) PROVE Counting(k, s)
  <2>1. RunOf(s) \in RunIds /\ StateOf(s) \in States /\ StateOf(s) = store.runs[RunOf(s)]
        BY <1>6, FoundRun DEF StateOf
  <2>2. StateOf(s).status = "running" => ~Ended(StateOf(s)) BY <2>1, RunningIsNotEnded
  <2> QED BY <1>1, <2>1, <2>2, EndAllows DEF Counting
<1>7. ASSUME NEW s \in Sessions, Activate(s) PROVE Within(store', k) \/ KeepsEnds(store')
  <2>1. PICK r \in RunIds :
          /\ store.owner[r] = None
          /\ \A l : Gives(k, l, r, s) /\ Allowed(l, r, Fresh) => Within(store', l)
        BY <1>2, <1>7, ActivateWithin
  <2>2. PICK l : l = [states |-> k.states, totals |-> k.totals,
                      owner |-> [k.owner EXCEPT ![r] = s], currents |-> k.currents]
        OBVIOUS
  <2>3. Gives(k, l, r, s)
    <3>1. Loose(l) BY <1>2, <2>2 DEF Loose
    <3>2. \A c \in k.currents : [c EXCEPT ![s] = r] \in k.currents BY <1>1 DEF EndFrame
    <3> QED BY <2>2, <3>1, <3>2 DEF Gives
  <2>4. store.runs[r] = None BY <2>1 DEF StoreOK, Fine, Sturdy, Owned
  <2>5. Allowed(k, r, Fresh) BY <1>1, <2>4, FreshRun, EndAllows DEF Alive
  <2>6. Within(store', l) BY <2>1, <2>2, <2>3, <2>5 DEF Allowed
  <2>7. PICK w : w = store' OBVIOUS
  <2>8. \A q \in RunIds : w.runs[q] # None => w.runs[q] \in k.states[q]
        BY <2>2, <2>6, <2>7 DEF Within
  <2>9. KeepsEnds(w) BY <1>1, <2>8 DEF KeepsEnds, EndFrame, InMemory
  <2> QED BY <2>7, <2>9
<1>8. ASSUME NEW s \in Sessions,
             \/ AgentEnd(s) \/ ValidationDone(s)
             \/ \E signal : Finalize(s, signal)
             \/ \E accepted \in BOOLEAN : \/ ResumeRunReply(s, accepted)
                                          \/ CrossTurnReply(s, accepted)
                                          \/ DegradedReply(s, accepted)
      PROVE  Within(store', k)
  <2>1. CASE AgentEnd(s) BY <1>2, <1>6, <2>1, AgentEndWithin
  <2>2. ASSUME NEW signal, Finalize(s, signal) PROVE Within(store', k)
    <3>1. HasRun(s) BY <2>2 DEF Finalize
    <3> QED BY <1>2, <1>6, <2>2, <3>1, FinalizeWithin
  <2>3. CASE ValidationDone(s)
    <3>1. hook[s].run \in RunIds BY <2>3, HeldRun DEF ValidationDone, Idle
    <3> QED BY <1>2, <1>5, <2>3, <3>1, ValidationDoneWithin
  <2>4. ASSUME NEW accepted \in BOOLEAN, ResumeRunReply(s, accepted)
        PROVE  Within(store', k)
    <3>1. rpc[s].run \in RunIds BY <2>4, HeldRun DEF ResumeRunReply
    <3> QED BY <1>2, <1>5, <2>4, <3>1, ResumeRunReplyWithin
  <2>5. ASSUME NEW accepted \in BOOLEAN, CrossTurnReply(s, accepted)
        PROVE  Within(store', k)
    <3>1. hook[s].run \in RunIds BY <2>5, HeldRun DEF CrossTurnReply, Idle
    <3> QED BY <1>2, <1>5, <2>5, <3>1, CrossTurnReplyWithin
  <2>6. ASSUME NEW accepted \in BOOLEAN, DegradedReply(s, accepted)
        PROVE  Within(store', k)
    <3>1. hook[s].run \in RunIds BY <2>6, HeldRun DEF DegradedReply, Idle
    <3> QED BY <1>2, <1>5, <2>6, <3>1, DegradedReplyWithin
  <2> QED BY <1>8, <2>1, <2>2, <2>3, <2>4, <2>5, <2>6
<1>9. ASSUME Within(store', k) PROVE KeepsEnds(store')
  <2>1. PICK w : w = store' OBVIOUS
  <2>2. KeepsEnds(w) BY <1>1, <1>9, <2>1, EndHolds
  <2> QED BY <2>1, <2>2
<1> QED BY <1>3, <1>4, <1>7, <1>8, <1>9

(* For any number of sessions and runs and any limits: a run that ended,   *)
(* and that no suspended handler holds, becomes active again only from a   *)
(* checkpoint that was left behind.                                        *)
THEOREM EndedRunsStayEnded == Spec => EndedStaysEnded
<1>1. IInv /\ BudgetInv /\ [Next]_vars =>
        [\A r \in InMemory(store) :
           Ended(store.runs[r]) /\ ~Held(r) /\ store'.runs[r] # None
             => Ended(store'.runs[r]) \/ Reloaded(r)]_vars
  <2> SUFFICES ASSUME StoreOK, CallsOK, BudgetInv, [Next]_vars,
                      NEW r \in InMemory(store),
                      Ended(store.runs[r]), ~Held(r), store'.runs[r] # None
               PROVE  Ended(store'.runs[r]) \/ Reloaded(r)
      BY DEF IInv
  <2>1. CASE Restart
    <3>1. PICK age \in Downtimes, due \in BOOLEAN, swept \in SUBSET Sweepable,
               last \in [Sessions -> RunIds \cup {None}] :
             store' = Registered(age, due, swept, last)
          BY <2>1 DEF Restart
    <3>2. r \in Recoverable(store) /\ store'.runs[r] = Loaded(store, r, age, due)
          BY <3>1 DEF Registered, InMemory
    <3> QED BY <3>2 DEF Reloaded, Recoverable, Downtimes
  <2>2. ASSUME NEW s \in Sessions, SessionStart(s)
        PROVE  Ended(store'.runs[r]) \/ Reloaded(r)
    <3>1. PICK q : q = store.index[s] OBVIOUS
    <3>2. store.disk[q] # None BY <2>2, <3>1 DEF SessionStart
    <3>3. PICK age \in Downtimes, due \in BOOLEAN :
            store' = [store EXCEPT !.runs[q] = Loaded(store, q, age, due), !.current[s] = q]
          BY <2>2, <3>1 DEF SessionStart
    <3>4. store \in Stores BY DEF StoreOK, Fine, Sturdy
    <3>5. store'.runs[r] = IF r = q THEN Loaded(store, q, age, due) ELSE store.runs[r]
      <4>1. PICK y : y = Loaded(store, q, age, due) OBVIOUS
      <4>2. store'.runs = [store.runs EXCEPT ![q] = y] BY <3>3, <3>4, <4>1 DEF Stores
      <4> QED BY <3>4, <4>1, <4>2 DEF Stores, InMemory
    <3> QED BY <3>2, <3>5 DEF Reloaded, Downtimes
  <2>3. CASE ~Restart /\ \A s \in Sessions : ~SessionStart(s)
        BY <2>3, EndKept DEF KeepsEnds
  <2> QED BY <2>1, <2>2, <2>3
<1> QED BY <1>1, AutopilotInvariance, BudgetInvariance, PTL DEF Spec, EndedStaysEnded

(* For any number of sessions and runs and any limits: after every handler *)
(* the checkpoint of an active run agrees with it on everything that       *)
(* decides whether it is written, so a crash loses none of that.           *)
THEOREM CheckpointsFollowRuns == Spec => []ActiveRunsAreDurable
<1>1. IInv => ActiveRunsAreDurable
  <2> SUFFICES ASSUME StoreOK, Checkpointing, NEW r \in InMemory(store),
                      store.runs[r].orch \in ActiveStates
               PROVE  /\ store.disk[r] # None
                      /\ Durable(store.disk[r]) = Durable(store.runs[r])
      BY DEF IInv, ActiveRunsAreDurable
  <2>1. store.runs[r] # None /\ r \in RunIds BY DEF InMemory
  <2>2. Backed(store) /\ store.queue[r] = None BY <2>1 DEF StoreOK, Fine, Sturdy
  <2>3. Landed(store, r) # None /\ Same(store.runs[r], Landed(store, r))
        BY <2>1, <2>2 DEF Backed
  <2>4. Landed(store, r) = store.disk[r] BY <2>2 DEF Landed
  <2> QED BY <2>3, <2>4 DEF Same, Durable
<1> QED BY <1>1, AutopilotInvariance, PTL
-----------------------------------------------------------------------------
(* No run comes into memory; the sessions find what currents allows.       *)
MemoryFrame(currents) ==
    [states   |-> [q \in RunIds |-> IF store.runs[q] = None THEN {} ELSE States],
     totals   |-> [q \in RunIds |-> Nat],
     owner    |-> store.owner,
     currents |-> currents]

AllCurrents == [Sessions -> RunIds \cup {None}]

(* Steady writes bring no run into memory.                                 *)
LEMMA MemoryIsOpen ==
    ASSUME StoreOK, BudgetInv, NEW currents, store.current \in currents,
           NEW k, k = MemoryFrame(currents)
    PROVE  Open(k) /\ (currents = AllCurrents => Loose(k))
<1>1. store \in Stores /\ \A q \in RunIds : store.queue[q] = None
      BY DEF StoreOK, Fine, Sturdy
<1>2. \A t \in Sessions : store.index[t] # None => store.owner[store.index[t]] = t
      BY DEF BudgetInv, Within, Frame
<1>3. \A y \in States : y.total \in Nat BY DEF States, Run
<1>4. /\ k.owner = store.owner /\ k.currents = currents
      /\ \A q \in RunIds : /\ k.totals[q] = Nat
                           /\ store.runs[q] # None => k.states[q] = States
      BY DEF MemoryFrame
<1>5. Within(store, k)
  <2>1. \A q \in RunIds : /\ store.runs[q] # None => store.runs[q] \in States
                          /\ store.disk[q] # None => store.disk[q] \in States
        BY <1>1 DEF Stores, Slot
  <2> QED BY <1>1, <1>2, <1>3, <1>4, <2>1 DEF Within
<1>6. currents = AllCurrents => Loose(k) BY <1>4 DEF Loose, AllCurrents
<1>7. ASSUME NEW q \in RunIds, NEW y, store.runs[q] # None, Steady(store.runs[q], y)
      PROVE  Allowed(k, q, y)
      BY <1>3, <1>4, <1>7 DEF Steady, Allowed
<1> QED BY <1>5, <1>6, <1>7 DEF Open

(* A store within the frame has no run that was not in memory.             *)
LEMMA MemoryShrinks ==
    ASSUME NEW currents, NEW k, k = MemoryFrame(currents), NEW w, Within(w, k)
    PROVE  /\ InMemory(w) \subseteq InMemory(store)
           /\ w.owner = store.owner /\ w.current \in currents
BY DEF Within, MemoryFrame, InMemory

(* An insertion leaves no more runs in memory than the cap.                *)
LEMMA InsertBounds ==
    ASSUME NEW w \in Stores, NEW r \in RunIds, NEW s \in States,
           NEW p \in Insertions(w, r, s)
    PROVE  p \in Stores /\ Cardinality(InMemory(p)) <= MaxRunStates
<1>1. PICK x : x = [w EXCEPT !.runs[r] = s] OBVIOUS
<1>2. x \in Stores BY <1>1 DEF Stores, Slot
<1>3. PICK changed \in BOOLEAN : changed = ShouldCheckpoint(w.runs[r], s)
      BY DEF ShouldCheckpoint
<1>4. PICK gone \in Evictable(x) : p = Persist(Evict(x, gone), r, s, changed)
      BY <1>1, <1>3 DEF Insertions
<1>5. gone \in SUBSET RunIds BY DEF Evictable, InMemory
<1>6. PICK e : e = Evict(x, gone) OBVIOUS
<1>7. e \in Stores /\ e.runs = Without(x, gone)
  <2>1. e \in Stores /\ Evicted(x, e, gone) BY <1>2, <1>5, <1>6, EvictFacts
  <2> QED BY <2>1 DEF Evicted
<1>8. p \in Stores /\ p.runs = e.runs BY <1>4, <1>6, <1>7, PersistFacts
<1>9. InMemory(p) = InMemory(x) \ gone BY <1>7, <1>8 DEF InMemory, Without
<1>10. Cardinality(InMemory(x)) \in Nat
  <2>1. InMemory(x) \in SUBSET RunIds BY DEF InMemory
  <2> QED BY <2>1, StoreAssumption, FS_Subset, FS_CardinalityType
<1>11. Cardinality(InMemory(x) \ gone)
         = IF Cardinality(InMemory(x)) > MaxRunStates
           THEN MaxRunStates ELSE Cardinality(InMemory(x))
       BY DEF Evictable
<1>12. Cardinality(InMemory(x) \ gone) <= MaxRunStates
       BY <1>10, <1>11, StoreAssumption
<1> QED BY <1>8, <1>9, <1>12

(* Fewer runs than the cap stay fewer.                                     *)
LEMMA FewerRuns ==
    ASSUME NEW w, InMemory(w) \subseteq InMemory(store),
           Cardinality(InMemory(store)) <= MaxRunStates
    PROVE  Cardinality(InMemory(w)) <= MaxRunStates
<1>1. InMemory(store) \in SUBSET RunIds BY DEF InMemory
<1>2. IsFiniteSet(InMemory(store)) BY <1>1, StoreAssumption, FS_Subset
<1>3. /\ Cardinality(InMemory(w)) <= Cardinality(InMemory(store))
      /\ IsFiniteSet(InMemory(w))
      BY <1>2, FS_Subset
<1>4. Cardinality(InMemory(w)) \in Nat /\ Cardinality(InMemory(store)) \in Nat
      BY <1>2, <1>3, FS_CardinalityType
<1> QED BY <1>3, <1>4, StoreAssumption

(* The end of a segment keeps the maps.                                    *)
LEMMA SettledMaps ==
    ASSUME NEW w \in Stores, Become(w)
    PROVE  /\ store'.runs = w.runs /\ store'.owner = w.owner /\ store'.current = w.current
           /\ InMemory(store') = InMemory(w)
<1>1. PICK f : f = Flush(w) OBVIOUS
<1>2. f.runs = w.runs /\ f.owner = w.owner /\ f.current = w.current BY <1>1, FlushFacts
<1> QED BY <1>1, <1>2 DEF Become, InMemory

(* The judgement brings no run into memory, and moves no session.          *)
LEMMA ValidationKeeps ==
    ASSUME StoreOK, CallsOK, BudgetInv, NEW s \in Sessions, ValidationDone(s)
    PROVE  /\ InMemory(store') \subseteq InMemory(store)
           /\ store'.owner = store.owner /\ store'.current = store.current
<1>1. hook[s].run \in RunIds BY HeldRun DEF ValidationDone, Idle
<1>2. store \in Stores BY DEF StoreOK, Fine, Sturdy
<1>3. CASE store.runs[hook[s].run] = None
  <2>1. Become(store) BY <1>3 DEF ValidationDone, Complete
  <2> QED BY <1>2, <2>1, SettledMaps
<1>4. CASE store.runs[hook[s].run] # None
  <2>1. PICK k : k = MemoryFrame({store.current}) OBVIOUS
  <2>2. Within(store, k) BY <2>1, MemoryIsOpen DEF Open
  <2>3. Writable(k, hook[s].run, {hook[s].snap.total})
        BY <1>1, <1>4, <2>1 DEF Writable, Allowed, MemoryFrame, States, Run
  <2>4. Within(store', k) BY <2>2, <2>3, ValidationDoneWithin
  <2>5. PICK w : w = store' OBVIOUS
  <2>6. Within(w, k) BY <2>4, <2>5
  <2>7. /\ InMemory(w) \subseteq InMemory(store)
        /\ w.owner = store.owner /\ w.current \in {store.current}
        BY ONLY <2>1, <2>6, MemoryShrinks
  <2> QED BY <2>5, <2>7
<1> QED BY <1>3, <1>4

(* Nor do the turns of a session.                                          *)
LEMMA TurnsKeep ==
    ASSUME StoreOK, BudgetInv, NEW s \in Sessions,
           AgentEnd(s) \/ \E signal : Finalize(s, signal)
    PROVE  /\ InMemory(store') \subseteq InMemory(store)
           /\ store'.owner = store.owner /\ store'.current = store.current
<1>1. PICK k : k = MemoryFrame({store.current}) OBVIOUS
<1>2. Open(k) BY <1>1, MemoryIsOpen
<1>3. HasRun(s) => Counting(k, s)
      BY <1>1, FoundRun DEF Counting, Allowed, MemoryFrame, States, Run, InMemory
<1>4. Within(store', k)
  <2>1. CASE AgentEnd(s) BY <1>2, <1>3, <2>1, AgentEndWithin
  <2>2. ASSUME NEW signal, Finalize(s, signal) PROVE Within(store', k)
    <3>1. HasRun(s) BY <2>2 DEF Finalize
    <3> QED BY <1>2, <1>3, <2>2, <3>1, FinalizeWithin
  <2> QED BY <2>1, <2>2
<1>5. PICK w : w = store' OBVIOUS
<1>6. Within(w, k) BY <1>4, <1>5
<1>7. /\ InMemory(w) \subseteq InMemory(store)
      /\ w.owner = store.owner /\ w.current \in {store.current}
      BY ONLY <1>1, <1>6, MemoryShrinks
<1> QED BY <1>5, <1>7

(* Nor do the actions that write steady states only.                       *)
LEMMA PlainKeeps ==
    ASSUME StoreOK, BudgetInv, Plain
    PROVE  /\ InMemory(store') \subseteq InMemory(store)
           /\ store'.owner = store.owner /\ store'.current = store.current
<1>1. PICK k : k = MemoryFrame({store.current}) OBVIOUS
<1>2. Open(k) BY <1>1, MemoryIsOpen
<1>3. Within(store', k) BY <1>2, PlainStaysWithin
<1>4. PICK w : w = store' OBVIOUS
<1>5. Within(w, k) BY <1>3, <1>4
<1>6. /\ InMemory(w) \subseteq InMemory(store)
      /\ w.owner = store.owner /\ w.current \in {store.current}
      BY ONLY <1>1, <1>5, MemoryShrinks
<1> QED BY <1>4, <1>6

(* The actions that forget runs bring none into memory.                    *)
LEMMA ForgettingKeeps ==
    ASSUME StoreOK, BudgetInv, Forgetting
    PROVE  InMemory(store') \subseteq InMemory(store) /\ store'.owner = store.owner
<1>1. PICK k : k = MemoryFrame(AllCurrents) OBVIOUS
<1>2. store.current \in AllCurrents BY DEF StoreOK, Fine, Sturdy, Stores, AllCurrents
<1>3. Open(k) /\ Loose(k) BY <1>1, <1>2, MemoryIsOpen
<1>4. Within(store', k) BY <1>3, ForgettingStaysWithin
<1>5. PICK w : w = store' OBVIOUS
<1>6. Within(w, k) BY <1>4, <1>5
<1>7. InMemory(w) \subseteq InMemory(store) /\ w.owner = store.owner
      BY ONLY <1>1, <1>6, MemoryShrinks
<1> QED BY <1>5, <1>7

(* Without checkpoints nothing is restored.                                *)
LEMMA NothingRestored ==
    ASSUME StoreOK, ~Checkpointing
    PROVE  ~Restart /\ \A s \in Sessions : ~SessionStart(s)
<1>1. Backed(store) /\ store \in Stores BY DEF StoreOK, Fine, Sturdy
<1>2. \A q \in RunIds : store.disk[q] = None BY <1>1 DEF Backed
<1>3. ~Restart BY DEF Restart
<1>4. ASSUME NEW s \in Sessions PROVE ~SessionStart(s)
  <2>1. store.index[s] # None => store.index[s] \in RunIds BY <1>1 DEF Stores
  <2> QED BY <1>2, <2>1 DEF SessionStart
<1> QED BY <1>3, <1>4

(* An activation inserts run r into u, which leaves w.                     *)
Activated(s, r, u, w) ==
    /\ store.owner[r] = None
    /\ u.owner = [store.owner EXCEPT ![r] = s] /\ w.runs[r] # None
    /\ u.runs = Cleared(s).runs /\ u.current = Cleared(s).current
    /\ w \in Stores /\ store'.runs = w.runs /\ store'.owner = w.owner
    /\ store'.current = [w.current EXCEPT ![s] = r]

(* Every activation is such an insertion.                                  *)
LEMMA ActivateMaps ==
    ASSUME StoreOK, BudgetInv, NEW s \in Sessions, Activate(s)
    PROVE  \E r \in RunIds : \E u \in Stores : \E w \in Insertions(u, r, Fresh) :
              Activated(s, r, u, w)
<1>1. PICK v : v = Cleared(s) OBVIOUS
<1>2. PICK r \in RunIds :
        /\ store.owner[r] = None
        /\ \E w \in Insertions([v EXCEPT !.owner[r] = s], r, Fresh) :
              w.runs[r] # None /\ Become(Acquire([w EXCEPT !.current[s] = r]))
      BY <1>1 DEF Activate
<1>3. PICK u : u = [v EXCEPT !.owner[r] = s] OBVIOUS
<1>4. PICK w \in Insertions(u, r, Fresh) :
        w.runs[r] # None /\ Become(Acquire([w EXCEPT !.current[s] = r]))
      BY <1>2, <1>3
<1>5. PICK z : z = [w EXCEPT !.current[s] = r] OBVIOUS
<1>6. PICK a : a = Acquire(z) OBVIOUS
<1>7. Become(a) BY <1>4, <1>5, <1>6
<1>8. v \in Stores /\ v.owner = store.owner
  <2>1. PICK k : k = MemoryFrame(AllCurrents) OBVIOUS
  <2>2. store.current \in AllCurrents BY DEF StoreOK, Fine, Sturdy, Stores, AllCurrents
  <2>3. Open(k) /\ Loose(k) BY <2>1, <2>2, MemoryIsOpen
  <2>4. Within(store, k) BY <2>3 DEF Open
  <2>5. Within(v, k) BY <1>1, <2>3, <2>4, ClearedWithin
  <2>6. v \in Stores /\ v.owner = k.owner BY <2>5 DEF Within
  <2> QED BY <2>1, <2>6 DEF MemoryFrame
<1>9. /\ u \in Stores /\ u.runs = v.runs /\ u.current = v.current
      /\ u.owner = [v.owner EXCEPT ![r] = s]
      BY <1>3, <1>8 DEF Stores
<1>10. Fresh \in States BY FreshRun DEF Alive
<1>11. PICK f : f = Fresh OBVIOUS
<1>12. w \in Stores
  <2>1. f \in States /\ w \in Insertions(u, r, f) BY <1>10, <1>11
  <2> QED BY <1>9, <2>1, InsertBounds
<1>13. /\ z \in Stores /\ z.runs = w.runs /\ z.owner = w.owner
       /\ z.current = [w.current EXCEPT ![s] = r]
       BY <1>5, <1>12 DEF Stores
<1>14. /\ a \in Stores /\ a.runs = z.runs /\ a.owner = z.owner /\ a.current = z.current
  <2>1. z.audit \in Int /\ z.audit >= AuditFloor BY <1>13 DEF Stores
  <2>2. PICK n : n = z.audit + 1 OBVIOUS
  <2>3. n \in {i \in Int : i >= AuditFloor} BY <2>1, <2>2, FloorIsNegative
  <2>4. a = [z EXCEPT !.audit = n] BY <1>6, <1>13, <2>2 DEF Acquire, Stores
  <2> QED BY <1>13, <2>3, <2>4 DEF Stores
<1>15. store'.runs = a.runs /\ store'.owner = a.owner /\ store'.current = a.current
       BY <1>7, <1>14, SettledMaps
<1>16. u.runs = Cleared(s).runs /\ u.current = Cleared(s).current BY <1>1, <1>9
<1>17. store'.runs = w.runs /\ store'.owner = w.owner
       /\ store'.current = [w.current EXCEPT ![s] = r]
       BY <1>13, <1>14, <1>15
<1>18. u \in Stores /\ u.owner = [store.owner EXCEPT ![r] = s] BY <1>8, <1>9
<1>19. Activated(s, r, u, w)
       BY <1>2, <1>4, <1>12, <1>16, <1>17, <1>18 DEF Activated
<1> QED BY <1>18, <1>19

(* So an activation leaves no more runs than the cap.                      *)
LEMMA ActivateBounds ==
    ASSUME StoreOK, BudgetInv, NEW s \in Sessions, Activate(s)
    PROVE  Cardinality(InMemory(store')) <= MaxRunStates
<1>1. PICK r \in RunIds, u \in Stores :
         \E w \in Insertions(u, r, Fresh) : Activated(s, r, u, w)
      BY ActivateMaps
<1>2. PICK f : f = Fresh OBVIOUS
<1>3. f \in States BY <1>2, FreshRun DEF Alive
<1>4. PICK w \in Insertions(u, r, f) : store'.runs = w.runs BY <1>1, <1>2 DEF Activated
<1>5. Cardinality(InMemory(w)) <= MaxRunStates BY <1>3, InsertBounds
<1>6. InMemory(store') = InMemory(w) BY <1>4 DEF InMemory
<1> QED BY <1>5, <1>6

(* The handlers that may bring a run back do it by an insertion.           *)
LEMMA ReplyBounds ==
    ASSUME StoreOK, CallsOK, BudgetInv, NEW s \in Sessions, NEW accepted \in BOOLEAN,
           \/ ResumeRunReply(s, accepted) \/ CrossTurnReply(s, accepted)
           \/ DegradedReply(s, accepted)
    PROVE  \/ InMemory(store') \subseteq InMemory(store)
           \/ Cardinality(InMemory(store')) <= MaxRunStates
<1>1. store \in Stores BY DEF StoreOK, Fine, Sturdy
<1>2. ASSUME NEW r \in RunIds, NEW y \in States,
             \E w \in Insertions(store, r, y) : Become(w)
      PROVE  Cardinality(InMemory(store')) <= MaxRunStates
  <2>1. PICK w \in Insertions(store, r, y) : Become(w) BY <1>2
  <2>2. w \in Stores /\ Cardinality(InMemory(w)) <= MaxRunStates BY <1>1, InsertBounds
  <2> QED BY <2>1, <2>2, SettledMaps
<1>3. ASSUME NEW r \in RunIds, store.runs[r] # None, NEW y \in States,
             Become(Put(store, r, y))
      PROVE  InMemory(store') \subseteq InMemory(store)
  <2>1. PICK k : k = MemoryFrame(AllCurrents) OBVIOUS
  <2>2. store.current \in AllCurrents BY DEF StoreOK, Fine, Sturdy, Stores, AllCurrents
  <2>3. Within(store, k) BY <2>1, <2>2, MemoryIsOpen DEF Open
  <2>4. Allowed(k, r, y) BY <1>3, <2>1 DEF Allowed, MemoryFrame, States, Run
  <2>5. PICK p : p = ReleaseIf(Put(store, r, y), FALSE) OBVIOUS
  <2>6. Within(p, k) BY <2>3, <2>4, <2>5, PutWithin
  <2>7. Become(p) BY <1>3, <2>5 DEF ReleaseIf
  <2>8. p \in Stores BY <2>6 DEF Within
  <2>9. InMemory(p) \subseteq InMemory(store) BY <2>1, <2>6, MemoryShrinks
  <2> QED BY <2>7, <2>8, <2>9, SettledMaps
<1>4. CASE ResumeRunReply(s, accepted)
  <2>1. PICK r, h : r = rpc[s].run /\ h = rpc[s].snap OBVIOUS
  <2>2. r \in RunIds /\ h \in States BY <1>4, <2>1, HeldRun DEF ResumeRunReply, Alive
  <2>3. PICK y : y = CrossTurnResumeConsumed(h) OBVIOUS
  <2>4. y \in States BY <2>2, <2>3, FlagStates
  <2>5. CASE accepted
    <3>1. \E w \in Insertions(store, r, y) : Become(w)
          BY <1>4, <2>1, <2>3, <2>5 DEF ResumeRunReply
    <3> QED BY <1>2, <2>2, <2>4, <3>1
  <2>6. CASE ~accepted BY <1>4, <2>6 DEF ResumeRunReply
  <2> QED BY <2>5, <2>6
<1>5. CASE CrossTurnReply(s, accepted)
  <2>1. PICK r, h : r = hook[s].run /\ h = hook[s].snap OBVIOUS
  <2>2. r \in RunIds /\ h \in States BY <1>5, <2>1, HeldRun DEF CrossTurnReply, Alive, Idle
  <2>3. CASE ~accepted
    <3>1. PICK y : y = CrossTurnFallback(h) OBVIOUS
    <3>2. y \in States BY <2>2, <3>1, CountStates
    <3>3. \E w \in Insertions(store, r, y) : Become(w)
          BY <1>5, <2>1, <2>3, <3>1 DEF CrossTurnReply
    <3> QED BY <1>2, <2>2, <3>2, <3>3
  <2>4. CASE accepted /\ store.runs[r] = None BY <1>5, <2>1, <2>4 DEF CrossTurnReply
  <2>5. CASE accepted /\ store.runs[r] # None
    <3>1. PICK x : x = store.runs[r] OBVIOUS
    <3>2. x \in States BY <1>1, <2>2, <2>5, <3>1 DEF Stores, Slot
    <3>3. PICK y : y = CrossTurnEnqueued(x) OBVIOUS
    <3>4. y \in States BY <3>2, <3>3, FlagStates
    <3>5. Become(Put(store, r, y)) BY <1>5, <2>1, <2>5, <3>1, <3>3 DEF CrossTurnReply
    <3> QED BY <1>3, <2>2, <2>5, <3>4, <3>5
  <2> QED BY <2>3, <2>4, <2>5
<1>6. CASE DegradedReply(s, accepted)
  <2>1. PICK r, h : r = hook[s].run /\ h = hook[s].snap OBVIOUS
  <2>2. r \in RunIds /\ h \in States BY <1>6, <2>1, HeldRun DEF DegradedReply, Alive, Idle
  <2>3. CASE store.runs[r] = None
    <3>1. PICK y : y = IF accepted THEN IncrementTotal(ResetTurnAttempts(h))
                       ELSE CrossTurnDegradedSilent(h)
          OBVIOUS
    <3>2. y \in States BY <2>2, <3>1, CountStates, FlagStates
    <3>3. \E w \in Insertions(store, r, y) : Become(w)
          BY <1>6, <2>1, <2>3, <3>1 DEF DegradedReply
    <3> QED BY <1>2, <2>2, <3>2, <3>3
  <2>4. CASE store.runs[r] # None /\ store.runs[r].status # "running"
    <3>1. Become(store) BY <1>6, <2>1, <2>4 DEF DegradedReply
    <3> QED BY <1>1, <3>1, SettledMaps
  <2>5. CASE store.runs[r] # None /\ store.runs[r].status = "running"
    <3>1. PICK x : x = store.runs[r] OBVIOUS
    <3>2. x \in States BY <1>1, <2>2, <2>5, <3>1 DEF Stores, Slot
    <3>3. PICK y : y = IF accepted THEN CrossTurnDegraded(x) ELSE CrossTurnDegradedSilent(x)
          OBVIOUS
    <3>4. y \in States BY <3>2, <3>3, FlagStates
    <3>5. Become(Put(store, r, y)) BY <1>6, <2>1, <2>5, <3>1, <3>3 DEF DegradedReply
    <3> QED BY <1>3, <2>2, <2>5, <3>4, <3>5
  <2> QED BY <2>3, <2>4, <2>5
<1> QED BY <1>4, <1>5, <1>6

(* Every action keeps the bound.                                           *)
LEMMA MemoryStep == IInv /\ BudgetInv /\ MemoryIsBounded /\ [Next]_vars => MemoryIsBounded'
<1> SUFFICES ASSUME StoreOK, CallsOK, BudgetInv, [Next]_vars, ~Checkpointing,
                    Cardinality(InMemory(store)) <= MaxRunStates
             PROVE  Cardinality(InMemory(store')) <= MaxRunStates
    BY DEF IInv, MemoryIsBounded, InMemory
<1>1. \/ Plain \/ Forgetting
      \/ \E s \in Sessions :
           \/ Activate(s) \/ ValidationDone(s)
           \/ AgentEnd(s) \/ \E signal : Finalize(s, signal)
           \/ \E accepted \in BOOLEAN : \/ ResumeRunReply(s, accepted)
                                        \/ CrossTurnReply(s, accepted)
                                        \/ DegradedReply(s, accepted)
      BY NothingRestored DEF Next, Plain, Forgetting
<1>2. CASE InMemory(store') \subseteq InMemory(store)
  <2>1. PICK w : w = store' OBVIOUS
  <2>2. Cardinality(InMemory(w)) <= MaxRunStates BY <1>2, <2>1, FewerRuns
  <2> QED BY <2>1, <2>2
<1>3. CASE Plain BY <1>2, <1>3, PlainKeeps
<1>4. CASE Forgetting BY <1>2, <1>4, ForgettingKeeps
<1>5. ASSUME NEW s \in Sessions,
             \/ Activate(s) \/ ValidationDone(s)
             \/ AgentEnd(s) \/ \E signal : Finalize(s, signal)
      PROVE  Cardinality(InMemory(store')) <= MaxRunStates
  <2>1. CASE Activate(s) BY <2>1, ActivateBounds
  <2>2. CASE ValidationDone(s) BY <1>2, <2>2, ValidationKeeps
  <2>3. CASE AgentEnd(s) \/ \E signal : Finalize(s, signal) BY <1>2, <2>3, TurnsKeep
  <2> QED BY <1>5, <2>1, <2>2, <2>3
<1>6. ASSUME NEW s \in Sessions, NEW accepted \in BOOLEAN,
             \/ ResumeRunReply(s, accepted) \/ CrossTurnReply(s, accepted)
             \/ DegradedReply(s, accepted)
      PROVE  Cardinality(InMemory(store')) <= MaxRunStates
      BY <1>2, <1>6, ReplyBounds
<1> QED BY <1>1, <1>3, <1>4, <1>5, <1>6

(* For any number of sessions and runs and any cap, in a process without   *)
(* checkpoints: whatever is activated, written back and evicted, no more   *)
(* runs than the cap are in memory.                                        *)
THEOREM MemoryStaysBounded == Spec => []MemoryIsBounded
<1>1. Init => MemoryIsBounded
  <2>1. Init => InMemory(store) = {} BY DEF Init, EmptyStore, InMemory
  <2>2. Cardinality({}) = 0 BY FS_EmptySet
  <2> QED BY <2>1, <2>2, StoreAssumption DEF MemoryIsBounded
<1> QED BY <1>1, MemoryStep, AutopilotInvariance, BudgetInvariance, PTL DEF Spec
-----------------------------------------------------------------------------
(* Every run in memory is the one its session finds.                       *)
OneEach(w) == \A r \in InMemory(w) : w.current[w.owner[r]] = r

(* Without the injection facade only the validation commands suspend.      *)
NoWriters(h, p) == \A s \in Sessions : p[s] = Idle /\ h[s].at \in {"none", "validation"}

(* The strengthening of RunningRunsAreReachable.                           *)
ReachInv == ~Facade /\ ~Checkpointing => OneEach(store) /\ NoWriters(hook, rpc)

(* No handler but a validation is suspended.                               *)
LEMMA WritersStay ==
    ASSUME CallsOK, ~Facade, NoWriters(hook, rpc), [Next]_vars
    PROVE  NoWriters(hook', rpc')
<1>1. CASE UNCHANGED <<hook, rpc>> BY <1>1
<1>2. ASSUME NEW s \in Sessions, UNCHANGED rpc,
             \/ hook' = [hook EXCEPT ![s] = Idle]
             \/ \E r, x : hook' = [hook EXCEPT ![s] = Suspended("validation", r, x)]
      PROVE  NoWriters(hook', rpc')
      BY <1>2 DEF NoWriters, CallsOK, Idle, Suspended
<1>3. ASSUME NEW s \in Sessions, AgentEnd(s) PROVE UNCHANGED <<hook, rpc>>
      BY <1>3 DEF AgentEnd, AgentEndDegraded, AgentEndNormal
<1>4. ASSUME NEW s \in Sessions, NEW signal, Finalize(s, signal)
      PROVE  /\ UNCHANGED rpc
             /\ \/ UNCHANGED hook
                \/ \E r, x : hook' = [hook EXCEPT ![s] = Suspended("validation", r, x)]
      BY <1>4 DEF Finalize
<1>5. ASSUME NEW s \in Sessions, ValidationDone(s)
      PROVE  hook' = [hook EXCEPT ![s] = Idle] /\ UNCHANGED rpc
      BY <1>5 DEF ValidationDone
<1>6. ASSUME NEW s \in Sessions, NEW accepted \in BOOLEAN
      PROVE  /\ ~ResumeRunReply(s, accepted) /\ ~CrossTurnReply(s, accepted)
             /\ ~DegradedReply(s, accepted) /\ ~ResumeRun(s)
      BY DEF NoWriters, ResumeRunReply, CrossTurnReply, DegradedReply, ResumeRun
<1>7. ASSUME NEW r \in RunIds, NEW g,
             hook' = [t \in Sessions |->
                        IF hook[t].run # r THEN hook[t]
                        ELSE [hook[t] EXCEPT !.snap = g[t]]],
             \A t \in Sessions : rpc[t].run # r => rpc'[t] = rpc[t]
      PROVE  NoWriters(hook', rpc')
  <2>1. Idle.run # r BY NoneIsNoState DEF Idle
  <2>2. \A t \in Sessions : rpc'[t] = Idle BY <1>7, <2>1 DEF NoWriters
  <2>3. ASSUME NEW t \in Sessions PROVE hook'[t].at = hook[t].at
    <3>1. CASE hook[t].run # r BY <1>7, <3>1
    <3>2. CASE hook[t].run = r
      <4>1. hook[t] \in [at : HookAts, run : RunIds, snap : Alive]
            BY <2>1, <3>2 DEF CallsOK, Calls
      <4> QED BY <1>7, <3>2, <4>1
    <3> QED BY <3>1, <3>2
  <2>4. \A t \in Sessions : hook'[t].at \in {"none", "validation"}
        BY <2>3 DEF NoWriters
  <2>5. PICK h, p : h = hook' /\ p = rpc' OBVIOUS
  <2>6. NoWriters(h, p) BY <2>2, <2>4, <2>5 DEF NoWriters
  <2> QED BY <2>5, <2>6
<1>8. ASSUME NEW r \in RunIds, Quiet(r) PROVE NoWriters(hook', rpc')
  <2>1. PICK age : age = IF store.runs[r].age = "fresh" THEN "stalled" ELSE "orphan"
        OBVIOUS
  <2>2. PICK g : g = [t \in Sessions |-> Older(hook[t].snap, age)] OBVIOUS
  <2>3. /\ hook' = [t \in Sessions |->
                      IF hook[t].run # r THEN hook[t]
                      ELSE [hook[t] EXCEPT !.snap = Older(hook[t].snap, age)]]
        /\ rpc' = [t \in Sessions |->
                      IF rpc[t].run # r THEN rpc[t]
                      ELSE [rpc[t] EXCEPT !.snap = Older(rpc[t].snap, age)]]
        BY <1>8, <2>1 DEF Quiet
  <2>4. hook' = [t \in Sessions |->
                   IF hook[t].run # r THEN hook[t] ELSE [hook[t] EXCEPT !.snap = g[t]]]
        BY <2>2, <2>3
  <2>5. \A t \in Sessions : rpc[t].run # r => rpc'[t] = rpc[t] BY <2>3
  <2> QED BY <1>7, <2>4, <2>5
<1>9. ASSUME NEW r \in RunIds, BackoffOver(r) PROVE NoWriters(hook', rpc')
  <2>1. PICK g : g = [t \in Sessions |->
                        [hook[t].snap EXCEPT !.due = @ \/ hook[t].snap.attempt > 0]]
        OBVIOUS
  <2>2. /\ hook' = [t \in Sessions |->
                      IF hook[t].run # r THEN hook[t]
                      ELSE [hook[t] EXCEPT !.snap.due = @ \/ hook[t].snap.attempt > 0]]
        /\ rpc' = [t \in Sessions |->
                      IF rpc[t].run # r THEN rpc[t]
                      ELSE [rpc[t] EXCEPT !.snap.due = @ \/ rpc[t].snap.attempt > 0]]
        BY <1>9 DEF BackoffOver
  <2>3. hook' = [t \in Sessions |->
                   IF hook[t].run # r THEN hook[t] ELSE [hook[t] EXCEPT !.snap = g[t]]]
        BY <2>1, <2>2
  <2>4. \A t \in Sessions : rpc[t].run # r => rpc'[t] = rpc[t] BY <2>2
  <2> QED BY <1>7, <2>3, <2>4
<1>10. ASSUME Restart PROVE NoWriters(hook', rpc')
       BY <1>10 DEF Restart, NoWriters, Idle
<1>11. \/ UNCHANGED <<hook, rpc>>
       \/ \E s \in Sessions :
            \/ ValidationDone(s) \/ AgentEnd(s) \/ \E signal : Finalize(s, signal)
            \/ ResumeRun(s)
            \/ \E accepted \in BOOLEAN : \/ ResumeRunReply(s, accepted)
                                         \/ CrossTurnReply(s, accepted)
                                         \/ DegradedReply(s, accepted)
       \/ \E r \in RunIds : Quiet(r) \/ BackoffOver(r)
       \/ Restart
       BY DEF Next, vars, Activate, ResumePaused, Stop, SetGoal, TurnPrepare, Activity,
              FinalizeNoRun, SessionStart, SessionEnd, ExtensionCleanup, CapExceeded,
              Cleanup, Patrol
<1> QED BY <1>1, <1>2, <1>3, <1>4, <1>5, <1>6, <1>8, <1>9, <1>10, <1>11

(* Only runs of sessions that keep theirs remain.                          *)
LEMMA SweptEach ==
    ASSUME NEW b, OneEach(b), NEW w \in Stores, w.owner = b.owner, w.current = b.current,
           NEW gone \in SUBSET InMemory(b), NEW x, x = Sweep(w, gone)
    PROVE  /\ x.runs = Without(w, gone) /\ x.owner = w.owner
           /\ \A r \in (InMemory(w) \cap InMemory(b)) \ gone :
                 w.owner[r] \in Sessions => x.current[x.owner[r]] = r
<1>1. gone \in SUBSET RunIds BY DEF InMemory
<1>2. PICK a : a = ReleaseAll(w, gone) OBVIOUS
<1>3. a \in Stores /\ a.runs = w.runs /\ a.owner = w.owner /\ a.current = w.current
      BY <1>1, <1>2, ReleaseAllFacts
<1>4. PICK f : f = Forget(a, gone) OBVIOUS
<1>5. f \in Stores /\ f.runs = Without(a, gone) /\ f.owner = a.owner
      BY <1>1, <1>3, <1>4, ForgetFacts
<1>6. PICK keys : keys = {a.owner[r] : r \in gone} OBVIOUS
<1>7. f.current = [t \in Sessions |-> IF t \in keys THEN None ELSE a.current[t]]
      BY <1>3, <1>4, <1>6 DEF Forget, Stores
<1>8. x = [f EXCEPT !.armed = @ \ gone] BY <1>2, <1>4 DEF Sweep
<1>9. x.runs = f.runs /\ x.owner = f.owner /\ x.current = f.current
      BY <1>5, <1>8 DEF Stores
<1>10. Without(a, gone) = Without(w, gone) BY <1>3 DEF Without
<1>11. ASSUME NEW r \in (InMemory(w) \cap InMemory(b)) \ gone, w.owner[r] \in Sessions
       PROVE  x.current[x.owner[r]] = r
  <2>1. b.current[b.owner[r]] = r BY <1>11 DEF OneEach
  <2>2. \A g \in gone : b.current[b.owner[g]] = g BY DEF OneEach
  <2>3. w.owner[r] \notin keys BY <1>3, <1>6, <1>11, <2>1, <2>2
  <2> QED BY <1>3, <1>5, <1>7, <1>9, <1>11, <2>1, <2>3
<1> QED BY <1>3, <1>5, <1>9, <1>10, <1>11

(* A session loses its run.                                                *)
LEMMA EachButOne ==
    ASSUME StoreOK, OneEach(store), NEW s \in Sessions, NEW x, x.owner = store.owner,
           x.current = [store.current EXCEPT ![s] = None],
           InMemory(x) \subseteq InMemory(store) \ {store.current[s]}
    PROVE  /\ OneEach(x)
           /\ \A r \in InMemory(x) : store.owner[r] \in Sessions \ {s}
<1>1. store \in Stores /\ Owned(store) BY DEF StoreOK, Fine, Sturdy
<1>2. ASSUME NEW r \in InMemory(x)
      PROVE  store.owner[r] \in Sessions \ {s} /\ x.current[x.owner[r]] = r
  <2>1. r \in InMemory(store) /\ r # store.current[s] BY <1>2
  <2>2. store.current[store.owner[r]] = r BY <2>1 DEF OneEach
  <2>3. store.owner[r] \in Sessions BY <1>1, <2>1 DEF InMemory, Owned, Stores
  <2>4. store.current \in [Sessions -> RunIds \cup {None}] BY <1>1 DEF Stores
  <2> QED BY <2>1, <2>2, <2>3, <2>4
<1> QED BY <1>2 DEF OneEach

(* Before an activation inserts its run, its session has none.             *)
LEMMA ClearedEach ==
    ASSUME StoreOK, OneEach(store), NEW s \in Sessions, NEW x, x = Cleared(s)
    PROVE  /\ \A r \in InMemory(x) : /\ r \in InMemory(store)
                                     /\ store.owner[r] \in Sessions \ {s}
                                     /\ x.current[store.owner[r]] = r
<1>1. store \in Stores /\ Owned(store) BY DEF StoreOK, Fine, Sturdy
<1>2. CASE ~HasRun(s)
  <2>1. x = store BY <1>2 DEF Cleared
  <2>2. ASSUME NEW r \in InMemory(store)
        PROVE  store.owner[r] \in Sessions \ {s} /\ store.current[store.owner[r]] = r
    <3>1. store.current[store.owner[r]] = r /\ r # None /\ store.runs[r] # None
          BY NoneIsNoState DEF OneEach, InMemory
    <3>2. store.owner[r] \in Sessions BY <1>1 DEF InMemory, Owned, Stores
    <3>3. store.owner[r] # s BY <1>2, <3>1 DEF HasRun, Found
    <3> QED BY <3>1, <3>2, <3>3
  <2> QED BY <2>1, <2>2
<1>3. CASE HasRun(s)
  <2>1. PICK r : r = RunOf(s) OBVIOUS
  <2>2. r \in RunIds /\ r = store.current[s] BY <1>3, <2>1, FoundRun DEF RunOf
  <2>3. PICK c \in BOOLEAN : c = Recovers(s) BY DEF Recovers
  <2>4. PICK d : d = IF c /\ Checkpointing THEN DeleteCheckpoint(store, r) ELSE store
        OBVIOUS
  <2>5. PICK e : e = ReleaseIf(d, c) OBVIOUS
  <2>6. x = [e EXCEPT !.runs[r] = None, !.current[s] = None]
        BY <1>3, <2>1, <2>3, <2>4, <2>5 DEF Cleared
  <2>7. d \in Stores /\ d.runs = store.runs /\ d.owner = store.owner
        /\ d.current = store.current
    <3>1. CASE d = store BY <1>1, <3>1
    <3>2. CASE d = DeleteCheckpoint(store, r)
          BY <1>1, <2>2, <3>2 DEF DeleteCheckpoint, Stores, Slot
    <3> QED BY <2>4, <3>1, <3>2
  <2>8. e.runs = store.runs /\ e.owner = store.owner /\ e.current = store.current
        BY <2>5, <2>7 DEF ReleaseIf, Release, Stores
  <2>9. PICK runs, current :
          runs = [e.runs EXCEPT ![r] = None] /\ current = [e.current EXCEPT ![s] = None]
        OBVIOUS
  <2>10. x = [e EXCEPT !.runs = runs, !.current = current] BY <2>6, <2>9
  <2>11. x.runs = runs /\ x.owner = store.owner /\ x.current = current
    <3>1. e = d \/ e = [d EXCEPT !.audit = IF @ > AuditFloor THEN @ - 1 ELSE @]
          BY <2>5 DEF ReleaseIf, Release
    <3>2. \E n : e = d \/ e = [d EXCEPT !.audit = n] BY <3>1
    <3>3. PICK n : e = d \/ e = [d EXCEPT !.audit = n] BY <3>2
    <3> QED BY <2>7, <2>8, <2>10, <3>3 DEF Stores
  <2>12. InMemory(x) \subseteq InMemory(store) \ {store.current[s]}
         BY <1>1, <2>2, <2>8, <2>9, <2>11 DEF InMemory, Stores
  <2>13. /\ OneEach(x)
         /\ \A q \in InMemory(x) : store.owner[q] \in Sessions \ {s}
         BY <2>8, <2>9, <2>11, <2>12, EachButOne
  <2> QED BY <2>11, <2>12, <2>13 DEF OneEach
<1> QED BY <1>2, <1>3

(* The handlers that forget runs.                                          *)
LEMMA SessionEndEach ==
    ASSUME StoreOK, OneEach(store), NEW s \in Sessions, SessionEnd(s)
    PROVE  OneEach(store')
<1> DEFINE x == StateOf(s)
<1>1. PICK r : r = RunOf(s) OBVIOUS
<1>2. HasRun(s) BY DEF SessionEnd
<1>3. r \in RunIds /\ r = store.current[s] /\ x \in States
      BY <1>1, <1>2, FoundRun DEF RunOf
<1>4. Sturdy(store) /\ store \in Stores BY DEF StoreOK, Fine, Sturdy
<1>5. PICK c \in BOOLEAN : c = (x.status = "running") OBVIOUS
<1>6. PICK w : w = ReleaseIf(store, c) OBVIOUS
<1>7. w \in Stores /\ w.runs = store.runs /\ w.owner = store.owner
      BY <1>4, <1>6, ReleaseFacts DEF Sturdy
<1>8. w.current = store.current BY <1>4, <1>6 DEF ReleaseIf, Release, Stores
<1>9. PICK v : v = IF x.orch \in {"done", "blocked"} THEN w ELSE Save(w, r, x) OBVIOUS
<1>10. Snapshot(x) \in Slot BY <1>3, SnapshotState DEF Slot
<1>11. v \in Stores /\ v.runs = w.runs /\ v.owner = w.owner /\ v.current = w.current
  <2>1. CASE v = w BY <1>7, <2>1
  <2>2. CASE v = [w EXCEPT !.queue[r] = Snapshot(x)]
        BY <1>3, <1>7, <1>10, <2>2 DEF Stores
  <2> QED BY <1>9, <2>1, <2>2 DEF Save
<1>12. PICK z : z = [v EXCEPT !.runs[r] = None, !.current[s] = None,
                              !.canary = v.canary \ {s}]
       OBVIOUS
<1>13. Become(z) BY <1>1, <1>5, <1>6, <1>9, <1>12 DEF SessionEnd
<1>14. /\ z \in Stores /\ z.runs = [v.runs EXCEPT ![r] = None] /\ z.owner = v.owner
       /\ z.current = [v.current EXCEPT ![s] = None]
       BY <1>3, <1>11, <1>12 DEF Stores, Slot
<1>15. InMemory(z) \subseteq InMemory(store) \ {store.current[s]}
       BY <1>3, <1>4, <1>7, <1>11, <1>14 DEF InMemory, Stores
<1>16. z.owner = store.owner /\ z.current = [store.current EXCEPT ![s] = None]
       BY <1>7, <1>8, <1>11, <1>14
<1>17. OneEach(z) BY <1>15, <1>16, EachButOne
<1> QED BY <1>13, <1>14, <1>17, SettledMaps DEF OneEach

(* The same by the cleanup of the extension.                               *)
LEMMA ExtensionCleanupEach ==
    ASSUME StoreOK, OneEach(store), NEW s \in Sessions, ExtensionCleanup(s)
    PROVE  OneEach(store')
<1>1. PICK r : r = RunOf(s) OBVIOUS
<1>2. Sturdy(store) /\ store \in Stores BY DEF StoreOK, Fine, Sturdy
<1>3. PICK v : v = IF HasRun(s) THEN ReleaseIf(store, StateOf(s).status = "running")
                   ELSE store
      OBVIOUS
<1>4. PICK w : w = IF HasRun(s) THEN [v EXCEPT !.runs[r] = None] ELSE v OBVIOUS
<1>5. PICK z : z = [w EXCEPT !.current[s] = None, !.canary = w.canary \ {s}] OBVIOUS
<1>6. store' = z BY <1>1, <1>3, <1>4, <1>5 DEF ExtensionCleanup
<1>7. v \in Stores /\ v.runs = store.runs /\ v.owner = store.owner
      /\ v.current = store.current
  <2>1. CASE ~HasRun(s) BY <1>2, <1>3, <2>1
  <2>2. CASE HasRun(s)
    <3>1. PICK c \in BOOLEAN : c = (StateOf(s).status = "running") OBVIOUS
    <3>2. v = ReleaseIf(store, c) BY <1>3, <2>2, <3>1
    <3>3. v \in Stores /\ v.runs = store.runs /\ v.owner = store.owner
          BY <1>2, <3>2, ReleaseFacts DEF Sturdy
    <3>4. v.current = store.current BY <1>2, <3>2 DEF ReleaseIf, Release, Stores
    <3> QED BY <3>3, <3>4
  <2> QED BY <2>1, <2>2
<1>8. /\ w \in Stores /\ w.owner = store.owner /\ w.current = store.current
      /\ InMemory(w) \subseteq InMemory(store) \ {store.current[s]}
  <2>1. CASE ~HasRun(s)
    <3>1. store.current[s] \notin InMemory(store)
          BY <2>1, NoneIsNoState DEF HasRun, Found, InMemory
    <3> QED BY <1>4, <1>7, <2>1, <3>1 DEF InMemory
  <2>2. CASE HasRun(s)
    <3>1. r \in RunIds /\ r = store.current[s] BY <1>1, <2>2, FoundRun DEF RunOf
    <3>2. w = [v EXCEPT !.runs[r] = None] BY <1>4, <2>2
    <3>3. /\ w \in Stores /\ w.owner = v.owner /\ w.current = v.current
          /\ w.runs = [v.runs EXCEPT ![r] = None]
          BY <1>7, <3>1, <3>2 DEF Stores, Slot
    <3> QED BY <1>2, <1>7, <3>1, <3>3 DEF InMemory, Stores
  <2> QED BY <2>1, <2>2
<1>9. /\ z.runs = w.runs /\ z.owner = w.owner
      /\ z.current = [w.current EXCEPT ![s] = None]
      BY <1>5, <1>8 DEF Stores
<1>10. InMemory(z) = InMemory(w) BY <1>9 DEF InMemory
<1>11. OneEach(z) BY <1>8, <1>9, <1>10, EachButOne
<1> QED BY <1>6, <1>11

(* The orphans go with their sessions.                                     *)
LEMMA PatrolEach ==
    ASSUME StoreOK, BudgetInv, OneEach(store), Patrol
    PROVE  OneEach(store')
<1>1. PICK idle \in SUBSET Continued, reason \in CapReason :
         \E after \in {[r \in InMemory(store) |-> Tick(store, r, idle, reason)]} :
         \E w \in {Ticked(after)} : \E x \in {Sweep(w, Orphans)} : Become(x)
      BY DEF Patrol
<1>2. reason \in CapReasons
      BY <1>1, AutopilotAssumption DEF CapReason, CapReasons
<1>3. PICK after : after = [r \in InMemory(store) |-> Tick(store, r, idle, reason)]
       OBVIOUS
<1>4. PICK w : w = Ticked(after) OBVIOUS
<1>5. PICK gone : gone = Orphans OBVIOUS
<1>6. PICK x : x = Sweep(w, gone) OBVIOUS
<1>7. Become(x) BY <1>1, <1>3, <1>4, <1>5, <1>6
<1>8. gone \in SUBSET InMemory(store) BY <1>5 DEF Orphans
<1>9. PICK k : k = MemoryFrame(AllCurrents) OBVIOUS
<1>10. store.current \in AllCurrents BY DEF StoreOK, Fine, Sturdy, Stores, AllCurrents
<1>11. Open(k) /\ Loose(k) BY <1>9, <1>10, MemoryIsOpen
<1>12. Within(w, k) /\ w.current = store.current BY <1>2, <1>3, <1>4, <1>11, TickedWithin
<1>13. w \in Stores /\ InMemory(w) \subseteq InMemory(store) /\ w.owner = store.owner
  <2>1. Within(w, k) BY <1>12
  <2>2. InMemory(w) \subseteq InMemory(store) /\ w.owner = store.owner
        BY ONLY <1>9, <2>1, MemoryShrinks
  <2> QED BY <2>1, <2>2 DEF Within
<1>14. gone \in SUBSET RunIds BY <1>8 DEF InMemory
<1>15. x \in Stores
  <2>1. Within(x, k) BY <1>6, <1>11, <1>12, <1>14, SweepWithin
  <2> QED BY <2>1 DEF Within
<1>16. /\ x.runs = Without(w, gone) /\ x.owner = w.owner
       /\ \A r \in (InMemory(w) \cap InMemory(store)) \ gone :
             w.owner[r] \in Sessions => x.current[x.owner[r]] = r
       BY <1>6, <1>8, <1>12, <1>13, SweptEach
<1>17. OneEach(x)
  <2> SUFFICES ASSUME NEW r \in InMemory(x) PROVE x.current[x.owner[r]] = r
      BY DEF OneEach
  <2>1. r \in InMemory(w) \ gone BY <1>16 DEF InMemory, Without
  <2>2. store \in Stores /\ Owned(store) BY DEF StoreOK, Fine, Sturdy
  <2>3. store.owner[r] \in Sessions BY <1>13, <2>1, <2>2 DEF InMemory, Owned, Stores
  <2> QED BY <1>13, <1>16, <2>1, <2>3
<1> QED BY <1>7, <1>15, <1>17, SettledMaps DEF OneEach

(* An activation gives the session its only run.                           *)
LEMMA ActivateEach ==
    ASSUME StoreOK, BudgetInv, OneEach(store), NEW s \in Sessions, Activate(s)
    PROVE  OneEach(store')
<1>1. PICK r \in RunIds, u \in Stores :
         \E w \in Insertions(u, r, Fresh) : Activated(s, r, u, w)
      BY ActivateMaps
<1>2. PICK f : f = Fresh OBVIOUS
<1>3. f \in States BY <1>2, FreshRun DEF Alive
<1>4. PICK w \in Insertions(u, r, f) : Activated(s, r, u, w) BY <1>1, <1>2
<1>5. /\ store.owner[r] = None
      /\ u.owner = [store.owner EXCEPT ![r] = s] /\ w.runs[r] # None
      /\ u.runs = Cleared(s).runs /\ u.current = Cleared(s).current
      /\ w \in Stores /\ store'.runs = w.runs /\ store'.owner = w.owner
      /\ store'.current = [w.current EXCEPT ![s] = r]
      BY <1>4 DEF Activated
<1>6. store \in Stores /\ Owned(store) BY DEF StoreOK, Fine, Sturdy
<1>7. \A q \in InMemory(u) : /\ q # r /\ u.owner[q] = store.owner[q]
                             /\ u.owner[q] \in Sessions \ {s}
                             /\ u.current[u.owner[q]] = q
  <2>1. PICK v : v = Cleared(s) OBVIOUS
  <2>2. InMemory(u) = InMemory(v) BY <1>5, <2>1 DEF InMemory
  <2>3. \A q \in InMemory(v) : /\ q \in InMemory(store)
                               /\ store.owner[q] \in Sessions \ {s}
                               /\ v.current[store.owner[q]] = q
        BY <2>1, ClearedEach
  <2>4. \A q \in InMemory(u) : q # r /\ q \in RunIds
        BY <1>5, <2>2, <2>3, NoneIsNoState DEF InMemory
  <2>5. \A q \in RunIds \ {r} : u.owner[q] = store.owner[q] BY <1>5, <1>6 DEF Stores
  <2> QED BY <1>5, <2>1, <2>2, <2>3, <2>4, <2>5
<1>8. OneEach(u) BY <1>7 DEF OneEach
<1>9. PICK x : x = [u EXCEPT !.runs[r] = f] OBVIOUS
<1>10. /\ x \in Stores /\ x.runs = [u.runs EXCEPT ![r] = f] /\ x.owner = u.owner
       /\ x.current = u.current
       BY <1>3, <1>9 DEF Stores, Slot
<1>11. PICK changed \in BOOLEAN : changed = ShouldCheckpoint(u.runs[r], f)
       BY DEF ShouldCheckpoint
<1>12. PICK gone \in Evictable(x) : w = Persist(Evict(x, gone), r, f, changed)
       BY <1>9, <1>11 DEF Insertions
<1>13. gone \in SUBSET RunIds /\ gone \subseteq InMemory(x) BY DEF Evictable, InMemory
<1>14. PICK e : e = Evict(x, gone) OBVIOUS
<1>15. PICK y : y = Sweep(x, gone) OBVIOUS
<1>16. e \in Stores BY <1>10, <1>13, <1>14, EvictFacts
<1>17. w.runs = e.runs /\ w.owner = e.owner /\ w.current = e.current
  <2>1. w = Persist(e, r, f, changed) BY <1>12, <1>14
  <2> QED BY <1>3, <1>16, <2>1, PersistFacts
<1>18. e = [y EXCEPT !.disk = [q \in RunIds |-> IF q \in gone THEN None ELSE @[q]]]
       BY <1>14, <1>15 DEF Evict
<1>19. e.runs = Without(x, gone)
  <2>1. Evicted(x, e, gone) BY <1>10, <1>13, <1>14, EvictFacts
  <2> QED BY <2>1 DEF Evicted
<1>20. r \notin gone BY <1>5, <1>17, <1>19 DEF Without
<1>21. gone \in SUBSET InMemory(u)
  <2>1. \A q \in RunIds \ {r} : x.runs[q] = u.runs[q] BY <1>10 DEF Stores
  <2> QED BY <1>13, <1>20, <2>1 DEF InMemory
<1>22. /\ y.owner = x.owner
       /\ \A q \in (InMemory(x) \cap InMemory(u)) \ gone :
             x.owner[q] \in Sessions => y.current[y.owner[q]] = q
       BY <1>8, <1>10, <1>15, <1>21, SweptEach
<1>23. e.owner = y.owner /\ e.current = y.current
  <2>1. PICK disk : e = [y EXCEPT !.disk = disk] BY <1>18
  <2>2. PICK a : a = ReleaseAll(x, gone) OBVIOUS
  <2>3. a \in Stores BY <1>10, <1>13, <2>2, ReleaseAllFacts
  <2>4. PICK g : g = Forget(a, gone) OBVIOUS
  <2>5. g \in Stores BY <1>13, <2>3, <2>4, ForgetFacts
  <2>6. y = [g EXCEPT !.armed = @ \ gone] BY <1>15, <2>2, <2>4 DEF Sweep
  <2> QED BY <2>1, <2>5, <2>6 DEF Stores
<1>24. \A q \in InMemory(w) \ {r} : q \in (InMemory(x) \cap InMemory(u)) \ gone
  <2>1. \A q \in RunIds \ {r} : x.runs[q] = u.runs[q] BY <1>10 DEF Stores
  <2> QED BY <1>17, <1>19, <2>1 DEF InMemory, Without
<1>25. \A q \in InMemory(w) \ {r} : /\ w.owner[q] \in Sessions \ {s}
                                    /\ w.current[w.owner[q]] = q
       BY <1>7, <1>10, <1>17, <1>22, <1>23, <1>24
<1>26. w.owner[r] = s
  <2>1. u.owner[r] = s BY <1>5, <1>6 DEF Stores
  <2> QED BY <1>10, <1>17, <1>22, <1>23, <2>1
<1>27. w.current \in [Sessions -> RunIds \cup {None}] BY <1>5 DEF Stores
<1>28. \A q \in InMemory(w) : store'.current[store'.owner[q]] = q
       BY <1>5, <1>25, <1>26, <1>27
<1>29. InMemory(store') = InMemory(w) BY <1>5 DEF InMemory
<1> QED BY <1>28, <1>29 DEF OneEach

(* Every action keeps one run to each session.                             *)
LEMMA ReachStep == IInv /\ BudgetInv /\ ReachInv /\ [Next]_vars => ReachInv'
<1> SUFFICES ASSUME StoreOK, CallsOK, BudgetInv, [Next]_vars, ~Checkpointing, ~Facade,
                    OneEach(store), NoWriters(hook, rpc)
             PROVE  OneEach(store') /\ NoWriters(hook', rpc')
    BY DEF IInv, ReachInv, OneEach, NoWriters, InMemory
<1>1. NoWriters(hook', rpc') BY WritersStay
<1>2. \/ Plain \/ Cleanup \/ Patrol
      \/ \E s \in Sessions :
           \/ Activate(s) \/ ValidationDone(s) \/ SessionEnd(s) \/ ExtensionCleanup(s)
           \/ AgentEnd(s) \/ \E signal : Finalize(s, signal)
           \/ \E accepted \in BOOLEAN : \/ ResumeRunReply(s, accepted)
                                        \/ CrossTurnReply(s, accepted)
                                        \/ DegradedReply(s, accepted)
      BY NothingRestored DEF Next, Plain
<1>3. ASSUME InMemory(store') \subseteq InMemory(store),
             store'.owner = store.owner, store'.current = store.current
      PROVE  OneEach(store')
      BY <1>3 DEF OneEach
<1>4. ASSUME Plain PROVE OneEach(store') BY <1>3, <1>4, PlainKeeps
<1>5. ASSUME Cleanup PROVE OneEach(store')
  <2>1. InMemory(store') = {}
    <3>1. PICK a : a = ReleaseAll(store, InMemory(store)) OBVIOUS
    <3>2. InMemory(store) \in SUBSET RunIds /\ store \in Stores
          BY DEF InMemory, StoreOK, Fine, Sturdy
    <3>3. a \in Stores BY <3>1, <3>2, ReleaseAllFacts
    <3>4. PICK runs : runs = [r \in RunIds |-> None] OBVIOUS
    <3>5. PICK current : current = [s \in Sessions |-> None] OBVIOUS
    <3>6. store' = [a EXCEPT !.runs = runs, !.current = current,
                             !.canary = {}, !.armed = {}]
          BY <1>5, <3>1, <3>4, <3>5 DEF Cleanup
    <3>7. store'.runs = runs BY <3>3, <3>6 DEF Stores
    <3> QED BY <3>4, <3>7 DEF InMemory
  <2> QED BY <2>1 DEF OneEach
<1>6. ASSUME NEW s \in Sessions,
             \/ Activate(s) \/ ValidationDone(s) \/ SessionEnd(s) \/ ExtensionCleanup(s)
             \/ AgentEnd(s) \/ \E signal : Finalize(s, signal)
      PROVE  OneEach(store')
  <2>1. CASE ValidationDone(s) BY <1>3, <2>1, ValidationKeeps
  <2>2. CASE AgentEnd(s) \/ \E signal : Finalize(s, signal) BY <1>3, <2>2, TurnsKeep
  <2> QED BY <1>6, <2>1, <2>2, ActivateEach, SessionEndEach, ExtensionCleanupEach
<1>7. ASSUME NEW s \in Sessions, NEW accepted \in BOOLEAN
      PROVE  /\ ~ResumeRunReply(s, accepted) /\ ~CrossTurnReply(s, accepted)
             /\ ~DegradedReply(s, accepted)
      BY DEF NoWriters, ResumeRunReply, CrossTurnReply, DegradedReply
<1> QED BY <1>1, <1>2, <1>4, <1>5, <1>6, <1>7, PatrolEach

(* For any number of sessions and runs and any cap, in a process without   *)
(* checkpoints under a host without the injection facade: the hooks and    *)
(* gateway methods of a session find its running run.                      *)
THEOREM RunningRunsAreFound == Spec => []RunningRunsAreReachable
<1>1. Init => ReachInv
  <2>1. Init => InMemory(store) = {} BY DEF Init, EmptyStore, InMemory
  <2>2. Init => NoWriters(hook, rpc) BY DEF Init, NoWriters, Idle
  <2> QED BY <2>1, <2>2 DEF ReachInv, OneEach
<1>2. ReachInv => RunningRunsAreReachable
      BY DEF ReachInv, OneEach, RunningRunsAreReachable, RunningRuns
<1> QED BY <1>1, <1>2, ReachStep, AutopilotInvariance, BudgetInvariance, PTL DEF Spec
===============================================================================
