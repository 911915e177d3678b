-------------------------- MODULE InstinctStoreProofs --------------------------
(***************************************************************************)
(* Proofs about the instinct store, for every set of processes and slots,  *)
(* every capacity, age limit and clock.  Two invariants carry them.        *)
(* Whatever overlaps, a line has one home and one birth, and every hit     *)
(* stands for a recording (Accounted).  While no two operations have       *)
(* overlapped, the one under way knows what the files hold (Sequential).   *)
(***************************************************************************)
EXTENDS InstinctStore, DataLemmas

AllSlots == Slots \cup {None}

-----------------------------------------------------------------------------
(* Lines, wherever they are.                                               *)

(* A process that is about to replace a file holds what it will put there. *)
Holds(p, fam, k) ==
    proc[p].at \in {"rewrite", "unlink"} /\ proc[p].fam = fam /\ proc[p].key = k

(* What file k of a family is, or may become by a replacement under way.   *)
Contents(fam, k) ==
    {files[fam][k]} \cup {proc[p].lines : p \in {p \in Procs : Holds(p, fam, k)}}

Copies(fam, k) == UNION {Range(c) : c \in Contents(fam, k)}

Rising(c) ==
    /\ \A i \in DOMAIN c : c[i].born <= born
    /\ \A i, j \in DOMAIN c : i < j => c[i].born < c[j].born

(* A line is born once, into one file, below those born earlier.           *)
Births ==
    /\ \A fam \in Families, k \in Keys : \A c \in Contents(fam, k) : Rising(c)
    /\ \A f, g \in Families, j, k \in Keys :
          \A l \in Copies(f, j), m \in Copies(g, k) :
             l.born = m.born => f = g /\ j = k

(* Files are numbered by the lines born: a write rolls at most two up.     *)
KeyFits(q) ==
    /\ q.at = "append" => q.key <= 2 * born
    /\ q.at \in {"rewrite", "unlink"} => q.key + 2 <= 2 * born

Numbered ==
    /\ \A fam \in Families : \A k \in Present(fam) : k + 2 <= 2 * born
    /\ \A p \in Procs : KeyFits(proc[p])

(* Which operation works on which family.                                  *)
RoleOf(q) ==
    /\ q.at = "scan" => q.left # {} /\ q.slot # None
    /\ q.at \in {"scan", "target", "append"} => (q.slot = None <=> q.fam = "observations")
    /\ q.at = "rewrite" /\ q.slot # None => q.fam = "instincts"
    /\ q.at \in {"purge", "unlink"} => q.slot = None

Roles ==
    /\ \A k \in Keys : \A l \in Copies("instincts", k) : l.slot # None
    /\ \A p \in Procs : RoleOf(proc[p])

(* The calls that have not yet left a mark, and the marks calls have left. *)
Waiting(A) == {p \in Procs : proc[p].at \in {"scan", "target", "append"} /\ proc[p].slot \in A}

Spent(s) ==
    {c \in (1..MaxCalls) \X (1..MaxCalls) :
        \E fam \in Families, k \in Keys : \E l \in Copies(fam, k) :
            l.slot = s /\ l.born = c[1] /\ c[2] <= l.hits}

(* Every line and every hit stands for a call of its own.                  *)
Paid ==
    /\ born + Cardinality(Waiting(AllSlots)) <= SumFunction(calls)
    /\ SumFunction(calls) <= MaxCalls
    /\ \A s \in AllSlots : Cardinality(Spent(s)) + Cardinality(Waiting({s})) <= calls[s]

Accounted == TypeOK /\ Births /\ Numbered /\ Roles /\ Paid

-----------------------------------------------------------------------------
(* One operation at a time.                                                *)

Within(fam, left, now) ==
    \A k \in Keys \ left : \A l \in Range(files[fam][k]) : l.ts + MaxAge >= now

Unknown(s, left) ==
    \A k \in Keys \ left : \A l \in Range(files["instincts"][k]) : l.slot # s

(* What a search, an append, a replacement and a purge know of the files.  *)
Knows(q) ==
    /\ q.at = "scan" => Unknown(q.slot, q.left)
    /\ q.at \in {"target", "append"} /\ q.slot # None => Unknown(q.slot, {})
    /\ q.at = "append" => q.key = WriteTarget(q.fam)
    /\ q.at \in {"rewrite", "unlink"} /\ q.slot # None =>
          \E i \in DOMAIN files[q.fam][q.key] :
             q.lines = [files[q.fam][q.key] EXCEPT ![i] = Hit(@, q.now)]
    /\ q.at \in {"rewrite", "unlink"} /\ q.slot = None =>
          /\ q.lines = Kept(files[q.fam][q.key], q.now)
          /\ Within(q.fam, q.left \cup {q.key}, q.now)
    /\ q.at = "purge" => Within(q.fam, q.left, q.now)

(* A slot has one line.                                                    *)
OnePlace == \A l, m \in LinesOf("instincts") : l.slot = m.slot => l = m

(* Later files hold later lines.                                           *)
FilesInOrder ==
    \A fam \in Families : \A j, k \in Keys :
        j < k => \A l \in Range(files[fam][j]), m \in Range(files[fam][k]) : l.born < m.born

Alone ==
    /\ \A p, q \in Procs : Busy(p) /\ Busy(q) => p = q
    /\ \A p \in Procs : Knows(proc[p])
    /\ OnePlace
    /\ FilesInOrder

Sequential == ~raced => Alone

-----------------------------------------------------------------------------
(* The functions of one file.                                              *)

Stages == {"idle", "scan", "target", "append", "rewrite", "purge", "unlink"}

State == [at : Stages, fam : Families, slot : AllSlots, now : Clock,
          left : SUBSET Keys, key : Keys, lines : Seq(Line)]

LEMMA LineFields ==
    ASSUME NEW l \in Line
    PROVE  /\ l.born \in 1..MaxCalls /\ l.slot \in AllSlots
           /\ l.hits \in 1..MaxCalls /\ l.ts \in Clock
  BY DEF Line, AllSlots

LEMMA NumbersAre ==
    /\ Capacity \in Nat /\ MaxAge \in Nat /\ MaxClock \in Nat /\ MaxCalls \in Nat
    /\ Limit \in Nat /\ Capacity > 0 /\ MaxCalls > 0 /\ Limit > 0
<1>1. {Capacity, MaxAge, MaxClock, MaxCalls, Limit} \subseteq Nat \ {0} BY StoreAssumption
<1> QED BY <1>1

(* Kept keeps the lines within the age limit, as they are and in order.    *)
LEMMA KeptProperties ==
    ASSUME NEW c \in Seq(Line), NEW now \in Clock, NEW t, t = Kept(c, now)
    PROVE  /\ t \in Seq(Line)
           /\ Range(t) \subseteq Range(c)
           /\ \A l \in Range(t) : l.ts + MaxAge >= now
           /\ \A l \in Range(c) : l.ts + MaxAge >= now => l \in Range(t)
           /\ Rising(c) => Rising(t)
<1>1. PICK P : P = {i \in DOMAIN c : c[i].ts + MaxAge >= now} OBVIOUS
<1>2. P \in SUBSET (DOMAIN c) /\ t = Subsequence(c, P) BY <1>1 DEF Kept
<1>3. t \in Seq(Line) /\ \E pos : Picks(t, c, P, pos)
  <2>1. P \in SUBSET (DOMAIN c) BY <1>2
  <2>2. t = Subsequence(c, P) BY <1>2
  <2> QED BY <2>1, <2>2, SubsequenceProperties
<1>4. PICK pos : Picks(t, c, P, pos) BY <1>3
<1>5. DOMAIN t = 1..Len(t) BY <1>3, LenProperties
<1>6. \A n \in DOMAIN t : pos[n] \in P /\ t[n] = c[pos[n]] BY <1>4, <1>5 DEF Picks
<1>7. Range(t) \subseteq Range(c) BY <1>2, <1>6 DEF Range
<1>8. \A l \in Range(t) : l.ts + MaxAge >= now BY <1>1, <1>6 DEF Range
<1>9. ASSUME NEW l \in Range(c), l.ts + MaxAge >= now PROVE l \in Range(t)
  <2>1. PICK i \in DOMAIN c : l = c[i] BY DEF Range
  <2>2. i \in P BY <1>1, <1>9, <2>1
  <2>3. PICK n \in DOMAIN t : pos[n] = i BY <1>4, <1>5, <2>2 DEF Picks
  <2> QED BY <1>6, <2>1, <2>3 DEF Range
<1>10. ASSUME Rising(c) PROVE Rising(t)
  <2>1. \A i \in DOMAIN t : t[i].born <= born BY <1>2, <1>6, <1>10 DEF Rising
  <2>2. ASSUME NEW i \in DOMAIN t, NEW j \in DOMAIN t, i < j PROVE t[i].born < t[j].born
    <3>1. pos[i] < pos[j] BY <1>4, <1>5, <2>2 DEF Picks
    <3> QED BY <1>2, <1>6, <1>10, <3>1 DEF Rising
  <2> QED BY <2>1, <2>2 DEF Rising
<1> QED BY <1>3, <1>7, <1>8, <1>9, <1>10

(* A hit counts one more and turns no clock back.                          *)
LEMMA HitLine ==
    ASSUME NEW l \in Line, NEW now \in Clock
    PROVE  /\ Hit(l, now).born = l.born /\ Hit(l, now).slot = l.slot
           /\ Hit(l, now).hits = l.hits + 1
           /\ Hit(l, now).ts \in Clock /\ Hit(l, now).ts >= l.ts
           /\ l.hits + 1 <= MaxCalls => Hit(l, now) \in Line
<1>1. MaxClock \in Nat /\ MaxCalls \in Nat BY NumbersAre
<1>2. l.ts \in 0..MaxClock /\ now \in 0..MaxClock /\ l.hits \in 1..MaxCalls
  BY LineFields DEF Clock
<1>3. l.ts \in Int /\ now \in Int BY <1>1, <1>2
<1>4. PICK z : z = Max({l.ts, now}) OBVIOUS
<1>5. z = IF l.ts >= now THEN l.ts ELSE now BY <1>3, <1>4, MaxOfTwo
<1>6. z \in 0..MaxClock /\ z >= l.ts BY ONLY <1>1, <1>2, <1>5
<1>7. PICK h : h = l.hits + 1 OBVIOUS
<1>8. h <= MaxCalls => h \in 1..MaxCalls BY ONLY <1>1, <1>2, <1>7
<1>9. Hit(l, now) = [l EXCEPT !.hits = h, !.ts = z] BY <1>4, <1>7 DEF Hit
<1>10. DOMAIN l = {"born", "slot", "hits", "ts"} BY DEF Line
<1>11. /\ Hit(l, now).born = l.born /\ Hit(l, now).slot = l.slot
       /\ Hit(l, now).hits = h /\ Hit(l, now).ts = z
  BY <1>9, <1>10
<1>12. ASSUME h <= MaxCalls PROVE Hit(l, now) \in Line
  <2>1. h \in 1..MaxCalls /\ z \in Clock BY <1>6, <1>8, <1>12 DEF Clock
  <2> QED BY <1>9, <2>1 DEF Line
<1> QED BY <1>6, <1>7, <1>11, <1>12 DEF Clock

(* A file one line of which was hit.                                       *)
LEMMA HitProperties ==
    ASSUME NEW c \in Seq(Line), NEW i \in DOMAIN c, NEW now \in Clock,
           NEW e, e = Hit(c[i], now), NEW d, d = [c EXCEPT ![i] = e]
    PROVE  /\ DOMAIN d = DOMAIN c
           /\ d[i] = e
           /\ \A j \in DOMAIN c : j # i => d[j] = c[j]
           /\ \A j \in DOMAIN c : d[j].born = c[j].born /\ d[j].slot = c[j].slot
           /\ c[i].hits + 1 <= MaxCalls => d \in Seq(Line)
           /\ Rising(c) => Rising(d)
<1>1. DOMAIN c = 1..Len(c) /\ Len(c) \in Nat BY LenProperties
<1>4. DOMAIN d = DOMAIN c /\ d[i] = e /\ \A j \in DOMAIN c : j # i => d[j] = c[j] OBVIOUS
<1>5. c[i] \in Line BY <1>1, ElementOfSeq
<1>6. e.born = c[i].born /\ e.slot = c[i].slot BY <1>5, HitLine
<1>7. \A j \in DOMAIN c : d[j].born = c[j].born /\ d[j].slot = c[j].slot BY <1>4, <1>6
<1>8. ASSUME c[i].hits + 1 <= MaxCalls PROVE d \in Seq(Line)
  <2>1. e \in Line BY <1>5, <1>8, HitLine
  <2> QED BY <1>1, <2>1, ExceptSeq
<1>9. Rising(c) => Rising(d) BY <1>4, <1>7 DEF Rising
<1> QED BY <1>4, <1>7, <1>8, <1>9

-----------------------------------------------------------------------------
(* The steps, field by field.                                              *)

LEMMA TypeIs ==
    ASSUME TypeOK
    PROVE  /\ files \in [Families -> [Keys -> Seq(Line)]]
           /\ proc \in [Procs -> State]
           /\ born \in 0..MaxCalls
           /\ calls \in [AllSlots -> 0..MaxCalls]
           /\ raced \in BOOLEAN
  BY DEF TypeOK, State, Stages, AllSlots

LEMMA TypeFrom ==
    ASSUME files' \in [Families -> [Keys -> Seq(Line)]],
           proc' \in [Procs -> State],
           born' \in 0..MaxCalls,
           calls' \in [AllSlots -> 0..MaxCalls],
           raced' \in BOOLEAN
    PROVE  TypeOK'
  BY DEF TypeOK, State, Stages, AllSlots

LEMMA StateFields ==
    ASSUME NEW q \in State
    PROVE  /\ q.at \in Stages /\ q.fam \in Families /\ q.slot \in AllSlots
           /\ q.now \in Clock /\ q.left \in SUBSET Keys /\ q.key \in Keys
           /\ q.lines \in Seq(Line)
  BY DEF State

(* One process moves.                                                      *)
LEMMA ProcSet ==
    ASSUME TypeOK, NEW p \in Procs, NEW x \in State, proc' = [proc EXCEPT ![p] = x]
    PROVE  /\ proc' \in [Procs -> State]
           /\ proc'[p] = x
           /\ \A r \in Procs : r # p => proc'[r] = proc[r]
  BY TypeIs

LEMMA IdleIs ==
    /\ Idle \in State
    /\ Idle.at = "idle" /\ Idle.fam = "observations" /\ Idle.slot = None /\ Idle.now = 0
    /\ Idle.left = {} /\ Idle.key = 0 /\ Idle.lines = <<>>
<1>1. 0 \in Clock /\ 0 \in Keys
  <2>1. MaxClock \in Nat /\ MaxCalls \in Nat BY NumbersAre
  <2> QED BY <2>1 DEF Clock, Keys
<1>2. <<>> \in Seq(Line) BY EmptySeq
<1>3. None \in AllSlots /\ "observations" \in Families /\ "idle" \in Stages
  BY DEF AllSlots, Families, Stages
<1> QED BY <1>1, <1>2, <1>3 DEF Idle, State

LEMMA PresentIs ==
    ASSUME TypeOK, NEW fam \in Families
    PROVE  /\ Present(fam) \in SUBSET Keys
           /\ \A k \in Keys : files[fam][k] \in Seq(Line)
           /\ \A k \in Keys : k \notin Present(fam) => files[fam][k] = <<>>
  BY TypeIs DEF Present

(* An observation or a recording begins.                                   *)
CalledTo(p, s, x) ==
    /\ ~Busy(p)
    /\ x.at \in {"scan", "target"} /\ x.slot = s /\ x.key = 0 /\ x.lines = <<>>
    /\ s = None <=> x.fam = "observations"
    /\ x.at = "scan" => s # None /\ x.left # {} /\ x.left = Present("instincts")
    /\ x.at = "target" /\ s # None => Present("instincts") = {}
    /\ proc' = [proc EXCEPT ![p] = x]
    /\ Count(s)
    /\ files' = files /\ born' = born
    /\ raced' = (raced \/ \E q \in Procs : Busy(q))

LEMMA ObserveIs ==
    ASSUME TypeOK, NEW p \in Procs, Observe(p)
    PROVE  \E x \in State : CalledTo(p, None, x)
<1>1. PICK now \in Clock : Begin(p, [Idle EXCEPT !.at = "target", !.now = now])
  BY DEF Observe
<1>2. PICK x : x = [Idle EXCEPT !.at = "target", !.now = now] OBVIOUS
<1>3. x \in State
  <2>1. "target" \in Stages BY DEF Stages
  <2> QED BY <1>2, <2>1, IdleIs DEF State
<1>4. /\ x.at = "target" /\ x.slot = None /\ x.fam = "observations" /\ x.left = {}
      /\ x.key = 0 /\ x.lines = <<>>
  BY <1>2, IdleIs DEF State
<1>5. /\ ~Busy(p) /\ proc' = [proc EXCEPT ![p] = x]
      /\ raced' = (raced \/ \E q \in Procs : Busy(q))
  BY <1>1, <1>2 DEF Begin
<1>6. Count(None) /\ files' = files /\ born' = born BY DEF Observe
<1>7. CalledTo(p, None, x) BY <1>4, <1>5, <1>6 DEF CalledTo
<1> QED BY <1>3, <1>7

LEMMA RecordIs ==
    ASSUME TypeOK, NEW p \in Procs, NEW s \in Slots, Record(p, s)
    PROVE  \E x \in State : CalledTo(p, s, x)
<1>1. PICK a, P : a = (IF P = {} THEN "target" ELSE "scan") /\ P = Present("instincts")
  OBVIOUS
<1>2. PICK now \in Clock :
         Begin(p, [Idle EXCEPT !.at = a, !.fam = "instincts", !.slot = s, !.now = now,
                               !.left = P])
  BY <1>1 DEF Record
<1>3. PICK x : x = [Idle EXCEPT !.at = a, !.fam = "instincts", !.slot = s, !.now = now,
                               !.left = P]
  OBVIOUS
<1>4. "instincts" \in Families BY DEF Families
<1>5. x \in State
  <2>1. a \in Stages BY <1>1 DEF Stages
  <2>2. P \in SUBSET Keys BY <1>1, <1>4, PresentIs
  <2>3. s \in AllSlots BY DEF AllSlots
  <2> QED BY <1>3, <1>4, <2>1, <2>2, <2>3, IdleIs DEF State
<1>6. /\ x.at = a /\ x.slot = s /\ x.fam = "instincts" /\ x.left = P
      /\ x.key = 0 /\ x.lines = <<>>
  BY <1>3, IdleIs DEF State
<1>7. /\ ~Busy(p) /\ proc' = [proc EXCEPT ![p] = x]
      /\ raced' = (raced \/ \E q \in Procs : Busy(q))
  BY <1>2, <1>3 DEF Begin
<1>8. Count(s) /\ files' = files /\ born' = born BY DEF Record
<1>9. s # None BY StoreAssumption
<1>10. CalledTo(p, s, x) BY <1>1, <1>6, <1>7, <1>8, <1>9 DEF CalledTo
<1> QED BY <1>5, <1>10

(* The search finds its slot in file k, or not.                            *)
Found(p, k, i, x) ==
    /\ proc[p].at = "scan" /\ k \in proc[p].left
    /\ i \in DOMAIN files["instincts"][k] /\ files["instincts"][k][i].slot = proc[p].slot
    /\ x.at = "rewrite" /\ x.key = k /\ x.left = {}
    /\ x.fam = proc[p].fam /\ x.slot = proc[p].slot /\ x.now = proc[p].now
    /\ x.lines = [files["instincts"][k] EXCEPT ![i] = Hit(@, proc[p].now)]
    /\ x.lines \in Seq(Line) => x \in State
    /\ proc' = [proc EXCEPT ![p] = x]
    /\ UNCHANGED <<files, born, calls, raced>>

Missed(p, k, x) ==
    /\ proc[p].at = "scan" /\ k \in proc[p].left
    /\ \A l \in Range(files["instincts"][k]) : l.slot # proc[p].slot
    /\ x.at = (IF proc[p].left = {k} THEN "target" ELSE "scan")
    /\ x.fam = proc[p].fam /\ x.slot = proc[p].slot /\ x.now = proc[p].now
    /\ x.left = proc[p].left \ {k} /\ x.key = proc[p].key /\ x.lines = proc[p].lines
    /\ proc' = [proc EXCEPT ![p] = x]
    /\ UNCHANGED <<files, born, calls, raced>>

LEMMA KeysBounded ==
    ASSUME NEW S \in SUBSET Keys, S # {}
    PROVE  Max(S) \in S /\ \A k \in S : k <= Max(S)
<1>1. PICK n : n = 2 * MaxCalls OBVIOUS
<1>2. n \in Nat BY <1>1, NumbersAre
<1>3. S \in SUBSET (0..n) BY <1>1 DEF Keys
<1> QED BY <1>2, <1>3, Greatest

LEMMA ScanIs ==
    ASSUME TypeOK, NEW p \in Procs, Scan(p), proc[p].left # {}
    PROVE  \/ \E k \in Keys : \E i, x : Found(p, k, i, x)
           \/ \E k \in Keys, x \in State : Missed(p, k, x)
<1>1. PICK q : q = proc[p] OBVIOUS
<1>2. q \in State BY <1>1, TypeIs
<1>3. q.left \in SUBSET Keys BY <1>2, StateFields
<1>4. PICK k : k = Max(q.left) OBVIOUS
<1>5. k \in q.left /\ k \in Keys BY <1>1, <1>3, <1>4, KeysBounded
<1>6. PICK c, found : c = files["instincts"][k] /\ found = Matches(c, q.slot) OBVIOUS
<1>7. c \in Seq(Line)
  <2>1. "instincts" \in Families BY DEF Families
  <2> QED BY <1>5, <1>6, <2>1, PresentIs
<1>8. DOMAIN c = 1..Len(c) /\ Len(c) \in Nat BY <1>7, LenProperties
<1>9. found = {i \in DOMAIN c : c[i].slot = q.slot} BY <1>6 DEF Matches
<1>10. q.at = "scan" /\ UNCHANGED <<files, born, calls, raced>> BY <1>1 DEF Scan
<1>11. proc' = [proc EXCEPT ![p] =
          IF found # {}
          THEN [@ EXCEPT !.at = "rewrite", !.key = k, !.left = {},
                         !.lines = [c EXCEPT ![Min(found)] = Hit(@, q.now)]]
          ELSE NotIn(@, k)]
  BY <1>1, <1>4, <1>6 DEF Scan
<1>12. CASE found # {}
  <2>1. PICK i : i = Min(found) OBVIOUS
  <2>2. i \in found
    <3>1. found \in SUBSET Nat BY <1>8, <1>9
    <3> QED BY <1>12, <2>1, <3>1, MinOfSome
  <2>3. PICK d : d = [c EXCEPT ![i] = Hit(@, q.now)] OBVIOUS
  <2>4. PICK x : x = [q EXCEPT !.at = "rewrite", !.key = k, !.left = {}, !.lines = d]
    OBVIOUS
  <2>5. /\ x.at = "rewrite" /\ x.key = k /\ x.left = {} /\ x.lines = d
        /\ x.fam = q.fam /\ x.slot = q.slot /\ x.now = q.now
        /\ d \in Seq(Line) => x \in State
    <3>1. "rewrite" \in Stages /\ {} \in SUBSET Keys BY DEF Stages
    <3> QED BY ONLY <1>2, <1>5, <2>4, <3>1 DEF State
  <2>6. proc' = [proc EXCEPT ![p] = x] BY <1>1, <1>11, <1>12, <2>1, <2>3, <2>4
  <2>7. Found(p, k, i, x)
    BY <1>1, <1>5, <1>6, <1>9, <1>10, <2>2, <2>3, <2>5, <2>6 DEF Found
  <2> QED BY <1>5, <2>7
<1>13. CASE found = {}
  <2>1. PICK x : x = NotIn(q, k) OBVIOUS
  <2>2. x = [q EXCEPT !.left = q.left \ {k},
                      !.at = IF q.left = {k} THEN "target" ELSE "scan"]
    BY <2>1 DEF NotIn
  <2>3. PICK a, r : a = (IF q.left = {k} THEN "target" ELSE "scan") /\ r = q.left \ {k}
    OBVIOUS
  <2>4. x = [q EXCEPT !.left = r, !.at = a] BY <2>2, <2>3
  <2>5. a \in Stages /\ r \in SUBSET Keys BY <1>3, <2>3 DEF Stages
  <2>6. x \in State BY ONLY <1>2, <2>4, <2>5 DEF State
  <2>7. /\ x.at = a /\ x.left = r /\ x.fam = q.fam /\ x.slot = q.slot /\ x.now = q.now
        /\ x.key = q.key /\ x.lines = q.lines
    BY ONLY <1>2, <2>4 DEF State
  <2>8. \A l \in Range(c) : l.slot # q.slot BY <1>9, <1>13 DEF Range
  <2>9. proc' = [proc EXCEPT ![p] = x] BY <1>1, <1>11, <1>13, <2>1
  <2>10. Missed(p, k, x)
    BY <1>1, <1>5, <1>6, <1>10, <2>3, <2>7, <2>8, <2>9 DEF Missed
  <2> QED BY <1>5, <2>6, <2>10
<1> QED BY <1>12, <1>13

(* Where an append will go.                                                *)
LEMMA TargetIs ==
    ASSUME TypeOK, NEW p \in Procs, Target(p), NEW k \in Keys, k = WriteTarget(proc[p].fam)
    PROVE  \E x \in State :
             /\ proc[p].at = "target" /\ x.at = "append" /\ x.key = k
             /\ x.fam = proc[p].fam /\ x.slot = proc[p].slot /\ x.now = proc[p].now
             /\ x.left = proc[p].left /\ x.lines = proc[p].lines
             /\ proc' = [proc EXCEPT ![p] = x]
             /\ UNCHANGED <<files, born, calls, raced>>
<1>1. PICK q : q = proc[p] OBVIOUS
<1>2. q \in State BY <1>1, TypeIs
<1>3. PICK x : x = [q EXCEPT !.at = "append", !.key = k] OBVIOUS
<1>4. "append" \in Stages BY DEF Stages
<1>5. x \in State BY ONLY <1>2, <1>3, <1>4 DEF State
<1>6. /\ x.at = "append" /\ x.key = k /\ x.fam = q.fam /\ x.slot = q.slot /\ x.now = q.now
      /\ x.left = q.left /\ x.lines = q.lines
  BY ONLY <1>2, <1>3 DEF State
<1>7. proc' = [proc EXCEPT ![p].at = "append", ![p].key = k] BY DEF Target
<1>8. proc' = [proc EXCEPT ![p] = x] BY <1>1, <1>3, <1>7, TypeIs
<1>9. q.at = "target" /\ UNCHANGED <<files, born, calls, raced>> BY <1>1 DEF Target
<1> QED BY <1>1, <1>5, <1>6, <1>8, <1>9

(* A process is idle again.                                                *)
LEMMA IdleAgain ==
    ASSUME TypeOK, NEW p \in Procs, proc' = [proc EXCEPT ![p] = Idle]
    PROVE  /\ proc' \in [Procs -> State] /\ proc'[p] = Idle
           /\ \A r \in Procs : r # p => proc'[r] = proc[r]
<1>1. Idle \in State BY IdleIs
<1> QED BY <1>1, ProcSet

(* A line is written, or given up.                                         *)
NewLine(p) == [born |-> born + 1, slot |-> proc[p].slot, hits |-> 1, ts |-> proc[p].now]

LEMMA AppendIs ==
    ASSUME TypeOK, NEW p \in Procs, AppendLine(p)
    PROVE  /\ proc[p].at = "append"
           /\ proc' = [proc EXCEPT ![p] = Idle]
           /\ calls' = calls /\ raced' = raced
           /\ \/ files' = files /\ born' = born
              \/ /\ born' = born + 1
                 /\ \E k \in {proc[p].key, proc[p].key + 1} :
                      /\ k = proc[p].key \/ proc[p].key \in Present(proc[p].fam)
                      /\ files' = [files EXCEPT ![proc[p].fam][k] = Append(@, NewLine(p))]
  BY DEF AppendLine, NewLine

(* A purge begins with a family, or goes on with the other one.            *)
PurgesNow(x, fam) ==
    /\ x \in State /\ x.at = "purge" /\ x.fam = fam /\ x.slot = None
    /\ x.left = Present(fam)

LEMMA PurgingIs ==
    ASSUME TypeOK, NEW fam \in Families, NEW now \in Clock
    PROVE  PurgesNow(Purging(fam, now), fam)
<1>1. PICK P : P = Present(fam) OBVIOUS
<1>2. P \in SUBSET Keys BY <1>1, PresentIs
<1>3. PICK x : x = [Idle EXCEPT !.at = "purge", !.fam = fam, !.now = now, !.left = P]
  OBVIOUS
<1>4. "purge" \in Stages BY DEF Stages
<1>5. x \in State BY <1>2, <1>3, <1>4, IdleIs DEF State
<1>6. x.at = "purge" /\ x.fam = fam /\ x.slot = None /\ x.left = P
  BY <1>3, IdleIs DEF State
<1>7. Purging(fam, now) = x BY <1>1, <1>3 DEF Purging
<1> QED BY <1>1, <1>5, <1>6, <1>7 DEF PurgesNow

LEMMA PurgeIs ==
    ASSUME TypeOK, NEW p \in Procs, Purge(p)
    PROVE  /\ ~Busy(p)
           /\ \E x \in State : PurgesNow(x, "observations") /\ proc' = [proc EXCEPT ![p] = x]
           /\ UNCHANGED <<files, born, calls>>
           /\ raced' = (raced \/ \E q \in Procs : Busy(q))
<1>1. PICK now \in Clock : Begin(p, Purging("observations", now)) BY DEF Purge
<1>2. "observations" \in Families BY DEF Families
<1>3. PICK x : x = Purging("observations", now) OBVIOUS
<1>4. PurgesNow(x, "observations") BY <1>2, <1>3, PurgingIs
<1>5. x \in State BY <1>4 DEF PurgesNow
<1>6. /\ ~Busy(p) /\ proc' = [proc EXCEPT ![p] = x]
      /\ raced' = (raced \/ \E q \in Procs : Busy(q))
  BY <1>1, <1>3 DEF Begin
<1> QED BY <1>4, <1>5, <1>6 DEF Purge

(* A purge has read a file: it is fine as it is, or there is less to keep. *)
Spared(p, k, x) ==
    /\ proc[p].at = "purge" /\ k \in proc[p].left
    /\ Kept(files[proc[p].fam][k], proc[p].now) = files[proc[p].fam][k]
    /\ x \in State /\ x.at = "purge" /\ x.left = proc[p].left \ {k}
    /\ x.fam = proc[p].fam /\ x.slot = proc[p].slot /\ x.now = proc[p].now
    /\ proc' = [proc EXCEPT ![p] = x]
    /\ UNCHANGED <<files, born, calls, raced>>

Thinned(p, k, x) ==
    /\ proc[p].at = "purge" /\ k \in proc[p].left
    /\ Kept(files[proc[p].fam][k], proc[p].now) # files[proc[p].fam][k]
    /\ x \in State /\ x.at \in {"rewrite", "unlink"}
    /\ x.lines = Kept(files[proc[p].fam][k], proc[p].now)
    /\ x.left = proc[p].left \ {k} /\ x.key = k
    /\ x.fam = proc[p].fam /\ x.slot = proc[p].slot /\ x.now = proc[p].now
    /\ proc' = [proc EXCEPT ![p] = x]
    /\ UNCHANGED <<files, born, calls, raced>>

LEMMA PurgeReadIs ==
    ASSUME TypeOK, NEW p \in Procs, PurgeRead(p)
    PROVE  \E k \in Keys, x \in State : Spared(p, k, x) \/ Thinned(p, k, x)
<1>1. PICK q : q = proc[p] OBVIOUS
<1>2. q \in State BY <1>1, TypeIs
<1>3. q.left \in SUBSET Keys /\ q.fam \in Families /\ q.now \in Clock BY <1>2, StateFields
<1>4. PICK k \in q.left :
         LET lines == files[q.fam][k]
             kept == Kept(lines, q.now)
         IN  proc' = [proc EXCEPT
               ![p].left = @ \ {k},
               ![p].key = IF kept = lines THEN 0 ELSE k,
               ![p].lines = IF kept = lines THEN <<>> ELSE kept,
               ![p].at = IF kept = lines THEN "purge"
                         ELSE IF kept = <<>> THEN "unlink" ELSE "rewrite"]
  BY <1>1 DEF PurgeRead
<1>5. PICK c, t : c = files[q.fam][k] /\ t = Kept(c, q.now) OBVIOUS
<1>6. k \in Keys BY <1>3
<1>7. c \in Seq(Line) BY <1>3, <1>5, <1>6, PresentIs
<1>8. t \in Seq(Line) BY <1>3, <1>5, <1>7, KeptProperties
<1>9. PICK a, y, d, r :
         /\ a = (IF t = c THEN "purge" ELSE IF t = <<>> THEN "unlink" ELSE "rewrite")
         /\ y = (IF t = c THEN 0 ELSE k) /\ d = (IF t = c THEN <<>> ELSE t)
         /\ r = q.left \ {k}
  OBVIOUS
<1>10. PICK x : x = [q EXCEPT !.left = r, !.key = y, !.lines = d, !.at = a] OBVIOUS
<1>11. a \in Stages /\ y \in Keys /\ d \in Seq(Line) /\ r \in SUBSET Keys
  <2>1. a \in Stages BY <1>9 DEF Stages
  <2>2. 0 \in Keys /\ <<>> \in Seq(Line) BY IdleIs, StateFields
  <2> QED BY <1>3, <1>6, <1>8, <1>9, <2>1, <2>2
<1>12. x \in State BY ONLY <1>2, <1>10, <1>11 DEF State
<1>13. /\ x.at = a /\ x.left = r /\ x.key = y /\ x.lines = d
       /\ x.fam = q.fam /\ x.slot = q.slot /\ x.now = q.now
  BY ONLY <1>2, <1>10 DEF State
<1>14. proc' = [proc EXCEPT ![p].left = @ \ {k}, ![p].key = y, ![p].lines = d, ![p].at = a]
  BY <1>4, <1>5, <1>9
<1>15. proc' = [proc EXCEPT ![p] = x] BY <1>1, <1>9, <1>10, <1>14, TypeIs
<1>16. q.at = "purge" /\ UNCHANGED <<files, born, calls, raced>> BY <1>1 DEF PurgeRead
<1>17. CASE t = c
  <2>1. Spared(p, k, x) BY <1>1, <1>5, <1>9, <1>12, <1>13, <1>15, <1>16, <1>17 DEF Spared
  <2> QED BY <1>6, <1>12, <2>1
<1>18. CASE t # c
  <2>1. a \in {"rewrite", "unlink"} BY <1>9, <1>18
  <2>2. Thinned(p, k, x)
    BY <1>1, <1>5, <1>9, <1>12, <1>13, <1>15, <1>16, <1>18, <2>1 DEF Thinned
  <2> QED BY <1>6, <1>12, <2>2
<1> QED BY <1>17, <1>18

LEMMA PurgeFamilyDoneIs ==
    ASSUME TypeOK, NEW p \in Procs, PurgeFamilyDone(p)
    PROVE  /\ proc[p].at = "purge"
           /\ \/ \E x \in State : PurgesNow(x, "instincts") /\ proc' = [proc EXCEPT ![p] = x]
              \/ proc' = [proc EXCEPT ![p] = Idle]
           /\ UNCHANGED <<files, born, calls, raced>>
<1>1. PICK now \in Clock :
         proc' = [proc EXCEPT ![p] = IF proc[p].fam = "observations"
                                     THEN Purging("instincts", now) ELSE Idle]
  BY DEF PurgeFamilyDone
<1>2. proc[p].at = "purge" /\ UNCHANGED <<files, born, calls, raced>> BY DEF PurgeFamilyDone
<1>3. CASE proc[p].fam = "observations"
  <2>1. PICK x : x = Purging("instincts", now) OBVIOUS
  <2>2. "instincts" \in Families BY DEF Families
  <2>3. PurgesNow(x, "instincts") BY <2>1, <2>2, PurgingIs
  <2>4. x \in State BY <2>3 DEF PurgesNow
  <2> QED BY <1>1, <1>2, <1>3, <2>1, <2>3, <2>4
<1>4. CASE proc[p].fam # "observations" BY <1>1, <1>2, <1>4
<1> QED BY <1>3, <1>4

(* What was read earlier takes the place of a file.                        *)
LEMMA ReplaceIs ==
    ASSUME TypeOK, NEW p \in Procs, Replace(p)
    PROVE  /\ proc[p].at \in {"rewrite", "unlink"}
           /\ files' = [files EXCEPT ![proc[p].fam][proc[p].key] = proc[p].lines]
           /\ UNCHANGED <<born, calls, raced>>
           /\ \/ proc[p].slot # None /\ proc' = [proc EXCEPT ![p] = Idle]
              \/ /\ proc[p].slot = None
                 /\ \E x \in State :
                      /\ x.at = "purge" /\ x.left = proc[p].left /\ x.fam = proc[p].fam
                      /\ x.slot = proc[p].slot /\ x.now = proc[p].now
                      /\ proc' = [proc EXCEPT ![p] = x]
<1>1. PICK q : q = proc[p] OBVIOUS
<1>2. q \in State BY <1>1, TypeIs
<1>3. /\ q.at \in {"rewrite", "unlink"}
      /\ files' = [files EXCEPT ![q.fam][q.key] = q.lines]
      /\ UNCHANGED <<born, calls, raced>>
      /\ proc' = [proc EXCEPT ![p] = Resumed(q)]
  BY <1>1 DEF Replace
<1>4. CASE q.slot # None
  <2>1. Resumed(q) = Idle BY <1>4 DEF Resumed
  <2> QED BY <1>1, <1>3, <1>4, <2>1
<1>5. CASE q.slot = None
  <2>1. PICK x : x = [q EXCEPT !.at = "purge", !.key = 0, !.lines = <<>>] OBVIOUS
  <2>2. "purge" \in Stages /\ 0 \in Keys /\ <<>> \in Seq(Line)
    BY IdleIs, StateFields DEF Stages
  <2>3. x \in State BY ONLY <1>2, <2>1, <2>2 DEF State
  <2>4. /\ x.at = "purge" /\ x.left = q.left /\ x.fam = q.fam /\ x.slot = q.slot
        /\ x.now = q.now
    BY ONLY <1>2, <2>1 DEF State
  <2>5. Resumed(q) = x BY <1>5, <2>1 DEF Resumed
  <2> QED BY <1>1, <1>3, <1>5, <2>3, <2>4, <2>5
<1> QED BY <1>4, <1>5

-----------------------------------------------------------------------------
(* Lines and marks after a step.                                           *)

(* After one process moved, what a file is or may become was so before, is *)
(* the file now, or is what the process has just taken up.                 *)
LEMMA ContentsMove ==
    ASSUME TypeOK, NEW p \in Procs, NEW x, proc'[p] = x,
           \A r \in Procs : r # p => proc'[r] = proc[r],
           NEW fam \in Families, NEW k \in Keys, NEW c \in Contents(fam, k)'
    PROVE  \/ c \in Contents(fam, k) \/ c = files'[fam][k]
           \/ x.at \in {"rewrite", "unlink"} /\ x.fam = fam /\ x.key = k /\ c = x.lines
<1>1. \/ c = files'[fam][k]
      \/ \E r \in Procs : Holds(r, fam, k)' /\ c = proc'[r].lines
  BY DEF Contents
<1>2. ASSUME NEW r \in Procs, Holds(r, fam, k)', c = proc'[r].lines
      PROVE  \/ c \in Contents(fam, k)
             \/ x.at \in {"rewrite", "unlink"} /\ x.fam = fam /\ x.key = k /\ c = x.lines
  <2>1. CASE r = p BY <1>2, <2>1 DEF Holds
  <2>2. CASE r # p
    <3>1. Holds(r, fam, k) /\ c = proc[r].lines BY <1>2, <2>2 DEF Holds
    <3> QED BY <3>1 DEF Contents
  <2> QED BY <2>1, <2>2
<1> QED BY <1>1, <1>2

LEMMA FileIsContent ==
    ASSUME NEW fam, NEW k
    PROVE  files[fam][k] \in Contents(fam, k) /\ Range(files[fam][k]) \subseteq Copies(fam, k)
  BY DEF Contents, Copies

LEMMA LinesAreContent ==
    ASSUME NEW p \in Procs, proc[p].at \in {"rewrite", "unlink"}
    PROVE  proc[p].lines \in Contents(proc[p].fam, proc[p].key)
  BY DEF Contents, Holds

(* What is written somewhere is a line.                                    *)
LEMMA CopiesAreLines ==
    ASSUME TypeOK, NEW fam \in Families, NEW k \in Keys
    PROVE  /\ \A c \in Contents(fam, k) : c \in Seq(Line)
           /\ \A l \in Copies(fam, k) : l \in Line
<1>1. ASSUME NEW c \in Contents(fam, k) PROVE c \in Seq(Line)
  <2>1. files[fam][k] \in Seq(Line) BY TypeIs
  <2>2. \A p \in Procs : proc[p].lines \in Seq(Line)
    <3>1. \A p \in Procs : proc[p] \in State BY TypeIs
    <3> QED BY <3>1, StateFields
  <2> QED BY <2>1, <2>2 DEF Contents
<1>2. ASSUME NEW l \in Copies(fam, k) PROVE l \in Line
  <2>1. PICK c \in Contents(fam, k) : l \in Range(c) BY DEF Copies
  <2>2. c \in Seq(Line) BY <1>1
  <2>3. DOMAIN c = 1..Len(c) BY <2>2, LenProperties
  <2>4. PICK i \in DOMAIN c : l = c[i] BY <2>1 DEF Range
  <2> QED BY <2>2, <2>3, <2>4, ElementOfSeq
<1> QED BY <1>1, <1>2

(* No new copy, no new mark.                                               *)
LEMMA MarksStay ==
    ASSUME Births, born' = born,
           \A fam \in Families, k \in Keys : \A c \in Contents(fam, k)' : Rising(c),
           \A fam \in Families, k \in Keys : Copies(fam, k)' \subseteq Copies(fam, k)
    PROVE  Births' /\ \A s \in AllSlots : Spent(s)' \subseteq Spent(s)
<1>1. \A c : Rising(c)' <=> Rising(c) BY DEF Rising
<1>2. \A fam \in Families, k \in Keys : \A c \in Contents(fam, k)' : Rising(c)' BY <1>1
<1>3. \A f, g \in Families, j, k \in Keys :
         \A l \in Copies(f, j)', m \in Copies(g, k)' :
            l.born = m.born => f = g /\ j = k
  BY DEF Births
<1>4. ASSUME NEW s \in AllSlots, NEW c \in Spent(s)' PROVE c \in Spent(s)
  <2>1. /\ c \in (1..MaxCalls) \X (1..MaxCalls)
        /\ \E fam \in Families, k \in Keys : \E l \in Copies(fam, k)' :
             l.slot = s /\ l.born = c[1] /\ c[2] <= l.hits
    BY DEF Spent
  <2> QED BY <2>1 DEF Spent
<1> QED BY <1>2, <1>3, <1>4 DEF Births

(* Files that stay what they were, and nothing taken up: no new copy.      *)
LEMMA ContentsStay ==
    ASSUME Accounted, born' = born, files' = files,
           NEW p \in Procs, NEW x, proc'[p] = x,
           \A r \in Procs : r # p => proc'[r] = proc[r],
           x.at \notin {"rewrite", "unlink"}
    PROVE  /\ \A fam \in Families, k \in Keys : \A c \in Contents(fam, k)' : Rising(c)
           /\ \A fam \in Families, k \in Keys : Copies(fam, k)' \subseteq Copies(fam, k)
<1>1. TypeOK /\ Births BY DEF Accounted
<1>2. ASSUME NEW fam \in Families, NEW k \in Keys
      PROVE  Contents(fam, k)' \subseteq Contents(fam, k)
  <2>1. ASSUME NEW c \in Contents(fam, k)' PROVE c \in Contents(fam, k)
    <3>1. files'[fam][k] \in Contents(fam, k) BY FileIsContent
    <3> QED BY <1>1, <3>1, ContentsMove
  <2> QED BY <2>1
<1>3. \A fam \in Families, k \in Keys : \A c \in Contents(fam, k)' : Rising(c)
  BY <1>1, <1>2 DEF Births
<1>4. \A fam \in Families, k \in Keys : Copies(fam, k)' \subseteq Copies(fam, k)
  BY <1>2 DEF Copies
<1> QED BY <1>3, <1>4

LEMMA WaitingIsFinite ==
    ASSUME NEW A
    PROVE  IsFiniteSet(Waiting(A)) /\ Cardinality(Waiting(A)) \in Nat
           /\ IsFiniteSet(Waiting(A))' /\ Cardinality(Waiting(A))' \in Nat
<1>1. IsFiniteSet(Procs) BY StoreAssumption
<1>2. Waiting(A) \in SUBSET Procs /\ Waiting(A)' \in SUBSET Procs BY DEF Waiting
<1>3. IsFiniteSet(Waiting(A)) /\ IsFiniteSet(Waiting(A)') BY <1>1, <1>2, FS_Subset
<1> QED BY <1>3, FS_CardinalityType

LEMMA SpentIsFinite ==
    ASSUME NEW s
    PROVE  IsFiniteSet(Spent(s)) /\ Cardinality(Spent(s)) \in Nat
           /\ IsFiniteSet(Spent(s))' /\ Cardinality(Spent(s))' \in Nat
<1>1. PICK S : S = (1..MaxCalls) \X (1..MaxCalls) OBVIOUS
<1>2. IsFiniteSet(S)
  <2>1. MaxCalls \in Nat BY NumbersAre
  <2>2. IsFiniteSet(1..MaxCalls) BY <2>1, FS_Interval
  <2> QED BY <1>1, <2>2, FS_Product
<1>3. Spent(s) \in SUBSET S /\ Spent(s)' \in SUBSET S BY <1>1 DEF Spent
<1>4. IsFiniteSet(Spent(s)) /\ IsFiniteSet(Spent(s)') BY <1>2, <1>3, FS_Subset
<1> QED BY <1>4, FS_CardinalityType

(* Who waits after one process moved.                                      *)
LEMMA WaitingMoves ==
    ASSUME NEW p \in Procs, NEW x, proc'[p] = x,
           \A r \in Procs : r # p => proc'[r] = proc[r], NEW A
    PROVE  /\ Waiting(A)' \subseteq Waiting(A) \cup {p}
           /\ x.slot \notin A \/ x.at \notin {"scan", "target", "append"} =>
                 Waiting(A)' \subseteq Waiting(A) \ {p}
  BY DEF Waiting

(* Nothing is called, marked or settled.                                   *)
LEMMA PaidStays ==
    ASSUME Paid, born' = born, calls' = calls,
           \A s \in AllSlots : Spent(s)' \subseteq Spent(s),
           Waiting(AllSlots)' \subseteq Waiting(AllSlots),
           \A s \in AllSlots : Waiting({s})' \subseteq Waiting({s}),
           born \in Nat, calls \in [AllSlots -> Nat], SumFunction(calls) \in Nat
    PROVE  Paid'
<1>1. ASSUME NEW A, Waiting(A)' \subseteq Waiting(A)
      PROVE  Cardinality(Waiting(A)') <= Cardinality(Waiting(A))
  <2>1. IsFiniteSet(Waiting(A)) BY WaitingIsFinite
  <2>2. Waiting(A)' \in SUBSET Waiting(A) BY <1>1
  <2> QED BY <2>1, <2>2, FS_Subset
<1>2. ASSUME NEW s \in AllSlots PROVE Cardinality(Spent(s)') <= Cardinality(Spent(s))
  <2>1. IsFiniteSet(Spent(s)) BY SpentIsFinite
  <2>2. Spent(s)' \in SUBSET Spent(s) OBVIOUS
  <2> QED BY <2>1, <2>2, FS_Subset
<1>3. born' + Cardinality(Waiting(AllSlots)') <= SumFunction(calls')
  <2>1. PICK v, w : v = Cardinality(Waiting(AllSlots)) /\ w = Cardinality(Waiting(AllSlots)')
    OBVIOUS
  <2>2. v \in Nat /\ w \in Nat BY <2>1, WaitingIsFinite
  <2>3. w <= v BY <1>1, <2>1
  <2>4. born + v <= SumFunction(calls) BY <2>1 DEF Paid
  <2>5. born + w <= SumFunction(calls) BY ONLY <2>2, <2>3, <2>4, born \in Nat, SumFunction(calls) \in Nat
  <2> QED BY <2>1, <2>5
<1>4. ASSUME NEW s \in AllSlots
      PROVE  Cardinality(Spent(s)') + Cardinality(Waiting({s})') <= calls'[s]
  <2>1. PICK v, w, y, z : /\ v = Cardinality(Waiting({s})) /\ w = Cardinality(Waiting({s})')
                          /\ y = Cardinality(Spent(s)) /\ z = Cardinality(Spent(s)')
    OBVIOUS
  <2>2. v \in Nat /\ w \in Nat /\ y \in Nat /\ z \in Nat
    BY <2>1, WaitingIsFinite, SpentIsFinite
  <2>3. w <= v /\ z <= y BY <1>1, <1>2, <2>1
  <2>4. y + v <= calls[s] BY <2>1 DEF Paid
  <2>5. PICK n : n = calls[s] OBVIOUS
  <2>6. n \in Nat BY <2>5
  <2>7. z + w <= n BY ONLY <2>2, <2>3, <2>4, <2>5, <2>6
  <2> QED BY <2>1, <2>5, <2>7
<1>5. SumFunction(calls') <= MaxCalls BY DEF Paid
<1> QED BY <1>3, <1>4, <1>5 DEF Paid

(* Sums of calls are natural numbers, and no slot has more than all.       *)
LEMMA CallsSum ==
    ASSUME TypeOK
    PROVE  /\ calls \in [AllSlots -> Nat] /\ born \in Nat
           /\ IsFiniteSet(AllSlots)
           /\ SumFunction(calls) = Cardinality(Units(calls, AllSlots))
           /\ SumFunction(calls) \in Nat
           /\ \A s \in AllSlots : calls[s] <= SumFunction(calls)
<1>1. MaxCalls \in Nat BY NumbersAre
<1>2. calls \in [AllSlots -> 0..MaxCalls] /\ born \in 0..MaxCalls BY TypeIs
<1>3. calls \in [AllSlots -> Nat] /\ born \in Nat BY <1>1, <1>2
<1>4. IsFiniteSet(AllSlots) BY StoreAssumption, FS_AddElement DEF AllSlots
<1>5. SumFunction(calls) = Cardinality(Units(calls, AllSlots)) BY <1>3, <1>4, SumIsCount
<1>6. IsFiniteSet(Units(calls, AllSlots)) BY <1>3, <1>4, UnitsAreFinite
<1>7. SumFunction(calls) \in Nat BY <1>5, <1>6, FS_CardinalityType
<1>8. ASSUME NEW s \in AllSlots PROVE calls[s] <= SumFunction(calls)
  <2>1. PICK n : n = calls[s] OBVIOUS
  <2>2. n \in Nat BY <1>3, <2>1
  <2>3. PICK C : C = {s} \X (1..n) OBVIOUS
  <2>4. Cardinality(C) = n BY <2>2, <2>3, Column
  <2>5. C \in SUBSET Units(calls, AllSlots)
    <3>1. ASSUME NEW t \in C PROVE t \in Units(calls, AllSlots)
      <4>1. t \in AllSlots \X Nat /\ t[1] = s /\ t[2] \in 1..n BY <2>2, <2>3
      <4> QED BY <2>1, <4>1 DEF Units
    <3> QED BY <3>1
  <2>6. Cardinality(C) <= Cardinality(Units(calls, AllSlots)) BY <1>6, <2>5, FS_Subset
  <2> QED BY <1>5, <2>1, <2>4, <2>6
<1> QED BY <1>3, <1>4, <1>5, <1>7, <1>8

(* A step that calls nothing and marks nothing.                            *)
LEMMA UnmarkedKeeps ==
    ASSUME Accounted, NEW p \in Procs, NEW x \in State, proc' = [proc EXCEPT ![p] = x],
           files' \in [Families -> [Keys -> Seq(Line)]],
           \A fam \in Families : \A k \in Present(fam)' : k + 2 <= 2 * born,
           \A fam \in Families, k \in Keys : \A c \in Contents(fam, k)' : Rising(c),
           \A fam \in Families, k \in Keys : Copies(fam, k)' \subseteq Copies(fam, k),
           born' = born, calls' = calls, raced' \in BOOLEAN,
           KeyFits(x), RoleOf(x),
           x.at \in {"scan", "target", "append"} =>
              proc[p].at \in {"scan", "target", "append"} /\ x.slot = proc[p].slot
    PROVE  Accounted'
<1>1. TypeOK /\ Births /\ Numbered /\ Roles /\ Paid BY DEF Accounted
<1>2. /\ proc' \in [Procs -> State] /\ proc'[p] = x
      /\ \A r \in Procs : r # p => proc'[r] = proc[r]
  BY <1>1, ProcSet
<1>3. TypeOK'
  <2>1. born' \in 0..MaxCalls /\ calls' \in [AllSlots -> 0..MaxCalls] BY <1>1, TypeIs
  <2> QED BY <1>2, <2>1, TypeFrom
<1>5. Births' /\ \A s \in AllSlots : Spent(s)' \subseteq Spent(s) BY <1>1, MarksStay
<1>6. Numbered'
  <2>1. \A fam \in Families : \A k \in Present(fam)' : k + 2 <= 2 * born'
    OBVIOUS
  <2>2. \A r \in Procs : KeyFits(proc'[r])
    BY <1>1, <1>2 DEF Numbered
  <2>3. \A r \in Procs : KeyFits(proc[r])' BY <2>2 DEF KeyFits
  <2> QED BY <2>1, <2>3 DEF Numbered
<1>7. Roles'
  <2>1. \A k \in Keys : \A l \in Copies("instincts", k)' : l.slot # None
    BY <1>1 DEF Roles, Families
  <2>2. \A r \in Procs : RoleOf(proc'[r]) BY <1>1, <1>2 DEF Roles
  <2> QED BY <2>1, <2>2 DEF Roles, RoleOf
<1>8. ASSUME NEW A PROVE Waiting(A)' \subseteq Waiting(A)
  <2>1. ASSUME NEW r \in Waiting(A)' PROVE r \in Waiting(A)
    <3>1. r \in Procs /\ proc'[r].at \in {"scan", "target", "append"} /\ proc'[r].slot \in A
      BY DEF Waiting
    <3>2. CASE r = p BY <1>2, <3>1, <3>2 DEF Waiting
    <3>3. CASE r # p BY <1>2, <3>1, <3>3 DEF Waiting
    <3> QED BY <3>2, <3>3
  <2> QED BY <2>1
<1>9. Paid'
  <2>1. born \in Nat /\ calls \in [AllSlots -> Nat] /\ SumFunction(calls) \in Nat
    BY <1>1, CallsSum
  <2>2. Waiting(AllSlots)' \subseteq Waiting(AllSlots) BY <1>8
  <2>3. \A s \in AllSlots : Waiting({s})' \subseteq Waiting({s}) BY <1>8
  <2>4. \A s \in AllSlots : Spent(s)' \subseteq Spent(s) BY <1>5
  <2> QED BY ONLY <1>1, <2>1, <2>2, <2>3, <2>4, PaidStays, born' = born, calls' = calls
<1> QED BY <1>3, <1>5, <1>6, <1>7, <1>9 DEF Accounted

(* A step that leaves files and calls alone and takes nothing up.          *)
LEMMA QuietKeeps ==
    ASSUME Accounted, NEW p \in Procs, NEW x \in State, proc' = [proc EXCEPT ![p] = x],
           files' = files, born' = born, calls' = calls, raced' \in BOOLEAN,
           x.at \notin {"rewrite", "unlink"}, KeyFits(x), RoleOf(x),
           x.at \in {"scan", "target", "append"} =>
              proc[p].at \in {"scan", "target", "append"} /\ x.slot = proc[p].slot
    PROVE  Accounted'
<1>1. TypeOK /\ Numbered BY DEF Accounted
<1>2. /\ proc'[p] = x
      /\ \A r \in Procs : r # p => proc'[r] = proc[r]
  BY <1>1, ProcSet
<1>3. /\ \A fam \in Families, k \in Keys : \A c \in Contents(fam, k)' : Rising(c)
      /\ \A fam \in Families, k \in Keys : Copies(fam, k)' \subseteq Copies(fam, k)
  BY <1>2, ContentsStay
<1>4. \A fam \in Families : \A k \in Present(fam)' : k + 2 <= 2 * born
  BY <1>1 DEF Numbered, Present
<1>5. files' \in [Families -> [Keys -> Seq(Line)]] BY <1>1, TypeIs
<1> QED BY <1>3, <1>4, <1>5, UnmarkedKeeps

(* One call more, within the bound.                                        *)
LEMMA CountsUp ==
    ASSUME TypeOK, NEW s \in AllSlots, Count(s)
    PROVE  /\ calls' \in [AllSlots -> 0..MaxCalls]
           /\ calls'[s] = calls[s] + 1
           /\ \A t \in AllSlots : t # s => calls'[t] = calls[t]
           /\ SumFunction(calls') = SumFunction(calls) + 1
           /\ SumFunction(calls') <= MaxCalls
<1>1. MaxCalls \in Nat BY NumbersAre
<1>2. calls \in [AllSlots -> 0..MaxCalls] BY TypeIs
<1>3. PICK n, sum : n = calls[s] /\ sum = SumFunction(calls) OBVIOUS
<1>4. n \in Nat /\ sum \in Nat /\ n <= sum BY <1>3, CallsSum
<1>5. sum < MaxCalls /\ calls' = [calls EXCEPT ![s] = n + 1] BY <1>3 DEF Count
<1>6. n + 1 \in 0..MaxCalls BY ONLY <1>1, <1>4, <1>5
<1>7. PICK c : c = calls' OBVIOUS
<1>8. /\ c \in [AllSlots -> 0..MaxCalls] /\ c[s] = n + 1
      /\ \A t \in AllSlots : t # s => c[t] = calls[t]
  BY <1>2, <1>5, <1>6, <1>7
<1>9. c \in [AllSlots -> Nat] /\ calls \in [AllSlots -> Nat] BY <1>1, <1>2, <1>8
<1>10. IsFiniteSet(AllSlots) BY CallsSum
<1>11. PICK U, V, u : U = Units(calls, AllSlots) /\ V = Units(c, AllSlots) /\ u = <<s, n + 1>>
  OBVIOUS
<1>12. V = U \cup {u}
  <2>1. ASSUME NEW t \in AllSlots \X Nat PROVE t \in V <=> t \in U \cup {u}
    <3>1. t \in U <=> t[2] \in 1..calls[t[1]] BY <1>11 DEF Units
    <3>2. t \in V <=> t[2] \in 1..c[t[1]] BY <1>11 DEF Units
    <3>3. PICK a, b : t = <<a, b>> /\ a \in AllSlots /\ b \in Nat OBVIOUS
    <3>4. CASE a = s
      <4>1. b \in 1..(n + 1) <=> b \in 1..n \/ b = n + 1 BY ONLY <1>4, <3>3
      <4>2. t = u <=> b = n + 1 BY <1>11, <3>3, <3>4
      <4> QED BY <1>3, <1>8, <3>1, <3>2, <3>3, <3>4, <4>1, <4>2
    <3>5. CASE a # s
      <4>1. t # u BY <1>11, <3>3, <3>5
      <4> QED BY <1>8, <3>1, <3>2, <3>3, <3>5, <4>1
    <3> QED BY <3>4, <3>5
  <2>2. U \subseteq AllSlots \X Nat /\ V \subseteq AllSlots \X Nat BY <1>11 DEF Units
  <2>3. u \in AllSlots \X Nat BY <1>4, <1>11
  <2> QED BY <2>1, <2>2, <2>3
<1>13. u \notin U
  <2>1. u[1] = s /\ u[2] = n + 1 BY <1>11
  <2>2. n + 1 \notin 1..n BY <1>4
  <2> QED BY <1>3, <1>11, <2>1, <2>2 DEF Units
<1>14. IsFiniteSet(U) /\ sum = Cardinality(U)
  BY <1>3, <1>9, <1>10, <1>11, UnitsAreFinite, SumIsCount
<1>15. Cardinality(V) = sum + 1 BY <1>12, <1>13, <1>14, FS_AddElement
<1>16. SumFunction(c) = sum + 1 BY <1>9, <1>10, <1>11, <1>15, SumIsCount
<1>17. sum + 1 <= MaxCalls BY ONLY <1>1, <1>4, <1>5
<1> QED BY <1>3, <1>7, <1>8, <1>16, <1>17

(* A call begins: it is counted, and waits for its mark.                   *)
LEMMA CalledKeeps ==
    ASSUME Accounted, NEW p \in Procs, NEW s \in AllSlots, NEW x \in State, CalledTo(p, s, x)
    PROVE  Accounted'
<1>1. TypeOK /\ Births /\ Numbered /\ Roles /\ Paid BY DEF Accounted
<1>2. /\ x.at \in {"scan", "target"} /\ x.slot = s
      /\ s = None <=> x.fam = "observations"
      /\ x.at = "scan" => s # None /\ x.left # {}
      /\ proc' = [proc EXCEPT ![p] = x]
      /\ Count(s) /\ files' = files /\ born' = born
      /\ raced' = (raced \/ \E q \in Procs : Busy(q))
  BY DEF CalledTo
<1>3. /\ proc' \in [Procs -> State] /\ proc'[p] = x
      /\ \A r \in Procs : r # p => proc'[r] = proc[r]
  BY <1>1, <1>2, ProcSet
<1>4. /\ calls' \in [AllSlots -> 0..MaxCalls]
      /\ calls'[s] = calls[s] + 1
      /\ \A t \in AllSlots : t # s => calls'[t] = calls[t]
      /\ SumFunction(calls') = SumFunction(calls) + 1
      /\ SumFunction(calls') <= MaxCalls
  BY <1>1, <1>2, CountsUp
<1>5. TypeOK'
  <2>1. raced' \in BOOLEAN BY <1>2
  <2>2. /\ files' \in [Families -> [Keys -> Seq(Line)]]
        /\ born' \in 0..MaxCalls
    BY <1>1, <1>2, TypeIs
  <2> QED BY <1>3, <1>4, <2>1, <2>2, TypeFrom
<1>6. /\ \A fam \in Families, k \in Keys : \A c \in Contents(fam, k)' : Rising(c)
      /\ \A fam \in Families, k \in Keys : Copies(fam, k)' \subseteq Copies(fam, k)
  BY <1>2, <1>3, ContentsStay
<1>7. Births' /\ \A t \in AllSlots : Spent(t)' \subseteq Spent(t)
  BY <1>1, <1>2, <1>6, MarksStay
<1>8. Numbered'
  <2>1. \A fam \in Families : \A k \in Present(fam)' : k + 2 <= 2 * born'
    BY <1>1, <1>2 DEF Numbered, Present
  <2>2. KeyFits(x) BY <1>2 DEF KeyFits
  <2>3. \A r \in Procs : KeyFits(proc'[r]) BY <1>1, <1>3, <2>2 DEF Numbered
  <2>4. \A r \in Procs : KeyFits(proc[r])' BY <1>2, <2>3 DEF KeyFits
  <2> QED BY <2>1, <2>4 DEF Numbered
<1>9. Roles'
  <2>1. \A k \in Keys : \A l \in Copies("instincts", k)' : l.slot # None
    BY <1>1, <1>6 DEF Roles, Families
  <2>2. RoleOf(x) BY <1>2 DEF RoleOf
  <2>3. \A r \in Procs : RoleOf(proc'[r]) BY <1>1, <1>3, <2>2 DEF Roles
  <2> QED BY <2>1, <2>3 DEF Roles, RoleOf
<1>10. calls \in [AllSlots -> Nat] /\ born \in Nat /\ SumFunction(calls) \in Nat
  BY <1>1, CallsSum
<1>11. \A t \in AllSlots : Cardinality(Spent(t)') <= Cardinality(Spent(t))
  <2>1. ASSUME NEW t \in AllSlots PROVE Cardinality(Spent(t)') <= Cardinality(Spent(t))
    <3>1. IsFiniteSet(Spent(t)) BY SpentIsFinite
    <3>2. Spent(t)' \in SUBSET Spent(t) BY <1>7
    <3> QED BY <3>1, <3>2, FS_Subset
  <2> QED BY <2>1
<1>12. Paid'
  <2>1. born' + Cardinality(Waiting(AllSlots)') <= SumFunction(calls')
    <3>1. PICK v, w : v = Cardinality(Waiting(AllSlots)) /\ w = Cardinality(Waiting(AllSlots)')
      OBVIOUS
    <3>2. IsFiniteSet(Waiting(AllSlots)) /\ v \in Nat /\ w \in Nat BY <3>1, WaitingIsFinite
    <3>3. Waiting(AllSlots)' \subseteq Waiting(AllSlots) \cup {p} BY <1>3, WaitingMoves
    <3>4. w <= v + 1 BY <3>1, <3>2, <3>3, OneMore
    <3>5. born + v <= SumFunction(calls) BY <1>1, <3>1 DEF Paid
    <3>6. born + w <= SumFunction(calls) + 1 BY ONLY <1>10, <3>2, <3>4, <3>5
    <3> QED BY <1>2, <1>4, <3>1, <3>6
  <2>2. ASSUME NEW t \in AllSlots
        PROVE  Cardinality(Spent(t)') + Cardinality(Waiting({t})') <= calls'[t]
    <3>1. PICK v, w, y, z, n :
             /\ v = Cardinality(Waiting({t})) /\ w = Cardinality(Waiting({t})')
             /\ y = Cardinality(Spent(t)) /\ z = Cardinality(Spent(t)') /\ n = calls[t]
      OBVIOUS
    <3>2. IsFiniteSet(Waiting({t})) /\ v \in Nat /\ w \in Nat /\ y \in Nat /\ z \in Nat /\ n \in Nat
      BY <1>10, <3>1, WaitingIsFinite, SpentIsFinite
    <3>3. z <= y BY <1>11, <3>1
    <3>4. y + v <= n BY <1>1, <3>1 DEF Paid
    <3>5. CASE t = s
      <4>1. Waiting({t})' \subseteq Waiting({t}) \cup {p} BY <1>3, WaitingMoves
      <4>2. w <= v + 1 BY <3>1, <3>2, <4>1, OneMore
      <4>3. z + w <= n + 1 BY ONLY <3>2, <3>3, <3>4, <4>2
      <4> QED BY <1>4, <3>1, <3>5, <4>3
    <3>6. CASE t # s
      <4>1. x.slot \notin {t} BY <1>2, <3>6
      <4>2. Waiting({t})' \subseteq Waiting({t}) \ {p} BY <1>3, <4>1, WaitingMoves
      <4>3. Waiting({t})' \in SUBSET Waiting({t}) BY <4>2
      <4>4. w <= v BY <3>1, <3>2, <4>3, FS_Subset
      <4>5. z + w <= n BY ONLY <3>2, <3>3, <3>4, <4>4
      <4> QED BY <1>4, <3>1, <3>6, <4>5
    <3> QED BY <3>5, <3>6
  <2> QED BY <1>4, <2>1, <2>2 DEF Paid
<1> QED BY <1>5, <1>7, <1>8, <1>9, <1>12 DEF Accounted

LEMMA NothingToKeep ==
    ASSUME NEW c \in Seq(Line), NEW now \in Clock, Kept(c, now) # c
    PROVE  c # <<>>
<1> SUFFICES ASSUME c = <<>> PROVE FALSE OBVIOUS
<1>1. PICK t : t = Kept(c, now) OBVIOUS
<1>2. t \in Seq(Line) /\ Range(t) \subseteq Range(c) BY <1>1, KeptProperties
<1>3. Range(c) = {} BY DEF Range
<1>4. DOMAIN t = 1..Len(t) BY <1>2, LenProperties
<1>5. DOMAIN t = {} BY <1>2, <1>3 DEF Range
<1>6. t # <<>> => Len(t) \in Nat \ {0} BY <1>2, EmptySeq
<1>7. t = <<>> BY <1>4, <1>5, <1>6
<1> QED BY <1>1, <1>7

(* A purge has something to take away.                                     *)
LEMMA ThinnedKeeps ==
    ASSUME Accounted, NEW p \in Procs, NEW k \in Keys, NEW x \in State, Thinned(p, k, x)
    PROVE  Accounted'
<1>1. TypeOK /\ Births /\ Numbered /\ Roles BY DEF Accounted
<1>2. PICK q, c, t : q = proc[p] /\ c = files[q.fam][k] /\ t = Kept(c, q.now) OBVIOUS
<1>3. /\ q.at = "purge" /\ t # c
      /\ x.at \in {"rewrite", "unlink"} /\ x.lines = t /\ x.key = k
      /\ x.fam = q.fam /\ x.slot = q.slot
      /\ proc' = [proc EXCEPT ![p] = x]
      /\ files' = files /\ born' = born /\ calls' = calls /\ raced' = raced
  BY <1>2 DEF Thinned
<1>4. q \in State BY <1>1, <1>2, TypeIs
<1>5. q.fam \in Families /\ q.now \in Clock BY <1>4, StateFields
<1>6. c \in Seq(Line) BY <1>1, <1>2, <1>5, TypeIs
<1>7. c \in Contents(q.fam, k) /\ Rising(c)
  <2>1. c \in Contents(q.fam, k) BY <1>2, FileIsContent
  <2> QED BY <1>1, <1>5, <2>1 DEF Births
<1>8. Range(t) \subseteq Range(c) /\ Rising(t)
  BY <1>2, <1>5, <1>6, <1>7, KeptProperties
<1>9. /\ proc'[p] = x
      /\ \A r \in Procs : r # p => proc'[r] = proc[r]
  BY <1>1, <1>3, ProcSet
<1>10. ASSUME NEW fam \in Families, NEW j \in Keys, NEW d \in Contents(fam, j)'
       PROVE  d \in Contents(fam, j) \/ (fam = q.fam /\ j = k /\ d = t)
  <2>1. files'[fam][j] \in Contents(fam, j) BY <1>3, FileIsContent
  <2> QED BY <1>1, <1>3, <1>9, <2>1, ContentsMove
<1>11. \A fam \in Families, j \in Keys : \A d \in Contents(fam, j)' : Rising(d)
  BY <1>1, <1>8, <1>10 DEF Births
<1>12. \A fam \in Families, j \in Keys : Copies(fam, j)' \subseteq Copies(fam, j)
  <2>1. ASSUME NEW fam \in Families, NEW j \in Keys, NEW l \in Copies(fam, j)'
        PROVE  l \in Copies(fam, j)
    <3>1. PICK d \in Contents(fam, j)' : l \in Range(d) BY DEF Copies
    <3>2. CASE d \in Contents(fam, j) BY <3>1, <3>2 DEF Copies
    <3>3. CASE fam = q.fam /\ j = k /\ d = t BY <1>7, <1>8, <3>1, <3>3 DEF Copies
    <3> QED BY <1>10, <3>2, <3>3
  <2> QED BY <2>1
<1>13. c # <<>> BY <1>2, <1>3, <1>5, <1>6, NothingToKeep
<1>14. k \in Present(q.fam) BY <1>2, <1>13 DEF Present
<1>15. KeyFits(x)
  <2>1. k + 2 <= 2 * born BY <1>1, <1>5, <1>14 DEF Numbered
  <2> QED BY <1>3, <2>1 DEF KeyFits
<1>16. RoleOf(x)
  <2>1. q.slot = None BY <1>1, <1>2, <1>3 DEF Roles, RoleOf
  <2> QED BY <1>3, <2>1 DEF RoleOf
<1>17. files' \in [Families -> [Keys -> Seq(Line)]] /\ raced' \in BOOLEAN
  BY <1>1, <1>3, TypeIs
<1>18. \A fam \in Families : \A j \in Present(fam)' : j + 2 <= 2 * born
  BY <1>1, <1>3 DEF Numbered, Present
<1>19. x.at \notin {"scan", "target", "append"} BY <1>3
<1> QED BY <1>3, <1>11, <1>12, <1>15, <1>16, <1>17, <1>18, <1>19, UnmarkedKeeps

(* What a replacement does to the files.                                   *)
LEMMA ReplacedFiles ==
    ASSUME TypeOK, NEW q \in State,
           files' = [files EXCEPT ![q.fam][q.key] = q.lines]
    PROVE  /\ files' \in [Families -> [Keys -> Seq(Line)]]
           /\ files'[q.fam][q.key] = q.lines
           /\ \A fam \in Families, k \in Keys :
                 fam # q.fam \/ k # q.key => files'[fam][k] = files[fam][k]
<1>3. q.fam \in Families /\ q.key \in Keys /\ q.lines \in Seq(Line) BY StateFields
<1>4. files \in [Families -> [Keys -> Seq(Line)]] BY TypeIs
<1>5. PICK f, k, c : f = q.fam /\ k = q.key /\ c = q.lines OBVIOUS
<1>6. files' = [files EXCEPT ![f][k] = c] BY <1>5
<1>7. f \in Families /\ k \in Keys /\ c \in Seq(Line) BY <1>3, <1>5
<1>8. /\ files' \in [Families -> [Keys -> Seq(Line)]]
      /\ files'[f][k] = c
      /\ \A g \in Families, j \in Keys : g # f \/ j # k => files'[g][j] = files[g][j]
  BY ONLY <1>4, <1>6, <1>7
<1> QED BY <1>5, <1>8

LEMMA ReplaceKeeps ==
    ASSUME Accounted, NEW p \in Procs, Replace(p)
    PROVE  Accounted'
<1>1. TypeOK /\ Births /\ Numbered /\ Roles BY DEF Accounted
<1>2. PICK q : q = proc[p] OBVIOUS
<1>3. /\ q.at \in {"rewrite", "unlink"}
      /\ files' = [files EXCEPT ![q.fam][q.key] = q.lines]
      /\ born' = born /\ calls' = calls /\ raced' = raced
  BY <1>1, <1>2, ReplaceIs
<1>4. PICK x \in State : /\ proc' = [proc EXCEPT ![p] = x]
                         /\ x.at \in {"idle", "purge"}
                         /\ x.at = "purge" => x.slot = None
  <2>1. \/ proc' = [proc EXCEPT ![p] = Idle]
        \/ \E x \in State : x.at = "purge" /\ x.slot = q.slot /\ q.slot = None
                            /\ proc' = [proc EXCEPT ![p] = x]
    BY <1>1, <1>2, ReplaceIs
  <2>2. Idle \in State /\ Idle.at = "idle" BY IdleIs
  <2> QED BY <2>1, <2>2
<1>5. /\ proc'[p] = x
      /\ \A r \in Procs : r # p => proc'[r] = proc[r]
  BY <1>1, <1>4, ProcSet
<1>6. /\ files' \in [Families -> [Keys -> Seq(Line)]]
      /\ files'[q.fam][q.key] = q.lines
      /\ \A fam \in Families, k \in Keys :
            fam # q.fam \/ k # q.key => files'[fam][k] = files[fam][k]
  <2>1. q \in State BY <1>1, <1>2, TypeIs
  <2> QED BY <1>1, <1>3, <2>1, ReplacedFiles
<1>7. q.lines \in Contents(q.fam, q.key) BY <1>2, <1>3, LinesAreContent
<1>8. ASSUME NEW fam \in Families, NEW k \in Keys, NEW c \in Contents(fam, k)'
      PROVE  c \in Contents(fam, k)
  <2>1. files'[fam][k] \in Contents(fam, k)
    <3>1. CASE fam = q.fam /\ k = q.key BY <1>6, <1>7, <3>1
    <3>2. CASE fam # q.fam \/ k # q.key BY <1>6, <3>2, FileIsContent
    <3> QED BY <3>1, <3>2
  <2>2. x.at \notin {"rewrite", "unlink"} BY <1>4
  <2> QED BY <1>1, <1>5, <2>1, <2>2, ContentsMove
<1>9. \A fam \in Families, k \in Keys : \A c \in Contents(fam, k)' : Rising(c)
  BY <1>1, <1>8 DEF Births
<1>10. \A fam \in Families, k \in Keys : Copies(fam, k)' \subseteq Copies(fam, k)
  BY <1>8 DEF Copies
<1>11. ASSUME NEW fam \in Families, NEW k \in Present(fam)' PROVE k + 2 <= 2 * born
  <2>1. CASE fam = q.fam /\ k = q.key
    <3>1. KeyFits(q) BY <1>1, <1>2 DEF Numbered
    <3> QED BY <1>3, <2>1, <3>1 DEF KeyFits
  <2>2. CASE fam # q.fam \/ k # q.key
    <3>1. k \in Present(fam) BY <1>6, <2>2 DEF Present
    <3> QED BY <1>1, <3>1 DEF Numbered
  <2> QED BY <2>1, <2>2
<1>12. KeyFits(x) /\ RoleOf(x) BY <1>4 DEF KeyFits, RoleOf
<1>13. raced' \in BOOLEAN BY <1>1, <1>3, TypeIs
<1>14. x.at \notin {"scan", "target", "append"} BY <1>4
<1> QED BY <1>3, <1>4, <1>6, <1>9, <1>10, <1>11, <1>12, <1>13, <1>14, UnmarkedKeeps

-----------------------------------------------------------------------------
(* The steps that leave a mark.                                            *)

(* A hit takes a call: a line has no more of them than its slot.           *)
LEMMA HitsAreSpent ==
    ASSUME TypeOK, NEW fam \in Families, NEW k \in Keys, NEW l \in Copies(fam, k)
    PROVE  l.slot \in AllSlots /\ l.hits \in Nat /\ l.hits <= Cardinality(Spent(l.slot))
<1>1. l \in Line BY CopiesAreLines
<1>2. l.slot \in AllSlots /\ l.hits \in 1..MaxCalls /\ l.born \in 1..MaxCalls
  BY <1>1, LineFields
<1>3. PICK s, h, b : s = l.slot /\ h = l.hits /\ b = l.born OBVIOUS
<1>4. MaxCalls \in Nat BY NumbersAre
<1>5. h \in 1..MaxCalls /\ b \in 1..MaxCalls BY <1>2, <1>3
<1>6. h \in Nat BY ONLY <1>4, <1>5
<1>7. PICK C : C = {b} \X (1..h) OBVIOUS
<1>8. Cardinality(C) = h BY <1>6, <1>7, Column
<1>9. C \in SUBSET Spent(s)
  <2>1. ASSUME NEW c \in C PROVE c \in Spent(s)
    <3>1. c[1] = b /\ c[2] \in 1..h /\ c = <<c[1], c[2]>> BY <1>7
    <3>2. c[2] \in 1..MaxCalls /\ c[2] <= h BY ONLY <1>4, <1>5, <3>1
    <3>3. c \in (1..MaxCalls) \X (1..MaxCalls) BY <1>5, <3>1, <3>2
    <3>4. l.slot = s /\ l.born = c[1] /\ c[2] <= l.hits BY <1>3, <3>1, <3>2
    <3> QED BY <3>3, <3>4 DEF Spent
  <2> QED BY <2>1
<1>10. IsFiniteSet(Spent(s)) BY SpentIsFinite
<1>11. Cardinality(C) <= Cardinality(Spent(s)) BY <1>9, <1>10, FS_Subset
<1> QED BY <1>2, <1>3, <1>6, <1>8, <1>11

(* While a call of a slot waits, there is room for one hit and one line.   *)
LEMMA RoomForOne ==
    ASSUME Accounted, NEW p \in Procs, proc[p].at \in {"scan", "target", "append"}
    PROVE  /\ proc[p].slot \in AllSlots
           /\ Cardinality(Spent(proc[p].slot)) + 1 <= MaxCalls
           /\ born + 1 <= MaxCalls
<1>1. TypeOK /\ Paid BY DEF Accounted
<1>2. PICK s : s = proc[p].slot OBVIOUS
<1>3. s \in AllSlots
  <2>1. proc[p] \in State BY <1>1, TypeIs
  <2> QED BY <1>2, <2>1, StateFields
<1>4. p \in Waiting({s}) /\ p \in Waiting(AllSlots) BY <1>2, <1>3 DEF Waiting
<1>5. \A A : p \in Waiting(A) => Cardinality(Waiting(A)) \in Nat /\ Cardinality(Waiting(A)) >= 1
  <2>1. ASSUME NEW A, p \in Waiting(A)
        PROVE  Cardinality(Waiting(A)) \in Nat /\ Cardinality(Waiting(A)) >= 1
    <3>1. PICK w : w = Cardinality(Waiting(A)) OBVIOUS
    <3>2. IsFiniteSet(Waiting(A)) /\ w \in Nat BY <3>1, WaitingIsFinite
    <3>3. Waiting(A) # {} BY <2>1
    <3>4. w # 0 BY <3>1, <3>2, <3>3, FS_EmptySet
    <3>5. w >= 1 BY ONLY <3>2, <3>4
    <3> QED BY <3>1, <3>2, <3>5
  <2> QED BY <2>1
<1>6. PICK v, w, y, n, sum :
         /\ v = Cardinality(Waiting({s})) /\ w = Cardinality(Waiting(AllSlots))
         /\ y = Cardinality(Spent(s)) /\ n = calls[s] /\ sum = SumFunction(calls)
  OBVIOUS
<1>7. v \in Nat /\ v >= 1 /\ w \in Nat /\ w >= 1 BY <1>4, <1>5, <1>6
<1>8. y \in Nat BY <1>6, SpentIsFinite
<1>9. n \in Nat /\ sum \in Nat /\ n <= sum /\ born \in Nat BY <1>1, <1>3, <1>6, CallsSum
<1>10. y + v <= n /\ born + w <= sum /\ sum <= MaxCalls BY <1>1, <1>3, <1>6 DEF Paid
<1>11. MaxCalls \in Nat BY NumbersAre
<1>12. y + 1 <= MaxCalls /\ born + 1 <= MaxCalls
  BY ONLY <1>7, <1>8, <1>9, <1>10, <1>11
<1> QED BY <1>2, <1>3, <1>6, <1>12

(* A call that waited leaves one mark.                                     *)
LEMMA PaidSettles ==
    ASSUME TypeOK, Paid, NEW p \in Procs, proc[p].at \in {"scan", "target", "append"},
           NEW s \in AllSlots, s = proc[p].slot,
           born' = born \/ born' = born + 1, calls' = calls, NEW u,
           Spent(s)' \subseteq Spent(s) \cup {u},
           \A t \in AllSlots : t # s => Spent(t)' \subseteq Spent(t),
           Waiting(AllSlots)' \subseteq Waiting(AllSlots) \ {p},
           \A t \in AllSlots : Waiting({t})' \subseteq Waiting({t}) \ {p}
    PROVE  Paid'
<1>1. calls \in [AllSlots -> Nat] /\ born \in Nat /\ SumFunction(calls) \in Nat BY CallsSum
<1>2. p \in Waiting({s}) /\ p \in Waiting(AllSlots) BY DEF Waiting
<1>3. born' + Cardinality(Waiting(AllSlots)') <= SumFunction(calls')
  <2>1. PICK v, w, n : /\ v = Cardinality(Waiting(AllSlots))
                       /\ w = Cardinality(Waiting(AllSlots)') /\ n = born'
    OBVIOUS
  <2>2. IsFiniteSet(Waiting(AllSlots)) /\ v \in Nat /\ w \in Nat BY <2>1, WaitingIsFinite
  <2>3. w + 1 <= v BY <1>2, <2>1, <2>2, OneLess
  <2>4. born + v <= SumFunction(calls) BY <2>1 DEF Paid
  <2>5. n = born \/ n = born + 1 BY <2>1
  <2>6. n + w <= SumFunction(calls) BY ONLY <1>1, <2>2, <2>3, <2>4, <2>5
  <2> QED BY <2>1, <2>6
<1>4. ASSUME NEW t \in AllSlots
      PROVE  Cardinality(Spent(t)') + Cardinality(Waiting({t})') <= calls'[t]
  <2>1. PICK v, w, y, z, n :
           /\ v = Cardinality(Waiting({t})) /\ w = Cardinality(Waiting({t})')
           /\ y = Cardinality(Spent(t)) /\ z = Cardinality(Spent(t)') /\ n = calls[t]
    OBVIOUS
  <2>2. /\ IsFiniteSet(Waiting({t})) /\ IsFiniteSet(Spent(t))
        /\ v \in Nat /\ w \in Nat /\ y \in Nat /\ z \in Nat /\ n \in Nat
    BY <1>1, <2>1, WaitingIsFinite, SpentIsFinite
  <2>3. y + v <= n BY <2>1 DEF Paid
  <2>4. z + w <= n
    <3>1. CASE t = s
      <4>1. w + 1 <= v BY <1>2, <2>1, <2>2, <3>1, OneLess
      <4>2. z <= y + 1 BY <2>1, <2>2, <3>1, OneMore
      <4> QED BY ONLY <2>2, <2>3, <4>1, <4>2
    <3>2. CASE t # s
      <4>1. Waiting({t})' \in SUBSET Waiting({t}) /\ Spent(t)' \in SUBSET Spent(t) BY <3>2
      <4>2. w <= v /\ z <= y BY <2>1, <2>2, <4>1, FS_Subset
      <4> QED BY ONLY <2>2, <2>3, <4>2
    <3> QED BY <3>1, <3>2
  <2> QED BY <2>1, <2>4
<1>5. SumFunction(calls') <= MaxCalls BY DEF Paid
<1> QED BY <1>3, <1>4, <1>5 DEF Paid

(* A recording that found its slot takes up the file with one more hit.    *)
LEMMA FoundKeeps ==
    ASSUME Accounted, NEW p \in Procs, NEW k \in Keys, NEW i, NEW x, Found(p, k, i, x)
    PROVE  Accounted'
<1>1. TypeOK /\ Births /\ Numbered /\ Roles /\ Paid BY DEF Accounted
<1>2. PICK q, c, s : q = proc[p] /\ c = files["instincts"][k] /\ s = q.slot OBVIOUS
<1>3. /\ q.at = "scan" /\ i \in DOMAIN c /\ c[i].slot = s
      /\ x.at = "rewrite" /\ x.key = k
      /\ x.fam = q.fam /\ x.slot = s /\ x.now = q.now
      /\ x.lines = [c EXCEPT ![i] = Hit(@, q.now)]
      /\ x.lines \in Seq(Line) => x \in State
      /\ proc' = [proc EXCEPT ![p] = x]
      /\ files' = files /\ born' = born /\ calls' = calls /\ raced' = raced
  BY <1>2 DEF Found
<1>4. q \in State BY <1>1, <1>2, TypeIs
<1>5. q.fam \in Families /\ q.now \in Clock /\ s \in AllSlots BY <1>2, <1>4, StateFields
<1>6. s # None /\ q.fam = "instincts"
  <2>1. RoleOf(q) BY <1>1, <1>2 DEF Roles
  <2>2. s # None /\ q.fam # "observations" BY <1>2, <1>3, <2>1 DEF RoleOf
  <2> QED BY <1>5, <2>2 DEF Families
<1>7. "instincts" \in Families BY DEF Families
<1>8. c \in Seq(Line) BY <1>1, <1>2, <1>7, TypeIs
<1>9. DOMAIN c = 1..Len(c) BY <1>8, LenProperties
<1>10. c[i] \in Line BY <1>3, <1>8, <1>9, ElementOfSeq
<1>11. c \in Contents("instincts", k) /\ c[i] \in Copies("instincts", k)
  <2>1. c[i] \in Range(c) BY <1>3 DEF Range
  <2> QED BY <1>2, <2>1, FileIsContent
<1>12. Rising(c) BY <1>1, <1>7, <1>11 DEF Births
<1>13. PICK d, e : d = x.lines /\ e = Hit(c[i], q.now) OBVIOUS
<1>14. /\ e.born = c[i].born /\ e.slot = s /\ e.hits = c[i].hits + 1
  BY <1>3, <1>5, <1>10, <1>13, HitLine
<1>15. d = [c EXCEPT ![i] = Hit(@, q.now)] BY <1>3, <1>13
<1>16. /\ DOMAIN d = DOMAIN c /\ d[i] = e
       /\ \A j \in DOMAIN c : j # i => d[j] = c[j]
       /\ c[i].hits + 1 <= MaxCalls => d \in Seq(Line)
       /\ Rising(d)
  <2>1. PICK now \in Clock : now = q.now BY <1>5
  <2>2. e = Hit(c[i], now) /\ d = [c EXCEPT ![i] = e] BY <1>13, <1>15, <2>1
  <2>3. i \in DOMAIN c BY <1>3
  <2>4. /\ DOMAIN d = DOMAIN c
        /\ d[i] = e
        /\ \A j \in DOMAIN c : j # i => d[j] = c[j]
        /\ c[i].hits + 1 <= MaxCalls => d \in Seq(Line)
        /\ Rising(c) => Rising(d)
    BY ONLY <1>8, <2>1, <2>2, <2>3, HitProperties
  <2> QED BY <1>12, <2>4
<1>17. c[i].hits + 1 <= MaxCalls
  <2>1. PICK h, y : h = c[i].hits /\ y = Cardinality(Spent(s)) OBVIOUS
  <2>2. h \in Nat /\ h <= y BY <1>1, <1>3, <1>7, <1>11, <2>1, HitsAreSpent
  <2>3. y + 1 <= MaxCalls BY <1>2, <1>3, <2>1, RoomForOne
  <2>4. y \in Nat BY <2>1, SpentIsFinite
  <2>5. MaxCalls \in Nat BY NumbersAre
  <2>6. h + 1 <= MaxCalls BY ONLY <2>2, <2>3, <2>4, <2>5
  <2> QED BY <2>1, <2>6
<1>18. x \in State BY <1>3, <1>13, <1>16, <1>17
<1>19. /\ proc' \in [Procs -> State] /\ proc'[p] = x
       /\ \A r \in Procs : r # p => proc'[r] = proc[r]
  BY <1>1, <1>3, <1>18, ProcSet
<1>20. TypeOK'
  <2>1. /\ files' \in [Families -> [Keys -> Seq(Line)]] /\ born' \in 0..MaxCalls
        /\ calls' \in [AllSlots -> 0..MaxCalls] /\ raced' \in BOOLEAN
    BY <1>1, <1>3, TypeIs
  <2> QED BY <1>19, <2>1, TypeFrom
<1>21. ASSUME NEW fam \in Families, NEW j \in Keys, NEW b \in Contents(fam, j)'
       PROVE  b \in Contents(fam, j) \/ (fam = "instincts" /\ j = k /\ b = d)
  <2>1. files'[fam][j] \in Contents(fam, j) BY <1>3, FileIsContent
  <2>2. \/ b \in Contents(fam, j) \/ b = files'[fam][j]
        \/ x.at \in {"rewrite", "unlink"} /\ x.fam = fam /\ x.key = j /\ b = x.lines
    BY ONLY <1>1, <1>19, ContentsMove
  <2> QED BY <1>3, <1>6, <1>13, <2>1, <2>2
<1>22. ASSUME NEW fam \in Families, NEW j \in Keys, NEW l \in Copies(fam, j)'
       PROVE  l \in Copies(fam, j) \/ (fam = "instincts" /\ j = k /\ l = e)
  <2>1. PICK b \in Contents(fam, j)' : l \in Range(b) BY DEF Copies
  <2>2. CASE b \in Contents(fam, j) BY <2>1, <2>2 DEF Copies
  <2>3. CASE fam = "instincts" /\ j = k /\ b = d
    <3>1. PICK n \in DOMAIN d : l = d[n] BY <2>1, <2>3 DEF Range
    <3>2. n = i => l = e BY <1>16, <3>1
    <3>3. n # i => l \in Range(c) BY <1>16, <3>1 DEF Range
    <3>4. l \in Range(c) => l \in Copies(fam, j) BY <1>11, <2>3 DEF Copies
    <3> QED BY <2>3, <3>2, <3>3, <3>4
  <2> QED BY <1>21, <2>2, <2>3
<1>23. Births'
  <2>1. ASSUME NEW fam \in Families, NEW j \in Keys, NEW b \in Contents(fam, j)'
        PROVE  Rising(b)'
    <3>1. Rising(b) BY <1>1, <1>16, <1>21 DEF Births
    <3> QED BY <1>3, <3>1 DEF Rising
  <2>2. ASSUME NEW fam \in Families, NEW j \in Keys, NEW l \in Copies(fam, j)'
        PROVE  \E m \in Copies(fam, j) : m.born = l.born
    BY <1>11, <1>14, <1>22
  <2>3. ASSUME NEW f \in Families, NEW g \in Families, NEW j \in Keys, NEW n \in Keys,
               NEW l \in Copies(f, j)', NEW m \in Copies(g, n)', l.born = m.born
        PROVE  f = g /\ j = n
    <3>1. PICK a \in Copies(f, j) : a.born = l.born BY <2>2
    <3>2. PICK b \in Copies(g, n) : b.born = m.born BY <2>2
    <3>3. a.born = b.born BY <2>3, <3>1, <3>2
    <3> QED BY <1>1, <3>3 DEF Births
  <2> QED BY <2>1, <2>3 DEF Births
<1>24. Numbered'
  <2>1. \A fam \in Families : \A j \in Present(fam)' : j + 2 <= 2 * born'
    BY <1>1, <1>3 DEF Numbered, Present
  <2>2. k + 2 <= 2 * born
    <3>1. c # <<>> BY <1>3
    <3>2. k \in Present("instincts") BY <1>2, <3>1 DEF Present
    <3> QED BY <1>1, <1>7, <3>2 DEF Numbered
  <2>3. KeyFits(x) BY <1>3, <2>2 DEF KeyFits
  <2>4. \A r \in Procs : KeyFits(proc'[r]) BY <1>1, <1>19, <2>3 DEF Numbered
  <2>5. \A r \in Procs : KeyFits(proc[r])' BY <1>3, <2>4 DEF KeyFits
  <2> QED BY <2>1, <2>5 DEF Numbered
<1>25. Roles'
  <2>1. \A j \in Keys : \A l \in Copies("instincts", j)' : l.slot # None
    BY <1>1, <1>6, <1>7, <1>14, <1>22 DEF Roles
  <2>2. RoleOf(x) BY <1>3, <1>6 DEF RoleOf
  <2>3. \A r \in Procs : RoleOf(proc'[r]) BY <1>1, <1>19, <2>2 DEF Roles
  <2> QED BY <2>1, <2>3 DEF Roles, RoleOf
<1>26. Paid'
  <2>1. PICK u : u = <<c[i].born, c[i].hits + 1>> OBVIOUS
  <2>2. ASSUME NEW t \in AllSlots, NEW v \in Spent(t)'
        PROVE  v \in Spent(t) \/ (t = s /\ v = u)
    <3>1. PICK fam \in Families, j \in Keys : \E l \in Copies(fam, j)' :
             l.slot = t /\ l.born = v[1] /\ v[2] <= l.hits
      BY DEF Spent
    <3>2. PICK l \in Copies(fam, j)' : l.slot = t /\ l.born = v[1] /\ v[2] <= l.hits BY <3>1
    <3>3. v \in (1..MaxCalls) \X (1..MaxCalls) BY DEF Spent
    <3>4. CASE l \in Copies(fam, j) BY <3>2, <3>3, <3>4 DEF Spent
    <3>5. CASE l = e
      <4>1. t = s /\ v[1] = c[i].born /\ v[2] <= c[i].hits + 1 BY <1>14, <3>2, <3>5
      <4>2. v = <<v[1], v[2]>> /\ v[2] \in Int BY <3>3
      <4>3. CASE v[2] = c[i].hits + 1 BY <2>1, <4>1, <4>2, <4>3
      <4>4. CASE v[2] # c[i].hits + 1
        <5>1. PICK h, w : h = c[i].hits /\ w = v[2] OBVIOUS
        <5>2. h \in Int BY <1>10, <5>1, LineFields
        <5>3. w <= h BY ONLY <4>1, <4>2, <4>4, <5>1, <5>2
        <5>4. c[i].slot = t /\ c[i].born = v[1] /\ v[2] <= c[i].hits BY <1>3, <4>1, <5>1, <5>3
        <5> QED BY <1>7, <1>11, <3>3, <5>4 DEF Spent
      <4> QED BY <4>3, <4>4
    <3> QED BY <1>22, <3>4, <3>5
  <2>3. x.at \notin {"scan", "target", "append"} BY <1>3
  <2>4. /\ Waiting(AllSlots)' \subseteq Waiting(AllSlots) \ {p}
        /\ \A t \in AllSlots : Waiting({t})' \subseteq Waiting({t}) \ {p}
    BY <1>19, <2>3, WaitingMoves
  <2>5. /\ Spent(s)' \subseteq Spent(s) \cup {u}
        /\ \A t \in AllSlots : t # s => Spent(t)' \subseteq Spent(t)
    BY <1>5, <2>2
  <2>6. proc[p].at \in {"scan", "target", "append"} /\ s = proc[p].slot BY <1>2, <1>3
  <2> QED BY ONLY <1>1, <1>3, <1>5, <2>4, <2>5, <2>6, PaidSettles
<1> QED BY <1>20, <1>23, <1>24, <1>25, <1>26 DEF Accounted

(* The file a line goes to, and what that does to the files.               *)
Wrote(p, f, k, l) ==
    /\ proc[p].at = "append" /\ f = proc[p].fam
    /\ k = proc[p].key \/ (k = proc[p].key + 1 /\ proc[p].key \in Present(f))
    /\ l = NewLine(p)
    /\ proc' = [proc EXCEPT ![p] = Idle]
    /\ files' = [files EXCEPT ![f][k] = Append(@, l)]
    /\ born' = born + 1 /\ calls' = calls /\ raced' = raced

LEMMA WroteIs ==
    ASSUME Accounted, NEW p \in Procs, NEW f, NEW k, NEW l, Wrote(p, f, k, l)
    PROVE  /\ f \in Families /\ k \in Keys /\ k + 2 <= 2 * (born + 1)
           /\ l \in Line /\ l.born = born + 1 /\ l.slot = proc[p].slot /\ l.hits = 1
           /\ l.ts = proc[p].now
           /\ born' \in 0..MaxCalls /\ born \in Nat
           /\ files' \in [Families -> [Keys -> Seq(Line)]]
           /\ files'[f][k] = Append(files[f][k], l)
           /\ \A g \in Families, j \in Keys : g # f \/ j # k => files'[g][j] = files[g][j]
<1>1. TypeOK /\ Numbered BY DEF Accounted
<1>2. PICK q : q = proc[p] OBVIOUS
<1>3. q \in State BY <1>1, <1>2, TypeIs
<1>4. q.fam \in Families /\ q.slot \in AllSlots /\ q.now \in Clock /\ q.key \in Keys
  BY <1>3, StateFields
<1>5. /\ q.at = "append" /\ f = q.fam
      /\ k = q.key \/ (k = q.key + 1 /\ q.key \in Present(f))
      /\ l = [born |-> born + 1, slot |-> q.slot, hits |-> 1, ts |-> q.now]
      /\ files' = [files EXCEPT ![f][k] = Append(@, l)]
      /\ born' = born + 1
  BY <1>2 DEF Wrote, NewLine
<1>6. born + 1 <= MaxCalls BY <1>2, <1>5, RoomForOne
<1>7. born \in Nat /\ MaxCalls \in Nat
  <2>1. MaxCalls \in Nat BY NumbersAre
  <2>2. born \in 0..MaxCalls BY <1>1, TypeIs
  <2> QED BY <2>1, <2>2
<1>8. PICK key : key = q.key OBVIOUS
<1>9. key \in 0..(2 * MaxCalls) BY <1>4, <1>8 DEF Keys
<1>10. key <= 2 * born
  <2>1. KeyFits(q) BY <1>1, <1>2 DEF Numbered
  <2> QED BY <1>5, <1>8, <2>1 DEF KeyFits
<1>11. k = key \/ (k = key + 1 /\ key + 2 <= 2 * born)
  <2>1. key \in Present(f) => key + 2 <= 2 * born BY <1>1, <1>4, <1>5 DEF Numbered
  <2> QED BY <1>5, <1>8, <2>1
<1>12. k \in 0..(2 * MaxCalls) /\ k + 2 <= 2 * (born + 1)
  BY ONLY <1>6, <1>7, <1>9, <1>10, <1>11
<1>13. l \in Line
  <2>1. born + 1 \in 1..MaxCalls BY <1>6, <1>7
  <2>2. 1 \in 1..MaxCalls BY ONLY <1>6, <1>7
  <2> QED BY <1>4, <1>5, <2>1, <2>2 DEF Line, AllSlots
<1>14. l.born = born + 1 /\ l.slot = q.slot /\ l.hits = 1 /\ l.ts = q.now BY <1>5
<1>15. f \in Families /\ k \in Keys BY <1>4, <1>5, <1>12 DEF Keys
<1>16. PICK a : a = Append(files[f][k], l) OBVIOUS
<1>17. a \in Seq(Line)
  <2>1. files[f][k] \in Seq(Line) BY <1>1, <1>15, TypeIs
  <2> QED BY <1>13, <1>16, <2>1, AppendProperties
<1>18. files \in [Families -> [Keys -> Seq(Line)]] BY <1>1, TypeIs
<1>19. files' = [files EXCEPT ![f][k] = a] BY <1>5, <1>16
<1>20. /\ files' \in [Families -> [Keys -> Seq(Line)]]
       /\ files'[f][k] = a
       /\ \A g \in Families, j \in Keys : g # f \/ j # k => files'[g][j] = files[g][j]
  BY ONLY <1>15, <1>17, <1>18, <1>19
<1>21. born' \in 0..MaxCalls BY <1>5, <1>6, <1>7
<1> QED BY <1>2, <1>7, <1>12, <1>13, <1>14, <1>15, <1>16, <1>20, <1>21

(* A new line comes last.                                                  *)
LEMMA AppendRises ==
    ASSUME NEW c \in Seq(Line), Rising(c), NEW l \in Line, l.born = born + 1,
           born \in Nat, born' = born + 1, NEW a, a = Append(c, l)
    PROVE  /\ Rising(a)' /\ Range(a) = Range(c) \cup {l}
<1>1. DOMAIN c = 1..Len(c) /\ Len(c) \in Nat BY LenProperties
<1>2. PICK n : n = Len(c) OBVIOUS
<1>3. /\ a \in Seq(Line) /\ Len(a) = n + 1 /\ a[n + 1] = l
      /\ \A i \in 1..n : a[i] = c[i]
  BY <1>2, AppendProperties
<1>4. DOMAIN a = 1..(n + 1) BY <1>3, LenProperties
<1>5. n \in Nat BY <1>1, <1>2
<1>6. \A i \in 1..n : c[i].born \in Int /\ c[i].born <= born
  <2>1. \A i \in 1..n : c[i] \in Line BY <1>2, ElementOfSeq
  <2>2. \A i \in 1..n : c[i].born \in Int BY <2>1, LineFields
  <2> QED BY <1>1, <1>2, <2>2 DEF Rising
<1>7. ASSUME NEW i \in 1..(n + 1) PROVE a[i].born <= born'
  <2>1. CASE i = n + 1 BY <1>3, <2>1
  <2>2. CASE i # n + 1
    <3>1. i \in 1..n BY ONLY <1>5, <1>7, <2>2
    <3>2. PICK b : b = c[i].born OBVIOUS
    <3>3. b \in Int /\ b <= born BY <1>6, <3>1, <3>2
    <3>4. b <= born + 1 BY ONLY <3>3, born \in Nat
    <3> QED BY <1>3, <3>1, <3>2, <3>4
  <2> QED BY <2>1, <2>2
<1>8. ASSUME NEW i \in 1..(n + 1), NEW j \in 1..(n + 1), i < j PROVE a[i].born < a[j].born
  <2>1. i \in 1..n BY ONLY <1>5, <1>8
  <2>2. CASE j = n + 1
    <3>1. PICK b : b = c[i].born OBVIOUS
    <3>2. b \in Int /\ b <= born BY <1>6, <2>1, <3>1
    <3>3. b < born + 1 BY ONLY <3>2, born \in Nat
    <3> QED BY <1>3, <2>1, <2>2, <3>1, <3>3
  <2>3. CASE j # n + 1
    <3>1. j \in 1..n BY ONLY <1>5, <1>8, <2>3
    <3>2. c[i].born < c[j].born BY <1>1, <1>2, <1>8, <2>1, <3>1 DEF Rising
    <3> QED BY <1>3, <2>1, <3>1, <3>2
  <2> QED BY <2>2, <2>3
<1>9. Range(a) = Range(c) \cup {l}
  <2>1. 1..(n + 1) = 1..n \cup {n + 1} BY <1>5
  <2>2. DOMAIN a = DOMAIN c \cup {n + 1} BY <1>1, <1>2, <1>4, <2>1
  <2>3. \A i \in DOMAIN c : a[i] = c[i] BY <1>1, <1>2, <1>3
  <2> QED BY <1>3, <2>2, <2>3 DEF Range
<1>10. Rising(a)' BY <1>4, <1>7, <1>8 DEF Rising
<1> QED BY <1>9, <1>10

(* Where the new line is, and that everything else was there before.       *)
LEMMA WroteWhere ==
    ASSUME Accounted, NEW p \in Procs, NEW f, NEW k, NEW l, Wrote(p, f, k, l)
    PROVE  /\ \A fam \in Families, j \in Keys : \A b \in Contents(fam, j)' :
                 b \in Contents(fam, j) \/ (fam = f /\ j = k /\ b = files'[f][k])
           /\ Rising(files[f][k])'
           /\ \A fam \in Families, j \in Keys : \A m \in Copies(fam, j)' :
                 m \in Copies(fam, j) \/ (fam = f /\ j = k /\ m = l)
<1>1. TypeOK /\ Births BY DEF Accounted
<1>2. proc' = [proc EXCEPT ![p] = Idle] /\ born' = born + 1 BY DEF Wrote
<1>3. /\ f \in Families /\ k \in Keys
      /\ l \in Line /\ l.born = born + 1
      /\ born \in Nat
      /\ files'[f][k] = Append(files[f][k], l)
      /\ \A g \in Families, j \in Keys : g # f \/ j # k => files'[g][j] = files[g][j]
  BY WroteIs
<1>4. /\ proc'[p] = Idle
      /\ \A r \in Procs : r # p => proc'[r] = proc[r]
  BY <1>1, <1>2, IdleAgain
<1>5. Idle.at = "idle" BY IdleIs
<1>6. ASSUME NEW fam \in Families, NEW j \in Keys, NEW b \in Contents(fam, j)'
      PROVE  b \in Contents(fam, j) \/ (fam = f /\ j = k /\ b = files'[f][k])
  <2>1. PICK x : x = Idle OBVIOUS
  <2>2. x.at \notin {"rewrite", "unlink"} /\ proc'[p] = x BY <1>4, <1>5, <2>1
  <2>3. \/ b \in Contents(fam, j) \/ b = files'[fam][j]
        \/ x.at \in {"rewrite", "unlink"} /\ x.fam = fam /\ x.key = j /\ b = x.lines
    BY ONLY <1>1, <1>4, <2>2, ContentsMove
  <2>4. CASE fam = f /\ j = k BY <2>2, <2>3, <2>4
  <2>5. CASE fam # f \/ j # k
    <3>1. files'[fam][j] \in Contents(fam, j) BY <1>3, <2>5, FileIsContent
    <3> QED BY <2>2, <2>3, <3>1
  <2> QED BY <2>4, <2>5
<1>7. PICK c, a : c = files[f][k] /\ a = files'[f][k] OBVIOUS
<1>8. c \in Seq(Line) BY <1>1, <1>3, <1>7, TypeIs
<1>9. c \in Contents(f, k) BY <1>7, FileIsContent
<1>10. Rising(c) BY <1>1, <1>3, <1>9 DEF Births
<1>11. Rising(a)' /\ Range(a) = Range(c) \cup {l}
  <2>1. a = Append(c, l) BY <1>3, <1>7
  <2> QED BY ONLY <1>2, <1>3, <1>8, <1>10, <2>1, AppendRises
<1>12. ASSUME NEW fam \in Families, NEW j \in Keys, NEW m \in Copies(fam, j)'
       PROVE  m \in Copies(fam, j) \/ (fam = f /\ j = k /\ m = l)
  <2>1. PICK b \in Contents(fam, j)' : m \in Range(b) BY DEF Copies
  <2>2. CASE b \in Contents(fam, j) BY <2>1, <2>2 DEF Copies
  <2>3. CASE fam = f /\ j = k /\ b = a
    <3>1. m \in Range(c) => m \in Copies(f, k) BY <1>9 DEF Copies
    <3> QED BY <1>11, <2>1, <2>3, <3>1
  <2> QED BY <1>6, <1>7, <2>2, <2>3
<1>13. Rising(files[f][k])'
  <2>1. /\ \A i \in DOMAIN a : a[i].born <= born'
        /\ \A i, j \in DOMAIN a : i < j => a[i].born < a[j].born
    BY <1>11 DEF Rising
  <2>2. /\ \A i \in DOMAIN files'[f][k] : files'[f][k][i].born <= born'
        /\ \A i, j \in DOMAIN files'[f][k] : i < j => files'[f][k][i].born < files'[f][k][j].born
    BY <1>7, <2>1
  <2> QED BY <2>2 DEF Rising
<1> QED BY <1>6, <1>12, <1>13

LEMMA WroteKeeps ==
    ASSUME Accounted, NEW p \in Procs, NEW f, NEW k, NEW l, Wrote(p, f, k, l)
    PROVE  Accounted'
<1>1. TypeOK /\ Births /\ Numbered /\ Roles /\ Paid BY DEF Accounted
<1>2. /\ proc[p].at = "append" /\ f = proc[p].fam
      /\ proc' = [proc EXCEPT ![p] = Idle]
      /\ born' = born + 1 /\ calls' = calls /\ raced' = raced
  BY DEF Wrote
<1>3. /\ f \in Families /\ k \in Keys /\ k + 2 <= 2 * (born + 1)
      /\ l \in Line /\ l.born = born + 1 /\ l.slot = proc[p].slot /\ l.hits = 1
      /\ born' \in 0..MaxCalls /\ born \in Nat
      /\ files' \in [Families -> [Keys -> Seq(Line)]]
      /\ \A g \in Families, j \in Keys : g # f \/ j # k => files'[g][j] = files[g][j]
  BY WroteIs
<1>4. /\ proc' \in [Procs -> State] /\ proc'[p] = Idle
      /\ \A r \in Procs : r # p => proc'[r] = proc[r]
  BY <1>1, <1>2, IdleAgain
<1>5. /\ \A fam \in Families, j \in Keys : \A b \in Contents(fam, j)' :
            b \in Contents(fam, j) \/ (fam = f /\ j = k /\ b = files'[f][k])
      /\ Rising(files[f][k])'
      /\ \A fam \in Families, j \in Keys : \A m \in Copies(fam, j)' :
            m \in Copies(fam, j) \/ (fam = f /\ j = k /\ m = l)
  BY WroteWhere
<1>6. TypeOK'
  <2>1. calls' \in [AllSlots -> 0..MaxCalls] /\ raced' \in BOOLEAN BY <1>1, <1>2, TypeIs
  <2> QED BY <1>3, <1>4, <2>1, TypeFrom
<1>7. ASSUME NEW fam \in Families, NEW j \in Keys, NEW b \in Contents(fam, j)
      PROVE  /\ Rising(b)'
             /\ \A m \in Range(b) : m.born \in Int /\ m.born <= born
  <2>1. Rising(b) /\ b \in Seq(Line) BY <1>1, CopiesAreLines DEF Births
  <2>2. DOMAIN b = 1..Len(b) BY <2>1, LenProperties
  <2>3. \A i \in DOMAIN b : b[i].born \in Int /\ b[i].born <= born
    <3>1. \A i \in DOMAIN b : b[i] \in Line BY <2>1, <2>2, ElementOfSeq
    <3>2. \A i \in DOMAIN b : b[i].born \in 1..MaxCalls BY <3>1, LineFields
    <3> QED BY <2>1, <3>2 DEF Rising
  <2>4. \A i \in DOMAIN b : b[i].born <= born'
    <3>1. ASSUME NEW i \in DOMAIN b PROVE b[i].born <= born'
      <4>1. PICK n : n = b[i].born OBVIOUS
      <4>2. n \in Int /\ n <= born BY <2>3, <4>1
      <4>3. n <= born + 1 BY ONLY <1>3, <4>2
      <4> QED BY <1>2, <4>1, <4>3
    <3> QED BY <3>1
  <2>5. \A i, j1 \in DOMAIN b : i < j1 => b[i].born < b[j1].born BY <2>1 DEF Rising
  <2> QED BY <2>3, <2>4, <2>5 DEF Rising, Range
<1>8. \A fam \in Families, j \in Keys : \A m \in Copies(fam, j) : m.born \in Int /\ m.born <= born
  BY <1>7 DEF Copies
<1>9. Births'
  <2>1. \A fam \in Families, j \in Keys : \A b \in Contents(fam, j)' : Rising(b)'
    <3>1. ASSUME NEW fam \in Families, NEW j \in Keys, NEW b \in Contents(fam, j)'
          PROVE  Rising(b)'
      <4>1. CASE b \in Contents(fam, j) BY <1>7, <4>1
      <4>2. CASE b = files'[f][k] BY <1>5, <4>2 DEF Rising
      <4> QED BY <1>5, <4>1, <4>2
    <3> QED BY <3>1
  <2>2. ASSUME NEW g \in Families, NEW h \in Families, NEW j \in Keys, NEW n \in Keys,
               NEW a \in Copies(g, j)', NEW m \in Copies(h, n)', a.born = m.born
        PROVE  g = h /\ j = n
    <3>1. \A b \in Copies(g, j) : b.born # born + 1 BY <1>3, <1>8
    <3>2. \A b \in Copies(h, n) : b.born # born + 1 BY <1>3, <1>8
    <3>3. CASE a.born = born + 1
      <4>1. g = f /\ j = k BY <1>5, <3>1, <3>3
      <4>2. h = f /\ n = k BY <1>5, <2>2, <3>2, <3>3
      <4> QED BY <4>1, <4>2
    <3>4. CASE a.born # born + 1
      <4>1. a \in Copies(g, j) BY <1>3, <1>5, <3>4
      <4>2. m \in Copies(h, n) BY <1>3, <1>5, <2>2, <3>4
      <4> QED BY <1>1, <2>2, <4>1, <4>2 DEF Births
    <3> QED BY <3>3, <3>4
  <2> QED BY <2>1, <2>2 DEF Births
<1>10. Numbered'
  <2>1. ASSUME NEW fam \in Families, NEW j \in Present(fam)' PROVE j + 2 <= 2 * born'
    <3>1. CASE fam = f /\ j = k BY <1>2, <1>3, <3>1
    <3>2. CASE fam # f \/ j # k
      <4>1. j \in Present(fam) /\ j \in Keys BY <1>3, <3>2 DEF Present
      <4>2. j + 2 <= 2 * born BY <1>1, <4>1 DEF Numbered
      <4>3. j \in Int BY <4>1 DEF Keys
      <4>4. j + 2 <= 2 * (born + 1) BY ONLY <1>3, <4>2, <4>3
      <4> QED BY <1>2, <4>4
    <3> QED BY <3>1, <3>2
  <2>2. ASSUME NEW r \in Procs PROVE KeyFits(proc[r])'
    <3>1. CASE r = p
      <4>1. proc'[r].at = "idle" BY <1>4, <3>1, IdleIs
      <4> QED BY <4>1 DEF KeyFits
    <3>2. CASE r # p
      <4>1. proc'[r] = proc[r] BY <1>4, <3>2
      <4>2. proc[r] \in State BY <1>1, TypeIs
      <4>3. PICK key : key = proc[r].key OBVIOUS
      <4>4. key \in Int BY <4>2, <4>3, StateFields DEF Keys
      <4>5. /\ proc[r].at = "append" => key <= 2 * born
            /\ proc[r].at \in {"rewrite", "unlink"} => key + 2 <= 2 * born
        BY <1>1, <4>3 DEF Numbered, KeyFits
      <4>6. key <= 2 * born => key <= 2 * (born + 1) BY ONLY <1>3, <4>4
      <4>7. key + 2 <= 2 * born => key + 2 <= 2 * (born + 1) BY ONLY <1>3, <4>4
      <4> QED BY <1>2, <4>1, <4>3, <4>5, <4>6, <4>7 DEF KeyFits
    <3> QED BY <3>1, <3>2
  <2> QED BY <2>1, <2>2 DEF Numbered
<1>11. Roles'
  <2>1. ASSUME NEW j \in Keys, NEW m \in Copies("instincts", j)' PROVE m.slot # None
    <3>1. "instincts" \in Families BY DEF Families
    <3>2. CASE m \in Copies("instincts", j) BY <1>1, <3>2 DEF Roles
    <3>3. CASE f = "instincts" /\ m = l
      <4>1. RoleOf(proc[p]) BY <1>1 DEF Roles
      <4>2. proc[p].slot # None BY <1>2, <3>3, <4>1 DEF RoleOf
      <4> QED BY <1>3, <3>3, <4>2
    <3> QED BY <1>5, <3>1, <3>2, <3>3
  <2>2. RoleOf(Idle) BY IdleIs DEF RoleOf
  <2>3. \A r \in Procs : RoleOf(proc'[r]) BY <1>1, <1>4, <2>2 DEF Roles
  <2> QED BY <2>1, <2>3 DEF Roles, RoleOf
<1>12. Paid'
  <2>1. PICK u, s : u = <<born + 1, 1>> /\ s = proc[p].slot OBVIOUS
  <2>2. s \in AllSlots BY <1>2, <2>1, RoomForOne
  <2>3. ASSUME NEW t \in AllSlots, NEW v \in Spent(t)'
        PROVE  v \in Spent(t) \/ (t = s /\ v = u)
    <3>1. PICK fam \in Families, j \in Keys : \E m \in Copies(fam, j)' :
             m.slot = t /\ m.born = v[1] /\ v[2] <= m.hits
      BY DEF Spent
    <3>2. PICK m \in Copies(fam, j)' : m.slot = t /\ m.born = v[1] /\ v[2] <= m.hits BY <3>1
    <3>3. v \in (1..MaxCalls) \X (1..MaxCalls) BY DEF Spent
    <3>4. CASE m \in Copies(fam, j) BY <3>2, <3>3, <3>4 DEF Spent
    <3>5. CASE m = l
      <4>1. t = s /\ v[1] = born + 1 /\ v[2] <= 1 BY <1>3, <2>1, <3>2, <3>5
      <4>2. v = <<v[1], v[2]>> /\ v[2] \in 1..MaxCalls BY <3>3
      <4>3. v[2] = 1 BY <4>1, <4>2
      <4> QED BY <2>1, <4>1, <4>2, <4>3
    <3> QED BY <1>5, <3>4, <3>5
  <2>4. PICK x : x = Idle OBVIOUS
  <2>5. x.at \notin {"scan", "target", "append"} /\ proc'[p] = x BY <1>4, <2>4, IdleIs
  <2>6. /\ Waiting(AllSlots)' \subseteq Waiting(AllSlots) \ {p}
        /\ \A t \in AllSlots : Waiting({t})' \subseteq Waiting({t}) \ {p}
    BY <1>4, <2>5, WaitingMoves
  <2>7. /\ Spent(s)' \subseteq Spent(s) \cup {u}
        /\ \A t \in AllSlots : t # s => Spent(t)' \subseteq Spent(t)
    BY <2>2, <2>3
  <2>8. proc[p].at \in {"scan", "target", "append"} BY <1>2
  <2> QED BY ONLY <1>1, <1>2, <2>1, <2>2, <2>6, <2>7, <2>8, PaidSettles
<1> QED BY <1>6, <1>9, <1>10, <1>11, <1>12 DEF Accounted

(* The invariant holds at the start.                                       *)
LEMMA StartsAccounted == Init => Accounted
<1> SUFFICES ASSUME Init PROVE Accounted OBVIOUS
<1>1. /\ files = [fam \in Families |-> [k \in Keys |-> <<>>]]
      /\ proc = [p \in Procs |-> Idle]
      /\ born = 0
      /\ calls = [s \in AllSlots |-> 0]
      /\ raced = FALSE
  BY DEF Init, AllSlots
<1>2. MaxCalls \in Nat BY NumbersAre
<1>3. /\ files \in [Families -> [Keys -> Seq(Line)]]
      /\ proc \in [Procs -> State]
      /\ born \in 0..MaxCalls
      /\ calls \in [AllSlots -> 0..MaxCalls]
      /\ raced \in BOOLEAN
  <2>1. <<>> \in Seq(Line) BY EmptySeq
  <2>2. 0 \in 0..MaxCalls BY <1>2
  <2> QED BY <1>1, <2>1, <2>2, IdleIs
<1>4. TypeOK BY <1>3 DEF TypeOK, State, Stages, AllSlots
<1>5. \A p \in Procs : proc[p].at = "idle" BY <1>1, IdleIs
<1>6. \A fam \in Families, k \in Keys : Contents(fam, k) = {<<>>}
  <2>1. ASSUME NEW fam \in Families, NEW k \in Keys PROVE Contents(fam, k) = {<<>>}
    <3>1. {p \in Procs : Holds(p, fam, k)} = {} BY <1>5 DEF Holds
    <3>2. files[fam][k] = <<>> BY <1>1
    <3> QED BY <3>1, <3>2 DEF Contents
  <2> QED BY <2>1
<1>7. Range(<<>>) = {} BY DEF Range
<1>8. \A fam \in Families, k \in Keys : Copies(fam, k) = {}
  BY <1>6, <1>7 DEF Copies
<1>9. Births
  <2>1. Rising(<<>>) BY DEF Rising
  <2>2. \A fam \in Families, k \in Keys : \A c \in Contents(fam, k) : Rising(c)
    BY <1>6, <2>1
  <2> QED BY <1>8, <2>2 DEF Births
<1>10. Numbered
  <2>1. \A fam \in Families : Present(fam) = {} BY <1>1 DEF Present
  <2> QED BY <1>5, <2>1 DEF Numbered, KeyFits
<1>11. Roles
  <2>1. "instincts" \in Families BY DEF Families
  <2> QED BY <1>5, <1>8, <2>1 DEF Roles, RoleOf
<1>12. Paid
  <2>1. \A A : Waiting(A) = {} BY <1>5 DEF Waiting
  <2>2. \A s : Spent(s) = {} BY <1>8 DEF Spent
  <2>3. Cardinality({}) = 0 BY FS_EmptySet
  <2>4. SumFunction(calls) = Cardinality(Units(calls, AllSlots)) BY <1>4, CallsSum
  <2>5. Units(calls, AllSlots) = {}
    <3>1. \A s \in AllSlots : 1..calls[s] = {} BY <1>1
    <3> QED BY <3>1 DEF Units
  <2>6. SumFunction(calls) = 0 BY <2>3, <2>4, <2>5
  <2>7. born + Cardinality(Waiting(AllSlots)) <= SumFunction(calls)
    <3>1. Waiting(AllSlots) = {} BY <2>1
    <3> QED BY <1>1, <2>3, <2>6, <3>1
  <2>8. ASSUME NEW s \in AllSlots
        PROVE  Cardinality(Spent(s)) + Cardinality(Waiting({s})) <= calls[s]
    <3>1. Waiting({s}) = {} /\ Spent(s) = {} /\ calls[s] = 0 BY <1>1, <2>1, <2>2
    <3> QED BY <2>3, <3>1
  <2>9. SumFunction(calls) <= MaxCalls BY <1>2, <2>6
  <2> QED BY <2>7, <2>8, <2>9 DEF Paid
<1> QED BY <1>4, <1>9, <1>10, <1>11, <1>12 DEF Accounted

(* No write target is out of the files' numbers.                           *)
LEMMA TargetFits ==
    ASSUME TypeOK, Numbered, NEW fam \in Families
    PROVE  /\ WriteTarget(fam) \in Nat /\ WriteTarget(fam) <= 2 * born
           /\ WriteTarget(fam) \in Keys
           /\ \A k \in Present(fam) : k <= WriteTarget(fam)
<1>1. MaxCalls \in Nat BY NumbersAre
<1>2. born \in 0..MaxCalls BY TypeIs
<1>3. Present(fam) \in SUBSET Keys BY PresentIs
<1>4. PICK w : w = WriteTarget(fam) OBVIOUS
<1>5. CASE Present(fam) = {}
  <2>1. w = 0 BY <1>4, <1>5 DEF WriteTarget
  <2>2. 0 <= 2 * born /\ 0 \in 0..(2 * MaxCalls) BY ONLY <1>1, <1>2
  <2> QED BY <1>4, <1>5, <2>1, <2>2 DEF Keys
<1>6. CASE Present(fam) # {}
  <2>1. PICK n : n = Max(Present(fam)) OBVIOUS
  <2>2. n \in Present(fam) /\ \A k \in Present(fam) : k <= n
    BY <1>3, <1>6, <2>1, KeysBounded
  <2>3. n + 2 <= 2 * born BY <2>2 DEF Numbered
  <2>4. n \in 0..(2 * MaxCalls) BY <1>3, <2>2 DEF Keys
  <2>5. w = n \/ w = n + 1 BY <1>4, <1>6, <2>1 DEF WriteTarget
  <2>6. w \in Nat /\ w <= 2 * born /\ w \in 0..(2 * MaxCalls) /\ n <= w
    BY ONLY <1>1, <1>2, <2>3, <2>4, <2>5
  <2>7. ASSUME NEW k \in Present(fam) PROVE k <= w
    <3>1. k \in 0..(2 * MaxCalls) BY <1>3 DEF Keys
    <3>2. k <= n BY <2>2
    <3> QED BY ONLY <1>1, <2>4, <2>6, <3>1, <3>2
  <2> QED BY <1>4, <2>6, <2>7 DEF Keys
<1> QED BY <1>5, <1>6

(* Every step keeps the first invariant.                                   *)
LEMMA IdleKeeps ==
    ASSUME Accounted, NEW p \in Procs, proc' = [proc EXCEPT ![p] = Idle],
           files' = files, born' = born, calls' = calls, raced' = raced
    PROVE  Accounted'
<1>1. TypeOK BY DEF Accounted
<1>2. PICK x : x = Idle OBVIOUS
<1>3. x \in State /\ x.at = "idle" /\ proc' = [proc EXCEPT ![p] = x] BY <1>2, IdleIs
<1>4. x.at \notin {"rewrite", "unlink", "scan", "target", "append"} BY <1>3
<1>5. KeyFits(x) /\ RoleOf(x) BY <1>3 DEF KeyFits, RoleOf
<1>6. raced' \in BOOLEAN BY <1>1, TypeIs
<1> QED BY <1>3, <1>4, <1>5, <1>6, QuietKeeps

LEMMA PurgesNowKeeps ==
    ASSUME Accounted, NEW p \in Procs, NEW x \in State, NEW fam, PurgesNow(x, fam),
           proc' = [proc EXCEPT ![p] = x],
           files' = files, born' = born, calls' = calls, raced' \in BOOLEAN
    PROVE  Accounted'
<1>1. x.at = "purge" /\ x.slot = None BY DEF PurgesNow
<1>2. x.at \notin {"rewrite", "unlink", "scan", "target", "append"} BY <1>1
<1>3. KeyFits(x) /\ RoleOf(x) BY <1>1 DEF KeyFits, RoleOf
<1> QED BY <1>2, <1>3, QuietKeeps

LEMMA AccountedKept == Accounted /\ [Next]_vars => Accounted'
<1> SUFFICES ASSUME Accounted, [Next]_vars PROVE Accounted' OBVIOUS
<1>1. TypeOK /\ Numbered /\ Roles BY DEF Accounted
<1>2. ASSUME NEW p \in Procs, Observe(p) PROVE Accounted'
  <2>1. None \in AllSlots BY DEF AllSlots
  <2>2. PICK x \in State : CalledTo(p, None, x) BY <1>1, <1>2, ObserveIs
  <2> QED BY <2>1, <2>2, CalledKeeps
<1>3. ASSUME NEW p \in Procs, NEW s \in Slots, Record(p, s) PROVE Accounted'
  <2>1. s \in AllSlots BY DEF AllSlots
  <2>2. PICK x \in State : CalledTo(p, s, x) BY <1>1, <1>3, RecordIs
  <2> QED BY <2>1, <2>2, CalledKeeps
<1>4. ASSUME NEW p \in Procs, Scan(p) PROVE Accounted'
  <2>1. RoleOf(proc[p]) BY <1>1 DEF Roles
  <2>2. proc[p].at = "scan" /\ proc[p].left # {} BY <1>4, <2>1 DEF RoleOf, Scan
  <2>3. \/ \E k \in Keys : \E i, x : Found(p, k, i, x)
        \/ \E k \in Keys, x \in State : Missed(p, k, x)
    BY <1>1, <1>4, <2>2, ScanIs
  <2>4. ASSUME NEW k \in Keys, NEW x \in State, Missed(p, k, x) PROVE Accounted'
    <3>1. /\ x.at \in {"scan", "target"} /\ x.slot = proc[p].slot /\ x.fam = proc[p].fam
          /\ x.at = "scan" => x.left # {}
          /\ proc' = [proc EXCEPT ![p] = x]
          /\ files' = files /\ born' = born /\ calls' = calls /\ raced' = raced
      BY <2>4 DEF Missed
    <3>2. x.at \notin {"rewrite", "unlink"} BY <3>1
    <3>3. KeyFits(x) BY <3>1 DEF KeyFits
    <3>4. RoleOf(x) BY <2>1, <2>2, <3>1 DEF RoleOf
    <3>5. raced' \in BOOLEAN BY <1>1, <3>1, TypeIs
    <3>6. proc[p].at \in {"scan", "target", "append"} BY <2>2
    <3> QED BY <3>1, <3>2, <3>3, <3>4, <3>5, <3>6, QuietKeeps
  <2> QED BY <2>3, <2>4, FoundKeeps
<1>5. ASSUME NEW p \in Procs, Target(p) PROVE Accounted'
  <2>1. proc[p] \in State /\ RoleOf(proc[p]) BY <1>1, TypeIs DEF Roles
  <2>2. PICK fam \in Families : fam = proc[p].fam BY <2>1, StateFields
  <2>3. PICK k \in Keys : k = WriteTarget(fam) /\ k <= 2 * born BY <1>1, TargetFits
  <2>4. PICK x \in State :
           /\ proc[p].at = "target" /\ x.at = "append" /\ x.key = k
           /\ x.fam = proc[p].fam /\ x.slot = proc[p].slot
           /\ proc' = [proc EXCEPT ![p] = x]
           /\ UNCHANGED <<files, born, calls, raced>>
    BY <1>1, <1>5, <2>2, <2>3, TargetIs
  <2>5. KeyFits(x) BY <2>3, <2>4 DEF KeyFits
  <2>6. RoleOf(x) BY <2>1, <2>4 DEF RoleOf
  <2>7. x.at \notin {"rewrite", "unlink"} /\ raced' \in BOOLEAN BY <1>1, <2>4, TypeIs
  <2>8. proc[p].at \in {"scan", "target", "append"} BY <2>4
  <2> QED BY <2>4, <2>5, <2>6, <2>7, <2>8, QuietKeeps
<1>6. ASSUME NEW p \in Procs, AppendLine(p) PROVE Accounted'
  <2>1. /\ proc[p].at = "append" /\ proc' = [proc EXCEPT ![p] = Idle]
        /\ calls' = calls /\ raced' = raced
        /\ \/ files' = files /\ born' = born
           \/ /\ born' = born + 1
              /\ \E k \in {proc[p].key, proc[p].key + 1} :
                   /\ k = proc[p].key \/ proc[p].key \in Present(proc[p].fam)
                   /\ files' = [files EXCEPT ![proc[p].fam][k] = Append(@, NewLine(p))]
    BY <1>1, <1>6, AppendIs
  <2>2. CASE files' = files /\ born' = born BY <2>1, <2>2, IdleKeeps
  <2>3. CASE born' = born + 1 /\ \E k \in {proc[p].key, proc[p].key + 1} :
                   /\ k = proc[p].key \/ proc[p].key \in Present(proc[p].fam)
                   /\ files' = [files EXCEPT ![proc[p].fam][k] = Append(@, NewLine(p))]
    <3>1. PICK k \in {proc[p].key, proc[p].key + 1} :
             /\ k = proc[p].key \/ proc[p].key \in Present(proc[p].fam)
             /\ files' = [files EXCEPT ![proc[p].fam][k] = Append(@, NewLine(p))]
      BY <2>3
    <3>2. Wrote(p, proc[p].fam, k, NewLine(p)) BY <2>1, <2>3, <3>1 DEF Wrote
    <3> QED BY <3>2, WroteKeeps
  <2> QED BY <2>1, <2>2, <2>3
<1>7. ASSUME NEW p \in Procs, Purge(p) PROVE Accounted'
  <2>1. PICK x \in State : PurgesNow(x, "observations") /\ proc' = [proc EXCEPT ![p] = x]
    BY <1>1, <1>7, PurgeIs
  <2>2. files' = files /\ born' = born /\ calls' = calls /\ raced' \in BOOLEAN
    BY <1>1, <1>7, PurgeIs
  <2> QED BY <2>1, <2>2, PurgesNowKeeps
<1>8. ASSUME NEW p \in Procs, PurgeRead(p) PROVE Accounted'
  <2>1. PICK k \in Keys, x \in State : Spared(p, k, x) \/ Thinned(p, k, x)
    BY <1>1, <1>8, PurgeReadIs
  <2>2. CASE Spared(p, k, x)
    <3>1. /\ proc[p].at = "purge" /\ x.at = "purge" /\ x.slot = proc[p].slot
          /\ proc' = [proc EXCEPT ![p] = x]
          /\ files' = files /\ born' = born /\ calls' = calls /\ raced' = raced
      BY <2>2 DEF Spared
    <3>2. x.slot = None BY <1>1, <3>1 DEF Roles, RoleOf
    <3>3. KeyFits(x) /\ RoleOf(x) BY <3>1, <3>2 DEF KeyFits, RoleOf
    <3>4. x.at \notin {"rewrite", "unlink", "scan", "target", "append"} BY <3>1
    <3>5. raced' \in BOOLEAN BY <1>1, <3>1, TypeIs
    <3> QED BY <3>1, <3>3, <3>4, <3>5, QuietKeeps
  <2> QED BY <2>1, <2>2, ThinnedKeeps
<1>9. ASSUME NEW p \in Procs, PurgeFamilyDone(p) PROVE Accounted'
  <2>1. /\ \/ \E x \in State : PurgesNow(x, "instincts") /\ proc' = [proc EXCEPT ![p] = x]
           \/ proc' = [proc EXCEPT ![p] = Idle]
        /\ files' = files /\ born' = born /\ calls' = calls /\ raced' = raced
    BY <1>1, <1>9, PurgeFamilyDoneIs
  <2>2. raced' \in BOOLEAN BY <1>1, <2>1, TypeIs
  <2>3. ASSUME NEW x \in State, PurgesNow(x, "instincts"), proc' = [proc EXCEPT ![p] = x]
        PROVE  Accounted'
    BY <2>1, <2>2, <2>3, PurgesNowKeeps
  <2> QED BY <2>1, <2>3, IdleKeeps
<1>10. ASSUME NEW p \in Procs, Replace(p) PROVE Accounted' BY <1>10, ReplaceKeeps
<1>11. ASSUME NEW p \in Procs, Crash(p) PROVE Accounted'
  <2>1. /\ proc' = [proc EXCEPT ![p] = Idle]
        /\ files' = files /\ born' = born /\ calls' = calls /\ raced' = raced
    BY <1>11 DEF Crash
  <2> QED BY <2>1, IdleKeeps
<1>12. CASE UNCHANGED vars
  <2>1. /\ files' = files /\ proc' = proc /\ born' = born /\ calls' = calls /\ raced' = raced
    BY <1>12 DEF vars
  <2>2. TypeOK' BY <1>1, <2>1 DEF TypeOK
  <2>3. \A fam, k : Contents(fam, k)' = Contents(fam, k) BY <2>1 DEF Contents, Holds
  <2>4. \A fam, k : Copies(fam, k)' = Copies(fam, k) BY <2>3 DEF Copies
  <2>5. \A c : Rising(c)' <=> Rising(c) BY <2>1 DEF Rising
  <2>6. Births /\ Paid BY DEF Accounted
  <2>7. Births' BY <2>3, <2>4, <2>5, <2>6 DEF Births
  <2>8. Numbered' BY <1>1, <2>1 DEF Numbered, Present, KeyFits
  <2>9. Roles' BY <1>1, <2>1, <2>4 DEF Roles, RoleOf
  <2>10. \A s : Spent(s)' = Spent(s) BY <2>4 DEF Spent
  <2>11. \A A : Waiting(A)' = Waiting(A) BY <2>1 DEF Waiting
  <2>12. Paid' BY <2>1, <2>6, <2>10, <2>11 DEF Paid
  <2> QED BY <2>2, <2>7, <2>8, <2>9, <2>12 DEF Accounted
<1> QED BY <1>2, <1>3, <1>4, <1>5, <1>6, <1>7, <1>8, <1>9, <1>10, <1>11, <1>12 DEF Next

LEMMA AccountsBalance == Spec => []Accounted
<1>1. Init => Accounted BY StartsAccounted
<1>2. Accounted /\ [Next]_vars => Accounted' BY AccountedKept
<1> QED BY <1>1, <1>2, PTL DEF Spec

-----------------------------------------------------------------------------
(* The first results.                                                      *)

(* Whatever processes overlap and wherever they crash, files, clocks and   *)
(* hits stay within their types: no rotation is numbered past what the     *)
(* calls can have filled, no line counts more hits than there were calls.  *)
THEOREM StoreIsTyped == Spec => []TypeOK
<1>1. Accounted => TypeOK BY DEF Accounted
<1> QED BY <1>1, AccountsBalance, PTL

(* The lines of a family are finitely many, and each is born apart.        *)
LEMMA LinesAreFinite ==
    ASSUME TypeOK, NEW fam \in Families
    PROVE  IsFiniteSet(LinesOf(fam)) /\ \A l \in LinesOf(fam) : l \in Line
<1> DEFINE f == [k \in Keys |-> Range(files[fam][k])]
           Sets == {Range(files[fam][k]) : k \in Keys}
<1>1. f \in Surjection(Keys, Sets) BY DEF Surjection
<1>2. IsFiniteSet(Keys)
  <2>1. PICK n : n = 2 * MaxCalls OBVIOUS
  <2>2. n \in Nat BY <2>1, NumbersAre
  <2>3. IsFiniteSet(0..n) BY <2>2, FS_Interval
  <2> QED BY <2>1, <2>3 DEF Keys
<1>3. IsFiniteSet(Sets)
  <2> HIDE DEF f, Sets
  <2> QED BY <1>1, <1>2, FS_Surjection
<1>4. \A T \in Sets : IsFiniteSet(T)
  <2>1. \A k \in Keys : files[fam][k] \in Seq(Line) BY PresentIs
  <2>2. \A k \in Keys : IsFiniteSet(Range(files[fam][k])) BY <2>1, RangeIsFinite
  <2> QED BY <2>2
<1>5. IsFiniteSet(UNION Sets)
  <2> HIDE DEF Sets
  <2> QED BY <1>3, <1>4, FS_UNION
<1>6. ASSUME NEW l \in LinesOf(fam) PROVE l \in Line
  <2>1. PICK k \in Keys : l \in Range(files[fam][k]) BY DEF LinesOf
  <2>2. l \in Copies(fam, k) BY <2>1, FileIsContent
  <2> QED BY <2>2, CopiesAreLines
<1> QED BY <1>5, <1>6 DEF LinesOf

LEMMA OneLineEachBirth ==
    ASSUME TypeOK, Births, NEW fam \in Families,
           NEW l \in LinesOf(fam), NEW m \in LinesOf(fam), l.born = m.born
    PROVE  l = m
<1>1. PICK j \in Keys : l \in Range(files[fam][j]) BY DEF LinesOf
<1>2. PICK k \in Keys : m \in Range(files[fam][k]) BY DEF LinesOf
<1>3. l \in Copies(fam, j) /\ m \in Copies(fam, k) BY <1>1, <1>2, FileIsContent
<1>4. j = k BY <1>3 DEF Births
<1>5. PICK c : c = files[fam][k] OBVIOUS
<1>6. c \in Seq(Line) BY <1>5, PresentIs
<1>7. c \in Contents(fam, k) BY <1>5, FileIsContent
<1>8. Rising(c) BY <1>7 DEF Births
<1>9. PICK i \in DOMAIN c, n \in DOMAIN c : l = c[i] /\ m = c[n]
  BY <1>1, <1>2, <1>4, <1>5 DEF Range
<1>10. DOMAIN c = 1..Len(c) BY <1>6, LenProperties
<1>11. l.born \in Int
  <2>1. l \in Line BY <1>3, CopiesAreLines
  <2> QED BY <2>1, LineFields
<1>12. ~(i < n) /\ ~(n < i)
  <2>1. ~(i < n) BY <1>8, <1>9, <1>11 DEF Rising
  <2>2. ~(n < i) BY <1>8, <1>9, <1>11 DEF Rising
  <2> QED BY <2>1, <2>2
<1>13. i = n BY <1>9, <1>10, <1>12
<1> QED BY <1>9, <1>13

(* The hits of all lines of a slot are at most the calls that recorded it, *)
(* also when two processes rewrite one file over each other, a removed     *)
(* file comes back, or a search ends in a crash: every hit counted stands  *)
(* for a recording of its own.                                             *)
THEOREM HitsAreRecordings == Spec => []HitsNeverInflated
<1>1. ASSUME Accounted PROVE HitsNeverInflated
  <2>1. TypeOK /\ Births /\ Paid BY <1>1 DEF Accounted
  <2>2. ASSUME NEW s \in Slots
        PROVE  SumFunction([l \in {l \in LinesOf("instincts") : l.slot = s} |-> l.hits]) <= calls[s]
    <3>1. "instincts" \in Families /\ s \in AllSlots BY DEF Families, AllSlots
    <3>2. PICK S : S = {l \in LinesOf("instincts") : l.slot = s} OBVIOUS
    <3>3. PICK F : F = [l \in S |-> l.hits] OBVIOUS
    <3>4. IsFiniteSet(S)
      <4>1. IsFiniteSet(LinesOf("instincts")) BY <2>1, <3>1, LinesAreFinite
      <4>2. S \in SUBSET LinesOf("instincts") BY <3>2
      <4> QED BY <4>1, <4>2, FS_Subset
    <3>5. \A l \in S : l \in Line /\ l.hits \in Nat /\ l.hits \in 1..MaxCalls /\ l.born \in 1..MaxCalls
      <4>1. \A l \in S : l \in Line BY <2>1, <3>1, <3>2, LinesAreFinite
      <4>2. MaxCalls \in Nat BY NumbersAre
      <4>3. \A l \in S : l.hits \in 1..MaxCalls /\ l.born \in 1..MaxCalls BY <4>1, LineFields
      <4> QED BY <4>1, <4>2, <4>3
    <3>6. F \in [S -> Nat] BY <3>3, <3>5
    <3>7. SumFunction(F) = Cardinality(Units(F, S)) BY <3>4, <3>6, SumIsCount
    <3>8. PICK U, V : U = Units(F, S) /\ V = Spent(s) OBVIOUS
    <3>9. \A u \in U : u[1] \in S /\ u[2] \in 1..u[1].hits /\ u = <<u[1], u[2]>>
      BY <3>3, <3>8 DEF Units
    <3>10. PICK g : g = [u \in U |-> <<u[1].born, u[2]>>] OBVIOUS
    <3>11. ASSUME NEW u \in U PROVE g[u] \in V
      <4>1. PICK l, i : l = u[1] /\ i = u[2] OBVIOUS
      <4>2. l \in S /\ i \in 1..l.hits /\ g[u] = <<l.born, i>> BY <3>9, <3>10, <4>1
      <4>3. PICK h : h = l.hits OBVIOUS
      <4>4. h \in 1..MaxCalls /\ i \in 1..h /\ MaxCalls \in Nat BY <3>5, <4>2, <4>3, NumbersAre
      <4>5. i \in 1..MaxCalls /\ i <= h BY ONLY <4>4
      <4>6. l.slot = s /\ l \in LinesOf("instincts") BY <3>2, <4>2
      <4>7. PICK k \in Keys : l \in Range(files["instincts"][k]) BY <4>6 DEF LinesOf
      <4>8. l \in Copies("instincts", k) BY <4>7, FileIsContent
      <4>9. PICK c : c = g[u] OBVIOUS
      <4>10. c \in (1..MaxCalls) \X (1..MaxCalls) /\ c[1] = l.born /\ c[2] = i
        BY <3>5, <4>2, <4>5, <4>9
      <4>11. l.slot = s /\ l.born = c[1] /\ c[2] <= l.hits BY <4>3, <4>5, <4>6, <4>10
      <4>12. c \in Spent(s) BY <3>1, <4>8, <4>10, <4>11 DEF Spent
      <4> QED BY <3>8, <4>9, <4>12
    <3>12. ASSUME NEW u \in U, NEW v \in U, g[u] = g[v] PROVE u = v
      <4>1. u[1].born = v[1].born /\ u[2] = v[2] BY <3>10, <3>12
      <4>2. u[1] \in LinesOf("instincts") /\ v[1] \in LinesOf("instincts") BY <3>2, <3>9
      <4>3. u[1] = v[1] BY <2>1, <3>1, <4>1, <4>2, OneLineEachBirth
      <4> QED BY <3>9, <4>1, <4>3
    <3>13. g \in Injection(U, V)
      <4>1. g \in [U -> V] /\ DOMAIN g = U BY <3>10, <3>11
      <4>2. IsInjective(g) BY <3>12, <4>1 DEF IsInjective
      <4> QED BY <4>1, <4>2 DEF Injection
    <3>14. IsFiniteSet(V) /\ Cardinality(V) \in Nat BY <3>8, SpentIsFinite
    <3>15. Cardinality(U) <= Cardinality(V) BY <3>13, <3>14, FS_Injection
    <3>16. Cardinality(V) <= calls[s]
      <4>1. PICK v, w, n : v = Cardinality(V) /\ w = Cardinality(Waiting({s})) /\ n = calls[s]
        OBVIOUS
      <4>2. v \in Nat /\ w \in Nat /\ n \in Nat
        BY <2>1, <3>1, <3>14, <4>1, WaitingIsFinite, CallsSum
      <4>3. v + w <= n BY <2>1, <3>1, <3>8, <4>1 DEF Paid
      <4>4. v <= n BY ONLY <4>2, <4>3
      <4> QED BY <4>1, <4>4
    <3>17. PICK a, b, n : a = Cardinality(U) /\ b = Cardinality(V) /\ n = calls[s] OBVIOUS
    <3>18. a \in Nat
      <4>1. IsFiniteSet(U) BY <3>13, <3>14, FS_Injection
      <4> QED BY <3>17, <4>1, FS_CardinalityType
    <3>19. b \in Nat /\ n \in Nat BY <2>1, <3>1, <3>14, <3>17, CallsSum
    <3>20. a <= b /\ b <= n BY <3>15, <3>16, <3>17
    <3>21. a <= n BY ONLY <3>18, <3>19, <3>20
    <3> QED BY <3>2, <3>3, <3>7, <3>8, <3>17, <3>21
  <2> QED BY <2>2 DEF HitsNeverInflated
<1> QED BY <1>1, AccountsBalance, PTL

-----------------------------------------------------------------------------
(* One operation at a time: what a step leaves true.                       *)

LEMMA IdleKnows ==
    ASSUME NEW q, q.at = "idle"
    PROVE  Knows(q) /\ Knows(q)'
  BY DEF Knows

(* The only operation under way moves, or a first one begins.              *)
LEMMA AloneStays ==
    ASSUME NEW p \in Procs, NEW x, proc'[p] = x,
           \A r \in Procs : r # p => proc'[r] = proc[r] /\ ~Busy(r),
           Knows(x)', OnePlace', FilesInOrder'
    PROVE  Alone'
<1>1. \A r \in Procs : r # p => proc'[r].at = "idle" BY DEF Busy
<1>2. \A r, q \in Procs : Busy(r)' /\ Busy(q)' => r = q BY <1>1 DEF Busy
<1>3. ASSUME NEW r \in Procs PROVE Knows(proc[r])'
  <2>1. PICK y : y = proc'[r] OBVIOUS
  <2>2. Knows(y)'
    <3>1. CASE r = p BY <2>1, <3>1
    <3>2. CASE r # p
      <4>1. y.at = "idle" BY <1>1, <2>1, <3>2
      <4> QED BY <4>1, IdleKnows
    <3> QED BY <3>1, <3>2
  <2> QED BY <2>1, <2>2 DEF Knows
<1> QED BY <1>2, <1>3 DEF Alone

(* What is known of the files stays true while they do.                    *)
LEMMA KnowsStays ==
    ASSUME files' = files, NEW q
    PROVE  Knows(q)' <=> Knows(q)
<1>1. \A fam : WriteTarget(fam)' = WriteTarget(fam) BY DEF WriteTarget, Present
<1>2. \A s, left : Unknown(s, left)' <=> Unknown(s, left) BY DEF Unknown
<1>3. \A fam, left, now : Within(fam, left, now)' <=> Within(fam, left, now) BY DEF Within
<1> QED BY <1>1, <1>2, <1>3 DEF Knows

(* So does the rest, when one process moves.                               *)
LEMMA AloneQuietly ==
    ASSUME TypeOK, Alone, files' = files, NEW p \in Procs, NEW x \in State,
           proc' = [proc EXCEPT ![p] = x],
           \A r \in Procs : r # p => ~Busy(r), Knows(x)
    PROVE  Alone'
<1>1. proc'[p] = x /\ \A r \in Procs : r # p => proc'[r] = proc[r] BY ProcSet
<1>2. OnePlace /\ FilesInOrder BY DEF Alone
<1>3. OnePlace' BY <1>2 DEF OnePlace, LinesOf
<1>4. FilesInOrder' BY <1>2 DEF FilesInOrder
<1>5. Knows(x)' BY KnowsStays
<1> QED BY <1>1, <1>3, <1>4, <1>5, AloneStays

(* While it is busy, no other is.                                          *)
LEMMA OthersIdle ==
    ASSUME Alone, NEW p \in Procs, Busy(p)
    PROVE  \A r \in Procs : r # p => ~Busy(r)
  BY DEF Alone

(* Nothing is in a file that does not exist.                               *)
LEMMA AbsentIsEmpty ==
    ASSUME TypeOK, NEW fam \in Families, NEW k \in Keys, k \notin Present(fam)
    PROVE  Range(files[fam][k]) = {}
<1>1. files[fam][k] = <<>> BY PresentIs
<1> QED BY <1>1 DEF Range

LEMMA CalledAlone ==
    ASSUME TypeOK, Sequential, NEW p \in Procs, NEW s \in AllSlots, NEW x \in State,
           CalledTo(p, s, x), ~raced'
    PROVE  Alone'
<1>1. /\ x.at \in {"scan", "target"} /\ x.slot = s
      /\ x.at = "scan" => x.left = Present("instincts")
      /\ x.at = "target" /\ s # None => Present("instincts") = {}
      /\ proc' = [proc EXCEPT ![p] = x]
      /\ files' = files
      /\ raced' = (raced \/ \E q \in Procs : Busy(q))
  BY DEF CalledTo
<1>2. ~raced /\ \A r \in Procs : ~Busy(r) BY <1>1
<1>3. Alone BY <1>2 DEF Sequential
<1>4. "instincts" \in Families BY DEF Families
<1>5. \A k \in Keys : k \notin Present("instincts") => Range(files["instincts"][k]) = {}
  BY <1>4, AbsentIsEmpty
<1>6. x.at = "scan" => Unknown(x.slot, x.left) BY <1>1, <1>5 DEF Unknown
<1>7. x.at = "target" /\ x.slot # None => Unknown(x.slot, {}) BY <1>1, <1>5 DEF Unknown
<1>8. Knows(x) BY <1>1, <1>6, <1>7 DEF Knows
<1> QED BY <1>1, <1>2, <1>3, <1>8, AloneQuietly

LEMMA MissedAlone ==
    ASSUME TypeOK, Alone, NEW p \in Procs, NEW k \in Keys, NEW x \in State, Missed(p, k, x)
    PROVE  Alone'
<1>1. PICK q : q = proc[p] OBVIOUS
<1>2. /\ q.at = "scan"
      /\ \A l \in Range(files["instincts"][k]) : l.slot # q.slot
      /\ x.at = (IF q.left = {k} THEN "target" ELSE "scan")
      /\ x.slot = q.slot /\ x.left = q.left \ {k}
      /\ proc' = [proc EXCEPT ![p] = x] /\ files' = files
  BY <1>1 DEF Missed
<1>3. Unknown(q.slot, q.left) BY <1>1, <1>2 DEF Alone, Knows
<1>4. Unknown(x.slot, x.left) BY <1>2, <1>3 DEF Unknown
<1>5. x.at = "target" => Unknown(x.slot, {})
  <2>1. x.at = "target" => x.left = {} BY <1>2
  <2> QED BY <1>4, <2>1
<1>6. Knows(x) BY <1>2, <1>4, <1>5 DEF Knows
<1>7. Busy(p) BY <1>1, <1>2 DEF Busy
<1> QED BY <1>2, <1>6, <1>7, OthersIdle, AloneQuietly

LEMMA FoundAlone ==
    ASSUME TypeOK, Alone, Roles, NEW p \in Procs, NEW k \in Keys, NEW i, NEW x \in State,
           Found(p, k, i, x)
    PROVE  Alone'
<1>1. PICK q : q = proc[p] OBVIOUS
<1>2. /\ q.at = "scan" /\ i \in DOMAIN files["instincts"][k]
      /\ x.at = "rewrite" /\ x.key = k
      /\ x.fam = q.fam /\ x.slot = q.slot /\ x.now = q.now
      /\ x.lines = [files["instincts"][k] EXCEPT ![i] = Hit(@, q.now)]
      /\ proc' = [proc EXCEPT ![p] = x] /\ files' = files
  BY <1>1 DEF Found
<1>3. q.slot # None /\ q.fam = "instincts"
  <2>1. RoleOf(q) /\ q \in State BY <1>1, TypeIs DEF Roles
  <2>2. q.slot # None /\ q.fam # "observations" BY <1>2, <2>1 DEF RoleOf
  <2>3. q.fam \in Families BY <2>1, StateFields
  <2> QED BY <2>2, <2>3 DEF Families
<1>4. Knows(x) BY <1>2, <1>3 DEF Knows
<1>5. Busy(p) BY <1>1, <1>2 DEF Busy
<1> QED BY <1>2, <1>4, <1>5, OthersIdle, AloneQuietly

(* An operation comes to its end, or dies, and leaves the files alone.     *)
LEMMA IdleAlone ==
    ASSUME TypeOK, Alone, files' = files, NEW p \in Procs, Busy(p),
           proc' = [proc EXCEPT ![p] = Idle]
    PROVE  Alone'
<1>1. PICK x : x = Idle OBVIOUS
<1>2. x \in State /\ x.at = "idle" /\ proc' = [proc EXCEPT ![p] = x] BY <1>1, IdleIs
<1>3. Knows(x) BY <1>2, IdleKnows
<1> QED BY <1>2, <1>3, OthersIdle, AloneQuietly

LEMMA TargetAlone ==
    ASSUME TypeOK, Numbered, Alone, NEW p \in Procs, Target(p)
    PROVE  Alone'
<1>1. PICK q : q = proc[p] OBVIOUS
<1>2. q \in State BY <1>1, TypeIs
<1>3. q.fam \in Families BY <1>2, StateFields
<1>4. PICK k \in Keys : k = WriteTarget(proc[p].fam) BY <1>1, <1>3, TargetFits
<1>5. PICK x \in State :
         /\ proc[p].at = "target" /\ x.at = "append" /\ x.key = k
         /\ x.fam = proc[p].fam /\ x.slot = proc[p].slot
         /\ proc' = [proc EXCEPT ![p] = x] /\ UNCHANGED <<files, born, calls, raced>>
  BY <1>4, TargetIs
<1>6. /\ q.at = "target" /\ x.key = k /\ x.fam = q.fam /\ x.slot = q.slot BY <1>1, <1>5
<1>7. Knows(q) BY <1>1 DEF Alone
<1>8. q.slot # None => Unknown(q.slot, {}) BY <1>6, <1>7 DEF Knows
<1>9. Knows(x) BY <1>1, <1>4, <1>5, <1>6, <1>8 DEF Knows
<1>10. Busy(p) BY <1>5 DEF Busy
<1>11. files' = files BY <1>5
<1> QED BY <1>5, <1>9, <1>10, <1>11, OthersIdle, AloneQuietly

(* A purge begins with a family: a file it did not list holds nothing.     *)
LEMMA PurgesNowAlone ==
    ASSUME TypeOK, Alone, files' = files, NEW p \in Procs, NEW x \in State,
           NEW fam \in Families, PurgesNow(x, fam), proc' = [proc EXCEPT ![p] = x],
           \A r \in Procs : r # p => ~Busy(r)
    PROVE  Alone'
<1>1. x.at = "purge" /\ x.fam = fam /\ x.left = Present(fam) BY DEF PurgesNow
<1>2. \A k \in Keys : k \notin Present(fam) => Range(files[fam][k]) = {} BY AbsentIsEmpty
<1>3. Within(x.fam, x.left, x.now) BY <1>1, <1>2 DEF Within
<1>4. Knows(x) BY <1>1, <1>3 DEF Knows
<1> QED BY <1>4, AloneQuietly

LEMMA SparedAlone ==
    ASSUME TypeOK, Alone, NEW p \in Procs, NEW k \in Keys, NEW x \in State, Spared(p, k, x)
    PROVE  Alone'
<1>1. PICK q, c : q = proc[p] /\ c = files[q.fam][k] OBVIOUS
<1>2. /\ q.at = "purge" /\ Kept(c, q.now) = c
      /\ x.at = "purge" /\ x.left = q.left \ {k}
      /\ x.fam = q.fam /\ x.now = q.now
      /\ proc' = [proc EXCEPT ![p] = x] /\ files' = files
  BY <1>1 DEF Spared
<1>3. q \in State BY <1>1, TypeIs
<1>4. q.fam \in Families /\ q.now \in Clock BY <1>3, StateFields
<1>5. c \in Seq(Line) BY <1>1, <1>4, PresentIs
<1>6. \A l \in Range(c) : l.ts + MaxAge >= q.now BY <1>2, <1>4, <1>5, KeptProperties
<1>7. Within(q.fam, q.left, q.now) BY <1>1, <1>2 DEF Alone, Knows
<1>8. Within(x.fam, x.left, x.now)
  <2>1. Within(q.fam, q.left \ {k}, q.now) BY <1>1, <1>6, <1>7 DEF Within
  <2> QED BY <1>2, <2>1
<1>9. Knows(x) BY <1>2, <1>8 DEF Knows
<1>10. Busy(p) BY <1>1, <1>2 DEF Busy
<1> QED BY <1>2, <1>9, <1>10, OthersIdle, AloneQuietly

LEMMA ThinnedAlone ==
    ASSUME TypeOK, Alone, Roles, NEW p \in Procs, NEW k \in Keys, NEW x \in State,
           Thinned(p, k, x)
    PROVE  Alone'
<1>1. PICK q : q = proc[p] OBVIOUS
<1>2. /\ q.at = "purge" /\ x.at \in {"rewrite", "unlink"}
      /\ x.lines = Kept(files[q.fam][k], q.now)
      /\ x.left = q.left \ {k} /\ x.key = k
      /\ x.fam = q.fam /\ x.slot = q.slot /\ x.now = q.now
      /\ proc' = [proc EXCEPT ![p] = x] /\ files' = files
  BY <1>1 DEF Thinned
<1>3. q.slot = None BY <1>1, <1>2 DEF Roles, RoleOf
<1>4. Within(q.fam, q.left, q.now) BY <1>1, <1>2 DEF Alone, Knows
<1>5. Within(x.fam, x.left \cup {x.key}, x.now)
  <2>1. Within(q.fam, (q.left \ {k}) \cup {k}, q.now) BY <1>4 DEF Within
  <2> QED BY <1>2, <2>1
<1>6. x.lines = Kept(files[x.fam][x.key], x.now) BY <1>2
<1>7. Knows(x) BY <1>2, <1>3, <1>5, <1>6 DEF Knows
<1>8. Busy(p) BY <1>1, <1>2 DEF Busy
<1> QED BY <1>2, <1>7, <1>8, OthersIdle, AloneQuietly

(* A birth has one place.                                                  *)
LEMMA OnePosition ==
    ASSUME TypeOK, Births, NEW fam \in Families, NEW j \in Keys, NEW k \in Keys,
           NEW i \in DOMAIN files[fam][j], NEW n \in DOMAIN files[fam][k],
           files[fam][j][i].born = files[fam][k][n].born
    PROVE  j = k /\ i = n
<1>1. PICK c, d : c = files[fam][j] /\ d = files[fam][k] OBVIOUS
<1>2. c[i] \in Copies(fam, j) /\ d[n] \in Copies(fam, k)
  <2>1. c[i] \in Range(c) /\ d[n] \in Range(d) BY <1>1 DEF Range
  <2> QED BY <1>1, <2>1, FileIsContent
<1>3. j = k BY <1>1, <1>2 DEF Births
<1>4. c \in Contents(fam, j) BY <1>1, FileIsContent
<1>5. Rising(c) BY <1>4 DEF Births
<1>6. c \in Seq(Line) BY <1>1, PresentIs
<1>7. DOMAIN c = 1..Len(c) /\ Len(c) \in Nat BY <1>6, LenProperties
<1>8. c[i].born \in Int
  <2>1. c[i] \in Line BY <1>2, CopiesAreLines
  <2> QED BY <2>1, LineFields
<1>9. i \in DOMAIN c /\ n \in DOMAIN c /\ c[i].born = c[n].born BY <1>1, <1>3
<1>10. ~(i < n) /\ ~(n < i)
  <2>1. ~(i < n) BY <1>5, <1>8, <1>9 DEF Rising
  <2>2. ~(n < i) BY <1>5, <1>8, <1>9 DEF Rising
  <2> QED BY <2>1, <2>2
<1>11. i \in Int /\ n \in Int BY <1>7, <1>9
<1>12. i = n BY ONLY <1>10, <1>11
<1> QED BY <1>3, <1>12

(* Files whose lines were born where they are stay in order.               *)
LEMMA OrderStays ==
    ASSUME FilesInOrder,
           \A fam \in Families, k \in Keys : \A l \in Range(files'[fam][k]) :
              \E o \in Range(files[fam][k]) : o.born = l.born
    PROVE  FilesInOrder'
<1>1. ASSUME NEW fam \in Families, NEW j \in Keys, NEW k \in Keys, j < k,
             NEW l \in Range(files'[fam][j]), NEW m \in Range(files'[fam][k])
      PROVE  l.born < m.born
  <2>1. PICK o \in Range(files[fam][j]) : o.born = l.born OBVIOUS
  <2>2. PICK w \in Range(files[fam][k]) : w.born = m.born OBVIOUS
  <2>3. o.born < w.born BY <1>1 DEF FilesInOrder
  <2> QED BY <2>1, <2>2, <2>3
<1> QED BY <1>1 DEF FilesInOrder

(* A replacement that found its slot hits one line, and moves none.        *)
LEMMA HitAlone ==
    ASSUME Accounted, Alone, NEW p \in Procs, Replace(p), proc[p].slot # None
    PROVE  Alone'
<1>1. TypeOK /\ Births /\ Roles BY DEF Accounted
<1>2. PICK q, f, k, c : q = proc[p] /\ f = q.fam /\ k = q.key /\ c = files[f][k] OBVIOUS
<1>3. q \in State BY <1>1, <1>2, TypeIs
<1>4. /\ q.at \in {"rewrite", "unlink"} /\ q.slot # None
      /\ files' = [files EXCEPT ![q.fam][q.key] = q.lines]
      /\ proc' = [proc EXCEPT ![p] = Idle]
  BY <1>1, <1>2, ReplaceIs
<1>5. f \in Families /\ k \in Keys /\ q.now \in Clock BY <1>2, <1>3, StateFields
<1>6. PICK d : d = q.lines OBVIOUS
<1>7. /\ files'[f][k] = d
      /\ \A g \in Families, j \in Keys : g # f \/ j # k => files'[g][j] = files[g][j]
  <2>1. /\ files'[q.fam][q.key] = q.lines
        /\ \A fam \in Families, j \in Keys :
              fam # q.fam \/ j # q.key => files'[fam][j] = files[fam][j]
    BY <1>1, <1>3, <1>4, ReplacedFiles
  <2> QED BY <1>2, <1>6, <2>1
<1>8. Knows(q) BY <1>2 DEF Alone
<1>9. PICK i \in DOMAIN c : d = [c EXCEPT ![i] = Hit(@, q.now)]
  BY <1>2, <1>4, <1>6, <1>8 DEF Knows
<1>10. c \in Seq(Line) BY <1>1, <1>2, <1>5, PresentIs
<1>11. /\ DOMAIN d = DOMAIN c
       /\ \A j \in DOMAIN c : d[j].born = c[j].born /\ d[j].slot = c[j].slot
  <2>1. PICK e : e = Hit(c[i], q.now) OBVIOUS
  <2>2. d = [c EXCEPT ![i] = e] BY <1>9, <2>1
  <2> QED BY <1>5, <1>9, <1>10, <2>1, <2>2, HitProperties
<1>12. ASSUME NEW g \in Families, NEW j \in Keys
       PROVE  /\ DOMAIN files'[g][j] = DOMAIN files[g][j]
              /\ \A n \in DOMAIN files[g][j] :
                    /\ files'[g][j][n].born = files[g][j][n].born
                    /\ files'[g][j][n].slot = files[g][j][n].slot
  <2>1. CASE g = f /\ j = k
    <3>1. files'[g][j] = d /\ files[g][j] = c BY <1>2, <1>7, <2>1
    <3> QED BY ONLY <1>11, <3>1
  <2>2. CASE g # f \/ j # k BY <1>7, <2>2
  <2> QED BY <2>1, <2>2
<1>13. FilesInOrder'
  <2>1. ASSUME NEW g \in Families, NEW j \in Keys, NEW l \in Range(files'[g][j])
        PROVE  \E o \in Range(files[g][j]) : o.born = l.born
    <3>1. PICK n \in DOMAIN files'[g][j] : l = files'[g][j][n] BY DEF Range
    <3>2. files[g][j][n] \in Range(files[g][j]) /\ files[g][j][n].born = l.born
      BY <1>12, <3>1 DEF Range
    <3> QED BY <3>2
  <2>2. FilesInOrder BY DEF Alone
  <2> QED BY <2>1, <2>2, OrderStays
<1>14. OnePlace'
  <2>1. "instincts" \in Families BY DEF Families
  <2>2. ASSUME NEW l \in LinesOf("instincts")', NEW m \in LinesOf("instincts")', l.slot = m.slot
        PROVE  l = m
    <3>1. PICK j \in Keys : l \in Range(files'["instincts"][j]) BY DEF LinesOf
    <3>2. PICK n \in DOMAIN files'["instincts"][j] : l = files'["instincts"][j][n]
      BY <3>1 DEF Range
    <3>3. PICK y \in Keys : m \in Range(files'["instincts"][y]) BY DEF LinesOf
    <3>4. PICK z \in DOMAIN files'["instincts"][y] : m = files'["instincts"][y][z]
      BY <3>3 DEF Range
    <3>5. n \in DOMAIN files["instincts"][j] /\ z \in DOMAIN files["instincts"][y]
      BY <1>12, <2>1, <3>2, <3>4
    <3>6. PICK o, w : o = files["instincts"][j][n] /\ w = files["instincts"][y][z] OBVIOUS
    <3>7. o.slot = l.slot /\ w.slot = m.slot BY <1>12, <2>1, <3>2, <3>4, <3>5, <3>6
    <3>8. o \in Range(files["instincts"][j]) /\ w \in Range(files["instincts"][y])
      BY <3>5, <3>6 DEF Range
    <3>9. o \in LinesOf("instincts") /\ w \in LinesOf("instincts") BY <3>8 DEF LinesOf
    <3>10. o = w BY <2>2, <3>7, <3>9 DEF Alone, OnePlace
    <3>11. files["instincts"][j][n].born = files["instincts"][y][z].born BY <3>6, <3>10
    <3>12. j = y /\ n = z BY <1>1, <2>1, <3>5, <3>11, OnePosition
    <3> QED BY <3>2, <3>4, <3>12
  <2> QED BY <2>2 DEF OnePlace
<1>15. PICK x : x = Idle OBVIOUS
<1>16. x \in State /\ x.at = "idle" /\ proc' = [proc EXCEPT ![p] = x] BY <1>4, <1>15, IdleIs
<1>17. Knows(x)' BY <1>16, IdleKnows
<1>18. proc'[p] = x /\ \A r \in Procs : r # p => proc'[r] = proc[r]
  BY <1>1, <1>16, ProcSet
<1>19. Busy(p) BY <1>2, <1>4 DEF Busy
<1> QED BY <1>13, <1>14, <1>17, <1>18, <1>19, OthersIdle, AloneStays

(* A replacement that a purge ordered leaves a part of what there was.     *)
LEMMA PurgedAlone ==
    ASSUME Accounted, Alone, NEW p \in Procs, Replace(p), proc[p].slot = None
    PROVE  Alone'
<1>1. TypeOK /\ Births BY DEF Accounted
<1>2. PICK q, f, k, c : q = proc[p] /\ f = q.fam /\ k = q.key /\ c = files[f][k] OBVIOUS
<1>3. q \in State BY <1>1, <1>2, TypeIs
<1>4. /\ q.at \in {"rewrite", "unlink"} /\ q.slot = None
      /\ files' = [files EXCEPT ![q.fam][q.key] = q.lines]
  BY <1>1, <1>2, ReplaceIs
<1>5. PICK x \in State :
         /\ x.at = "purge" /\ x.left = q.left /\ x.fam = f /\ x.now = q.now
         /\ proc' = [proc EXCEPT ![p] = x]
  BY <1>1, <1>2, <1>4, ReplaceIs
<1>6. f \in Families /\ k \in Keys /\ q.now \in Clock BY <1>2, <1>3, StateFields
<1>7. PICK d : d = q.lines OBVIOUS
<1>8. /\ files'[f][k] = d
      /\ \A g \in Families, j \in Keys : g # f \/ j # k => files'[g][j] = files[g][j]
  <2>1. /\ files'[q.fam][q.key] = q.lines
        /\ \A fam \in Families, j \in Keys :
              fam # q.fam \/ j # q.key => files'[fam][j] = files[fam][j]
    BY <1>1, <1>3, <1>4, ReplacedFiles
  <2> QED BY <1>2, <1>7, <2>1
<1>9. Knows(q) BY <1>2 DEF Alone
<1>10. d = Kept(c, q.now) /\ Within(f, q.left \cup {k}, q.now)
  BY <1>2, <1>4, <1>7, <1>9 DEF Knows
<1>11. c \in Seq(Line) BY <1>1, <1>2, <1>6, PresentIs
<1>12. Range(d) \subseteq Range(c) /\ \A l \in Range(d) : l.ts + MaxAge >= q.now
  BY <1>6, <1>10, <1>11, KeptProperties
<1>13. \A g \in Families, j \in Keys : Range(files'[g][j]) \subseteq Range(files[g][j])
  BY <1>2, <1>8, <1>12
<1>14. FilesInOrder'
  <2>1. FilesInOrder BY DEF Alone
  <2> QED BY <1>13, <2>1, OrderStays
<1>15. OnePlace'
  <2>1. "instincts" \in Families BY DEF Families
  <2>2. LinesOf("instincts")' \subseteq LinesOf("instincts") BY <1>13, <2>1 DEF LinesOf
  <2> QED BY <2>2 DEF Alone, OnePlace
<1>16. Knows(x)'
  <2>1. ASSUME NEW j \in Keys \ q.left, NEW l \in Range(files'[f][j])
        PROVE  l.ts + MaxAge >= q.now
    <3>1. CASE j = k BY <1>8, <1>12, <2>1, <3>1
    <3>2. CASE j # k
      <4>1. l \in Range(files[f][j]) BY <1>6, <1>13, <2>1
      <4> QED BY <1>10, <2>1, <3>2, <4>1 DEF Within
    <3> QED BY <3>1, <3>2
  <2>2. Within(x.fam, x.left, x.now)' BY <1>5, <2>1 DEF Within
  <2> QED BY <1>5, <2>2 DEF Knows
<1>17. proc'[p] = x /\ \A r \in Procs : r # p => proc'[r] = proc[r] BY <1>1, <1>5, ProcSet
<1>18. Busy(p) BY <1>2, <1>4 DEF Busy
<1> QED BY <1>14, <1>15, <1>16, <1>17, <1>18, OthersIdle, AloneStays

(* A new line is the last of its family, and the only one of its slot.     *)
LEMMA WroteAlone ==
    ASSUME Accounted, Alone, NEW p \in Procs, NEW f, NEW k, NEW l, Wrote(p, f, k, l)
    PROVE  Alone'
<1>1. TypeOK /\ Births /\ Numbered /\ Roles BY DEF Accounted
<1>2. PICK q : q = proc[p] OBVIOUS
<1>3. /\ q.at = "append" /\ f = q.fam
      /\ k = q.key \/ k = q.key + 1
      /\ proc' = [proc EXCEPT ![p] = Idle]
  BY <1>2 DEF Wrote
<1>4. /\ f \in Families /\ k \in Keys
      /\ l \in Line /\ l.born = born + 1 /\ l.slot = q.slot
      /\ born \in Nat
      /\ files'[f][k] = Append(files[f][k], l)
      /\ \A g \in Families, j \in Keys : g # f \/ j # k => files'[g][j] = files[g][j]
  BY <1>2, WroteIs
<1>5. born' = born + 1 BY DEF Wrote
<1>6. Range(files'[f][k]) = Range(files[f][k]) \cup {l}
  <2>1. PICK c, a : c = files[f][k] /\ a = Append(c, l) OBVIOUS
  <2>2. c \in Seq(Line) BY <1>1, <1>4, <2>1, PresentIs
  <2>3. c \in Contents(f, k) BY <2>1, FileIsContent
  <2>4. Rising(c) BY <1>1, <1>4, <2>3 DEF Births
  <2>5. Range(a) = Range(c) \cup {l} BY ONLY <1>4, <1>5, <2>1, <2>2, <2>4, AppendRises
  <2> QED BY <1>4, <2>1, <2>5
<1>7. \A g \in Families, j \in Keys : \A m \in Range(files'[g][j]) :
         m \in Range(files[g][j]) \/ (g = f /\ j = k /\ m = l)
  <2>1. ASSUME NEW g \in Families, NEW j \in Keys, NEW m \in Range(files'[g][j])
        PROVE  m \in Range(files[g][j]) \/ (g = f /\ j = k /\ m = l)
    <3>1. CASE g = f /\ j = k BY <1>6, <2>1, <3>1
    <3>2. CASE g # f \/ j # k BY <1>4, <2>1, <3>2
    <3> QED BY <3>1, <3>2
  <2> QED BY <2>1
<1>8. Knows(q) BY <1>2 DEF Alone
<1>9. q.key = WriteTarget(f) BY <1>3, <1>8 DEF Knows
<1>10. ASSUME NEW j \in Keys, k < j PROVE Range(files[f][j]) = {}
  <2>1. CASE j \in Present(f)
    <3>1. PICK w : w = WriteTarget(f) OBVIOUS
    <3>2. j <= w /\ w \in Nat BY <1>1, <1>4, <2>1, <3>1, TargetFits
    <3>3. k = w \/ k = w + 1 BY <1>3, <1>9, <3>1
    <3>4. MaxCalls \in Nat /\ j \in 0..(2 * MaxCalls) /\ k \in 0..(2 * MaxCalls)
      BY <1>4, NumbersAre DEF Keys
    <3>5. FALSE BY ONLY <1>10, <3>2, <3>3, <3>4
    <3> QED BY <3>5
  <2>2. CASE j \notin Present(f) BY <1>1, <1>4, <2>2, AbsentIsEmpty
  <2> QED BY <2>1, <2>2
<1>11. ASSUME NEW j \in Keys, NEW m \in Range(files[f][j]) PROVE m.born < l.born
  <2>1. m \in Copies(f, j) BY <1>11, FileIsContent
  <2>2. m \in Line BY <1>1, <1>4, <2>1, CopiesAreLines
  <2>3. MaxCalls \in Nat /\ m.born \in 1..MaxCalls BY <2>2, LineFields, NumbersAre
  <2>4. PICK c : c = files[f][j] OBVIOUS
  <2>5. c \in Contents(f, j) BY <2>4, FileIsContent
  <2>6. Rising(c) BY <1>1, <1>4, <2>5 DEF Births
  <2>7. m.born <= born BY <1>11, <2>4, <2>6 DEF Rising, Range
  <2>8. PICK b, n : b = m.born /\ n = l.born OBVIOUS
  <2>9. b \in 1..MaxCalls /\ b <= born /\ n = born + 1 BY <1>4, <2>3, <2>7, <2>8
  <2>10. b < n BY ONLY <1>4, <2>3, <2>9
  <2> QED BY <2>8, <2>10
<1>12. FilesInOrder'
  <2>1. FilesInOrder BY DEF Alone
  <2>2. ASSUME NEW g \in Families, NEW j \in Keys, NEW i \in Keys, j < i,
               NEW m \in Range(files'[g][j]), NEW n \in Range(files'[g][i])
        PROVE  m.born < n.born
    <3>1. CASE m \in Range(files[g][j]) /\ n \in Range(files[g][i])
      BY <2>1, <2>2, <3>1 DEF FilesInOrder
    <3>2. CASE g = f /\ i = k /\ n = l /\ m \in Range(files[g][j]) BY <1>11, <3>2
    <3>3. CASE g = f /\ j = k /\ n \in Range(files[g][i]) BY <1>10, <2>2, <3>3
    <3>4. ~(i = k /\ j = k)
      <4>1. MaxCalls \in Nat /\ k \in 0..(2 * MaxCalls) BY <1>4, NumbersAre DEF Keys
      <4> QED BY <2>2, <4>1
    <3> QED BY <1>7, <2>2, <3>1, <3>2, <3>3, <3>4
  <2> QED BY <2>2 DEF FilesInOrder
<1>13. OnePlace'
  <2>1. OnePlace BY DEF Alone
  <2>2. "instincts" \in Families BY DEF Families
  <2>3. \A m \in LinesOf("instincts")' : m \in LinesOf("instincts") \/ (f = "instincts" /\ m = l)
    BY <1>7, <2>2 DEF LinesOf
  <2>4. f = "instincts" => \A m \in LinesOf("instincts") : m.slot # l.slot
    <3>1. ASSUME f = "instincts" PROVE \A m \in LinesOf("instincts") : m.slot # l.slot
      <4>1. RoleOf(q) BY <1>1, <1>2 DEF Roles
      <4>2. q.slot # None BY <1>3, <3>1, <4>1 DEF RoleOf
      <4>3. Unknown(q.slot, {}) BY <1>3, <1>8, <4>2 DEF Knows
      <4> QED BY <1>4, <4>3 DEF Unknown, LinesOf
    <3> QED BY <3>1
  <2> QED BY <2>1, <2>3, <2>4 DEF OnePlace
<1>14. PICK x : x = Idle OBVIOUS
<1>15. x \in State /\ x.at = "idle" /\ proc' = [proc EXCEPT ![p] = x] BY <1>3, <1>14, IdleIs
<1>16. Knows(x)' BY <1>15, IdleKnows
<1>17. proc'[p] = x /\ \A r \in Procs : r # p => proc'[r] = proc[r]
  BY <1>1, <1>15, ProcSet
<1>18. Busy(p) BY <1>2, <1>3 DEF Busy
<1> QED BY <1>12, <1>13, <1>16, <1>17, <1>18, OthersIdle, AloneStays

LEMMA StartsSequential == Init => Sequential
<1> SUFFICES ASSUME Init PROVE Sequential OBVIOUS
<1>1. Accounted BY StartsAccounted
<1>2. TypeOK BY <1>1 DEF Accounted
<1>3. \A fam \in Families, k \in Keys : files[fam][k] = <<>> BY DEF Init
<1>4. \A fam \in Families, k \in Keys : Range(files[fam][k]) = {} BY <1>3 DEF Range
<1>5. \A p \in Procs : proc[p].at = "idle"
  <2>1. \A p \in Procs : proc[p] = Idle BY DEF Init
  <2> QED BY <2>1, IdleIs
<1>6. OnePlace
  <2>1. "instincts" \in Families BY DEF Families
  <2> QED BY <1>4, <2>1 DEF OnePlace, LinesOf
<1>7. FilesInOrder BY <1>4 DEF FilesInOrder
<1>8. \A p \in Procs : Knows(proc[p]) BY <1>5, IdleKnows
<1>9. \A p, q \in Procs : Busy(p) /\ Busy(q) => p = q BY <1>5 DEF Busy
<1> QED BY <1>6, <1>7, <1>8, <1>9 DEF Sequential, Alone

LEMMA SequentialKept == Accounted /\ Sequential /\ [Next]_vars => Sequential'
<1> SUFFICES ASSUME Accounted, Sequential, [Next]_vars, ~raced' PROVE Alone'
  BY DEF Sequential
<1>1. TypeOK /\ Births /\ Numbered /\ Roles BY DEF Accounted
<1>2. ASSUME NEW p \in Procs, Observe(p) PROVE Alone'
  <2>1. PICK x \in State : CalledTo(p, None, x) BY <1>1, <1>2, ObserveIs
  <2>2. None \in AllSlots BY DEF AllSlots
  <2> QED BY <1>1, <2>1, <2>2, CalledAlone
<1>3. ASSUME NEW p \in Procs, NEW s \in Slots, Record(p, s) PROVE Alone'
  <2>1. PICK x \in State : CalledTo(p, s, x) BY <1>1, <1>3, RecordIs
  <2>2. s \in AllSlots BY DEF AllSlots
  <2> QED BY <1>1, <2>1, <2>2, CalledAlone
<1>4. ASSUME NEW p \in Procs, Scan(p) PROVE Alone'
  <2>1. Alone BY <1>4 DEF Scan, Sequential
  <2>2. proc[p].left # {} BY <1>1, <1>4 DEF Roles, RoleOf, Scan
  <2>3. ASSUME NEW k \in Keys, NEW x \in State, Missed(p, k, x) PROVE Alone'
    BY <1>1, <2>1, <2>3, MissedAlone
  <2>4. ASSUME NEW k \in Keys, NEW i, NEW x, Found(p, k, i, x) PROVE Alone'
    <3>1. Accounted' BY AccountedKept
    <3>2. TypeOK' BY <3>1 DEF Accounted
    <3>3. proc' \in [Procs -> State] BY <3>2 DEF TypeOK, State, Stages, AllSlots
    <3>4. proc' = [proc EXCEPT ![p] = x] BY <2>4 DEF Found
    <3>5. proc'[p] = x BY <1>1, <3>4, TypeIs
    <3>6. x \in State BY <3>3, <3>5
    <3> QED BY <1>1, <2>1, <2>4, <3>6, FoundAlone
  <2> QED BY <1>1, <1>4, <2>2, <2>3, <2>4, ScanIs
<1>5. ASSUME NEW p \in Procs, Target(p) PROVE Alone'
  <2>1. Alone BY <1>5 DEF Target, Sequential
  <2> QED BY <1>1, <1>5, <2>1, TargetAlone
<1>6. ASSUME NEW p \in Procs, AppendLine(p) PROVE Alone'
  <2>1. /\ proc[p].at = "append" /\ proc' = [proc EXCEPT ![p] = Idle]
        /\ calls' = calls /\ raced' = raced
        /\ \/ files' = files /\ born' = born
           \/ /\ born' = born + 1
              /\ \E k \in {proc[p].key, proc[p].key + 1} :
                   /\ k = proc[p].key \/ proc[p].key \in Present(proc[p].fam)
                   /\ files' = [files EXCEPT ![proc[p].fam][k] = Append(@, NewLine(p))]
    BY <1>1, <1>6, AppendIs
  <2>2. Alone BY <2>1 DEF Sequential
  <2>3. Busy(p) BY <2>1 DEF Busy
  <2>4. CASE files' = files /\ born' = born BY <1>1, <2>1, <2>2, <2>3, <2>4, IdleAlone
  <2>5. CASE born' = born + 1 /\ \E k \in {proc[p].key, proc[p].key + 1} :
                   /\ k = proc[p].key \/ proc[p].key \in Present(proc[p].fam)
                   /\ files' = [files EXCEPT ![proc[p].fam][k] = Append(@, NewLine(p))]
    <3>1. PICK k \in {proc[p].key, proc[p].key + 1} :
             /\ k = proc[p].key \/ proc[p].key \in Present(proc[p].fam)
             /\ files' = [files EXCEPT ![proc[p].fam][k] = Append(@, NewLine(p))]
      BY <2>5
    <3>2. Wrote(p, proc[p].fam, k, NewLine(p)) BY <2>1, <2>5, <3>1 DEF Wrote
    <3> QED BY <2>2, <3>2, WroteAlone
  <2> QED BY <2>1, <2>4, <2>5
<1>7. ASSUME NEW p \in Procs, Purge(p) PROVE Alone'
  <2>1. PICK x \in State : PurgesNow(x, "observations") /\ proc' = [proc EXCEPT ![p] = x]
    BY <1>1, <1>7, PurgeIs
  <2>2. files' = files /\ raced' = (raced \/ \E q \in Procs : Busy(q))
    BY <1>1, <1>7, PurgeIs
  <2>3. Alone /\ \A r \in Procs : ~Busy(r) BY <2>2 DEF Sequential
  <2>4. "observations" \in Families BY DEF Families
  <2> QED BY <1>1, <2>1, <2>2, <2>3, <2>4, PurgesNowAlone
<1>8. ASSUME NEW p \in Procs, PurgeRead(p) PROVE Alone'
  <2>1. Alone BY <1>8 DEF PurgeRead, Sequential
  <2>2. PICK k \in Keys, x \in State : Spared(p, k, x) \/ Thinned(p, k, x)
    BY <1>1, <1>8, PurgeReadIs
  <2> QED BY <1>1, <2>1, <2>2, SparedAlone, ThinnedAlone
<1>9. ASSUME NEW p \in Procs, PurgeFamilyDone(p) PROVE Alone'
  <2>1. /\ proc[p].at = "purge"
        /\ \/ \E x \in State : PurgesNow(x, "instincts") /\ proc' = [proc EXCEPT ![p] = x]
           \/ proc' = [proc EXCEPT ![p] = Idle]
        /\ files' = files /\ born' = born /\ calls' = calls /\ raced' = raced
    BY <1>1, <1>9, PurgeFamilyDoneIs
  <2>2. Alone BY <2>1 DEF Sequential
  <2>3. Busy(p) BY <2>1 DEF Busy
  <2>4. \A r \in Procs : r # p => ~Busy(r) BY <2>2, <2>3, OthersIdle
  <2>5. "instincts" \in Families BY DEF Families
  <2>6. ASSUME NEW x \in State, PurgesNow(x, "instincts"), proc' = [proc EXCEPT ![p] = x]
        PROVE  Alone'
    BY <1>1, <2>1, <2>2, <2>4, <2>5, <2>6, PurgesNowAlone
  <2>7. CASE proc' = [proc EXCEPT ![p] = Idle] BY <1>1, <2>1, <2>2, <2>3, <2>7, IdleAlone
  <2> QED BY <2>1, <2>6, <2>7
<1>10. ASSUME NEW p \in Procs, Replace(p) PROVE Alone'
  <2>1. Alone BY <1>10 DEF Replace, Sequential
  <2>2. CASE proc[p].slot # None BY <1>10, <2>1, <2>2, HitAlone
  <2>3. CASE proc[p].slot = None BY <1>10, <2>1, <2>3, PurgedAlone
  <2> QED BY <2>2, <2>3
<1>11. ASSUME NEW p \in Procs, Crash(p) PROVE Alone'
  <2>1. Alone /\ Busy(p) BY <1>11 DEF Crash, Sequential
  <2>2. /\ proc' = [proc EXCEPT ![p] = Idle] /\ files' = files BY <1>11 DEF Crash
  <2> QED BY <1>1, <2>1, <2>2, IdleAlone
<1>12. CASE UNCHANGED vars
  <2>1. /\ files' = files /\ proc' = proc /\ raced' = raced BY <1>12 DEF vars
  <2>2. Alone BY <2>1 DEF Sequential
  <2>3. OnePlace' BY <2>1, <2>2 DEF Alone, OnePlace, LinesOf
  <2>4. FilesInOrder' BY <2>1, <2>2 DEF Alone, FilesInOrder
  <2>5. \A q : Knows(q)' <=> Knows(q) BY <2>1, KnowsStays
  <2>6. \A p \in Procs : Knows(proc[p])'
    <3>1. ASSUME NEW p \in Procs PROVE Knows(proc[p])'
      <4>1. PICK q : q = proc[p] OBVIOUS
      <4>2. Knows(q) BY <2>2, <4>1 DEF Alone
      <4>3. Knows(q)' /\ q = proc'[p] BY <2>1, <2>5, <4>1, <4>2
      <4> QED BY <4>3 DEF Knows
    <3> QED BY <3>1
  <2>7. \A p, q \in Procs : Busy(p)' /\ Busy(q)' => p = q BY <2>1, <2>2 DEF Alone, Busy
  <2> QED BY <2>3, <2>4, <2>6, <2>7 DEF Alone
<1> QED BY <1>2, <1>3, <1>4, <1>5, <1>6, <1>7, <1>8, <1>9, <1>10, <1>11, <1>12 DEF Next

LEMMA SequenceHolds == Spec => [](Accounted /\ Sequential)
<1>1. Init => Accounted /\ Sequential BY StartsAccounted, StartsSequential
<1>2. Accounted /\ Sequential /\ [Next]_vars => Accounted' /\ Sequential'
  BY AccountedKept, SequentialKept
<1> QED BY <1>1, <1>2, PTL DEF Spec

-----------------------------------------------------------------------------
(* What one operation at a time can rely on.                               *)

(* An instinct is stored once, whatever crashes, refused writes and clock  *)
(* changes came between its recordings: a recording appends a line only    *)
(* after a search in which every file missed its slot.                     *)
THEOREM InstinctsAreStoredOnce == Spec => []OneRecordPerSlot
<1>1. Sequential => OneRecordPerSlot BY DEF Sequential, Alone, OnePlace, OneRecordPerSlot
<1> QED BY <1>1, SequenceHolds, PTL

(* No step takes back that operations overlapped.                          *)
LEMMA RacesAreRemembered ==
    ASSUME TypeOK, [Next]_vars, ~raced'
    PROVE  ~raced
<1>1. ASSUME NEW p \in Procs, Observe(p) PROVE ~raced BY <1>1 DEF Observe, Begin
<1>2. ASSUME NEW p \in Procs, NEW s \in Slots, Record(p, s) PROVE ~raced
  BY <1>2 DEF Record, Begin
<1>3. ASSUME NEW p \in Procs, Purge(p) PROVE ~raced BY <1>3 DEF Purge, Begin
<1>4. CASE UNCHANGED vars BY <1>4 DEF vars
<1> QED
  BY <1>1, <1>2, <1>3, <1>4
  DEF Next, Scan, Target, AppendLine, PurgeRead, PurgeFamilyDone, Replace, Crash

(* Only an append and a replacement write a file.                          *)
LEMMA WhoWrites ==
    ASSUME TypeOK, [Next]_vars, files' # files
    PROVE  \/ \E p \in Procs : Replace(p)
           \/ \E p \in Procs : \E k : Wrote(p, proc[p].fam, k, NewLine(p))
<1>1. ASSUME NEW p \in Procs, AppendLine(p)
      PROVE  \E k : Wrote(p, proc[p].fam, k, NewLine(p))
  <2>1. /\ proc[p].at = "append" /\ proc' = [proc EXCEPT ![p] = Idle]
        /\ calls' = calls /\ raced' = raced
        /\ \/ files' = files /\ born' = born
           \/ /\ born' = born + 1
              /\ \E k \in {proc[p].key, proc[p].key + 1} :
                   /\ k = proc[p].key \/ proc[p].key \in Present(proc[p].fam)
                   /\ files' = [files EXCEPT ![proc[p].fam][k] = Append(@, NewLine(p))]
    BY <1>1, AppendIs
  <2>2. born' = born + 1 BY <2>1
  <2>3. PICK k \in {proc[p].key, proc[p].key + 1} :
           /\ k = proc[p].key \/ proc[p].key \in Present(proc[p].fam)
           /\ files' = [files EXCEPT ![proc[p].fam][k] = Append(@, NewLine(p))]
    BY <2>1
  <2>4. Wrote(p, proc[p].fam, k, NewLine(p)) BY <2>1, <2>2, <2>3 DEF Wrote
  <2> QED BY <2>4
<1>2. files' = files \/ \E p \in Procs : AppendLine(p) \/ Replace(p)
  BY DEF Next, Observe, Record, Scan, Target, Purge, PurgeRead, PurgeFamilyDone, Crash, vars
<1> QED BY <1>1, <1>2

(* A line is taken away, alone in the store, only by a purge, and only     *)
(* when it is older than the limit by the clock the purge read: whatever   *)
(* file it is in, and whatever crash or refused write came before.         *)
THEOREM LinesAreKept == Spec => NothingLostEarly
<1> DEFINE Survives(fam, k, l) ==
      \/ \E m \in Range(files'[fam][k]) : m.born = l.born /\ m.hits >= l.hits /\ m.ts >= l.ts
      \/ \E p \in Procs : l.ts + MaxAge < proc[p].now
<1>1. ASSUME Accounted, Sequential, [Next]_vars, ~raced',
             NEW fam \in Families, NEW k \in Keys, NEW l \in Range(files[fam][k])
      PROVE  Survives(fam, k, l)
  <2>1. TypeOK BY <1>1 DEF Accounted
  <2>2. Alone
    <3>1. ~raced BY <1>1, <2>1, RacesAreRemembered
    <3> QED BY <1>1, <3>1 DEF Sequential
  <2>3. l \in Line
    <3>1. l \in Copies(fam, k) BY <1>1, FileIsContent
    <3> QED BY <1>1, <2>1, <3>1, CopiesAreLines
  <2>4. MaxClock \in Nat /\ MaxCalls \in Nat /\ MaxAge \in Nat BY NumbersAre
  <2>5. l.hits \in 1..MaxCalls /\ l.ts \in 0..MaxClock BY <2>3, LineFields DEF Clock
  <2>6. l.hits >= l.hits /\ l.ts >= l.ts
    <3>1. PICK h, t : h = l.hits /\ t = l.ts OBVIOUS
    <3>2. h >= h /\ t >= t BY <2>4, <2>5, <3>1
    <3> QED BY <3>1, <3>2
  <2>7. l \in Range(files'[fam][k]) => Survives(fam, k, l) BY <2>6
  <2>8. CASE files' = files BY <1>1, <2>7, <2>8
  <2>9. ASSUME NEW p \in Procs, NEW j, Wrote(p, proc[p].fam, j, NewLine(p))
        PROVE  Survives(fam, k, l)
    <3>1. PICK f, n : f = proc[p].fam /\ n = NewLine(p) OBVIOUS
    <3>2. Wrote(p, f, j, n) BY <2>9, <3>1
    <3>3. /\ f \in Families /\ j \in Keys /\ n \in Line
          /\ files'[f][j] = Append(files[f][j], n)
          /\ \A g \in Families, i \in Keys : g # f \/ i # j => files'[g][i] = files[g][i]
      BY <1>1, <3>2, WroteIs
    <3>4. CASE fam = f /\ k = j
      <4>1. PICK c, a : c = files[f][j] /\ a = Append(c, n) OBVIOUS
      <4>2. c \in Seq(Line) BY <2>1, <3>3, <4>1, PresentIs
      <4>3. PICK i \in DOMAIN c : l = c[i] BY <1>1, <3>4, <4>1 DEF Range
      <4>4. /\ a \in Seq(Line) /\ Len(a) = Len(c) + 1 /\ \A y \in 1..Len(c) : a[y] = c[y]
        BY <3>3, <4>1, <4>2, AppendProperties
      <4>5. DOMAIN c = 1..Len(c) /\ Len(c) \in Nat /\ DOMAIN a = 1..Len(a)
        BY <4>2, <4>4, LenProperties
      <4>6. i \in DOMAIN a /\ a[i] = l BY <4>3, <4>4, <4>5
      <4>7. l \in Range(a) BY <4>6 DEF Range
      <4> QED BY <2>7, <3>3, <3>4, <4>1, <4>7
    <3>5. CASE fam # f \/ k # j BY <1>1, <2>7, <3>3, <3>5
    <3> QED BY <3>4, <3>5
  <2>10. ASSUME NEW p \in Procs, Replace(p) PROVE Survives(fam, k, l)
    <3>1. PICK q, c, d : q = proc[p] /\ c = files[q.fam][q.key] /\ d = q.lines OBVIOUS
    <3>2. q \in State BY <2>1, <3>1, TypeIs
    <3>3. q.fam \in Families /\ q.key \in Keys /\ q.now \in Clock BY <3>2, StateFields
    <3>4. q.at \in {"rewrite", "unlink"} /\ files' = [files EXCEPT ![q.fam][q.key] = q.lines]
      BY <2>1, <2>10, <3>1, ReplaceIs
    <3>5. /\ files'[q.fam][q.key] = d
          /\ \A g \in Families, j \in Keys :
                g # q.fam \/ j # q.key => files'[g][j] = files[g][j]
      <4>1. files'[q.fam][q.key] = q.lines
            /\ \A g \in Families, j \in Keys :
                  g # q.fam \/ j # q.key => files'[g][j] = files[g][j]
        BY <2>1, <3>2, <3>4, ReplacedFiles
      <4> QED BY <3>1, <4>1
    <3>6. CASE fam # q.fam \/ k # q.key BY <1>1, <2>7, <3>5, <3>6
    <3>7. CASE fam = q.fam /\ k = q.key
      <4>1. c \in Seq(Line) /\ l \in Range(c)
        <5>1. c = files[fam][k] BY <3>1, <3>7
        <5> QED BY <1>1, <2>1, <5>1, PresentIs
      <4>2. Knows(q) BY <2>2, <3>1 DEF Alone
      <4>3. CASE q.slot # None
        <5>1. PICK i \in DOMAIN c : d = [c EXCEPT ![i] = Hit(@, q.now)]
          BY <3>1, <3>4, <4>2, <4>3 DEF Knows
        <5>2. PICK e : e = Hit(c[i], q.now) OBVIOUS
        <5>3. d = [c EXCEPT ![i] = e] BY <5>1, <5>2
        <5>4. DOMAIN d = DOMAIN c /\ d[i] = e /\ \A j \in DOMAIN c : j # i => d[j] = c[j]
          BY <3>3, <4>1, <5>1, <5>2, <5>3, HitProperties
        <5>5. PICK j \in DOMAIN c : l = c[j] BY <4>1 DEF Range
        <5>6. d[j] \in Range(d) BY <5>4, <5>5 DEF Range
        <5>7. CASE j = i
          <6>1. e.born = l.born /\ e.hits = l.hits + 1 /\ e.ts >= l.ts
            BY <2>3, <3>3, <5>2, <5>5, <5>7, HitLine
          <6>2. PICK h, y : h = l.hits /\ y = e.hits OBVIOUS
          <6>3. y >= h BY <2>4, <2>5, <6>1, <6>2
          <6>4. e \in Range(files'[fam][k]) BY <3>5, <3>7, <5>4, <5>6, <5>7
          <6> QED BY <6>1, <6>2, <6>3, <6>4
        <5>8. CASE j # i BY <2>7, <3>5, <3>7, <5>4, <5>5, <5>6, <5>8
        <5> QED BY <5>7, <5>8
      <4>4. CASE q.slot = None
        <5>1. d = Kept(c, q.now) BY <3>1, <3>4, <4>2, <4>4 DEF Knows
        <5>2. CASE l.ts + MaxAge >= q.now
          <6>1. l \in Range(d) BY <3>3, <4>1, <5>1, <5>2, KeptProperties
          <6> QED BY <2>7, <3>5, <3>7, <6>1
        <5>3. CASE ~(l.ts + MaxAge >= q.now)
          <6>1. PICK t, n : t = l.ts /\ n = q.now OBVIOUS
          <6>2. t \in 0..MaxClock /\ n \in 0..MaxClock /\ ~(t + MaxAge >= n)
            BY <2>5, <3>3, <5>3, <6>1 DEF Clock
          <6>3. t + MaxAge < n BY ONLY <2>4, <6>2
          <6>4. l.ts + MaxAge < proc[p].now BY <3>1, <6>1, <6>3
          <6> QED BY <6>4
        <5> QED BY <5>2, <5>3
      <4> QED BY <4>3, <4>4
    <3> QED BY <3>6, <3>7
  <2>11. files' # files => \/ \E p \in Procs : Replace(p)
                           \/ \E p \in Procs : \E j : Wrote(p, proc[p].fam, j, NewLine(p))
    BY <1>1, <2>1, WhoWrites
  <2> QED BY <2>8, <2>9, <2>10, <2>11
<1>2. Accounted /\ Sequential /\ [Next]_vars =>
        [~raced' => \A fam \in Families : \A k \in Keys : \A l \in Range(files[fam][k]) :
           \/ \E m \in Range(files'[fam][k]) :
                m.born = l.born /\ m.hits >= l.hits /\ m.ts >= l.ts
           \/ \E p \in Procs : l.ts + MaxAge < proc[p].now]_vars
  BY <1>1
<1> QED BY <1>2, SequenceHolds, PTL DEF Spec, NothingLostEarly

(* A purge that comes to the end of a family leaves no line of it older    *)
(* than the limit by the clock it read: the listing it walked held every   *)
(* file, and each of them was rewritten, removed or found to be fine.      *)
THEOREM PurgesAreThorough == Spec => RetentionHolds
<1>1. ASSUME Accounted, Sequential, [Next]_vars, ~raced', NEW p \in Procs,
             proc[p].at = "purge", proc[p].left = {}, NEW l \in LinesOf(proc[p].fam)
      PROVE  l.ts + MaxAge >= proc[p].now
  <2>1. TypeOK BY <1>1 DEF Accounted
  <2>2. ~raced BY <1>1, <2>1, RacesAreRemembered
  <2>3. PICK q : q = proc[p] OBVIOUS
  <2>4. Knows(q) BY <1>1, <2>2, <2>3 DEF Sequential, Alone
  <2>5. Within(q.fam, {}, q.now) BY <1>1, <2>3, <2>4 DEF Knows
  <2> QED BY <1>1, <2>3, <2>5 DEF Within, LinesOf
<1>2. Accounted /\ Sequential /\ [Next]_vars =>
        [~raced' => \A p \in Procs :
           LET fam == proc[p].fam IN
           /\ proc[p].at = "purge"
           /\ proc[p].left = {}
           => \A l \in LinesOf(fam) : l.ts + MaxAge >= proc[p].now]_vars
  BY <1>1
<1> QED BY <1>2, SequenceHolds, PTL DEF Spec, RetentionHolds

-----------------------------------------------------------------------------
(* Recall.                                                                 *)

(* The order in which the files are read backwards is the order of births. *)
LEMMA LaterIsYounger ==
    ASSUME TypeOK, Births, FilesInOrder, NEW fam \in Families,
           NEW p \in Positions(fam), NEW q \in Positions(fam)
    PROVE  Later(q, p) <=> files[fam][q[1]][q[2]].born > files[fam][p[1]][p[2]].born
<1>1. PICK j, i : j = p[1] /\ i = p[2] OBVIOUS
<1>2. PICK y, n : y = q[1] /\ n = q[2] OBVIOUS
<1>3. j \in Keys /\ i \in DOMAIN files[fam][j] BY <1>1 DEF Positions, Present
<1>4. y \in Keys /\ n \in DOMAIN files[fam][y] BY <1>2 DEF Positions, Present
<1>5. PICK a, b : a = files[fam][j][i].born /\ b = files[fam][y][n].born OBVIOUS
<1>6. \A x \in Keys : \A z \in DOMAIN files[fam][x] :
         /\ files[fam][x][z] \in Range(files[fam][x])
         /\ files[fam][x][z] \in Line /\ x \in Int /\ z \in Int
  <2>1. ASSUME NEW x \in Keys, NEW z \in DOMAIN files[fam][x]
        PROVE  /\ files[fam][x][z] \in Range(files[fam][x])
               /\ files[fam][x][z] \in Line /\ x \in Int /\ z \in Int
    <3>1. files[fam][x][z] \in Range(files[fam][x]) BY DEF Range
    <3>2. files[fam][x][z] \in Copies(fam, x) BY <3>1, FileIsContent
    <3>3. files[fam][x][z] \in Line BY <3>2, CopiesAreLines
    <3>4. MaxCalls \in Nat BY NumbersAre
    <3>5. x \in Int BY <3>4 DEF Keys
    <3>6. files[fam][x] \in Seq(Line) BY PresentIs
    <3>7. z \in 1..Len(files[fam][x]) /\ Len(files[fam][x]) \in Nat BY <3>6, LenProperties
    <3>8. z \in Int BY <3>7
    <3> QED BY <3>1, <3>3, <3>5, <3>8
  <2> QED BY <2>1
<1>7. a \in Int /\ b \in Int
  <2>1. MaxCalls \in Nat BY NumbersAre
  <2>2. a \in 1..MaxCalls /\ b \in 1..MaxCalls BY <1>3, <1>4, <1>5, <1>6, LineFields
  <2> QED BY <2>1, <2>2
<1>8. j \in Int /\ i \in Int /\ y \in Int /\ n \in Int BY <1>3, <1>4, <1>6
<1>9. y > j => b > a
  <2>1. y > j => j < y BY <1>8
  <2>2. j < y => a < b BY <1>3, <1>4, <1>5, <1>6 DEF FilesInOrder
  <2> QED BY <1>7, <2>1, <2>2
<1>10. j > y => a > b
  <2>1. j > y => y < j BY <1>8
  <2>2. y < j => b < a BY <1>3, <1>4, <1>5, <1>6 DEF FilesInOrder
  <2> QED BY <1>7, <2>1, <2>2
<1>11. j = y => (i < n => a < b) /\ (n < i => b < a) /\ (i = n => a = b)
  <2>1. PICK c : c = files[fam][j] OBVIOUS
  <2>2. c \in Contents(fam, j) BY <2>1, FileIsContent
  <2>3. Rising(c) BY <1>3, <2>2 DEF Births
  <2> QED BY <1>3, <1>4, <1>5, <2>1, <2>3 DEF Rising
<1>12. (y > j \/ (y = j /\ n > i)) <=> b > a BY ONLY <1>7, <1>8, <1>9, <1>10, <1>11
<1>13. Later(q, p) <=> (y > j \/ (y = j /\ n > i)) BY <1>1, <1>2 DEF Later
<1> QED BY <1>1, <1>2, <1>5, <1>12, <1>13

BirthsOf(fam) == {l.born : l \in LinesOf(fam)}

BirthAt(fam) == [p \in Positions(fam) |-> files[fam][p[1]][p[2]].born]

(* A family has as many positions as births, and above each as many later  *)
(* positions as younger births.                                            *)
LEMMA PositionsAreBirths ==
    ASSUME TypeOK, Births, FilesInOrder, NEW fam \in Families,
           NEW all, all = Positions(fam),
           NEW births, births = BirthsOf(fam),
           NEW B, B = BirthAt(fam)
    PROVE  /\ births \in SUBSET Int /\ IsFiniteSet(births)
           /\ B \in [all -> births]
           /\ IsFiniteSet(all) /\ Cardinality(all) = Cardinality(births)
           /\ \A b \in births : \E p \in all : B[p] = b
           /\ \A p \in all : Cardinality({q \in all : Later(q, p)})
                                = Cardinality({b \in births : b > B[p]})
<1> USE DEF BirthsOf, BirthAt
<1>1. IsFiniteSet(LinesOf(fam)) /\ \A l \in LinesOf(fam) : l \in Line BY LinesAreFinite
<1>2. MaxCalls \in Nat BY NumbersAre
<1>3. births \in SUBSET (1..MaxCalls)
  <2>1. \A l \in LinesOf(fam) : l.born \in 1..MaxCalls BY <1>1, LineFields
  <2> QED BY <2>1
<1>4. births \in SUBSET Int
  <2>1. 1..MaxCalls \subseteq Int BY <1>2
  <2> QED BY <1>3, <2>1
<1>5. IsFiniteSet(births)
  <2>1. 1 \in Int /\ MaxCalls \in Int BY <1>2
  <2>2. IsFiniteSet(1..MaxCalls) BY ONLY <2>1, FS_Interval
  <2> QED BY <1>3, <2>2, FS_Subset
<1>6. \A p \in all : /\ p[1] \in Keys /\ p[2] \in DOMAIN files[fam][p[1]]
                     /\ p = <<p[1], p[2]>>
  BY DEF Positions, Present
<1>7. ASSUME NEW p \in all PROVE B[p] \in births
  <2>1. files[fam][p[1]][p[2]] \in Range(files[fam][p[1]]) BY <1>6 DEF Range
  <2>2. files[fam][p[1]][p[2]] \in LinesOf(fam) BY <1>6, <2>1 DEF LinesOf
  <2> QED BY <2>2
<1>8. B \in [all -> births] BY <1>7
<1>9. ASSUME NEW p \in all, NEW q \in all, B[p] = B[q] PROVE p = q
  <2>1. PICK j, i : j \in Keys /\ j = p[1] /\ i = p[2] BY <1>6
  <2>2. PICK k, n : k \in Keys /\ k = q[1] /\ n = q[2] BY <1>6
  <2>3. i \in DOMAIN files[fam][j] /\ n \in DOMAIN files[fam][k] BY <1>6, <2>1, <2>2
  <2>4. files[fam][j][i].born = files[fam][k][n].born BY <1>9, <2>1, <2>2
  <2>5. j = k /\ i = n BY <2>1, <2>2, <2>3, <2>4, OnePosition
  <2> QED BY <1>6, <2>1, <2>2, <2>5
<1>10. ASSUME NEW b \in births PROVE \E p \in all : B[p] = b
  <2>1. PICK l \in LinesOf(fam) : b = l.born OBVIOUS
  <2>2. PICK k \in Keys : l \in Range(files[fam][k]) BY <2>1 DEF LinesOf
  <2>3. PICK i \in DOMAIN files[fam][k] : l = files[fam][k][i] BY <2>2 DEF Range
  <2>4. files[fam][k] # <<>>
    <3>1. k \notin Present(fam) => Range(files[fam][k]) = {} BY AbsentIsEmpty
    <3> QED BY <2>2, <3>1 DEF Present
  <2>5. PICK p : p = <<k, i>> OBVIOUS
  <2>6. k \in Present(fam) BY <2>4 DEF Present
  <2>7. p \in all BY <2>3, <2>5, <2>6 DEF Positions
  <2>8. p[1] = k /\ p[2] = i BY <2>5
  <2> QED BY <2>1, <2>3, <2>7, <2>8
<1>11. IsFiniteSet(all) /\ Cardinality(all) = Cardinality(births)
  <2>1. \A p, q \in all : B[p] = B[q] => p = q BY <1>9
  <2>2. \A b \in births : \E p \in all : B[p] = b BY <1>10
  <2> QED BY ONLY <1>5, <1>8, <2>1, <2>2, SameCount
<1>12. ASSUME NEW p \in all
       PROVE  Cardinality({q \in all : Later(q, p)}) = Cardinality({b \in births : b > B[p]})
  <2>1. PICK S, T : S = {q \in all : Later(q, p)} /\ T = {b \in births : b > B[p]} OBVIOUS
  <2>2. \A q \in all : Later(q, p) <=> B[q] > B[p] BY LaterIsYounger
  <2>3. PICK g : g = [q \in S |-> B[q]] OBVIOUS
  <2>4. g \in [S -> T] BY <1>8, <2>1, <2>2, <2>3
  <2>5. \A x, y \in S : g[x] = g[y] => x = y BY <1>9, <2>1, <2>3
  <2>6. ASSUME NEW t \in T PROVE \E x \in S : g[x] = t
    <3>1. t \in births /\ t > B[p] BY <2>1
    <3>2. PICK q \in all : B[q] = t BY <1>10, <3>1
    <3>3. q \in S BY <2>1, <2>2, <3>1, <3>2
    <3> QED BY <2>3, <3>2, <3>3
  <2>7. IsFiniteSet(T)
    <3>1. T \in SUBSET births BY <2>1
    <3> QED BY <1>5, <3>1, FS_Subset
  <2>8. Cardinality(S) = Cardinality(T) BY ONLY <2>4, <2>5, <2>6, <2>7, SameCount
  <2> QED BY <2>1, <2>8
<1> QED BY <1>4, <1>5, <1>8, <1>10, <1>11, <1>12

(* Recall, with the limit asked for or everything there is, returns the    *)
(* lines born last, youngest first: rolling, purging, refused writes and   *)
(* clock changes never let an older line come before a younger one.        *)
THEOREM RecallIsRecent == Spec => []RecallsTheNewest
<1>1. ASSUME Accounted, Sequential, ~raced, NEW fam \in Families,
             NEW births, births = BirthsOf(fam),
             NEW got, got = Recall(fam, Limit)
      PROVE  /\ Len(got) = Min({Limit, Cardinality(births)})
             /\ \A i \in DOMAIN got :
                   /\ got[i].born \in births
                   /\ Cardinality({b \in births : b > got[i].born}) = i - 1
  <2>1. TypeOK /\ Births /\ FilesInOrder BY <1>1 DEF Accounted, Sequential, Alone
  <2>2. PICK all : all = Positions(fam) OBVIOUS
  <2>3. PICK B : B = BirthAt(fam) OBVIOUS
  <2>4. /\ births \in SUBSET Int /\ IsFiniteSet(births)
        /\ B \in [all -> births]
        /\ IsFiniteSet(all) /\ Cardinality(all) = Cardinality(births)
        /\ \A b \in births : \E p \in all : B[p] = b
        /\ \A p \in all : Cardinality({q \in all : Later(q, p)})
                             = Cardinality({b \in births : b > B[p]})
    BY <1>1, <2>1, <2>2, <2>3, PositionsAreBirths
  <2>5. PICK c, m : c = Cardinality(births) /\ m = Min({Limit, c}) OBVIOUS
  <2>6. c \in Nat /\ Limit \in Nat BY <2>4, <2>5, FS_CardinalityType, NumbersAre
  <2>7. m = IF Limit <= c THEN Limit ELSE c BY <2>5, <2>6, MinOfTwo
  <2>8. m \in Nat /\ 1..m \subseteq 1..c BY ONLY <2>6, <2>7
  <2>9. PICK N : N = [n \in 1..m |->
                        CHOOSE p \in all : Cardinality({q \in all : Later(q, p)}) = n - 1]
    OBVIOUS
  <2>10. got = [n \in 1..m |-> files[fam][N[n][1]][N[n][2]]]
    BY <1>1, <2>2, <2>4, <2>5, <2>9 DEF Recall
  <2>11. ASSUME NEW n \in 1..m
         PROVE  N[n] \in all /\ Cardinality({q \in all : Later(q, N[n])}) = n - 1
    <3>1. n \in 1..c BY <2>8
    <3>2. PICK b \in births : Cardinality({d \in births : d > b}) = n - 1
      BY <2>4, <2>5, <3>1, EveryRankFromAbove
    <3>3. PICK p \in all : B[p] = b BY <2>4
    <3>4. Cardinality({q \in all : Later(q, p)}) = n - 1 BY <2>4, <3>2, <3>3
    <3> QED BY <2>9, <3>4
  <2>12. ASSUME NEW n \in 1..m
         PROVE  /\ got[n].born \in births
                /\ Cardinality({b \in births : b > got[n].born}) = n - 1
    <3>1. N[n] \in all BY <2>11
    <3>2. got[n].born = B[N[n]] BY <2>2, <2>3, <2>10, <3>1 DEF BirthAt
    <3>3. Cardinality({b \in births : b > B[N[n]]}) = n - 1 BY <2>4, <2>11, <3>1
    <3> QED BY <2>4, <3>1, <3>2, <3>3
  <2>13. DOMAIN got = 1..m BY <2>10
  <2>14. Len(got) = m
    <3>1. PICK S : S = {got[n] : n \in 1..m} OBVIOUS
    <3>2. got \in [1..m -> S] BY <2>10, <3>1
    <3>3. got \in Seq(S) BY <2>8, <3>2, SeqDef
    <3>4. Len(got) \in Nat /\ DOMAIN got = 1..Len(got) BY <3>3, LenProperties
    <3>5. PICK n : n = Len(got) OBVIOUS
    <3>6. n \in Nat /\ 1..n = 1..m BY <2>13, <3>4, <3>5
    <3>7. n = m BY ONLY <2>8, <3>6
    <3> QED BY <3>5, <3>7
  <2> QED BY <2>5, <2>12, <2>13, <2>14
<1>2. ASSUME Accounted, Sequential PROVE RecallsTheNewest
  <2> SUFFICES ASSUME ~raced, NEW fam \in Families
               PROVE  LET births == {l.born : l \in LinesOf(fam)}
                          got == Recall(fam, Limit)
                      IN  /\ Len(got) = Min({Limit, Cardinality(births)})
                          /\ \A i \in DOMAIN got :
                                /\ got[i].born \in births
                                /\ Cardinality({b \in births : b > got[i].born}) = i - 1
    BY DEF RecallsTheNewest
  <2>1. PICK births, got : births = BirthsOf(fam) /\ got = Recall(fam, Limit) OBVIOUS
  <2>2. /\ Len(got) = Min({Limit, Cardinality(births)})
        /\ \A i \in DOMAIN got :
              /\ got[i].born \in births
              /\ Cardinality({b \in births : b > got[i].born}) = i - 1
    BY <1>1, <1>2, <2>1
  <2> QED BY <2>1, <2>2 DEF BirthsOf
<1> QED BY <1>2, SequenceHolds, PTL
=============================================================================
