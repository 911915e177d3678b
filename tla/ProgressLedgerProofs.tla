------------------------- MODULE ProgressLedgerProofs -------------------------
(***************************************************************************)
(* Proofs about the progress ledger, for every window, cap, set of files   *)
(* and configuration: the ledger keeps its types and caps, folding loses   *)
(* no turn, the headline claims no file too many, a verified run had its   *)
(* commands succeed, and the patrol pauses only runs that make no          *)
(* progress.  First the helpers on sequences and sets, then the functions  *)
(* of progress-ledger.ts, then one invariant that all of it follows from.  *)
(***************************************************************************)
EXTENDS ProgressLedger, DataLemmas

-----------------------------------------------------------------------------
(* What is deduplicated holds nothing new.                                 *)
LEMMA DedupProperties ==
    ASSUME NEW S, NEW s \in Seq(S)
    PROVE  /\ Dedup(s) \in Seq(S)
           /\ Range(Dedup(s)) \subseteq Range(s)
<1>1. PICK t, P : t = Dedup(s) /\ P = {i \in DOMAIN s : \A j \in 1..(i - 1) : s[j] # s[i]}
  OBVIOUS
<1>2. t = Subsequence(s, P) BY <1>1 DEF Dedup
<1>3. P \in SUBSET (DOMAIN s) BY <1>1
<1>4. t \in Seq(S) /\ \E pos : Picks(t, s, P, pos) BY <1>2, <1>3, SubsequenceProperties
<1>5. Range(t) \subseteq Range(s)
  <2>1. DOMAIN t = 1..Len(t) BY <1>4, LenProperties
  <2> QED BY <1>3, <1>4, <2>1 DEF Picks, Range
<1> QED BY <1>1, <1>4, <1>5

-----------------------------------------------------------------------------
(* A ledger and the history it stands for.                                 *)

Folded == [turns : Nat, files : Seq(Files), last : 0..MaxTotal]

(* The detail is the end of the history; the aggregate has counted the     *)
(* rest, knows a turn no earlier than any of them that counts, and has no  *)
(* file that none of them touched.                                         *)
StandsFor(l, h) ==
    /\ l \in [folded : Folded, entries : Seq(Entry)]
    /\ h \in Seq(Entry)
    /\ l.folded.turns + Len(l.entries) = Len(h)
    /\ \A i \in 1..Len(l.entries) : l.entries[i] = h[l.folded.turns + i]
    /\ \A i \in 1..l.folded.turns : Counts(h[i]) => h[i].turn <= l.folded.last
    /\ \A f \in Range(l.folded.files) : \E i \in 1..l.folded.turns : f \in Range(h[i].files)

(* The caps, whatever is recorded.                                         *)
WithinCaps(l) ==
    /\ Len(l.entries) <= MaxDetail
    /\ Len(l.folded.files) <= MaxSummary
    /\ \A i \in DOMAIN l.entries : Len(l.entries[i].files) <= MaxPerEntry

(* The turns of a history come in order, the last of them no later than    *)
(* the continuations count.                                                *)
InOrder(h, n) ==
    /\ \A i \in 1..Len(h) : h[i].turn <= n
    /\ \A i, j \in 1..Len(h) : i <= j => h[i].turn <= h[j].turn

LedgerInv ==
    /\ TypeOK
    /\ StandsFor(ledger, history)
    /\ InOrder(history, total)

(* What agent_end records is an entry of the ledger's type, within its cap. *)
LEMMA EntryIsBuilt ==
    ASSUME NEW turn \in 0..MaxTotal, NEW files \in Seq(Files),
           NEW status \in Statuses, NEW reason \in Reasons,
           NEW e, e = BuildEntry(turn, files, status, reason)
    PROVE  e \in Entry /\ e.turn = turn /\ Len(e.files) <= MaxPerEntry
<1>1. PICK d : d = Dedup(files) OBVIOUS
<1>2. d \in Seq(Files) BY <1>1, DedupProperties
<1>3. MaxPerEntry \in Nat BY LedgerAssumption
<1>4. PICK f : f = FirstOf(d, MaxPerEntry) OBVIOUS
<1>5. f \in Seq(Files) /\ Len(f) <= MaxPerEntry BY <1>2, <1>3, <1>4, FirstOfProperties
<1>6. e = [turn |-> turn, files |-> f, status |-> status, reason |-> reason]
  BY <1>1, <1>4 DEF BuildEntry
<1> QED BY <1>5, <1>6 DEF Entry

(* An entry joins the detail.                                              *)
LEMMA EntryJoins ==
    ASSUME NEW l, NEW h, NEW e \in Entry, StandsFor(l, h),
           NEW t, t = Append(l.entries, e),
           NEW m, m = [folded |-> l.folded, entries |-> t],
           NEW g, g = Append(h, e)
    PROVE  StandsFor(m, g) /\ m.folded = l.folded /\ m.entries = t
<1>1. /\ l \in [folded : Folded, entries : Seq(Entry)]
      /\ h \in Seq(Entry)
      /\ l.folded.turns + Len(l.entries) = Len(h)
      /\ \A i \in 1..Len(l.entries) : l.entries[i] = h[l.folded.turns + i]
      /\ \A i \in 1..l.folded.turns : Counts(h[i]) => h[i].turn <= l.folded.last
      /\ \A f \in Range(l.folded.files) : \E i \in 1..l.folded.turns : f \in Range(h[i].files)
  BY DEF StandsFor
<1>2. PICK d : d = l.folded OBVIOUS
<1>3. PICK s : s = l.entries OBVIOUS
<1>4. s \in Seq(Entry) /\ d \in Folded /\ d.turns \in Nat BY <1>1, <1>2, <1>3 DEF Folded
<1>5. t = Append(s, e) BY <1>3
<1>6. m = [folded |-> d, entries |-> t] BY <1>1, <1>2
<1>7. /\ t \in Seq(Entry)
      /\ Len(t) = Len(s) + 1
      /\ \A i \in 1..Len(s) : t[i] = s[i]
      /\ t[Len(s) + 1] = e
  BY <1>4, <1>5, AppendProperties
<1>8. /\ g \in Seq(Entry)
      /\ Len(g) = Len(h) + 1
      /\ \A i \in 1..Len(h) : g[i] = h[i]
      /\ g[Len(h) + 1] = e
  BY <1>1, AppendProperties
<1>9. Len(s) \in Nat /\ Len(h) \in Nat /\ d.turns + Len(s) = Len(h)
  BY <1>1, <1>2, <1>3, <1>4, LenProperties
<1>10. PICK k, a, b : k = d.turns /\ a = Len(s) /\ b = Len(h) OBVIOUS
<1>11. k \in Nat /\ a \in Nat /\ b \in Nat /\ k + a = b BY <1>4, <1>9, <1>10
<1>12. Len(t) = a + 1 /\ Len(g) = b + 1 BY <1>7, <1>8, <1>10
<1>13. k + Len(t) = Len(g)
  <2>1. k + (a + 1) = b + 1 BY ONLY <1>11
  <2> QED BY ONLY <1>12, <2>1
<1>14. ASSUME NEW i \in 1..Len(t) PROVE t[i] = g[k + i]
  <2>1. CASE i \in 1..a
    <3>1. k + i \in 1..b BY <1>11, <2>1
    <3>2. s[i] = h[k + i] BY <1>1, <1>2, <1>3, <1>10, <2>1
    <3> QED BY <1>7, <1>8, <1>10, <2>1, <3>1, <3>2
  <2>2. CASE i = a + 1
    <3>1. k + i = b + 1 BY <1>11, <2>2
    <3> QED BY <1>7, <1>8, <1>10, <2>2, <3>1
  <2>3. i \in 1..(a + 1) BY <1>12
  <2>4. i \in 1..a \/ i = a + 1 BY ONLY <1>11, <2>3
  <2> QED BY ONLY <2>1, <2>2, <2>4
<1>15. \A i \in 1..k : i \in 1..b BY <1>11
<1>16. \A i \in 1..k : g[i] = h[i] BY <1>8, <1>10, <1>15
<1>17. \A i \in 1..k : Counts(g[i]) => g[i].turn <= d.last BY <1>1, <1>2, <1>10, <1>16
<1>18. \A f \in Range(d.files) : \E i \in 1..k : f \in Range(g[i].files)
  BY <1>1, <1>2, <1>10, <1>16
<1>19. m.folded = d /\ m.entries = t /\ m \in [folded : Folded, entries : Seq(Entry)]
  <2>1. d \in Folded /\ t \in Seq(Entry) BY ONLY <1>4, <1>7
  <2> QED BY ONLY <1>6, <2>1
<1>20. StandsFor(m, g) BY <1>8, <1>10, <1>13, <1>14, <1>17, <1>18, <1>19 DEF StandsFor
<1> QED BY <1>2, <1>3, <1>5, <1>19, <1>20

(* The oldest entry leaves the detail for the aggregate.                   *)
LEMMA OldestFolds ==
    ASSUME NEW l, NEW h, StandsFor(l, h), l.entries # <<>>,
           NEW m, m = FoldOldest(l)
    PROVE  /\ StandsFor(m, h)
           /\ m.entries = Tail(l.entries)
           /\ Len(m.folded.files) <= MaxSummary
<1>1. /\ l \in [folded : Folded, entries : Seq(Entry)]
      /\ h \in Seq(Entry)
      /\ l.folded.turns + Len(l.entries) = Len(h)
      /\ \A i \in 1..Len(l.entries) : l.entries[i] = h[l.folded.turns + i]
      /\ \A i \in 1..l.folded.turns : Counts(h[i]) => h[i].turn <= l.folded.last
      /\ \A f \in Range(l.folded.files) : \E i \in 1..l.folded.turns : f \in Range(h[i].files)
  BY DEF StandsFor
<1>2. PICK d : d = l.folded OBVIOUS
<1>3. PICK s : s = l.entries OBVIOUS
<1>4. PICK o : o = Head(s) OBVIOUS
<1>5. s \in Seq(Entry) /\ s # <<>> /\ d \in Folded BY <1>1, <1>2, <1>3
<1>6. PICK k, b : k = d.turns /\ b = Len(h) OBVIOUS
<1>7. d.turns \in Nat /\ d.files \in Seq(Files) /\ d.last \in 0..MaxTotal BY <1>5 DEF Folded
<1>8. o \in Entry /\ o = s[1] /\ Len(s) \in Nat /\ Len(s) >= 1
  <2>1. Len(s) \in Nat /\ Len(s) # 0 BY <1>5, LenProperties, EmptySeq
  <2> QED BY <1>4, <1>5, <2>1, ElementOfSeq, HeadTailProperties
<1>9. o.turn \in 0..MaxTotal /\ o.files \in Seq(Files) BY <1>8 DEF Entry
<1>10. k \in Nat /\ b \in Nat /\ k + Len(s) = b
  BY <1>1, <1>2, <1>3, <1>6, <1>7, LenProperties
<1>11. k + 1 \in 1..b BY ONLY <1>8, <1>10
<1>12. o = h[k + 1] BY <1>1, <1>2, <1>3, <1>6, <1>8
<1>13. PICK t : t = Tail(s) OBVIOUS
<1>14. /\ t \in Seq(Entry)
       /\ Len(t) = Len(s) - 1
       /\ \A i \in 1..Len(t) : t[i] = s[i + 1]
  BY <1>5, <1>13, HeadTailProperties
<1>15. MaxTotal \in Nat /\ MaxSummary \in Nat BY LedgerAssumption
<1>16. PICK c : c = IF Counts(o) THEN o.turn ELSE 0 OBVIOUS
<1>17. c \in 0..MaxTotal BY ONLY <1>9, <1>15, <1>16
<1>18. PICK z : z = Max({d.last, c}) OBVIOUS
<1>19. z \in 0..MaxTotal /\ d.last <= z /\ c <= z
  <2>1. d.last \in Int /\ c \in Int BY <1>7, <1>15, <1>17
  <2>2. z = IF d.last >= c THEN d.last ELSE c BY <1>18, <2>1, MaxOfTwo
  <2> QED BY ONLY <1>7, <1>15, <1>17, <2>1, <2>2
<1>20. PICK u : u = d.files \o o.files OBVIOUS
<1>21. u \in Seq(Files) /\ Range(u) = Range(d.files) \cup Range(o.files)
  BY <1>7, <1>9, <1>20, ConcatProperties, RangeConcatenation
<1>22. PICK w : w = LastOf(Dedup(u), MaxSummary) OBVIOUS
<1>23. w \in Seq(Files) /\ Len(w) <= MaxSummary /\ Range(w) \subseteq Range(u)
  <2>1. PICK v : v = Dedup(u) OBVIOUS
  <2>2. v \in Seq(Files) /\ Range(v) \subseteq Range(u) BY <1>21, <2>1, DedupProperties
  <2>3. w = LastOf(v, MaxSummary) BY <1>22, <2>1
  <2>4. /\ w \in Seq(Files)
        /\ Len(w) = IF MaxSummary <= Len(v) THEN MaxSummary ELSE Len(v)
        /\ Range(w) \subseteq Range(v)
    BY <1>15, <2>2, <2>3, LastOfProperties
  <2>5. Len(v) \in Nat BY <2>2, LenProperties
  <2>6. Len(w) <= MaxSummary BY ONLY <1>15, <2>4, <2>5
  <2> QED BY <2>2, <2>4, <2>6
<1>24. PICK x : x = [turns |-> k + 1, files |-> w, last |-> z] OBVIOUS
<1>25. m = [folded |-> x, entries |-> t]
  BY <1>2, <1>3, <1>4, <1>6, <1>13, <1>16, <1>18, <1>20, <1>22, <1>24 DEF FoldOldest
<1>26. x \in Folded /\ x.turns = k + 1 /\ x.files = w /\ x.last = z
  <2>1. k + 1 \in Nat BY <1>10
  <2> QED BY ONLY <1>19, <1>23, <1>24, <2>1 DEF Folded
<1>27. m.folded = x /\ m.entries = t /\ m \in [folded : Folded, entries : Seq(Entry)]
  <2>1. x \in Folded /\ t \in Seq(Entry) BY ONLY <1>14, <1>26
  <2> QED BY ONLY <1>25, <2>1
<1>28. (k + 1) + Len(t) = b BY ONLY <1>8, <1>10, <1>14
<1>29. ASSUME NEW i \in 1..Len(t) PROVE t[i] = h[(k + 1) + i]
  <2>1. i + 1 \in 1..Len(s) BY ONLY <1>8, <1>14, <1>29
  <2>2. s[i + 1] = h[k + (i + 1)] BY <1>1, <1>2, <1>3, <1>6, <2>1
  <2>3. k + (i + 1) = (k + 1) + i BY ONLY <1>8, <1>10, <1>14, <1>29
  <2> QED BY <1>14, <2>2, <2>3
<1>30. ASSUME NEW i \in 1..(k + 1), Counts(h[i]) PROVE h[i].turn <= z
  <2>1. i \in 1..b BY ONLY <1>10, <1>11, <1>30
  <2>2. h[i] \in Entry BY <1>1, <1>6, <2>1, ElementOfSeq
  <2>3. h[i].turn \in Int /\ d.last \in Int /\ z \in Int /\ c \in Int
    BY <1>7, <1>15, <1>17, <1>19, <2>2 DEF Entry
  <2>4. CASE i \in 1..k
    <3>1. h[i].turn <= d.last BY <1>1, <1>2, <1>6, <1>30, <2>4
    <3> QED BY ONLY <1>19, <2>3, <3>1
  <2>5. CASE i = k + 1
    <3>1. h[i] = o /\ c = o.turn BY <1>12, <1>16, <1>30, <2>5
    <3> QED BY ONLY <1>19, <2>3, <3>1
  <2>6. i \in 1..k \/ i = k + 1 BY ONLY <1>10, <1>30
  <2> QED BY ONLY <2>4, <2>5, <2>6
<1>31. ASSUME NEW f \in Range(w) PROVE \E i \in 1..(k + 1) : f \in Range(h[i].files)
  <2>1. f \in Range(d.files) \/ f \in Range(o.files) BY <1>21, <1>23
  <2>2. CASE f \in Range(d.files)
    <3>1. PICK i \in 1..k : f \in Range(h[i].files) BY <1>1, <1>2, <1>6, <2>2
    <3>2. i \in 1..(k + 1) BY ONLY <1>10, <3>1
    <3> QED BY <3>1, <3>2
  <2>3. CASE f \in Range(o.files)
    <3>1. k + 1 \in 1..(k + 1) BY ONLY <1>10
    <3> QED BY <1>12, <2>3, <3>1
  <2> QED BY <2>1, <2>2, <2>3
<1>32. StandsFor(m, h)
  <2>1. h \in Seq(Entry) BY <1>1
  <2>2. m.folded.turns + Len(m.entries) = Len(h) BY <1>6, <1>26, <1>27, <1>28
  <2>3. \A i \in 1..Len(m.entries) : m.entries[i] = h[m.folded.turns + i]
    BY <1>26, <1>27, <1>29
  <2>4. \A i \in 1..m.folded.turns : Counts(h[i]) => h[i].turn <= m.folded.last
    BY <1>26, <1>27, <1>30
  <2>5. \A f \in Range(m.folded.files) : \E i \in 1..m.folded.turns : f \in Range(h[i].files)
    BY <1>26, <1>27, <1>31
  <2> QED BY <1>27, <2>1, <2>2, <2>3, <2>4, <2>5 DEF StandsFor
<1>33. Len(m.folded.files) <= MaxSummary BY <1>23, <1>26, <1>27
<1>34. m.entries = Tail(l.entries) BY <1>3, <1>13, <1>27
<1> QED BY <1>32, <1>33, <1>34

(* Recording a turn keeps what the ledger stands for, within the caps.     *)
LEMMA RecordKeeps ==
    ASSUME NEW l, NEW h, NEW e \in Entry, StandsFor(l, h), WithinCaps(l),
           Len(e.files) <= MaxPerEntry,
           NEW m, m = RecordTurn(l, e), NEW g, g = Append(h, e)
    PROVE  StandsFor(m, g) /\ WithinCaps(m)
<1>a. PICK x : x = Append(l.entries, e) OBVIOUS
<1>1. PICK n : n = [l EXCEPT !.entries = x] OBVIOUS
<1>2. StandsFor(n, g) /\ n.folded = l.folded /\ n.entries = x
  <2>1. l \in [folded : Folded, entries : Seq(Entry)] BY DEF StandsFor
  <2>2. n = [folded |-> l.folded, entries |-> x] BY <1>1, <2>1
  <2> QED BY <1>a, <2>2, EntryJoins
<1>3. PICK s, t : s = l.entries /\ t = n.entries OBVIOUS
<1>4. s \in Seq(Entry) BY <1>3 DEF StandsFor
<1>5. /\ t \in Seq(Entry) /\ t # <<>> /\ Len(t) = Len(s) + 1
      /\ \A i \in 1..Len(s) : t[i] = s[i]
      /\ t[Len(s) + 1] = e
  BY <1>a, <1>2, <1>3, <1>4, AppendProperties
<1>6. Len(s) \in Nat /\ DOMAIN s = 1..Len(s) /\ Len(t) \in Nat /\ DOMAIN t = 1..Len(t)
  BY <1>4, <1>5, LenProperties
<1>7. /\ Len(s) <= MaxDetail
      /\ Len(l.folded.files) <= MaxSummary
      /\ \A i \in DOMAIN s : Len(s[i].files) <= MaxPerEntry
  BY <1>3 DEF WithinCaps
<1>8. MaxDetail \in Nat BY LedgerAssumption
<1>9. ASSUME NEW i \in 1..Len(t) PROVE Len(t[i].files) <= MaxPerEntry
  <2>1. i \in 1..Len(s) \/ i = Len(s) + 1 BY ONLY <1>5, <1>6, <1>9
  <2>2. CASE i \in 1..Len(s) BY <1>5, <1>6, <1>7, <2>2
  <2>3. CASE i = Len(s) + 1 BY <1>5, <2>3
  <2> QED BY <2>1, <2>2, <2>3
<1>10. m = IF Len(n.entries) > MaxDetail THEN FoldOldest(n) ELSE n BY <1>a, <1>1 DEF RecordTurn
<1>11. CASE ~(Len(t) > MaxDetail)
  <2>1. m = n BY <1>3, <1>10, <1>11
  <2>2. Len(t) <= MaxDetail BY ONLY <1>6, <1>8, <1>11
  <2>3. WithinCaps(n) BY <1>2, <1>3, <1>6, <1>7, <1>9, <2>2 DEF WithinCaps
  <2> QED BY <1>2, <2>1, <2>3
<1>12. CASE Len(t) > MaxDetail
  <2>1. m = FoldOldest(n) BY <1>3, <1>10, <1>12
  <2>2. n.entries # <<>> BY <1>3, <1>5
  <2>3. /\ StandsFor(m, g) /\ m.entries = Tail(n.entries)
        /\ Len(m.folded.files) <= MaxSummary
    BY <1>2, <2>1, <2>2, OldestFolds
  <2>4. PICK u : u = Tail(t) OBVIOUS
  <2>5. /\ u \in Seq(Entry) /\ Len(u) = Len(t) - 1
        /\ \A i \in 1..Len(u) : u[i] = t[i + 1]
    BY <1>5, <2>4, HeadTailProperties
  <2>6. DOMAIN u = 1..Len(u) /\ Len(u) \in Nat BY <2>5, LenProperties
  <2>7. Len(u) <= MaxDetail BY ONLY <1>5, <1>6, <1>7, <1>8, <2>5
  <2>8. ASSUME NEW i \in 1..Len(u) PROVE Len(u[i].files) <= MaxPerEntry
    <3>1. i + 1 \in 1..Len(t) BY ONLY <1>6, <2>5, <2>6, <2>8
    <3> QED BY <1>9, <2>5, <3>1
  <2>9. WithinCaps(m) BY <1>3, <2>3, <2>4, <2>6, <2>7, <2>8 DEF WithinCaps
  <2> QED BY <2>3, <2>9
<1> QED BY <1>11, <1>12

(* The last turn that counts, as the ledger has it, is no earlier than any  *)
(* turn of the history that counts, folded or not.                         *)
LEMMA NoProgressIsForgotten ==
    ASSUME NEW l, NEW h, NEW n \in Int, StandsFor(l, h), InOrder(h, n),
           NEW i \in 1..Len(h), Counts(h[i])
    PROVE  LastProgressTurn(l) \in Int /\ h[i].turn <= LastProgressTurn(l)
<1>1. /\ l.folded \in Folded
      /\ l.entries \in Seq(Entry)
      /\ h \in Seq(Entry)
      /\ l.folded.turns + Len(l.entries) = Len(h)
      /\ \A j \in 1..Len(l.entries) : l.entries[j] = h[l.folded.turns + j]
      /\ \A j \in 1..l.folded.turns : Counts(h[j]) => h[j].turn <= l.folded.last
  BY DEF StandsFor
<1>2. PICK s, k, b : s = l.entries /\ k = l.folded.turns /\ b = Len(h) OBVIOUS
<1>3. s \in Seq(Entry) /\ DOMAIN s = 1..Len(s) /\ Len(s) \in Nat
  BY <1>1, <1>2, LenProperties
<1>4. k \in Nat /\ b \in Nat /\ k + Len(s) = b
  <2>1. k \in Nat BY <1>1, <1>2 DEF Folded
  <2>2. b \in Nat BY <1>1, <1>2, LenProperties
  <2> QED BY <1>1, <1>2, <2>1, <2>2
<1>5. \A j \in 1..b : h[j].turn \in Int
  <2>1. \A j \in 1..b : h[j] \in Entry BY <1>1, <1>2, ElementOfSeq
  <2>2. MaxTotal \in Nat BY LedgerAssumption
  <2> QED BY <2>1, <2>2 DEF Entry
<1>6. i \in 1..b BY <1>2
<1>7. i > k => i - k \in 1..Len(s) /\ s[i - k] = h[i]
  <2>1. ASSUME i > k PROVE i - k \in 1..Len(s) /\ k + (i - k) = i BY ONLY <1>3, <1>4, <1>6, <2>1
  <2>2. \A j \in 1..Len(s) : s[j] = h[k + j] BY <1>1, <1>2
  <2> QED BY <2>1, <2>2
<1>8. PICK counted : counted = {j \in DOMAIN s : Counts(s[j])} OBVIOUS
<1>9. LastProgressTurn(l) = IF counted = {} THEN l.folded.last ELSE s[Max(counted)].turn
  BY <1>2, <1>8 DEF LastProgressTurn
<1>10. CASE counted = {}
  <2>1. ~(i > k) BY <1>3, <1>7, <1>8, <1>10
  <2>2. i \in 1..k BY ONLY <1>4, <1>6, <2>1
  <2>3. h[i].turn <= l.folded.last BY <1>1, <1>2, <2>2
  <2>4. l.folded.last \in Int
    <3>1. MaxTotal \in Nat BY LedgerAssumption
    <3> QED BY <1>1, <3>1 DEF Folded
  <2> QED BY <1>9, <1>10, <2>3, <2>4
<1>11. CASE counted # {}
  <2>1. counted \in SUBSET (1..Len(s)) BY <1>3, <1>8
  <2>2. PICK p : p = Max(counted) OBVIOUS
  <2>3. p \in counted /\ \A y \in counted : y <= p
    <3>1. counted \in SUBSET (0..Len(s)) BY <1>3, <2>1
    <3> QED BY <1>3, <1>11, <2>2, <3>1, Greatest
  <2>4. p \in 1..Len(s) /\ s[p] = h[k + p] BY <1>1, <1>2, <2>1, <2>3
  <2>5. k + p \in 1..b BY ONLY <1>3, <1>4, <2>4
  <2>6. i <= k + p
    <3>1. CASE i > k
      <4>1. i - k \in counted BY <1>3, <1>7, <1>8, <3>1
      <4>2. i - k <= p BY <2>3, <4>1
      <4> QED BY ONLY <1>3, <1>4, <1>6, <2>4, <4>2
    <3>2. CASE ~(i > k) BY ONLY <1>3, <1>4, <1>6, <2>4, <3>2
    <3> QED BY <3>1, <3>2
  <2>7. h[i].turn <= h[k + p].turn BY <1>2, <1>6, <2>5, <2>6 DEF InOrder
  <2>8. LastProgressTurn(l) = h[k + p].turn BY <1>9, <1>11, <2>2, <2>4
  <2> QED BY <1>5, <2>5, <2>7, <2>8
<1> QED BY <1>10, <1>11

(* The next turn is recorded with the continuations there are then.        *)
LEMMA NextTurnIsInOrder ==
    ASSUME NEW h \in Seq(Entry), NEW n \in Int, InOrder(h, n),
           NEW e \in Entry, e.turn = n, NEW g, g = Append(h, e)
    PROVE  InOrder(g, n)
<1>1. PICK b : b = Len(h) OBVIOUS
<1>2. b \in Nat BY <1>1, LenProperties
<1>3. Len(g) = b + 1 /\ (\A i \in 1..b : g[i] = h[i]) /\ g[b + 1] = e
  BY <1>1, AppendProperties
<1>4. /\ \A i \in 1..b : h[i].turn <= n
      /\ \A i, j \in 1..b : i <= j => h[i].turn <= h[j].turn
  BY <1>1 DEF InOrder
<1>5. \A i \in 1..Len(g) : i \in 1..b \/ i = b + 1 BY ONLY <1>2, <1>3
<1>6. ASSUME NEW i \in 1..Len(g) PROVE g[i].turn <= n
  <2>1. CASE i \in 1..b BY <1>3, <1>4, <2>1
  <2>2. CASE i = b + 1 BY <1>3, <2>2
  <2> QED BY <1>5, <2>1, <2>2
<1>7. ASSUME NEW i \in 1..Len(g), NEW j \in 1..Len(g), i <= j
      PROVE  g[i].turn <= g[j].turn
  <2>1. CASE j = b + 1
    <3>1. g[j].turn = n BY <1>3, <2>1
    <3> QED BY <1>6, <3>1
  <2>2. CASE j \in 1..b
    <3>1. i \in 1..b BY ONLY <1>2, <1>5, <1>7, <2>2
    <3> QED BY <1>3, <1>4, <1>7, <2>2, <3>1
  <2> QED BY <1>5, <2>1, <2>2
<1> QED BY <1>6, <1>7 DEF InOrder

-----------------------------------------------------------------------------
(* The evidence gate.                                                      *)

(* The verdict is one the ledger knows, and it is "passed" only if there    *)
(* were commands and each required one, or a later one of its id, passed.  *)
LEMMA GateJudges ==
    ASSUME NEW c \in Seq(Command), NEW ends \in [DOMAIN c -> Ends], NEW strict,
           NEW r, r = RunValidationCommands(c, ends),
           NEW v, v = EvaluateEvidence(c, r, 0, strict)
    PROVE  /\ v.status \in Statuses /\ v.reason \in Reasons
           /\ v.status = "passed" =>
                /\ c # <<>>
                /\ \A i \in DOMAIN c : c[i].required =>
                      \E j \in DOMAIN c :
                         j >= i /\ c[j].id = c[i].id /\ r[j].status = "passed"
<1> DEFINE With(required, some) ==
               \E i \in DOMAIN c : /\ c[i].required = required
                                   /\ VerdictOn(c[i], r) \in some
           failing == {"failed", "output_overflow"}
<1>1. CASE c = <<>>
  <2>1. v = Verdict("skipped", "not_configured")
    <3>1. ~(c = <<>> /\ 0 > 0) /\ (c = <<>> /\ 0 = 0) BY <1>1
    <3> QED BY <3>1 DEF EvaluateEvidence
  <2> QED BY <2>1 DEF Verdict, Statuses, Reasons
<1>2. CASE c # <<>>
  <2>1. v = CASE With(TRUE, failing) -> Verdict("failed", "undefined")
              [] ~With(TRUE, failing) /\ With(TRUE, {"skipped", "timeout"}) ->
                   Verdict("skipped", "not_executed")
              [] OTHER -> IF strict /\ With(FALSE, failing)
                          THEN Verdict("failed", "undefined")
                          ELSE Verdict("passed", "undefined")
    BY <1>2 DEF EvaluateEvidence
  <2>2. PICK f \in BOOLEAN : f = With(TRUE, failing) OBVIOUS
  <2>3. PICK n \in BOOLEAN : n = With(TRUE, {"skipped", "timeout"}) OBVIOUS
  <2>4. \/ v = Verdict("failed", "undefined")
        \/ v = Verdict("skipped", "not_executed")
        \/ ~f /\ ~n /\ v = Verdict("passed", "undefined")
    <3> HIDE DEF With
    <3> QED BY <2>1, <2>2, <2>3
  <2>5. v.status \in Statuses /\ v.reason \in Reasons
    BY <2>4 DEF Verdict, Statuses, Reasons
  <2>6. v.status = "passed" => ~With(TRUE, failing) /\ ~With(TRUE, {"skipped", "timeout"})
    <3> HIDE DEF With
    <3>1. v.status = "passed" => ~f /\ ~n BY <2>4 DEF Verdict
    <3> QED BY <2>2, <2>3, <3>1
  <2>7. ASSUME v.status = "passed", NEW i \in DOMAIN c, c[i].required
        PROVE  \E j \in DOMAIN c : j >= i /\ c[j].id = c[i].id /\ r[j].status = "passed"
    <3>1. DOMAIN c = 1..Len(c) /\ Len(c) \in Nat BY LenProperties
    <3>2. r = [j \in DOMAIN c |-> [id |-> c[j].id, status |-> StatusOf(ends[j])]]
      BY DEF RunValidationCommands
    <3>3. PICK mine : mine = {j \in DOMAIN r : r[j].id = c[i].id} OBVIOUS
    <3>4. mine = {j \in 1..Len(c) : c[j].id = c[i].id} BY <3>1, <3>2, <3>3
    <3>5. i \in mine /\ mine \in SUBSET (1..Len(c)) BY <2>7, <3>1, <3>4
    <3>6. PICK j : j = Max(mine) OBVIOUS
    <3>7. j \in mine /\ i <= j
      <4>1. mine \in SUBSET (0..Len(c)) BY <3>1, <3>5
      <4> QED BY <3>1, <3>5, <3>6, <4>1, Greatest
    <3>8. VerdictOn(c[i], r) = r[j].status BY <3>3, <3>5, <3>6 DEF VerdictOn
    <3>9. j \in DOMAIN c /\ c[j].id = c[i].id /\ j >= i BY <3>1, <3>4, <3>5, <3>7
    <3>10. r[j].status = StatusOf(ends[j]) /\ ends[j] \in Ends BY <3>2, <3>9
    <3>11. r[j].status \in {"passed", "failed", "timeout", "output_overflow"}
      BY <3>10 DEF StatusOf, Ends
    <3>12. c[i].required = TRUE
      <4>1. c[i] \in Command BY <2>7, <3>1, ElementOfSeq
      <4>2. c[i].required \in BOOLEAN BY <4>1 DEF Command
      <4> QED BY <2>7, <4>2
    <3>13. r[j].status \notin failing /\ r[j].status \notin {"skipped", "timeout"}
      BY <2>6, <2>7, <3>8, <3>12
    <3>14. r[j].status = "passed" BY <3>11, <3>13
    <3> QED BY <3>9, <3>14
  <2> QED BY <1>2, <2>5, <2>7
<1> QED BY <1>1, <1>2

-----------------------------------------------------------------------------
(* The invariant, one action at a time.                                    *)

(* A run starts with nothing recorded.                                     *)
LEMMA StartsEmpty == Init => LedgerInv
<1> SUFFICES ASSUME Init PROVE LedgerInv OBVIOUS
<1> USE DEF Init
<1>1. MaxTotal \in Nat /\ MaxDetail \in Nat /\ MaxSummary \in Nat BY LedgerAssumption
<1>2. <<>> \in Seq(Entry) /\ <<>> \in Seq(Files) /\ Len(<<>>) = 0 /\ 0 \in 0..MaxTotal
  BY <1>1, EmptySeq
<1>3. PICK d : d = [turns |-> 0, files |-> <<>>, last |-> 0] OBVIOUS
<1>4. d \in Folded /\ d.turns = 0 /\ d.files = <<>> BY <1>2, <1>3 DEF Folded
<1>5. ledger = [folded |-> d, entries |-> <<>>] BY <1>3 DEF EmptyLedger
<1>6. ledger.folded = d /\ ledger.entries = <<>>
      /\ ledger \in [folded : Folded, entries : Seq(Entry)]
  BY <1>2, <1>4, <1>5
<1>7. TypeOK
  <2>1. evidence.status \in Statuses /\ evidence.reason \in Reasons BY DEF Statuses, Reasons
  <2>2. \A i \in DOMAIN ledger.entries : Len(ledger.entries[i].files) <= MaxPerEntry BY <1>6
  <2>3. Len(ledger.entries) <= MaxDetail /\ Len(ledger.folded.files) <= MaxSummary
    <3>1. 0 <= MaxDetail /\ 0 <= MaxSummary BY <1>1
    <3> QED BY <1>2, <1>4, <1>6, <3>1
  <2>4. /\ ledger.folded \in [turns : Nat, files : Seq(Files), last : 0..MaxTotal]
        /\ ledger.entries \in Seq(Entry)
    BY <1>2, <1>4, <1>6 DEF Folded
  <2>5. mode \in {"running", "validation_failed", "evidence_missing", "no_progress", "done"}
        /\ total \in 0..MaxTotal /\ buffer \in Seq(Files) /\ ledgered \in BOOLEAN
        /\ workflow \in Workflows /\ history \in Seq(Entry)
    BY <1>2
  <2> QED BY <2>1, <2>2, <2>3, <2>4, <2>5 DEF TypeOK
<1>8. Range(<<>>) = {} BY DEF Range
<1>9. StandsFor(ledger, history)
  <2>1. 1..0 = {} OBVIOUS
  <2> QED BY <1>2, <1>4, <1>6, <1>8, <2>1 DEF StandsFor
<1>10. InOrder(history, total) BY <1>2 DEF InOrder
<1> QED BY <1>7, <1>9, <1>10 DEF LedgerInv

(* What the invariant says of a state whose ledger did not change.         *)
LEMMA LedgerKept ==
    ASSUME LedgerInv, UNCHANGED <<ledger, history>>, total' = total,
           mode' \in {"running", "validation_failed", "evidence_missing", "no_progress", "done"},
           buffer' \in Seq(Files), workflow' = workflow, ledgered' \in BOOLEAN,
           evidence'.status \in Statuses, evidence'.reason \in Reasons
    PROVE  LedgerInv'
<1>1. TypeOK /\ StandsFor(ledger, history) /\ InOrder(history, total) BY DEF LedgerInv
<1>2. StandsFor(ledger', history') /\ InOrder(history', total') BY <1>1
<1>3. TypeOK'
  <2> USE DEF TypeOK
  <2>1. total' \in 0..MaxTotal /\ workflow' \in Workflows BY <1>1
  <2>2. /\ ledger'.folded \in [turns : Nat, files : Seq(Files), last : 0..MaxTotal]
        /\ ledger'.entries \in Seq(Entry)
        /\ history' \in Seq(Entry)
        /\ Len(ledger'.entries) <= MaxDetail
        /\ Len(ledger'.folded.files) <= MaxSummary
        /\ \A i \in DOMAIN ledger'.entries : Len(ledger'.entries[i].files) <= MaxPerEntry
    BY <1>1
  <2> QED BY <2>1, <2>2
<1> QED BY <1>2, <1>3 DEF LedgerInv

(* The commands that pass the filter are commands.                         *)
LEMMA FilterKeepsCommands ==
    ASSUME NEW commands \in Seq(Command)
    PROVE  FilterValidationCommands(commands) \in Seq(Command)
<1>1. PICK P : P = {i \in DOMAIN commands : Allowed(commands[i])} OBVIOUS
<1>2. P \in SUBSET (DOMAIN commands) BY <1>1
<1>3. PICK t : t = Subsequence(commands, P) OBVIOUS
<1>4. t \in Seq(Command) BY <1>2, <1>3, SubsequenceProperties
<1> QED BY <1>1, <1>3, <1>4 DEF FilterValidationCommands

(* Whatever number a section gives, the turns without progress that pause  *)
(* a run are a natural number.                                             *)
LEMMA NoProgressTurnsAreCounted ==
    ASSUME NEW raw, raw.commands \in Seq(Command), raw.noProgressTurns \in SUBSET Int
    PROVE  /\ ParseAutopilotSection(raw).noProgressTurns \in Nat
           /\ ParseAutopilotSection(raw).commands \in Seq(Command)
<1>1. PICK v : v = Field(raw.noProgressTurns, DefaultWorkflow.noProgressTurns) OBVIOUS
<1>2. DefaultWorkflow.noProgressTurns = 3 BY DEF DefaultWorkflow
<1>3. v \in Int BY <1>1, <1>2 DEF Field
<1>4. AtLeastZero(v) \in Nat
  <2>1. PICK z : z = Max({0, v}) OBVIOUS
  <2>2. z = IF 0 >= v THEN 0 ELSE v BY <1>3, <2>1, MaxOfTwo
  <2>3. z \in Nat BY ONLY <1>3, <2>2
  <2> QED BY <2>1, <2>3 DEF AtLeastZero
<1>5. FilterValidationCommands(raw.commands) \in Seq(Command) BY FilterKeepsCommands
<1>6. /\ ParseAutopilotSection(raw).noProgressTurns = AtLeastZero(v)
      /\ ParseAutopilotSection(raw).commands = FilterValidationCommands(raw.commands)
  BY <1>1 DEF ParseAutopilotSection
<1> QED BY <1>4, <1>5, <1>6

(* The workflow of a run is one an activation makes.                       *)
LEMMA WorkflowIsTyped ==
    ASSUME workflow \in Workflows
    PROVE  workflow.noProgressTurns \in Nat /\ workflow.commands \in Seq(Command)
<1>1. PICK a \in Activations : workflow = ApplyWorkflowConfig(a) BY DEF Workflows
<1>2. PICK paths : paths = SearchPaths(a) OBVIOUS
<1>3. /\ DOMAIN paths \in SUBSET Nat
      /\ \A i \in DOMAIN paths : paths[i] \in {a.workspace, a.base}
  BY <1>2 DEF SearchPaths
<1>4. PICK loaded : loaded = LoadWorkflowConfig(paths) OBVIOUS
<1>5. PICK usable : usable = {i \in DOMAIN paths : paths[i].reads \in {"empty", "section"}}
  OBVIOUS
<1>6. PICK first : first = paths[Min(usable)] OBVIOUS
<1>7. loaded = IF usable = {} \/ first.reads = "empty"
               THEN DefaultWorkflow ELSE ParseAutopilotSection(first.section)
  BY <1>4, <1>5, <1>6 DEF LoadWorkflowConfig
<1>8. \/ loaded = DefaultWorkflow
      \/ \E f \in {a.workspace, a.base} :
            f.reads = "section" /\ loaded = ParseAutopilotSection(f.section)
  <2>1. CASE usable = {} \/ first.reads = "empty" BY <1>7, <2>1
  <2>2. CASE ~(usable = {} \/ first.reads = "empty")
    <3>1. usable \in SUBSET Nat BY <1>3, <1>5
    <3>2. Min(usable) \in usable BY <2>2, <3>1, MinOfSome
    <3>3. first \in {a.workspace, a.base} /\ first.reads = "section"
      BY <1>3, <1>5, <1>6, <2>2, <3>2
    <3> QED BY <1>7, <2>2, <3>3
  <2> QED BY <2>1, <2>2
<1>9. loaded.noProgressTurns \in Nat /\ loaded.commands \in Seq(Command)
  <2>1. CASE loaded = DefaultWorkflow
    <3>1. loaded.noProgressTurns = 3 /\ loaded.commands = <<>> BY <2>1 DEF DefaultWorkflow
    <3> QED BY <3>1, EmptySeq
  <2>2. ASSUME NEW f \in {a.workspace, a.base}, f.reads = "section",
               loaded = ParseAutopilotSection(f.section)
        PROVE  loaded.noProgressTurns \in Nat /\ loaded.commands \in Seq(Command)
    <3>1. PICK raw : raw = f.section OBVIOUS
    <3>2. raw.commands \in Seq(Command) /\ raw.noProgressTurns \in SUBSET Int
      BY <2>2, <3>1, LedgerAssumption
    <3>3. loaded = ParseAutopilotSection(raw) BY <2>2, <3>1
    <3> QED BY <3>2, <3>3, NoProgressTurnsAreCounted
  <2> QED BY <1>8, <2>1, <2>2
<1>10. a.detected \in Seq(Command) BY LedgerAssumption
<1>11. PICK c : c = IF ~a.trusted THEN <<>>
                    ELSE IF loaded.commands = <<>> /\ a.explicit THEN a.detected
                    ELSE loaded.commands
  OBVIOUS
<1>12. c \in Seq(Command) BY <1>9, <1>10, <1>11, EmptySeq
<1>13. workflow = [loaded EXCEPT !.commands = c]
  BY <1>1, <1>2, <1>4, <1>11 DEF ApplyWorkflowConfig
<1>14. "noProgressTurns" \in DOMAIN loaded /\ "commands" \in DOMAIN loaded
  <2>1. CASE loaded = DefaultWorkflow BY <2>1 DEF DefaultWorkflow
  <2>2. ASSUME NEW raw, loaded = ParseAutopilotSection(raw)
        PROVE  "noProgressTurns" \in DOMAIN loaded /\ "commands" \in DOMAIN loaded
    BY <2>2 DEF ParseAutopilotSection
  <2> QED BY <1>8, <2>1, <2>2
<1>15. workflow.noProgressTurns = loaded.noProgressTurns /\ workflow.commands = c
  BY <1>13, <1>14
<1> QED BY <1>9, <1>12, <1>15

(* agent_end records the turn, or finds nothing to record.                 *)
LEMMA AgentEndKeeps == LedgerInv /\ AgentEnd => LedgerInv'
<1> SUFFICES ASSUME LedgerInv, AgentEnd PROVE LedgerInv' OBVIOUS
<1>1. TypeOK /\ StandsFor(ledger, history) /\ InOrder(history, total) BY DEF LedgerInv
<1>2. /\ ledgered' = TRUE /\ buffer' = <<>>
      /\ workflow' = workflow /\ mode' = mode /\ total' = total /\ evidence' = evidence
  BY DEF AgentEnd
<1>3. /\ mode \in {"running", "validation_failed", "evidence_missing", "no_progress", "done"}
      /\ workflow \in Workflows /\ total \in 0..MaxTotal /\ buffer \in Seq(Files)
      /\ evidence.status \in Statuses /\ evidence.reason \in Reasons
  BY <1>1 DEF TypeOK
<1>4. buffer' \in Seq(Files) BY <1>2, EmptySeq
<1>5. CASE buffer = <<>>
  <2>1. UNCHANGED <<ledger, history>> BY <1>5 DEF AgentEnd
  <2> QED BY <1>2, <1>3, <1>4, <2>1, LedgerKept
<1>6. CASE buffer # <<>>
  <2>1. PICK e : e = BuildEntry(total, buffer, evidence.status, "undefined") OBVIOUS
  <2>2. ledger' = RecordTurn(ledger, e) /\ history' = Append(history, e)
    BY <1>6, <2>1 DEF AgentEnd
  <2>3. "undefined" \in Reasons BY DEF Reasons
  <2>4. e \in Entry /\ e.turn = total /\ Len(e.files) <= MaxPerEntry
    BY <1>3, <2>1, <2>3, EntryIsBuilt
  <2>5. WithinCaps(ledger) BY <1>1 DEF TypeOK, WithinCaps
  <2>6. PICK m, g : m = ledger' /\ g = history' OBVIOUS
  <2>7. m = RecordTurn(ledger, e) /\ g = Append(history, e) BY <2>2, <2>6
  <2>8. StandsFor(m, g) /\ WithinCaps(m) BY <1>1, <2>4, <2>5, <2>7, RecordKeeps
  <2>9. history \in Seq(Entry) /\ total \in Int
    <3>1. MaxTotal \in Nat BY LedgerAssumption
    <3> QED BY <1>1, <1>3, <3>1 DEF TypeOK
  <2>10. InOrder(g, total) BY <1>1, <2>4, <2>7, <2>9, NextTurnIsInOrder
  <2>11. TypeOK'
    <3>1. /\ m.folded \in [turns : Nat, files : Seq(Files), last : 0..MaxTotal]
          /\ m.entries \in Seq(Entry)
          /\ g \in Seq(Entry)
      BY <2>8 DEF StandsFor, Folded
    <3>2. /\ Len(m.entries) <= MaxDetail
          /\ Len(m.folded.files) <= MaxSummary
          /\ \A i \in DOMAIN m.entries : Len(m.entries[i].files) <= MaxPerEntry
      BY <2>8 DEF WithinCaps
    <3> QED BY <1>2, <1>3, <1>4, <2>6, <3>1, <3>2 DEF TypeOK
  <2>12. StandsFor(ledger', history') /\ InOrder(history', total') BY <1>2, <2>6, <2>8, <2>10
  <2> QED BY <2>11, <2>12 DEF LedgerInv
<1> QED BY <1>5, <1>6

(* A completion is judged; the ledger stays as it is.                      *)
LEMMA GateKeeps == LedgerInv /\ Gate => LedgerInv'
<1> SUFFICES ASSUME LedgerInv, Gate PROVE LedgerInv' OBVIOUS
<1>1. TypeOK BY DEF LedgerInv
<1>2. /\ workflow' = workflow /\ total' = total /\ buffer' = buffer
      /\ ledgered' = ledgered /\ UNCHANGED <<ledger, history>>
  BY DEF Gate
<1>3. workflow.commands \in Seq(Command) BY <1>1, WorkflowIsTyped DEF TypeOK
<1>4. PICK ends \in [DOMAIN workflow.commands -> Ends] :
        LET results == RunValidationCommands(workflow.commands, ends)
            verdict == EvaluateEvidence(workflow.commands, results, 0, workflow.failOnOptional)
        IN  /\ mode' \in CASE verdict.status = "failed"       -> {"running", "validation_failed"}
                           [] verdict.reason = "not_executed" -> {"evidence_missing"}
                           [] OTHER                           -> {"done"}
            /\ evidence' = [status |-> verdict.status, reason |-> verdict.reason,
                            results |-> IF mode' = "done" THEN results ELSE <<>>]
  BY DEF Gate
<1>5. PICK r : r = RunValidationCommands(workflow.commands, ends) OBVIOUS
<1>6. PICK v : v = EvaluateEvidence(workflow.commands, r, 0, workflow.failOnOptional) OBVIOUS
<1>7. v.status \in Statuses /\ v.reason \in Reasons BY <1>3, <1>5, <1>6, GateJudges
<1>8. /\ mode' \in CASE v.status = "failed"       -> {"running", "validation_failed"}
                     [] v.reason = "not_executed" -> {"evidence_missing"}
                     [] OTHER                     -> {"done"}
      /\ evidence' = [status |-> v.status, reason |-> v.reason,
                      results |-> IF mode' = "done" THEN r ELSE <<>>]
  BY <1>4, <1>5, <1>6
<1>9. evidence'.status \in Statuses /\ evidence'.reason \in Reasons BY <1>7, <1>8
<1>10. mode' \in {"running", "validation_failed", "evidence_missing", "no_progress", "done"}
  BY <1>8
<1>11. buffer \in Seq(Files) /\ ledgered \in BOOLEAN BY <1>1 DEF TypeOK
<1> QED BY <1>2, <1>9, <1>10, <1>11, LedgerKept

(* Every step keeps the invariant.                                         *)
LEMMA StepKeeps == LedgerInv /\ [Next]_vars => LedgerInv'
<1> SUFFICES ASSUME LedgerInv, [Next]_vars PROVE LedgerInv' OBVIOUS
<1>1. TypeOK /\ StandsFor(ledger, history) /\ InOrder(history, total) BY DEF LedgerInv
<1>2. /\ mode \in {"running", "validation_failed", "evidence_missing", "no_progress", "done"}
      /\ workflow \in Workflows /\ total \in 0..MaxTotal /\ buffer \in Seq(Files)
      /\ ledgered \in BOOLEAN /\ evidence.status \in Statuses /\ evidence.reason \in Reasons
  BY <1>1 DEF TypeOK
<1>3. ASSUME NEW f \in Files, ToolCall(f) PROVE LedgerInv'
  <2>1. buffer' \in Seq(Files) BY <1>2, <1>3, AppendProperties DEF ToolCall
  <2>2. UNCHANGED <<workflow, mode, total, evidence, ledgered, ledger, history>>
    BY <1>3 DEF ToolCall
  <2> QED BY <1>2, <2>1, <2>2, LedgerKept
<1>4. CASE Continue
  <2>1. /\ total < MaxTotal /\ total' = total + 1
        /\ UNCHANGED <<workflow, mode, buffer, evidence, ledgered, ledger, history>>
    BY <1>4 DEF Continue
  <2>2. MaxTotal \in Nat BY LedgerAssumption
  <2>3. total' \in 0..MaxTotal BY <1>2, <2>1, <2>2
  <2>4. TypeOK' BY <1>1, <2>1, <2>3 DEF TypeOK
  <2>5. \A i \in 1..Len(history) : history[i].turn \in Int
    <3>1. history \in Seq(Entry) BY <1>1 DEF TypeOK
    <3>2. \A i \in 1..Len(history) : history[i] \in Entry BY <3>1, ElementOfSeq
    <3> QED BY <2>2, <3>2 DEF Entry
  <2>6. \A i \in 1..Len(history) : history[i].turn <= total + 1
    <3>1. \A i \in 1..Len(history) : history[i].turn <= total BY <1>1 DEF InOrder
    <3>2. total \in Int BY <1>2, <2>2
    <3> QED BY <2>5, <3>1, <3>2
  <2>7. InOrder(history', total') BY <1>1, <2>1, <2>6 DEF InOrder
  <2> QED BY <1>1, <2>1, <2>4, <2>7 DEF LedgerInv
<1>5. CASE Gate BY <1>5, GateKeeps
<1>6. CASE AgentEnd BY <1>6, AgentEndKeeps
<1>7. CASE Patrol
  <2>1. mode' = "no_progress" /\ UNCHANGED <<workflow, total, buffer, evidence, ledgered, ledger, history>>
    BY <1>7 DEF Patrol
  <2> QED BY <1>2, <2>1, LedgerKept
<1>8. CASE Resume
  <2>1. mode' = "running" /\ UNCHANGED <<workflow, total, buffer, evidence, ledgered, ledger, history>>
    BY <1>8 DEF Resume
  <2> QED BY <1>2, <2>1, LedgerKept
<1>9. CASE UNCHANGED vars
  <2>1. UNCHANGED <<workflow, mode, total, buffer, evidence, ledgered, ledger, history>>
    BY <1>9 DEF vars
  <2> QED BY <1>2, <2>1, LedgerKept
<1> QED BY <1>3, <1>4, <1>5, <1>6, <1>7, <1>8, <1>9 DEF Next

(* The ledger always stands for the history.                               *)
LEMMA LedgerStands == Spec => []LedgerInv
<1> QED BY StartsEmpty, StepKeeps, PTL DEF Spec

-----------------------------------------------------------------------------
(* The theorems.                                                           *)

(* For every window, cap, set of files and configuration, the state keeps  *)
(* its types and the ledger the caps of progress-ledger.ts, so a checkpoint *)
(* and an injection stay small however long the run is.                    *)
THEOREM LedgerIsTyped == Spec => []TypeOK
<1>1. LedgerInv => TypeOK BY DEF LedgerInv
<1> QED BY <1>1, LedgerStands, PTL

(* For every window, the detail of the ledger is the end of all that was   *)
(* ever recorded and the aggregate counts the rest: foldOldest loses no    *)
(* turn and none is dropped at the cap.                                    *)
THEOREM FoldingLosesNothing == Spec => []FoldingIsLossless
<1>1. ASSUME StandsFor(ledger, history) PROVE FoldingIsLossless
  <2>1. PICK s, h, k : s = ledger.entries /\ h = history /\ k = ledger.folded.turns OBVIOUS
  <2>2. /\ s \in Seq(Entry) /\ h \in Seq(Entry) /\ k \in Nat
        /\ k + Len(s) = Len(h)
        /\ \A i \in 1..Len(s) : s[i] = h[k + i]
    BY <1>1, <2>1 DEF StandsFor, Folded
  <2>3. PICK n, b : n = Len(s) /\ b = Len(h) OBVIOUS
  <2>4. n \in Nat /\ b \in Nat /\ k + n = b BY <2>2, <2>3, LenProperties
  <2>5. PICK t : t = LastOf(h, n) OBVIOUS
  <2>6. /\ t \in Seq(Entry)
        /\ Len(t) = IF n <= b THEN n ELSE b
        /\ \A i \in 1..Len(t) : t[i] = h[b - Len(t) + i]
    <3>1. /\ t \in Seq(Entry)
          /\ Len(t) = IF n <= Len(h) THEN n ELSE Len(h)
          /\ \A i \in 1..Len(t) : t[i] = h[Len(h) - Len(t) + i]
      <4>1. n \in Nat /\ h \in Seq(Entry) BY <2>2, <2>4
      <4> QED BY ONLY <2>5, <4>1, LastOfProperties
    <3> QED BY ONLY <2>3, <3>1
  <2>7. Len(t) = n /\ b - Len(t) = k BY ONLY <2>2, <2>4, <2>6
  <2>8. \A i \in 1..Len(t) : t[i] = h[k + i] BY <2>6, <2>7
  <2>9. \A i \in 1..Len(s) : s[i] = t[i] BY <2>2, <2>3, <2>7, <2>8
  <2>10. s = t BY <2>2, <2>3, <2>6, <2>7, <2>9, SeqEqual
  <2> QED BY <2>1, <2>2, <2>3, <2>5, <2>10 DEF FoldingIsLossless
<1>2. LedgerInv => FoldingIsLossless BY <1>1 DEF LedgerInv
<1> QED BY <1>2, LedgerStands, PTL

(* So are the files of a history.                                          *)
LEMMA TouchedIsFinite ==
    ASSUME NEW h \in Seq(Entry)
    PROVE  IsFiniteSet(UNION {Range(h[i].files) : i \in DOMAIN h})
<1> DEFINE f == [i \in DOMAIN h |-> Range(h[i].files)]
           Sets == {Range(h[i].files) : i \in DOMAIN h}
<1>1. DOMAIN h = 1..Len(h) /\ Len(h) \in Nat BY LenProperties
<1>2. IsFiniteSet(DOMAIN h) BY <1>1, FS_Interval
<1>3. f \in Surjection(DOMAIN h, Sets) BY DEF Surjection
<1>4. IsFiniteSet(Sets)
  <2> HIDE DEF f, Sets
  <2> QED BY <1>2, <1>3, FS_Surjection
<1>5. ASSUME NEW T \in Sets PROVE IsFiniteSet(T)
  <2>1. PICK i \in DOMAIN h : T = Range(h[i].files) OBVIOUS
  <2>2. h[i] \in Entry BY <1>1, <2>1, ElementOfSeq
  <2>3. h[i].files \in Seq(Files) BY <2>2 DEF Entry
  <2> QED BY <2>1, <2>3, RangeIsFinite
<1>6. IsFiniteSet(UNION Sets)
  <2> HIDE DEF Sets
  <2> QED BY <1>4, <1>5, FS_UNION
<1> QED BY <1>6

(* For every cap, the headline of the status call claims no more files     *)
(* than the turns touched: the union of the aggregate and the last turn    *)
(* holds nothing the history does not.                                     *)
THEOREM HeadlineNeverInflates == Spec => []HeadlineIsHonest
<1>1. ASSUME StandsFor(ledger, history) PROVE HeadlineIsHonest
  <2>1. PICK s, h, d : s = ledger.entries /\ h = history /\ d = ledger.folded OBVIOUS
  <2>2. /\ s \in Seq(Entry) /\ h \in Seq(Entry) /\ d.turns \in Nat
        /\ d.turns + Len(s) = Len(h)
        /\ \A i \in 1..Len(s) : s[i] = h[d.turns + i]
        /\ \A f \in Range(d.files) : \E i \in 1..d.turns : f \in Range(h[i].files)
    BY <1>1, <2>1 DEF StandsFor, Folded
  <2>3. PICK k, n, b : k = d.turns /\ n = Len(s) /\ b = Len(h) OBVIOUS
  <2>4. k \in Nat /\ n \in Nat /\ b \in Nat /\ k + n = b BY <2>2, <2>3, LenProperties
  <2>5. DOMAIN h = 1..b BY <2>2, <2>3, LenProperties
  <2>6. PICK all : all = UNION {Range(h[i].files) : i \in DOMAIN h} OBVIOUS
  <2>7. \A i \in 1..b : Range(h[i].files) \subseteq all BY <2>5, <2>6
  <2>8. Range(d.files) \subseteq all
    <3>1. \A i \in 1..k : i \in 1..b BY ONLY <2>4
    <3> QED BY <2>2, <2>3, <2>7, <3>1
  <2>9. PICK t : t = IF s = <<>> THEN {} ELSE Range(Last(s).files) OBVIOUS
  <2>10. t \subseteq all
    <3>1. CASE s = <<>> BY <2>9, <3>1
    <3>2. CASE s # <<>>
      <4>1. n >= 1
        <5>1. Len(s) \in Nat \ {0} BY <2>2, <3>2, EmptySeq
        <5> QED BY <2>3, <5>1
      <4>2. n \in 1..n /\ k + n \in 1..b BY ONLY <2>4, <4>1
      <4>3. Last(s) = h[k + n] BY <2>2, <2>3, <4>2 DEF Last
      <4>4. t = Range(h[k + n].files) BY <2>9, <3>2, <4>3
      <4> QED BY <2>7, <4>2, <4>4
    <3> QED BY <3>1, <3>2
  <2>11. PICK u : u = Range(d.files) \cup t OBVIOUS
  <2>12. u \in SUBSET all BY <2>8, <2>10, <2>11
  <2>13. IsFiniteSet(all) BY <2>2, <2>6, TouchedIsFinite
  <2>14. Cardinality(u) <= Cardinality(all) BY <2>12, <2>13, FS_Subset
  <2>15. HeadlineFiles(ledger) = Cardinality(u) BY <2>1, <2>9, <2>11 DEF HeadlineFiles
  <2> QED BY <2>1, <2>6, <2>14, <2>15 DEF HeadlineIsHonest
<1>2. LedgerInv => HeadlineIsHonest BY <1>1 DEF LedgerInv
<1> QED BY <1>2, LedgerStands, PTL

(* For every configuration, a run done on passed evidence had commands, and *)
(* every required one, or a later one of its id, ended well: the gate lets *)
(* no other run through.                                                   *)
THEOREM VerifiedRunsWereRun == Spec => []VerifiedMeansRun
<1>1. Init => VerifiedMeansRun BY DEF Init, VerifiedMeansRun
<1>2. ASSUME LedgerInv, VerifiedMeansRun, [Next]_vars PROVE VerifiedMeansRun'
  <2>1. CASE Gate
    <3>1. workflow.commands \in Seq(Command) BY <1>2, WorkflowIsTyped DEF LedgerInv, TypeOK
    <3>2. PICK c : c = workflow.commands OBVIOUS
    <3>3. PICK ends \in [DOMAIN c -> Ends] :
            LET results == RunValidationCommands(c, ends)
                verdict == EvaluateEvidence(c, results, 0, workflow.failOnOptional)
            IN  /\ mode' \in CASE verdict.status = "failed"       -> {"running", "validation_failed"}
                               [] verdict.reason = "not_executed" -> {"evidence_missing"}
                               [] OTHER                           -> {"done"}
                /\ evidence' = [status |-> verdict.status, reason |-> verdict.reason,
                                results |-> IF mode' = "done" THEN results ELSE <<>>]
      BY <2>1, <3>2 DEF Gate
    <3>4. PICK r : r = RunValidationCommands(c, ends) OBVIOUS
    <3>5. PICK v : v = EvaluateEvidence(c, r, 0, workflow.failOnOptional) OBVIOUS
    <3>6. evidence' = [status |-> v.status, reason |-> v.reason,
                       results |-> IF mode' = "done" THEN r ELSE <<>>]
      BY <3>3, <3>4, <3>5
    <3>7. v.status = "passed" =>
            /\ c # <<>>
            /\ \A i \in DOMAIN c : c[i].required =>
                  \E j \in DOMAIN c : j >= i /\ c[j].id = c[i].id /\ r[j].status = "passed"
      BY <3>1, <3>2, <3>4, <3>5, GateJudges
    <3>8. workflow' = workflow BY <2>1 DEF Gate
    <3>9. mode' = "done" => evidence'.results = r /\ evidence'.status = v.status BY <3>6
    <3> QED BY <3>2, <3>7, <3>8, <3>9 DEF VerifiedMeansRun
  <2>2. CASE mode' # "done" BY <2>2 DEF VerifiedMeansRun
  <2>3. CASE mode' = mode /\ evidence' = evidence /\ workflow' = workflow
    BY <1>2, <2>3 DEF VerifiedMeansRun
  <2>4. Gate \/ mode' # "done" \/ (mode' = mode /\ evidence' = evidence /\ workflow' = workflow)
    BY <1>2 DEF Next, vars, ToolCall, Continue, AgentEnd, Patrol, Resume
  <2> QED BY <2>1, <2>2, <2>3, <2>4
<1> QED BY <1>1, <1>2, LedgerStands, PTL DEF Spec

(* For every window and configuration, the patrol pauses a run for lack of *)
(* progress only when no turn it ever recorded and that counts is within   *)
(* the last noProgressTurns continuations: folding forgets no progress.    *)
THEOREM PausesAreDeserved == Spec => PauseIsDeserved
<1>1. ASSUME LedgerInv, [Next]_vars, mode # "no_progress", mode' = "no_progress",
             NEW i \in DOMAIN history, Counts(history[i])
      PROVE  history[i].turn + workflow.noProgressTurns <= total
  <2>1. TypeOK /\ StandsFor(ledger, history) /\ InOrder(history, total) BY <1>1 DEF LedgerInv
  <2>2. CASE Patrol
    <3>1. total - LastProgressTurn(ledger) >= workflow.noProgressTurns
      BY <2>2 DEF Patrol, NoProgress
    <3>2. history \in Seq(Entry) /\ total \in Int /\ workflow.noProgressTurns \in Nat
      <4>1. MaxTotal \in Nat BY LedgerAssumption
      <4> QED BY <2>1, <4>1, WorkflowIsTyped DEF TypeOK
    <3>3. i \in 1..Len(history) BY <1>1, <3>2, LenProperties
    <3>4. history[i] \in Entry BY <3>2, <3>3, ElementOfSeq
    <3>5. history[i].turn \in Int
      <4>1. MaxTotal \in Nat BY LedgerAssumption
      <4> QED BY <3>4, <4>1 DEF Entry
    <3>6. LastProgressTurn(ledger) \in Int /\ history[i].turn <= LastProgressTurn(ledger)
      BY <1>1, <2>1, <3>2, <3>3, NoProgressIsForgotten
    <3>7. PICK t, p, w : t = history[i].turn /\ p = LastProgressTurn(ledger)
                         /\ w = workflow.noProgressTurns
      OBVIOUS
    <3>8. t \in Int /\ p \in Int /\ w \in Nat /\ t <= p /\ total \in Int /\ total - p >= w
      BY <3>1, <3>2, <3>5, <3>6, <3>7
    <3>9. t + w <= total BY ONLY <3>8
    <3> QED BY <3>7, <3>9
  <2>3. CASE ~Patrol
    <3>1. ~Gate
      <4>1. ASSUME Gate PROVE FALSE
        <5>1. PICK verdict : mode' \in CASE verdict.status = "failed" -> {"running", "validation_failed"}
                                   [] verdict.reason = "not_executed"  -> {"evidence_missing"}
                                   [] OTHER                            -> {"done"}
          BY <4>1 DEF Gate
        <5>2. mode' # "no_progress" BY <5>1
        <5> QED BY <1>1, <5>2
      <4> QED BY <4>1
    <3> QED BY <1>1, <2>3, <3>1 DEF Next, vars, ToolCall, Continue, AgentEnd, Resume
  <2> QED BY <2>2, <2>3
<1>2. LedgerInv /\ [Next]_vars =>
        [mode # "no_progress" /\ mode' = "no_progress" =>
           \A i \in DOMAIN history :
             Counts(history[i]) => history[i].turn + workflow.noProgressTurns <= total]_vars
  BY <1>1
<1> QED BY <1>2, LedgerStands, PTL DEF Spec, PauseIsDeserved
=============================================================================
