--------------------------- MODULE InstinctStore ---------------------------
(***************************************************************************)
(* The store of packages/instinct: two families of JSONL files under       *)
(* .instinct/ that every gateway process of a workspace reads and writes   *)
(* without a lock.  `files[fam][k]` is the content of rotation k of a      *)
(* family (0 is the base file), <<>> a file that does not exist.  The code *)
(* of one process is synchronous; processes interleave at its system       *)
(* calls, one action each (a listing and the stat that follows it are one  *)
(* step).  The clock may be set to anything between two reads of it, and   *)
(* the platform may refuse any append to an existing file.  Scrubbing,     *)
(* truncation, project ids, rewrite temporaries and files somebody else    *)
(* put there are abstracted away.                                          *)
(***************************************************************************)
EXTENDS Naturals, Sequences, FiniteSets, FiniteSetsExt, Functions, Subsequences

CONSTANTS
    Procs,      \* the gateway processes that share the workspace
    Slots,      \* the distinct instincts: text, hash and scope class
    None,       \* the slot of an observation
    Capacity,   \* lines that fill a file (MAX_FILE_BYTES)
    MaxAge,     \* ticks a line is kept (MAX_AGE_MS)
    MaxClock,   \* bound: the clock
    MaxCalls,   \* bound: observations and recordings, all together
    Limit       \* observations one recall asks for

ASSUME StoreAssumption ==
    /\ None \notin Slots
    /\ IsFiniteSet(Procs) /\ IsFiniteSet(Slots)
    /\ {Capacity, MaxAge, MaxClock, MaxCalls, Limit} \subseteq Nat \ {0}

Families == {"observations", "instincts"}
Keys == 0..(2 * MaxCalls)
Clock == 0..MaxClock
Line == [born : 1..MaxCalls, slot : Slots \cup {None},
         hits : 1..MaxCalls, ts : Clock]

VARIABLES
    files,      \* the two families on disk
    proc,       \* where each process is in its operation
    born,       \* history: lines ever appended
    calls,      \* history: observations (None) and recordings of each slot
    raced       \* history: two processes' operations have overlapped

vars == <<files, proc, born, calls, raced>>

Idle == [at |-> "idle", fam |-> "observations", slot |-> None, now |-> 0,
         left |-> {}, key |-> 0, lines |-> <<>>]

Busy(p) == proc[p].at # "idle"

TypeOK ==
    /\ files \in [Families -> [Keys -> Seq(Line)]]
    /\ proc \in [Procs ->
           [at : {"idle", "scan", "target", "append", "rewrite", "purge", "unlink"},
            fam : Families, slot : Slots \cup {None}, now : Clock,
            left : SUBSET Keys, key : Keys, lines : Seq(Line)]]
    /\ born \in 0..MaxCalls
    /\ calls \in [Slots \cup {None} -> 0..MaxCalls]
    /\ raced \in BOOLEAN

-----------------------------------------------------------------------------
(* The family substrate: membership, recency, write target.                *)

Present(fam) == {k \in Keys : files[fam][k] # <<>>}

\* Fault: the write target probes upward from the base file.
ProbesUpward(fam) == Min({k \in Keys : Len(files[fam][k]) < Capacity})

\* The newest file takes the next line until it is full; then the next
\* rotation does.  A purge that empties or shrinks an older file never draws
\* writes back to it.
WriteTarget(fam) ==
    IF Present(fam) = {} THEN 0
    ELSE LET newest == Max(Present(fam)) IN
         IF Len(files[fam][newest]) < Capacity THEN newest ELSE newest + 1

\* Where the lines of a family are, and which of two is written later: newer
\* files first, and each of them read backwards.
Positions(fam) == UNION {{k} \X DOMAIN files[fam][k] : k \in Present(fam)}

Later(p, q) == p[1] > q[1] \/ (p[1] = q[1] /\ p[2] > q[2])

\* What loadRecentObservations returns: the lines in that order, up to the limit.
Recall(fam, limit) ==
    LET all == Positions(fam)
        Nth(n) == CHOOSE p \in all : Cardinality({q \in all : Later(q, p)}) = n - 1
    IN  [n \in 1..Min({limit, Cardinality(all)}) |-> files[fam][Nth(n)[1]][Nth(n)[2]]]

\* Faults: the hits are counted from nothing, the clock is written as it is.
HitsRestart(line, now) ==
    [line EXCEPT !.hits = 0, !.ts = Max({@, now})]
TimeAsRead(line, now) ==
    [line EXCEPT !.hits = @ + 1, !.ts = now]

\* A recording that finds its slot: one more hit, a timestamp never set back.
Hit(line, now) ==
    [line EXCEPT !.hits = @ + 1, !.ts = Max({@, now})]

Kept(lines, now) == Subsequence(lines, {i \in DOMAIN lines : lines[i].ts + MaxAge >= now})

Matches(lines, s) == {i \in DOMAIN lines : lines[i].slot = s}

-----------------------------------------------------------------------------
Init ==
    /\ files = [fam \in Families |-> [k \in Keys |-> <<>>]]
    /\ proc = [p \in Procs |-> Idle]
    /\ born = 0
    /\ calls = [s \in Slots \cup {None} |-> 0]
    /\ raced = FALSE

Begin(p, state) ==
    /\ ~Busy(p)
    /\ proc' = [proc EXCEPT ![p] = state]
    /\ raced' = (raced \/ \E q \in Procs : Busy(q))

Count(s) ==
    /\ SumFunction(calls) < MaxCalls
    /\ calls' = [calls EXCEPT ![s] = @ + 1]

\* after_tool_call: the observation is stamped, then appended.
Observe(p) ==
    /\ \E now \in Clock : Begin(p, [Idle EXCEPT !.at = "target", !.now = now])
    /\ Count(None)
    /\ UNCHANGED <<files, born>>

\* The instinct_record tool lists the family to look for the slot.
Record(p, s) ==
    /\ \E now \in Clock :
         Begin(p, [Idle EXCEPT !.at = IF Present("instincts") = {} THEN "target" ELSE "scan",
                               !.fam = "instincts", !.slot = s, !.now = now,
                               !.left = Present("instincts")])
    /\ Count(s)
    /\ UNCHANGED <<files, born>>

\* Fault: only the newest file is searched.
NewestOnly(q, k) == [q EXCEPT !.left = {}, !.at = "target"]

\* Where the search goes when file k does not hold the slot.
NotIn(q, k) == [q EXCEPT !.left = @ \ {k},
                         !.at = IF q.left = {k} THEN "target" ELSE "scan"]

\* findInstinctSlot reads one file, newest first.  A file that went away since
\* the listing is skipped.  The first file that holds the slot ends the search.
Scan(p) ==
    /\ proc[p].at = "scan"
    /\ LET k == Max(proc[p].left)
           lines == files["instincts"][k]
           found == Matches(lines, proc[p].slot)
       IN  proc' = [proc EXCEPT ![p] =
             IF found # {}
             THEN [@ EXCEPT !.at = "rewrite", !.key = k, !.left = {},
                            !.lines = [lines EXCEPT ![Min(found)] = Hit(@, proc[p].now)]]
             ELSE NotIn(@, k)]
    /\ UNCHANGED <<files, born, calls, raced>>

Target(p) ==
    /\ proc[p].at = "target"
    /\ proc' = [proc EXCEPT ![p].at = "append", ![p].key = WriteTarget(proc[p].fam)]
    /\ UNCHANGED <<files, born, calls, raced>>

\* The appenders roll once, when the platform refuses the write (EACCES, EPERM,
\* EROFS); a second refusal is counted and the line is given up.
AppendLine(p) ==
    LET q == proc[p]
        line == [born |-> born + 1, slot |-> q.slot, hits |-> 1, ts |-> q.now]
    IN
    /\ q.at = "append"
    /\ \/ \E k \in {q.key, q.key + 1} :
            /\ k = q.key \/ q.key \in Present(q.fam)
            /\ files' = [files EXCEPT ![q.fam][k] = Append(@, line)]
            /\ born' = born + 1
       \/ UNCHANGED <<files, born>>
    /\ proc' = [proc EXCEPT ![p] = Idle]
    /\ UNCHANGED <<calls, raced>>

-----------------------------------------------------------------------------
(* session_start purges the observations, then the instincts.              *)

\* Fault: the file that takes the writes is not purged.
SparesNewest(fam, now) ==
    [Idle EXCEPT !.at = "purge", !.fam = fam, !.now = now,
                 !.left = {k \in Present(fam) : k # Max(Present(fam))}]

Purging(fam, now) ==
    [Idle EXCEPT !.at = "purge", !.fam = fam, !.now = now, !.left = Present(fam)]

Purge(p) ==
    /\ \E now \in Clock : Begin(p, Purging("observations", now))
    /\ UNCHANGED <<files, born, calls>>

\* purgeFile reads one listed file, in the order readdir gives.  Nothing to do
\* when nothing expired (or the file went away since the listing).
PurgeRead(p) ==
    /\ proc[p].at = "purge"
    /\ \E k \in proc[p].left :
         LET lines == files[proc[p].fam][k]
             kept == Kept(lines, proc[p].now)
         IN  proc' = [proc EXCEPT
               ![p].left = @ \ {k},
               ![p].key = IF kept = lines THEN 0 ELSE k,
               ![p].lines = IF kept = lines THEN <<>> ELSE kept,
               ![p].at = IF kept = lines THEN "purge"
                         ELSE IF kept = <<>> THEN "unlink" ELSE "rewrite"]
    /\ UNCHANGED <<files, born, calls, raced>>

PurgeFamilyDone(p) ==
    /\ proc[p].at = "purge"
    /\ proc[p].left = {}
    /\ \E now \in Clock :
         proc' = [proc EXCEPT ![p] = IF proc[p].fam = "observations"
                                     THEN Purging("instincts", now) ELSE Idle]
    /\ UNCHANGED <<files, born, calls, raced>>

\* Fault: a recording that rewrote its line goes on to append one.
FallsThrough(q) ==
    [q EXCEPT !.at = IF q.slot = None THEN "purge" ELSE "target",
              !.key = 0, !.lines = <<>>]

\* A recording is over with its rewrite; a purge goes on with the next file.
Resumed(q) ==
    IF q.slot = None THEN [q EXCEPT !.at = "purge", !.key = 0, !.lines = <<>>] ELSE Idle

\* The rename of a rewrite, or the unlink, puts what the process read earlier
\* in place of what the file holds now.
Replace(p) ==
    LET q == proc[p] IN
    /\ q.at \in {"rewrite", "unlink"}
    /\ files' = [files EXCEPT ![q.fam][q.key] = q.lines]
    /\ proc' = [proc EXCEPT ![p] = Resumed(q)]
    /\ UNCHANGED <<born, calls, raced>>

-----------------------------------------------------------------------------
(* The environment.                                                        *)

\* The process dies between two system calls; it comes back with nothing.
Crash(p) ==
    /\ Busy(p)
    /\ proc' = [proc EXCEPT ![p] = Idle]
    /\ UNCHANGED <<files, born, calls, raced>>

Next ==
    \E p \in Procs :
         \/ Observe(p)
         \/ \E s \in Slots : Record(p, s)
         \/ Scan(p)
         \/ Target(p)
         \/ AppendLine(p)
         \/ Purge(p)
         \/ PurgeRead(p)
         \/ PurgeFamilyDone(p)
         \/ Replace(p)
         \/ Crash(p)

Spec == Init /\ [][Next]_vars

-----------------------------------------------------------------------------
(* Properties.  Those that start with ~raced claim nothing once operations *)
(* of two processes have overlapped: purgeExpired documents the lost       *)
(* update as a known limitation.                                           *)

LinesOf(fam) == UNION {Range(files[fam][k]) : k \in Keys}

\* Recall returns the lines written last, newest first, whatever rolling,
\* purging, permissions and clock changes did to the files (issue 177: a base
\* file that purging emptied took new lines while newer rotations survived).
RecallsTheNewest ==
    ~raced => \A fam \in Families :
        LET births == {l.born : l \in LinesOf(fam)}
            got == Recall(fam, Limit)
        IN  /\ Len(got) = Min({Limit, Cardinality(births)})
            /\ \A i \in DOMAIN got :
                  /\ got[i].born \in births
                  /\ Cardinality({b \in births : b > got[i].born}) = i - 1

\* A slot has one line, although the search that finds it walks several files
\* and a crash can end it anywhere.
OneRecordPerSlot ==
    ~raced => \A l, m \in LinesOf("instincts") : l.slot = m.slot => l = m

\* The hits of a slot, the confidence recall ranks by, never exceed the times
\* it was recorded: no interleaving, crash or resurrected file counts a
\* recording twice.  This holds with races.
HitsNeverInflated ==
    \A s \in Slots :
        SumFunction([l \in {l \in LinesOf("instincts") : l.slot = s} |-> l.hits]) <= calls[s]

\* A line is gone only when it was older than the age limit by the clock its
\* remover read, and until then its hits and its timestamp never go back.
NothingLostEarly ==
    [][~raced' => \A fam \in Families : \A k \in Keys : \A l \in Range(files[fam][k]) :
           \/ \E m \in Range(files'[fam][k]) :
                m.born = l.born /\ m.hits >= l.hits /\ m.ts >= l.ts
           \/ \E p \in Procs : l.ts + MaxAge < proc[p].now]_vars

\* When the purge of a family comes to its end, no file of it holds a line
\* older than the limit.
RetentionHolds ==
    [][~raced' => \A p \in Procs :
           LET fam == proc[p].fam IN
           /\ proc[p].at = "purge"
           /\ proc[p].left = {}
           => \A l \in LinesOf(fam) : l.ts + MaxAge >= proc[p].now]_vars
=============================================================================
