------------------------------- MODULE AuditLog -------------------------------
(***************************************************************************)
(* The audit files of one directory (packages/permission-policy/src/       *)
(* audit-persister.ts): .autopilot/audit-DAY.jsonl and, when that is full, *)
(* audit-DAY-1.jsonl and so on.  A directory is a function from the names  *)
(* of its files, a day and a suffix (0 for none), to the entries in them.  *)
(* Each call is synchronous and is one step of whoever makes it.           *)
(***************************************************************************)
EXTENDS Integers, Sequences, FiniteSets, FiniteSetsExt

CONSTANT MaxFile    \* MAX_FILE_BYTES, in entries

ASSUME MaxFileAssumption == MaxFile \in Nat \ {0}

NoFiles == [name \in {} |-> <<>>]

(* getAuditFilePath: the first name of the day that is free or has room.   *)
AuditFile(files, day) ==
    LET full(n) == <<day, n>> \in DOMAIN files /\ Len(files[<<day, n>>]) >= MaxFile
    IN  <<day, Min({n \in 0..Cardinality(DOMAIN files) : ~full(n)})>>

(* appendAuditEntry                                                        *)
AppendAuditEntry(files, day, entry) ==
    LET name == AuditFile(files, day)
        old  == IF name \in DOMAIN files THEN files[name] ELSE <<>>
    IN  [n \in DOMAIN files \cup {name} |-> IF n = name THEN Append(old, entry) ELSE files[n]]

(* Fault: names compared as text put a suffixed file before the base of    *)
(* its day.                                                                *)
LexicalKey(name) == name[1] * 1000 + (IF name[2] = 0 THEN 999 ELSE name[2])

(* auditFileRecencyKey: the larger the newer.                              *)
RecencyKey(name) == name[1] * 1000 + name[2]

(* Where the entries are: a file and a place in it.                        *)
Positions(files) == UNION {{name} \X DOMAIN files[name] : name \in DOMAIN files}

Newer(p, q) ==
    \/ RecencyKey(p[1]) > RecencyKey(q[1])
    \/ p[1] = q[1] /\ p[2] > q[2]

(* Files are read from the newest on until they hold enough entries.       *)
ReadFor(files, limit) ==
    {p \in Positions(files) :
        Cardinality({q \in Positions(files) : RecencyKey(q[1]) > RecencyKey(p[1])}) < limit}

(* Of some positions, the one that n of them are newer than.               *)
WithNewer(read, n) == CHOOSE p \in read : Cardinality({q \in read : Newer(q, p)}) = n

(* loadRecentAuditEntries: the last limit entries of what is read, the     *)
(* newest last.                                                            *)
LoadRecent(files, limit) ==
    LET read  == ReadFor(files, limit)
        count == Min({limit, Cardinality(read)})
        at(n) == WithNewer(read, count - n)
    IN  [n \in 1..count |-> files[at(n)[1]][at(n)[2]]]
=============================================================================
