----------------------------- MODULE Subsequences -----------------------------
(***************************************************************************)
(* Parts of a sequence: its ends, and the elements at some positions, in   *)
(* order, which are what a filter keeps, or a loop that skips what it has  *)
(* seen.  SelectSeq of the standard module says the same of a test on      *)
(* elements, but is defined by recursion, of which the proof system knows  *)
(* nothing.                                                                *)
(***************************************************************************)
EXTENDS Integers, Sequences, FiniteSets, FiniteSetsExt

(* The n-th position is the one with n of them up to it.                   *)
Subsequence(s, positions) ==
    LET Nth(n) == CHOOSE i \in positions : Cardinality({j \in positions : j <= i}) = n
    IN  [n \in 1..Cardinality(positions) |-> s[Nth(n)]]

(* The ends of a sequence: n elements, or all there are.                   *)
FirstOf(s, n) == SubSeq(s, 1, Min({n, Len(s)}))
LastOf(s, n) == SubSeq(s, Len(s) - Min({n, Len(s)}) + 1, Len(s))
=============================================================================
