----------------------------- MODULE TableSearch -----------------------------
(***************************************************************************)
(* The binary search of the filter compiler: TokenLookup in the table of   *)
(* keywords (compile/token.go), makeVar in the table of variables          *)
(* (compile/expr.go).  Both tables are written by hand, in order; a name   *)
(* that is missed is "a bad token" or an "assertion failed".               *)
(*                                                                         *)
(* An entry stands for its rank: the two comparisons, of strings and of    *)
(* kinds, are both total orders.                                           *)
(***************************************************************************)
EXTENDS Integers, Sequences

CONSTANTS Tables,   \* the tables, in ascending order
          Keys      \* what is looked for

ASSUME KeysAssumption == Keys \subseteq Int
ASSUME TablesAssumption ==
    \A t \in Tables : t \in Seq(Int) /\ \A i, j \in 1 .. Len(t) : i < j => t[i] < t[j]

(* makeVar's table, as the numbers of the kinds: the variables of a        *)
(* filter, but for the array variables (token_const.go gives them the      *)
(* numbers in between). *)
From(a, b) == [k \in 1 .. b - a + 1 |-> a + k - 1]
VarTable   == From(0, 37) \o From(41, 53) \o From(57, 63) \o From(67, 87)

VARIABLES table, key,   \* the arguments
          lo, hi,
          found,        \* the index of the entry that is returned, -1: none
          pc

vars == <<table, key, lo, hi, found, pc>>

TypeOK ==
    /\ lo \in 0 .. Len(table) /\ hi \in -1 .. Len(table) - 1
    /\ found \in -1 .. Len(table) - 1
    /\ pc \in {"loop", "done"}

Init ==
    /\ table \in Tables /\ key \in Keys
    /\ lo = 0 /\ hi = Len(table) - 1
    /\ found = -1
    /\ pc = "loop"

(* The code counts from 0. *)
At(i) == table[i + 1]

mid == (lo + hi) \div 2

(* Mutant: the middle stays in the upper half. *)
RightKeepsMiddle ==
    /\ pc = "loop" /\ lo <= hi /\ At(mid) < key
    /\ lo' = mid
    /\ UNCHANGED <<table, key, hi, found, pc>>

Right ==
    /\ pc = "loop" /\ lo <= hi /\ At(mid) < key
    /\ lo' = mid + 1
    /\ UNCHANGED <<table, key, hi, found, pc>>

(* Mutant: the entry before the middle is passed over. *)
LeftSkips ==
    /\ pc = "loop" /\ lo <= hi /\ At(mid) > key
    /\ hi' = mid - 2
    /\ UNCHANGED <<table, key, lo, found, pc>>

Left ==
    /\ pc = "loop" /\ lo <= hi /\ At(mid) > key
    /\ hi' = mid - 1
    /\ UNCHANGED <<table, key, lo, found, pc>>

(* Mutant: the loop ends one turn early, with one entry left. *)
ReturnEarly ==
    /\ pc = "loop"
    /\ \/ lo < hi /\ At(mid) = key /\ found' = mid
       \/ lo >= hi /\ UNCHANGED found
    /\ pc' = "done"
    /\ UNCHANGED <<table, key, lo, hi>>

Return ==
    /\ pc = "loop"
    /\ \/ lo <= hi /\ At(mid) = key /\ found' = mid
       \/ lo > hi /\ UNCHANGED found
    /\ pc' = "done"
    /\ UNCHANGED <<table, key, lo, hi>>

Next == Right \/ Left \/ Return

Spec == Init /\ [][Next]_vars
FairSpec == Spec /\ WF_vars(Next)

-----------------------------------------------------------------------------
(* The search returns the entry that is asked for whenever the table has   *)
(* it, and none otherwise.                                                 *)
SearchIsExact ==
    pc = "done" => IF found = -1 THEN \A i \in 0 .. Len(table) - 1 : At(i) # key
                                 ELSE found \in 0 .. Len(table) - 1 /\ At(found) = key

(* The search ends, whatever is looked for.                                *)
SearchEnds == <>(pc = "done")
=============================================================================
