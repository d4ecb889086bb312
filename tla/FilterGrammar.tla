---------------------------- MODULE FilterGrammar ----------------------------
(***************************************************************************)
(* The language of filters, without the parser: what the tokens lo .. hi   *)
(* of the input may be read as, an "or" of "and"s of arguments, when T     *)
(* holds the places whose variable is 1 (the others are 0).  The set is    *)
(* empty for what is no filter.  FilterParse's parser is compared with it. *)
(***************************************************************************)
EXTENDS FilterParse, SequencesExt

Holds(k, x, n) ==
    CASE k = "eq" -> x = n  [] k = "neq" -> x # n [] k = "lt" -> x < n
      [] k = "leq" -> x <= n [] k = "gt" -> x > n [] k = "geq" -> x >= n

Value(T, p) == IF p \in T THEN 1 ELSE 0

(* The element lies within the 65535 bytes of a packet, from its start or  *)
(* from its end. *)
Fits(lo, hi, neg) ==
    \A x \in ArrayIndex(lo, hi) :
        IF neg THEN -MaxUint16 <= x /\ x <= -SizeOf[Kind(lo)]
               ELSE x + SizeOf[Kind(lo)] <= MaxUint16

IsVar(lo, hi) ==
    \/ lo = hi /\ Kind(lo) = "var"
    \/ /\ lo < hi /\ Kind(lo) \in Arrays
       /\ ArrayIndex(lo, hi) # {} /\ Fits(lo, hi, Kind(lo + 2) = "minus")

RECURSIVE TestReadings(_, _, _)
TestReadings(T, lo, hi) ==
    IF lo > hi THEN {}
    ELSE IF Kind(lo) = "not" THEN {~v : v \in TestReadings(T, lo + 1, hi)}
    ELSE {v \in {Value(T, lo) = 1} : IsVar(lo, hi)} \cup
         UNION {{Holds(Kind(k), Value(T, lo), IF k = hi - 1 THEN input[hi].val ELSE -input[hi].val)} :
                   k \in {k \in lo + 1 .. hi - 1 :
                             /\ Kind(k) \in Comparisons /\ Kind(hi) = "num"
                             /\ k = hi - 1 \/ (k = hi - 2 /\ Kind(hi - 1) = "minus")
                             /\ IsVar(lo, k - 1)}}

RECURSIVE OrReadings(_, _, _), AndReadings(_, _, _), ArgReadings(_, _, _)
OrReadings(T, lo, hi) ==
    AndReadings(T, lo, hi) \cup
    UNION {{x \/ y : x \in AndReadings(T, lo, k - 1), y \in OrReadings(T, k + 1, hi)} :
              k \in Places("or", lo, hi)}

AndReadings(T, lo, hi) ==
    ArgReadings(T, lo, hi) \cup
    UNION {{x /\ y : x \in ArgReadings(T, lo, k - 1), y \in AndReadings(T, k + 1, hi)} :
              k \in Places("and", lo, hi)}

ArgReadings(T, lo, hi) ==
    TestReadings(T, lo, hi) \cup
    IF lo < hi /\ Kind(lo) = "(" /\ Kind(hi) = ")"
    THEN OrReadings(T, lo + 1, hi - 1) \cup
         UNION {{IF c THEN x ELSE y : c \in OrReadings(T, lo + 1, q - 1),
                                      x \in OrReadings(T, q + 1, k - 1),
                                      y \in OrReadings(T, k + 1, hi - 1)} :
                   <<q, k>> \in Places("?", lo, hi) \X Places(":", lo, hi)}
    ELSE {}

-----------------------------------------------------------------------------
(* The value of an expression: each connective takes its arguments from    *)
(* the values so far, the last one first. *)
Evaluated(T, values, x) ==
    CASE x.op = "test" -> <<Holds(x.kind, Value(T, x.var.at), x.num)>> \o values
      [] x.op = "and"  -> <<values[2] /\ values[1]>> \o SubSeq(values, 3, Len(values))
      [] x.op = "or"   -> <<values[2] \/ values[1]>> \o SubSeq(values, 3, Len(values))
      [] x.op = "if"   -> <<IF values[3] THEN values[2] ELSE values[1]>> \o SubSeq(values, 4, Len(values))

Values(T, code) == FoldLeft(LAMBDA values, x : Evaluated(T, values, x), <<>>, code)

(* The parser accepts the filters and nothing else, and the expression it  *)
(* returns says what the filter says, whatever the variables are: "and"    *)
(* binds tighter than "or" (expr_test.go:171), "not" turns a comparison    *)
(* around.  It never reads past the last token.                            *)
SameLanguage ==
    Parsed /\ result.err # "too deep" =>
        LET n == Len(input) - 1
        IN  /\ result.err # "outside"
            /\ \A T \in SUBSET {k \in 1 .. n : Kind(k) \in Arrays \cup {"var"}} :
                {<<v>> : v \in OrReadings(T, 1, n)} =
                    IF IsError(result) THEN {} ELSE {Values(T, result.code)}
=============================================================================
