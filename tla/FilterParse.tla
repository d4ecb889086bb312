----------------------------- MODULE FilterParse -----------------------------
(***************************************************************************)
(* From the text of a filter to its expression (compile/compile.go         *)
(* CompileFilter up to the parser, compile/token.go TokenizeFilter,        *)
(* compile/expr.go).                                                       *)
(*                                                                         *)
(* A token is its kind, with the value of a number.  Of the kinds that     *)
(* name a variable one is kept, "var"; each place where it is written      *)
(* stands for a variable of its own, known by the position of its token.   *)
(* The array variables are kept with the size of their elements.           *)
(*                                                                         *)
(* An expression is the list of its tests and connectives in postfix       *)
(* order, each connective behind its arguments.                            *)
(***************************************************************************)
EXTENDS Integers, Sequences, FiniteSets

CONSTANTS Words,       \* the tokens a text may be made of
          IsText(_),   \* the texts: which sequences of them are considered
          parseMax,    \* the argument of TokenizeFilter (limit.go)
          maxDepth     \* limit.go

ASSUME WordsAssumption == \A w \in Words : w.kind # "end" /\ w.val \in Nat
ASSUME DepthAssumption == maxDepth \in Nat

VARIABLES input,     \* what TokenizeFilter has found
          result,    \* of ParseFilter
          parsing

parseVars == <<input, result, parsing>>

Word(k) == [kind |-> k, val |-> 0]
Num(n)  == [kind |-> "num", val |-> n]

Arrays  == {"packet", "packet16", "packet32"}
SizeOf  == [packet |-> 1, packet16 |-> 2, packet32 |-> 4]
Comparisons == {"eq", "neq", "lt", "leq", "gt", "geq"}
Negated == [eq |-> "neq", neq |-> "eq", lt |-> "geq", leq |-> "gt", gt |-> "leq", geq |-> "lt"]

MtuMax    == 65575
MaxUint16 == 65535

-----------------------------------------------------------------------------
(* What the parser's functions return: an expression (of a variable, the   *)
(* variable) and the number of tokens that it took, or an error at token   *)
(* i.  "outside": there is no token i; the code panics. *)
Found(code, n) == [err |-> "none", code |-> code, n |-> n]
Failed(e, i)   == [err |-> IF i \in DOMAIN input THEN e ELSE "outside", code |-> <<>>, n |-> 0]
IsError(r)     == r.err # "none"

Kind(i) == IF i \in DOMAIN input THEN input[i].kind ELSE "outside"

Unexpected(i) == Failed("unexpected token", i)

IndexOf(i, index) == [at |-> i, index |-> index]
TestOf(k, v, n)   == [op |-> "test", kind |-> k, var |-> v, num |-> n]
Joint(o)          == [op |-> o]

Vars  == [at : Nat, index : Int]
Nodes == [op : {"test"}, kind : Comparisons, var : Vars, num : Int] \cup [op : {"and", "or", "if"}]

(* Mutant: a number of bytes is scaled, too. *)
ScaleAlways(n, byte, size) == n * size

Scale(n, byte, size) == IF byte THEN n ELSE n * size

(* Array variables, "packet32[-2]" or "packet32[8b]".  size is always 4    *)
(* when it is used; it is set by the kind first. *)
ParseArray(i) ==
    LET neg  == Kind(i + 2) = "minus"
        n    == IF neg THEN i + 3 ELSE i + 2
        byte == Kind(n + 1) = "bytes"
        size == 4
        idx  == Scale(input[n].val, byte, size)
        last == IF byte THEN n + 2 ELSE n + 1
    IN  IF Kind(i + 1) # "[" THEN Unexpected(i + 1)
        ELSE IF Kind(n) # "num" THEN Unexpected(n)
        ELSE IF input[n].val > MtuMax THEN Failed("index out of bounds", n)
        ELSE IF \/ ~neg /\ idx > MaxUint16 - size
                \/ neg /\ (idx > MaxUint16 \/ idx < size)
             THEN Failed("index out of bounds", last)
        ELSE IF Kind(last) # "]" THEN Unexpected(last)
        ELSE Found(<<IndexOf(i, IF neg THEN -idx ELSE idx)>>, last + 1 - i)

ParseVar(i) ==
    IF Kind(i) = "var" THEN Found(<<IndexOf(i, 0)>>, 1)
    ELSE IF Kind(i) \in Arrays THEN ParseArray(i)
    ELSE Unexpected(i)

(* The first token from i on that is no "not". *)
AfterNots(i) ==
    CHOOSE j \in i .. i + Len(input) : Kind(j) # "not" /\ \A h \in i .. j - 1 : Kind(h) = "not"

(* The nots, the variable, and a comparison; without one, "# 0", turned    *)
(* into "= 0" by an odd number of nots. *)
ParseTest(i) ==
    LET start == AfterNots(i)
        not   == (start - i) % 2 = 1
        v     == ParseVar(start)
        o     == start + v.n
        neg   == Kind(o + 1) = "minus"
        n     == IF neg THEN o + 2 ELSE o + 1
    IN  IF IsError(v) THEN v
        ELSE IF o \notin DOMAIN input THEN Unexpected(o)
        ELSE IF Kind(o) \notin Comparisons
             THEN Found(<<TestOf(IF not THEN "eq" ELSE "neq", v.code[1], 0)>>, o - i)
        ELSE IF Kind(n) # "num" THEN Unexpected(n)
        ELSE Found(<<TestOf(IF not THEN Negated[Kind(o)] ELSE Kind(o), v.code[1],
                            IF neg THEN -input[n].val ELSE input[n].val)>>, n + 1 - i)

-----------------------------------------------------------------------------
(* The functions that call each other, at a token and with a depth:        *)
(* ParseFilter without and with its argument and, ParseAndOrArg, and the   *)
(* loop of ParseFilter, which returns what is to be put behind the first   *)
(* argument.  f: what the calls return. *)
Parsers    == {"filter", "ands", "arg", "more"}
ParseCalls == Parsers \X Nat \X Nat
Errors     == {"too deep", "unexpected token", "index out of bounds", "outside"}
Results    == [err : Errors \cup {"none"}, code : Seq(Nodes), n : Nat]

(* Mutant: the argument after an "and" is one level deeper. *)
ParseMoreDeep(f, i, depth) ==
    LET arg  == IF Kind(i) = "and" THEN f[<<"arg", i + 1, depth - 1>>] ELSE f[<<"ands", i + 1, depth>>]
        more == f[<<"more", i + 1 + arg.n, depth>>]
    IN  IF i \notin DOMAIN input THEN Unexpected(i)
        ELSE IF Kind(i) \notin {"and", "or"} THEN Found(<<>>, 0)
        ELSE IF IsError(arg) THEN arg
        ELSE IF IsError(more) THEN more
        ELSE Found(arg.code \o <<Joint(Kind(i))>> \o more.code, 1 + arg.n + more.n)

(* Mutant: an "or" takes one argument, as an "and" does. *)
ParseMoreFlat(f, i, depth) ==
    LET arg  == f[<<"arg", i + 1, depth>>]
        more == f[<<"more", i + 1 + arg.n, depth>>]
    IN  IF i \notin DOMAIN input THEN Unexpected(i)
        ELSE IF Kind(i) \notin {"and", "or"} THEN Found(<<>>, 0)
        ELSE IF IsError(arg) THEN arg
        ELSE IF IsError(more) THEN more
        ELSE Found(arg.code \o <<Joint(Kind(i))>> \o more.code, 1 + arg.n + more.n)

(* The argument after an "or" is parsed with its own "and"s. *)
ParseMore(f, i, depth) ==
    LET arg  == IF Kind(i) = "and" THEN f[<<"arg", i + 1, depth>>] ELSE f[<<"ands", i + 1, depth>>]
        more == f[<<"more", i + 1 + arg.n, depth>>]
    IN  IF i \notin DOMAIN input THEN Unexpected(i)
        ELSE IF Kind(i) \notin {"and", "or"} THEN Found(<<>>, 0)
        ELSE IF IsError(arg) THEN arg
        ELSE IF IsError(more) THEN more
        ELSE Found(arg.code \o <<Joint(Kind(i))>> \o more.code, 1 + arg.n + more.n)

ParseFilter(f, i, depth, and) ==
    LET first == f[<<IF and THEN "arg" ELSE "ands", i, depth - 1>>]
        more  == f[<<"more", i + first.n, depth - 1>>]
    IN  IF depth = 0 THEN Failed("too deep", i)
        ELSE IF IsError(first) THEN first
        ELSE IF IsError(more) THEN more
        ELSE Found(first.code \o more.code, first.n + more.n)

(* "then : else )" of a conditional expression that began at i, from the   *)
(* token k on. *)
ParseElse(f, cond, i, k, depth) ==
    LET yes   == f[<<"filter", k, depth>>]
        colon == k + yes.n
        no    == f[<<"filter", colon + 1, depth>>]
        close == colon + 1 + no.n
    IN  IF IsError(yes) THEN yes
        ELSE IF Kind(colon) # ":" THEN Unexpected(colon)
        ELSE IF IsError(no) THEN no
        ELSE IF Kind(close) # ")" THEN Unexpected(close)
        ELSE Found(cond.code \o yes.code \o no.code \o <<Joint("if")>>, close + 1 - i)

ParseAndOrArg(f, i, depth) ==
    LET inner == f[<<"filter", i + 1, depth - 1>>]
        k     == i + 1 + inner.n
    IN  IF depth = 0 THEN Failed("too deep", i)
        ELSE IF Kind(i) # "(" THEN ParseTest(i)
        ELSE IF IsError(inner) THEN inner
        ELSE IF Kind(k) = ")" THEN Found(inner.code, k + 1 - i)
        ELSE IF Kind(k) = "?" THEN ParseElse(f, inner, i, k + 1, depth - 1)
        ELSE Unexpected(k)

ParseBody(f, parser, i, depth) ==
    CASE parser = "filter" -> ParseFilter(f, i, depth, FALSE)
      [] parser = "ands"   -> ParseFilter(f, i, depth, TRUE)
      [] parser = "arg"    -> ParseAndOrArg(f, i, depth)
      [] parser = "more"   -> ParseMore(f, i, depth)

ParseCall[c \in ParseCalls] == ParseBody(ParseCall, c[1], c[2], c[3])

-----------------------------------------------------------------------------
ParseInit ==
    /\ input = <<>>
    /\ result = Found(<<>>, 0)
    /\ parsing = "tokenize"

(* One turn of TokenizeFilter's loop: too many tokens, the end of the      *)
(* text, a token, or something that is none. *)
TokenizeFilter ==
    /\ parsing = "tokenize"
    /\ \/ /\ Len(input) >= parseMax - 1
          /\ result' = [result EXCEPT !.err = "too long"] /\ parsing' = "done"
          /\ UNCHANGED input
       \/ /\ Len(input) < parseMax - 1
          /\ input' = Append(input, Word("end")) /\ parsing' = "parse"
          /\ UNCHANGED result
       \/ /\ Len(input) < parseMax - 1
          /\ \E w \in Words : IsText(Append(input, w)) /\ input' = Append(input, w)
          /\ UNCHANGED <<result, parsing>>
       \/ /\ Len(input) < parseMax - 1
          /\ result' = [result EXCEPT !.err = "bad token"] /\ parsing' = "done"
          /\ UNCHANGED input

(* ParseFilter; what follows the expression must be the end. *)
Parse ==
    /\ parsing = "parse"
    /\ LET r == ParseCall[<<"filter", 1, maxDepth>>]
       IN  result' = IF ~IsError(r) /\ 1 + r.n \in DOMAIN input /\ Kind(1 + r.n) # "end"
                     THEN Unexpected(1 + r.n) ELSE r
    /\ parsing' = "done"
    /\ UNCHANGED input

ParseNext == TokenizeFilter \/ Parse

ParseSpec == ParseInit /\ [][ParseNext]_parseVars

-----------------------------------------------------------------------------
Places(kind, lo, hi) == {k \in lo .. hi : Kind(k) = kind}

(* The byte the array variable at lo addresses, when hi is its last token. *)
ArrayIndex(lo, hi) ==
    LET sign == IF Kind(lo + 2) = "minus" THEN -1 ELSE 1
        n    == IF Kind(lo + 2) = "minus" THEN lo + 3 ELSE lo + 2
        unit == IF Kind(n + 1) = "bytes" THEN 1 ELSE SizeOf[Kind(lo)]
    IN  IF /\ lo + 3 <= hi /\ Kind(lo + 1) = "[" /\ Kind(hi) = "]" /\ Kind(n) = "num"
           /\ hi = n + (IF Kind(n + 1) = "bytes" THEN 2 ELSE 1)
        THEN {sign * input[n].val * unit} ELSE {}

Parsed == parsing = "done" /\ result.err \notin {"too long", "bad token"}

VarsOf(code) == {code[k].var : k \in {j \in DOMAIN code : code[j].op = "test"}}

(* An array variable with elements of four bytes addresses the element it  *)
(* names: the index counts elements, or bytes (expr.go:194: do not scale   *)
(* by element size).                                                       *)
ElementScaled ==
    Parsed /\ ~IsError(result) =>
        \A v \in VarsOf(result.code) :
            Kind(v.at) = "packet32" =>
                \E hi \in v.at + 3 .. Len(input) : ArrayIndex(v.at, hi) = {v.index}

(* A filter is too deep only for its parentheses and its "or"s, three      *)
(* levels for each "(" and one for each "or": a list of "and"s, however    *)
(* long, is not.                                                           *)
DepthIsEnough ==
    Parsed /\ result.err = "too deep" =>
        LET n == Len(input)
        IN  maxDepth < 3 + 3 * Cardinality(Places("(", 1, n)) + Cardinality(Places("or", 1, n))
=============================================================================
