---------------------------- MODULE FilterFlatten ----------------------------
(***************************************************************************)
(* From the expression of a filter to the program the driver runs          *)
(* (compile/compile.go CompileFilter after the parser, compile/flatten.go  *)
(* FlattenExpr, compile/emit.go).                                          *)
(*                                                                         *)
(* FlattenExpr goes through the expression from right to left, so that     *)
(* both targets of a test are known when the test is reached; the tests    *)
(* are labelled in that order, and EmitFilter turns the list around.       *)
(*                                                                         *)
(* Each test is simplified first (FilterSimplify); one that is decided     *)
(* without any header is left out of the program.                          *)
(***************************************************************************)
EXTENDS FilterSimplify

CONSTANTS Exprs,         \* the expressions that may be compiled, and their parts
          Height(_),     \* how deep an expression is nested
          Packets(_),    \* Packets(x): the packets considered for x
          filterMaxLen   \* the limit of the program's length (limit.go)

Accept == 32766   \* types.FilterResultAccept
Reject == 32767   \* types.FilterResultReject

VARIABLES expr,    \* the argument of FlattenExpr
          list,    \* the flattened tests with their targets, in label order
          ipEP,    \* the entry point: a label, Accept, Reject, or -1
          object,  \* the program: what EmitFilter returns
          emitting

emitVars == <<expr, list, ipEP, object, emitting>>

Tests == [var : Variables, kind : Kinds, val : Numerals]

Test(v, k, n) == [op |-> "test", test |-> [var |-> v, kind |-> k, val |-> n]]
And(x, y)     == [op |-> "and", arg |-> <<x, y>>]
Or(x, y)      == [op |-> "or", arg |-> <<x, y>>]
If(c, x, y)   == [op |-> "if", arg |-> <<c, x, y>>]
Parts(x) ==
    CASE x.op = "test"          -> {}
      [] x.op \in {"and", "or"} -> {x.arg[1], x.arg[2]}
      [] x.op = "if"            -> {x.arg[1], x.arg[2], x.arg[3]}

(* An expression is made of expressions that were there before it. *)
ASSUME ExprsAssumption ==
    \A x \in Exprs :
        /\ x.op \in {"test", "and", "or", "if"} /\ Height(x) \in Nat
        /\ x.op = "test" => x.test \in Tests
        /\ \A y \in Parts(x) : y \in Exprs /\ Height(y) < Height(x)

(* The tests that occur in an expression. *)
TestsOf[x \in Exprs] ==
    IF x.op = "test" THEN {x.test} ELSE UNION {TestsOf[y] : y \in Parts(x)}

ASSUME PacketsAssumption ==
    \A x \in Exprs : \A e \in Packets(x), t \in TestsOf[x] : Suits(e, t)

(* A label is neither of the two results. *)
ASSUME MaxLenAssumption == filterMaxLen \in 1 .. Accept - 1

-----------------------------------------------------------------------------
(* FlattenExpr: s holds the tests so far (stack), the next label, and ip,  *)
(* the entry point of the part that was flattened last; -1: too long. *)
TooLong(s) == [s EXCEPT !.stack = <<>>, !.ip = -1]

(* The entry point of a test that was decided. *)
Shortcut(t, succ, fail) == IF t.val.word[1] # 0 THEN succ ELSE fail
IsDecided(t) == t.kind = "eq" /\ t.var = "true"

(* Mutant: one test more than filterMaxLen is let through. *)
FlattenOneMore(t, s, succ, fail) ==
    LET k == SimplifyTest(t)
    IN  CASE IsDecided(k) -> [s EXCEPT !.ip = Shortcut(k, succ, fail)]
          [] ~IsDecided(k) /\ s.label > filterMaxLen -> TooLong(s)
          [] OTHER -> [stack |-> Append(s.stack, [test |-> k, succ |-> succ, fail |-> fail]),
                       label |-> s.label + 1, ip |-> s.label]

FlattenTest(t, s, succ, fail) ==
    LET k == SimplifyTest(t)
    IN  CASE IsDecided(k) -> [s EXCEPT !.ip = Shortcut(k, succ, fail)]
          [] ~IsDecided(k) /\ s.label >= filterMaxLen -> TooLong(s)
          [] OTHER -> [stack |-> Append(s.stack, [test |-> k, succ |-> succ, fail |-> fail]),
                       label |-> s.label + 1, ip |-> s.label]

Labelled     == [test : Tests, succ : Int, fail : Int]
FlattenState == [stack : Seq(Labelled), label : Nat, ip : Int]
Calls        == Exprs \X FlattenState \X Int \X Int

(* The body of FlattenExpr; f: what it makes of the parts. *)
FlattenParts(f, x, s, succ, fail) ==
    IF succ < 0 \/ fail < 0 THEN TooLong(s)
    ELSE CASE x.op = "test" -> FlattenTest(x.test, s, succ, fail)
           [] x.op = "and"  -> LET r == f[<<x.arg[2], s, succ, fail>>]
                               IN  f[<<x.arg[1], r, r.ip, fail>>]
           [] x.op = "or"   -> LET r == f[<<x.arg[2], s, succ, fail>>]
                               IN  f[<<x.arg[1], r, succ, r.ip>>]
           [] x.op = "if"   -> LET no  == f[<<x.arg[3], s, succ, fail>>]
                                   yes == f[<<x.arg[2], no, succ, fail>>]
                               IN  f[<<x.arg[1], yes, yes.ip, no.ip>>]

FlattenExpr[c \in Calls] == FlattenParts(FlattenExpr, c[1], c[2], c[3], c[4])

(* Mutant: the targets stay labels. *)
TargetIsLabel(t, offset) == t

(* EmitTest: labels become positions, counted from the entry point, in     *)
(* sixteen bits. *)
Target(t, offset) == IF t \in {Accept, Reject} THEN t ELSE (offset - t) % 65536

Constant(ip) == [test |-> [var |-> "zero", kind |-> "eq", val |-> Number(0)],
                 succ |-> ip, fail |-> ip]

EmitFilter(l, ip) ==
    IF ip \in {Accept, Reject} THEN <<Constant(ip)>>
    ELSE [k \in 1 .. Len(l) |->
             [l[Len(l) + 1 - k] EXCEPT !.succ = Target(@, ip), !.fail = Target(@, ip)]]

-----------------------------------------------------------------------------
FlattenInit ==
    /\ expr \in Exprs
    /\ list = <<>> /\ ipEP = 0
    /\ object = <<>>
    /\ emitting = "flatten"

Empty == [stack |-> <<>>, label |-> 0, ip |-> 0]

Flatten ==
    /\ emitting = "flatten"
    /\ LET r == FlattenExpr[<<expr, Empty, Accept, Reject>>]
       IN  /\ list' = r.stack /\ ipEP' = r.ip
           /\ emitting' = IF r.ip < 0 THEN "tooLong" ELSE "emit"
    /\ UNCHANGED <<expr, object>>

Emit ==
    /\ emitting = "emit"
    /\ object' = EmitFilter(list, ipEP)
    /\ emitting' = "done"
    /\ UNCHANGED <<expr, list, ipEP>>

FlattenNext == Flatten \/ Emit

FlattenSpec == FlattenInit /\ [][FlattenNext]_emitVars

-----------------------------------------------------------------------------
(* What the filter says of packet e, as its writer reads it. *)
Means(x, e) ==
    LET Holds[y \in Exprs] ==
            \/ y.op = "test" /\ Satisfies(y.test, e)
            \/ y.op = "and" /\ Holds[y.arg[1]] /\ Holds[y.arg[2]]
            \/ y.op = "or" /\ (Holds[y.arg[1]] \/ Holds[y.arg[2]])
            \/ y.op = "if" /\ IF Holds[y.arg[1]] THEN Holds[y.arg[2]] ELSE Holds[y.arg[3]]
    IN  Holds[x]

(* External: the driver runs the program from its first instruction, and   *)
(* refuses a jump that does not go forward inside it.                      *)
NextStep(test, e) == IF Satisfies(test.test, e) THEN test.succ ELSE test.fail
Run(p, e) ==
    LET From[k \in 0 .. Len(p) - 1] ==
            LET t == NextStep(p[k + 1], e)
            IN  IF t = Accept THEN "accept"
                ELSE IF t = Reject THEN "reject"
                ELSE IF k < t /\ t < Len(p) THEN From[t] ELSE "refused"
    IN  From[0]

KeptTests[x \in Exprs] ==
    IF x.op = "test" THEN (IF IsDecided(SimplifyTest(x.test)) THEN 0 ELSE 1)
    ELSE KeptTests[x.arg[1]] + KeptTests[x.arg[2]]
         + (IF x.op = "if" THEN KeptTests[x.arg[3]] ELSE 0)

(* No part of a filter is decided at compile time; the whole of it may be. *)
(* (Otherwise the program may begin with a test that is not the entry      *)
(* point.) *)
NothingDecided ==
    \A x \in Exprs : \A y \in Parts(x) : y.op = "test" => ~IsDecided(SimplifyTest(y.test))

(* The program accepts exactly the packets the filter is true of: the      *)
(* jumps follow "and", "or" and "?", and every test that SimplifyTest has  *)
(* decided or replaced says what it said, for every value its field can    *)
(* hold (compile.go:9: CompileFilter compiles a textual filter into an     *)
(* executable object).                                                     *)
SameMeaning ==
    emitting = "done" => \A e \in Packets(expr) :
        Run(object, e) = IF Means(expr, e) THEN "accept" ELSE "reject"

(* A packet from (or to) the address that the filter names is accepted     *)
(* (compile_test.go:47, "ip.SrcAddr == 1.2.3.4"). *)
AddressTestHolds ==
    emitting = "done" /\ expr.op = "test" => \A v \in {"ip.SrcAddr", "ip.DstAddr"} :
        LET n == expr.test.val.word[4]
        IN  expr = Test(v, "eq", ParseIPv4Address(n)) =>
            Run(object, [headers |-> {"ip"}, field |-> [f \in {v} |-> IPv4(n)]]) = "accept"

(* No jump of the program leads backwards, to itself or out of it, not     *)
(* even one in code that is never reached: the driver refuses the program  *)
(* otherwise.                                                              *)
JumpsForward ==
    emitting = "done" =>
        \A k \in DOMAIN object : \A t \in {object[k].succ, object[k].fail} :
            t \in {Accept, Reject} \/ (k - 1 < t /\ t < Len(object))

(* A filter is refused as too long exactly when it has more than           *)
(* filterMaxLen tests, however they are nested; a program that is emitted  *)
(* holds every one of them once.                                           *)
LengthIsExact ==
    /\ emitting = "tooLong" => KeptTests[expr] > filterMaxLen
    /\ emitting = "done" =>
          /\ KeptTests[expr] <= filterMaxLen
          /\ ipEP \notin {Accept, Reject} => Len(object) = KeptTests[expr]
=============================================================================
