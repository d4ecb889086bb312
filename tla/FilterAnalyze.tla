---------------------------- MODULE FilterAnalyze ----------------------------
(***************************************************************************)
(* The analysis of a compiled filter (compile/analyze.go): which flags the *)
(* driver is given at startup.  A flag that is missing tells the driver    *)
(* not to look at a whole class of packets or events, so AnalyzeFilter may *)
(* set too many flags but never too few.                                   *)
(*                                                                         *)
(* A program is what EmitFilter makes: tests with two jumps each.          *)
(* condExecFilter goes through it backwards and asks, for one field fixed  *)
(* to one value, whether the program may accept; AnalyzeFilter asks this   *)
(* for the fields behind each flag, one question after the other.          *)
(***************************************************************************)
EXTENDS Integers, Sequences

CONSTANTS Programs,   \* the filter objects that may be analysed
          Packets,    \* what the driver may see: a value for each field
          Layers      \* the layers that may be opened

Accept == 32766   \* types.FilterResultAccept
Reject == 32767   \* types.FilterResultReject

(* The fields the analysis asks about; "other" stands for the rest. *)
Fields == {"zero", "inbound", "outbound", "ip", "ipv6", "event", "other"}
Tests  == {"eq", "neq", "lt", "leq", "gt", "geq", "unknown"}

(* types.Filter; wide: neg is set, or one of the three high words of arg. *)
Instructions == [field : Fields, test : Tests, arg : Nat, wide : BOOLEAN,
                 succ : Nat, fail : Nat]
Positions(p) == 0 .. p.length - 1

ASSUME ProgramsAssumption ==
    \A p \in Programs : p.length \in Nat /\ p.code \in [Positions(p) -> Instructions]
ASSUME PacketsAssumption ==
    \A e \in Packets : e \in [Fields -> Nat] /\ e["zero"] = 0
ASSUME LayersAssumption ==
    Layers \subseteq {"network", "forward", "flow", "socket", "reflect"}

VARIABLES program, layer,   \* the arguments of AnalyzeFilter
          check,            \* the flag that is being decided
          need,             \* ... and which of its questions
          ip, result,       \* condExecFilter's loop
          flags,
          pc

vars == <<program, layer, check, need, ip, result, flags, pc>>

-----------------------------------------------------------------------------
Question(f, v) == [field |-> f, value |-> v]

(* Mutant: two events change places. *)
NeedsSwapped(flag) ==
    CASE flag = "any"      -> <<Question("zero", 0)>>
      [] flag = "inbound"  -> <<Question("inbound", 1), Question("outbound", 0)>>
      [] flag = "outbound" -> <<Question("outbound", 1), Question("inbound", 0)>>
      [] flag = "ip"       -> <<Question("ip", 1), Question("ipv6", 0)>>
      [] flag = "ipv6"     -> <<Question("ipv6", 1), Question("ip", 0)>>
      [] flag = "flowDeleted"   -> <<Question("event", 2)>>
      [] flag = "socketBind"    -> <<Question("event", 3)>>
      [] flag = "socketConnect" -> <<Question("event", 5)>>
      [] flag = "socketListen"  -> <<Question("event", 4)>>
      [] flag = "socketAccept"  -> <<Question("event", 6)>>
      [] flag = "socketClose"   -> <<Question("event", 7)>>

(* The calls of condExecFilter behind each flag; "any" is the first one,   *)
(* which sets no flag but ends the analysis. *)
Needs(flag) ==
    CASE flag = "any"      -> <<Question("zero", 0)>>
      [] flag = "inbound"  -> <<Question("inbound", 1), Question("outbound", 0)>>
      [] flag = "outbound" -> <<Question("outbound", 1), Question("inbound", 0)>>
      [] flag = "ip"       -> <<Question("ip", 1), Question("ipv6", 0)>>
      [] flag = "ipv6"     -> <<Question("ipv6", 1), Question("ip", 0)>>
      [] flag = "flowDeleted"   -> <<Question("event", 2)>>
      [] flag = "socketBind"    -> <<Question("event", 3)>>
      [] flag = "socketConnect" -> <<Question("event", 4)>>
      [] flag = "socketListen"  -> <<Question("event", 5)>>
      [] flag = "socketAccept"  -> <<Question("event", 6)>>
      [] flag = "socketClose"   -> <<Question("event", 7)>>

(* The flags of each layer in the order AnalyzeFilter decides them. *)
Checks(l) ==
    CASE l \in {"network", "forward"} -> <<"any", "inbound", "outbound", "ip", "ipv6">>
      [] l = "flow"    -> <<"any", "ip", "ipv6", "flowDeleted">>
      [] l = "socket"  -> <<"any", "ip", "ipv6", "socketBind", "socketConnect",
                            "socketClose", "socketListen", "socketAccept">>
      [] l = "reflect" -> <<"any">>

Flag     == Checks(layer)[check]
Asked    == Needs(Flag)[need]

Holds(v, test, arg) ==
    CASE test = "eq"  -> v = arg
      [] test = "neq" -> v # arg
      [] test = "lt"  -> v < arg
      [] test = "leq" -> v <= arg
      [] test = "gt"  -> v > arg
      [] test = "geq" -> v >= arg
      [] OTHER -> FALSE

(* A test whose result follows from the low word of its argument. *)
Definite(f) == ~f.wide /\ f.test # "unknown"

-----------------------------------------------------------------------------
Restart == /\ ip' = program.length - 1
           /\ result' = [k \in Positions(program) |-> FALSE]

Init ==
    /\ program \in Programs /\ layer \in Layers
    /\ check = 1 /\ need = 1
    /\ ip = program.length - 1
    /\ result = [k \in Positions(program) |-> FALSE]
    /\ flags = {}
    /\ pc = "analyze"

(* Mutant: a jump that leaves the program counts as rejecting. *)
JumpAwayRejects(t) ==
    CASE t = Accept -> TRUE
      [] t \notin {Accept, Reject} /\ ip < t /\ t < program.length -> result[t]
      [] OTHER -> FALSE

(* What the loop thinks of a jump: one that does not go forward to an      *)
(* instruction of the program counts as accepting. *)
Jump(t) ==
    CASE t = Accept -> TRUE
      [] t = Reject -> FALSE
      [] t \notin {Accept, Reject} /\ ip < t /\ t < program.length -> result[t]
      [] OTHER -> TRUE

(* condExecFilter: one turn of the loop. *)
ExecInstruction ==
    /\ pc = "analyze" /\ ip >= 0
    /\ LET f == program.code[ip]
           s == Jump(f.succ)
           n == Jump(f.fail)
       IN  result' = [result EXCEPT ![ip] =
               IF s = n THEN s
               ELSE IF f.field = Asked.field /\ Definite(f)
                    THEN IF Holds(Asked.value, f.test, f.arg) THEN s ELSE n
                    ELSE TRUE]
    /\ ip' = ip - 1
    /\ UNCHANGED <<program, layer, check, need, flags, pc>>

(* condExecFilter returns; an empty filter accepts. *)
Answer == IF program.length = 0 THEN TRUE ELSE result[0]

NextQuestion ==
    /\ pc = "analyze" /\ ip = -1
    /\ Answer /\ need < Len(Needs(Flag))
    /\ need' = need + 1
    /\ Restart
    /\ UNCHANGED <<program, layer, check, flags, pc>>

(* Mutant: the next flag starts with the question the last one ended with. *)
DecideWithoutReset ==
    /\ pc = "analyze" /\ ip = -1
    /\ ~Answer \/ need = Len(Needs(Flag))
    /\ flags' = IF Answer /\ Flag # "any" THEN flags \cup {Flag} ELSE flags
    /\ IF check = Len(Checks(layer)) \/ (Flag = "any" /\ ~Answer)
       THEN pc' = "done" /\ UNCHANGED <<check, ip, result>>
       ELSE check' = check + 1 /\ Restart /\ UNCHANGED pc
    /\ UNCHANGED <<program, layer, need>>

(* The flag is decided: set if the last question was answered yes; a no    *)
(* skips the questions that are left (&&). *)
Decide ==
    /\ pc = "analyze" /\ ip = -1
    /\ ~Answer \/ need = Len(Needs(Flag))
    /\ flags' = IF Answer /\ Flag # "any" THEN flags \cup {Flag} ELSE flags
    /\ IF check = Len(Checks(layer)) \/ (Flag = "any" /\ ~Answer)
       THEN pc' = "done" /\ UNCHANGED <<check, need, ip, result>>
       ELSE check' = check + 1 /\ need' = 1 /\ Restart /\ UNCHANGED pc
    /\ UNCHANGED <<program, layer>>

Next == ExecInstruction \/ NextQuestion \/ Decide

Spec == Init /\ [][Next]_vars

-----------------------------------------------------------------------------
(* External: what the tests mean to the driver. *)
Order(v, arg) == IF v < arg THEN "less" ELSE IF v = arg THEN "same" ELSE "more"
Meaning == [eq |-> {"same"}, neq |-> {"less", "more"},
            lt |-> {"less"}, leq |-> {"less", "same"},
            gt |-> {"more"}, geq |-> {"same", "more"}, unknown |-> {}]
Passes(v, test, arg) == Order(v, arg) \in Meaning[test]

(* External: the driver runs the program on a packet e.  A run says of     *)
(* each position whether execution from there accepts.  Of a jump that     *)
(* does not go forward, and of a test that is not definite, nothing is     *)
(* assumed. *)
Ends(p, a, k, t) ==
    CASE t = Accept -> {TRUE}
      [] t = Reject -> {FALSE}
      [] t \notin {Accept, Reject} /\ k < t /\ t < p.length -> {a[t]}
      [] OTHER -> BOOLEAN

Outcomes(p, e, a, k) ==
    LET f == p.code[k]
        s == Ends(p, a, k, f.succ)
        n == Ends(p, a, k, f.fail)
    IN  IF Definite(f) THEN IF Passes(e[f.field], f.test, f.arg) THEN s ELSE n
                       ELSE s \cup n

IsRun(p, e, a) == \A k \in Positions(p) : a[k] \in Outcomes(p, e, a, k)

Accepts(p, e) ==
    p.length > 0 /\ \E a \in [Positions(p) -> BOOLEAN] : IsRun(p, e, a) /\ a[0]

(* External: the packets and events that the driver leaves out unless it   *)
(* is given the flag. *)
OfClass(e, flag) ==
    CASE flag = "inbound"  -> e["inbound"] = 1 /\ e["outbound"] = 0
      [] flag = "outbound" -> e["inbound"] = 0 /\ e["outbound"] = 1
      [] flag = "ip"       -> e["ip"] = 1 /\ e["ipv6"] = 0
      [] flag = "ipv6"     -> e["ip"] = 0 /\ e["ipv6"] = 1
      [] flag = "flowDeleted"   -> e["event"] = 2
      [] flag = "socketBind"    -> e["event"] = 3
      [] flag = "socketConnect" -> e["event"] = 4
      [] flag = "socketListen"  -> e["event"] = 5
      [] flag = "socketAccept"  -> e["event"] = 6
      [] flag = "socketClose"   -> e["event"] = 7

TypeOK ==
    /\ layer \in Layers
    /\ check \in 1 .. Len(Checks(layer)) /\ need \in 1 .. Len(Needs(Flag))
    /\ ip \in -1 .. program.length - 1
    /\ result \in [Positions(program) -> BOOLEAN]
    /\ flags \subseteq {Checks(layer)[c] : c \in 2 .. Len(Checks(layer))}
    /\ pc \in {"analyze", "done"}

(* No packet is missed: if the driver's run of the program may accept a    *)
(* packet, the flag of the packet's class is set when the analysis ends. *)
FlagsSuffice ==
    pc = "done" /\ program.length > 0 =>
        \A e \in Packets : Accepts(program, e) =>
            \A c \in 2 .. Len(Checks(layer)) :
                OfClass(e, Checks(layer)[c]) => Checks(layer)[c] \in flags

(* A program that tests nothing but the event gets an event's flag only if *)
(* it accepts some packet of that event: the analysis is exact there, and  *)
(* the driver is not told to watch events that no test lets through. *)
OnlyEventTests ==
    \A k \in Positions(program) :
        LET f == program.code[k]
        IN  /\ f.field = "event" /\ Definite(f)
            /\ \A t \in {f.succ, f.fail} :
                  t \in {Accept, Reject} \/ (k < t /\ t < program.length)
EventFlags == {"flowDeleted", "socketBind", "socketConnect", "socketListen",
               "socketAccept", "socketClose"}

EventFlagsExact ==
    pc = "done" /\ program.length > 0 /\ OnlyEventTests =>
        \A flag \in flags \cap EventFlags :
            \A e \in Packets : OfClass(e, flag) => Accepts(program, e)
=============================================================================
