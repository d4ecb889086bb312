------------------------- MODULE FilterAnalyze_proofs -------------------------
(***************************************************************************)
(* FilterAnalyze for programs of any length, any packets and all layers:   *)
(* the flags suffice.  The argument follows the loop: above ip, result[k]  *)
(* is TRUE wherever a run of the driver on a packet that answers the       *)
(* question may accept.                                                    *)
(***************************************************************************)
EXTENDS FilterAnalyze, TLAPS

AllFlags == {"any", "inbound", "outbound", "ip", "ipv6", "flowDeleted", "socketBind",
             "socketConnect", "socketListen", "socketAccept", "socketClose"}
Questions == [field : Fields, value : Nat]

(* Runs of the driver on packet e. *)
RunsOn(e) == {a \in [Positions(program) -> BOOLEAN] : IsRun(program, e, a)}

Counters ==
    /\ program \in Programs /\ layer \in Layers
    /\ check \in 1 .. Len(Checks(layer))
    /\ need \in 1 .. Len(Needs(Flag))
    /\ ip \in -1 .. program.length - 1
    /\ result \in [Positions(program) -> BOOLEAN]
    /\ pc \in {"analyze", "done"}

LoopSound ==
    pc = "analyze" =>
        \A e \in Packets : \A a \in RunsOn(e) :
            e[Asked.field] = Asked.value =>
                \A k \in Positions(program) : ip < k /\ a[k] => result[k]

(* The flags that have been decided suffice. *)
DecidedSuffice ==
    program.length > 0 =>
        \A c \in 2 .. Len(Checks(layer)) : c < check \/ pc = "done" =>
            \A e \in Packets : \A a \in RunsOn(e) :
                a[0] /\ OfClass(e, Checks(layer)[c]) => Checks(layer)[c] \in flags

IInv == Counters /\ LoopSound /\ DecidedSuffice

-----------------------------------------------------------------------------
(* Every flag has one or two questions, "any" exactly the one on zero. *)
LEMMA NeedsType ==
  ASSUME NEW flag \in AllFlags
  PROVE  /\ Len(Needs(flag)) \in {1, 2}
         /\ \A q \in 1 .. Len(Needs(flag)) : Needs(flag)[q] \in Questions
         /\ flag = "any" => Len(Needs(flag)) = 1 /\ Needs(flag)[1] = Question("zero", 0)
<1>1. CASE flag \in {"inbound", "outbound", "ip", "ipv6"}
  BY <1>1 DEF Needs, Question, Questions, Fields
<1>2. CASE flag \in AllFlags \ {"inbound", "outbound", "ip", "ipv6"}
  BY <1>2 DEF AllFlags, Needs, Question, Questions, Fields
<1> QED
  BY <1>1, <1>2

(* Every layer starts with "any", which does not come again. *)
LEMMA ChecksType ==
  ASSUME NEW l \in Layers
  PROVE  /\ Len(Checks(l)) \in Nat \ {0}
         /\ \A c \in 1 .. Len(Checks(l)) : Checks(l)[c] \in AllFlags
         /\ \A c \in 1 .. Len(Checks(l)) : Checks(l)[c] = "any" <=> c = 1
<1>1. CASE l \in {"network", "forward"}
  BY <1>1 DEF Checks, AllFlags
<1>2. CASE l = "flow"
  BY <1>2 DEF Checks, AllFlags
<1>3. CASE l = "socket"
  BY <1>3 DEF Checks, AllFlags
<1>4. CASE l = "reflect"
  BY <1>4 DEF Checks, AllFlags
<1> QED
  BY <1>1, <1>2, <1>3, <1>4, LayersAssumption

(* A packet of a flag's class answers all the questions behind the flag. *)
LEMMA ClassAnswers ==
  ASSUME NEW flag \in AllFlags \ {"any"}, NEW e, OfClass(e, flag)
  PROVE  \A q \in 1 .. Len(Needs(flag)) : e[Needs(flag)[q].field] = Needs(flag)[q].value
<1>1. CASE flag = "inbound"
  BY <1>1 DEF Needs, Question, OfClass
<1>2. CASE flag = "outbound"
  BY <1>2 DEF Needs, Question, OfClass
<1>3. CASE flag = "ip"
  BY <1>3 DEF Needs, Question, OfClass
<1>4. CASE flag = "ipv6"
  BY <1>4 DEF Needs, Question, OfClass
<1>5. ASSUME flag \in {"flowDeleted", "socketBind", "socketConnect",
                       "socketListen", "socketAccept", "socketClose"}
      PROVE  Len(Needs(flag)) = 1 /\ e[Needs(flag)[1].field] = Needs(flag)[1].value
  <2>1. CASE flag = "flowDeleted"
    BY <2>1 DEF Needs, Question, OfClass
  <2>2. CASE flag = "socketBind"
    BY <2>2 DEF Needs, Question, OfClass
  <2>3. CASE flag = "socketConnect"
    BY <2>3 DEF Needs, Question, OfClass
  <2>4. CASE flag = "socketListen"
    BY <2>4 DEF Needs, Question, OfClass
  <2>5. CASE flag = "socketAccept"
    BY <2>5 DEF Needs, Question, OfClass
  <2>6. CASE flag = "socketClose"
    BY <2>6 DEF Needs, Question, OfClass
  <2> QED
    BY <1>5, <2>1, <2>2, <2>3, <2>4, <2>5, <2>6
<1> QED
  BY <1>1, <1>2, <1>3, <1>4, <1>5 DEF AllFlags

(* The loop compares as the driver does. *)
LEMMA HoldsIsPasses ==
  ASSUME NEW v \in Nat, NEW arg \in Nat, NEW test \in Tests
  PROVE  Holds(v, test, arg) <=> Passes(v, test, arg)
<1>1. CASE v < arg
  BY <1>1 DEF Holds, Passes, Order, Meaning, Tests
<1>2. CASE v = arg
  BY <1>2 DEF Holds, Passes, Order, Meaning, Tests
<1>3. CASE v > arg
  BY <1>3 DEF Holds, Passes, Order, Meaning, Tests
<1> QED
  BY <1>1, <1>2, <1>3

(* One turn of the loop keeps result above the runs of the driver. *)
LEMMA TurnSound ==
  ASSUME Counters, LoopSound, ExecInstruction,
         NEW e \in Packets, NEW a \in RunsOn(e), e[Asked.field] = Asked.value, a[ip]
  PROVE  result'[ip]
<1> DEFINE f == program.code[ip]
<1>1. /\ ip \in Positions(program) /\ program.length \in Nat /\ f \in Instructions
      /\ a[ip] \in Outcomes(program, e, a, ip)
  <2>1. program.length \in Nat /\ program.code \in [Positions(program) -> Instructions]
    BY ProgramsAssumption DEF Counters
  <2>2. ip \in Positions(program)
    BY <2>1 DEF ExecInstruction, Counters, Positions
  <2> QED
    BY <2>1, <2>2 DEF RunsOn, IsRun
<1>2. ASSUME NEW t \in Nat, NEW b \in Ends(program, a, ip, t), b = TRUE
      PROVE  Jump(t) = TRUE
  <2>1. CASE t \in {Accept, Reject}
    BY <1>2, <2>1 DEF Ends, Jump, Accept, Reject
  <2>2. CASE t \notin {Accept, Reject} /\ ip < t /\ t < program.length
    <3>1. t \in Positions(program) /\ b = a[t]
      <4>1. t \in Positions(program)
        BY <1>1, <2>2 DEF Positions
      <4>2. Ends(program, a, ip, t) = {a[t]}
        BY <2>2 DEF Ends
      <4> QED
        BY <1>2, <4>1, <4>2
    <3>2. result[t] = TRUE
      BY <1>2, <2>2, <3>1 DEF LoopSound, ExecInstruction, Counters
    <3> QED
      BY <2>2, <3>2 DEF Jump
  <2>3. CASE t \notin {Accept, Reject} /\ ~(ip < t /\ t < program.length)
    BY <2>3 DEF Jump
  <2> QED
    BY <2>1, <2>2, <2>3
<1>3. a[ip] = TRUE
  BY <1>1 DEF RunsOn
<1>4. f.succ \in Nat /\ f.fail \in Nat
  BY <1>1 DEF Instructions
<1>5. result'[ip] = IF Jump(f.succ) = Jump(f.fail) THEN Jump(f.succ)
                    ELSE IF f.field = Asked.field /\ Definite(f)
                         THEN IF Holds(Asked.value, f.test, f.arg) THEN Jump(f.succ)
                                                                   ELSE Jump(f.fail)
                         ELSE TRUE
  BY <1>1 DEF ExecInstruction, Counters
<1>6. Jump(f.succ) = TRUE \/ Jump(f.fail) = TRUE
  BY <1>1, <1>2, <1>3, <1>4 DEF Outcomes
<1>7. CASE f.field = Asked.field /\ Definite(f)
  <2>1. Outcomes(program, e, a, ip) =
          IF Holds(Asked.value, f.test, f.arg) THEN Ends(program, a, ip, f.succ)
                                               ELSE Ends(program, a, ip, f.fail)
    <3>1. Asked.value \in Nat
      BY <1>1, <1>7, PacketsAssumption DEF Instructions
    <3>2. Holds(Asked.value, f.test, f.arg) <=> Passes(Asked.value, f.test, f.arg)
      BY <1>1, <3>1, HoldsIsPasses DEF Instructions
    <3>3. e[f.field] = Asked.value
      BY <1>7
    <3> QED
      BY <1>7, <3>2, <3>3 DEF Outcomes
  <2> QED
    BY <1>1, <1>2, <1>3, <1>4, <1>5, <1>6, <1>7, <2>1
<1> QED
  BY <1>5, <1>6, <1>7

(* The invariant holds before the first turn. *)
LEMMA IInvInit == Init => IInv
<1> SUFFICES ASSUME Init PROVE IInv
  OBVIOUS
<1>1. program.length \in Nat
  BY ProgramsAssumption DEF Init
<1>2. Checks(layer)[1] \in AllFlags /\ Len(Checks(layer)) \in Nat \ {0}
  BY ChecksType DEF Init
<1>3. Counters
  <2>1. Len(Needs(Flag)) \in {1, 2}
    BY <1>2, NeedsType DEF Init, Flag
  <2>2. result \in [Positions(program) -> BOOLEAN] /\ ip \in -1 .. program.length - 1
    BY <1>1 DEF Init
  <2>3. need \in 1 .. Len(Needs(Flag))
    <3>1. need = 1
      BY DEF Init
    <3> QED
      BY <2>1, <3>1
  <2>4. check \in 1 .. Len(Checks(layer))
    BY <1>2 DEF Init
  <2> QED
    BY <2>2, <2>3, <2>4 DEF Init, Counters
<1>4. LoopSound
  BY <1>1 DEF Init, LoopSound, Positions
<1>5. DecidedSuffice
  BY <1>2 DEF Init, DecidedSuffice
<1> QED
  BY <1>3, <1>4, <1>5 DEF IInv

(* Every step of the analysis keeps the invariant. *)
LEMMA IInvNext == IInv /\ [Next]_vars => IInv'
<1> SUFFICES ASSUME IInv, [Next]_vars PROVE IInv'
  OBVIOUS
<1> USE DEF IInv
<1>0. /\ program.length \in Nat /\ Flag \in AllFlags
      /\ Len(Checks(layer)) \in Nat \ {0} /\ Len(Needs(Flag)) \in {1, 2}
  BY ProgramsAssumption, ChecksType, NeedsType DEF Counters, Flag
<1>1. CASE ExecInstruction
  <2>1. UNCHANGED <<program, layer, check, need, flags, pc, Flag, Asked>> /\ ip' = ip - 1
    BY <1>1 DEF ExecInstruction, Flag, Asked
  <2>2. result' \in [Positions(program) -> BOOLEAN]
    <3>1. ASSUME NEW t \in Nat PROVE Jump(t) \in BOOLEAN
      <4>1. CASE t \notin {Accept, Reject} /\ ip < t /\ t < program.length
        <5>1. t \in Positions(program)
          BY <1>0, <4>1 DEF Positions
        <5> QED
          BY <4>1, <5>1 DEF Jump, Counters
      <4>2. CASE ~(t \notin {Accept, Reject} /\ ip < t /\ t < program.length)
        BY <4>2 DEF Jump
      <4> QED
        BY <4>1, <4>2
    <3>2. program.code[ip] \in Instructions
      BY <1>1, ProgramsAssumption DEF ExecInstruction, Counters, Positions
    <3>3. Jump(program.code[ip].succ) \in BOOLEAN /\ Jump(program.code[ip].fail) \in BOOLEAN
      BY <3>1, <3>2 DEF Instructions
    <3> QED
      BY <1>1, <3>3 DEF ExecInstruction, Counters
  <2>3. Counters'
    <3>1. ip' \in -1 .. program.length - 1
      BY <1>0, <1>1, <2>1 DEF Counters, ExecInstruction
    <3> QED
      BY <2>1, <2>2, <3>1 DEF Counters
  <2>4. LoopSound'
    <3> SUFFICES ASSUME NEW e \in Packets, NEW a \in RunsOn(e), e[Asked.field] = Asked.value,
                        NEW k \in Positions(program), ip - 1 < k, a[k], pc = "analyze"
                 PROVE  result'[k]
      BY <2>1 DEF LoopSound, RunsOn
    <3>1. CASE k = ip
      BY <1>1, <3>1, TurnSound
    <3>2. CASE k # ip
      <4>1. ip < k /\ result[k]
        BY <1>0, <3>2 DEF LoopSound, Positions, Counters
      <4> QED
        BY <1>1, <3>2, <4>1 DEF ExecInstruction, Counters
    <3> QED
      BY <3>1, <3>2
  <2>5. DecidedSuffice'
    BY <2>1 DEF DecidedSuffice, RunsOn
  <2> QED
    BY <2>3, <2>4, <2>5
<1>2. CASE NextQuestion
  <2>1. UNCHANGED <<program, layer, check, flags, pc, Flag>> /\ need' = need + 1
    BY <1>2 DEF NextQuestion, Flag
  <2>2. Counters' /\ LoopSound'
    BY <1>0, <1>2, <2>1 DEF NextQuestion, Restart, Counters, LoopSound, Positions
  <2>3. DecidedSuffice'
    BY <2>1 DEF DecidedSuffice, RunsOn
  <2> QED
    BY <2>2, <2>3
<1>3. CASE Decide
  <2>1. UNCHANGED <<program, layer>>
    BY <1>3 DEF Decide
  <2>2. Counters'
    <3>1. CASE UNCHANGED <<check, need, ip, result>>
      BY <1>3, <2>1, <3>1 DEF Decide, Counters, Flag
    <3>2. CASE check' = check + 1 /\ check < Len(Checks(layer)) /\ need' = 1 /\ Restart
      <4>1. Flag' \in AllFlags
        BY <1>0, <2>1, <3>2, ChecksType DEF Flag, Counters
      <4>2. Len(Needs(Flag')) \in {1, 2}
        BY <4>1, NeedsType
      <4> QED
        <5>1. ip' \in -1 .. program.length - 1 /\ result' \in [Positions(program) -> BOOLEAN]
          BY <1>0, <3>2 DEF Restart
        <5>2. check' \in 1 .. Len(Checks(layer)) /\ need' \in 1 .. Len(Needs(Flag'))
          <6>1. check' \in 1 .. Len(Checks(layer))
            BY <1>0, <3>2 DEF Counters
          <6>2. need' \in 1 .. Len(Needs(Flag'))
            BY <3>2, <4>2
          <6> QED
            BY <6>1, <6>2
        <5> QED
          BY <1>3, <2>1, <5>1, <5>2 DEF Decide, Counters
    <3> QED
      BY <1>0, <1>3, <3>1, <3>2 DEF Decide, Counters
  <2>3. LoopSound'
    BY <1>0, <1>3, <2>1 DEF Decide, Restart, LoopSound, Positions
  <2>4. DecidedSuffice'
    <3> SUFFICES ASSUME program.length > 0, NEW c \in 2 .. Len(Checks(layer)),
                        c < check' \/ pc' = "done",
                        NEW e \in Packets, NEW a \in RunsOn(e), a[0],
                        OfClass(e, Checks(layer)[c])
                 PROVE  Checks(layer)[c] \in flags'
      BY <2>1 DEF DecidedSuffice, RunsOn
    <3>1. flags \subseteq flags'
      BY <1>3 DEF Decide
    <3>2. ASSUME e[Asked.field] = Asked.value PROVE Answer
      <4>1. 0 \in Positions(program) /\ ip = -1 /\ pc = "analyze"
        BY <1>0, <1>3 DEF Decide, Positions
      <4> QED
        BY <3>2, <4>1 DEF LoopSound, Answer
    <3>3. CASE c < check
      BY <3>1, <3>3 DEF DecidedSuffice
    <3>4. CASE c = check
      <4>1. Asked = Needs(Checks(layer)[c])[need] /\ Flag = Checks(layer)[c] /\ Flag # "any"
        BY <3>4, ChecksType DEF Asked, Flag, Counters
      <4>2. Answer
        <5>1. Checks(layer)[c] \in AllFlags \ {"any"}
          BY <3>4, <4>1, ChecksType DEF Counters
        <5> QED
          BY <3>2, <4>1, <5>1, ClassAnswers DEF Counters
      <4> QED
        BY <1>3, <4>1, <4>2 DEF Decide
    <3>5. CASE check < c
      <4>1. Flag = "any" /\ ~Answer
        BY <1>0, <1>3, <3>5 DEF Decide, Counters
      <4>2. Asked = Question("zero", 0)
        BY <1>0, <4>1, NeedsType DEF Asked, Counters
      <4> QED
        BY <3>2, <4>1, <4>2, PacketsAssumption DEF Question
    <3> QED
      BY <1>0, <3>3, <3>4, <3>5 DEF Counters
  <2> QED
    BY <2>2, <2>3, <2>4
<1>4. CASE UNCHANGED vars
  BY <1>4 DEF vars, Counters, LoopSound, DecidedSuffice, RunsOn, Flag, Asked
<1> QED
  BY <1>1, <1>2, <1>3, <1>4 DEF Next

(* Whatever the program, no packet or event that the driver's run of it    *)
(* may accept is left without the flag of its class. *)
THEOREM FlagsSufficeAlways == Spec => []FlagsSuffice
<1>1. IInv => FlagsSuffice
  BY DEF IInv, DecidedSuffice, FlagsSuffice, Accepts, RunsOn
<1> QED
  BY <1>1, IInvInit, IInvNext, PTL DEF Spec

-----------------------------------------------------------------------------
(* The flags are those of the layer, without "any". *)
FlagsOfLayer == flags \subseteq {Checks(layer)[c] : c \in 2 .. Len(Checks(layer))}

LEMMA FlagsNext == IInv /\ FlagsOfLayer /\ [Next]_vars => FlagsOfLayer'
<1> SUFFICES ASSUME IInv, FlagsOfLayer, [Next]_vars PROVE FlagsOfLayer'
  OBVIOUS
<1>1. CASE ExecInstruction \/ NextQuestion \/ UNCHANGED vars
  BY <1>1 DEF ExecInstruction, NextQuestion, vars, FlagsOfLayer
<1>2. CASE Decide
  <2>1. layer' = layer /\ flags' \in {flags, flags \cup {Flag}} /\ (Flag = "any" => flags' = flags)
    BY <1>2 DEF Decide
  <2>2. layer \in Layers /\ check \in 1 .. Len(Checks(layer)) /\ Len(Checks(layer)) \in Nat
    BY ChecksType DEF IInv, Counters
  <2>3. Flag # "any" => check \in 2 .. Len(Checks(layer)) /\ Flag = Checks(layer)[check]
    BY <2>2, ChecksType DEF Flag
  <2> QED
    BY <2>1, <2>3 DEF FlagsOfLayer
<1> QED
  BY <1>1, <1>2 DEF Next

(* The analysis never leaves the tables it reads, for programs of any      *)
(* length, and sets only flags that exist at its layer.                    *)
THEOREM StaysInTables == Spec => []TypeOK
<1>1. Init => FlagsOfLayer
  BY DEF Init, FlagsOfLayer
<1>2. IInv /\ FlagsOfLayer => TypeOK
  BY DEF IInv, Counters, FlagsOfLayer, TypeOK
<1> QED
  BY <1>1, <1>2, IInvInit, IInvNext, FlagsNext, PTL DEF Spec
-----------------------------------------------------------------------------
(* Where only the event is tested, the loop over an event's question       *)
(* computes the driver's own run on every packet of that event.            *)
LoopExact ==
    pc = "analyze" /\ OnlyEventTests /\ Flag \in EventFlags =>
        \A e \in Packets : e[Asked.field] = Asked.value =>
            \A k \in Positions(program) :
                ip < k => result[k] \in Outcomes(program, e, result, k)

(* The flags of events that have been set are exact. *)
DecidedExact ==
    program.length > 0 /\ OnlyEventTests =>
        \A flag \in flags \cap EventFlags :
            \A e \in Packets : OfClass(e, flag) => Accepts(program, e)

EInv == IInv /\ LoopExact /\ DecidedExact

(* An event's flag has one question, about the event. *)
LEMMA EventQuestion ==
  ASSUME NEW flag \in EventFlags
  PROVE  Len(Needs(flag)) = 1 /\ Needs(flag)[1].field = "event" /\ Needs(flag)[1].value \in Nat
<1>1. CASE flag = "flowDeleted"
  BY <1>1 DEF Needs, Question
<1>2. CASE flag = "socketBind"
  BY <1>2 DEF Needs, Question
<1>3. CASE flag = "socketConnect"
  BY <1>3 DEF Needs, Question
<1>4. CASE flag = "socketListen"
  BY <1>4 DEF Needs, Question
<1>5. CASE flag = "socketAccept"
  BY <1>5 DEF Needs, Question
<1>6. CASE flag = "socketClose"
  BY <1>6 DEF Needs, Question
<1> QED
  BY <1>1, <1>2, <1>3, <1>4, <1>5, <1>6 DEF EventFlags

(* Outcomes at k depends on what the run says after k only. *)
LEMMA OutcomesLocal ==
  ASSUME NEW e, NEW a, NEW b, NEW k \in Positions(program), program.length \in Nat,
         program.code[k] \in Instructions,
         \A t \in Positions(program) : k < t => a[t] = b[t]
  PROVE  Outcomes(program, e, a, k) = Outcomes(program, e, b, k)
<1>1. ASSUME NEW t \in Nat PROVE Ends(program, a, k, t) = Ends(program, b, k, t)
  BY <1>1 DEF Ends, Positions
<1>2. program.code[k].succ \in Nat /\ program.code[k].fail \in Nat
  BY DEF Instructions
<1> QED
  BY <1>1, <1>2 DEF Outcomes

(* One turn of the loop writes what the driver's run has there. *)
LEMMA TurnExact ==
  ASSUME Counters, OnlyEventTests, ExecInstruction, Flag \in EventFlags,
         NEW e \in Packets, e[Asked.field] = Asked.value
  PROVE  result'[ip] \in Outcomes(program, e, result, ip)
<1> DEFINE f == program.code[ip]
<1>1. /\ ip \in Positions(program) /\ program.length \in Nat /\ f \in Instructions
      /\ f.succ \in Nat /\ f.fail \in Nat
  <2>1. program.length \in Nat /\ program.code \in [Positions(program) -> Instructions]
    BY ProgramsAssumption DEF Counters
  <2>2. ip \in Positions(program)
    BY <2>1 DEF ExecInstruction, Counters, Positions
  <2>3. f \in Instructions
    BY <2>1, <2>2
  <2> QED
    BY <2>1, <2>2, <2>3 DEF Instructions
<1>2. Asked.field = "event" /\ Asked.value \in Nat
  <2>1. need = 1
    BY EventQuestion DEF Counters
  <2> QED
    BY <2>1, EventQuestion DEF Asked
<1>3. /\ f.field = "event" /\ Definite(f)
      /\ \A t \in {f.succ, f.fail} : t \in {Accept, Reject} \/ (ip < t /\ t < program.length)
  BY <1>1 DEF OnlyEventTests
<1>4. ASSUME NEW t \in {f.succ, f.fail} PROVE Ends(program, result, ip, t) = {Jump(t)}
  <2>1. CASE t = Accept
    BY <2>1 DEF Ends, Jump, Accept, Reject
  <2>2. CASE t = Reject
    BY <2>2 DEF Ends, Jump, Accept, Reject
  <2>3. CASE t \notin {Accept, Reject} /\ ip < t /\ t < program.length
    BY <2>3 DEF Ends, Jump
  <2> QED
    BY <1>3, <2>1, <2>2, <2>3
<1>5. result'[ip] = IF Jump(f.succ) = Jump(f.fail) THEN Jump(f.succ)
                    ELSE IF f.field = Asked.field /\ Definite(f)
                         THEN IF Holds(Asked.value, f.test, f.arg) THEN Jump(f.succ)
                                                                   ELSE Jump(f.fail)
                         ELSE TRUE
  BY <1>1 DEF ExecInstruction, Counters
<1>6. Outcomes(program, e, result, ip) =
          IF Holds(Asked.value, f.test, f.arg) THEN Ends(program, result, ip, f.succ)
                                               ELSE Ends(program, result, ip, f.fail)
  <2>1. Holds(Asked.value, f.test, f.arg) <=> Passes(Asked.value, f.test, f.arg)
    BY <1>1, <1>2, HoldsIsPasses DEF Instructions
  <2>2. e[f.field] = Asked.value
    BY <1>2, <1>3
  <2> QED
    BY <1>3, <2>1, <2>2 DEF Outcomes
<1> QED
  BY <1>2, <1>3, <1>4, <1>5, <1>6

LEMMA EInvNext == EInv /\ IInv' /\ [Next]_vars => EInv'
<1> SUFFICES ASSUME EInv, IInv', [Next]_vars PROVE LoopExact' /\ DecidedExact'
  BY DEF EInv
<1> USE DEF EInv, IInv
<1>0. /\ program.length \in Nat /\ program.code \in [Positions(program) -> Instructions]
  BY ProgramsAssumption DEF Counters
<1>1. CASE ExecInstruction
  <2>1. UNCHANGED <<program, layer, check, need, flags, pc, Flag, Asked>> /\ ip' = ip - 1
    BY <1>1 DEF ExecInstruction, Flag, Asked
  <2>2. DecidedExact'
    BY <2>1 DEF DecidedExact, OnlyEventTests, Accepts
  <2>3. LoopExact'
    <3> SUFFICES ASSUME OnlyEventTests, Flag \in EventFlags,
                        NEW e \in Packets, e[Asked.field] = Asked.value,
                        NEW k \in Positions(program), ip - 1 < k
                 PROVE  result'[k] \in Outcomes(program, e, result', k)
      BY <2>1 DEF LoopExact, OnlyEventTests
    <3>1. \A j \in Positions(program) : j # ip => result'[j] = result[j]
      BY <1>1 DEF ExecInstruction, Counters
    <3>2. Outcomes(program, e, result', k) = Outcomes(program, e, result, k)
      <4>1. \A t \in Positions(program) : k < t => result'[t] = result[t]
        BY <1>0, <3>1 DEF Positions, Counters
      <4> QED
        BY <1>0, <4>1, OutcomesLocal
    <3>3. CASE k = ip
      BY <1>1, <3>2, <3>3, TurnExact
    <3>4. CASE k # ip
      <4>1. ip < k /\ pc = "analyze"
        BY <1>0, <1>1, <3>4 DEF Positions, Counters, ExecInstruction
      <4> QED
        BY <3>1, <3>2, <3>4, <4>1 DEF LoopExact
    <3> QED
      BY <3>3, <3>4
  <2> QED
    BY <2>2, <2>3
<1>2. CASE NextQuestion
  <2>1. UNCHANGED <<program, layer, flags>> /\ ip' = program.length - 1
    BY <1>2 DEF NextQuestion, Restart
  <2> QED
    BY <1>0, <2>1 DEF DecidedExact, LoopExact, OnlyEventTests, Accepts, Positions
<1>3. CASE Decide
  <2>1. UNCHANGED <<program, layer>> /\ ip = -1 /\ pc = "analyze"
    BY <1>3 DEF Decide
  <2>2. LoopExact'
    BY <1>0, <1>3, <2>1 DEF Decide, Restart, LoopExact, Positions
  <2>3. DecidedExact'
    <3> SUFFICES ASSUME program.length > 0, OnlyEventTests,
                        NEW flag \in flags' \cap EventFlags, NEW e \in Packets, OfClass(e, flag)
                 PROVE  Accepts(program, e)
      BY <2>1 DEF DecidedExact, OnlyEventTests, Accepts
    <3>1. CASE flag \in flags
      BY <3>1 DEF DecidedExact
    <3>2. CASE flag \notin flags
      <4>1. flag = Flag /\ Answer
        BY <1>3, <3>2 DEF Decide
      <4>2. Asked = Needs(flag)[need] /\ need \in 1 .. Len(Needs(flag))
        BY <4>1 DEF Asked, Counters
      <4>3. flag \in AllFlags \ {"any"}
        BY DEF EventFlags, AllFlags
      <4>4. e[Asked.field] = Asked.value
        BY <4>2, <4>3, ClassAnswers
      <4>5. IsRun(program, e, result)
        <5>1. ASSUME NEW k \in Positions(program) PROVE ip < k
          BY <1>0, <2>1 DEF Positions
        <5> QED
          BY <2>1, <4>1, <4>4, <5>1 DEF LoopExact, IsRun
      <4>6. result[0] /\ result \in [Positions(program) -> BOOLEAN]
        BY <1>0, <4>1 DEF Answer, Counters
      <4> QED
        BY <4>5, <4>6 DEF Accepts
    <3> QED
      BY <3>1, <3>2
  <2> QED
    BY <2>2, <2>3
<1>4. CASE UNCHANGED vars
  BY <1>4 DEF vars, LoopExact, DecidedExact, OnlyEventTests, Accepts, Flag, Asked
<1> QED
  BY <1>1, <1>2, <1>3, <1>4 DEF Next

(* A program that tests nothing but the event, of any length, gets an      *)
(* event's flag only if it accepts every packet of that event.             *)
THEOREM EventsExactAlways == Spec => []EventFlagsExact
<1>1. Init => EInv
  <2> SUFFICES ASSUME Init PROVE LoopExact /\ DecidedExact
    BY IInvInit DEF EInv
  <2>1. program.length \in Nat
    BY ProgramsAssumption DEF Init
  <2>2. \A k \in Positions(program) : ~(ip < k)
    BY <2>1 DEF Init, Positions
  <2> QED
    BY <2>2 DEF Init, LoopExact, DecidedExact
<1>2. EInv => EventFlagsExact
  BY DEF EInv, DecidedExact, EventFlagsExact
<1>3. EInv /\ [Next]_vars => EInv'
  BY IInvNext, EInvNext DEF EInv
<1> QED
  BY <1>1, <1>2, <1>3, PTL DEF Spec
=============================================================================
