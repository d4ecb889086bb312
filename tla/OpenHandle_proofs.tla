-------------------------- MODULE OpenHandle_proofs --------------------------
(***************************************************************************)
(* OpenHandle for all arguments: what is open, and what the driver was     *)
(* told, follow the program counter.                                       *)
(***************************************************************************)
EXTENDS OpenHandle, TLAPS

Before     == {"layer", "flags", "compile", "device"}
InRequests == {"initialize", "version", "startup", "closeEvent", "failed"}

(* What is open at each step. *)
Resources ==
    /\ pc \in Before \cup InRequests \cup {"event", "overlapped", "done"}
    /\ pc \in Before => handle = "none" /\ events = {}
    /\ pc \in {"event", "overlapped"} => handle = "open" /\ events = {}
    /\ pc \in InRequests => handle = "open" /\ events = {"init"}
    /\ (pc = "done") <=> (result # "none")
    /\ NothingLeftOpen

(* How far the driver is at each step. *)
Progress ==
    /\ pc \in Before \cup {"event", "initialize"} => driver = "fresh"
    /\ pc \in {"closeEvent", "overlapped"} => driver = "started"
    /\ pc # "done" => result = "none"
    /\ DivertIsStarted

(* The arguments have been checked when the driver is told of them. *)
Checked ==
    /\ pc \notin {"layer", "done"} => Mandatory(layer) \subseteq flags
    /\ pc \notin {"layer", "flags", "done"} =>
           Valid(flags) /\ PriorityMin <= priority /\ priority <= PriorityMax
    /\ pc \in Before \cup {"event", "initialize"} => driver = "fresh"
    /\ pc \in {"version", "startup"} => driver # "fresh"
    /\ FlagsAgree

-----------------------------------------------------------------------------
(* Handle and events are as the program counter says. *)
LEMMA ResourcesNext == Resources /\ [Next]_vars => Resources'
<1> SUFFICES ASSUME Resources, [Next]_vars PROVE Resources'
  OBVIOUS
<1> USE DEF Resources, NothingLeftOpen, Before, InRequests, Goto, Refuse
<1>1. CASE CheckLayer
  BY <1>1 DEF CheckLayer
<1>2. CASE CheckFlags
  BY <1>2 DEF CheckFlags
<1>3. CASE Compile
  BY <1>3 DEF Compile
<1>4. CASE OpenDevice
  BY <1>4 DEF OpenDevice
<1>5. CASE NewOverlapped
  BY <1>5 DEF NewOverlapped
<1>6. CASE Initialize
  BY <1>6 DEF Initialize
<1>7. CASE CheckVersion
  BY <1>7 DEF CheckVersion
<1>8. CASE Startup
  BY <1>8 DEF Startup
<1>9. CASE Fail
  BY <1>9 DEF Fail
<1>10. CASE CloseEvent
  BY <1>10 DEF CloseEvent
<1>11. CASE MakeDivert
  BY <1>11 DEF MakeDivert
<1>12. CASE UNCHANGED vars
  BY <1>12 DEF vars, argVars
<1> QED
  BY <1>1, <1>2, <1>3, <1>4, <1>5, <1>6, <1>7, <1>8, <1>9, <1>10, <1>11, <1>12 DEF Next

(* The driver is as far as the program counter says. *)
LEMMA ProgressNext == Progress /\ [Next]_vars => Progress'
<1> SUFFICES ASSUME Progress, [Next]_vars PROVE Progress'
  OBVIOUS
<1> USE DEF Progress, DivertIsStarted, Before, Goto, Refuse
<1>1. CASE CheckLayer \/ CheckFlags \/ Compile
  BY <1>1 DEF CheckLayer, CheckFlags, Compile
<1>2. CASE OpenDevice \/ NewOverlapped
  BY <1>2 DEF OpenDevice, NewOverlapped
<1>3. CASE Initialize \/ CheckVersion \/ Startup
  BY <1>3 DEF Initialize, CheckVersion, Startup
<1>4. CASE Fail \/ CloseEvent \/ MakeDivert
  BY <1>4 DEF Fail, CloseEvent, MakeDivert
<1>5. CASE UNCHANGED vars
  BY <1>5 DEF vars, argVars
<1> QED
  BY <1>1, <1>2, <1>3, <1>4, <1>5 DEF Next

(* The arguments are checked before the driver hears of them. *)
LEMMA CheckedNext == Checked /\ [Next]_vars => Checked'
<1> SUFFICES ASSUME Checked, [Next]_vars PROVE Checked'
  OBVIOUS
<1> USE DEF Checked, Before, Goto, Refuse
<1>1. CASE CheckLayer
  <2>1. driver = "fresh" /\ driver' = "fresh" /\ layer' = layer
    BY <1>1 DEF CheckLayer
  <2>2. CASE layer \in KnownLayers
    <3>1. pc' = "flags" /\ flags' = flags \cup Mandatory(layer)
      BY <1>1, <2>2 DEF CheckLayer
    <3>2. Mandatory(layer') \subseteq flags'
      BY <2>1, <3>1
    <3> QED
      BY <2>1, <3>1, <3>2 DEF FlagsAgree
  <2>3. CASE layer \notin KnownLayers
    <3>1. pc' = "done"
      BY <1>1, <2>3 DEF CheckLayer
    <3> QED
      BY <2>1, <3>1 DEF FlagsAgree
  <2> QED
    BY <2>2, <2>3
<1>2. CASE CheckFlags \/ Compile
  BY <1>2 DEF CheckFlags, Compile, FlagsAgree, argVars
<1>3. CASE OpenDevice \/ NewOverlapped
  BY <1>3 DEF OpenDevice, NewOverlapped, FlagsAgree, argVars
<1>4. CASE Initialize
  BY <1>4 DEF Initialize, FlagsAgree, Valid, argVars
<1>5. CASE CheckVersion \/ Startup
  <2>1. UNCHANGED <<layer, flags, priority, told>> /\ driver # "fresh" /\ driver' # "fresh"
    BY <1>5 DEF CheckVersion, Startup, argVars
  <2>2. pc \in {"version", "startup"} /\ pc' \in {"startup", "failed", "closeEvent"}
    BY <1>5 DEF CheckVersion, Startup
  <2>3. Mandatory(layer') \subseteq flags' /\ Valid(flags')
    BY <2>1, <2>2
  <2> QED
    BY <2>1, <2>2, <2>3 DEF FlagsAgree
<1>6. CASE Fail \/ CloseEvent \/ MakeDivert
  BY <1>6 DEF Fail, CloseEvent, MakeDivert, FlagsAgree, argVars
<1>7. CASE UNCHANGED vars
  BY <1>7 DEF vars, argVars, FlagsAgree
<1> QED
  BY <1>1, <1>2, <1>3, <1>4, <1>5, <1>6, <1>7 DEF Next

(* Whatever New is called with and whichever call to Windows fails, no     *)
(* handle or event is left behind an error, but for the one case named in  *)
(* NothingLeftOpen.                                                        *)
THEOREM LeavesNothingOpen == Spec => []NothingLeftOpen
<1>1. Init => Resources
  BY DEF Init, Resources, NothingLeftOpen, Before, InRequests
<1>2. Resources => NothingLeftOpen
  BY DEF Resources
<1> QED
  BY <1>1, <1>2, ResourcesNext, PTL DEF Spec

(* A Divert that New returns is one the driver has started.                *)
THEOREM ReturnsStarted == Spec => []DivertIsStarted
<1>1. Init => Progress
  BY DEF Init, Progress, DivertIsStarted, Before
<1>2. Progress => DivertIsStarted
  BY DEF Progress
<1> QED
  BY <1>1, <1>2, ProgressNext, PTL DEF Spec

(* For every layer and every set of flags, known or not, the flags the     *)
(* driver is told agree with each other and with the layer.                *)
THEOREM TellsAgreeingFlags == Spec => []FlagsAgree
<1>1. Init => Checked
  BY DEF Init, Checked, FlagsAgree, Before
<1>2. Checked => FlagsAgree
  BY DEF Checked
<1> QED
  BY <1>1, <1>2, CheckedNext, PTL DEF Spec

-----------------------------------------------------------------------------
(* The types follow from the checks: the priority is shifted into an       *)
(* unsigned number only when it is in range, the flags are known ones.     *)
Typed == TypeOK /\ Checked /\ priority \in Int

(* A priority in range is shifted without a carry. *)
LEMMA ShiftInRange ==
  ASSUME NEW n \in Int, PriorityMin <= n, n <= PriorityMax
  PROVE  (n + PriorityMax) % 65536 \in 0 .. 2 * PriorityMax
<1>1. 0 <= n + 30000 /\ n + 30000 <= 60000
  BY DEF PriorityMin, PriorityMax
<1>2. (n + 30000) % 65536 = n + 30000
  BY <1>1
<1>3. n + 30000 \in Int /\ 0 <= n + 30000 /\ n + 30000 <= 2 * 30000
  BY <1>1
<1> QED
  BY <1>2, <1>3 DEF PriorityMax

LEMMA TypedNext == Typed /\ [Next]_vars => Typed'
<1> SUFFICES ASSUME Typed, [Next]_vars PROVE Typed'
  OBVIOUS
<1>1. Checked'
  BY CheckedNext DEF Typed
<1> USE DEF Typed, TypeOK, Goto, Refuse
<1>2. CASE CheckLayer \/ CheckFlags \/ Compile
  <2>1. pc' \in {"flags", "compile", "device", "done"} /\ result' \in {result, "error"}
    <3>1. CASE CheckLayer
      BY <3>1 DEF CheckLayer
    <3>2. CASE CheckFlags
      BY <3>2 DEF CheckFlags
    <3>3. CASE Compile
      BY <3>3 DEF Compile
    <3> QED
      BY <1>2, <3>1, <3>2, <3>3
  <2>2. UNCHANGED <<priority, handle, events, driver, told, lost>>
    BY <1>2 DEF CheckLayer, CheckFlags, Compile, argVars
  <2> QED
    BY <1>1, <2>1, <2>2
<1>3. CASE OpenDevice \/ NewOverlapped
  BY <1>1, <1>3 DEF OpenDevice, NewOverlapped, argVars
<1>4. CASE Initialize
  <2>1. CASE driver' = driver /\ told' = told
    BY <1>1, <1>4, <2>1 DEF Initialize, argVars
  <2>2. CASE told' = [flags |-> flags, priority |-> (priority + PriorityMax) % 65536]
    <3>1. Valid(flags) /\ PriorityMin <= priority /\ priority <= PriorityMax
      BY <1>4 DEF Initialize, Checked
    <3>2. (priority + PriorityMax) % 65536 \in 0 .. 2 * PriorityMax
      BY <3>1, ShiftInRange
    <3>3. told'.priority = (priority + PriorityMax) % 65536 /\ told'.flags = flags
      BY <2>2
    <3>4. told'.priority \in 0 .. 2 * PriorityMax /\ told'.flags \subseteq FlagsAll
      BY <3>1, <3>2, <3>3 DEF Valid
    <3> QED
      BY <1>1, <1>4, <3>4 DEF Initialize, argVars
  <2> QED
    BY <1>4, <2>1, <2>2 DEF Initialize
<1>5. CASE CheckVersion \/ Startup \/ Fail
  BY <1>1, <1>5 DEF CheckVersion, Startup, Fail, argVars
<1>6. CASE CloseEvent \/ MakeDivert
  BY <1>1, <1>6 DEF CloseEvent, MakeDivert, argVars
<1>7. CASE UNCHANGED vars
  BY <1>1, <1>7 DEF vars, argVars
<1> QED
  BY <1>2, <1>3, <1>4, <1>5, <1>6, <1>7 DEF Next

(* Whatever the arguments are, the priority the driver is told is one of   *)
(* its range and the flags are known ones.                                 *)
THEOREM TypeCorrect == Spec => []TypeOK
<1>1. Init => Typed
  <2> SUFFICES ASSUME Init PROVE Typed
    OBVIOUS
  <2>1. priority \in Int
    BY PrioritiesAssumption DEF Init
  <2>2. told.flags = {} /\ told.priority = 0
    BY DEF Init, Nothing
  <2>3. told.priority \in 0 .. 2 * PriorityMax
    BY <2>2 DEF PriorityMax
  <2>4. TypeOK
    BY <2>2, <2>3 DEF Init, TypeOK
  <2>5. Checked
    BY DEF Init, Checked, FlagsAgree, Before
  <2> QED
    BY <2>1, <2>4, <2>5 DEF Typed
<1>2. Typed => TypeOK
  BY DEF Typed
<1> QED
  BY <1>1, <1>2, TypedNext, PTL DEF Spec
=============================================================================
