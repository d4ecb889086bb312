------------------------------ MODULE OpenHandle ------------------------------
(***************************************************************************)
(* Opening a Divert (divert.go New, raw/raw.go OpenWithName): the checks   *)
(* of the arguments, the device handle, the two requests that hand the     *)
(* filter to the driver, and the events behind them.  Any of the calls to  *)
(* Windows may fail; what must be right is what is left open, and what the *)
(* driver was told.                                                        *)
(*                                                                         *)
(* DriverInstall models openOrInstallDriver, FilterFlatten and             *)
(* FilterAnalyze the compilation; here they succeed or fail.               *)
(***************************************************************************)
EXTENDS Integers, FiniteSets

CONSTANTS Layers,      \* the layer arguments of New
          FlagSets,    \* the flags arguments
          Priorities   \* the priority arguments

KnownLayers == {"network", "forward", "flow", "socket", "reflect"}
FlagsAll    == {"sniff", "drop", "recvOnly", "sendOnly", "noInstall", "fragments"}
PriorityMax == 30000
PriorityMin == -30000

(* priority is an int16. *)
ASSUME PrioritiesAssumption == Priorities \subseteq -32768 .. 32767
ASSUME FlagsAssumption == \A f \in FlagSets : IsFiniteSet(f)

VARIABLES layer, flags, priority,   \* OpenWithName's
          pc,
          handle,      \* the device handle: "none", "open", "closed"
          events,      \* the open events: of OpenWithName, of the Divert
          driver,      \* how far the driver has come with this handle
          told,        \* what Initialize told it: flags and priority
          lost,        \* CreateEvent failed in OpenWithName
          result       \* what New returned

vars == <<layer, flags, priority, pc, handle, events, driver, told, lost, result>>
argVars == <<layer, flags, priority>>

Nothing == [flags |-> {}, priority |-> 0]

TypeOK ==
    /\ pc \in {"layer", "flags", "compile", "device", "event", "initialize", "version",
               "startup", "closeEvent", "failed", "overlapped", "done"}
    /\ handle \in {"none", "open", "closed"}
    /\ events \subseteq {"init", "divert"}
    /\ driver \in {"fresh", "initialized", "started"}
    /\ told.priority \in 0 .. 2 * PriorityMax /\ told.flags \subseteq FlagsAll
    /\ lost \in BOOLEAN
    /\ result \in {"none", "error", "divert"}

Init ==
    /\ layer \in Layers /\ flags \in FlagSets /\ priority \in Priorities
    /\ pc = "layer"
    /\ handle = "none" /\ events = {} /\ driver = "fresh"
    /\ told = Nothing /\ lost = FALSE /\ result = "none"

Goto(l)  == pc' = l
Refuse   == pc' = "done" /\ result' = "error"

Mandatory(l) ==
    CASE l \in {"flow", "reflect"} -> {"sniff", "recvOnly"}
      [] l = "socket" -> {"recvOnly"}
      [] OTHER -> {}

(* Flag.Valid *)
Valid(f) ==
    /\ f \subseteq FlagsAll
    /\ ~({"sniff", "drop"} \subseteq f)
    /\ ~({"recvOnly", "sendOnly"} \subseteq f)

(* The layer is checked, and its mandatory flags are added. *)
CheckLayer ==
    /\ pc = "layer"
    /\ IF layer \in KnownLayers
       THEN Goto("flags") /\ flags' = flags \cup Mandatory(layer) /\ UNCHANGED result
       ELSE Refuse /\ UNCHANGED flags
    /\ UNCHANGED <<layer, priority, handle, events, driver, told, lost>>

(* Mutant: only the upper bound of the priority is checked. *)
CheckFlagsUpper ==
    /\ pc = "flags"
    /\ IF Valid(flags) /\ priority <= PriorityMax
       THEN Goto("compile") /\ UNCHANGED result
       ELSE Refuse
    /\ UNCHANGED <<argVars, handle, events, driver, told, lost>>

(* Mutant: the flags are not checked. *)
CheckPriorityOnly ==
    /\ pc = "flags"
    /\ IF PriorityMin <= priority /\ priority <= PriorityMax
       THEN Goto("compile") /\ UNCHANGED result
       ELSE Refuse
    /\ UNCHANGED <<argVars, handle, events, driver, told, lost>>

CheckFlags ==
    /\ pc = "flags"
    /\ IF Valid(flags) /\ PriorityMin <= priority /\ priority <= PriorityMax
       THEN Goto("compile") /\ UNCHANGED result
       ELSE Refuse
    /\ UNCHANGED <<argVars, handle, events, driver, told, lost>>

(* CompileFilter and AnalyzeFilter. *)
Compile ==
    /\ pc = "compile"
    /\ (Goto("device") /\ UNCHANGED result) \/ Refuse
    /\ UNCHANGED <<argVars, handle, events, driver, told, lost>>

(* openOrInstallDriver *)
OpenDevice ==
    /\ pc = "device"
    /\ \/ handle' = "open" /\ Goto("event") /\ UNCHANGED result
       \/ Refuse /\ UNCHANGED handle
    /\ UNCHANGED <<argVars, events, driver, told, lost>>

(* NewOverlapped; when it fails the handle stays open. *)
NewOverlapped ==
    /\ pc = "event"
    /\ \/ events' = events \cup {"init"} /\ Goto("initialize") /\ UNCHANGED <<lost, result>>
       \/ Refuse /\ lost' = TRUE /\ UNCHANGED events
    /\ UNCHANGED <<argVars, handle, driver, told>>

(* IoctlCodeInitialize; the priority is shifted to be unsigned (in 32 bits; *)
(* 16 are enough to see one that is out of range). *)
Initialize ==
    /\ pc = "initialize"
    /\ \/ /\ driver' = "initialized"
          /\ told' = [flags |-> flags, priority |-> (priority + PriorityMax) % 65536]
          /\ Goto("version")
       \/ Goto("failed") /\ UNCHANGED <<driver, told>>
    /\ UNCHANGED <<argVars, handle, events, lost, result>>

(* The driver's magic number and version. *)
CheckVersion ==
    /\ pc = "version"
    /\ Goto("startup") \/ Goto("failed")
    /\ UNCHANGED <<argVars, handle, events, driver, told, lost, result>>

(* Mutant: the error of IoctlCodeStartup is not looked at. *)
StartupUnchecked ==
    /\ pc = "startup"
    /\ driver' \in {driver, "started"} /\ Goto("closeEvent")
    /\ UNCHANGED <<argVars, handle, events, told, lost, result>>

(* IoctlCodeStartup, with the program and its flags. *)
Startup ==
    /\ pc = "startup"
    /\ \/ driver' = "started" /\ Goto("closeEvent")
       \/ Goto("failed") /\ UNCHANGED driver
    /\ UNCHANGED <<argVars, handle, events, told, lost, result>>

(* Mutant: an error return forgets the handle. *)
FailKeepsHandle ==
    /\ pc = "failed"
    /\ events' = events \ {"init"}
    /\ Refuse
    /\ UNCHANGED <<argVars, handle, driver, told, lost>>

(* The error returns: CloseHandle, and the deferred close of the event. *)
Fail ==
    /\ pc = "failed"
    /\ handle' = "closed"
    /\ events' = events \ {"init"}
    /\ Refuse
    /\ UNCHANGED <<argVars, driver, told, lost>>

(* OpenWithName returns the handle. *)
CloseEvent ==
    /\ pc = "closeEvent"
    /\ events' = events \ {"init"}
    /\ Goto("overlapped")
    /\ UNCHANGED <<argVars, handle, driver, told, lost, result>>

(* New: newOverlapped, or Close, which finds no Overlapped. *)
MakeDivert ==
    /\ pc = "overlapped"
    /\ Goto("done")
    /\ \/ events' = events \cup {"divert"} /\ result' = "divert" /\ UNCHANGED handle
       \/ handle' = "closed" /\ result' = "error" /\ UNCHANGED events
    /\ UNCHANGED <<argVars, driver, told, lost>>

Next ==
    \/ CheckLayer \/ CheckFlags \/ Compile \/ OpenDevice \/ NewOverlapped
    \/ Initialize \/ CheckVersion \/ Startup \/ Fail \/ CloseEvent \/ MakeDivert

Spec == Init /\ [][Next]_vars

-----------------------------------------------------------------------------
(* New leaves nothing behind: after an error neither the handle nor an     *)
(* event is open, whichever call failed (but one: when CreateEvent fails   *)
(* in OpenWithName, raw.go:92, the handle stays open); a Divert has its    *)
(* handle and its own event, and the event of OpenWithName is closed.      *)
NothingLeftOpen ==
    /\ result = "error" => events = {} /\ (handle # "open" \/ lost)
    /\ result = "divert" => events = {"divert"} /\ handle = "open"

(* A Divert that New returns is one the driver has started: no Recv waits  *)
(* on a handle whose filter never reached the driver.                      *)
DivertIsStarted == result = "divert" => driver = "started"

(* The flags the driver is told never contradict each other or the layer,  *)
(* although the layer adds flags to those of the caller.                   *)
FlagsAgree ==
    driver # "fresh" =>
        /\ Mandatory(layer) \subseteq told.flags
        /\ ~({"sniff", "drop"} \subseteq told.flags)
        /\ ~({"recvOnly", "sendOnly"} \subseteq told.flags)
=============================================================================
