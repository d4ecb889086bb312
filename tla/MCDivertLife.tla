----------------------------- MODULE MCDivertLife -----------------------------
(***************************************************************************)
(* The life of a Divert for TLC: New (OpenHandle, with all layers and one  *)
(* that does not exist, all sets of flags and one with an unknown flag,    *)
(* and priorities at the limits), then its use by a receiving goroutine    *)
(* and the goroutine of a signal handler that closes it (DivertIO).  The   *)
(* I/O does not depend on New's arguments, so it is explored for one       *)
(* choice of them.                                                         *)
(***************************************************************************)
EXTENDS OpenHandle

CONSTANTS main, closer, NoUser, MaxCalls

VARIABLES ioPc, op, call, waitsOn, back, calls, lock, outcome, withEvent,
          internal, high, hEvent, event, eventOpen, fileOpen, fileSignal

ioVars == <<ioPc, op, call, waitsOn, back, calls, lock, outcome, withEvent,
            internal, high, hEvent, event, eventOpen, fileOpen, fileSignal>>

AnyLayer    == KnownLayers \cup {"unknown"}
AnyFlags    == SUBSET FlagsAll \cup {{"unknown"}}
AnyPriority == {-32768, -30001, -30000, 0, 30000, 30001, 32767}

ReceiverAndCloser == {main, closer}
SplitOps == [u \in ReceiverAndCloser |-> IF u = main THEN {"recv"} ELSE {"close"}]

Io == INSTANCE DivertIO WITH Users <- ReceiverAndCloser, Ops <- SplitOps,
                             Locked <- {}, pc <- ioPc

Opened == result = "divert" /\ layer = "network" /\ flags = {} /\ priority = 0

LifeInit == Init /\ Io!Init

Opening == Next /\ UNCHANGED ioVars
Using   == Opened /\ Io!Next /\ UNCHANGED vars

LifeNext == Opening \/ Using

UseFairness ==
    /\ \A u \in ReceiverAndCloser :
           WF_<<vars, ioVars>>(Opened /\ Io!Proceed(u) /\ UNCHANGED vars)
    /\ \A n \in Io!Calls :
           WF_<<vars, ioVars>>(Opened /\ Io!Cancel(n) /\ UNCHANGED vars)

LifeSpec == LifeInit /\ [][LifeNext]_<<vars, ioVars>> /\ UseFairness

-----------------------------------------------------------------------------
(* The goroutine that waits in Recv when Close runs is let go (DivertIO):  *)
(* Close's CloseHandle cancels the request, and the wait ends.             *)
CloseReleasesWaiter == Io!CloseReleasesWaiter
=============================================================================
