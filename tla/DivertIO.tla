------------------------------ MODULE DivertIO ------------------------------
(***************************************************************************)
(* Overlapped I/O of one Divert (divert.go, raw/raw.go).                   *)
(*                                                                         *)
(* A Divert keeps one handle and ONE windows.Overlapped, with an           *)
(* auto-reset event, and hands the same Overlapped to every Recv and Send. *)
(* ioControl issues the request with DeviceIoControl; when the answer is   *)
(* ERROR_IO_PENDING it blocks in GetOverlappedResult.  Both Windows calls  *)
(* work on the shared structure:                                           *)
(*   internal  Overlapped.Internal, the status;                            *)
(*   high      Overlapped.InternalHigh, the byte count, here the number of *)
(*             the call whose completion wrote it;                         *)
(*   hEvent    whether Overlapped.HEvent is not 0;                         *)
(*   event, eventOpen   the event object, and whether its handle is open.  *)
(*                                                                         *)
(* The goroutines in Users call Recv, Send and Close in any order, each    *)
(* restricted to Ops[u].  A caller may wrap some operations in one mutex   *)
(* (examples/bandwidth_limiter does it for Send): those in Locked.         *)
(* Windows and the driver are external: they are modelled by what          *)
(* ioControl and Close see of them.                                        *)
(***************************************************************************)
EXTENDS Naturals

CONSTANTS Users,     \* the goroutines that hold the *Divert
          Ops,       \* Ops[u]: the operations goroutine u may call
          Locked,    \* the operations the callers wrap in a common mutex
          NoUser,    \* the mutex is free
          MaxCalls   \* bound: Recv and Send calls in one behaviour

IoOps  == {"recv", "send"}
AllOps == IoOps \cup {"close"}

ASSUME UsersAssumption  == NoUser \notin Users
ASSUME OpsAssumption    == Ops \in [Users -> SUBSET AllOps] /\ Locked \subseteq AllOps
ASSUME CallsAssumption  == MaxCalls \in Nat

VARIABLES pc,          \* pc[u]: where goroutine u stands
          op,          \* op[u]: the operation it is in, or was last in
          call,        \* call[u]: the number of its current or last Recv or Send
          waitsOn,     \* waitsOn[u]: the object GetOverlappedResult waits on
          back,        \* back[u]: what the call returned
          calls,       \* number of Recv and Send calls so far
          lock,        \* holder of the callers' mutex
          outcome,     \* outcome[n]: what became of call n in the driver
          withEvent,   \* withEvent[n]: the request of call n carries the event
          internal, high, hEvent,        \* Divert.overlapped
          event, eventOpen,              \* the event object and its handle
          fileOpen, fileSignal           \* Divert.handle, its file object's signal

overlappedVars == <<internal, high>>
handleVars     == <<hEvent, eventOpen, fileOpen>>
signalVars     == <<event, fileSignal>>
requestVars    == <<outcome, withEvent>>
callVars       == <<op, call, calls, lock>>
vars == <<pc, waitsOn, back, callVars, requestVars, overlappedVars, handleVars, signalVars>>

Calls   == 1..MaxCalls
Results == [status : {"none", "ok", "error", "invalid"}, bytes : 0..MaxCalls]
Nothing == [status |-> "none", bytes |-> 0]

(* Mutant: one byte more than the driver counted. *)
ReportOneMore(n, s) == [status |-> s, bytes |-> IF s = "ok" THEN n + 1 ELSE 0]

(* ioControl returns 0 bytes with every error. *)
Report(n, s) == [status |-> s, bytes |-> IF s = "ok" THEN n ELSE 0]

TypeOK ==
    /\ pc \in [Users -> {"idle", "entered", "issued", "waiting", "woken",
                         "eventClosed", "closeHandle", "returned"}]
    /\ op \in [Users -> AllOps \cup {"none"}]
    /\ call \in [Users -> 0..MaxCalls]
    /\ waitsOn \in [Users -> {"none", "event", "file"}]
    /\ back \in [Users -> Results]
    /\ calls \in 0..MaxCalls
    /\ lock \in Users \cup {NoUser}
    /\ outcome \in [Calls -> {"unused", "pending", "ok", "error", "invalid"}]
    /\ withEvent \in [Calls -> BOOLEAN]
    /\ internal \in {"zero", "pending", "ok", "error"}
    /\ high \in 0..MaxCalls
    /\ hEvent \in BOOLEAN /\ eventOpen \in BOOLEAN /\ fileOpen \in BOOLEAN
    /\ event \in BOOLEAN /\ fileSignal \in BOOLEAN

-----------------------------------------------------------------------------
(* New: the handle is open, newOverlapped made a reset auto-reset event. *)
Init ==
    /\ pc = [u \in Users |-> "idle"]
    /\ op = [u \in Users |-> "none"]
    /\ call = [u \in Users |-> 0]
    /\ waitsOn = [u \in Users |-> "none"]
    /\ back = [u \in Users |-> Nothing]
    /\ calls = 0
    /\ lock = NoUser
    /\ outcome = [n \in Calls |-> "unused"]
    /\ withEvent = [n \in Calls |-> FALSE]
    /\ internal = "zero" /\ high = 0
    /\ hEvent = TRUE /\ eventOpen = TRUE /\ fileOpen = TRUE
    /\ event = FALSE /\ fileSignal = FALSE

(* The callers' mutex around an operation. *)
Acquire(u, k) ==
    IF k \in Locked THEN lock = NoUser /\ lock' = u ELSE UNCHANGED lock

(* Goroutine u calls Recv, RecvEx, Send or SendEx. *)
BeginIo(u, k) ==
    /\ pc[u] = "idle" /\ k \in Ops[u] \cap IoOps
    /\ calls < MaxCalls
    /\ Acquire(u, k)
    /\ calls' = calls + 1
    /\ pc' = [pc EXCEPT ![u] = "entered"]
    /\ op' = [op EXCEPT ![u] = k]
    /\ call' = [call EXCEPT ![u] = calls + 1]
    /\ back' = [back EXCEPT ![u] = Nothing]
    /\ UNCHANGED <<waitsOn, requestVars, overlappedVars, handleVars, signalVars>>

(* Goroutine u calls Close. *)
BeginClose(u) ==
    /\ pc[u] = "idle" /\ "close" \in Ops[u]
    /\ Acquire(u, "close")
    /\ pc' = [pc EXCEPT ![u] = "entered"]
    /\ op' = [op EXCEPT ![u] = "close"]
    /\ UNCHANGED <<waitsOn, back, call, calls, requestVars,
                   overlappedVars, handleVars, signalVars>>

(* The call comes back to its caller, who unlocks the mutex. *)
Return(u) ==
    /\ pc[u] = "returned"
    /\ pc' = [pc EXCEPT ![u] = "idle"]
    /\ lock' = IF lock = u THEN NoUser ELSE lock
    /\ UNCHANGED <<op, call, calls, waitsOn, back, requestVars,
                   overlappedVars, handleVars, signalVars>>

(* address == nil, no addresses, or an empty buffer. *)
BadArguments(u) ==
    /\ pc[u] = "entered" /\ op[u] \in IoOps
    /\ pc' = [pc EXCEPT ![u] = "returned"]
    /\ outcome' = [outcome EXCEPT ![call[u]] = "invalid"]
    /\ back' = [back EXCEPT ![u] = Report(call[u], "invalid")]
    /\ UNCHANGED <<waitsOn, callVars, withEvent, overlappedVars, handleVars, signalVars>>

-----------------------------------------------------------------------------
(* DeviceIoControl marks the Overlapped pending before it enters the       *)
(* kernel, which refuses a closed file or event handle.                    *)
HandlesValid == fileOpen /\ (hEvent => eventOpen)

IssueRefused(u) ==
    /\ pc[u] = "entered" /\ op[u] \in IoOps
    /\ ~HandlesValid
    /\ internal' = "pending"
    /\ outcome' = [outcome EXCEPT ![call[u]] = "error"]
    /\ back' = [back EXCEPT ![u] = Report(call[u], "error")]
    /\ pc' = [pc EXCEPT ![u] = "returned"]
    /\ UNCHANGED <<waitsOn, callVars, withEvent, high, handleVars, signalVars>>

(* Mutant: ERROR_IO_PENDING is taken for a failure. *)
PendingIsError(u) ==
    /\ pc[u] = "entered" /\ op[u] \in IoOps /\ HandlesValid
    /\ internal' = "pending" /\ event' = (event /\ ~hEvent) /\ fileSignal' = FALSE
    /\ outcome' = [outcome EXCEPT ![call[u]] = "pending"]
    /\ withEvent' = [withEvent EXCEPT ![call[u]] = hEvent]
    /\ back' = [back EXCEPT ![u] = Report(call[u], "error")]
    /\ pc' = [pc EXCEPT ![u] = "returned"]
    /\ UNCHANGED <<waitsOn, callVars, high, handleVars>>

(* Mutant: the request is issued with an Overlapped that has no event. *)
IssueWithoutEvent(u) ==
    /\ pc[u] = "entered" /\ op[u] \in IoOps /\ HandlesValid
    /\ internal' = "pending" /\ event' = (event /\ ~hEvent) /\ fileSignal' = FALSE
    /\ outcome' = [outcome EXCEPT ![call[u]] = "pending"]
    /\ withEvent' = [withEvent EXCEPT ![call[u]] = FALSE]
    /\ pc' = [pc EXCEPT ![u] = "issued"]
    /\ UNCHANGED <<waitsOn, back, callVars, high, handleVars>>

(* DeviceIoControl returns ERROR_IO_PENDING.  The kernel has reset the     *)
(* event and the file object's own signal.                                 *)
IssuePending(u) ==
    /\ pc[u] = "entered" /\ op[u] \in IoOps
    /\ HandlesValid
    /\ internal' = "pending"
    /\ event' = (event /\ ~hEvent)
    /\ fileSignal' = FALSE
    /\ outcome' = [outcome EXCEPT ![call[u]] = "pending"]
    /\ withEvent' = [withEvent EXCEPT ![call[u]] = hEvent]
    /\ pc' = [pc EXCEPT ![u] = "issued"]
    /\ UNCHANGED <<waitsOn, back, callVars, high, handleVars>>

(* The driver completes the request inside DeviceIoControl, which takes    *)
(* its status and bytes at once; ioControl does not wait.                  *)
IssueDone(u, s) ==
    /\ pc[u] = "entered" /\ op[u] \in IoOps
    /\ HandlesValid
    /\ internal' = s /\ high' = call[u]
    /\ event' = (event \/ hEvent)
    /\ fileSignal' = ~hEvent
    /\ outcome' = [outcome EXCEPT ![call[u]] = s]
    /\ withEvent' = [withEvent EXCEPT ![call[u]] = hEvent]
    /\ back' = [back EXCEPT ![u] = Report(call[u], s)]
    /\ pc' = [pc EXCEPT ![u] = "returned"]
    /\ UNCHANGED <<waitsOn, callVars, handleVars>>

(* The driver completes a pending request: status and bytes go to the      *)
(* Overlapped, then the event (the file object without one) is signalled.  *)
(* Once the file handle is closed a pending request can only be cancelled. *)
Complete(n, s) ==
    /\ outcome[n] = "pending"
    /\ fileOpen \/ s = "error"
    /\ outcome' = [outcome EXCEPT ![n] = s]
    /\ internal' = s /\ high' = n
    /\ event' = (event \/ withEvent[n])
    /\ fileSignal' = (fileSignal \/ ~withEvent[n])
    /\ UNCHANGED <<pc, waitsOn, back, callVars, withEvent, handleVars>>

-----------------------------------------------------------------------------
(* Mutant: GetOverlappedResult is called with bWait = false. *)
FetchAtOnce(u) ==
    /\ pc[u] = "issued"
    /\ pc' = [pc EXCEPT ![u] = "woken"]
    /\ UNCHANGED <<waitsOn, back, callVars, requestVars, overlappedVars, handleVars, signalVars>>

(* GetOverlappedResult(bWait = true): nothing to wait for unless Internal  *)
(* still says pending. *)
SkipWait(u) ==
    /\ pc[u] = "issued"
    /\ internal # "pending"
    /\ pc' = [pc EXCEPT ![u] = "woken"]
    /\ UNCHANGED <<waitsOn, back, callVars, requestVars, overlappedVars, handleVars, signalVars>>

WaitTarget   == IF hEvent THEN "event" ELSE "file"
TargetIsOpen == IF hEvent THEN eventOpen ELSE fileOpen

(* The wait for the handle, or its failure, and the call's, when the       *)
(* handle to wait on is closed.                                            *)
StartWait(u) ==
    /\ pc[u] = "issued" /\ internal = "pending"
    /\ \/ /\ TargetIsOpen
          /\ waitsOn' = [waitsOn EXCEPT ![u] = WaitTarget]
          /\ pc' = [pc EXCEPT ![u] = "waiting"]
          /\ UNCHANGED back
       \/ /\ ~TargetIsOpen
          /\ back' = [back EXCEPT ![u] = Report(call[u], "error")]
          /\ pc' = [pc EXCEPT ![u] = "returned"]
          /\ UNCHANGED waitsOn
    /\ UNCHANGED <<callVars, requestVars, overlappedVars, handleVars, signalVars>>

(* The wait ends; the event lets one waiter through and resets itself. *)
Wake(u) ==
    /\ pc[u] = "waiting"
    /\ \/ waitsOn[u] = "event" /\ event /\ event' = FALSE
       \/ waitsOn[u] = "file" /\ fileSignal /\ UNCHANGED event
    /\ waitsOn' = [waitsOn EXCEPT ![u] = "none"]
    /\ pc' = [pc EXCEPT ![u] = "woken"]
    /\ UNCHANGED <<back, callVars, requestVars, overlappedVars, handleVars, fileSignal>>

(* Mutant: the byte count is the one DeviceIoControl left, not the one of  *)
(* GetOverlappedResult. *)
FetchStatusOnly(u) ==
    /\ pc[u] = "woken"
    /\ back' = [back EXCEPT ![u] =
                   [status |-> IF internal = "error" THEN "error" ELSE "ok", bytes |-> 0]]
    /\ pc' = [pc EXCEPT ![u] = "returned"]
    /\ UNCHANGED <<waitsOn, callVars, requestVars, overlappedVars, handleVars, signalVars>>

(* GetOverlappedResult reads Internal and InternalHigh.  STATUS_PENDING is *)
(* not an error status, so a pending Overlapped reads as success.          *)
FetchResult(u) ==
    /\ pc[u] = "woken"
    /\ back' = [back EXCEPT ![u] =
                   IF internal = "error" THEN Report(call[u], "error")
                                         ELSE [status |-> "ok", bytes |-> high]]
    /\ pc' = [pc EXCEPT ![u] = "returned"]
    /\ UNCHANGED <<waitsOn, callVars, requestVars, overlappedVars, handleVars, signalVars>>

-----------------------------------------------------------------------------
(* Close: CloseHandle(HEvent), HEvent = 0, then CloseHandle(handle). *)
CloseEvent(u) ==
    /\ pc[u] = "entered" /\ op[u] = "close" /\ hEvent
    /\ eventOpen' = FALSE
    /\ pc' = [pc EXCEPT ![u] = "eventClosed"]
    /\ UNCHANGED <<waitsOn, back, callVars, requestVars, overlappedVars,
                   hEvent, fileOpen, signalVars>>

ClearHEvent(u) ==
    /\ pc[u] = "eventClosed"
    /\ hEvent' = FALSE
    /\ pc' = [pc EXCEPT ![u] = "closeHandle"]
    /\ UNCHANGED <<waitsOn, back, callVars, requestVars, overlappedVars,
                   eventOpen, fileOpen, signalVars>>

SkipEvent(u) ==
    /\ pc[u] = "entered" /\ op[u] = "close" /\ ~hEvent
    /\ pc' = [pc EXCEPT ![u] = "closeHandle"]
    /\ UNCHANGED <<waitsOn, back, callVars, requestVars, overlappedVars, handleVars, signalVars>>

(* A second Close finds the handle closed and changes nothing; what Close  *)
(* itself returns is left out.                                             *)
CloseFile(u) ==
    /\ pc[u] = "closeHandle"
    /\ fileOpen' = FALSE
    /\ pc' = [pc EXCEPT ![u] = "returned"]
    /\ UNCHANGED <<waitsOn, back, callVars, requestVars, overlappedVars,
                   hEvent, eventOpen, signalVars>>

-----------------------------------------------------------------------------
Begin(u)   == (\E k \in IoOps : BeginIo(u, k)) \/ BeginClose(u)
Issue(u)   == IssueRefused(u) \/ IssuePending(u) \/ \E s \in {"ok", "error"} : IssueDone(u, s)
Await(u)   == SkipWait(u) \/ StartWait(u) \/ Wake(u) \/ FetchResult(u)
Closing(u) == CloseEvent(u) \/ ClearHEvent(u) \/ SkipEvent(u) \/ CloseFile(u)

(* What the goroutine does by itself once it has made a call. *)
Proceed(u) == BadArguments(u) \/ Issue(u) \/ Await(u) \/ Closing(u) \/ Return(u)

Next ==
    \/ \E u \in Users : Begin(u) \/ Proceed(u)
    \/ \E n \in Calls, s \in {"ok", "error"} : Complete(n, s)

Spec == Init /\ [][Next]_vars

(* A send is always completed by the driver; a receive only when a packet  *)
(* arrives, or when the closing of the handle cancels it.                  *)
MustComplete(n) ==
    /\ \E u \in Users : call[u] = n /\ op[u] = "send"
    /\ \E s \in {"ok", "error"} : Complete(n, s)
Cancel(n) == ~fileOpen /\ Complete(n, "error")

Fairness ==
    /\ \A u \in Users : WF_vars(Proceed(u))
    /\ \A n \in Calls : WF_vars(MustComplete(n)) /\ WF_vars(Cancel(n))

FairSpec == Spec /\ Fairness

-----------------------------------------------------------------------------
(* The hypothesis under which the calls of a Divert keep their promise:    *)
(* one goroutine uses it, or every operation is under one mutex.           *)
SerialUse == AllOps \subseteq Locked \/ \A u, v \in Users : u = v

Done(u) == pc[u] = "returned" /\ op[u] \in IoOps

(* A Recv or Send that reports success was itself successful, and the      *)
(* count it returns is the one the driver wrote for it and for no other    *)
(* call (raw.go, RecvEx: "Returns the total bytes received in buffer").    *)
OwnBytes ==
    \A u \in Users : Done(u) /\ back[u].status = "ok" =>
        outcome[call[u]] = "ok" /\ back[u].bytes = call[u]

(* A call whose request the driver carried out never reports an error: a   *)
(* received packet is not lost, a packet already injected is not sent      *)
(* again by a caller that retries (the Recv loops "continue" on error).    *)
NoFalseError ==
    \A u \in Users : Done(u) /\ back[u].status = "error" =>
        outcome[call[u]] = "error"

(* When a call is back, the driver no longer holds its request: it will    *)
(* not write to the buffer and addresses that runtime.KeepAlive kept alive *)
(* only until then, and that the Recv loops reuse for the next packet.     *)
BufferReleased ==
    \A n \in Calls : outcome[n] = "pending" =>
        \E u \in Users : call[u] = n /\ pc[u] \in {"issued", "waiting", "woken"}

(* A Send comes back: the completion that the driver signals is never      *)
(* consumed by another wait, nor reset before the sender waits for it.     *)
SendReturns ==
    \A u \in Users : (pc[u] = "entered" /\ op[u] = "send") ~> (pc[u] = "returned")

(* A goroutine that already waits on the event when Close runs is let go   *)
(* by the cancellation of its request, although Close closed the event's   *)
(* handle first.                                                           *)
CloseReleasesWaiter ==
    \A u \in Users :
        (pc[u] = "waiting" /\ waitsOn[u] = "event" /\ ~fileOpen) ~> (pc[u] = "returned")

-----------------------------------------------------------------------------
(* Refinement: the calls as their callers should see them.  A Close is not *)
(* one of these calls: its goroutine counts as idle.                       *)
InIo(u) == op[u] \in IoOps /\ pc[u] # "idle"

PhaseOf(u) ==
    CASE ~InIo(u) -> "idle"
      [] InIo(u) /\ pc[u] = "entered"  -> "asked"
      [] InIo(u) /\ pc[u] = "returned" -> "back"
      [] OTHER -> IF outcome[call[u]] = "pending" THEN "asked" ELSE "answered"

AnswerOf(u) ==
    IF call[u] = 0 \/ outcome[call[u]] \in {"unused", "pending"}
    THEN "none" ELSE outcome[call[u]]

Abstract == INSTANCE DivertCalls WITH
    phase  <- [u \in Users |-> PhaseOf(u)],
    answer <- [u \in Users |-> AnswerOf(u)]

(* Every step of the overlapped I/O is a step of the calls' specification, *)
(* or does not change what a caller can see.                               *)
CallsSpec == Abstract!Spec
=============================================================================
