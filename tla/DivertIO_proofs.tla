--------------------------- MODULE DivertIO_proofs ---------------------------
(***************************************************************************)
(* Proofs about DivertIO, for any set of goroutines, any operations they   *)
(* may call and any number of calls: type correctness always, and the      *)
(* three promises of Recv and Send under SerialUse.                        *)
(***************************************************************************)
EXTENDS DivertIO, TLAPS

InFlight == {"issued", "waiting", "woken"}

(* At most one goroutine is inside an operation. *)
OneAtATime == \A u, v \in Users : pc[u] # "idle" /\ pc[v] # "idle" => u = v

(* If every operation is under the mutex, whoever is inside holds it. *)
InsideHoldsLock ==
    AllOps \subseteq Locked => \A u \in Users : pc[u] # "idle" => lock = u

(* Who entered is in a known operation; a Recv or Send has its number. *)
KnownOperation ==
    /\ \A u \in Users : op[u] \in IoOps => call[u] \in Calls
    /\ \A u \in Users : pc[u] = "entered" => op[u] \in AllOps

(* The event and the file are closed together, unless a Close is at work. *)
HandlesTogether ==
    (\A u \in Users : pc[u] \notin {"eventClosed", "closeHandle"})
        => (fileOpen => hEvent /\ eventOpen)

ClosingIsClose ==
    \A u \in Users : pc[u] \in {"eventClosed", "closeHandle"} => op[u] = "close"

(* Who is between DeviceIoControl and the result finds in the Overlapped   *)
(* the state of its own request.                                           *)
OverlappedIsOwn ==
    \A u \in Users : pc[u] \in InFlight =>
        /\ op[u] \in IoOps /\ hEvent /\ eventOpen
        /\ pc[u] = "waiting" => waitsOn[u] = "event"
        /\ \/ /\ outcome[call[u]] = "pending" /\ internal = "pending"
              /\ pc[u] # "woken" /\ ~event
           \/ /\ outcome[call[u]] \in {"ok", "error"}
              /\ internal = outcome[call[u]] /\ high = call[u]

(* The driver holds no request but that of the goroutine inside. *)
PendingIsOwned ==
    \A n \in Calls : outcome[n] = "pending" =>
        \E u \in Users : call[u] = n /\ pc[u] \in {"issued", "waiting"}

Serial ==
    /\ OneAtATime
    /\ InsideHoldsLock

Own ==
    /\ KnownOperation
    /\ HandlesTogether
    /\ ClosingIsClose
    /\ OverlappedIsOwn
    /\ PendingIsOwned
    /\ OwnBytes
    /\ NoFalseError

(* The inductive invariant: OwnBytes and NoFalseError speak of the calls   *)
(* that are back, and hold because each call inside finds the Overlapped   *)
(* in the state of its own request, alone.                                 *)
IInv == TypeOK /\ Serial /\ Own

-----------------------------------------------------------------------------
(* A fresh call has a result of the right type. *)
LEMMA NothingType == Nothing \in Results
  BY CallsAssumption DEF Nothing, Results

(* What ioControl reports of a call has the type of a result. *)
LEMMA ReportType ==
  ASSUME NEW n \in 0..MaxCalls, NEW s \in {"ok", "error", "invalid"}
  PROVE  Report(n, s) \in Results
<1>1. (IF s = "ok" THEN n ELSE 0) \in 0..MaxCalls
  BY CallsAssumption
<1> QED
  BY <1>1 DEF Report, Results

(* So has what GetOverlappedResult reads. *)
LEMMA FetchedType ==
  ASSUME NEW n \in 0..MaxCalls
  PROVE  [status |-> "ok", bytes |-> n] \in Results
  BY DEF Results

(* Type correctness: every variable of a Divert keeps to its range,        *)
(* whatever goroutines do (no SerialUse here).                             *)
LEMMA TypeInit == Init => TypeOK
<1> SUFFICES ASSUME Init PROVE TypeOK
  OBVIOUS
<1>1. 0 \in 0..MaxCalls
  BY CallsAssumption
<1>2. pc \in [Users -> {"idle"}] /\ op \in [Users -> {"none"}]
      /\ waitsOn \in [Users -> {"none"}]
  BY DEF Init
<1>3. call \in [Users -> 0..MaxCalls] /\ calls \in 0..MaxCalls /\ high \in 0..MaxCalls
  BY <1>1 DEF Init
<1>4. back \in [Users -> Results]
  BY NothingType DEF Init
<1>5. outcome \in [Calls -> {"unused"}] /\ withEvent \in [Calls -> BOOLEAN]
  BY DEF Init
<1> QED
  BY <1>2, <1>3, <1>4, <1>5 DEF Init, TypeOK

(* Every step keeps the types. *)
LEMMA TypeNext == TypeOK /\ [Next]_vars => TypeOK'
<1> SUFFICES ASSUME TypeOK, [Next]_vars PROVE TypeOK'
  OBVIOUS
<1> USE CallsAssumption DEF TypeOK, IoOps, AllOps
<1>1. ASSUME NEW u \in Users, NEW k \in IoOps, BeginIo(u, k) PROVE TypeOK'
  BY <1>1, NothingType DEF BeginIo, Acquire, requestVars, overlappedVars, handleVars, signalVars
<1>2. ASSUME NEW u \in Users, BeginClose(u) PROVE TypeOK'
  BY <1>2 DEF BeginClose, Acquire, requestVars, overlappedVars, handleVars, signalVars
<1>3. ASSUME NEW u \in Users, Return(u) PROVE TypeOK'
  BY <1>3 DEF Return, requestVars, overlappedVars, handleVars, signalVars
<1>4. ASSUME NEW u \in Users, BadArguments(u) PROVE TypeOK'
  BY <1>4, ReportType DEF BadArguments, callVars, overlappedVars, handleVars, signalVars
<1>5. ASSUME NEW u \in Users, IssueRefused(u) PROVE TypeOK'
  BY <1>5, ReportType DEF IssueRefused, callVars, handleVars, signalVars
<1>6. ASSUME NEW u \in Users, IssuePending(u) PROVE TypeOK'
  BY <1>6 DEF IssuePending, callVars, handleVars
<1>7. ASSUME NEW u \in Users, NEW s \in {"ok", "error"}, IssueDone(u, s) PROVE TypeOK'
  BY <1>7, ReportType DEF IssueDone, callVars, handleVars
<1>8. ASSUME NEW u \in Users, SkipWait(u) PROVE TypeOK'
  BY <1>8 DEF SkipWait, callVars, requestVars, overlappedVars, handleVars, signalVars
<1>9. ASSUME NEW u \in Users, StartWait(u) PROVE TypeOK'
  BY <1>9, ReportType DEF StartWait, WaitTarget, callVars, requestVars, overlappedVars,
                          handleVars, signalVars
<1>10. ASSUME NEW u \in Users, Wake(u) PROVE TypeOK'
  BY <1>10 DEF Wake, callVars, requestVars, overlappedVars, handleVars, signalVars
<1>11. ASSUME NEW u \in Users, FetchResult(u) PROVE TypeOK'
  BY <1>11, ReportType, FetchedType DEF FetchResult, callVars, requestVars, overlappedVars, handleVars, signalVars
<1>12. ASSUME NEW u \in Users, Closing(u) PROVE TypeOK'
  BY <1>12 DEF Closing, CloseEvent, ClearHEvent, SkipEvent, CloseFile,
               callVars, requestVars, overlappedVars, handleVars, signalVars
<1>13. ASSUME NEW n \in Calls, NEW s \in {"ok", "error"}, Complete(n, s) PROVE TypeOK'
  BY <1>13 DEF Complete, Calls, callVars, handleVars
<1>14. CASE UNCHANGED vars
  BY <1>14 DEF vars, callVars, requestVars, overlappedVars, handleVars, signalVars
<1> QED
  BY <1>1, <1>2, <1>3, <1>4, <1>5, <1>6, <1>7, <1>8, <1>9, <1>10, <1>11,
     <1>12, <1>13, <1>14 DEF Next, Begin, Proceed, Issue, Await

(* TypeOK in every reachable state, however many goroutines call whatever:
   a byte count, a status or a wait target of another kind never appears. *)
THEOREM TypeCorrect == Spec => []TypeOK
  BY TypeInit, TypeNext, PTL DEF Spec

-----------------------------------------------------------------------------
(* Under SerialUse the other parts of IInv are inductive as well.          *)
LEMMA SerialNext ==
  ASSUME SerialUse, TypeOK, Serial, [Next]_vars
  PROVE  Serial'
<1> USE DEF Serial, OneAtATime, InsideHoldsLock
<1>1. ASSUME NEW u \in Users, NEW k \in AllOps, pc[u] = "idle", Acquire(u, k),
             pc' = [pc EXCEPT ![u] = "entered"]
      PROVE  Serial'
  BY <1>1, OpsAssumption, UsersAssumption DEF SerialUse, Acquire, TypeOK
<1>2. ASSUME NEW u \in Users, pc[u] = "returned",
             pc' = [pc EXCEPT ![u] = "idle"],
             lock' = IF lock = u THEN NoUser ELSE lock
      PROVE  Serial'
  BY <1>2 DEF TypeOK
<1>3. ASSUME NEW u \in Users, NEW l, pc[u] # "idle",
             pc' = [pc EXCEPT ![u] = l], UNCHANGED lock
      PROVE  Serial'
  BY <1>3 DEF TypeOK
<1>4. CASE UNCHANGED <<pc, lock>>
  BY <1>4
<1>5. ASSUME NEW u \in Users, Begin(u) PROVE Serial'
  BY <1>5, <1>1 DEF Begin, BeginIo, BeginClose, AllOps
<1>6. ASSUME NEW u \in Users, BadArguments(u) \/ Issue(u) PROVE Serial'
  BY <1>6, <1>3 DEF BadArguments, Issue, IssueRefused, IssuePending, IssueDone, callVars
<1>7. ASSUME NEW u \in Users, Await(u) PROVE Serial'
  BY <1>7, <1>3 DEF Await, SkipWait, StartWait, Wake, FetchResult, callVars
<1>8. ASSUME NEW u \in Users, Closing(u) PROVE Serial'
  BY <1>8, <1>3 DEF Closing, CloseEvent, ClearHEvent, SkipEvent, CloseFile, callVars
<1>9. ASSUME NEW u \in Users, Return(u) PROVE Serial'
  BY <1>9, <1>2 DEF Return
<1>10. ASSUME NEW n \in Calls, NEW s \in {"ok", "error"}, Complete(n, s) PROVE Serial'
  BY <1>10, <1>4 DEF Complete, callVars
<1>11. CASE UNCHANGED vars
  BY <1>11, <1>4 DEF vars, callVars
<1> QED
  BY <1>5, <1>6, <1>7, <1>8, <1>9, <1>10, <1>11 DEF Next, Proceed

(* The calls being serial, the Overlapped stays that of the call inside. *)
LEMMA OwnNext ==
  ASSUME TypeOK, TypeOK', Serial, Own, [Next]_vars
  PROVE  Own'
<1> USE CallsAssumption DEF Serial, OneAtATime, Own, KnownOperation, HandlesTogether,
        ClosingIsClose, OverlappedIsOwn, PendingIsOwned, OwnBytes, NoFalseError,
        Done, InFlight, IoOps, AllOps, Calls, TypeOK
<1>0. ASSUME NEW u \in Users, pc[u] = "entered"
      PROVE  /\ \A n \in Calls : outcome[n] # "pending"
             /\ \A v \in Users : v # u => pc[v] = "idle"
  BY <1>0
<1>1. ASSUME NEW u \in Users, NEW k \in IoOps, BeginIo(u, k) PROVE Own'
  BY <1>1 DEF BeginIo, requestVars, overlappedVars, handleVars, signalVars
<1>2. ASSUME NEW u \in Users, BeginClose(u) PROVE Own'
  BY <1>2 DEF BeginClose, requestVars, overlappedVars, handleVars, signalVars
<1>3. ASSUME NEW u \in Users, Return(u) PROVE Own'
  BY <1>3 DEF Return, requestVars, overlappedVars, handleVars, signalVars
<1>4. ASSUME NEW u \in Users, BadArguments(u) PROVE Own'
  <2> pc[u] = "entered" /\ op[u] \in IoOps
    BY <1>4 DEF BadArguments
  <2>1. KnownOperation' /\ ClosingIsClose' /\ HandlesTogether'
    BY <1>4 DEF BadArguments, Report, callVars, overlappedVars, handleVars
  <2>2. OverlappedIsOwn'
    BY <1>4, <1>0 DEF BadArguments, Report, callVars, overlappedVars, handleVars
  <2>3. PendingIsOwned'
    BY <1>4, <1>0 DEF BadArguments, Report, callVars, overlappedVars, handleVars
  <2>4. OwnBytes' /\ NoFalseError'
    BY <1>4, <1>0 DEF BadArguments, Report, callVars, overlappedVars, handleVars
  <2> QED
    BY <2>1, <2>2, <2>3, <2>4
<1>5. ASSUME NEW u \in Users, IssueRefused(u) PROVE Own'
  <2> pc[u] = "entered" /\ op[u] \in IoOps
    BY <1>5 DEF IssueRefused
  <2>1. KnownOperation' /\ ClosingIsClose' /\ HandlesTogether'
    BY <1>5 DEF IssueRefused, Report, callVars, handleVars
  <2>2. OverlappedIsOwn'
    BY <1>5, <1>0 DEF IssueRefused, Report, callVars, handleVars
  <2>3. PendingIsOwned'
    BY <1>5, <1>0 DEF IssueRefused, Report, callVars, handleVars
  <2>4. OwnBytes' /\ NoFalseError'
    BY <1>5, <1>0 DEF IssueRefused, Report, callVars, handleVars
  <2> QED
    BY <2>1, <2>2, <2>3, <2>4
<1>6. ASSUME NEW u \in Users, IssuePending(u) PROVE Own'
  <2> pc[u] = "entered" /\ op[u] \in IoOps
    BY <1>6 DEF IssuePending
  <2>1. KnownOperation' /\ ClosingIsClose' /\ HandlesTogether'
    BY <1>6 DEF IssuePending, HandlesValid, callVars, handleVars
  <2>2. OverlappedIsOwn'
    <3>1. hEvent /\ eventOpen
      BY <1>6, <1>0 DEF IssuePending, HandlesValid
    <3>2. ~event'
      BY <1>6, <3>1 DEF IssuePending
    <3> QED
      BY <1>6, <1>0, <3>1, <3>2 DEF IssuePending, callVars, handleVars
  <2>3. PendingIsOwned'
    BY <1>6, <1>0 DEF IssuePending, HandlesValid, callVars, handleVars
  <2>4. OwnBytes' /\ NoFalseError'
    BY <1>6, <1>0 DEF IssuePending, HandlesValid, callVars, handleVars
  <2> QED
    BY <2>1, <2>2, <2>3, <2>4
<1>7. ASSUME NEW u \in Users, NEW s \in {"ok", "error"}, IssueDone(u, s) PROVE Own'
  <2> pc[u] = "entered" /\ op[u] \in IoOps
    BY <1>7 DEF IssueDone
  <2>1. KnownOperation' /\ ClosingIsClose' /\ HandlesTogether'
    BY <1>7 DEF IssueDone, Report, callVars, handleVars
  <2>2. OverlappedIsOwn'
    BY <1>7, <1>0 DEF IssueDone, Report, callVars, handleVars
  <2>3. PendingIsOwned'
    BY <1>7, <1>0 DEF IssueDone, Report, callVars, handleVars
  <2>4. OwnBytes' /\ NoFalseError'
    BY <1>7, <1>0 DEF IssueDone, Report, callVars, handleVars
  <2> QED
    BY <2>1, <2>2, <2>3, <2>4
<1>8. ASSUME NEW u \in Users, SkipWait(u) PROVE Own'
  BY <1>8 DEF SkipWait, callVars, requestVars, overlappedVars, handleVars, signalVars
<1>9. ASSUME NEW u \in Users, StartWait(u) PROVE Own'
  <2>1. hEvent /\ TargetIsOpen
    BY <1>9 DEF StartWait, TargetIsOpen
  <2>2. /\ pc[u] = "issued" /\ pc' = [pc EXCEPT ![u] = "waiting"]
        /\ waitsOn' = [waitsOn EXCEPT ![u] = "event"]
        /\ UNCHANGED <<op, call, calls, lock, back, outcome, withEvent, internal, high, hEvent,
                       eventOpen, fileOpen, event, fileSignal>>
    BY <1>9, <2>1 DEF StartWait, WaitTarget, callVars, requestVars, overlappedVars, handleVars,
                      signalVars
  <2> QED
    BY <2>2
<1>10. ASSUME NEW u \in Users, Wake(u) PROVE Own'
  <2>1. /\ pc[u] = "waiting" /\ pc' = [pc EXCEPT ![u] = "woken"]
        /\ UNCHANGED <<op, call, outcome, back, internal, high, hEvent, eventOpen, fileOpen>>
        /\ event' \in BOOLEAN
    BY <1>10 DEF Wake, callVars, requestVars, overlappedVars, handleVars
  <2>2. \A v \in Users : v # u => pc[v] = "idle"
    BY <2>1
  <2>3. outcome[call[u]] # "pending" /\ waitsOn[u] = "event"
    BY <1>10, <2>1 DEF Wake
  <2>4. KnownOperation' /\ ClosingIsClose' /\ HandlesTogether'
    BY <2>1
  <2>5. OverlappedIsOwn'
    BY <2>1, <2>2, <2>3
  <2>6. PendingIsOwned'
    BY <2>1, <2>2, <2>3
  <2>7. OwnBytes' /\ NoFalseError'
    BY <2>1
  <2> QED
    BY <2>4, <2>5, <2>6, <2>7
<1>11. ASSUME NEW u \in Users, FetchResult(u) PROVE Own'
  BY <1>11 DEF FetchResult, Report, callVars, requestVars, overlappedVars, handleVars, signalVars
<1>12. ASSUME NEW u \in Users, Closing(u) PROVE Own'
  <2>0. pc[u] # "idle" => \A v \in Users : v # u => pc[v] = "idle"
    OBVIOUS
  <2>1. CASE CloseEvent(u)
    <3>1. /\ pc[u] = "entered" /\ op[u] = "close" /\ pc' = [pc EXCEPT ![u] = "eventClosed"]
          /\ UNCHANGED <<op, call, outcome, back>>
      BY <2>1 DEF CloseEvent, callVars, requestVars
    <3>2. KnownOperation' /\ ClosingIsClose' /\ HandlesTogether'
      BY <3>1
    <3>3. OverlappedIsOwn' /\ PendingIsOwned'
      BY <2>0, <3>1
    <3>4. OwnBytes' /\ NoFalseError'
      BY <2>0, <3>1
    <3> QED
      BY <3>2, <3>3, <3>4
  <2>2. CASE ClearHEvent(u)
    <3>1. /\ pc[u] = "eventClosed" /\ pc' = [pc EXCEPT ![u] = "closeHandle"]
          /\ UNCHANGED <<op, call, outcome, back>>
      BY <2>2 DEF ClearHEvent, callVars, requestVars
    <3>2. KnownOperation' /\ ClosingIsClose' /\ HandlesTogether'
      BY <3>1
    <3>3. OverlappedIsOwn' /\ PendingIsOwned'
      BY <2>0, <3>1
    <3>4. OwnBytes' /\ NoFalseError'
      BY <2>0, <3>1
    <3> QED
      BY <3>2, <3>3, <3>4
  <2>3. CASE SkipEvent(u)
    BY <2>3 DEF SkipEvent, callVars, requestVars, overlappedVars, handleVars, signalVars
  <2>4. CASE CloseFile(u)
    BY <2>4 DEF CloseFile, callVars, requestVars, overlappedVars, signalVars
  <2> QED
    BY <1>12, <2>1, <2>2, <2>3, <2>4 DEF Closing
<1>13. ASSUME NEW n \in Calls, NEW s \in {"ok", "error"}, Complete(n, s) PROVE Own'
  <2>1. PICK w \in Users : call[w] = n /\ pc[w] \in {"issued", "waiting"}
    BY <1>13 DEF Complete
  <2>2. \A v \in Users : v # w => pc[v] = "idle"
    BY <2>1
  <2>3. KnownOperation' /\ ClosingIsClose' /\ HandlesTogether'
    BY <1>13 DEF Complete, callVars, handleVars
  <2>4. OverlappedIsOwn'
    <3>1. /\ op[w] \in IoOps /\ hEvent /\ eventOpen
          /\ pc[w] = "waiting" => waitsOn[w] = "event"
      BY <2>1
    <3>2. /\ outcome'[n] = s /\ internal' = s /\ high' = n
          /\ UNCHANGED <<pc, op, call, waitsOn, hEvent, eventOpen>>
      BY <1>13 DEF Complete, callVars, handleVars
    <3> QED
      BY <2>1, <2>2, <3>1, <3>2
  <2>5. PendingIsOwned'
    BY <1>13 DEF Complete, callVars
  <2>6. OwnBytes' /\ NoFalseError'
    BY <1>13, <2>1, <2>2 DEF Complete, callVars
  <2> QED
    BY <2>3, <2>4, <2>5, <2>6
<1>14. CASE UNCHANGED vars
  BY <1>14 DEF vars, callVars, requestVars, overlappedVars, handleVars, signalVars
<1> QED
  BY <1>1, <1>2, <1>3, <1>4, <1>5, <1>6, <1>7, <1>8, <1>9, <1>10, <1>11,
     <1>12, <1>13, <1>14 DEF Next, Begin, Proceed, Issue, Await

(* The invariant holds of a new Divert. *)
LEMMA IInvInit == ASSUME SerialUse, Init PROVE IInv
<1>1. TypeOK
  BY TypeInit
<1>2. Serial /\ Own
  BY DEF Init, Serial, OneAtATime, InsideHoldsLock, Own, KnownOperation, HandlesTogether,
         ClosingIsClose, OverlappedIsOwn, PendingIsOwned, OwnBytes, NoFalseError,
         Done, InFlight, IoOps
<1> QED
  BY <1>1, <1>2 DEF IInv

(* Every step keeps the invariant. *)
LEMMA IInvNext == ASSUME SerialUse, IInv, [Next]_vars PROVE IInv'
  BY TypeNext, SerialNext, OwnNext DEF IInv

(* The invariant holds of every serial use. *)
LEMMA IInvHolds == ASSUME SerialUse PROVE Spec => []IInv
  BY IInvInit, IInvNext, PTL DEF Spec

(* When the uses of a Divert do not overlap, a successful Recv or Send     *)
(* returns the byte count of its own request, for any number of goroutines *)
(* and of calls.                                                           *)
THEOREM OwnBytesHolds == ASSUME SerialUse PROVE Spec => []OwnBytes
<1>1. IInv => OwnBytes
  BY DEF IInv, Own
<1> QED
  BY <1>1, IInvHolds, PTL

(* ... and a call reports an error only when its own request failed. *)
THEOREM NoFalseErrorHolds == ASSUME SerialUse PROVE Spec => []NoFalseError
<1>1. IInv => NoFalseError
  BY DEF IInv, Own
<1> QED
  BY <1>1, IInvHolds, PTL

(* ... and the driver never holds the buffer of a call that is back. *)
THEOREM BufferReleasedHolds == ASSUME SerialUse PROVE Spec => []BufferReleased
<1>1. IInv => BufferReleased
  BY DEF IInv, Own, PendingIsOwned, BufferReleased
<1> QED
  BY <1>1, IInvHolds, PTL

-----------------------------------------------------------------------------
(* The refinement needs besides that no two calls share a number. *)
Numbered ==
    /\ \A n \in Calls : n > calls => outcome[n] = "unused"
    /\ \A u \in Users : call[u] <= calls
    /\ \A u, v \in Users : call[u] = call[v] /\ u # v => call[u] = 0
    /\ \A u \in Users : pc[u] = "entered" /\ op[u] \in IoOps => outcome[call[u]] = "unused"

(* Every step keeps the numbering of the calls. *)
LEMMA NumberedNext ==
  ASSUME TypeOK, TypeOK', Serial, Own, Numbered, [Next]_vars
  PROVE  Numbered'
<1> USE CallsAssumption DEF Serial, OneAtATime, Own, KnownOperation, Numbered,
        IoOps, AllOps, Calls, TypeOK
<1>1. ASSUME NEW u \in Users, NEW k \in IoOps, BeginIo(u, k) PROVE Numbered'
  BY <1>1 DEF BeginIo, requestVars
<1>2. ASSUME NEW u \in Users, BeginClose(u) PROVE Numbered'
  BY <1>2 DEF BeginClose, requestVars
<1>3. ASSUME NEW u \in Users, NEW l, NEW s, pc[u] = "entered", op[u] \in IoOps, l # "entered",
             outcome' = [outcome EXCEPT ![call[u]] = s],
             pc' = [pc EXCEPT ![u] = l], UNCHANGED callVars
      PROVE  Numbered'
  BY <1>3 DEF callVars
<1>4. ASSUME NEW u \in Users, NEW l, l # "entered",
             pc' = [pc EXCEPT ![u] = l], UNCHANGED <<op, call, calls, outcome>>
      PROVE  Numbered'
  BY <1>4
<1>5. ASSUME NEW u \in Users, BadArguments(u) \/ Issue(u) PROVE Numbered'
  <2>1. CASE BadArguments(u)
    BY <2>1, <1>3 DEF BadArguments
  <2>2. CASE IssueRefused(u)
    BY <2>2, <1>3 DEF IssueRefused
  <2>3. CASE IssuePending(u)
    BY <2>3, <1>3 DEF IssuePending
  <2>4. ASSUME NEW s \in {"ok", "error"}, IssueDone(u, s) PROVE Numbered'
    BY <2>4, <1>3 DEF IssueDone
  <2> QED
    BY <1>5, <2>1, <2>2, <2>3, <2>4 DEF Issue
<1>6. ASSUME NEW u \in Users, Await(u) \/ Closing(u) \/ Return(u) PROVE Numbered'
  BY <1>6, <1>4 DEF Await, SkipWait, StartWait, Wake, FetchResult, Return,
       Closing, CloseEvent, ClearHEvent, SkipEvent, CloseFile, callVars, requestVars
<1>7. ASSUME NEW n \in Calls, NEW s \in {"ok", "error"}, Complete(n, s) PROVE Numbered'
  BY <1>7 DEF Complete, callVars
<1>8. CASE UNCHANGED vars
  BY <1>8 DEF vars, callVars, requestVars
<1> QED
  BY <1>1, <1>2, <1>5, <1>6, <1>7, <1>8 DEF Next, Begin, Proceed

(* A step of one goroutine leaves the others' calls as they were. *)
LEMMA OthersKeep ==
  ASSUME NEW u \in Users, NEW p, NEW a,
         PhaseOf(u)' = p, AnswerOf(u)' = a,
         \A v \in Users : v # u => PhaseOf(v)' = PhaseOf(v) /\ AnswerOf(v)' = AnswerOf(v)
  PROVE  /\ [v \in Users |-> PhaseOf(v)]' = [[v \in Users |-> PhaseOf(v)] EXCEPT ![u] = p]
         /\ [v \in Users |-> AnswerOf(v)]' = [[v \in Users |-> AnswerOf(v)] EXCEPT ![u] = a]
  OBVIOUS

(* A step of goroutine u, alone inside, does not show to the others. *)
LEMMA OthersUnaware ==
  ASSUME TypeOK, TypeOK', Numbered, Numbered', NEW u \in Users, NEW s,
         \A v \in Users : v # u => pc[v] = "idle" /\ pc'[v] = "idle" /\ call'[v] = call[v],
         outcome' = outcome \/ outcome' = [outcome EXCEPT ![call'[u]] = s]
  PROVE  \A v \in Users : v # u => PhaseOf(v)' = PhaseOf(v) /\ AnswerOf(v)' = AnswerOf(v)
<1> SUFFICES ASSUME NEW v \in Users, v # u
             PROVE  PhaseOf(v)' = PhaseOf(v) /\ AnswerOf(v)' = AnswerOf(v)
  OBVIOUS
<1>1. PhaseOf(v) = "idle" /\ PhaseOf(v)' = "idle"
  BY DEF PhaseOf, InIo
<1>2. call[v] = 0 \/ outcome'[call[v]] = outcome[call[v]]
  <2>1. call'[u] # call'[v] \/ call'[v] = 0
    BY DEF Numbered
  <2>2. call[v] = 0 \/ call[v] \in Calls
    BY CallsAssumption DEF TypeOK, Calls
  <2> QED
    BY <2>1, <2>2 DEF TypeOK
<1> QED
  BY <1>1, <1>2 DEF AnswerOf

(* A new Divert is a new set of calls. *)
LEMMA AbstractInit == Init => Abstract!Init
<1> SUFFICES ASSUME Init PROVE Abstract!Init
  OBVIOUS
<1>1. \A u \in Users : PhaseOf(u) = "idle" /\ AnswerOf(u) = "none"
  BY DEF Init, PhaseOf, InIo, AnswerOf
<1> QED
  BY <1>1 DEF Init, Nothing, Abstract!Init, Abstract!Nothing

(* Every step is one of the calls' specification, or a stutter. *)
LEMMA AbstractNext ==
  ASSUME TypeOK, TypeOK', Serial, Serial', Own, Own', Numbered, Numbered', [Next]_vars
  PROVE  [Abstract!Next]_(Abstract!vars)
<1> USE DEF Abstract!Report, Report
<1>1. ASSUME NEW u \in Users, NEW k \in IoOps, BeginIo(u, k) PROVE Abstract!Ask(u)
  <2>1. PhaseOf(u) = "idle" /\ PhaseOf(u)' = "asked" /\ AnswerOf(u)' = "none"
    BY <1>1 DEF BeginIo, PhaseOf, AnswerOf, InIo, requestVars, Numbered, TypeOK, Calls
  <2>2. \A v \in Users : v # u => PhaseOf(v)' = PhaseOf(v) /\ AnswerOf(v)' = AnswerOf(v)
    BY <1>1, OthersUnaware DEF BeginIo, Serial, OneAtATime, requestVars, TypeOK
  <2> QED
    BY <1>1, <2>1, <2>2, OthersKeep DEF BeginIo, Nothing, Abstract!Ask, Abstract!Nothing
<1>2. ASSUME NEW u \in Users, NEW s \in {"ok", "error", "invalid"},
             pc[u] = "entered", op[u] \in IoOps, UNCHANGED callVars,
             pc' = [pc EXCEPT ![u] = "returned"],
             outcome' = [outcome EXCEPT ![call[u]] = s],
             back' = [back EXCEPT ![u] = Report(call[u], s)]
      PROVE  Abstract!AnswerAtOnce(u, s)
  <2>1. PhaseOf(u) = "asked" /\ PhaseOf(u)' = "back" /\ AnswerOf(u)' = s
    BY <1>2 DEF PhaseOf, AnswerOf, InIo, callVars, Own, KnownOperation, Calls, TypeOK
  <2>2. \A v \in Users : v # u => PhaseOf(v)' = PhaseOf(v) /\ AnswerOf(v)' = AnswerOf(v)
    BY <1>2, OthersUnaware DEF Serial, OneAtATime, callVars, TypeOK
  <2> QED
    BY <1>2, <2>1, <2>2, OthersKeep DEF callVars, Abstract!AnswerAtOnce
<1>3. ASSUME NEW u \in Users, UNCHANGED <<call, calls, outcome, back>>,
             pc[u] # "idle" \/ pc'[u] # "idle", \A v \in Users : v # u => pc'[v] = pc[v],
             PhaseOf(u)' = PhaseOf(u)
      PROVE  UNCHANGED Abstract!vars
  <2>1. AnswerOf(u)' = AnswerOf(u)
    BY <1>3 DEF AnswerOf
  <2>2. \A v \in Users : v # u => PhaseOf(v)' = PhaseOf(v) /\ AnswerOf(v)' = AnswerOf(v)
    BY <1>3, OthersUnaware DEF Serial, OneAtATime, TypeOK
  <2> QED
    BY <1>3, <2>1, <2>2 DEF Abstract!vars
<1>4. ASSUME NEW u \in Users, BeginClose(u) \/ Closing(u) PROVE UNCHANGED Abstract!vars
  BY <1>4, <1>3 DEF BeginClose, Closing, CloseEvent, ClearHEvent, SkipEvent, CloseFile, PhaseOf,
       InIo, IoOps, callVars, requestVars, Own, ClosingIsClose, TypeOK
<1>5. ASSUME NEW u \in Users, SkipWait(u) \/ StartWait(u) \/ Wake(u)
      PROVE  UNCHANGED Abstract!vars
  <2>1. pc[u] \in InFlight => TargetIsOpen
    BY DEF TargetIsOpen, Own, OverlappedIsOwn, InFlight
  <2> QED
    BY <1>5, <1>3, <2>1 DEF SkipWait, StartWait, Wake, PhaseOf, InIo, InFlight, callVars,
         requestVars, TypeOK
<1>6. ASSUME NEW u \in Users, IssuePending(u) PROVE UNCHANGED Abstract!vars
  <2>1. PhaseOf(u)' = PhaseOf(u) /\ AnswerOf(u)' = AnswerOf(u)
    BY <1>6 DEF IssuePending, PhaseOf, AnswerOf, InIo, callVars, Numbered, Own, KnownOperation,
         Calls, TypeOK
  <2>2. \A v \in Users : v # u => PhaseOf(v)' = PhaseOf(v) /\ AnswerOf(v)' = AnswerOf(v)
    BY <1>6, OthersUnaware DEF IssuePending, callVars, Serial, OneAtATime, TypeOK
  <2> QED
    BY <1>6, <2>1, <2>2 DEF IssuePending, callVars, Abstract!vars
<1>7. ASSUME NEW u \in Users, FetchResult(u) PROVE Abstract!GiveBack(u)
  <2>1. /\ op[u] \in IoOps /\ outcome[call[u]] \in {"ok", "error"} /\ call[u] \in Calls
        /\ internal = outcome[call[u]] /\ high = call[u]
    BY <1>7 DEF FetchResult, Own, OverlappedIsOwn, KnownOperation, InFlight
  <2>2. /\ PhaseOf(u) = "answered" /\ PhaseOf(u)' = "back"
        /\ AnswerOf(u) = outcome[call[u]] /\ AnswerOf(u)' = AnswerOf(u)
    BY <1>7, <2>1 DEF FetchResult, PhaseOf, AnswerOf, InIo, callVars, requestVars, Calls, TypeOK
  <2>3. \A v \in Users : v # u => PhaseOf(v)' = PhaseOf(v) /\ AnswerOf(v)' = AnswerOf(v)
    BY <1>7, OthersUnaware DEF FetchResult, callVars, requestVars, Serial, OneAtATime, TypeOK
  <2> QED
    BY <1>7, <2>1, <2>2, <2>3, OthersKeep DEF FetchResult, callVars, Abstract!GiveBack
<1>8. ASSUME NEW u \in Users, Return(u) PROVE Abstract!Leave(u) \/ UNCHANGED Abstract!vars
  <2>1. CASE op[u] \in IoOps
    <3>1. PhaseOf(u) = "back" /\ PhaseOf(u)' = "idle" /\ AnswerOf(u)' = AnswerOf(u)
      BY <1>8, <2>1 DEF Return, PhaseOf, AnswerOf, InIo, requestVars, TypeOK
    <3>2. \A v \in Users : v # u => PhaseOf(v)' = PhaseOf(v) /\ AnswerOf(v)' = AnswerOf(v)
      BY <1>8, OthersUnaware DEF Return, requestVars, Serial, OneAtATime, TypeOK
    <3> QED
      BY <1>8, <3>1, <3>2, OthersKeep DEF Return, Abstract!Leave
  <2>2. CASE op[u] \notin IoOps
    BY <1>8, <2>2, <1>3 DEF Return, PhaseOf, InIo, requestVars, TypeOK
  <2> QED
    BY <2>1, <2>2
<1>9. ASSUME NEW n \in Calls, NEW s \in {"ok", "error"}, Complete(n, s)
      PROVE  \E w \in Users : Abstract!Answer(w, s)
  <2>1. PICK w \in Users : call[w] = n /\ pc[w] \in {"issued", "waiting"}
    BY <1>9 DEF Complete, Own, PendingIsOwned
  <2>2. PhaseOf(w) = "asked" /\ PhaseOf(w)' = "answered" /\ AnswerOf(w)' = s
    BY <1>9, <2>1 DEF Complete, PhaseOf, AnswerOf, InIo, callVars, Own, OverlappedIsOwn,
         InFlight, Calls, TypeOK
  <2>3. \A v \in Users : v # w => PhaseOf(v)' = PhaseOf(v) /\ AnswerOf(v)' = AnswerOf(v)
    BY <1>9, <2>1, OthersUnaware DEF Complete, callVars, Serial, OneAtATime
  <2> QED
    BY <1>9, <2>2, <2>3, OthersKeep DEF Complete, callVars, Abstract!Answer
<1>10. CASE UNCHANGED vars
  BY <1>10 DEF vars, callVars, requestVars, PhaseOf, AnswerOf, InIo, Abstract!vars
<1>11. ASSUME NEW u \in Users, BadArguments(u) \/ IssueRefused(u)
                               \/ \E s \in {"ok", "error"} : IssueDone(u, s)
       PROVE  \E s \in {"ok", "error", "invalid"} : Abstract!AnswerAtOnce(u, s)
  BY <1>11, <1>2 DEF BadArguments, IssueRefused, IssueDone
<1> QED
  BY <1>1, <1>4, <1>5, <1>6, <1>7, <1>8, <1>9, <1>10, <1>11
     DEF Next, Begin, Proceed, Issue, Await, Abstract!Next, Abstract!Answers

(* When the uses of a Divert do not overlap, ioControl over the shared     *)
(* Overlapped implements the calls' specification: every Recv and Send has *)
(* one request, and comes back after its answer and with it.               *)
THEOREM ImplementsCalls == ASSUME SerialUse PROVE Spec => CallsSpec
<1>1. Init => Numbered
  BY CallsAssumption DEF Init, Numbered
<1>2. ASSUME IInv, Numbered, [Next]_vars PROVE Numbered'
  BY <1>2, IInvNext, NumberedNext DEF IInv
<1>3. ASSUME IInv, IInv', Numbered, Numbered', [Next]_vars
      PROVE  [Abstract!Next]_(Abstract!vars)
  BY <1>3, AbstractNext DEF IInv
<1> QED
  BY <1>1, <1>2, <1>3, AbstractInit, IInvHolds, PTL DEF Spec, CallsSpec, Abstract!Spec
=============================================================================
