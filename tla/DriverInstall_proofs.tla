------------------------- MODULE DriverInstall_proofs -------------------------
(***************************************************************************)
(* Proofs about DriverInstall, for any installers, processes and threads,  *)
(* any number of crashes and any meddling with the service.  AllPinned is  *)
(* the hypothesis: every installer has a thread of its own.                *)
(***************************************************************************)
EXTENDS DriverInstall, TLAPS

(* The parts of the type invariant that the arguments below use. *)
PcType ==
    /\ pc \in [Installers -> Labels]
    /\ loadErr \in [Installers -> BOOLEAN]
    /\ thread \in [Installers -> Threads \cup {NoThread}]

(* Who waits for the mutex does so with its own thread. *)
WaitsWithOwnThread ==
    \A i \in Installers : pc[i] = "waiting" => thread[i] = PinnedTo[i]

(* Who is past the wait owns the mutex, by its own thread. *)
InsideOwnsMutex ==
    \A i \in Installers : pc[i] \in Critical => owner = PinnedTo[i]

MInv == PcType /\ WaitsWithOwnThread /\ InsideOwnsMutex

(* Every label names one step. *)
LEMMA LabelsApart ==
    /\ Critical \subseteq HasMutexHandle /\ "waiting" \notin Critical
    /\ HasService \subseteq Critical
    /\ {"release", "closeMutex"} \cap HasService = {}
    /\ {"idle", "extract", "write", "createMutex", "open2", "opened", "failed", "dead",
        "closeMutex"} \cap Critical = {}
  BY DEF Critical, HasMutexHandle, HasService

-----------------------------------------------------------------------------
(* Installers with threads of their own exclude each other. *)
LEMMA MInvExcludes == ASSUME AllPinned, MInv PROVE MutualExclusion
  BY DEF AllPinned, MInv, InsideOwnsMutex, MutualExclusion

(* The mutex starts free. *)
LEMMA MInvInit == Init => MInv
  BY ThreadsAssumption DEF Init, MInv, PcType, WaitsWithOwnThread, InsideOwnsMutex,
     Labels, Critical, HasMutexHandle

(* A step that leaves the mutex alone and moves one installer, though not  *)
(* into the wait, nor into the critical section from outside.              *)
LEMMA MInvMove ==
  ASSUME MInv, NEW i \in Installers, NEW l \in Labels, Goto(i, l), l # "waiting",
         pc[i] \in Critical \/ l \notin Critical,
         UNCHANGED <<thread, mutexVars>>, loadErr' \in [Installers -> BOOLEAN]
  PROVE  MInv'
  BY DEF Goto, MInv, PcType, WaitsWithOwnThread, InsideOwnsMutex, mutexVars

(* Setting or keeping loadErr keeps its type. *)
LEMMA LoadErrType ==
  ASSUME PcType, NEW i \in Installers
  PROVE  /\ UNCHANGED loadErr => loadErr' \in [Installers -> BOOLEAN]
         /\ Fail(i) => loadErr' \in [Installers -> BOOLEAN]
  BY DEF PcType, Fail

(* Pinned installers keep the mutex invariant with every step. *)
LEMMA MInvNext == ASSUME AllPinned, MInv, [Next]_vars PROVE MInv'
<1> USE LoadErrType DEF Critical, HasMutexHandle, Labels
<1>0. PcType
  BY DEF MInv
<1>1. ASSUME NEW i \in Installers, Open(i) PROVE MInv'
  <2>1. loadErr' \in [Installers -> BOOLEAN]
    BY <1>0, <1>1 DEF Open, PcType
  <2> QED
    BY <1>1, <2>1, MInvMove DEF Open
<1>2. ASSUME NEW i \in Installers, Truncate(i) \/ Write(i) \/ OpenAgain(i) \/ Again(i) PROVE MInv'
  BY <1>0, <1>2, MInvMove DEF Truncate, Write, OpenAgain, Again
<1>3. ASSUME NEW i \in Installers, UnderMutex(i) PROVE MInv'
  <2>1. CASE Connect(i) \/ OpenService(i)
    BY <1>0, <2>1, MInvMove DEF Connect, OpenService
  <2>2. CASE CreateService(i) \/ ReopenService(i)
    BY <1>0, <2>2, MInvMove DEF CreateService, ReopenService
  <2>3. CASE Start(i) \/ Repair(i) \/ Stop(i) \/ Restart(i)
    BY <1>0, <2>3, MInvMove DEF Start, Repair, Stop, Restart
  <2>4. CASE Delete(i) \/ CloseService(i)
    BY <1>0, <2>4, MInvMove DEF Delete, CloseService
  <2> QED
    BY <1>3, <2>1, <2>2, <2>3, <2>4 DEF UnderMutex
<1>4. ASSUME NEW i \in Installers, CreateMutex(i) PROVE MInv'
  <2>1. CanRun(i) = {PinnedTo[i]} /\ PinnedTo[i] \in Threads
    BY ThreadsAssumption DEF AllPinned, CanRun
  <2> QED
    BY <1>4, <2>1 DEF CreateMutex, Goto, MInv, PcType, WaitsWithOwnThread, InsideOwnsMutex,
         mutexVars
<1>5. ASSUME NEW i \in Installers, Acquire(i) PROVE MInv'
  <2>1. thread[i] = PinnedTo[i] /\ owner \in {NoThread, PinnedTo[i]}
    BY <1>5 DEF Acquire, MInv, WaitsWithOwnThread
  <2>2. \A j \in Installers : j # i => pc[j] \notin Critical
    BY <2>1, ThreadsAssumption DEF MInv, InsideOwnsMutex, AllPinned
  <2> QED
    BY <1>5, <2>1, <2>2 DEF Acquire, Goto, MInv, PcType, WaitsWithOwnThread, InsideOwnsMutex
<1>6. ASSUME NEW i \in Installers, Release(i) PROVE MInv'
  <2>1. \A j \in Installers : j # i => pc[j] \notin Critical
    BY <1>6, MInvExcludes DEF Release, MutualExclusion
  <2> QED
    BY <1>6, <2>1 DEF Release, Goto, MInv, PcType, WaitsWithOwnThread, InsideOwnsMutex
<1>7. ASSUME NEW i \in Installers, CloseMutex(i) PROVE MInv'
  <2>1. PcType' /\ WaitsWithOwnThread'
    BY <1>7 DEF CloseMutex, Goto, MInv, PcType, WaitsWithOwnThread
  <2>2. InsideOwnsMutex'
    BY <1>7 DEF CloseMutex, MutexDies, Goto, mutexVars, MInv, PcType, InsideOwnsMutex
  <2> QED
    BY <2>1, <2>2 DEF MInv
<1>8. ASSUME NEW i \in Installers, Crash(i) PROVE MInv'
  <2>1. PcType' /\ WaitsWithOwnThread'
    BY <1>8 DEF Crash, MInv, PcType, WaitsWithOwnThread
  <2>2. ASSUME NEW j \in Installers, pc'[j] \in Critical PROVE owner' = PinnedTo[j]
    <3>1. j \notin SameProcess(i) /\ pc[j] \in Critical
      BY <1>8, <2>2 DEF Crash, MInv, PcType
    <3>2. owner = PinnedTo[j] /\ owner \notin ThreadsOf[i]
      BY <3>1 DEF MInv, InsideOwnsMutex, AllPinned, SameProcess
    <3>3. ~MutexDies(SameProcess(i))
      BY <3>1 DEF MutexDies
    <3> QED
      BY <1>8, <3>2, <3>3 DEF Crash, mutexVars
  <2> QED
    BY <2>1, <2>2 DEF MInv, InsideOwnsMutex
<1>9. CASE Purge \/ Meddle \/ UNCHANGED vars
  BY <1>9 DEF Purge, Meddle, vars, mutexVars, MInv, PcType, WaitsWithOwnThread, InsideOwnsMutex
<1>10. ASSUME NEW i \in Installers, WaitFails(i) PROVE MInv'
  BY <1>0, <1>10 DEF WaitFails, Goto, mutexVars, MInv, PcType, WaitsWithOwnThread, InsideOwnsMutex
<1> QED
  BY <1>1, <1>2, <1>3, <1>4, <1>5, <1>6, <1>7, <1>8, <1>9, <1>10 DEF Next, Proceed

(* The mutex invariant holds of pinned installers. *)
LEMMA MInvHolds == ASSUME AllPinned PROVE Spec => []MInv
  BY MInvInit, MInvNext, PTL DEF Spec

(* One installer at a time works on the service, whatever dies. *)
THEOREM InstallationExcludes == ASSUME AllPinned PROVE Spec => []MutualExclusion
  BY MInvHolds, MInvExcludes, PTL

-----------------------------------------------------------------------------
(* What the installers know of the service, each at its place. *)
Untouched == meddled = 0
Installed == {"delete", "closeService", "release", "closeMutex", "open2"}
Deleted   == {"closeService", "release", "closeMutex", "open2"}

StoppedWhileRepairing ==
    \A i \in Installers : pc[i] \in {"repair", "stop"} => ~running

(* A handle keeps the service's entry, and a running driver has one. *)
ServiceIsThere ==
    /\ running => service = "present"
    /\ \A i \in Installers : pc[i] \in HasService => service = "present"

InstalledRuns ==
    Untouched => \A i \in Installers : pc[i] \in Installed /\ ~loadErr[i] => running

DeletedIsMarked ==
    Untouched => \A i \in Installers : pc[i] \in Deleted /\ ~loadErr[i] => marked \/ refused[i]

OpensWithoutError == \A i \in Installers : pc[i] = "open2" => ~loadErr[i]

SInv ==
    /\ StoppedWhileRepairing
    /\ ServiceIsThere
    /\ InstalledRuns
    /\ DeletedIsMarked
    /\ OpensWithoutError
    /\ meddled \in Nat /\ refused \in [Installers -> BOOLEAN]

(* The service invariant is stronger than the three properties. *)
LEMMA SInvImplies == SInv => StopIsHarmless /\ InstalledIsOpenable /\ LeavesServiceMarked
  BY DEF SInv, StoppedWhileRepairing, InstalledRuns, DeletedIsMarked, OpensWithoutError,
     Untouched, Installed, Deleted, StopIsHarmless, InstalledIsOpenable, LeavesServiceMarked

(* The service invariant holds before the first installer. *)
LEMMA SInvInit == Init => SInv
  BY DEF Init, SInv, StoppedWhileRepairing, ServiceIsThere, InstalledRuns, DeletedIsMarked,
     OpensWithoutError, HasService, Installed, Deleted

(* One installer at a time keeps the service invariant. *)
LEMMA SInvNext == ASSUME MutualExclusion, PcType, PcType', SInv, [Next]_vars PROVE SInv'
<1> USE DEF SInv, StoppedWhileRepairing, ServiceIsThere, InstalledRuns, DeletedIsMarked,
        OpensWithoutError, HasService, Installed, Deleted, Untouched, PcType, Goto, Fail,
        serviceVars, envVars
<1>1. ASSUME NEW i \in Installers, Open(i) \/ Again(i) PROVE SInv'
  BY <1>1 DEF Open, Again
<1>2. ASSUME NEW i \in Installers, Truncate(i) \/ Write(i) PROVE SInv'
  BY <1>2 DEF Truncate, Write
<1>3. ASSUME NEW i \in Installers, CreateMutex(i) \/ Acquire(i) \/ WaitFails(i) PROVE SInv'
  BY <1>3 DEF CreateMutex, Acquire, WaitFails
<1>4. ASSUME NEW i \in Installers, Release(i) \/ CloseMutex(i) PROVE SInv'
  BY <1>4 DEF Release, CloseMutex
<1>5. ASSUME NEW i \in Installers, Connect(i) \/ OpenService(i) \/ ReopenService(i) PROVE SInv'
  BY <1>5 DEF Connect, OpenService, ReopenService
<1>6. ASSUME NEW i \in Installers, CreateService(i) PROVE SInv'
  BY <1>6 DEF CreateService
<1>7. ASSUME NEW i \in Installers, Start(i) \/ Restart(i) PROVE SInv'
  <2>1. \A j \in Installers : j # i => pc[j] \notin Critical
    BY <1>7 DEF Start, Restart, MutualExclusion, Critical
  <2> QED
    BY <1>7, <2>1 DEF Start, Restart, Critical
<1>8. ASSUME NEW i \in Installers, Repair(i) \/ Stop(i) PROVE SInv'
  BY <1>8 DEF Repair, Stop
<1>9. ASSUME NEW i \in Installers, Delete(i) \/ CloseService(i) PROVE SInv'
  <2>1. CASE Delete(i)
    <3>1. \A j \in Installers : j # i => UNCHANGED <<pc[j], loadErr[j], refused[j]>>
      BY <2>1 DEF Delete
    <3>2. pc[i] = "delete" /\ pc'[i] = "closeService" /\ (marked' \/ refused'[i])
      BY <2>1 DEF Delete
    <3>3. UNCHANGED <<loadErr, service, running, meddled>> /\ (marked => marked')
      BY <2>1 DEF Delete
    <3>4. refused' \in [Installers -> BOOLEAN]
      BY <2>1 DEF Delete
    <3> QED
      BY <3>1, <3>2, <3>3, <3>4
  <2>2. CASE CloseService(i)
    BY <2>2 DEF CloseService
  <2> QED
    BY <1>9, <2>1, <2>2
<1>10. ASSUME NEW i \in Installers, OpenAgain(i) PROVE SInv'
  BY <1>10 DEF OpenAgain
<1>11. ASSUME NEW i \in Installers, Crash(i) PROVE SInv'
  BY <1>11 DEF Crash
<1>12. CASE Purge
  BY <1>12 DEF Purge
<1>13. CASE Meddle
  BY <1>13 DEF Meddle
<1>14. CASE UNCHANGED vars
  BY <1>14 DEF vars
<1> QED
  BY <1>1, <1>2, <1>3, <1>4, <1>5, <1>6, <1>7, <1>8, <1>9, <1>10, <1>11, <1>12, <1>13, <1>14
     DEF Next, Proceed, UnderMutex

(* The service invariant holds of pinned installers. *)
LEMMA SInvHolds == ASSUME AllPinned PROVE Spec => []SInv
<1>1. MInv => MutualExclusion /\ PcType
  BY MInvExcludes DEF MInv
<1> QED
  BY <1>1, MInvHolds, SInvInit, SInvNext, PTL DEF Spec

(* The Stop of the repair path never stops a driver that someone started. *)
THEOREM StopHarmsNoOne == ASSUME AllPinned PROVE Spec => []StopIsHarmless
  BY SInvHolds, SInvImplies, PTL

(* A successful installation leaves a device that opens.                   *)
THEOREM InstallationHolds == ASSUME AllPinned PROVE Spec => []InstalledIsOpenable
  BY SInvHolds, SInvImplies, PTL

(* Every successful installation has asked for the deletion of the service *)
(* it leaves: the service is marked, so that it goes when the last handle  *)
(* is closed, unless the manager refused just this.                        *)
THEOREM ServiceIsMarked == ASSUME AllPinned PROVE Spec => []LeavesServiceMarked
  BY SInvHolds, SInvImplies, PTL

-----------------------------------------------------------------------------
(* A mutex that someone owns has been taken at least once. *)
OwnedIsTaken == owner # NoThread => depth > 0

TInv == TypeOK /\ OwnedIsTaken

LEMMA TInvNext == TInv /\ [Next]_vars => TInv'
<1> SUFFICES ASSUME TInv, [Next]_vars PROVE TInv'
  OBVIOUS
<1> USE DEF TInv, TypeOK, OwnedIsTaken, Labels, Critical, HasMutexHandle, Goto, Fail,
        mutexVars, serviceVars, envVars
<1>1. ASSUME NEW i \in Installers, Open(i) \/ Again(i) \/ OpenAgain(i) PROVE TInv'
  BY <1>1 DEF Open, Again, OpenAgain
<1>2. ASSUME NEW i \in Installers, Truncate(i) \/ Write(i) PROVE TInv'
  BY <1>2 DEF Truncate, Write
<1>3. ASSUME NEW i \in Installers, CreateMutex(i) PROVE TInv'
  <2>1. CanRun(i) \subseteq Threads
    BY ThreadsAssumption DEF CanRun
  <2> QED
    BY <1>3, <2>1 DEF CreateMutex
<1>4. ASSUME NEW i \in Installers, Acquire(i) \/ WaitFails(i) PROVE TInv'
  <2>1. CASE Acquire(i)
    BY <2>1 DEF Acquire
  <2>2. CASE WaitFails(i)
    <3>1. /\ pc' \in [Installers -> Labels] /\ loadErr' \in [Installers -> BOOLEAN]
          /\ thread' \in [Installers -> Threads \cup {NoThread}]
      BY <2>2 DEF WaitFails
    <3> QED
      BY <2>2, <3>1 DEF WaitFails
  <2> QED
    BY <1>4, <2>1, <2>2
<1>5. ASSUME NEW i \in Installers, Release(i) PROVE TInv'
  <2>1. NoThread \notin CanRun(i)
    BY ThreadsAssumption DEF CanRun
  <2>2. depth' \in Nat /\ owner' \in Threads \cup {NoThread} /\ OwnedIsTaken'
    BY <1>5, <2>1 DEF Release
  <2> QED
    BY <1>5, <2>2 DEF Release
<1>6. ASSUME NEW i \in Installers, CloseMutex(i) PROVE TInv'
  BY <1>6 DEF CloseMutex
<1>7. ASSUME NEW i \in Installers, Connect(i) \/ OpenService(i) \/ ReopenService(i) PROVE TInv'
  BY <1>7 DEF Connect, OpenService, ReopenService
<1>8. ASSUME NEW i \in Installers, CreateService(i) PROVE TInv'
  BY <1>8 DEF CreateService
<1>9. ASSUME NEW i \in Installers, Start(i) \/ Repair(i) \/ Stop(i) \/ Restart(i) PROVE TInv'
  BY <1>9 DEF Start, Repair, Stop, Restart
<1>10. ASSUME NEW i \in Installers, Delete(i) \/ CloseService(i) PROVE TInv'
  BY <1>10 DEF Delete, CloseService
<1>11. ASSUME NEW i \in Installers, Crash(i) PROVE TInv'
  <2>1. /\ pc' \in [Installers -> Labels]
        /\ thread' \in [Installers -> Threads \cup {NoThread}]
        /\ crashed' \in 0..MaxCrashes
    BY <1>11, BoundsAssumption DEF Crash
  <2>2. depth' \in Nat /\ owner' \in Threads \cup {NoThread} /\ OwnedIsTaken'
    BY <1>11 DEF Crash
  <2> QED
    BY <1>11, <2>1, <2>2 DEF Crash
<1>12. CASE Purge \/ UNCHANGED vars
  BY <1>12 DEF Purge, vars
<1>13. CASE Meddle
  <2>1. meddled' \in 0..MaxMeddling
    BY <1>13, BoundsAssumption DEF Meddle
  <2> QED
    BY <1>13, <2>1 DEF Meddle
<1> QED
  BY <1>1, <1>2, <1>3, <1>4, <1>5, <1>6, <1>7, <1>8, <1>9, <1>10, <1>11, <1>12, <1>13
     DEF Next, Proceed, UnderMutex

(* The mutex is never released more often than it was taken, pinned        *)
(* threads or not, and every variable keeps its type.                      *)
THEOREM TypeCorrect == Spec => []TypeOK
<1>1. Init => TInv
  BY ThreadsAssumption, BoundsAssumption DEF Init, TInv, TypeOK, OwnedIsTaken, Labels
<1>2. TInv => TypeOK
  BY DEF TInv
<1> QED
  BY <1>1, <1>2, TInvNext, PTL DEF Spec
=============================================================================
