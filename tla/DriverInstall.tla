---------------------------- MODULE DriverInstall ----------------------------
(***************************************************************************)
(* Opening the device and installing the driver on demand                  *)
(* (raw/raw.go openOrInstallDriver, sys/sys.go LoadEmbedSysFile and        *)
(* LoadDriver).                                                            *)
(*                                                                         *)
(* Installers are goroutines, of one or several processes, that open a     *)
(* Divert.  When the device is missing they extract the driver file, take  *)
(* a named mutex, create and start the service, mark it for deletion,      *)
(* release the mutex and open the device again.                            *)
(*                                                                         *)
(* A Windows mutex belongs to the THREAD that waited for it; a goroutine   *)
(* runs on whatever thread of its process the Go scheduler picks, unless   *)
(* runtime.LockOSThread pinned it to one.  A thread may own the mutex more *)
(* than once (depth); it is abandoned when the owner's process dies.       *)
(*                                                                         *)
(* Windows (mutex, service manager, file system) and what other programs   *)
(* do to the service are external.                                         *)
(***************************************************************************)
EXTENDS Naturals

CONSTANTS Installers, Threads,
          ThreadsOf,     \* ThreadsOf[i]: the threads of i's process
          PinnedTo,      \* PinnedTo[i]: i's own thread, or NoThread
          NoThread,
          DiskFails,     \* whether writing the driver file can fail
          MaxMeddling,   \* bound: changes other programs make to the service
          MaxCrashes     \* bound: processes that die

ASSUME ThreadsAssumption ==
    /\ NoThread \notin Threads
    /\ ThreadsOf \in [Installers -> SUBSET Threads]
    /\ PinnedTo \in [Installers -> Threads \cup {NoThread}]
ASSUME BoundsAssumption == DiskFails \in BOOLEAN /\ MaxMeddling \in Nat /\ MaxCrashes \in Nat

VARIABLES pc,          \* pc[i]: the next step of installer i
          loadErr,     \* loadErr[i]: LoadDriver will return an error
          refused,     \* history: DeleteService failed in i's LoadDriver
          thread,      \* thread[i]: the thread i blocks on the mutex with
          owner,       \* the thread that owns the mutex
          depth,       \* how many times it owns it
          file,        \* the extracted driver file
          service,     \* the service manager's entry
          marked,      \* ... marked for deletion
          disabled,    \* ... start type SERVICE_DISABLED
          running,     \* the driver runs: its device exists
          meddled, crashed   \* how often the environment did

mutexVars   == <<owner, depth>>
serviceVars == <<service, marked, disabled, running>>
envVars     == <<meddled, crashed>>
vars == <<pc, loadErr, refused, thread, mutexVars, file, serviceVars, envVars>>

(* Between the end of the wait and the return of the deferred ReleaseMutex. *)
Critical ==
    {"connect", "openService", "createService", "reopenService", "start",
     "repair", "stop", "restart", "delete", "closeService", "release"}
HasMutexHandle == Critical \cup {"waiting", "closeMutex"}
HasService     == {"start", "repair", "stop", "restart", "delete", "closeService"}
Labels == {"idle", "extract", "write", "createMutex", "open2", "opened", "failed", "dead"}
              \cup HasMutexHandle

TypeOK ==
    /\ pc \in [Installers -> Labels]
    /\ loadErr \in [Installers -> BOOLEAN] /\ refused \in [Installers -> BOOLEAN]
    /\ thread \in [Installers -> Threads \cup {NoThread}]
    /\ owner \in Threads \cup {NoThread}
    /\ depth \in Nat
    /\ file \in {"missing", "partial", "whole"}
    /\ service \in {"absent", "present"}
    /\ marked \in BOOLEAN /\ disabled \in BOOLEAN /\ running \in BOOLEAN
    /\ meddled \in 0..MaxMeddling /\ crashed \in 0..MaxCrashes

(* No installer yet; an earlier program may have left the service in any   *)
(* state, and its driver file.  A driver that runs has a service, and a    *)
(* stopped service that is marked for deletion is gone.                    *)
Init ==
    /\ pc = [i \in Installers |-> "idle"]
    /\ loadErr = [i \in Installers |-> FALSE] /\ refused = [i \in Installers |-> FALSE]
    /\ thread = [i \in Installers |-> NoThread]
    /\ owner = NoThread /\ depth = 0
    /\ file \in {"missing", "whole"}
    /\ service \in {"absent", "present"}
    /\ marked \in BOOLEAN /\ disabled \in BOOLEAN /\ running \in BOOLEAN
    /\ service = "absent" => ~marked /\ ~disabled /\ ~running
    /\ marked => running
    /\ meddled = 0 /\ crashed = 0

-----------------------------------------------------------------------------
(* The thread a step of i can run on: a thread blocked in a wait, or       *)
(* pinned to another goroutine, runs no one else.                          *)
Blocked(t, i) == \E j \in Installers \ {i} : pc[j] = "waiting" /\ thread[j] = t
CanRun(i) ==
    IF PinnedTo[i] # NoThread THEN {PinnedTo[i]}
    ELSE {t \in ThreadsOf[i] : ~Blocked(t, i) /\ \A j \in Installers : PinnedTo[j] # t}

Goto(i, l) == pc' = [pc EXCEPT ![i] = l]
Fail(i)    == loadErr' = [loadErr EXCEPT ![i] = TRUE]

(* openOrInstallDriver, first CreateFile: the device is there, or it is    *)
(* not (FlagNoInstall, or a driver name of the caller's, ends here), or    *)
(* the device refuses.                                                     *)
Open(i) ==
    /\ pc[i] = "idle"
    /\ \/ running /\ Goto(i, "opened")
       \/ ~running /\ Goto(i, "extract")
       \/ Goto(i, "failed")
    /\ loadErr' = [loadErr EXCEPT ![i] = FALSE]
    /\ UNCHANGED <<refused, thread, mutexVars, file, serviceVars, envVars>>

(* LoadEmbedSysFile: os.WriteFile truncates the file and then writes it.   *)
(* It fails when the running driver holds the file, or when the disk does; *)
(* LoadEmbedSysFile goes on after either error.                            *)
Truncate(i) ==
    /\ pc[i] = "extract"
    /\ \/ ~running /\ file' = "partial" /\ Goto(i, "write")
       \/ (running \/ DiskFails) /\ UNCHANGED file /\ Goto(i, "createMutex")
       \/ UNCHANGED file /\ Goto(i, "failed")    \* no embedded file, no directory
    /\ UNCHANGED <<loadErr, refused, thread, mutexVars, serviceVars, envVars>>

Write(i) ==
    /\ pc[i] = "write"
    /\ file' = "whole" \/ (DiskFails /\ UNCHANGED file)
    /\ Goto(i, "createMutex")
    /\ UNCHANGED <<loadErr, refused, thread, mutexVars, serviceVars, envVars>>

-----------------------------------------------------------------------------
(* LoadDriver: CreateMutex, then WaitForSingleObject blocks the thread. *)
CreateMutex(i) ==
    /\ pc[i] = "createMutex"
    /\ \/ \E t \in CanRun(i) : Goto(i, "waiting") /\ thread' = [thread EXCEPT ![i] = t]
       \/ Goto(i, "failed") /\ UNCHANGED thread
    /\ UNCHANGED <<loadErr, refused, mutexVars, file, serviceVars, envVars>>

(* Mutant: the result of WaitForSingleObject is not waited for. *)
AcquireAnyway(i) ==
    /\ pc[i] = "waiting"
    /\ owner' = thread[i] /\ depth' = 1
    /\ thread' = [thread EXCEPT ![i] = NoThread]
    /\ Goto(i, "connect")
    /\ UNCHANGED <<loadErr, refused, file, serviceVars, envVars>>

(* The wait ends: the mutex was free (or abandoned, which the code does    *)
(* not tell apart), or this very thread owns it already.                   *)
Acquire(i) ==
    /\ pc[i] = "waiting"
    /\ owner \in {NoThread, thread[i]}
    /\ owner' = thread[i]
    /\ depth' = depth + 1
    /\ thread' = [thread EXCEPT ![i] = NoThread]
    /\ Goto(i, "connect")
    /\ UNCHANGED <<loadErr, refused, file, serviceVars, envVars>>

(* WaitForSingleObject fails: the deferred CloseHandle, no ReleaseMutex.   *)
WaitFails(i) ==
    /\ pc[i] = "waiting"
    /\ thread' = [thread EXCEPT ![i] = NoThread]
    /\ Fail(i)
    /\ Goto(i, "closeMutex")
    /\ UNCHANGED <<refused, mutexVars, file, serviceVars, envVars>>

(* Mutant: ReleaseMutex is called twice. *)
ReleaseTwice(i) ==
    /\ pc[i] = "release"
    /\ owner' = NoThread /\ depth' = depth - 2
    /\ Goto(i, "closeMutex")
    /\ UNCHANGED <<loadErr, refused, thread, file, serviceVars, envVars>>

(* Mutant: the defer of ReleaseMutex is missing. *)
NeverRelease(i) ==
    /\ pc[i] = "release"
    /\ Goto(i, "closeMutex")
    /\ UNCHANGED <<loadErr, refused, thread, mutexVars, file, serviceVars, envVars>>

(* The deferred ReleaseMutex runs on any thread the goroutine can run on;  *)
(* on another thread than the owner it fails and nothing looks at that.    *)
Release(i) ==
    /\ pc[i] = "release"
    /\ \E t \in CanRun(i) :
          /\ depth' = IF owner = t THEN depth - 1 ELSE depth
          /\ owner' = IF owner = t /\ depth = 1 THEN NoThread ELSE owner
    /\ Goto(i, "closeMutex")
    /\ UNCHANGED <<loadErr, refused, thread, file, serviceVars, envVars>>

(* The deferred CloseHandle(mutex); the last handle takes the mutex away.  *)
(* Then LoadDriver returns, and openOrInstallDriver goes round or fails.   *)
MutexDies(left) == \A j \in Installers \ left : pc[j] \notin HasMutexHandle
CloseMutex(i) ==
    /\ pc[i] = "closeMutex"
    /\ IF MutexDies({i}) THEN owner' = NoThread /\ depth' = 0 ELSE UNCHANGED mutexVars
    /\ Goto(i, IF loadErr[i] THEN "failed" ELSE "open2")
    /\ UNCHANGED <<loadErr, refused, thread, file, serviceVars, envVars>>

-----------------------------------------------------------------------------
(* mgr.Connect needs rights the process may not have. *)
Connect(i) ==
    /\ pc[i] = "connect"
    /\ \/ Goto(i, "openService") /\ UNCHANGED loadErr
       \/ Goto(i, "release") /\ Fail(i)
    /\ UNCHANGED <<refused, thread, mutexVars, file, serviceVars, envVars>>

(* OpenService fails on a missing service, or without the access right. *)
OpenService(i) ==
    /\ pc[i] = "openService"
    /\ (service = "present" /\ Goto(i, "start")) \/ Goto(i, "createService")
    /\ UNCHANGED <<loadErr, refused, thread, mutexVars, file, serviceVars, envVars>>

(* CreateService: made, or ERROR_SERVICE_EXISTS, or another error. *)
CreateService(i) ==
    /\ pc[i] = "createService"
    /\ \/ /\ service = "absent" /\ service' = "present"
          /\ marked' = FALSE /\ disabled' = FALSE
          /\ Goto(i, "start")
          /\ UNCHANGED <<loadErr, running>>
       \/ /\ service = "present" /\ ~marked
          /\ Goto(i, "reopenService")
          /\ UNCHANGED <<loadErr, serviceVars>>
       \/ Goto(i, "release") /\ Fail(i) /\ UNCHANGED serviceVars
    /\ UNCHANGED <<refused, thread, mutexVars, file, envVars>>

ReopenService(i) ==
    /\ pc[i] = "reopenService"
    /\ \/ service = "present" /\ Goto(i, "start") /\ UNCHANGED loadErr
       \/ Goto(i, "release") /\ Fail(i)
    /\ UNCHANGED <<refused, thread, mutexVars, file, serviceVars, envVars>>

(* StartService succeeds only on an enabled, unmarked service with a whole *)
(* file; a running driver answers ERROR_SERVICE_ALREADY_RUNNING.           *)
Startable == file = "whole" /\ ~disabled /\ ~marked

(* Mutant: ERROR_SERVICE_ALREADY_RUNNING is a failure like any other. *)
StartStrict(i) ==
    /\ pc[i] = "start"
    /\ \/ ~running /\ Startable /\ running' = TRUE /\ Goto(i, "delete")
       \/ UNCHANGED running /\ Goto(i, "repair")
    /\ UNCHANGED <<loadErr, refused, thread, mutexVars, file, service, marked, disabled, envVars>>

(* Mutant: a driver that runs already is left alone, its service unmarked. *)
StartOnce(i) ==
    /\ pc[i] = "start"
    /\ \/ running /\ UNCHANGED running /\ Goto(i, "closeService")
       \/ Startable /\ running' = TRUE /\ Goto(i, "delete")
       \/ ~running /\ UNCHANGED running /\ Goto(i, "repair")
    /\ UNCHANGED <<loadErr, refused, thread, mutexVars, file, service, marked, disabled, envVars>>

Start(i) ==
    /\ pc[i] = "start"
    /\ \/ (running \/ Startable) /\ running' = TRUE /\ Goto(i, "delete")
       \/ ~running /\ UNCHANGED running /\ Goto(i, "repair")
    /\ UNCHANGED <<loadErr, refused, thread, mutexVars, file, service, marked, disabled, envVars>>

(* A disabled service becomes demand-start again, unless its configuration *)
(* cannot be read or written. *)
Repair(i) ==
    /\ pc[i] = "repair"
    /\ disabled' = FALSE \/ UNCHANGED disabled
    /\ Goto(i, "stop")
    /\ UNCHANGED <<loadErr, refused, thread, mutexVars, file, service, marked, running, envVars>>

(* s.Control(svc.Stop), its error ignored. *)
Stop(i) ==
    /\ pc[i] = "stop"
    /\ running' = FALSE \/ UNCHANGED running
    /\ Goto(i, "restart")
    /\ UNCHANGED <<loadErr, refused, thread, mutexVars, file, service, marked, disabled, envVars>>

(* Mutant: the error of the second Start is ignored. *)
RestartUnchecked(i) ==
    /\ pc[i] = "restart"
    /\ running' = (running \/ Startable) \/ (~running /\ UNCHANGED running)
    /\ Goto(i, "delete")
    /\ UNCHANGED <<loadErr, refused, thread, mutexVars, file, service, marked, disabled, envVars>>

Restart(i) ==
    /\ pc[i] = "restart"
    /\ \/ (running \/ Startable) /\ running' = TRUE /\ Goto(i, "delete") /\ UNCHANGED loadErr
       \/ ~running /\ UNCHANGED running /\ Goto(i, "closeService") /\ Fail(i)
    /\ UNCHANGED <<refused, thread, mutexVars, file, service, marked, disabled, envVars>>

(* s.Delete marks the service, which goes away once stopped and closed; or *)
(* it fails, which LoadDriver ignores. *)
Delete(i) ==
    /\ pc[i] = "delete"
    /\ \/ marked' = TRUE /\ UNCHANGED refused
       \/ UNCHANGED marked /\ refused' = [refused EXCEPT ![i] = TRUE]
    /\ Goto(i, "closeService")
    /\ UNCHANGED <<loadErr, thread, mutexVars, file, service, disabled, running, envVars>>

(* The deferred s.Close and m.Disconnect. *)
CloseService(i) ==
    /\ pc[i] = "closeService"
    /\ Goto(i, "release")
    /\ UNCHANGED <<loadErr, refused, thread, mutexVars, file, serviceVars, envVars>>

(* The second CreateFile of openOrInstallDriver. *)
OpenAgain(i) ==
    /\ pc[i] = "open2"
    /\ Goto(i, IF running THEN "opened" ELSE "failed")
    /\ refused' = [refused EXCEPT ![i] = FALSE]
    /\ UNCHANGED <<loadErr, thread, mutexVars, file, serviceVars, envVars>>

(* The user closes the handle, or tries to open one again. *)
Again(i) ==
    /\ pc[i] \in {"opened", "failed", "dead"}
    /\ Goto(i, "idle")
    /\ UNCHANGED <<loadErr, refused, thread, mutexVars, file, serviceVars, envVars>>

-----------------------------------------------------------------------------
(* A process dies: its goroutines with it, the mutex is abandoned. *)
SameProcess(i) == {j \in Installers : ThreadsOf[j] = ThreadsOf[i]}
Crash(i) ==
    /\ crashed < MaxCrashes
    /\ crashed' = crashed + 1
    /\ pc' = [j \in Installers |-> IF j \in SameProcess(i) THEN "dead" ELSE pc[j]]
    /\ thread' = [j \in Installers |-> IF j \in SameProcess(i) THEN NoThread ELSE thread[j]]
    /\ refused' = [j \in Installers |-> j \notin SameProcess(i) /\ refused[j]]
    /\ IF owner \in ThreadsOf[i] \/ MutexDies(SameProcess(i))
       THEN owner' = NoThread /\ depth' = 0
       ELSE UNCHANGED mutexVars
    /\ UNCHANGED <<loadErr, file, serviceVars, meddled>>

(* The service manager drops a marked service that is stopped and closed. *)
Purge ==
    /\ service = "present" /\ marked /\ ~running
    /\ \A i \in Installers : pc[i] \notin HasService
    /\ service' = "absent" /\ marked' = FALSE /\ disabled' = FALSE
    /\ UNCHANGED <<pc, loadErr, refused, thread, mutexVars, file, running, envVars>>

(* Another program creates, disables or stops the service. *)
Meddle ==
    /\ meddled < MaxMeddling
    /\ meddled' = meddled + 1
    /\ \/ /\ service = "absent" /\ service' = "present"
          /\ marked' = FALSE /\ UNCHANGED <<disabled, running>>
       \/ service = "present" /\ disabled' = TRUE /\ UNCHANGED <<service, marked, running>>
       \/ /\ running /\ \A i \in Installers : pc[i] # "opened"
          /\ running' = FALSE /\ UNCHANGED <<service, marked, disabled>>
    /\ UNCHANGED <<pc, loadErr, refused, thread, mutexVars, file, crashed>>

-----------------------------------------------------------------------------
UnderMutex(i) ==
    \/ Connect(i) \/ OpenService(i) \/ CreateService(i) \/ ReopenService(i)
    \/ Start(i) \/ Repair(i) \/ Stop(i) \/ Restart(i) \/ Delete(i) \/ CloseService(i)

(* What an installer does by itself, but for the end of its wait. *)
Proceed(i) ==
    \/ Truncate(i) \/ Write(i) \/ CreateMutex(i) \/ UnderMutex(i)
    \/ Release(i) \/ CloseMutex(i) \/ OpenAgain(i)

Next ==
    \/ \E i \in Installers : Open(i) \/ Proceed(i) \/ Acquire(i) \/ WaitFails(i) \/ Again(i)
                             \/ Crash(i)
    \/ Purge
    \/ Meddle

Spec == Init /\ [][Next]_vars

(* Goroutines run; waiters for a mutex are served in their order, so that  *)
(* one that can be served again and again is.                              *)
Fairness == \A i \in Installers : WF_vars(Proceed(i)) /\ SF_vars(Acquire(i))

FairSpec == Spec /\ Fairness

-----------------------------------------------------------------------------
(* Every installer called LockOSThread before it opened its Divert. *)
AllPinned ==
    /\ \A i \in Installers : PinnedTo[i] \in ThreadsOf[i]
    /\ \A i, j \in Installers : PinnedTo[i] = PinnedTo[j] => i = j
    /\ \A i, j \in Installers : ThreadsOf[i] = ThreadsOf[j] \/ ThreadsOf[i] \cap ThreadsOf[j] = {}

(* The mutex synchronizes the installation (sys.go:27, sys.go:73): one     *)
(* installer at a time works on the service, whatever crashes.             *)
MutualExclusion ==
    \A i, j \in Installers : pc[i] \in Critical /\ pc[j] \in Critical => i = j

(* The Stop that follows a failed Start never takes a running driver away  *)
(* from those who use it: nobody started it in between.                    *)
StopIsHarmless == \A i \in Installers : pc[i] = "stop" => ~running

(* After LoadDriver returns nil the device can be opened, unless another   *)
(* program touched the service.                                            *)
InstalledIsOpenable ==
    meddled = 0 => \A i \in Installers : pc[i] = "open2" => running

(* A driver that LoadDriver started does not outlive its use: when it      *)
(* returns nil the service is marked for deletion, also when an earlier    *)
(* installer died between its Start and its Delete and the driver ran      *)
(* already.  Nothing but a DeleteService of this call's own that failed,   *)
(* which LoadDriver ignores (sys.go:154), or another program leaves the    *)
(* service unmarked.                                                       *)
LeavesServiceMarked ==
    \A i \in Installers :
        pc[i] \in {"closeService", "release", "closeMutex", "open2"} /\ ~loadErr[i] =>
            marked \/ refused[i] \/ meddled > 0

(* An installer that has begun comes to an end, though others crash while  *)
(* they hold the mutex.                                                    *)
InstallEnds ==
    \A i \in Installers :
        pc[i] = "extract" ~> pc[i] \in {"opened", "failed", "dead"}
=============================================================================
