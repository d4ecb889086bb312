--------------------------- MODULE MCDriverInstall ---------------------------
(***************************************************************************)
(* Instances of DriverInstall for TLC: goroutines i1 and i2 of one process *)
(* with threads t1 and t2, goroutine i3 of another with thread t3.         *)
(***************************************************************************)
EXTENDS DriverInstall, TLC

CONSTANTS i1, i2, i3, t1, t2, t3

AllInstallers == {i1, i2, i3}
AllThreads    == {t1, t2, t3}
TwoProcesses  == [i \in AllInstallers |-> IF i = i3 THEN {t3} ELSE {t1, t2}]

(* LockOSThread before New, as bandwidth_limiter and dns_sinkhole do. *)
Pinned == i1 :> t1 @@ i2 :> t2 @@ i3 :> t3

(* New from two goroutines of one process, neither of which is pinned. *)
OneProcess == {i1, i2}
Shared     == [i \in OneProcess |-> {t1, t2}]
Unpinned   == [i \in OneProcess |-> NoThread]
=============================================================================
