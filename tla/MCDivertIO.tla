----------------------------- MODULE MCDivertIO -----------------------------
(***************************************************************************)
(* Instances of DivertIO for TLC: who calls what.                          *)
(***************************************************************************)
EXTENDS DivertIO, FiniteSets, TLC

CONSTANTS main, sender

(* Two goroutines that wrap every operation in one mutex. *)
TwoUsers == {main, sender}
BothOps  == [u \in TwoUsers |-> AllOps]

(* examples/bandwidth_limiter: the main goroutine receives, a scheduler    *)
(* goroutine sends, and only Send is under the mutex.                      *)
LimiterOps == [u \in TwoUsers |-> IF u = main THEN {"recv"} ELSE {"send"}]
=============================================================================
