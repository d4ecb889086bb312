----------------------------- MODULE DivertCalls -----------------------------
(***************************************************************************)
(* What Recv, RecvEx, Send and SendEx of a Divert promise their callers    *)
(* (divert.go, raw/raw.go), whatever goroutines call them: every call has  *)
(* one request of its own, the driver answers that request at most once,   *)
(* and the call comes back only after the answer, with the status and the  *)
(* byte count of that very request.                                        *)
(*                                                                         *)
(* DivertIO implements this specification when the calls on a Divert do    *)
(* not overlap.                                                            *)
(***************************************************************************)
EXTENDS Naturals

CONSTANTS Users,     \* the goroutines that hold the *Divert
          MaxCalls   \* bound: calls made in one behaviour

VARIABLES calls,     \* number of calls made so far; a call is named by its number
          phase,     \* phase[u]: where u's current call stands
          call,      \* call[u]: the number of u's current or last call
          answer,    \* answer[u]: what the driver said of that call
          back       \* back[u]: what the call gave back to u

vars == <<calls, phase, call, answer, back>>

Answers == {"ok", "error", "invalid"}
Nothing == [status |-> "none", bytes |-> 0]

(* Only a successful call has bytes, and they are those of its own request. *)
Report(n, s) == [status |-> s, bytes |-> IF s = "ok" THEN n ELSE 0]

Init ==
    /\ calls = 0
    /\ phase = [u \in Users |-> "idle"]
    /\ call = [u \in Users |-> 0]
    /\ answer = [u \in Users |-> "none"]
    /\ back = [u \in Users |-> Nothing]

Ask(u) ==
    /\ phase[u] = "idle"
    /\ calls < MaxCalls
    /\ calls' = calls + 1
    /\ phase' = [phase EXCEPT ![u] = "asked"]
    /\ call' = [call EXCEPT ![u] = calls + 1]
    /\ answer' = [answer EXCEPT ![u] = "none"]
    /\ back' = [back EXCEPT ![u] = Nothing]

Answer(u, s) ==
    /\ phase[u] = "asked"
    /\ phase' = [phase EXCEPT ![u] = "answered"]
    /\ answer' = [answer EXCEPT ![u] = s]
    /\ UNCHANGED <<calls, call, back>>

GiveBack(u) ==
    /\ phase[u] = "answered"
    /\ phase' = [phase EXCEPT ![u] = "back"]
    /\ back' = [back EXCEPT ![u] = Report(call[u], answer[u])]
    /\ UNCHANGED <<calls, call, answer>>

(* The answer is known before DeviceIoControl returns. *)
AnswerAtOnce(u, s) ==
    /\ phase[u] = "asked"
    /\ phase' = [phase EXCEPT ![u] = "back"]
    /\ answer' = [answer EXCEPT ![u] = s]
    /\ back' = [back EXCEPT ![u] = Report(call[u], s)]
    /\ UNCHANGED <<calls, call>>

Leave(u) ==
    /\ phase[u] = "back"
    /\ phase' = [phase EXCEPT ![u] = "idle"]
    /\ UNCHANGED <<calls, call, answer, back>>

Next ==
    \E u \in Users :
        \/ Ask(u)
        \/ \E s \in Answers : Answer(u, s) \/ AnswerAtOnce(u, s)
        \/ GiveBack(u)
        \/ Leave(u)

Spec == Init /\ [][Next]_vars
=============================================================================
