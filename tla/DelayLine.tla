----------------------------- MODULE DelayLine -----------------------------
(***************************************************************************)
(* What the bandwidth limiter makes of the network                         *)
(* (examples/bandwidth_limiter/main.go): a line that packets enter one     *)
(* after the other and leave in the same order, each at most once and not  *)
(* before its delay is over.  The line may drop any packet that is inside. *)
(***************************************************************************)
EXTENDS Naturals

CONSTANTS Delay,      \* the latency that every packet gets
          MaxPackets  \* bound: packets that enter

VARIABLES now,        \* the time
          entered,    \* entered[n]: when packet n entered; packets are numbered
          inside,     \* the packets on the line
          left        \* the packets that left it at its far end

vars == <<now, entered, inside, left>>

Init ==
    /\ now = 0
    /\ entered = [n \in {} |-> 0]
    /\ inside = {}
    /\ left = {}

Pass == now' = now + 1 /\ UNCHANGED <<entered, inside, left>>

Enter(n) ==
    /\ DOMAIN entered = 1..(n - 1)
    /\ entered' = [m \in 1..n |-> IF m = n THEN now ELSE entered[m]]
    /\ inside' = inside \cup {n}
    /\ UNCHANGED <<now, left>>

Drop(n) ==
    /\ n \in inside
    /\ inside' = inside \ {n}
    /\ UNCHANGED <<now, entered, left>>

Leave(n) ==
    /\ n \in inside
    /\ \A m \in inside : n <= m
    /\ now >= entered[n] + Delay
    /\ inside' = inside \ {n}
    /\ left' = left \cup {n}
    /\ UNCHANGED <<now, entered>>

Next == Pass \/ \E n \in 1..MaxPackets : Enter(n) \/ Drop(n) \/ Leave(n)

Spec == Init /\ [][Next]_vars
=============================================================================
