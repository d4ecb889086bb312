-------------------------- MODULE BandwidthLimiter --------------------------
(***************************************************************************)
(* examples/bandwidth_limiter/main.go: a traffic shaper on one Divert.     *)
(*                                                                         *)
(* The main goroutine receives a packet into packetBuffer, perhaps loses   *)
(* it, gives it a time to be sent (latency, and a virtual clock for the    *)
(* bandwidth), copies it and puts it into a bounded channel without        *)
(* blocking.  A scheduler goroutine takes packets from the channel, sleeps *)
(* until their time and sends them.  A third goroutine waits for Ctrl-C,   *)
(* closes the Divert and ends the process.                                 *)
(*                                                                         *)
(* Packets are numbered in the order of Recv; the number stands for the    *)
(* bytes.  Time is discrete and may pass between any two steps.  What      *)
(* happens inside Recv and Send is DivertIO's matter: here the driver      *)
(* serves or refuses them, and they report what it did.  That they return  *)
(* is not promised: Recv holds no mutex but waits for the same event as    *)
(* Send, and the one may take the other's signal.  sendMutex has one user, *)
(* the scheduler, and is left out, and so is the goroutine that prints the *)
(* counters.                                                               *)
(***************************************************************************)
EXTENDS Naturals, Sequences

CONSTANTS Latency,     \* -latency
          Loss,        \* whether -loss is above 0
          Limited,     \* whether -bandwidth is above 0
          Costs,       \* packetDuration of a packet: its size over the rate
          Capacity,    \* of packetQueue (50000 in the program)
          MaxCost,     \* the longest packetDuration
          MaxPackets,  \* bound: packets received
          Horizon      \* bound: after it time passes for a sleeper only

ASSUME TimesAssumption == Latency \in Nat /\ MaxCost \in Nat /\ Costs \subseteq 0..MaxCost
ASSUME SwitchAssumption == Loss \in BOOLEAN /\ Limited \in BOOLEAN
ASSUME BoundsAssumption == Capacity \in Nat /\ MaxPackets \in Nat /\ Horizon \in Nat

VARIABLES now,         \* the time
          main,        \* where the main goroutine stands
          buffer,      \* packetBuffer: the packet it holds
          cost,        \* packetDuration of that packet
          sendTime,    \* main's sendTime
          nextAvailableTime,
          packetQueue, \* the channel
          scheduler,   \* where the scheduler goroutine stands
          p,           \* the scheduler's packet
          divert,      \* the Divert and the process: "open", "closed", "exited"
          totalPackets, sentPackets, droppedPackets,
          \* history
          taken,       \* taken[n]: when packet n was received
          sent,        \* the packets given back to the network
          onWire,      \* sum of the costs of these
          failed,      \* sends that returned an error
          wasted       \* sum of the costs of packets dropped at a full queue

slotVars  == <<buffer, cost, sendTime, nextAvailableTime>>
inVars    == <<totalPackets, taken>>
dropVars  == <<droppedPackets, wasted>>
schedVars == <<scheduler, p, sentPackets, sent, onWire, failed>>
vars == <<now, main, slotVars, inVars, dropVars, packetQueue, schedVars, divert>>

ScheduledPacket == [data : 1..MaxPackets, cost : Costs, sendTime : Nat]
NoPacket == [data |-> 0, cost |-> 0, sendTime |-> 0]

Later(s, t) == IF s < t THEN t ELSE s

TypeOK ==
    /\ now \in Nat
    /\ main \in {"recv", "captured", "stamped", "throttled"}
    /\ buffer \in 0..MaxPackets
    /\ cost \in Costs \cup {0}
    /\ sendTime \in Nat /\ nextAvailableTime \in Nat
    /\ packetQueue \in Seq(ScheduledPacket)
    /\ Len(packetQueue) <= Capacity
    /\ scheduler \in {"idle", "holds", "sent", "refused"}
    /\ p \in ScheduledPacket \cup {NoPacket}
    /\ scheduler = "holds" => p \in ScheduledPacket
    /\ divert \in {"open", "closed", "exited"}
    /\ totalPackets \in 0..MaxPackets
    /\ sentPackets \in Nat /\ droppedPackets \in Nat
    /\ taken \in [1..totalPackets -> Nat]
    /\ sent \subseteq 1..MaxPackets
    /\ onWire \in Nat /\ failed \in Nat /\ wasted \in Nat

Running == divert # "exited"

Init ==
    /\ now = 0
    /\ main = "recv" /\ buffer = 0 /\ cost = 0
    /\ sendTime = 0 /\ nextAvailableTime = 0
    /\ packetQueue = <<>>
    /\ scheduler = "idle" /\ p = NoPacket
    /\ divert = "open"
    /\ totalPackets = 0 /\ sentPackets = 0 /\ droppedPackets = 0
    /\ taken = [n \in {} |-> 0]
    /\ sent = {} /\ onWire = 0 /\ failed = 0 /\ wasted = 0

-----------------------------------------------------------------------------
(* The main goroutine. *)

Recv(c) ==
    /\ main = "recv" /\ divert = "open" /\ totalPackets < MaxPackets
    /\ totalPackets' = totalPackets + 1
    /\ buffer' = totalPackets + 1 /\ cost' = c
    /\ taken' = [n \in 1..(totalPackets + 1) |-> IF n = totalPackets + 1 THEN now ELSE taken[n]]
    /\ main' = "captured"
    /\ UNCHANGED <<now, sendTime, nextAvailableTime, dropVars, packetQueue, schedVars, divert>>

(* Recv returns an error and the loop goes on, for ever once the Divert is *)
(* closed. *)
RecvFails == main = "recv" /\ Running /\ UNCHANGED vars

(* Mutant: a drop is not counted. *)
DropUncounted == droppedPackets

CountDrop == droppedPackets + 1

(* The simulated loss. *)
Lose ==
    /\ main = "captured" /\ Running /\ Loss
    /\ droppedPackets' = CountDrop
    /\ main' = "recv"
    /\ UNCHANGED <<now, slotVars, inVars, wasted, packetQueue, schedVars, divert>>

(* sendTime := time.Now(), and the latency. *)
Stamp ==
    /\ main = "captured" /\ Running
    /\ sendTime' = now + Latency
    /\ main' = "stamped"
    /\ UNCHANGED <<now, buffer, cost, nextAvailableTime, inVars, dropVars, packetQueue,
                   schedVars, divert>>

(* Mutant: the latency goes into the virtual clock. *)
SlotWithLatency == Later(nextAvailableTime, now) + Latency

(* The virtual clock: the packet gets the next free slot ... *)
Slot == Later(sendTime, Later(nextAvailableTime, now))

(* Mutant: the next slot is counted from the time of the packet's arrival. *)
SlotFromNow(slot) == now + cost

(* ... and the slot after it is as far away as the packet is long. *)
SlotAfter(slot) == slot + cost

Throttle ==
    /\ main = "stamped" /\ Running
    /\ sendTime' = IF Limited THEN Slot ELSE sendTime
    /\ nextAvailableTime' = IF Limited THEN SlotAfter(Slot) ELSE nextAvailableTime
    /\ main' = "throttled"
    /\ UNCHANGED <<now, buffer, cost, inVars, dropVars, packetQueue, schedVars, divert>>

(* Mutant: one packet more than the channel has room for. *)
HasRoomForOneMore == Len(packetQueue) <= Capacity

HasRoom == Len(packetQueue) < Capacity

(* The copy of the buffer goes into the channel ... *)
Enqueue ==
    /\ main = "throttled" /\ Running /\ HasRoom
    /\ packetQueue' = Append(packetQueue, [data |-> buffer, cost |-> cost, sendTime |-> sendTime])
    /\ main' = "recv"
    /\ UNCHANGED <<now, slotVars, inVars, dropVars, schedVars, divert>>

(* ... or is dropped at a full one, although its slot is taken. *)
Overflow ==
    /\ main = "throttled" /\ Running /\ ~HasRoom
    /\ droppedPackets' = CountDrop
    /\ wasted' = wasted + cost
    /\ main' = "recv"
    /\ UNCHANGED <<now, slotVars, inVars, packetQueue, schedVars, divert>>

-----------------------------------------------------------------------------
(* The scheduler goroutine. *)

Dequeue ==
    /\ scheduler = "idle" /\ Running /\ packetQueue # <<>>
    /\ p' = Head(packetQueue)
    /\ packetQueue' = Tail(packetQueue)
    /\ scheduler' = "holds"
    /\ UNCHANGED <<now, main, slotVars, inVars, dropVars, sentPackets, sent, onWire, failed, divert>>

(* Mutant: a packet that is overdue is passed over. *)
DueExactly == now = p.sendTime

(* The sleep ends no sooner than the packet's time. *)
Due == now >= p.sendTime

(* Mutant: the channel carries the buffer itself, not a copy. *)
BytesInBuffer == buffer

Bytes == p.data

(* Inside Send: the driver takes the packet ... *)
Send ==
    /\ scheduler = "holds" /\ divert = "open" /\ Due
    /\ sent' = sent \cup {Bytes}
    /\ onWire' = onWire + p.cost
    /\ scheduler' = "sent"
    /\ UNCHANGED <<now, main, slotVars, inVars, dropVars, packetQueue, p, sentPackets, failed, divert>>

(* ... or refuses it, as it always does on a closed Divert. *)
SendFails ==
    /\ scheduler = "holds" /\ Running /\ Due
    /\ scheduler' = "refused"
    /\ UNCHANGED <<now, main, slotVars, inVars, dropVars, packetQueue, p, sentPackets, sent, onWire,
                   failed, divert>>

(* Send returns, if it does: the packet is counted, or the error logged. *)
Count ==
    /\ Running
    /\ \/ scheduler = "sent" /\ sentPackets' = sentPackets + 1 /\ UNCHANGED failed
       \/ scheduler = "refused" /\ failed' = failed + 1 /\ UNCHANGED sentPackets
    /\ scheduler' = "idle"
    /\ UNCHANGED <<now, main, slotVars, inVars, dropVars, packetQueue, p, sent, onWire, divert>>

-----------------------------------------------------------------------------
(* The goroutine that waits for Ctrl-C, and the clock. *)

Close ==
    /\ divert = "open" /\ divert' = "closed"
    /\ UNCHANGED <<now, main, slotVars, inVars, dropVars, packetQueue, schedVars>>

Exit ==
    /\ divert = "closed" /\ divert' = "exited"
    /\ UNCHANGED <<now, main, slotVars, inVars, dropVars, packetQueue, schedVars>>

Tick ==
    /\ Running
    /\ now < Horizon \/ (scheduler = "holds" /\ now < p.sendTime)
    /\ now' = now + 1
    /\ UNCHANGED <<main, slotVars, inVars, dropVars, packetQueue, schedVars, divert>>

MainStep      == (\E c \in Costs : Recv(c)) \/ RecvFails \/ Lose \/ Stamp \/ Throttle
                 \/ Enqueue \/ Overflow
SchedulerStep == Dequeue \/ Send \/ SendFails \/ Count

Next == MainStep \/ SchedulerStep \/ Close \/ Exit \/ Tick

Spec == Init /\ [][Next]_vars

(* The scheduler runs, up to the end of what the driver does for its Send, *)
(* and time passes.  Send itself need not return, Recv need not either,    *)
(* and nobody need press Ctrl-C. *)
SchedulerRuns == Dequeue \/ Send \/ SendFails
FairSpec == Spec /\ WF_vars(SchedulerRuns) /\ WF_vars(Tick)

-----------------------------------------------------------------------------
Queued == {packetQueue[i].data : i \in 1..Len(packetQueue)}
Held   == IF scheduler = "holds" THEN {p.data} ELSE {}
InHand == IF main = "recv" THEN {} ELSE {buffer}

(* The three goroutines and the channel together are a DelayLine: packets  *)
(* come out in the order in which they went in, each at most once, with    *)
(* its own bytes (main.go:172, "crucial because packetBuffer gets          *)
(* overwritten"), and never before their latency is over.                  *)
Line == INSTANCE DelayLine WITH
    Delay <- Latency, entered <- taken, left <- sent,
    inside <- InHand \cup Queued \cup Held
LineSpec == Line!Spec

(* No packet disappears without being counted: what was captured is sent,  *)
(* dropped, reported as an error, or still on its way (main.go:106).       *)
AllAccounted ==
    totalPackets = sentPackets + droppedPackets + failed + Len(packetQueue)
                   + (IF main = "recv" THEN 0 ELSE 1) + (IF scheduler = "idle" THEN 0 ELSE 1)

(* With -bandwidth, what was sent since the start fits into the time since *)
(* then at the given rate, but for the packet on the wire (main.go:168),   *)
(* however late the scheduler wakes.                                       *)
RateHolds == Limited => onWire <= now + MaxCost

(* The FIFO channel delays no packet beyond its time (main.go:79): what    *)
(* comes later is due later, whatever losses and drops lie in between.     *)
DueInOrder ==
    \A i \in 1..Len(packetQueue) :
        /\ scheduler = "holds" => p.sendTime <= packetQueue[i].sendTime
        /\ \A j \in 1..i : packetQueue[j].sendTime <= packetQueue[i].sendTime

(* What is still to be sent: cost of the packets that have a slot. *)
QueueCost[i \in 0..Len(packetQueue)] ==
    IF i = 0 THEN 0 ELSE packetQueue[i].cost + QueueCost[i - 1]
Backlog == QueueCost[Len(packetQueue)]
           + (IF scheduler = "holds" THEN p.cost ELSE 0)
           + (IF main = "throttled" THEN cost ELSE 0)

(* The virtual clock runs ahead of the time by what is still to be sent,   *)
(* and by the slots that packets dropped at a full queue have wasted       *)
(* (main.go:181): no other time is lost to the link.                       *)
ClockIsBacklog == nextAvailableTime <= now + Later(Latency, MaxCost) + Backlog + wasted

(* The scheduler does not stay in one Send for ever.  This program does    *)
(* not guarantee it: Send waits for an event that Recv, outside of         *)
(* sendMutex, waits for too (raw.go:295, main.go:89 and 131).              *)
SendsReturn == []<>(scheduler \notin {"sent", "refused"})

(* As long as Sends return, a packet that is in the channel gets its turn, *)
(* however late the scheduler wakes for it, or the program ends: a Send    *)
(* that does not return is all that can hold up the channel (main.go:79).  *)
GetsItsTurn ==
    SendsReturn =>
        \A n \in 1..MaxPackets : n \in Queued ~> (n \notin Queued \cup Held \/ ~Running)
=============================================================================
