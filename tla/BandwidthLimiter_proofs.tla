----------------------- MODULE BandwidthLimiter_proofs -----------------------
(***************************************************************************)
(* Proofs about BandwidthLimiter for every latency, rate, capacity and     *)
(* number of packets.                                                      *)
(***************************************************************************)
EXTENDS BandwidthLimiter, Recursion, TLAPS

(* Tuples of variables are always expanded. *)
USE DEF slotVars, inVars, dropVars, schedVars

(* The earliest time at which the next packet may be due. *)
Frontier == IF main = "throttled" THEN sendTime ELSE nextAvailableTime

(* What a packet that waits for its time has to do with the rest: its slot *)
(* begins after all that was sent and ends before the clock, it is due no  *)
(* later than what main prepares, it came before that, and it has served   *)
(* its latency when it is due. *)
Fits(r) ==
    /\ Limited => onWire <= r.sendTime /\ r.sendTime + r.cost <= Frontier
    /\ ~Limited => /\ r.sendTime <= now + Latency
                   /\ main \in {"stamped", "throttled"} => r.sendTime <= sendTime
    /\ r.data <= totalPackets
    /\ main # "recv" => r.data < buffer
    /\ taken[r.data] + Latency <= r.sendTime

(* r was received before s: their slots do not overlap. *)
Before(r, s) ==
    /\ r.data < s.data
    /\ r.sendTime <= s.sendTime
    /\ Limited => r.sendTime + r.cost <= s.sendTime

(* What main knows of the packet in its hands. *)
MainKnows ==
    /\ main # "recv" => buffer = totalPackets /\ buffer \in 1..MaxPackets /\ cost \in Costs
    /\ main = "captured" => taken[buffer] <= now
    /\ main \in {"stamped", "throttled"} => taken[buffer] + Latency <= sendTime
    /\ ~Limited /\ main \in {"stamped", "throttled"} => sendTime <= now + Latency
    /\ Limited /\ main = "throttled" => sendTime + cost <= nextAvailableTime
    /\ Limited => onWire <= Frontier

InLine ==
    /\ \A i \in 1..Len(packetQueue) : Fits(packetQueue[i])
    /\ \A i, j \in 1..Len(packetQueue) : i < j => Before(packetQueue[i], packetQueue[j])
    /\ scheduler = "holds" =>
          Fits(p) /\ \A i \in 1..Len(packetQueue) : Before(p, packetQueue[i])

IInv == TypeOK /\ MainKnows /\ InLine /\ RateHolds /\ AllAccounted
-----------------------------------------------------------------------------
(* The queue after a packet was appended, and after one was taken. *)
LEMMA AppendElements ==
    ASSUME NEW S, NEW q \in Seq(S), NEW x \in S
    PROVE  /\ Append(q, x) \in Seq(S)
           /\ Len(Append(q, x)) = Len(q) + 1
           /\ \A i \in 1..Len(q) : Append(q, x)[i] = q[i]
           /\ Append(q, x)[Len(q) + 1] = x
  OBVIOUS

LEMMA TailElements ==
    ASSUME NEW S, NEW q \in Seq(S), q # <<>>
    PROVE  /\ Tail(q) \in Seq(S)
           /\ Len(q) \in Nat \ {0}
           /\ Len(Tail(q)) = Len(q) - 1
           /\ \A i \in 1..Len(Tail(q)) : Tail(q)[i] = q[i + 1]
           /\ Head(q) = q[1]
           /\ Head(q) \in S
  OBVIOUS

(* A packet with a time has a cost that can be added to a time. *)
LEMMA CostIsNumber ==
    ASSUME NEW r \in ScheduledPacket
    PROVE  r.cost \in Nat /\ r.cost <= MaxCost /\ r.cost \in Costs /\ r.sendTime \in Nat
                           /\ r.data \in 1..MaxPackets
<1>1. r.cost \in Costs /\ r.sendTime \in Nat /\ r.data \in 1..MaxPackets
  BY DEF ScheduledPacket
<1>2. r.cost \in 0..MaxCost /\ MaxCost \in Nat
  BY <1>1, TimesAssumption
<1> QED
  BY <1>1, <1>2

(* The invariant holds at the start. *)
LEMMA InitIInv == Init => IInv
  BY TimesAssumption, BoundsAssumption
  DEF Init, IInv, TypeOK, MainKnows, InLine, RateHolds, AllAccounted, NoPacket, Frontier

(* Types: a packet in hand is numbered, so what enters the queue is a      *)
(* ScheduledPacket. *)
LEMMA TypeStep == TypeOK /\ MainKnows /\ [Next]_vars => TypeOK'
<1> SUFFICES ASSUME TypeOK, MainKnows, [Next]_vars PROVE TypeOK'
  OBVIOUS
<1>1. CASE \E c \in Costs : Recv(c)
  BY <1>1, TimesAssumption, BoundsAssumption DEF TypeOK, MainKnows, Recv, vars
<1>2. CASE RecvFails
  BY <1>2, TimesAssumption, BoundsAssumption DEF TypeOK, MainKnows, RecvFails, vars
<1>3. CASE Lose
  BY <1>3, TimesAssumption, BoundsAssumption DEF TypeOK, MainKnows, Lose, CountDrop, vars
<1>4. CASE Stamp
  BY <1>4, TimesAssumption, BoundsAssumption DEF TypeOK, MainKnows, Stamp, vars
<1>5. CASE Throttle
  BY <1>5, TimesAssumption, BoundsAssumption DEF TypeOK, MainKnows, Throttle, Later, Slot, SlotAfter, vars
<1>6. CASE Enqueue
  BY <1>6, TimesAssumption, BoundsAssumption DEF TypeOK, MainKnows, Enqueue, HasRoom, ScheduledPacket, vars
<1>7. CASE Overflow
  BY <1>7, TimesAssumption, BoundsAssumption DEF TypeOK, MainKnows, Overflow, CountDrop, vars
<1>8. CASE Dequeue
  BY <1>8, TimesAssumption, BoundsAssumption DEF TypeOK, MainKnows, Dequeue, vars
<1>9. CASE Send
  <2>1. p \in ScheduledPacket
    BY <1>9 DEF TypeOK, Send, Due, Bytes
  <2>2. p.cost \in Nat /\ p.data \in 1..MaxPackets
    BY <2>1, CostIsNumber
  <2>3. sent' = sent \cup {p.data} /\ onWire' = onWire + p.cost
    BY <1>9 DEF Send, Due, Bytes
  <2>4. sent \subseteq 1..MaxPackets /\ onWire \in Nat
    BY DEF TypeOK
  <2>5. sent' \subseteq 1..MaxPackets
    BY <2>2, <2>3, <2>4
  <2>6. onWire' \in Nat
    BY <2>2, <2>3, <2>4
  <2> QED
    BY <1>9, <2>1, <2>5, <2>6 DEF TypeOK, Send, Due, Bytes
<1>10. CASE SendFails
  BY <1>10, TimesAssumption, BoundsAssumption DEF TypeOK, MainKnows, SendFails, vars
<1>11. CASE Count
  BY <1>11, TimesAssumption, BoundsAssumption DEF TypeOK, MainKnows, Count, vars
<1>12. CASE Close
  BY <1>12, TimesAssumption, BoundsAssumption DEF TypeOK, MainKnows, Close, vars
<1>13. CASE Exit
  BY <1>13, TimesAssumption, BoundsAssumption DEF TypeOK, MainKnows, Exit, vars
<1>14. CASE Tick
  BY <1>14, TimesAssumption, BoundsAssumption DEF TypeOK, MainKnows, Tick, vars
<1>15. CASE UNCHANGED vars
  BY <1>15 DEF TypeOK, MainKnows, vars
<1> QED
  BY <1>1, <1>2, <1>3, <1>4, <1>5, <1>6, <1>7, <1>8, <1>9, <1>10, <1>11, <1>12, <1>13, <1>14, <1>15 DEF Next, MainStep, SchedulerStep

LEMMA MainStepKnows == TypeOK /\ MainKnows /\ InLine /\ [Next]_vars => MainKnows'
<1> SUFFICES ASSUME TypeOK, MainKnows, InLine, [Next]_vars PROVE MainKnows'
  OBVIOUS
<1>1. CASE \E c \in Costs : Recv(c)
  BY <1>1, TimesAssumption, BoundsAssumption DEF TypeOK, MainKnows, Frontier, Recv, vars
<1>2. CASE RecvFails
  BY <1>2, TimesAssumption, BoundsAssumption DEF TypeOK, MainKnows, Frontier, RecvFails, vars
<1>3. CASE Lose
  BY <1>3, TimesAssumption, BoundsAssumption DEF TypeOK, MainKnows, Frontier, Lose, CountDrop, vars
<1>4. CASE Stamp
  BY <1>4, TimesAssumption, BoundsAssumption DEF TypeOK, MainKnows, Frontier, Stamp, vars
<1>5. CASE Throttle
  BY <1>5, TimesAssumption, BoundsAssumption DEF TypeOK, MainKnows, Frontier, Throttle, Later, Slot, SlotAfter, vars
<1>6. CASE Enqueue
  BY <1>6, TimesAssumption, BoundsAssumption DEF TypeOK, MainKnows, Frontier, Enqueue, HasRoom, vars
<1>7. CASE Overflow
  BY <1>7, TimesAssumption, BoundsAssumption DEF TypeOK, MainKnows, Frontier, Overflow, CountDrop, vars
<1>8. CASE Dequeue
  BY <1>8, TimesAssumption, BoundsAssumption DEF TypeOK, MainKnows, Frontier, Dequeue, vars
<1>9. CASE Send
  BY <1>9, TimesAssumption, CostIsNumber DEF TypeOK, MainKnows, Frontier, Send, Due, Bytes, InLine, Fits, ScheduledPacket, vars
<1>10. CASE SendFails
  BY <1>10, TimesAssumption, BoundsAssumption DEF TypeOK, MainKnows, Frontier, SendFails, vars
<1>11. CASE Count
  BY <1>11, TimesAssumption, BoundsAssumption DEF TypeOK, MainKnows, Frontier, Count, vars
<1>12. CASE Close
  BY <1>12, TimesAssumption, BoundsAssumption DEF TypeOK, MainKnows, Frontier, Close, vars
<1>13. CASE Exit
  BY <1>13, TimesAssumption, BoundsAssumption DEF TypeOK, MainKnows, Frontier, Exit, vars
<1>14. CASE Tick
  BY <1>14, TimesAssumption, BoundsAssumption DEF TypeOK, MainKnows, Frontier, Tick, vars
<1>15. CASE UNCHANGED vars
  BY <1>15 DEF TypeOK, MainKnows, Frontier, vars
<1> QED
  BY <1>1, <1>2, <1>3, <1>4, <1>5, <1>6, <1>7, <1>8, <1>9, <1>10, <1>11, <1>12, <1>13, <1>14, <1>15 DEF Next, MainStep, SchedulerStep

LEMMA AccountStep == TypeOK /\ AllAccounted /\ [Next]_vars => AllAccounted'
<1> SUFFICES ASSUME TypeOK, AllAccounted, [Next]_vars PROVE AllAccounted'
  OBVIOUS
<1>1. CASE \E c \in Costs : Recv(c)
  BY <1>1, TimesAssumption, BoundsAssumption DEF TypeOK, AllAccounted, Recv, vars
<1>2. CASE RecvFails
  BY <1>2, TimesAssumption, BoundsAssumption DEF TypeOK, AllAccounted, RecvFails, vars
<1>3. CASE Lose
  BY <1>3, TimesAssumption, BoundsAssumption DEF TypeOK, AllAccounted, Lose, CountDrop, vars
<1>4. CASE Stamp
  BY <1>4, TimesAssumption, BoundsAssumption DEF TypeOK, AllAccounted, Stamp, vars
<1>5. CASE Throttle
  BY <1>5, TimesAssumption, BoundsAssumption DEF TypeOK, AllAccounted, Throttle, vars
<1>6. CASE Enqueue
  BY <1>6, TimesAssumption, BoundsAssumption DEF TypeOK, AllAccounted, Enqueue, HasRoom, vars
<1>7. CASE Overflow
  BY <1>7, TimesAssumption, BoundsAssumption DEF TypeOK, AllAccounted, Overflow, CountDrop, vars
<1>8. CASE Dequeue
  BY <1>8, TimesAssumption, BoundsAssumption DEF TypeOK, AllAccounted, Dequeue, vars
<1>9. CASE Send
  BY <1>9, TimesAssumption, CostIsNumber DEF TypeOK, AllAccounted, Send, Due, Bytes, vars
<1>10. CASE SendFails
  BY <1>10, TimesAssumption, BoundsAssumption DEF TypeOK, AllAccounted, SendFails, vars
<1>11. CASE Count
  <2>1. scheduler \in {"sent", "refused"} /\ scheduler' = "idle"
        /\ UNCHANGED <<totalPackets, droppedPackets, packetQueue, main>>
    BY <1>11 DEF Count
  <2>2. totalPackets = sentPackets + droppedPackets + failed + Len(packetQueue)
                       + (IF main = "recv" THEN 0 ELSE 1) + 1
    BY <2>1 DEF AllAccounted
  <2>3. /\ Len(packetQueue) \in Nat /\ sentPackets \in Nat /\ droppedPackets \in Nat
        /\ failed \in Nat
    BY DEF TypeOK
  <2>4. CASE sentPackets' = sentPackets + 1 /\ UNCHANGED failed
    BY <2>1, <2>2, <2>3, <2>4 DEF AllAccounted
  <2>5. CASE failed' = failed + 1 /\ UNCHANGED sentPackets
    BY <2>1, <2>2, <2>3, <2>5 DEF AllAccounted
  <2> QED
    BY <1>11, <2>4, <2>5 DEF Count
<1>12. CASE Close
  BY <1>12, TimesAssumption, BoundsAssumption DEF TypeOK, AllAccounted, Close, vars
<1>13. CASE Exit
  BY <1>13, TimesAssumption, BoundsAssumption DEF TypeOK, AllAccounted, Exit, vars
<1>14. CASE Tick
  BY <1>14, TimesAssumption, BoundsAssumption DEF TypeOK, AllAccounted, Tick, vars
<1>15. CASE UNCHANGED vars
  BY <1>15 DEF TypeOK, AllAccounted, vars
<1> QED
  BY <1>1, <1>2, <1>3, <1>4, <1>5, <1>6, <1>7, <1>8, <1>9, <1>10, <1>11, <1>12, <1>13, <1>14, <1>15 DEF Next, MainStep, SchedulerStep

LEMMA RateStep == TypeOK /\ InLine /\ RateHolds /\ [Next]_vars => RateHolds'
<1> SUFFICES ASSUME TypeOK, InLine, RateHolds, [Next]_vars PROVE RateHolds'
  OBVIOUS
<1>1. CASE \E c \in Costs : Recv(c)
  BY <1>1, TimesAssumption, BoundsAssumption DEF TypeOK, RateHolds, Recv, vars
<1>2. CASE RecvFails
  BY <1>2, TimesAssumption, BoundsAssumption DEF TypeOK, RateHolds, RecvFails, vars
<1>3. CASE Lose
  BY <1>3, TimesAssumption, BoundsAssumption DEF TypeOK, RateHolds, Lose, CountDrop, vars
<1>4. CASE Stamp
  BY <1>4, TimesAssumption, BoundsAssumption DEF TypeOK, RateHolds, Stamp, vars
<1>5. CASE Throttle
  BY <1>5, TimesAssumption, BoundsAssumption DEF TypeOK, RateHolds, Throttle, vars
<1>6. CASE Enqueue
  BY <1>6, TimesAssumption, BoundsAssumption DEF TypeOK, RateHolds, Enqueue, HasRoom, vars
<1>7. CASE Overflow
  BY <1>7, TimesAssumption, BoundsAssumption DEF TypeOK, RateHolds, Overflow, CountDrop, vars
<1>8. CASE Dequeue
  BY <1>8, TimesAssumption, BoundsAssumption DEF TypeOK, RateHolds, Dequeue, vars
<1>9. CASE Send
  BY <1>9, TimesAssumption, CostIsNumber DEF TypeOK, RateHolds, Send, Due, Bytes, InLine, Fits, ScheduledPacket, vars
<1>10. CASE SendFails
  BY <1>10, TimesAssumption, BoundsAssumption DEF TypeOK, RateHolds, SendFails, vars
<1>11. CASE Count
  BY <1>11, TimesAssumption, BoundsAssumption DEF TypeOK, RateHolds, Count, vars
<1>12. CASE Close
  BY <1>12, TimesAssumption, BoundsAssumption DEF TypeOK, RateHolds, Close, vars
<1>13. CASE Exit
  BY <1>13, TimesAssumption, BoundsAssumption DEF TypeOK, RateHolds, Exit, vars
<1>14. CASE Tick
  BY <1>14, TimesAssumption, BoundsAssumption DEF TypeOK, RateHolds, Tick, vars
<1>15. CASE UNCHANGED vars
  BY <1>15 DEF TypeOK, RateHolds, vars
<1> QED
  BY <1>1, <1>2, <1>3, <1>4, <1>5, <1>6, <1>7, <1>8, <1>9, <1>10, <1>11, <1>12, <1>13, <1>14, <1>15 DEF Next, MainStep, SchedulerStep
(* Nothing but a send, which ends the packet's own turn, disturbs the      *)
(* place of a packet in the schedule. *)
LEMMA FitsStep ==
    ASSUME TypeOK, MainKnows, [Next]_vars, ~Send,
           NEW s \in ScheduledPacket, Fits(s)
    PROVE  Fits(s)'
<1>a. /\ s.cost \in Nat /\ s.sendTime \in Nat /\ s.data \in Nat \ {0}
      /\ cost \in Nat
  BY CostIsNumber, TimesAssumption DEF TypeOK
<1>1. CASE \E c \in Costs : Recv(c)
  BY <1>1, <1>a, TimesAssumption DEF TypeOK, MainKnows, Fits, Frontier, Recv, vars
<1>2. CASE RecvFails
  BY <1>2, <1>a, TimesAssumption DEF TypeOK, MainKnows, Fits, Frontier, RecvFails, vars
<1>3. CASE Lose
  BY <1>3, <1>a, TimesAssumption DEF TypeOK, MainKnows, Fits, Frontier, Lose, CountDrop, vars
<1>4. CASE Stamp
  BY <1>4, <1>a, TimesAssumption DEF TypeOK, MainKnows, Fits, Frontier, Stamp, vars
<1>5. CASE Throttle
  BY <1>5, <1>a, TimesAssumption DEF TypeOK, MainKnows, Fits, Frontier, Later, Slot, SlotAfter, Throttle, vars
<1>6. CASE Enqueue
  BY <1>6, <1>a, TimesAssumption DEF TypeOK, MainKnows, Fits, Frontier, Enqueue, HasRoom, vars
<1>7. CASE Overflow
  BY <1>7, <1>a, TimesAssumption DEF TypeOK, MainKnows, Fits, Frontier, Overflow, CountDrop, vars
<1>8. CASE Dequeue
  BY <1>8, <1>a, TimesAssumption DEF TypeOK, MainKnows, Fits, Frontier, Dequeue, vars
<1>9. CASE SendFails
  BY <1>9, <1>a, TimesAssumption DEF TypeOK, MainKnows, Fits, Frontier, SendFails, vars
<1>10. CASE Count
  BY <1>10, <1>a, TimesAssumption DEF TypeOK, MainKnows, Fits, Frontier, Count, vars
<1>11. CASE Close
  BY <1>11, <1>a, TimesAssumption DEF TypeOK, MainKnows, Fits, Frontier, Close, vars
<1>12. CASE Exit
  BY <1>12, <1>a, TimesAssumption DEF TypeOK, MainKnows, Fits, Frontier, Exit, vars
<1>13. CASE Tick
  BY <1>13, <1>a, TimesAssumption DEF TypeOK, MainKnows, Fits, Frontier, Tick, vars
<1>14. CASE UNCHANGED vars
  BY <1>14 DEF Fits, Frontier, vars
<1> QED
  BY <1>1, <1>2, <1>3, <1>4, <1>5, <1>6, <1>7, <1>8, <1>9, <1>10, <1>11, <1>12, <1>13, <1>14 DEF Next, MainStep, SchedulerStep

(* The queue's packets keep their places in the schedule. *)
LEMMA LineStep == IInv /\ [Next]_vars => InLine'
<1> SUFFICES ASSUME IInv, [Next]_vars PROVE InLine'
  OBVIOUS
<1> USE DEF IInv
<1>a. /\ packetQueue \in Seq(ScheduledPacket)
      /\ Len(packetQueue) \in Nat
      /\ \A i \in 1..Len(packetQueue) : packetQueue[i] \in ScheduledPacket
      /\ scheduler = "holds" => p \in ScheduledPacket
  BY DEF TypeOK
<1>b. ~Send => \A s \in ScheduledPacket : Fits(s) => Fits(s)'
  BY FitsStep
<1>1. CASE Enqueue
  <2> DEFINE r == [data |-> buffer, cost |-> cost, sendTime |-> sendTime]
  <2>1. r \in ScheduledPacket
    BY <1>1 DEF TypeOK, MainKnows, Enqueue, HasRoom, ScheduledPacket
  <2>2. /\ Len(packetQueue') = Len(packetQueue) + 1
        /\ \A i \in 1..Len(packetQueue) : packetQueue'[i] = packetQueue[i]
        /\ packetQueue'[Len(packetQueue) + 1] = r
    BY <1>1, <1>a, <2>1, AppendElements DEF Enqueue, HasRoom
  <2>3. cost \in Nat
    BY TimesAssumption DEF TypeOK
  <2>4. Fits(r)'
    BY <1>1, <2>3 DEF TypeOK, MainKnows, Fits, Frontier, Enqueue, HasRoom
  <2>5. \A s \in ScheduledPacket : Fits(s) => Before(s, r)
    BY <1>1, CostIsNumber DEF TypeOK, MainKnows, Fits, Before, Frontier, Enqueue, HasRoom
  <2>6. ~Send
    BY <1>1 DEF Enqueue, HasRoom, Send, Due, Bytes
  <2> QED
    BY <1>1, <1>a, <1>b, <2>1, <2>2, <2>4, <2>5, <2>6 DEF InLine, Enqueue, HasRoom
<1>2. CASE Dequeue
  <2>1. /\ Len(packetQueue') = Len(packetQueue) - 1
        /\ \A i \in 1..Len(packetQueue') : packetQueue'[i] = packetQueue[i + 1]
        /\ p' = packetQueue[1]
        /\ Len(packetQueue) \in Nat \ {0}
    BY <1>2, <1>a, TailElements DEF Dequeue
  <2>2. ~Send
    BY <1>2 DEF Dequeue, Send, Due, Bytes
  <2> QED
    BY <1>2, <1>a, <1>b, <2>1, <2>2 DEF InLine, Dequeue
<1>3. CASE Send
  <2>1. \A s \in ScheduledPacket : Fits(s) /\ Before(p, s) => Fits(s)'
    BY <1>3, <1>a, CostIsNumber DEF TypeOK, InLine, Fits, Before, Frontier, Send, Due, Bytes
  <2> QED
    BY <1>3, <1>a, <2>1 DEF InLine, Send, Due, Bytes
<1>4. CASE ~Send /\ UNCHANGED packetQueue /\ (scheduler' = "holds" => UNCHANGED schedVars)
  BY <1>4, <1>a, <1>b DEF InLine
<1> QED
  BY <1>1, <1>2, <1>3, <1>4
  DEF Next, MainStep, SchedulerStep, Recv, RecvFails, Lose, CountDrop, Stamp, Throttle, Overflow, CountDrop,
      SendFails, Count, Close, Exit, Tick, vars

(* The invariant is inductive. *)
LEMMA NextIInv == IInv /\ [Next]_vars => IInv'
  BY TypeStep, MainStepKnows, LineStep, RateStep, AccountStep DEF IInv

LEMMA Inductive == Spec => []IInv
  BY InitIInv, NextIInv, PTL DEF Spec

(* The variables of the limiter keep their types: the channel never holds  *)
(* more than its capacity (main.go:70). *)
THEOREM TypeCorrect == Spec => []TypeOK
<1>1. IInv => TypeOK
  BY DEF IInv
<1> QED
  BY Inductive, <1>1, PTL

(* What was captured is sent, dropped, reported or still on its way        *)
(* (main.go:106). *)
THEOREM AllAccountedHolds == Spec => []AllAccounted
<1>1. IInv => AllAccounted
  BY DEF IInv
<1> QED
  BY Inductive, <1>1, PTL

(* The bytes sent since the start fit into the time since then at the      *)
(* configured bandwidth, for every traffic and however late the scheduler  *)
(* is (main.go:156-170). *)
THEOREM RateIsKept == Spec => []RateHolds
<1>1. IInv => RateHolds
  BY DEF IInv
<1> QED
  BY Inductive, <1>1, PTL

(* The FIFO channel is ordered by the times of its packets (main.go:79). *)
THEOREM ChannelInOrder == Spec => []DueInOrder
<1>1. IInv => DueInOrder
  <2> SUFFICES ASSUME IInv PROVE DueInOrder
    OBVIOUS
  <2>1. /\ Len(packetQueue) \in Nat
        /\ \A i \in 1..Len(packetQueue) : packetQueue[i] \in ScheduledPacket
    BY DEF IInv, TypeOK
  <2>2. \A i \in 1..Len(packetQueue) : packetQueue[i].sendTime \in Nat
    BY <2>1, CostIsNumber
  <2> QED
    BY <2>1, <2>2 DEF IInv, InLine, Before, DueInOrder
<1> QED
  BY Inductive, <1>1, PTL
-----------------------------------------------------------------------------
(* The shaper is a delay line. *)
InsideNow == InHand \cup Queued \cup Held

LEMMA LineInit == Init => Line!Init
  BY DEF Init, Line!Init, InHand, Queued, Held

(* What the queue holds is older than what main has in its hands and       *)
(* younger than what the scheduler holds. *)
LEMMA Ages ==
    ASSUME IInv
    PROVE  /\ Queued \subseteq 1..totalPackets /\ Held \subseteq 1..totalPackets
           /\ InHand \subseteq 1..totalPackets
           /\ \A n \in InHand, m \in Queued \cup Held : m < n
           /\ \A n \in Queued, m \in Held : m < n
<1>1. /\ Len(packetQueue) \in Nat
      /\ \A i \in 1..Len(packetQueue) : packetQueue[i] \in ScheduledPacket
      /\ scheduler = "holds" => p \in ScheduledPacket
      /\ totalPackets \in Nat
  BY DEF IInv, TypeOK
<1> QED
  BY <1>1, CostIsNumber DEF IInv, MainKnows, InLine, Fits, Before, Queued, Held, InHand

LEMMA LineNext == IInv /\ [Next]_vars => [Line!Next]_(Line!vars)
<1> SUFFICES ASSUME IInv, [Next]_vars PROVE [Line!Next]_(Line!vars)
  OBVIOUS
<1> USE DEF InsideNow
<1>a. /\ packetQueue \in Seq(ScheduledPacket)
      /\ Len(packetQueue) \in Nat
      /\ \A i \in 1..Len(packetQueue) : packetQueue[i] \in ScheduledPacket
      /\ totalPackets \in 0..MaxPackets /\ MaxPackets \in Nat
      /\ DOMAIN taken = 1..totalPackets
      /\ main # "recv" => buffer = totalPackets /\ buffer \in 1..MaxPackets
  BY BoundsAssumption DEF IInv, TypeOK, MainKnows
<1>b. UNCHANGED packetQueue => UNCHANGED Queued
  BY DEF Queued
<1>1. ASSUME NEW c \in Costs, Recv(c) PROVE Line!Enter(totalPackets + 1) /\ totalPackets < MaxPackets
  <2>1. InsideNow' = InsideNow \cup {totalPackets + 1}
    BY <1>1, <1>b DEF Recv, InHand, Held
  <2> QED
    BY <1>1, <1>a, <2>1 DEF Recv, Line!Enter
<1>2. CASE Lose \/ Overflow
  <2>1. InHand = {buffer} /\ InHand' = {} /\ UNCHANGED <<Queued, Held>>
    BY <1>2, <1>b DEF Lose, Overflow, CountDrop, InHand, Held
  <2>2. InsideNow' = InsideNow \ {buffer} /\ buffer \in InsideNow
    BY <1>a, <2>1, Ages
  <2>3. Line!Drop(buffer)
    BY <1>2, <2>2 DEF Lose, Overflow, CountDrop, Line!Drop
  <2> QED
    BY <1>2, <1>a, <2>3 DEF Line!Next, Lose, Overflow, CountDrop
<1>3. CASE Stamp \/ Throttle \/ Count \/ Close \/ Exit \/ RecvFails
  BY <1>3, <1>b DEF Stamp, Throttle, Count, Close, Exit, RecvFails, InHand, Held,
                    vars, Line!vars
<1>4. CASE Enqueue
  <2> DEFINE r == [data |-> buffer, cost |-> cost, sendTime |-> sendTime]
  <2>1. r \in ScheduledPacket
    BY <1>4 DEF IInv, TypeOK, MainKnows, Enqueue, HasRoom, ScheduledPacket
  <2>2. /\ Len(packetQueue') = Len(packetQueue) + 1
        /\ \A i \in 1..Len(packetQueue) : packetQueue'[i] = packetQueue[i]
        /\ packetQueue'[Len(packetQueue) + 1] = r
    BY <1>4, <1>a, <2>1, AppendElements DEF Enqueue, HasRoom
  <2>3. Queued' = Queued \cup {buffer}
    BY <1>a, <2>2 DEF Queued
  <2>4. UNCHANGED InsideNow
    BY <1>4, <2>3 DEF Enqueue, HasRoom, InHand, Held
  <2> QED
    BY <1>4, <2>4 DEF Enqueue, HasRoom, Line!vars
<1>5. CASE Dequeue
  <2>1. /\ Len(packetQueue') = Len(packetQueue) - 1
        /\ \A i \in 1..Len(packetQueue') : packetQueue'[i] = packetQueue[i + 1]
        /\ p' = packetQueue[1]
        /\ Len(packetQueue) \in Nat \ {0}
    BY <1>5, <1>a, TailElements DEF Dequeue
  <2>2. Queued = Queued' \cup {p'.data}
    <3>1. ASSUME NEW i \in 1..Len(packetQueue)
          PROVE  packetQueue[i].data \in Queued' \cup {p'.data}
      <4>1. CASE i = 1
        BY <2>1, <4>1
      <4>2. CASE i # 1
        <5>1. i - 1 \in 1..Len(packetQueue') /\ packetQueue'[i - 1] = packetQueue[i]
          BY <2>1, <4>2
        <5> QED
          BY <5>1 DEF Queued
      <4> QED
        BY <4>1, <4>2
    <3>2. \A i \in 1..Len(packetQueue') : i + 1 \in 1..Len(packetQueue)
      BY <2>1
    <3>3. Queued' \subseteq Queued
      BY <2>1, <3>2 DEF Queued
    <3>4. p'.data \in Queued
      BY <2>1 DEF Queued
    <3> QED
      BY <3>1, <3>3, <3>4 DEF Queued
  <2>3. UNCHANGED InsideNow
    BY <1>5, <2>2 DEF Dequeue, InHand, Held
  <2> QED
    BY <1>5, <2>3 DEF Dequeue, Line!vars
<1>6. CASE Send \/ SendFails
  <2>1. Held = {p.data} /\ Held' = {} /\ UNCHANGED <<Queued, InHand>>
    BY <1>6, <1>b DEF Send, Due, Bytes, SendFails, InHand, Held
  <2>2. p \in ScheduledPacket /\ Fits(p) /\ p.data \in 1..MaxPackets
    BY <1>6, CostIsNumber DEF IInv, TypeOK, InLine, Send, Due, Bytes, SendFails
  <2>3. /\ p.data \in InsideNow
        /\ InsideNow' = InsideNow \ {p.data}
        /\ \A m \in InsideNow : p.data <= m
    <3>1. \A m \in InHand \cup Queued : p.data < m
      BY <2>1, Ages
    <3>2. p.data \in Nat /\ InsideNow = InHand \cup Queued \cup {p.data}
      BY <2>1, <2>2
    <3>3. InHand \cup Queued \subseteq Nat
      BY <1>a, Ages
    <3>4. p.data \notin InHand \cup Queued
      BY <3>1, <3>2
    <3>5. InsideNow' = InsideNow \ {p.data}
      BY <2>1, <3>2, <3>4
    <3> QED
      BY <3>1, <3>2, <3>3, <3>5
  <2>4. CASE Send
    <3>1. taken[p.data] + Latency <= now
      <4>1. taken[p.data] \in Nat /\ p.sendTime \in Nat
        BY <2>2, CostIsNumber DEF Fits, IInv, TypeOK
      <4> QED
        BY <2>2, <2>4, <4>1, TimesAssumption DEF Fits, Send, Due, Bytes, IInv, TypeOK
    <3> QED
      BY <2>2, <2>3, <2>4, <3>1 DEF Send, Due, Bytes, Line!Leave, Line!Next
  <2>5. CASE SendFails
    BY <2>2, <2>3, <2>5 DEF SendFails, Line!Drop, Line!Next
  <2> QED
    BY <1>6, <2>4, <2>5
<1>7. CASE Tick
  BY <1>7, <1>b DEF Tick, Line!Next, Line!Pass, InHand, Held
<1>8. CASE UNCHANGED vars
  BY <1>8, <1>b DEF vars, Line!vars, InHand, Held
<1>9. CASE \E c \in Costs : Recv(c)
  BY <1>1, <1>9, <1>a DEF Line!Next
<1> QED
  BY <1>2, <1>3, <1>4, <1>5, <1>6, <1>7, <1>8, <1>9 DEF Next, MainStep, SchedulerStep

(* Packets leave the shaper in the order in which they entered, each at    *)
(* most once, with its own bytes and after its latency (main.go:172).      *)
THEOREM ShaperIsDelayLine == Spec => LineSpec
  BY Inductive, LineInit, LineNext, PTL DEF Spec, LineSpec, Line!Spec
-----------------------------------------------------------------------------
(* The costs of the first i packets of a queue. *)
CostOf(q) ==
    LET c[i \in 0..Len(q)] == IF i = 0 THEN 0 ELSE q[i].cost + c[i - 1]
    IN  c

IsCostOf(c, q) ==
    /\ c \in [0..Len(q) -> Nat]
    /\ c[0] = 0
    /\ \A i \in 1..Len(q) : c[i] = q[i].cost + c[i - 1]

LEMMA CostOfDef ==
  ASSUME NEW q \in Seq(ScheduledPacket)
  PROVE  IsCostOf(CostOf(q), q)
<1> DEFINE D == 0..Len(q)
           F == [g \in [D -> Nat] |-> [i \in D |-> IF i = 0 THEN 0 ELSE q[i].cost + g[i - 1]]]
           rank == [i \in D |-> i]
<1>0. Len(q) \in Nat /\ \A i \in 1..Len(q) : q[i].cost \in Nat
  <2>1. Len(q) \in Nat /\ \A i \in 1..Len(q) : q[i] \in ScheduledPacket
    OBVIOUS
  <2> QED
    BY <2>1, CostIsNumber
<1>1. Descends(F, D, Nat, rank)
  <2>1. rank \in [D -> Nat]
    BY <1>0
  <2>2. F \in [[D -> Nat] -> [D -> Nat]]
    <3>1. ASSUME NEW g \in [D -> Nat], NEW i \in D
          PROVE  (IF i = 0 THEN 0 ELSE q[i].cost + g[i - 1]) \in Nat
      BY <1>0
    <3> QED
      BY <3>1
  <2>3. ASSUME NEW g \in [D -> Nat], NEW h \in [D -> Nat], NEW i \in D,
               \A j \in D : rank[j] < rank[i] => g[j] = h[j]
        PROVE  F[g][i] = F[h][i]
    <3>1. i = 0 \/ (i - 1 \in D /\ rank[i - 1] < rank[i])
      BY <1>0
    <3> QED
      BY <2>3, <3>1
  <2> HIDE DEF F, D, rank
  <2> QED
    BY <2>1, <2>2, <2>3 DEF Descends
<1>2. \E c \in [D -> Nat] : c = F[c]
  <2> HIDE DEF F, D, rank
  <2> QED
    BY <1>1, RecursiveFunctionExists
<1>3. \E c : c = [i \in D |-> IF i = 0 THEN 0 ELSE q[i].cost + c[i - 1]]
  BY <1>2
<1>4. CostOf(q) = [i \in D |-> IF i = 0 THEN 0 ELSE q[i].cost + CostOf(q)[i - 1]]
  BY <1>3 DEF CostOf
<1>5. /\ CostOf(q)[0] = 0
      /\ \A i \in 1..Len(q) : CostOf(q)[i] = q[i].cost + CostOf(q)[i - 1]
  BY <1>0, <1>4
<1>6. \A i \in Nat : i \in {j \in Nat : j <= Len(q) => CostOf(q)[j] \in Nat}
  <2> DEFINE S == {j \in Nat : j <= Len(q) => CostOf(q)[j] \in Nat}
  <2>1. 0 \in S
    BY <1>5
  <2>2. ASSUME NEW n \in Nat, n \in S PROVE n + 1 \in S
    <3>1. n + 1 <= Len(q) => n + 1 \in 1..Len(q) /\ (n + 1) - 1 = n
      BY <1>0
    <3> QED
      BY <1>0, <1>5, <2>2, <3>1
  <2> HIDE DEF S
  <2>3. \A n \in Nat : n \in S
    BY <2>1, <2>2, SetInduction
  <2> QED
    BY <2>3 DEF S
<1>7. CostOf(q) \in [D -> Nat]
  <2>1. \A i \in D : CostOf(q)[i] \in Nat
    BY <1>0, <1>6
  <2> QED
    BY <1>4, <2>1
<1> QED
  BY <1>5, <1>7 DEF IsCostOf

(* Two queues that begin alike begin to cost alike. *)
LEMMA CostAgrees ==
  ASSUME NEW q \in Seq(ScheduledPacket), NEW r \in Seq(ScheduledPacket),
         Len(q) <= Len(r), \A i \in 1..Len(q) : r[i] = q[i]
  PROVE  \A i \in 0..Len(q) : CostOf(r)[i] = CostOf(q)[i]
<1> DEFINE S == {i \in Nat : i <= Len(q) => CostOf(r)[i] = CostOf(q)[i]}
<1>1. IsCostOf(CostOf(q), q) /\ IsCostOf(CostOf(r), r)
  BY CostOfDef
<1>2. 0 \in S
  BY <1>1 DEF IsCostOf
<1>3. ASSUME NEW n \in Nat, n \in S PROVE n + 1 \in S
  <2>1. n + 1 <= Len(q) => n + 1 \in 1..Len(q) /\ n + 1 \in 1..Len(r) /\ (n + 1) - 1 = n
    OBVIOUS
  <2>2. n + 1 <= Len(q) => CostOf(r)[n + 1] = r[n + 1].cost + CostOf(r)[n]
    BY <1>1, <2>1 DEF IsCostOf
  <2>3. n + 1 <= Len(q) => CostOf(q)[n + 1] = q[n + 1].cost + CostOf(q)[n]
    BY <1>1, <2>1 DEF IsCostOf
  <2> QED
    BY <1>3, <2>1, <2>2, <2>3
<1> HIDE DEF S
<1>4. \A n \in Nat : n \in S
  BY <1>2, <1>3, SetInduction
<1> QED
  BY <1>4 DEF S

(* Without its head a queue costs that much less, up to each packet. *)
LEMMA CostOfTail ==
  ASSUME NEW q \in Seq(ScheduledPacket), q # <<>>
  PROVE  \A i \in 1..Len(q) : CostOf(q)[i] = Head(q).cost + CostOf(Tail(q))[i - 1]
<1> DEFINE r == Tail(q)
           S == {i \in Nat : i < Len(q) => CostOf(q)[i + 1] = Head(q).cost + CostOf(r)[i]}
<1>0. /\ r \in Seq(ScheduledPacket) /\ Len(q) \in Nat \ {0} /\ Len(r) = Len(q) - 1
      /\ \A i \in 1..Len(r) : r[i] = q[i + 1]
      /\ Head(q) = q[1] /\ q[1] \in ScheduledPacket
  BY TailElements
<1> HIDE DEF r
<1>1. IsCostOf(CostOf(q), q) /\ IsCostOf(CostOf(r), r) /\ q[1].cost \in Nat
  BY <1>0, CostOfDef, CostIsNumber
<1>2. 0 \in S
  <2>1. 1 \in 1..Len(q)
    BY <1>0
  <2> QED
    BY <1>0, <1>1, <2>1 DEF IsCostOf
<1>3. ASSUME NEW n \in Nat, n \in S PROVE n + 1 \in S
  <2> SUFFICES ASSUME n + 1 < Len(q) PROVE CostOf(q)[(n + 1) + 1] = Head(q).cost + CostOf(r)[n + 1]
    OBVIOUS
  <2>1. CostOf(q)[n + 1] = Head(q).cost + CostOf(r)[n]
    BY <1>0, <1>3
  <2>2. n + 2 \in 1..Len(q) /\ n + 1 \in 1..Len(r) /\ (n + 2) - 1 = n + 1 /\ (n + 1) - 1 = n
    BY <1>0
  <2>3. CostOf(q)[n + 2] = q[n + 2].cost + CostOf(q)[n + 1]
    BY <1>1, <2>2 DEF IsCostOf
  <2>4. CostOf(r)[n + 1] = r[n + 1].cost + CostOf(r)[n]
    BY <1>1, <2>2 DEF IsCostOf
  <2>5. r[n + 1] = q[n + 2] /\ q[n + 2] \in ScheduledPacket /\ n \in 0..Len(r)
    BY <1>0, <2>2
  <2>6. q[n + 2].cost \in Nat /\ CostOf(r)[n] \in Nat
    BY <1>1, <2>5, CostIsNumber DEF IsCostOf
  <2> QED
    BY <1>0, <1>1, <2>1, <2>3, <2>4, <2>5, <2>6
<1> HIDE DEF S
<1>4. \A n \in Nat : n \in S
  BY <1>2, <1>3, SetInduction
<1> QED
  BY <1>0, <1>4 DEF S, r

(* The packets of a queue together cost no less than some of them. *)
LEMMA CostGrows ==
  ASSUME NEW q \in Seq(ScheduledPacket)
  PROVE  \A i \in 0..Len(q) : CostOf(q)[i] <= CostOf(q)[Len(q)]
<1> DEFINE S == {k \in Nat : k <= Len(q) => CostOf(q)[Len(q) - k] <= CostOf(q)[Len(q)]}
<1>0. IsCostOf(CostOf(q), q) /\ Len(q) \in Nat
  BY CostOfDef
<1>1. 0 \in S
  BY <1>0 DEF IsCostOf
<1>2. ASSUME NEW k \in Nat, k \in S PROVE k + 1 \in S
  <2> SUFFICES ASSUME k + 1 <= Len(q)
               PROVE  CostOf(q)[Len(q) - (k + 1)] <= CostOf(q)[Len(q)]
    OBVIOUS
  <2> DEFINE i == Len(q) - k
  <2>1. i \in 1..Len(q) /\ i - 1 = Len(q) - (k + 1) /\ i - 1 \in 0..Len(q)
    BY <1>0
  <2>2. CostOf(q)[i] = q[i].cost + CostOf(q)[i - 1] /\ q[i].cost \in Nat
    BY <1>0, <2>1, CostIsNumber DEF IsCostOf
  <2>3. \A j \in 0..Len(q) : CostOf(q)[j] \in Nat
    BY <1>0 DEF IsCostOf
  <2>4. CostOf(q)[i] <= CostOf(q)[Len(q)]
    BY <1>2, <2>1
  <2>5. Len(q) \in 0..Len(q)
    BY <1>0
  <2> HIDE DEF i
  <2> QED
    BY <2>1, <2>2, <2>3, <2>4, <2>5
<1> HIDE DEF S
<1>3. \A k \in Nat : k \in S
  BY <1>1, <1>2, SetInduction
<1>4. ASSUME NEW i \in 0..Len(q) PROVE CostOf(q)[i] <= CostOf(q)[Len(q)]
  <2>1. Len(q) - i \in Nat /\ Len(q) - i <= Len(q) /\ Len(q) - (Len(q) - i) = i
    BY <1>0
  <2> QED
    BY <1>3, <2>1 DEF S
<1> QED
  BY <1>4

LEMMA QueueCostIs ==
  /\ QueueCost = CostOf(packetQueue)
  /\ QueueCost' = CostOf(packetQueue')
  BY DEF QueueCost, CostOf
-----------------------------------------------------------------------------
(* The virtual clock. *)
Total  == CostOf(packetQueue)[Len(packetQueue)]
InMain == IF main = "throttled" THEN cost ELSE 0

(* The clock runs ahead of the slot of r, or of what may be stamped now,   *)
(* by no more than what came after r; before is the cost of the queue up   *)
(* to r. *)
Within(end, before, next, time, rest) == next + before <= Later(end, time + Latency) + rest
Rest == Total + InMain + wasted
Ahead(r, before) == Within(r.sendTime + r.cost, before, nextAvailableTime, now, Rest)

ClockInv ==
    /\ ~Limited => nextAvailableTime = 0
    /\ main = "stamped" => sendTime <= now + Latency
    /\ Limited /\ main = "throttled" => nextAvailableTime <= sendTime + cost
    /\ Limited => \A i \in 1..Len(packetQueue) : Ahead(packetQueue[i], CostOf(packetQueue)[i])
    /\ Limited /\ scheduler = "holds" => Ahead(p, 0)
    /\ ClockIsBacklog

BacklogNow == Total + (IF scheduler = "holds" THEN p.cost ELSE 0) + InMain

(* The property in terms of CostOf. *)
LEMMA ClockIsBacklogIs ==
  /\ ClockIsBacklog <=>
        nextAvailableTime <= now + Later(Latency, MaxCost) + BacklogNow + wasted
  /\ ClockIsBacklog' <=>
        nextAvailableTime' <= now' + Later(Latency, MaxCost) + BacklogNow' + wasted'
  BY QueueCostIs DEF ClockIsBacklog, Backlog, BacklogNow, Total, InMain

(* What can be added and compared. *)
LEMMA ClockNumbers ==
  ASSUME TypeOK
  PROVE  /\ now \in Nat /\ sendTime \in Nat /\ nextAvailableTime \in Nat /\ wasted \in Nat
         /\ cost \in Nat /\ InMain \in Nat /\ Total \in Nat
         /\ Latency \in Nat /\ MaxCost \in Nat /\ Later(Latency, MaxCost) \in Nat
         /\ Len(packetQueue) \in Nat
         /\ \A i \in 1..Len(packetQueue) :
               /\ packetQueue[i].sendTime \in Nat /\ packetQueue[i].cost \in Nat
               /\ CostOf(packetQueue)[i] \in Nat /\ CostOf(packetQueue)[i] <= Total
         /\ scheduler = "holds" => p.sendTime \in Nat /\ p.cost \in Nat /\ p.cost <= MaxCost
<1>1. packetQueue \in Seq(ScheduledPacket) /\ Len(packetQueue) \in Nat
  BY DEF TypeOK
<1>2. IsCostOf(CostOf(packetQueue), packetQueue)
  BY <1>1, CostOfDef
<1>3. Total \in Nat /\ \A i \in 1..Len(packetQueue) :
         CostOf(packetQueue)[i] \in Nat /\ CostOf(packetQueue)[i] <= Total
  BY <1>1, <1>2, CostGrows DEF Total, IsCostOf
<1>4. \A i \in 1..Len(packetQueue) : packetQueue[i] \in ScheduledPacket
  BY <1>1
<1>5. Latency \in Nat /\ MaxCost \in Nat /\ Later(Latency, MaxCost) \in Nat
  BY TimesAssumption DEF Later
<1>6. cost \in Nat /\ InMain \in Nat
  BY TimesAssumption DEF TypeOK, InMain
<1> QED
  BY <1>1, <1>3, <1>4, <1>5, <1>6, CostIsNumber DEF TypeOK
(* The clock stays within its bound if the time and the sum on the right   *)
(* keep up. *)
LEMMA StaysWithin ==
  ASSUME NEW end \in Nat, NEW b \in Nat, NEW c \in Nat, NEW next \in Nat, NEW time \in Nat,
         NEW later \in Nat, NEW rest \in Nat, NEW more \in Nat,
         Within(end, b, next, time, rest), time <= later, rest + c <= more + b
  PROVE  Within(end, c, next, later, more)
<1>1. Later(end, time + Latency) <= Later(end, later + Latency)
      /\ Later(end, time + Latency) \in Nat /\ Later(end, later + Latency) \in Nat
  BY TimesAssumption DEF Later
<1> QED
  BY <1>1 DEF Within

(* A slot taken by a packet of this cost. *)
LEMMA SlotWithin ==
  ASSUME NEW end \in Nat, NEW b \in Nat, NEW next \in Nat, NEW slot \in Nat, NEW time \in Nat,
         NEW rest \in Nat, NEW c \in Nat,
         Within(end, b, next, time, rest), b <= rest,
         slot <= time + Latency \/ slot = next
  PROVE  Within(end, b, slot + c, time, rest + c)
<1>1. Later(end, time + Latency) \in Nat /\ time + Latency <= Later(end, time + Latency)
  BY TimesAssumption DEF Later
<1>2. next + b <= Later(end, time + Latency) + rest
  BY DEF Within
<1>3. slot + b <= Later(end, time + Latency) + rest
  BY <1>1, <1>2, TimesAssumption
<1> QED
  BY <1>1, <1>3 DEF Within

(* Every step keeps the clock's invariant. *)
LEMMA ClockStep == TypeOK /\ TypeOK' /\ MainKnows /\ ClockInv /\ [Next]_vars => ClockInv'
<1> SUFFICES ASSUME TypeOK, TypeOK', MainKnows, ClockInv, [Next]_vars PROVE ClockInv'
  OBVIOUS
<1> DEFINE q == packetQueue
           QueueAhead == Limited => \A i \in 1..Len(q) : Ahead(q[i], CostOf(q)[i])
           HeldAhead  == Limited /\ scheduler = "holds" => Ahead(p, 0)
<1>n. /\ now \in Nat /\ sendTime \in Nat /\ nextAvailableTime \in Nat /\ wasted \in Nat
      /\ cost \in Nat /\ InMain \in Nat /\ Total \in Nat
      /\ Latency \in Nat /\ MaxCost \in Nat /\ Later(Latency, MaxCost) \in Nat
      /\ Len(q) \in Nat
      /\ \A i \in 1..Len(q) :
            /\ q[i].sendTime \in Nat /\ q[i].cost \in Nat
            /\ CostOf(q)[i] \in Nat /\ CostOf(q)[i] <= Total
      /\ scheduler = "holds" => p.sendTime \in Nat /\ p.cost \in Nat /\ p.cost <= MaxCost
  BY ClockNumbers
<1>c. nextAvailableTime <= now + Later(Latency, MaxCost) + BacklogNow + wasted
  BY ClockIsBacklogIs DEF ClockInv
<1>q. UNCHANGED packetQueue => UNCHANGED Total
  BY DEF Total
<1>1. CASE UNCHANGED <<now, packetQueue, nextAvailableTime, wasted, scheduler, p, InMain>>
           /\ (main' # "stamped" \/ UNCHANGED <<main, sendTime>>)
           /\ (main' # "throttled" \/ UNCHANGED <<main, sendTime, cost>>)
  <2>1. UNCHANGED BacklogNow
    BY <1>1, <1>q DEF BacklogNow
  <2>2. ClockIsBacklog'
    BY <1>1, <1>c, <2>1, ClockIsBacklogIs
  <2> QED
    BY <1>1, <1>q, <2>2 DEF ClockInv, Ahead, Rest
<1>2. CASE Stamp
  <2>1. UNCHANGED <<now, packetQueue, nextAvailableTime, wasted, scheduler, p, InMain, Total>>
    BY <1>2, <1>q DEF Stamp, InMain
  <2>2. UNCHANGED BacklogNow
    BY <2>1 DEF BacklogNow
  <2>3. ClockIsBacklog'
    BY <1>c, <2>1, <2>2, ClockIsBacklogIs
  <2>4. sendTime' <= now' + Latency /\ main' = "stamped"
    BY <1>2, <1>n DEF Stamp
  <2> QED
    BY <2>1, <2>3, <2>4 DEF ClockInv, Ahead, Rest
<1>3. CASE Throttle
  <2>1. UNCHANGED <<now, packetQueue, wasted, scheduler, p, cost, Total>> /\ main = "stamped"
    BY <1>3, <1>q DEF Throttle
  <2>2. InMain = 0 /\ InMain' = cost /\ sendTime <= now + Latency
    BY <1>3 DEF Throttle, InMain, ClockInv
  <2>3. CASE ~Limited
    <3>1. nextAvailableTime' = 0
      BY <1>3, <2>3 DEF Throttle, ClockInv
    <3>2. BacklogNow' = BacklogNow + cost /\ BacklogNow \in Nat
      BY <1>n, <2>1, <2>2 DEF BacklogNow
    <3>3. 0 <= now' + Later(Latency, MaxCost) + BacklogNow' + wasted'
      BY <1>n, <2>1, <3>2
    <3>4. ClockIsBacklog'
      BY <3>1, <3>3, ClockIsBacklogIs
    <3> QED
      BY <1>3, <2>3, <3>1, <3>4 DEF ClockInv, Throttle
  <2>4. CASE Limited
    <3>1. nextAvailableTime' = Slot + cost /\ sendTime' = Slot /\ main' = "throttled"
      BY <1>3, <2>4 DEF Throttle, SlotAfter
    <3>2. /\ Slot \in Nat
          /\ Slot <= now + Latency \/ Slot = nextAvailableTime
      BY <1>n, <2>2 DEF Slot, Later
    <3>3. Rest \in Nat /\ Total <= Rest /\ Rest' = Rest + cost
      BY <1>n, <2>1, <2>2 DEF Rest
    <3>4. QueueAhead'
      <4> SUFFICES ASSUME NEW i \in 1..Len(q)
                   PROVE  Within(q[i].sendTime + q[i].cost, CostOf(q)[i], Slot + cost, now, Rest + cost)
        BY <2>1, <3>1, <3>3 DEF Ahead
      <4>1. Within(q[i].sendTime + q[i].cost, CostOf(q)[i], nextAvailableTime, now, Rest)
        BY <2>4 DEF ClockInv, Ahead
      <4>2. q[i].sendTime + q[i].cost \in Nat /\ CostOf(q)[i] \in Nat /\ CostOf(q)[i] <= Rest
        BY <1>n, <3>3
      <4> QED
        BY <1>n, <3>2, <3>3, <4>1, <4>2, SlotWithin
    <3>5. HeldAhead'
      <4> SUFFICES ASSUME scheduler = "holds"
                   PROVE  Within(p.sendTime + p.cost, 0, Slot + cost, now, Rest + cost)
        BY <2>1, <3>1, <3>3 DEF Ahead
      <4>1. Within(p.sendTime + p.cost, 0, nextAvailableTime, now, Rest)
        BY <2>4 DEF ClockInv, Ahead
      <4>2. p.sendTime + p.cost \in Nat /\ 0 <= Rest
        BY <1>n, <3>3
      <4> QED
        BY <1>n, <3>2, <3>3, <4>1, <4>2, SlotWithin
    <3>6. ClockIsBacklog'
      <4>1. BacklogNow' = BacklogNow + cost /\ BacklogNow \in Nat
        BY <1>n, <2>1, <2>2 DEF BacklogNow
      <4>2. Latency <= Later(Latency, MaxCost)
        BY <1>n DEF Later
      <4>3. nextAvailableTime' <= now + Later(Latency, MaxCost) + BacklogNow + cost + wasted
        BY <1>n, <1>c, <3>1, <3>2, <4>1, <4>2
      <4> QED
        BY <1>n, <2>1, <4>1, <4>3, ClockIsBacklogIs
    <3> QED
      BY <1>n, <2>1, <2>4, <3>1, <3>2, <3>4, <3>5, <3>6 DEF ClockInv
  <2> QED
    BY <2>3, <2>4
<1>4. CASE Enqueue
  <2> DEFINE r == [data |-> buffer, cost |-> cost, sendTime |-> sendTime]
  <2>0. /\ r \in ScheduledPacket /\ q \in Seq(ScheduledPacket)
        /\ UNCHANGED <<now, wasted, scheduler, p, nextAvailableTime>> /\ main = "throttled"
        /\ main' = "recv"
    BY <1>4 DEF TypeOK, MainKnows, Enqueue, HasRoom, ScheduledPacket
  <2>1. /\ q' \in Seq(ScheduledPacket) /\ Len(q') = Len(q) + 1
        /\ \A i \in 1..Len(q) : q'[i] = q[i]
        /\ q'[Len(q) + 1] = r
    BY <1>4, <2>0, AppendElements DEF Enqueue, HasRoom
  <2>2. \A i \in 0..Len(q) : CostOf(q')[i] = CostOf(q)[i]
    <3>1. Len(q) <= Len(q')
      BY <1>n, <2>1
    <3>2. q \in Seq(ScheduledPacket) /\ q' \in Seq(ScheduledPacket) /\ \A i \in 1..Len(q) : q'[i] = q[i]
      BY <2>0, <2>1
    <3> HIDE DEF q, r
    <3> QED
      BY <3>1, <3>2, CostAgrees
  <2>3. CostOf(q')[Len(q) + 1] = cost + CostOf(q)[Len(q)]
    <3>1. IsCostOf(CostOf(q'), q')
      BY <2>1, CostOfDef
    <3>2. Len(q) + 1 \in 1..Len(q') /\ (Len(q) + 1) - 1 = Len(q) /\ Len(q) \in 0..Len(q)
      BY <1>n, <2>1
    <3>3. CostOf(q')[Len(q) + 1] = q'[Len(q) + 1].cost + CostOf(q')[Len(q)]
      BY <3>1, <3>2 DEF IsCostOf
    <3> QED
      BY <2>1, <2>2, <3>2, <3>3
  <2>4. Total' = Total + InMain /\ InMain = cost /\ InMain' = 0
    BY <1>n, <2>0, <2>1, <2>3 DEF Total, InMain
  <2>5. Rest \in Nat /\ Rest' = Rest
    BY <1>n, <2>0, <2>4 DEF Rest
  <2>6. Limited => Within(sendTime + cost, CostOf(q')[Len(q) + 1], nextAvailableTime, now, Rest)
    <3>1. Limited => nextAvailableTime <= sendTime + cost
      BY <2>0 DEF ClockInv
    <3>2. sendTime + cost <= Later(sendTime + cost, now + Latency)
          /\ Later(sendTime + cost, now + Latency) \in Nat
      BY <1>n DEF Later
    <3>3. CostOf(q')[Len(q) + 1] = Total + InMain /\ Rest = Total + InMain + wasted
      BY <1>n, <2>3, <2>4 DEF Total, Rest
    <3> QED
      BY <1>n, <3>1, <3>2, <3>3 DEF Within
  <2>7. QueueAhead'
    <3> SUFFICES ASSUME Limited, NEW i \in 1..Len(q')
                 PROVE  Within(q'[i].sendTime + q'[i].cost, CostOf(q')[i], nextAvailableTime, now, Rest)
      BY <2>0, <2>5 DEF Ahead
    <3>1. CASE i \in 1..Len(q)
      BY <2>1, <2>2, <3>1 DEF ClockInv, Ahead
    <3>2. CASE i = Len(q) + 1
      BY <2>1, <2>6, <3>2
    <3> QED
      BY <1>n, <2>1, <3>1, <3>2
  <2>8. HeldAhead'
    BY <2>0, <2>5 DEF ClockInv, Ahead
  <2>9. BacklogNow' = BacklogNow
    BY <1>n, <2>0, <2>4 DEF BacklogNow
  <2>10. ClockIsBacklog'
    BY <1>c, <2>0, <2>9, ClockIsBacklogIs
  <2> QED
    BY <2>0, <2>7, <2>8, <2>10 DEF ClockInv
<1>5. CASE Overflow
  <2>1. UNCHANGED <<now, packetQueue, scheduler, p, nextAvailableTime, Total>> /\ main' = "recv"
    BY <1>5, <1>q DEF Overflow
  <2>2. wasted' = wasted + InMain /\ InMain' = 0
    BY <1>5 DEF Overflow, InMain
  <2>3. Rest' = Rest /\ InMain' = 0
    BY <1>n, <2>1, <2>2 DEF Rest
  <2>4. BacklogNow \in Nat /\ BacklogNow' = BacklogNow - InMain /\ BacklogNow' \in Nat
    BY <1>n, <2>1, <2>2 DEF BacklogNow
  <2>5. BacklogNow' + wasted' = BacklogNow + wasted
    BY <1>n, <2>2, <2>4
  <2>6. ClockIsBacklog'
    <3>1. now + Later(Latency, MaxCost) + BacklogNow' + wasted'
            = now + Later(Latency, MaxCost) + BacklogNow + wasted
      BY <1>n, <2>2, <2>4, <2>5
    <3> QED
      BY <1>c, <2>1, <3>1, ClockIsBacklogIs
  <2> QED
    BY <2>1, <2>3, <2>6 DEF ClockInv, Ahead
<1>6. CASE Dequeue
  <2>0. /\ q \in Seq(ScheduledPacket) /\ q # <<>>
        /\ UNCHANGED <<now, wasted, main, cost, sendTime, nextAvailableTime, InMain>>
        /\ scheduler = "idle" /\ scheduler' = "holds" /\ p' = Head(q) /\ q' = Tail(q)
    BY <1>6 DEF TypeOK, Dequeue, InMain
  <2>1. /\ q' \in Seq(ScheduledPacket) /\ Len(q) \in Nat \ {0} /\ Len(q') = Len(q) - 1
        /\ \A i \in 1..Len(q') : q'[i] = q[i + 1]
        /\ p' = q[1]
    BY <2>0, TailElements
  <2>2. \A i \in 1..Len(q) : CostOf(q)[i] = p'.cost + CostOf(q')[i - 1]
    BY <2>0, CostOfTail
  <2>3. /\ p'.cost \in Nat /\ p'.sendTime \in Nat
        /\ \A i \in 0..Len(q') : CostOf(q')[i] \in Nat
        /\ CostOf(q')[0] = 0
    <3>1. IsCostOf(CostOf(q'), q')
      BY <2>1, CostOfDef
    <3>2. p'.cost \in Nat /\ p'.sendTime \in Nat
      BY <1>n, <2>1
    <3> QED
      BY <3>1, <3>2 DEF IsCostOf
  <2>4. Total = p'.cost + Total' /\ Total' \in Nat
    <3>1. Len(q) \in 1..Len(q) /\ Len(q) - 1 = Len(q') /\ Len(q') \in 0..Len(q')
      BY <2>1
    <3> QED
      BY <2>2, <2>3, <3>1 DEF Total
  <2>5. Rest = p'.cost + Rest' /\ Rest \in Nat /\ Rest' \in Nat
    <3>1. Rest' = Total' + InMain + wasted /\ Rest = Total + InMain + wasted
      BY <2>0 DEF Rest
    <3>2. InMain \in Nat /\ wasted \in Nat /\ p'.cost \in Nat
      BY <1>n, <2>3
    <3>3. ASSUME NEW a \in Nat, NEW b \in Nat, NEW c \in Nat, NEW d \in Nat
          PROVE  b + c + d \in Nat /\ (a + b) + c + d = a + (b + c + d)
      OBVIOUS
    <3>4. Rest' \in Nat
      BY <2>4, <3>1, <3>2, <3>3
    <3>5. Rest = (p'.cost + Total') + InMain + wasted
      BY <2>4, <3>1
    <3>6. Rest = p'.cost + Rest'
      BY <2>4, <3>1, <3>2, <3>3, <3>5
    <3> QED
      BY <1>n, <3>2, <3>4, <3>6 DEF Rest
  <2>6. QueueAhead'
    <3> SUFFICES ASSUME Limited, NEW i \in 1..Len(q')
                 PROVE  Within(q'[i].sendTime + q'[i].cost, CostOf(q')[i], nextAvailableTime, now, Rest')
      BY <2>0 DEF Ahead
    <3>1. i + 1 \in 1..Len(q) /\ (i + 1) - 1 = i /\ i \in 0..Len(q')
      BY <2>1
    <3>2. Within(q[i + 1].sendTime + q[i + 1].cost, CostOf(q)[i + 1], nextAvailableTime, now, Rest)
      BY <3>1 DEF ClockInv, Ahead
    <3>3. q'[i] = q[i + 1] /\ CostOf(q)[i + 1] = p'.cost + CostOf(q')[i] /\ CostOf(q')[i] \in Nat
      BY <2>1, <2>2, <2>3, <3>1
    <3>4. q[i + 1].sendTime + q[i + 1].cost \in Nat /\ CostOf(q)[i + 1] \in Nat
      BY <1>n, <3>1
    <3>5. Rest + CostOf(q')[i] <= Rest' + CostOf(q)[i + 1]
      BY <2>3, <2>5, <3>3
    <3> DEFINE end == q[i + 1].sendTime + q[i + 1].cost
    <3>6. now \in Nat /\ nextAvailableTime \in Nat /\ now <= now
      BY <1>n
    <3>7. Within(end, CostOf(q)[i + 1], nextAvailableTime, now, Rest) /\ end \in Nat
      BY <3>2, <3>4
    <3> HIDE DEF end
    <3>8. CostOf(q)[i + 1] \in Nat /\ CostOf(q')[i] \in Nat /\ Rest \in Nat /\ Rest' \in Nat
      BY <2>5, <3>3, <3>4
    <3>9. Within(end, CostOf(q')[i], nextAvailableTime, now, Rest')
      BY <3>5, <3>6, <3>7, <3>8, StaysWithin
    <3> QED
      BY <3>3, <3>9 DEF end
  <2>7. HeldAhead'
    <3> SUFFICES ASSUME Limited
                 PROVE  Within(p'.sendTime + p'.cost, 0, nextAvailableTime, now, Rest')
      BY <2>0 DEF Ahead
    <3>1. 1 \in 1..Len(q) /\ 1 - 1 = 0 /\ 0 \in 0..Len(q')
      BY <2>1
    <3>2. Within(q[1].sendTime + q[1].cost, CostOf(q)[1], nextAvailableTime, now, Rest)
      BY <3>1 DEF ClockInv, Ahead
    <3>3. CostOf(q)[1] = p'.cost
      BY <2>2, <2>3, <3>1
    <3>4. p'.sendTime + p'.cost \in Nat /\ Rest + 0 <= Rest' + p'.cost
      BY <2>3, <2>5
    <3> DEFINE end == p'.sendTime + p'.cost
    <3>5. now \in Nat /\ nextAvailableTime \in Nat /\ now <= now /\ 0 \in Nat
      BY <1>n
    <3>6. Within(end, p'.cost, nextAvailableTime, now, Rest) /\ end \in Nat
      BY <2>1, <3>2, <3>3, <3>4
    <3> HIDE DEF end
    <3>7. p'.cost \in Nat /\ Rest \in Nat /\ Rest' \in Nat /\ Rest + 0 <= Rest' + p'.cost
      BY <2>3, <2>5, <3>4
    <3>8. Within(end, 0, nextAvailableTime, now, Rest')
      BY <3>5, <3>6, <3>7, StaysWithin
    <3> QED
      BY <3>8 DEF end
  <2>8. BacklogNow' = BacklogNow
    BY <1>n, <2>0, <2>3, <2>4 DEF BacklogNow
  <2>9. ClockIsBacklog'
    BY <1>c, <2>0, <2>8, ClockIsBacklogIs
  <2> QED
    BY <2>0, <2>6, <2>7, <2>9 DEF ClockInv
<1>7. CASE Send \/ SendFails
  <2>1. /\ UNCHANGED <<now, packetQueue, wasted, main, cost, sendTime, nextAvailableTime>>
        /\ scheduler = "holds" /\ scheduler' # "holds" /\ p.sendTime <= now
    BY <1>7, <1>n DEF Send, SendFails, Due
  <2>2. UNCHANGED <<Total, InMain, Rest>> /\ BacklogNow' = Total + InMain
    BY <1>n, <2>1 DEF Total, InMain, Rest, BacklogNow
  <2>3. ClockIsBacklog'
    <3>1. CASE Limited
      <4>1. Within(p.sendTime + p.cost, 0, nextAvailableTime, now, Rest)
        BY <2>1, <3>1 DEF ClockInv, Ahead
      <4>2. Later(p.sendTime + p.cost, now + Latency) <= now + Later(Latency, MaxCost)
            /\ Later(p.sendTime + p.cost, now + Latency) \in Nat
        BY <1>n, <2>1 DEF Later
      <4>3. nextAvailableTime <= now + Later(Latency, MaxCost) + (Total + InMain) + wasted
        BY <1>n, <4>1, <4>2 DEF Within, Rest
      <4> QED
        BY <2>1, <2>2, <4>3, ClockIsBacklogIs
    <3>2. CASE ~Limited
      <4>1. nextAvailableTime <= now + Later(Latency, MaxCost) + (Total + InMain) + wasted
        BY <1>n, <3>2 DEF ClockInv
      <4> QED
        BY <2>1, <2>2, <4>1, ClockIsBacklogIs
    <3> QED
      BY <3>1, <3>2
  <2> QED
    BY <2>1, <2>2, <2>3 DEF ClockInv, Ahead
<1>8. CASE Tick
  <2>1. UNCHANGED <<packetQueue, wasted, scheduler, p, cost, main, sendTime, nextAvailableTime>>
        /\ now' = now + 1
    BY <1>8 DEF Tick
  <2>2. UNCHANGED <<Total, InMain, BacklogNow, Rest>> /\ BacklogNow \in Nat /\ Rest \in Nat
    BY <1>n, <2>1 DEF Total, InMain, BacklogNow, Rest
  <2>3. ASSUME NEW end \in Nat, NEW b \in Nat, Within(end, b, nextAvailableTime, now, Rest)
        PROVE  Within(end, b, nextAvailableTime, now + 1, Rest)
    <3>1. now \in Nat /\ now + 1 \in Nat /\ now <= now + 1 /\ nextAvailableTime \in Nat
          /\ Rest \in Nat /\ Rest + b <= Rest + b
      BY <1>n, <2>2
    <3> QED
      BY <2>3, <3>1, StaysWithin
  <2>4. QueueAhead' /\ HeldAhead'
    <3>1. \A i \in 1..Len(q) : q[i].sendTime + q[i].cost \in Nat /\ CostOf(q)[i] \in Nat
      BY <1>n
    <3>2. scheduler = "holds" => p.sendTime + p.cost \in Nat
      BY <1>n
    <3> QED
      BY <2>1, <2>2, <2>3, <3>1, <3>2 DEF ClockInv, Ahead
  <2>5. ClockIsBacklog'
    <3>1. nextAvailableTime <= (now + 1) + Later(Latency, MaxCost) + BacklogNow + wasted
      BY <1>n, <1>c, <2>2
    <3> QED
      BY <2>1, <2>2, <3>1, ClockIsBacklogIs
  <2>6. main = "stamped" => sendTime <= (now + 1) + Latency
    BY <1>n DEF ClockInv
  <2> QED
    BY <2>1, <2>4, <2>5, <2>6 DEF ClockInv
<1>9. CASE (\E c \in Costs : Recv(c)) \/ RecvFails \/ Lose
  <2>1. UNCHANGED <<now, packetQueue, nextAvailableTime, wasted, scheduler, p, InMain>>
        /\ (main' # "stamped" \/ UNCHANGED <<main, sendTime>>)
        /\ (main' # "throttled" \/ UNCHANGED <<main, sendTime, cost>>)
    BY <1>9 DEF Recv, RecvFails, Lose, InMain, vars
  <2> QED
    BY <1>1, <2>1
<1>10. CASE Count \/ Close \/ Exit \/ UNCHANGED vars
  <2>1. /\ UNCHANGED <<now, packetQueue, nextAvailableTime, wasted, p, main, sendTime, cost>>
        /\ UNCHANGED scheduler \/ (scheduler # "holds" /\ scheduler' # "holds")
    BY <1>10 DEF Count, Close, Exit, vars
  <2>2. UNCHANGED <<Total, InMain, BacklogNow, Rest>>
    BY <2>1 DEF Total, InMain, BacklogNow, Rest
  <2>3. ClockIsBacklog'
    BY <1>c, <2>1, <2>2, ClockIsBacklogIs
  <2> QED
    BY <2>1, <2>2, <2>3 DEF ClockInv, Ahead
<1> QED
  BY <1>2, <1>3, <1>4, <1>5, <1>6, <1>7, <1>8, <1>9, <1>10 DEF Next, MainStep, SchedulerStep

LEMMA ClockInit == Init => ClockInv
<1> SUFFICES ASSUME Init PROVE ClockInv
  OBVIOUS
<1>1. packetQueue = <<>> /\ Len(packetQueue) = 0 /\ packetQueue \in Seq(ScheduledPacket)
  BY DEF Init
<1>2. Total = 0 /\ InMain = 0
  BY <1>1, CostOfDef DEF Init, Total, InMain, IsCostOf
<1>3. ClockIsBacklog
  BY <1>2, ClockIsBacklogIs, TimesAssumption DEF Init, BacklogNow, Later
<1> QED
  BY <1>1, <1>3 DEF Init, ClockInv

(* No time is lost to the link: the virtual clock runs ahead of the time   *)
(* by no more than what is still to be sent and what a full channel has    *)
(* wasted, for every traffic, rate and capacity (main.go:156-181).         *)
THEOREM ClockKeepsToBacklog == Spec => []ClockIsBacklog
<1>1. IInv => TypeOK /\ MainKnows
  BY DEF IInv
<1>2. ClockInv => ClockIsBacklog
  BY DEF ClockInv
<1>3. IInv /\ IInv' /\ ClockInv /\ [Next]_vars => ClockInv'
  BY <1>1, ClockStep DEF IInv
<1> QED
  BY Inductive, <1>2, <1>3, ClockInit, PTL DEF Spec
=============================================================================
