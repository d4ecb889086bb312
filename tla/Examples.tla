------------------------------ MODULE Examples ------------------------------
(***************************************************************************)
(* The example programs and the helpers they use, side by side: the        *)
(* traffic shaper, the flow monitor, the DNS sinkhole, the packet          *)
(* functions and the bit fields.  A behaviour is one of one of them; the   *)
(* others stand still.                                                     *)
(***************************************************************************)
EXTENDS BandwidthLimiter, FlowMonitor, BitFields, DnsSinkhole

CONSTANT Segments \* the packets that are given to CalcChecksums

ASSUME SegmentsAssumption == Segments \subseteq Seq(0 .. 255)

VARIABLES given, skipped, done

packetVars == <<given, skipped, done>>
allVars    == <<vars, flowVars, sinkVars, packetVars, fieldVars>>

-----------------------------------------------------------------------------
ShaperOff  ==
    /\ now = 0 /\ main = "recv" /\ buffer = 0 /\ cost = 0 /\ sendTime = 0 /\ nextAvailableTime = 0
    /\ packetQueue = <<>> /\ scheduler = "idle" /\ p = NoPacket /\ divert = "exited"
    /\ totalPackets = 0 /\ sentPackets = 0 /\ droppedPackets = 0
    /\ taken = [n \in {} |-> 0] /\ sent = {} /\ onWire = 0 /\ failed = 0 /\ wasted = 0
MonitorOff ==
    /\ live = {} /\ old = {} /\ queue = <<>> /\ happened = MaxEvents /\ lost = {}
    /\ monitor = "recv" /\ event = NoEvent /\ activeFlows = {}
    /\ drawer = "off" /\ toCopy = {} /\ records = {} /\ screen = {} /\ flowsMutex = "free"
SinkholeOff == packet = <<>> /\ outbound = TRUE /\ reply = <<>> /\ pc = "crashed"
PacketOff   == given = <<>> /\ skipped = {} /\ done = TRUE
FieldsOff   == structure = <<>> /\ word = {} /\ meant = <<>>

(* A packet as it is given to CalcChecksums, with some protocols skipped. *)
PacketInit ==
    /\ given \in Segments /\ skipped \in SUBSET {"ip", "tcp", "udp"}
    /\ done = FALSE

ExamplesInit ==
    \/ Init /\ MonitorOff /\ SinkholeOff /\ PacketOff /\ FieldsOff
    \/ ShaperOff /\ MonitorInit /\ SinkholeOff /\ PacketOff /\ FieldsOff
    \/ ShaperOff /\ MonitorOff /\ SinkholeInit /\ PacketOff /\ FieldsOff
    \/ ShaperOff /\ MonitorOff /\ SinkholeOff /\ PacketInit /\ FieldsOff
    \/ ShaperOff /\ MonitorOff /\ SinkholeOff /\ PacketOff /\ FieldsInit

NotShaper  == UNCHANGED <<flowVars, sinkVars, packetVars, fieldVars>>
NotMonitor == UNCHANGED <<vars, sinkVars, packetVars, fieldVars>>

Shape      == Next /\ NotShaper
Watch      == MonitorNext /\ NotMonitor
SetAField  == FieldsNext /\ UNCHANGED <<vars, flowVars, sinkVars, packetVars>>

(* One packet: nothing but the packet decides what becomes of it. *)
Sink ==
    /\ pc = "recv" => packet = <<>>
    /\ SinkholeNext
    /\ UNCHANGED <<vars, flowVars, packetVars, fieldVars>>

Recalculate ==
    /\ ~done /\ ~Panics(given, skipped)
    /\ given' = CalcChecksums(given, skipped) /\ done' = TRUE
    /\ UNCHANGED <<skipped, vars, flowVars, sinkVars, fieldVars>>

ExamplesNext == Shape \/ Watch \/ Sink \/ SetAField \/ Recalculate

ExamplesSpec ==
    /\ ExamplesInit /\ [][ExamplesNext]_allVars
    /\ WF_allVars(SchedulerRuns /\ NotShaper)
    /\ WF_allVars(Tick /\ NotShaper)
    /\ WF_allVars((ReadEvent \/ Update) /\ NotMonitor)
    /\ SF_allVars(Lock /\ NotMonitor)
    /\ WF_allVars(DrawStep /\ NotMonitor)
    /\ SF_allVars(StartCopy /\ NotMonitor)

-----------------------------------------------------------------------------
(* Checksums are recalculated once and for all, as Packets says.           *)
ChecksumStable == ChecksumIsStable(given, skipped)
=============================================================================
