------------------------------ MODULE MCPackets ------------------------------
(***************************************************************************)
(* What ParsePacket and CalcChecksums make of ordinary packets: an ICMP    *)
(* echo, a UDP datagram, and TCP segments of a connection: SYN, the SYN    *)
(* that offers ECN (with CWR and ECE), SYN with a word of options, data.   *)
(***************************************************************************)
EXTENDS Packets

VARIABLES given,   \* the packet
          handled  \* CalcChecksums was called

IPv4(protocol, segment) ==
    <<69, 0, 0, 20 + Len(segment), 0, 1, 64, 0, 128, protocol, 0, 0,
      192, 168, 1, 2, 10, 0, 0, 1>> \o segment
Tcp(words, flags, data) ==
    <<195, 80, 0, 80, 0, 0, 0, 1, 0, 0, 0, 2, 16 * words, flags, 250, 240, 0, 0, 0, 0>>
    \o (IF words = 6 THEN <<2, 4, 5, 180>> ELSE <<>>) \o data

Syn == 2   EcnSyn == 194   PshAck == 24
Ordinary ==
    {IPv4(1, <<8, 0, 247, 255, 0, 0, 0, 0>>), IPv4(17, <<192, 1, 0, 53, 0, 9, 0, 0, 65>>)}
    \cup {IPv4(6, Tcp(n, f, <<>>)) : n \in {5, 6}, f \in {Syn, EcnSyn}}
    \cup {IPv4(6, Tcp(5, PshAck, <<71, 69, 84>>))}

Init == given \in Ordinary /\ handled = FALSE

Calc ==
    /\ ~handled /\ handled' = TRUE
    /\ ~Panics(given, {})
    /\ given' = CalcChecksums(given, {})

Spec == Init /\ [][Calc]_<<given, handled>>

(* The checksum of the IPv4 header is right once CalcChecksums has         *)
(* recalculated the checksums (helper.go:88).                              *)
ChecksumsVerify == handled => ChecksumVerifies(given)

(* The payload of a TCP segment begins where its header ends (helper.go:30,*)
(* "ParsePacket parses a raw packet into its constituent headers").        *)
PayloadAfterHeader == PayloadFollowsHeader(given)
=============================================================================
