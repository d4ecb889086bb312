------------------------------- MODULE Packets -------------------------------
(***************************************************************************)
(* helper.go: ParsePacket and CalcChecksums.  A packet is the sequence of  *)
(* its bytes.  The headers are Go structures that are laid over the bytes  *)
(* (types/ip_headers.go), so that a field of two bytes is read and written *)
(* in the byte order of the machine, little endian; the sums read words in *)
(* network order.                                                          *)
(***************************************************************************)
EXTENDS Integers, Sequences, FiniteSets, Functions

Word(p, i)     == 256 * p[i] + p[i + 1]
HostWord(p, i) == p[i] + 256 * p[i + 1]

StoreHost(p, i, w) == [p EXCEPT ![i] = w % 256, ![i + 1] = w \div 256]

-----------------------------------------------------------------------------
(* What ParsePacket finds. *)
Version(p)      == p[1] \div 16
HeaderLength(p) == IF Version(p) = 4 THEN 4 * (p[1] % 16) ELSE 40

Readable(p) ==
    /\ Len(p) >= 20
    /\ Version(p) \in {4, 6}
    /\ Len(p) >= HeaderLength(p)

Protocol(p) == IF Version(p) = 4 THEN p[10] ELSE p[7]
Rest(p)     == Len(p) - HeaderLength(p)

Transport(p) ==
    CASE Protocol(p) = 6 /\ Rest(p) >= 20 -> "tcp"
      [] Protocol(p) = 17 /\ Rest(p) >= 8 -> "udp"
      [] Protocol(p) \in {1, 58} /\ Rest(p) >= 8 -> "icmp"
      [] OTHER -> "none"

(* TCPHdr.HdrLength: the upper bits of bytes 13 and 14, as the machine     *)
(* reads them. *)
TcpHdrLength(p) == HostWord(p, HeaderLength(p) + 13) \div 4096

TransportLength(p) == IF Transport(p) = "tcp" THEN 4 * TcpHdrLength(p) ELSE 8

(* The payload, which stays empty when a header says it is longer than     *)
(* what is there. *)
PayloadLength(p) ==
    IF Transport(p) \in {"tcp", "udp"} /\ Rest(p) >= TransportLength(p)
    THEN Rest(p) - TransportLength(p) ELSE 0

Payload(p) == SubSeq(p, Len(p) - PayloadLength(p) + 1, Len(p))

-----------------------------------------------------------------------------
Fold(sum) == IF sum > 65535 THEN (sum % 65536) + (sum \div 65536) ELSE sum

(* The bytes from .. to as they count: pairs are words, a last single byte *)
(* is the upper one. *)
Summands(p, from, to) ==
    [j \in from .. to |-> IF (j - from) % 2 = 0 THEN 256 * p[j] ELSE p[j]]

(* calculateChecksum.  No sum needs to be folded three times. *)
Checksum(p, from, to, initial) ==
    65535 - Fold(Fold(initial + SumFunction(Summands(p, from, to))))

(* pseudoHeaderChecksum and pseudoHeaderIPv6Checksum: the addresses, a     *)
(* half of a 32-bit word each, the protocol and the length. *)
PseudoHeader(p) ==
    LET halves == IF Version(p) = 4 THEN {13, 15, 17, 19} ELSE {7 + 2 * k : k \in 1 .. 16}
    IN  SumFunction([i \in halves |-> HostWord(p, i)]) + Protocol(p) + Rest(p)

(* Where the sum of the segment begins: as many bytes before the end as    *)
(* the header and the payload have.  Before the first byte the slice       *)
(* expression panics. *)
SegmentStart(p) == Len(p) - PayloadLength(p) - TransportLength(p) + 1

Panics(p, skipped) ==
    Readable(p) /\ Transport(p) = "tcp" /\ "tcp" \notin skipped /\ SegmentStart(p) < 1

IpChecksumAt        == 11
TransportChecksumAt(p) == HeaderLength(p) + IF Transport(p) = "tcp" THEN 17 ELSE 7

(* Mutant: the old checksum is part of the new one. *)
KeptChecksum(p, at) == p

ClearedChecksum(p, at) == StoreHost(p, at, 0)

WithIpChecksum(p, skipped) ==
    LET q == ClearedChecksum(p, IpChecksumAt)
    IN  IF Version(p) = 4 /\ "ip" \notin skipped
        THEN StoreHost(q, IpChecksumAt, Checksum(q, 1, HeaderLength(q), 0)) ELSE p

WithTransportChecksum(p, skipped) ==
    LET at == TransportChecksumAt(p)
        q  == ClearedChecksum(p, at)
    IN  IF Transport(p) \in {"tcp", "udp"} \ skipped
        THEN StoreHost(q, at, Checksum(q, SegmentStart(q), Len(q), PseudoHeader(q))) ELSE p

(* The checksums but for those of the protocols in skipped. *)
CalcChecksums(p, skipped) ==
    IF Readable(p) THEN WithTransportChecksum(WithIpChecksum(p, skipped), skipped) ELSE p

-----------------------------------------------------------------------------
(* To calculate the checksums twice changes nothing more, and only the     *)
(* checksums change (helper.go:88-119: each is cleared before its sum).    *)
ChecksumIsStable(p, skipped) ==
    LET q == CalcChecksums(p, skipped)
        ofIp        == {IpChecksumAt, IpChecksumAt + 1}
        ofTransport == {TransportChecksumAt(p), TransportChecksumAt(p) + 1}
    IN  Readable(p) /\ ~Panics(p, skipped) =>
            /\ CalcChecksums(q, skipped) = q
            /\ \A j \in DOMAIN p : q[j] # p[j] =>
                   \/ Version(p) = 4 /\ "ip" \notin skipped /\ j \in ofIp
                   \/ Transport(p) \in {"tcp", "udp"} \ skipped /\ j \in ofTransport

(* A receiver that sums the words of the header of an IPv4 packet, the     *)
(* checksum included, gets -0: it takes the checksum for right             *)
(* (helper.go:88, "CalcChecksums recalculates the checksums for a          *)
(* packet").                                                               *)
ChecksumVerifies(p) ==
    LET q == CalcChecksums(p, {})
    IN  Readable(p) /\ Version(p) = 4 /\ ~Panics(p, {}) => Checksum(q, 1, HeaderLength(q), 0) = 0

(* The payload of a TCP segment begins where the header says, as it is on  *)
(* the wire: the upper half of byte 13 counts the words of the header      *)
(* (helper.go:30, "ParsePacket parses a raw packet into its constituent    *)
(* headers").                                                              *)
PayloadFollowsHeader(p) ==
    LET wireLength == 4 * (p[HeaderLength(p) + 13] \div 16)
    IN  Readable(p) /\ Transport(p) = "tcp" /\ wireLength <= Rest(p) =>
            PayloadLength(p) = Rest(p) - wireLength
=============================================================================
