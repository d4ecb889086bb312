---------------------------- MODULE Examples_proofs ----------------------------
(***************************************************************************)
(* The flow monitor's snapshot, the bit fields, the checksums and the      *)
(* replies of the DNS sinkhole, for any endpoints, values and packets.     *)
(***************************************************************************)
EXTENDS Examples, Recursion, SequenceTheorems, TLAPS

-----------------------------------------------------------------------------
(* The flow monitor.  Who is between Lock and Unlock holds the lock. *)
HolderIsInside ==
    /\ monitor = "update" <=> flowsMutex = "main"
    /\ drawer = "copy" <=> flowsMutex = "drawer"

(* What has been copied and what is left to copy make up the map. *)
CopyIsComplete == drawer = "copy" => records \cup toCopy = activeFlows

FlowInv == HolderIsInside /\ CopyIsComplete

-----------------------------------------------------------------------------
(* Every step of either goroutine, and of the driver, keeps the invariant. *)
LEMMA FlowInvNext == FlowInv /\ [MonitorNext]_flowVars => FlowInv'
<1> SUFFICES ASSUME FlowInv, [MonitorNext]_flowVars PROVE FlowInv'
  OBVIOUS
<1> USE DEF FlowInv, HolderIsInside, CopyIsComplete, driverVars, monitorVars, drawVars
<1>1. ASSUME NEW e \in Endpoints, Happen(e) PROVE FlowInv'
  BY <1>1 DEF Happen
<1>2. CASE ReadEvent
  BY <1>2 DEF ReadEvent
<1>3. CASE Lock
  BY <1>3 DEF Lock
<1>4. CASE Update
  BY <1>4 DEF Update
<1>5. CASE StartCopy
  BY <1>5 DEF StartCopy, DrawerLocks
<1>6. ASSUME NEW e \in Endpoints, CopyRecord(e) PROVE FlowInv'
  <2>1. records' \cup toCopy' = records \cup toCopy
    BY <1>6 DEF CopyRecord
  <2> QED
    BY <1>6, <2>1 DEF CopyRecord
<1>7. CASE EndCopy
  BY <1>7 DEF EndCopy
<1>8. CASE Draw
  BY <1>8 DEF Draw
<1>9. CASE UNCHANGED flowVars
  BY <1>9 DEF flowVars
<1> QED
  BY <1>1, <1>2, <1>3, <1>4, <1>5, <1>6, <1>7, <1>8, <1>9 DEF MonitorNext, EventStep, DrawStep

(* However many connections come and go, the drawing goroutine copies the  *)
(* map as it is at one moment.                                             *)
THEOREM CopiesSnapshot == MonitorSpec => []CopyIsSnapshot
<1>1. MonitorInit => FlowInv
  BY DEF MonitorInit, FlowInv, HolderIsInside, CopyIsComplete
<1>2. FlowInv => CopyIsSnapshot
  BY DEF FlowInv, HolderIsInside, CopyIsComplete, CopyIsSnapshot
<1> QED
  BY <1>1, <1>2, FlowInvNext, PTL DEF MonitorSpec

-----------------------------------------------------------------------------
(* The bit fields. *)
(* No two bits of a value are stored in one bit of the word, and the       *)
(* setter clears them all. *)
Single(f) ==
    /\ \A j, k \in ValueBits(f) : f.bits[j] = f.bits[k] => j = k
    /\ \A k \in ValueBits(f) : f.bits[k] \notin f.kept

(* The setter of f keeps g, which has no bit of f. *)
Keeps(f, g) ==
    \A k \in ValueBits(g) :
        /\ g.bits[k] \in f.kept
        /\ \A j \in ValueBits(f) : g.bits[k] # f.bits[j]

MasksRight(s) ==
    \A n \in DOMAIN s : Single(s[n]) /\ \A m \in DOMAIN s \ {n} : Keeps(s[n], s[m])

-----------------------------------------------------------------------------
LEMMA FlagBits ==
  ASSUME NEW b \in 0 .. 31
  PROVE  /\ ValueBits(Flag(b)) = {1} /\ Flag(b).bits[1] = b
         /\ Flag(b).kept = (0 .. 31) \ {b}
  BY DEF ValueBits, Flag, Field

LEMMA FlagSingle == ASSUME NEW b \in 0 .. 31 PROVE Single(Flag(b))
  BY FlagBits DEF Single

LEMMA FlagKeepsFlag ==
  ASSUME NEW b \in 0 .. 31, NEW c \in 0 .. 31, b # c
  PROVE  Keeps(Flag(b), Flag(c))
<1>1. ValueBits(Flag(b)) = {1} /\ Flag(b).bits[1] = b /\ Flag(b).kept = (0 .. 31) \ {b}
  BY FlagBits
<1>2. ValueBits(Flag(c)) = {1} /\ Flag(c).bits[1] = c
  BY FlagBits
<1>3. c \in Flag(b).kept
  BY <1>1
<1> QED
  BY <1>1, <1>2, <1>3 DEF Keeps

(* A field that begins above the flag or ends below it. *)
LEMMA FieldAndFlag ==
  ASSUME NEW f, NEW b \in 0 .. 31,
         \A k \in ValueBits(f) : f.bits[k] \in (0 .. 31) \ {b},
         b \in f.kept
  PROVE  Keeps(f, Flag(b)) /\ Keeps(Flag(b), f)
<1>1. ValueBits(Flag(b)) = {1} /\ Flag(b).bits[1] = b /\ Flag(b).kept = (0 .. 31) \ {b}
  BY FlagBits
<1> QED
  BY <1>1 DEF Keeps

-----------------------------------------------------------------------------
LEMMA FragOffBits ==
  /\ ValueBits(FragOffWord.FragOff) = 1 .. 13
  /\ \A k \in 1 .. 13 : FragOffWord.FragOff.bits[k] = IF k <= 8 THEN k + 7 ELSE k - 9
  /\ FragOffWord.FragOff.kept = 5 .. 7
<1>1. FragOffWord.FragOff = Field(<<8, 9, 10, 11, 12, 13, 14, 15, 0, 1, 2, 3, 4>>, 5 .. 7)
  BY DEF FragOffWord
<1>2. /\ FragOffWord.FragOff.bits = <<8, 9, 10, 11, 12, 13, 14, 15, 0, 1, 2, 3, 4>>
      /\ FragOffWord.FragOff.kept = 5 .. 7
  BY <1>1 DEF Field
<1> QED
  BY <1>2 DEF ValueBits

LEMMA FragOffRight == MasksRight(FragOffWord)
<1> DEFINE f == FragOffWord.FragOff
           Place == [MF |-> 5, DF |-> 6, Reserved |-> 7]
<1>1. DOMAIN FragOffWord = {"FragOff"} \cup DOMAIN Place
  BY DEF FragOffWord
<1>2. \A n \in DOMAIN Place : Place[n] \in 5 .. 7 /\ FragOffWord[n] = Flag(Place[n])
  BY DEF FragOffWord
<1>3. \A m, n \in DOMAIN Place : m # n => Place[m] # Place[n]
  OBVIOUS
<1>4. FragOffWord["FragOff"] = f /\ "FragOff" \notin DOMAIN Place
  OBVIOUS
<1>5. Single(f)
  BY FragOffBits DEF Single
<1>6. \A k \in ValueBits(f) : f.bits[k] \in (0 .. 31) \ (5 .. 7)
  BY FragOffBits
<1>7. ASSUME NEW n \in DOMAIN Place
      PROVE  Keeps(f, FragOffWord[n]) /\ Keeps(FragOffWord[n], f)
  <2>1. Place[n] \in 0 .. 31 /\ Place[n] \in f.kept
    BY <1>2, FragOffBits
  <2>2. \A k \in ValueBits(f) : f.bits[k] \in (0 .. 31) \ {Place[n]}
    BY <1>2, <1>6
  <2> QED
    BY <1>2, <2>1, <2>2, FieldAndFlag
<1>8. \A n \in DOMAIN Place : Place[n] \in 0 .. 31
  BY <1>2
<1> HIDE DEF f, Place
<1> QED
  BY <1>1, <1>2, <1>3, <1>4, <1>5, <1>7, <1>8, FlagSingle, FlagKeepsFlag DEF MasksRight

LEMMA TcpRight == MasksRight(TcpWord)
<1> DEFINE f == TcpWord.HdrLength
           Place == [Fin |-> 0, Syn |-> 1, Rst |-> 2, Psh |-> 3, Ack |-> 4, Urg |-> 5]
<1>1. DOMAIN TcpWord = {"HdrLength"} \cup DOMAIN Place
  BY DEF TcpWord
<1>2. \A n \in DOMAIN Place : Place[n] \in 0 .. 5 /\ TcpWord[n] = Flag(Place[n])
  BY DEF TcpWord
<1>3. \A m, n \in DOMAIN Place : m # n => Place[m] # Place[n]
  OBVIOUS
<1>4. TcpWord["HdrLength"] = f /\ "HdrLength" \notin DOMAIN Place
  OBVIOUS
<1>5. f.bits = <<12, 13, 14, 15>> /\ f.kept = (0 .. 11) \cup (16 .. 31)
  BY DEF TcpWord, Field
<1>6. ValueBits(f) = 1 .. 4 /\ \A k \in 1 .. 4 : f.bits[k] = k + 11
  BY <1>5 DEF ValueBits
<1>7. Single(f)
  BY <1>5, <1>6 DEF Single
<1>8. ASSUME NEW n \in DOMAIN Place
      PROVE  Keeps(f, TcpWord[n]) /\ Keeps(TcpWord[n], f)
  <2>1. Place[n] \in 0 .. 31 /\ Place[n] \in f.kept
    BY <1>2, <1>5
  <2>2. \A k \in ValueBits(f) : f.bits[k] \in (0 .. 31) \ {Place[n]}
    BY <1>2, <1>6
  <2> QED
    BY <1>2, <2>1, <2>2, FieldAndFlag
<1>9. \A n \in DOMAIN Place : Place[n] \in 0 .. 31
  BY <1>2
<1> HIDE DEF f, Place
<1> QED
  BY <1>1, <1>2, <1>3, <1>4, <1>7, <1>8, <1>9, FlagSingle, FlagKeepsFlag DEF MasksRight

LEMMA TrafficRight == MasksRight(TrafficWord)
<1> DEFINE c == TrafficWord.TrafficClass
           l == TrafficWord.FlowLabel
           v == TrafficWord.Version
<1>1. /\ c.bits = <<12, 13, 14, 15, 0, 1, 2, 3>> /\ c.kept = (4 .. 11) \cup (16 .. 31)
      /\ v.bits = <<4, 5, 6, 7>> /\ v.kept = (0 .. 3) \cup (8 .. 31)
  BY DEF TrafficWord, Field
<1>2. /\ l.bits = [k \in 1 .. 20 |-> IF k <= 16 THEN 15 + k ELSE k - 9]
      /\ l.kept = (0 .. 7) \cup (12 .. 15)
  BY DEF TrafficWord, Field
<1>3. ValueBits(c) = 1 .. 8 /\ \A k \in 1 .. 8 : c.bits[k] = IF k <= 4 THEN k + 11 ELSE k - 5
  BY <1>1 DEF ValueBits
<1>4. ValueBits(v) = 1 .. 4 /\ \A k \in 1 .. 4 : v.bits[k] = k + 3
  BY <1>1 DEF ValueBits
<1>5. ValueBits(l) = 1 .. 20
  BY <1>2 DEF ValueBits
<1>6. \A k \in 1 .. 20 : l.bits[k] = IF k <= 16 THEN 15 + k ELSE k - 9
  BY <1>2
<1> HIDE DEF c, l, v
<1>7. Single(c) /\ Single(v)
  BY <1>1, <1>3, <1>4 DEF Single
<1>8. Single(l)
  BY <1>2, <1>5, <1>6 DEF Single
<1>9. Keeps(c, v) /\ Keeps(v, c)
  BY <1>1, <1>3, <1>4 DEF Keeps
<1>10. Keeps(c, l) /\ Keeps(v, l)
  BY <1>1, <1>3, <1>4, <1>5, <1>6 DEF Keeps
<1>11. Keeps(l, c) /\ Keeps(l, v)
  BY <1>2, <1>3, <1>4, <1>5, <1>6 DEF Keeps
<1>12. /\ DOMAIN TrafficWord = {"TrafficClass", "FlowLabel", "Version"}
       /\ TrafficWord["TrafficClass"] = c /\ TrafficWord["FlowLabel"] = l
       /\ TrafficWord["Version"] = v
  BY DEF TrafficWord, c, l, v
<1> QED
  BY <1>7, <1>8, <1>9, <1>10, <1>11, <1>12 DEF MasksRight

LEMMA AddressRight == MasksRight(AddressFlags)
<1> DEFINE Place == [Sniffed |-> 0, Outbound |-> 1, Loopback |-> 2, Impostor |-> 3,
                     IPv6 |-> 4, IPChecksum |-> 5, TCPChecksum |-> 6, UDPChecksum |-> 7]
<1>1. DOMAIN AddressFlags = DOMAIN Place
  BY DEF AddressFlags
<1>2. \A n \in DOMAIN Place : Place[n] \in 0 .. 31 /\ AddressFlags[n] = Flag(Place[n])
  BY DEF AddressFlags
<1>3. \A m, n \in DOMAIN Place : m # n => Place[m] # Place[n]
  OBVIOUS
<1> HIDE DEF Place
<1> QED
  BY <1>1, <1>2, <1>3, FlagSingle, FlagKeepsFlag DEF MasksRight

-----------------------------------------------------------------------------
(* What a setter stores is what its getter returns. *)
LEMMA GetOwn ==
  ASSUME NEW s, MasksRight(s), NEW n \in DOMAIN s, NEW w, NEW v \in SUBSET ValueBits(s[n])
  PROVE  Get(Set(w, s[n], v), s[n]) = v
  BY DEF MasksRight, Single, Get, Set

(* ... and what another getter returns is as before. *)
LEMMA GetOther ==
  ASSUME NEW s, MasksRight(s), NEW n \in DOMAIN s, NEW m \in DOMAIN s \ {n},
         NEW w, NEW v \in SUBSET ValueBits(s[n])
  PROVE  Get(Set(w, s[n], v), s[m]) = Get(w, s[m])
  BY DEF MasksRight, Keeps, Get, Set

(* The getters agree with what was meant, of one of the structures. *)
FieldInv ==
    /\ structure \in Structures
    /\ DOMAIN meant = DOMAIN structure
    /\ FieldsApart

LEMMA ValuesAreBits == ASSUME NEW f, NEW v \in Values(f) PROVE v \in SUBSET ValueBits(f)
  BY DEF Values

LEMMA FieldInvNext == FieldInv /\ [FieldsNext]_fieldVars => FieldInv'
<1> SUFFICES ASSUME FieldInv, [FieldsNext]_fieldVars PROVE FieldInv'
  OBVIOUS
<1>1. MasksRight(structure)
  BY FragOffRight, TrafficRight, TcpRight, AddressRight DEF FieldInv, Structures
<1>2. ASSUME NEW n \in DOMAIN structure, NEW v \in Values(structure[n]), SetField(n, v)
      PROVE  FieldInv'
  <2>1. /\ structure' = structure /\ meant' = [meant EXCEPT ![n] = v]
        /\ word' = Set(word, structure[n], v)
    BY <1>2 DEF SetField
  <2>2. v \in SUBSET ValueBits(structure[n])
    BY ValuesAreBits
  <2>3. Get(word', structure[n]) = v
    BY <1>1, <2>1, <2>2, GetOwn
  <2>4. \A m \in DOMAIN structure \ {n} : Get(word', structure[m]) = Get(word, structure[m])
    BY <1>1, <2>1, <2>2, GetOther
  <2> QED
    BY <2>1, <2>3, <2>4 DEF FieldInv, FieldsApart
<1>3. CASE UNCHANGED fieldVars
  BY <1>3 DEF fieldVars, FieldInv, FieldsApart
<1> QED
  BY <1>2, <1>3 DEF FieldsNext

(* Of every structure, after any calls of its setters in any order, each   *)
(* getter returns what its own setter was given last.                      *)
THEOREM FieldsStayApart == FieldsSpec => []FieldsApart
<1>1. FieldsInit => FieldInv
  BY DEF FieldsInit, FieldInv, FieldsApart, Get
<1>2. FieldInv => FieldsApart
  BY DEF FieldInv
<1> QED
  BY <1>1, <1>2, FieldInvNext, PTL DEF FieldsSpec

-----------------------------------------------------------------------------
(* The checksums. *)
(* As it is in memory: its bytes are numbered from 1.  Only the first of   *)
(* them, which holds the version and the header's length, need be a byte.  *)
IsPacket(b) ==
    /\ \E n \in Nat : DOMAIN b = 1 .. n /\ b = [k \in 1 .. n |-> b[k]] /\ Len(b) = n
    /\ b # <<>> => b[1] \in 0 .. 255

(* c is b but for the word at at. *)
Except(b, c, at) ==
    /\ DOMAIN c = DOMAIN b
    /\ Len(c) = Len(b)
    /\ c = [k \in DOMAIN b |-> c[k]]
    /\ \A k \in DOMAIN b \ {at, at + 1} : c[k] = b[k]

LEMMA HeaderNumbers ==
  ASSUME NEW b, IsPacket(b), Readable(b)
  PROVE  /\ Len(b) \in Nat /\ Len(b) >= 20 /\ DOMAIN b = 1 .. Len(b) /\ b[1] \in 0 .. 255
         /\ b = [k \in DOMAIN b |-> b[k]]
         /\ Version(b) \in {4, 6}
         /\ HeaderLength(b) \in 0 .. Len(b)
         /\ \E w \in Nat : HeaderLength(b) = 4 * w
         /\ Version(b) = 6 => HeaderLength(b) = 40
<1>1. Len(b) \in Nat /\ DOMAIN b = 1 .. Len(b) /\ b = [k \in DOMAIN b |-> b[k]]
  BY DEF IsPacket
<1>2. Len(b) >= 20 /\ Version(b) \in {4, 6} /\ Len(b) >= HeaderLength(b)
  BY DEF Readable
<1>3. b # <<>>
  BY <1>1, <1>2
<1>4. b[1] \in 0 .. 255
  BY <1>3 DEF IsPacket
<1>5. HeaderLength(b) = IF Version(b) = 4 THEN 4 * (b[1] % 16) ELSE 4 * 10
  BY DEF HeaderLength
<1>6. b[1] % 16 \in Nat
  BY <1>4
<1>7. \E w \in Nat : HeaderLength(b) = 4 * w
  BY <1>5, <1>6
<1> QED
  BY <1>1, <1>2, <1>4, <1>5, <1>7

(* What a field holds does not matter to the rest of the packet.           *)
LEMMA StoreChanges ==
  ASSUME NEW b, IsPacket(b), NEW at, NEW w
  PROVE  Except(b, StoreHost(b, at, w), at)
<1> DEFINE c == StoreHost(b, at, w)
<1>1. c = [b EXCEPT ![at] = w % 256, ![at + 1] = w \div 256]
  BY DEF StoreHost
<1>2. DOMAIN c = DOMAIN b /\ \A k \in DOMAIN b \ {at, at + 1} : c[k] = b[k]
  BY <1>1 DEF IsPacket
<1>3. c = [k \in DOMAIN b |-> c[k]]
  BY <1>1
<1>4. Len(c) = Len(b)
  BY <1>2, <1>3 DEF IsPacket
<1> QED
  BY <1>2, <1>3, <1>4 DEF Except

(* A field that CalcChecksums writes, where the packet has it. *)
ChecksumAt(b, at) ==
    \/ Version(b) = 4 /\ at = IpChecksumAt
    \/ Transport(b) \in {"tcp", "udp"} /\ at = TransportChecksumAt(b)

(* ParsePacket finds the same in c as in b. *)
SameHeaders(b, c) ==
    /\ IsPacket(c) /\ Readable(c) /\ Len(c) = Len(b) /\ DOMAIN c = DOMAIN b
    /\ Version(c) = Version(b) /\ HeaderLength(c) = HeaderLength(b)
    /\ Transport(c) = Transport(b) /\ TransportChecksumAt(c) = TransportChecksumAt(b)
    /\ SegmentStart(c) = SegmentStart(b)

(* No checksum lies where ParsePacket looks: not on the version, on the    *)
(* protocol or on the length of a TCP header.                              *)
LEMMA HeadersKept ==
  ASSUME NEW b, IsPacket(b), Readable(b), NEW at, ChecksumAt(b, at),
         NEW c, Except(b, c, at)
  PROVE  SameHeaders(b, c)
<1> DEFINE n == HeaderLength(b)
<1>1. /\ Len(b) \in Nat /\ Len(b) >= 20 /\ DOMAIN b = 1 .. Len(b) /\ b[1] \in 0 .. 255
      /\ n \in 0 .. Len(b) /\ (\E w \in Nat : n = 4 * w) /\ Version(b) \in {4, 6}
      /\ Version(b) = 6 => n = 40
  BY HeaderNumbers
<1>2. DOMAIN c = DOMAIN b /\ Len(c) = Len(b) /\ c = [k \in DOMAIN b |-> c[k]]
      /\ \A k \in DOMAIN b \ {at, at + 1} : c[k] = b[k]
  BY DEF Except
<1>3. \/ Version(b) = 4 /\ at = 11
      \/ Transport(b) = "tcp" /\ at = n + 17
      \/ Transport(b) = "udp" /\ at = n + 7
  BY DEF ChecksumAt, TransportChecksumAt, IpChecksumAt
<1> HIDE DEF n
<1>4. at \in Nat /\ at >= 7 /\ at \notin {9, 10} /\ (Version(b) = 6 => at > 40)
      /\ at \notin {n + 12, n + 13, n + 14}
  BY <1>1, <1>3
<1>5. c[1] = b[1] /\ c[10] = b[10]
  <2>1. 1 \in DOMAIN b /\ 10 \in DOMAIN b
    BY <1>1
  <2>2. 1 \notin {at, at + 1} /\ 10 \notin {at, at + 1}
    BY <1>4
  <2> QED
    BY <1>2, <2>1, <2>2
<1>6. Version(b) = 6 => c[7] = b[7]
  BY <1>1, <1>2, <1>4
<1>7. Version(c) = Version(b) /\ HeaderLength(c) = n
  BY <1>5 DEF Version, HeaderLength, n
<1>8. Protocol(c) = Protocol(b)
  BY <1>1, <1>5, <1>6, <1>7 DEF Protocol
<1>9. Rest(c) = Rest(b)
  BY <1>2, <1>7 DEF Rest, n
<1>10. Transport(c) = Transport(b)
  BY <1>8, <1>9 DEF Transport
<1>11. TransportLength(c) = TransportLength(b)
  <2>1. CASE Transport(b) = "tcp"
    <3>1. Rest(b) >= 20 /\ Rest(b) = Len(b) - n
      BY <2>1 DEF Transport, Rest, n
    <3>2. n + 13 \in DOMAIN b \ {at, at + 1} /\ n + 14 \in DOMAIN b \ {at, at + 1}
      BY <3>1, <1>1, <1>4
    <3>3. c[n + 13] = b[n + 13] /\ c[n + 14] = b[n + 14] /\ (n + 13) + 1 = n + 14
      BY <3>2, <1>2, <1>1
    <3>4. TcpHdrLength(c) = TcpHdrLength(b)
      BY <3>3, <1>7 DEF TcpHdrLength, HostWord, n
    <3> QED
      BY <3>4, <1>10 DEF TransportLength
  <2>2. CASE Transport(b) # "tcp"
    BY <2>2, <1>10 DEF TransportLength
  <2> QED
    BY <2>1, <2>2
<1>12. PayloadLength(c) = PayloadLength(b)
  BY <1>9, <1>10, <1>11 DEF PayloadLength
<1>13. SegmentStart(c) = SegmentStart(b)
  BY <1>2, <1>11, <1>12 DEF SegmentStart
<1>14. TransportChecksumAt(c) = TransportChecksumAt(b)
  BY <1>7, <1>10 DEF TransportChecksumAt, n
<1>15. Readable(c)
  BY <1>1, <1>2, <1>7 DEF Readable, n
<1>16. IsPacket(c)
  BY <1>1, <1>2, <1>5 DEF IsPacket
<1> QED
  BY <1>2, <1>7, <1>10, <1>13, <1>14, <1>15, <1>16 DEF SameHeaders, n

LEMMA SumsAgree ==
  ASSUME NEW b, NEW c, NEW from, NEW to, NEW initial,
         \A j \in from .. to : c[j] = b[j]
  PROVE  Checksum(c, from, to, initial) = Checksum(b, from, to, initial)
<1>1. Summands(c, from, to) = Summands(b, from, to)
  BY DEF Summands
<1> QED
  BY <1>1 DEF Checksum

LEMMA Stored ==
  ASSUME NEW b, IsPacket(b), NEW at \in 1 .. Len(b) - 1, NEW w
  PROVE  /\ StoreHost(b, at, w)[at] = w % 256
         /\ StoreHost(b, at, w)[at + 1] = w \div 256
<1>1. at \in DOMAIN b /\ at + 1 \in DOMAIN b /\ at # at + 1
  BY DEF IsPacket
<1> QED
  BY <1>1 DEF StoreHost

LEMMA IpWritten ==
  ASSUME NEW b, IsPacket(b), Readable(b), NEW skips
  PROVE  /\ SameHeaders(b, WithIpChecksum(b, skips))
         /\ \/ WithIpChecksum(b, skips) = b
            \/ /\ Version(b) = 4 /\ "ip" \notin skips
               /\ Except(b, WithIpChecksum(b, skips), IpChecksumAt)
<1>1. CASE Version(b) = 4 /\ "ip" \notin skips
  <2> DEFINE d == ClearedChecksum(b, IpChecksumAt)
             w == Checksum(d, 1, HeaderLength(d), 0)
  <2>1. WithIpChecksum(b, skips) = StoreHost(d, IpChecksumAt, w)
    BY <1>1 DEF WithIpChecksum
  <2>2. Except(b, d, IpChecksumAt)
    BY StoreChanges DEF ClearedChecksum
  <2>3. ChecksumAt(b, IpChecksumAt)
    BY <1>1 DEF ChecksumAt
  <2>4. IsPacket(d)
    BY <2>2, <2>3, HeadersKept DEF SameHeaders
  <2> HIDE DEF d, w
  <2>5. Except(d, StoreHost(d, IpChecksumAt, w), IpChecksumAt)
    BY <2>4, StoreChanges
  <2>6. Except(b, StoreHost(d, IpChecksumAt, w), IpChecksumAt)
    BY <2>2, <2>5 DEF Except
  <2> QED
    BY <1>1, <2>1, <2>3, <2>6, HeadersKept
<1>2. CASE ~(Version(b) = 4 /\ "ip" \notin skips)
  BY <1>2 DEF WithIpChecksum, SameHeaders
<1> QED
  BY <1>1, <1>2

LEMMA TransportWritten ==
  ASSUME NEW b, IsPacket(b), Readable(b), NEW skips
  PROVE  /\ SameHeaders(b, WithTransportChecksum(b, skips))
         /\ \/ WithTransportChecksum(b, skips) = b
            \/ /\ Transport(b) \in {"tcp", "udp"} \ skips
               /\ Except(b, WithTransportChecksum(b, skips), TransportChecksumAt(b))
<1> DEFINE at == TransportChecksumAt(b)
<1>1. CASE Transport(b) \in {"tcp", "udp"} \ skips
  <2> DEFINE d == ClearedChecksum(b, at)
             w == Checksum(d, SegmentStart(d), Len(d), PseudoHeader(d))
  <2>1. WithTransportChecksum(b, skips) = StoreHost(d, at, w)
    BY <1>1 DEF WithTransportChecksum
  <2>2. Except(b, d, at)
    BY StoreChanges DEF ClearedChecksum
  <2>3. ChecksumAt(b, at)
    BY <1>1 DEF ChecksumAt
  <2>4. IsPacket(d)
    BY <2>2, <2>3, HeadersKept DEF SameHeaders
  <2> HIDE DEF d, w, at
  <2>5. Except(d, StoreHost(d, at, w), at)
    BY <2>4, StoreChanges
  <2>6. Except(b, StoreHost(d, at, w), at)
    BY <2>2, <2>5 DEF Except
  <2> QED
    BY <1>1, <2>1, <2>3, <2>6, HeadersKept DEF at
<1>2. CASE ~(Transport(b) \in {"tcp", "udp"} \ skips)
  BY <1>2 DEF WithTransportChecksum, SameHeaders
<1> QED
  BY <1>1, <1>2
(* The sum over the header is the same if only what is not in the header, *)
(* and the checksum itself, have changed. *)
LEMMA IpAgain ==
  ASSUME NEW b, IsPacket(b), Readable(b), NEW skips,
         NEW c, SameHeaders(b, c),
         \A j \in 1 .. HeaderLength(b) :
             c[j] = b[j] \/ j \in {IpChecksumAt, IpChecksumAt + 1}
  PROVE  \A j \in DOMAIN b : c[j] = WithIpChecksum(b, skips)[j]
            => WithIpChecksum(c, skips)[j] = c[j]
<1> DEFINE at == IpChecksumAt
           n  == HeaderLength(b)
<1>1. CASE Version(b) = 4 /\ "ip" \notin skips
  <2> DEFINE B == ClearedChecksum(b, at)
             C == ClearedChecksum(c, at)
             v == Checksum(B, 1, n, 0)
             w == Checksum(C, 1, n, 0)
  <2>1. IsPacket(c) /\ Readable(c) /\ Version(c) = 4 /\ HeaderLength(c) = n /\ DOMAIN c = DOMAIN b
        /\ Len(c) = Len(b)
    BY <1>1 DEF SameHeaders
  <2>2. Except(b, B, at) /\ Except(c, C, at)
    BY <2>1, StoreChanges DEF ClearedChecksum
  <2>3. ChecksumAt(b, at) /\ ChecksumAt(c, at)
    BY <1>1, <2>1 DEF ChecksumAt
  <2>4. SameHeaders(b, B) /\ SameHeaders(c, C)
    BY <2>1, <2>2, <2>3, HeadersKept
  <2>5. HeaderLength(B) = n /\ HeaderLength(C) = n
    BY <2>1, <2>4 DEF SameHeaders
  <2>6. /\ WithIpChecksum(b, skips) = StoreHost(B, at, v)
        /\ WithIpChecksum(c, skips) = StoreHost(C, at, w)
    BY <1>1, <2>1, <2>5 DEF WithIpChecksum
  <2>7. Len(b) \in Nat /\ Len(b) >= 20 /\ DOMAIN b = 1 .. Len(b) /\ n \in 0 .. Len(b) /\ at = 11
    BY HeaderNumbers DEF IpChecksumAt
  <2>8. B[11] = 0 % 256 /\ C[11] = 0 % 256 /\ B[12] = 0 \div 256 /\ C[12] = 0 \div 256
    BY <2>1, <2>7, Stored DEF ClearedChecksum
  <2>9. \A j \in 1 .. n : C[j] = B[j]
    <3>1. ASSUME NEW j \in 1 .. n, j \notin {11, 12} PROVE C[j] = B[j]
      <4>1. j \in DOMAIN b \ {at, at + 1}
        BY <3>1, <2>7
      <4> QED
        BY <3>1, <4>1, <2>1, <2>2, <2>7 DEF Except
    <3> QED
      BY <3>1, <2>8
  <2>10. w = v
    BY <2>9, SumsAgree
  <2>11. /\ Len(B) = Len(b) /\ Len(C) = Len(b) /\ IsPacket(B) /\ IsPacket(C)
    BY <2>1, <2>4 DEF SameHeaders
  <2> HIDE DEF B, C, v, w, n
  <2>12. /\ StoreHost(B, 11, v)[11] = StoreHost(C, 11, w)[11]
         /\ StoreHost(B, 11, v)[12] = StoreHost(C, 11, w)[12]
    BY <2>7, <2>10, <2>11, Stored
  <2>13. Except(C, StoreHost(C, 11, w), 11)
    BY <2>11, StoreChanges
  <2>14. \A j \in DOMAIN b \ {11, 12} : StoreHost(C, 11, w)[j] = c[j]
    BY <2>1, <2>2, <2>7, <2>13 DEF Except
  <2> QED
    BY <2>6, <2>7, <2>12, <2>14
<1>2. CASE ~(Version(b) = 4 /\ "ip" \notin skips)
  BY <1>2 DEF WithIpChecksum, SameHeaders
<1> QED
  BY <1>1, <1>2

(* Only checksums change. *)
LEMMA CalcWritten ==
  ASSUME NEW b, IsPacket(b), Readable(b), NEW skips
  PROVE  /\ SameHeaders(b, CalcChecksums(b, skips))
         /\ \A j \in DOMAIN b : CalcChecksums(b, skips)[j] # b[j] =>
               \/ /\ Version(b) = 4 /\ "ip" \notin skips
                  /\ j \in {IpChecksumAt, IpChecksumAt + 1}
               \/ /\ Transport(b) \in {"tcp", "udp"} \ skips
                  /\ j \in {TransportChecksumAt(b), TransportChecksumAt(b) + 1}
<1> DEFINE q == WithIpChecksum(b, skips)
           r == WithTransportChecksum(q, skips)
<1>1. CalcChecksums(b, skips) = r
  BY DEF CalcChecksums
<1>2. SameHeaders(b, q)
  BY IpWritten
<1>3. IsPacket(q) /\ Readable(q)
  BY <1>2 DEF SameHeaders
<1>4. \/ q = b
      \/ Version(b) = 4 /\ "ip" \notin skips /\ Except(b, q, IpChecksumAt)
  BY IpWritten
<1>5. /\ SameHeaders(q, r)
      /\ \/ r = q
         \/ Transport(q) \in {"tcp", "udp"} \ skips /\ Except(q, r, TransportChecksumAt(q))
  BY <1>3, TransportWritten
<1> HIDE DEF q, r
<1>6. SameHeaders(b, r)
  BY <1>2, <1>5 DEF SameHeaders
<1>7. DOMAIN q = DOMAIN b /\ Transport(q) = Transport(b)
      /\ TransportChecksumAt(q) = TransportChecksumAt(b)
  BY <1>2 DEF SameHeaders
<1> QED
  BY <1>1, <1>4, <1>5, <1>6, <1>7 DEF Except

(* The sum over the header does not see the transport checksum, and the    *)
(* sum over the segment begins with the same packet both times.            *)
LEMMA CalcAgain ==
  ASSUME NEW b, IsPacket(b), Readable(b), NEW skips
  PROVE  CalcChecksums(CalcChecksums(b, skips), skips) = CalcChecksums(b, skips)
<1> DEFINE q  == WithIpChecksum(b, skips)
           r  == WithTransportChecksum(q, skips)
           s  == WithIpChecksum(r, skips)
           n  == HeaderLength(b)
           at == TransportChecksumAt(b)
<1>1. CalcChecksums(b, skips) = r
  BY DEF CalcChecksums
<1>2. SameHeaders(b, q)
  BY IpWritten
<1>3. IsPacket(q) /\ Readable(q) /\ DOMAIN q = DOMAIN b /\ Transport(q) = Transport(b)
      /\ TransportChecksumAt(q) = at /\ HeaderLength(q) = n
  BY <1>2 DEF SameHeaders
<1>4. /\ SameHeaders(q, r)
      /\ \/ r = q
         \/ Transport(b) \in {"tcp", "udp"} \ skips /\ Except(q, r, at)
  BY <1>3, TransportWritten
<1>5. SameHeaders(b, r) /\ IsPacket(r) /\ Readable(r)
  BY <1>2, <1>4 DEF SameHeaders
<1>6. CalcChecksums(r, skips) = WithTransportChecksum(s, skips)
  BY <1>5 DEF CalcChecksums
<1>7. SameHeaders(r, s)
  BY <1>5, IpWritten
<1>8. SameHeaders(q, s)
  BY <1>4, <1>7 DEF SameHeaders
<1>9. Len(b) \in Nat /\ DOMAIN b = 1 .. Len(b) /\ n \in 0 .. Len(b)
  BY HeaderNumbers
<1>10. at > n /\ at \in Nat
  BY <1>9 DEF TransportChecksumAt
<1>11. \/ q = b
       \/ Version(b) = 4 /\ "ip" \notin skips /\ Except(b, q, IpChecksumAt)
  BY IpWritten
<1> HIDE DEF n, at
<1>12. \A j \in 1 .. n : r[j] = b[j] \/ j \in {IpChecksumAt, IpChecksumAt + 1}
  <2> SUFFICES ASSUME NEW j \in 1 .. n, j \notin {IpChecksumAt, IpChecksumAt + 1}
               PROVE  r[j] = b[j]
    OBVIOUS
  <2>1. j \in DOMAIN b /\ j \notin {at, at + 1}
    BY <1>9, <1>10
  <2>2. q[j] = b[j]
    BY <1>11, <2>1 DEF Except
  <2>3. r[j] = q[j]
    BY <1>3, <1>4, <2>1 DEF Except
  <2> QED
    BY <2>2, <2>3
<1>13. \A j \in DOMAIN b : r[j] = q[j] => s[j] = r[j]
  BY <1>5, <1>12, IpAgain DEF n
<1> HIDE DEF q, r, s
<1>14. s = [j \in DOMAIN b |-> s[j]] /\ DOMAIN s = DOMAIN b /\ IsPacket(s)
  BY <1>3, <1>8 DEF SameHeaders, IsPacket
<1>15. q = [j \in DOMAIN b |-> q[j]]
  BY <1>3 DEF IsPacket
<1>16. CASE Transport(b) \in {"tcp", "udp"} \ skips
  <2>1. \A j \in DOMAIN b \ {at, at + 1} : s[j] = q[j]
    <3>1. \A j \in DOMAIN b \ {at, at + 1} : r[j] = q[j]
      BY <1>3, <1>4 DEF Except
    <3> QED
      BY <1>13, <3>1
  <2>2. ClearedChecksum(s, at) = ClearedChecksum(q, at)
    BY <1>3, <1>14, <1>15, <2>1 DEF ClearedChecksum, StoreHost
  <2>3. Transport(s) = Transport(b) /\ TransportChecksumAt(s) = at
    BY <1>3, <1>8 DEF SameHeaders
  <2>4. WithTransportChecksum(s, skips) = WithTransportChecksum(q, skips)
    BY <1>3, <1>16, <2>2, <2>3 DEF WithTransportChecksum
  <2> QED
    BY <1>1, <1>6, <2>4 DEF r
<1>17. CASE ~(Transport(b) \in {"tcp", "udp"} \ skips)
  <2>1. r = q
    BY <1>4, <1>17
  <2>2. s = q
    BY <1>13, <1>14, <1>15, <2>1
  <2> QED
    BY <1>1, <1>6, <2>1, <2>2 DEF r
<1> QED
  BY <1>16, <1>17

(* Of a packet that is not readable nothing is claimed, and nothing of it  *)
(* changes.                                                                *)
LEMMA CalcStable ==
  ASSUME NEW b, IsPacket(b), NEW skips
  PROVE  ChecksumIsStable(b, skips)
BY CalcWritten, CalcAgain DEF ChecksumIsStable

(* What is given, before and after. *)
GivenInv == IsPacket(given)

LEMMA BytesArePacket == ASSUME NEW b \in Seq(0 .. 255) PROVE IsPacket(b)
<1>1. Len(b) \in Nat /\ DOMAIN b = 1 .. Len(b) /\ b = [k \in 1 .. Len(b) |-> b[k]]
  OBVIOUS
<1>2. ASSUME b # <<>> PROVE b[1] \in 0 .. 255
  <2>1. Len(b) # 0
    BY <1>2
  <2>2. 1 \in 1 .. Len(b)
    BY <1>1, <2>1
  <2>3. b \in [1 .. Len(b) -> 0 .. 255]
    BY LenProperties
  <2> QED
    BY <2>2, <2>3
<1> QED
  BY <1>1, <1>2 DEF IsPacket

LEMMA GivenInvNext == GivenInv /\ [ExamplesNext]_allVars => GivenInv'
<1> SUFFICES ASSUME GivenInv, [ExamplesNext]_allVars PROVE GivenInv'
  OBVIOUS
<1>1. CASE Recalculate
  <2>1. given' = CalcChecksums(given, skipped)
    BY <1>1 DEF Recalculate
  <2>2. IsPacket(CalcChecksums(given, skipped))
    <3>1. CASE Readable(given)
      BY <3>1, CalcWritten DEF GivenInv, SameHeaders
    <3>2. CASE ~Readable(given)
      BY <3>2 DEF CalcChecksums, GivenInv
    <3> QED
      BY <3>1, <3>2
  <2> QED
    BY <2>1, <2>2 DEF GivenInv
<1>2. CASE UNCHANGED given
  BY <1>2 DEF GivenInv
<1> QED
  BY <1>1, <1>2 DEF ExamplesNext, Shape, Watch, Sink, SetAField, NotShaper, NotMonitor,
     packetVars, allVars

(* Of any packets, with any protocols skipped, the checksums are           *)
(* recalculated once and for all, and nothing else is changed.             *)
THEOREM ChecksumsStayPut == ExamplesSpec => []ChecksumStable
<1>1. ExamplesInit => GivenInv
  <2>1. IsPacket(<<>>)
    BY DEF IsPacket
  <2>2. \A b \in Segments : IsPacket(b)
    BY SegmentsAssumption, BytesArePacket
  <2> QED
    BY <2>1, <2>2 DEF ExamplesInit, PacketInit, PacketOff, GivenInv
<1>2. GivenInv => ChecksumStable
  BY CalcStable DEF GivenInv, ChecksumStable
<1> QED
  BY <1>1, <1>2, GivenInvNext, PTL DEF ExamplesSpec
-----------------------------------------------------------------------------
(* The names of the DNS sinkhole.  Its parser is a recursive function on   *)
(* the visits left and the offset; that there is one comes from Recursion. *)
ByteStrings == Seq(0 .. 255)

(* What the parser of names can answer. *)
Results == {NoName, Endless} \cup {Name(l, e) : l \in Seq(ByteStrings), e \in Nat}

LEMMA MessageBytes ==
  ASSUME NEW d \in ByteStrings
  PROVE  /\ Len(d) \in Nat /\ DOMAIN d = 1 .. Len(d)
         /\ \A i \in 1 .. Len(d) : d[i] \in 0 .. 255
  BY LenProperties, ElementOfSeq DEF ByteStrings

(* Sums of bytes are numbers. *)
LEMMA ByteSums ==
  /\ \A x, y \in 0 .. 255 : 256 * x + y \in Nat
  /\ \A x \in 0 .. 255 : \A c \in Nat : c + 1 + x \in Nat /\ c + 1 + x > c /\ c + 1 + x \in Int
  OBVIOUS

(* A word from its bytes. *)
Joined(x, y) == 256 * x + y
Words == 0 .. 65535

LEMMA JoinedIs ==
  ASSUME NEW x \in 0 .. 255, NEW y \in 0 .. 255
  PROVE  Joined(x, y) \in Words
  BY DEF Joined, Words

LEMMA WordIs ==
  ASSUME NEW d \in ByteStrings, NEW i \in Nat, i + 2 <= Len(d)
  PROVE  /\ WordAt(d, i) = Joined(d[i + 1], d[i + 2])
         /\ WordAt(d, i) \in Words
<1>1. Len(d) \in Nat /\ \A k \in 1 .. Len(d) : d[k] \in 0 .. 255
  BY MessageBytes
<1>2. i + 1 \in 1 .. Len(d) /\ i + 2 \in 1 .. Len(d) /\ (i + 1) + 1 = i + 2
  BY <1>1
<1>3. WordAt(d, i) = Joined(d[i + 1], d[i + 2])
  BY <1>2 DEF WordAt, Word, Joined
<1>4. d[i + 1] \in 0 .. 255 /\ d[i + 2] \in 0 .. 255
  BY <1>1, <1>2
<1>5. Joined(d[i + 1], d[i + 2]) \in Words
  BY <1>4, JoinedIs
<1> QED
  BY <1>3, <1>5

LEMMA ResultFields ==
  ASSUME NEW r \in Results
  PROVE  /\ r.is \in {"name", "error", "endless"}
         /\ r.is = "name" => r.labels \in Seq(ByteStrings) /\ r.end \in Nat
<1>1. CASE r = NoName \/ r = Endless
  BY <1>1 DEF NoName, Endless
<1>2. ASSUME NEW l \in Seq(ByteStrings), NEW e \in Nat, r = Name(l, e)
      PROVE  r.is = "name" /\ r.labels = l /\ r.end = e
  BY <1>2 DEF Name
<1> QED
  BY <1>1, <1>2 DEF Results

LEMMA NameFields ==
  \A l, e : Name(l, e).is = "name" /\ Name(l, e).labels = l /\ Name(l, e).end = e
  BY DEF Name

(* The turn's arms. *)
LEMMA NameArms ==
  ASSUME NEW d \in ByteStrings, NEW curr \in Nat, NEW pointed, NEW next
  PROVE  LET length == d[curr + 1]
             r == NameAt(d, curr, pointed, next)
         IN  \/ r = NoName
             \/ curr < Len(d) /\ r = Name(<<>>, curr + 1)
             \/ curr + 1 < Len(d) /\ pointed.is # "name" /\ r = pointed
             \/ curr + 1 < Len(d) /\ pointed.is = "name" /\ r = Name(pointed.labels, curr + 2)
             \/ /\ curr + 1 + length <= Len(d) /\ curr < Len(d) /\ next.is # "name" /\ r = next
             \/ /\ curr + 1 + length <= Len(d) /\ curr < Len(d) /\ next.is = "name"
                /\ r = Name(<<SubSeq(d, curr + 2, curr + 1 + length)>> \o next.labels, next.end)
<1> DEFINE length == d[curr + 1]
           l == SubSeq(d, curr + 2, curr + 1 + length)
           r == NameAt(d, curr, pointed, next)
<1>1. Len(d) \in Nat /\ (curr < Len(d) => length \in 0 .. 255)
  BY MessageBytes
<1>2. r = IF curr >= Len(d) THEN NoName
          ELSE IF length = 0 THEN Name(<<>>, curr + 1)
          ELSE IF length >= 192
          THEN IF curr + 1 >= Len(d) THEN NoName
               ELSE IF pointed.is # "name" THEN pointed
               ELSE Name(pointed.labels, curr + 2)
          ELSE IF curr + 1 + length > Len(d) THEN NoName
          ELSE IF next.is # "name" THEN next
          ELSE Name(<<l>> \o next.labels, next.end)
  BY DEF NameAt, At
<1> DEFINE Arms(x) ==
             \/ r = NoName
             \/ curr < Len(d) /\ r = Name(<<>>, curr + 1)
             \/ curr + 1 < Len(d) /\ pointed.is # "name" /\ r = pointed
             \/ curr + 1 < Len(d) /\ pointed.is = "name" /\ r = Name(pointed.labels, curr + 2)
             \/ curr + 1 + x <= Len(d) /\ curr < Len(d) /\ next.is # "name" /\ r = next
             \/ /\ curr + 1 + x <= Len(d) /\ curr < Len(d) /\ next.is = "name"
                /\ r = Name(<<l>> \o next.labels, next.end)
<1>3. ASSUME curr >= Len(d) PROVE Arms(length)
  <2> HIDE DEF length, l, r
  <2> QED
    BY <1>2, <1>3
<1>4. ASSUME curr < Len(d) PROVE Arms(length)
  <2> HIDE DEF length, l, r
  <2>1. PICK x \in 0 .. 255 : x = length
    BY <1>1, <1>4
  <2>2. r = IF x = 0 THEN Name(<<>>, curr + 1)
            ELSE IF x >= 192
            THEN IF curr + 1 >= Len(d) THEN NoName
                 ELSE IF pointed.is # "name" THEN pointed
                 ELSE Name(pointed.labels, curr + 2)
            ELSE IF curr + 1 + x > Len(d) THEN NoName
            ELSE IF next.is # "name" THEN next
            ELSE Name(<<l>> \o next.labels, next.end)
    BY <1>1, <1>2, <1>4, <2>1
  <2>3. Arms(x)
    BY <1>1, <1>4, <2>2
  <2> QED
    BY <2>1, <2>3
<1>5. Arms(length)
  BY <1>1, <1>3, <1>4
<1> QED
  BY <1>5

LEMMA NamePlaces ==
  ASSUME NEW d \in ByteStrings, NEW curr \in Nat, curr < Len(d)
  PROVE  /\ AfterLabel(d, curr) \in Nat /\ AfterLabel(d, curr) > curr
         /\ AfterLabel(d, curr) = curr + 1 + d[curr + 1]
         /\ curr + 1 < Len(d) => Pointer(d, curr) \in Nat
<1>1. Len(d) \in Nat /\ d[curr + 1] \in 0 .. 255
  BY MessageBytes
<1>2. ASSUME curr + 1 < Len(d) PROVE Pointer(d, curr) \in Nat
  <2>1. d[curr + 2] \in 0 .. 255 /\ (curr + 1) + 1 = curr + 2
    BY <1>1, <1>2, MessageBytes
  <2>2. WordAt(d, curr) = 256 * d[curr + 1] + d[curr + 2]
    BY <2>1 DEF WordAt, Word
  <2>3. WordAt(d, curr) \in Nat
    BY <1>1, <2>1, <2>2, ByteSums
  <2> QED
    BY <2>3 DEF Pointer
<1>3. AfterLabel(d, curr) = curr + 1 + d[curr + 1]
  BY DEF AfterLabel, At
<1>4. AfterLabel(d, curr) \in Nat /\ AfterLabel(d, curr) > curr
  BY <1>1, <1>3, ByteSums
<1> QED
  BY <1>2, <1>3, <1>4

(* A turn of the parser answers a result. *)
LEMMA NameTyped ==
  ASSUME NEW d \in ByteStrings, NEW curr \in Nat, NEW pointed, NEW next,
         curr + 1 < Len(d) => pointed \in Results,
         curr < Len(d) => next \in Results
  PROVE  NameAt(d, curr, pointed, next) \in Results
<1> DEFINE length == d[curr + 1]
           l == SubSeq(d, curr + 2, curr + 1 + length)
           r == NameAt(d, curr, pointed, next)
<1>1. NoName \in Results /\ \A k \in Seq(ByteStrings), e \in Nat : Name(k, e) \in Results
  BY DEF Results
<1>2. ASSUME curr < Len(d), curr + 1 + length <= Len(d) PROVE l \in ByteStrings
  <2>1. Len(d) \in Nat /\ length \in 0 .. 255
    BY <1>2, MessageBytes
  <2>2. \A i \in curr + 2 .. curr + 1 + length : d[i] \in 0 .. 255
    <3>1. PICK x \in 0 .. 255 : x = length
      BY <2>1
    <3>2. \A i \in curr + 2 .. curr + 1 + x : i \in 1 .. Len(d)
      BY <1>2, <2>1, <3>1
    <3> HIDE DEF length
    <3> QED
      BY <3>1, <3>2, MessageBytes
  <2>3. curr + 2 \in Int
    OBVIOUS
  <2>4. curr + 1 + length \in Int
    BY <2>1, ByteSums
  <2> HIDE DEF length
  <2> QED
    BY <2>2, <2>3, <2>4, SubSeqProperties DEF ByteStrings
<1>3. ASSUME NEW s \in ByteStrings, NEW k \in Seq(ByteStrings) PROVE <<s>> \o k \in Seq(ByteStrings)
  OBVIOUS
<1>4. <<>> \in Seq(ByteStrings)
  OBVIOUS
<1>5. \/ r = NoName
      \/ curr < Len(d) /\ r = Name(<<>>, curr + 1)
      \/ curr + 1 < Len(d) /\ pointed.is # "name" /\ r = pointed
      \/ curr + 1 < Len(d) /\ pointed.is = "name" /\ r = Name(pointed.labels, curr + 2)
      \/ curr + 1 + length <= Len(d) /\ curr < Len(d) /\ next.is # "name" /\ r = next
      \/ /\ curr + 1 + length <= Len(d) /\ curr < Len(d) /\ next.is = "name"
         /\ r = Name(<<l>> \o next.labels, next.end)
  BY NameArms
<1>6. curr + 1 \in Nat /\ curr + 2 \in Nat
  OBVIOUS
<1>7. pointed \in Results /\ pointed.is = "name" => pointed.labels \in Seq(ByteStrings)
  BY ResultFields
<1>8. next \in Results /\ next.is = "name" => next.labels \in Seq(ByteStrings) /\ next.end \in Nat
  BY ResultFields
<1> HIDE DEF length, l, r
<1>9. next \in Results /\ next.is = "name" /\ l \in ByteStrings => <<l>> \o next.labels \in Seq(ByteStrings)
  BY <1>3, <1>8
<1>10. r \in Results
  BY <1>1, <1>2, <1>4, <1>5, <1>6, <1>7, <1>8, <1>9
<1> QED
  BY <1>10 DEF r

-----------------------------------------------------------------------------
(* The function that ParseDNSName looks the answer up in. *)
NameTurn(d, From, at) ==
    IF at[1] = 0 THEN Endless
    ELSE NameAt(d, at[2], From[<<at[1] - 1, Pointer(d, at[2])>>],
                          From[<<at[1] - 1, AfterLabel(d, at[2])>>])

Names(d) == CHOOSE From : From = [at \in Nat \X Nat |-> NameTurn(d, From, at)]

LEMMA ParseIs == \A d, offset : ParseDNSName(d, offset) = Names(d)[<<Len(d) + 1, offset>>]
  BY DEF ParseDNSName, Names, NameTurn

LEMMA NamesAre ==
  ASSUME NEW d \in ByteStrings
  PROVE  Names(d) = [at \in Nat \X Nat |-> NameTurn(d, Names(d), at)]
<1> DEFINE D    == Nat \X Nat
           F    == [g \in [D -> Results] |-> [at \in D |-> NameTurn(d, g, at)]]
           rank == [at \in D |-> at[1]]
<1>1. Results # {} /\ rank \in [D -> Nat]
  BY DEF Results
<1>2. ASSUME NEW at \in D, at[1] # 0, at[2] < Len(d)
      PROVE  /\ <<at[1] - 1, AfterLabel(d, at[2])>> \in D
             /\ at[2] + 1 < Len(d) => <<at[1] - 1, Pointer(d, at[2])>> \in D
             /\ at[1] - 1 < at[1]
  BY <1>2, NamePlaces
<1>3. ASSUME NEW g \in [D -> Results], NEW at \in D PROVE NameTurn(d, g, at) \in Results
  <2> DEFINE u == g[<<at[1] - 1, Pointer(d, at[2])>>]
             v == g[<<at[1] - 1, AfterLabel(d, at[2])>>]
  <2>1. CASE at[1] = 0
    BY <2>1 DEF NameTurn, Results
  <2>2. CASE at[1] # 0
    <3>1. at[2] \in Nat
      OBVIOUS
    <3>2. at[2] < Len(d) => v \in Results
      BY <1>2, <2>2
    <3>3. Len(d) \in Nat
      BY MessageBytes
    <3>4. at[2] + 1 < Len(d) => u \in Results
      <4>1. at[2] + 1 < Len(d) => at[2] < Len(d)
        BY <3>1, <3>3
      <4> QED
        BY <1>2, <2>2, <4>1
    <3>5. NameTurn(d, g, at) = NameAt(d, at[2], u, v)
      BY <2>2 DEF NameTurn
    <3> HIDE DEF u, v
    <3> QED
      BY <3>1, <3>2, <3>4, <3>5, NameTyped
  <2> QED
    BY <2>1, <2>2
<1>4. F \in [[D -> Results] -> [D -> Results]]
  BY <1>3
<1>5. ASSUME NEW g \in [D -> Results], NEW h \in [D -> Results], NEW at \in D,
             \A y \in D : rank[y] < rank[at] => g[y] = h[y]
      PROVE  NameTurn(d, g, at) = NameTurn(d, h, at)
  <2>1. CASE at[1] = 0
    BY <2>1 DEF NameTurn
  <2>2. CASE at[1] # 0
    <3> DEFINE a == <<at[1] - 1, Pointer(d, at[2])>>
               b == <<at[1] - 1, AfterLabel(d, at[2])>>
    <3>1. at[1] \in Nat /\ at[2] \in Nat /\ Len(d) \in Nat
      BY MessageBytes
    <3>2. at[2] < Len(d) => g[b] = h[b]
      BY <1>2, <1>5, <2>2
    <3>3. at[2] + 1 < Len(d) => g[a] = h[a]
      <4>1. at[2] + 1 < Len(d) => at[2] < Len(d)
        BY <3>1
      <4> QED
        BY <1>2, <1>5, <2>2, <4>1
    <3>4. /\ NameTurn(d, g, at) = NameAt(d, at[2], g[a], g[b])
          /\ NameTurn(d, h, at) = NameAt(d, at[2], h[a], h[b])
      BY <2>2 DEF NameTurn
    <3> HIDE DEF a, b
    <3>5. NameAt(d, at[2], g[a], g[b]) = NameAt(d, at[2], h[a], h[b])
      <4>1. CASE at[2] >= Len(d)
        BY <4>1 DEF NameAt
      <4>2. CASE at[2] < Len(d) /\ at[2] + 1 >= Len(d)
        BY <4>2, <3>1, <3>2 DEF NameAt
      <4>3. CASE at[2] + 1 < Len(d)
        BY <4>3, <3>1, <3>2, <3>3
      <4> QED
        BY <3>1, <4>1, <4>2, <4>3
    <3> QED
      BY <3>4, <3>5
  <2> QED
    BY <2>1, <2>2
<1>6. ASSUME NEW g \in [D -> Results], NEW h \in [D -> Results], NEW at \in D,
             \A y \in D : rank[y] < rank[at] => g[y] = h[y]
      PROVE  F[g][at] = F[h][at]
  BY <1>5, <1>6
<1>7. Descends(F, D, Results, rank)
  <2> HIDE DEF F, D, rank
  <2> QED
    BY <1>1, <1>4, <1>6 DEF Descends
<1>8. \E f \in [D -> Results] : f = F[f]
  <2> HIDE DEF F, D, rank
  <2> QED
    BY <1>7, RecursiveFunctionExists
<1>9. \E f : f = [at \in D |-> NameTurn(d, f, at)]
  BY <1>8
<1> QED
  BY <1>9 DEF Names

(* A name that the parser finds lies in the message, after where it began. *)
LEMMA NameWithin ==
  ASSUME NEW d \in ByteStrings
  PROVE  \A n, curr \in Nat :
            /\ Names(d)[<<n, curr>>].is # "query"
            /\ Names(d)[<<n, curr>>].is = "name" =>
                  /\ Names(d)[<<n, curr>>].end \in Nat
                  /\ curr < Names(d)[<<n, curr>>].end /\ Names(d)[<<n, curr>>].end <= Len(d)
<1> DEFINE f == Names(d)
           Lies(n, curr) ==
             /\ f[<<n, curr>>].is # "query"
             /\ f[<<n, curr>>].is = "name" =>
                   /\ f[<<n, curr>>].end \in Nat
                   /\ curr < f[<<n, curr>>].end /\ f[<<n, curr>>].end <= Len(d)
           S == {n \in Nat : \A curr \in Nat : Lies(n, curr)}
<1>0. Len(d) \in Nat
  BY MessageBytes
<1>1. \A n, curr \in Nat : f[<<n, curr>>] = NameTurn(d, f, <<n, curr>>)
  BY NamesAre
<1> HIDE DEF f
<1>2. 0 \in S
  <2> SUFFICES ASSUME NEW curr \in Nat PROVE f[<<0, curr>>].is \notin {"name", "query"}
    OBVIOUS
  <2>1. f[<<0, curr>>] = NameTurn(d, f, <<0, curr>>)
    BY <1>1
  <2>2. NameTurn(d, f, <<0, curr>>) = Endless
    BY DEF NameTurn
  <2> QED
    BY <2>1, <2>2 DEF Endless
<1>3. ASSUME NEW n \in Nat, n \in S PROVE n + 1 \in S
  <2> SUFFICES ASSUME NEW curr \in Nat PROVE Lies(n + 1, curr)
    OBVIOUS
  <2> DEFINE u == f[<<n, Pointer(d, curr)>>]
             v == f[<<n, AfterLabel(d, curr)>>]
             r == NameAt(d, curr, u, v)
             length == d[curr + 1]
             l == SubSeq(d, curr + 2, curr + 1 + length)
  <2>1. f[<<n + 1, curr>>] = r
    <3>1. f[<<n + 1, curr>>] = NameTurn(d, f, <<n + 1, curr>>)
      BY <1>1
    <3>2. (n + 1) - 1 = n /\ n + 1 # 0
      OBVIOUS
    <3> QED
      BY <3>1, <3>2 DEF NameTurn
  <2>2. \/ r = NoName
        \/ curr < Len(d) /\ r = Name(<<>>, curr + 1)
        \/ curr + 1 < Len(d) /\ u.is # "name" /\ r = u
        \/ curr + 1 < Len(d) /\ u.is = "name" /\ r = Name(u.labels, curr + 2)
        \/ curr + 1 + length <= Len(d) /\ curr < Len(d) /\ v.is # "name" /\ r = v
        \/ /\ curr + 1 + length <= Len(d) /\ curr < Len(d) /\ v.is = "name"
           /\ r = Name(<<l>> \o v.labels, v.end)
    <3> HIDE DEF u, v
    <3> QED
      BY NameArms
  <2>3. ASSUME curr < Len(d), v.is = "name"
        PROVE  v.end \in Nat /\ curr < v.end /\ v.end <= Len(d)
    <3>1. AfterLabel(d, curr) \in Nat /\ curr < AfterLabel(d, curr)
      BY <2>3, NamePlaces
    <3>2. v.end \in Nat /\ AfterLabel(d, curr) < v.end /\ v.end <= Len(d)
      BY <1>3, <2>3, <3>1
    <3> HIDE DEF v
    <3> QED
      BY <3>1, <3>2
  <2>4. r = NoName => r.is \notin {"name", "query"}
    BY DEF NoName
  <2>a. curr + 1 < Len(d) => u.is # "query"
    <3>1. curr + 1 < Len(d) => Pointer(d, curr) \in Nat
      BY <1>0, NamePlaces
    <3> QED
      BY <1>3, <3>1
  <2>b. curr < Len(d) => v.is # "query"
    <3>1. curr < Len(d) => AfterLabel(d, curr) \in Nat
      BY NamePlaces
    <3> QED
      BY <1>3, <3>1
  <2> HIDE DEF u, v, r, length, l, S
  <2>5. r.is = "name" => r.end \in Nat /\ curr < r.end /\ r.end <= Len(d)
    <3>1. CASE curr < Len(d) /\ r = Name(<<>>, curr + 1)
      <4>1. r.end = curr + 1
        BY <3>1, NameFields
      <4> QED
        BY <1>0, <3>1, <4>1
    <3>2. CASE curr + 1 < Len(d) /\ u.is = "name" /\ r = Name(u.labels, curr + 2)
      <4>1. r.end = curr + 2
        BY <3>2, NameFields
      <4> QED
        BY <1>0, <3>2, <4>1
    <3>3. CASE curr < Len(d) /\ v.is = "name" /\ r = Name(<<l>> \o v.labels, v.end)
      <4>1. r.end = v.end
        BY <3>3, NameFields
      <4> QED
        BY <2>3, <3>3, <4>1
    <3> QED
      BY <2>2, <2>4, <3>1, <3>2, <3>3
  <2>6. r.is # "query"
    BY <2>2, <2>4, <2>a, <2>b, NameFields
  <2> QED
    BY <2>1, <2>5, <2>6
<1>4. \A n \in Nat : n \in S
  <2> HIDE DEF S
  <2> QED
    BY <1>2, <1>3, SetInduction
<1> QED
  BY <1>4 DEF f

(* So does the question, with its type and class. *)
LEMMA QueryWithin ==
  ASSUME NEW d \in ByteStrings, NEW q, q = ParseDNSQuery(d), q.is = "query"
  PROVE  q.end \in Nat /\ 17 <= q.end /\ q.end <= Len(d) /\ q.type \in Words
<1> DEFINE name == ParseDNSName(d, 12)
<1>1. Len(d) \in Nat /\ \A i \in 1 .. Len(d) : d[i] \in 0 .. 255
  BY MessageBytes
<1>2. name = Names(d)[<<Len(d) + 1, 12>>]
  BY ParseIs
<1>3. name.is = "name" => name.end \in Nat /\ 12 < name.end /\ name.end <= Len(d)
  <2>1. Len(d) + 1 \in Nat /\ 12 \in Nat
    BY <1>1
  <2> QED
    BY <1>2, <2>1, NameWithin
<1>4. q = IF ~IsQuery(d) THEN NoName
          ELSE IF name.is # "name" THEN name
          ELSE IF name.end + 4 > Len(d) THEN NoName
          ELSE [is |-> "query", labels |-> name.labels, type |-> WordAt(d, name.end), end |-> name.end + 4]
  BY DEF ParseDNSQuery
<1>5. name.is # "query"
  <2>1. Len(d) + 1 \in Nat /\ 12 \in Nat
    BY <1>1
  <2> QED
    BY <1>2, <2>1, NameWithin
<1> HIDE DEF name
<1>6. NoName.is # "query"
  BY DEF NoName
<1>7. /\ name.is = "name" /\ ~(name.end + 4 > Len(d))
      /\ q = [is |-> "query", labels |-> name.labels, type |-> WordAt(d, name.end), end |-> name.end + 4]
  BY <1>4, <1>5, <1>6
<1>8. PICK e \in Nat : e = name.end /\ 12 < e
  BY <1>3, <1>7
<1>9. /\ q = [is |-> "query", labels |-> name.labels, type |-> WordAt(d, e), end |-> e + 4]
      /\ ~(e + 4 > Len(d))
  BY <1>7, <1>8
<1>10. q.end = e + 4 /\ q.type = WordAt(d, e)
  BY <1>9
<1>11. e + 4 <= Len(d) /\ e + 2 <= Len(d) /\ 17 <= e + 4 /\ e + 4 \in Nat
  BY <1>1, <1>8, <1>9
<1>12. WordAt(d, e) \in Words
  BY <1>11, WordIs
<1> QED
  BY <1>10, <1>11, <1>12

-----------------------------------------------------------------------------
(* The answer.  Words and what is written of them. *)
LEMMA Halves ==
  ASSUME NEW w \in Nat
  PROVE  /\ Joined(w \div 256, w % 256) = w
         /\ w \in Words => w \div 256 \in 0 .. 255 /\ w % 256 \in 0 .. 255
<1>1. (256 * (w \div 256)) + (w % 256) = w
  OBVIOUS
<1>2. ASSUME w \in Words PROVE w \div 256 \in 0 .. 255 /\ w % 256 \in 0 .. 255
  <2>1. w <= 65535
    BY <1>2 DEF Words
  <2>2. w \div 256 \in Nat /\ w \div 256 <= 255
    BY <2>1
  <2>3. w % 256 \in 0 .. 255
    OBVIOUS
  <2> QED
    BY <2>2, <2>3
<1> QED
  BY <1>1, <1>2 DEF Joined

LEMMA WordsAreNumbers == \A w \in Words : w \in Nat
  BY DEF Words

(* c is d with the word w at i, where offsets count from 0. *)
Written(d, c, i, w) ==
    /\ c \in ByteStrings /\ Len(c) = Len(d)
    /\ WordAt(c, i) = w
    /\ \A j \in 1 .. Len(d) : j # i + 1 /\ j # i + 2 => c[j] = d[j]

LEMMA PutIs ==
  ASSUME NEW d \in ByteStrings, NEW i \in Nat, i + 2 <= Len(d), NEW w \in Words
  PROVE  Written(d, Put(d, i, w), i, w)
<1> DEFINE u == w \div 256
           v == w % 256
           c == [d EXCEPT ![i + 1] = u]
           e == [c EXCEPT ![i + 2] = v]
<1>1. Put(d, i, w) = e
  BY DEF Put
<1>2. Len(d) \in Nat /\ i + 1 \in 1 .. Len(d) /\ i + 2 \in 1 .. Len(d)
  BY MessageBytes
<1>3. u \in 0 .. 255 /\ v \in 0 .. 255 /\ Joined(u, v) = w
  BY WordsAreNumbers, Halves
<1> HIDE DEF u, v
<1>4. /\ c \in ByteStrings /\ Len(c) = Len(d)
      /\ \A j \in 1 .. Len(d) : c[j] = IF j = i + 1 THEN u ELSE d[j]
  BY <1>2, <1>3, ExceptSeq DEF ByteStrings
<1> HIDE DEF c
<1>5. /\ e \in ByteStrings /\ Len(e) = Len(c)
      /\ \A j \in 1 .. Len(c) : e[j] = IF j = i + 2 THEN v ELSE c[j]
  BY <1>2, <1>3, <1>4, ExceptSeq DEF ByteStrings
<1> HIDE DEF e
<1>6. e[i + 1] = u /\ e[i + 2] = v
  BY <1>2, <1>4, <1>5
<1>7. WordAt(e, i) = Joined(e[i + 1], e[i + 2])
  BY <1>4, <1>5, WordIs
<1>8. \A j \in 1 .. Len(d) : j # i + 1 /\ j # i + 2 => e[j] = d[j]
  BY <1>4, <1>5
<1> QED
  BY <1>1, <1>3, <1>4, <1>5, <1>6, <1>7, <1>8 DEF Written

(* Words that are not written are as before. *)
LEMMA WrittenApart ==
  ASSUME NEW d \in ByteStrings, NEW c, NEW i \in Nat, NEW w, Written(d, c, i, w),
         NEW k \in Nat, k + 2 <= Len(d), k + 2 <= i \/ i + 2 <= k
  PROVE  WordAt(c, k) = WordAt(d, k)
<1>1. Len(d) \in Nat /\ k + 1 \in 1 .. Len(d) /\ k + 2 \in 1 .. Len(d)
      /\ k + 1 # i + 1 /\ k + 1 # i + 2 /\ k + 2 # i + 1 /\ k + 2 # i + 2
  BY MessageBytes
<1>2. c[k + 1] = d[k + 1] /\ c[k + 2] = d[k + 2]
  BY <1>1 DEF Written
<1>3. c \in ByteStrings /\ Len(c) = Len(d)
  BY DEF Written
<1>4. WordAt(c, k) = Joined(c[k + 1], c[k + 2]) /\ WordAt(d, k) = Joined(d[k + 1], d[k + 2])
  BY <1>3, WordIs
<1> QED
  BY <1>2, <1>4

Header(d, e, f, n) == Put(Put(Put(Put(QuestionOf(d, e), 2, f), 6, n), 8, 0), 10, 0)

(* The header of the reply and the question of the query. *)
HasHeader(h, d, e, f, n) ==
    /\ h \in ByteStrings /\ Len(h) = e
    /\ WordAt(h, 2) = f /\ WordAt(h, 6) = n /\ WordAt(h, 8) = 0 /\ WordAt(h, 10) = 0
    /\ \A j \in 1 .. e : j \notin 3 .. 12 => h[j] = d[j]

LEMMA HeaderIs ==
  ASSUME NEW d \in ByteStrings, NEW e \in Nat, 17 <= e, e <= Len(d), NEW f \in Words, NEW n \in Words
  PROVE  HasHeader(Header(d, e, f, n), d, e, f, n)
<1> DEFINE a == QuestionOf(d, e)
           b == Put(a, 2, f)
           c == Put(b, 6, n)
           g == Put(c, 8, 0)
           h == Put(g, 10, 0)
<1>0. Header(d, e, f, n) = h
  BY DEF Header
<1>1. a \in ByteStrings /\ Len(a) = e /\ \A j \in 1 .. e : a[j] = d[j]
  <2>1. \A j \in 1 .. e : d[j] \in 0 .. 255
    BY MessageBytes
  <2>2. 1 \in Int /\ e \in Int /\ 1 <= e /\ e - 1 + 1 = e
    OBVIOUS
  <2>3. SubSeq(d, 1, e) \in Seq(0 .. 255) /\ Len(SubSeq(d, 1, e)) = e
        /\ \A j \in 1 .. e : SubSeq(d, 1, e)[j] = d[1 + j - 1]
    BY <2>1, <2>2, SubSeqProperties
  <2>4. \A j \in 1 .. e : 1 + j - 1 = j
    OBVIOUS
  <2> QED
    BY <2>3, <2>4 DEF QuestionOf, Upto, ByteStrings
<1>2. 0 \in Words
  BY DEF Words
<1> HIDE DEF a
<1>3. Written(a, b, 2, f)
  BY <1>1, PutIs
<1> HIDE DEF b
<1>4. b \in ByteStrings /\ Len(b) = e
  BY <1>1, <1>3 DEF Written
<1>5. Written(b, c, 6, n)
  BY <1>4, PutIs
<1> HIDE DEF c
<1>6. c \in ByteStrings /\ Len(c) = e
  BY <1>4, <1>5 DEF Written
<1>7. Written(c, g, 8, 0)
  BY <1>2, <1>6, PutIs
<1> HIDE DEF g
<1>8. g \in ByteStrings /\ Len(g) = e
  BY <1>6, <1>7 DEF Written
<1>9. Written(g, h, 10, 0)
  BY <1>2, <1>8, PutIs
<1> HIDE DEF h
<1>10. h \in ByteStrings /\ Len(h) = e
  BY <1>8, <1>9 DEF Written
<1>11. WordAt(h, 2) = f
  <2>1. WordAt(b, 2) = f
    BY <1>3 DEF Written
  <2>2. WordAt(c, 2) = WordAt(b, 2)
    BY <1>4, <1>5, WrittenApart
  <2>3. WordAt(g, 2) = WordAt(c, 2)
    BY <1>6, <1>7, WrittenApart
  <2>4. WordAt(h, 2) = WordAt(g, 2)
    BY <1>8, <1>9, WrittenApart
  <2> QED
    BY <2>1, <2>2, <2>3, <2>4
<1>12. WordAt(h, 6) = n
  <2>1. WordAt(c, 6) = n
    BY <1>5 DEF Written
  <2>2. WordAt(g, 6) = WordAt(c, 6)
    BY <1>6, <1>7, WrittenApart
  <2>3. WordAt(h, 6) = WordAt(g, 6)
    BY <1>8, <1>9, WrittenApart
  <2> QED
    BY <2>1, <2>2, <2>3
<1>13. WordAt(h, 8) = 0 /\ WordAt(h, 10) = 0
  <2>1. WordAt(g, 8) = 0 /\ WordAt(h, 10) = 0
    BY <1>7, <1>9 DEF Written
  <2>2. WordAt(h, 8) = WordAt(g, 8)
    BY <1>8, <1>9, WrittenApart
  <2> QED
    BY <2>1, <2>2
<1>14. ASSUME NEW j \in 1 .. e, j \notin 3 .. 12 PROVE h[j] = d[j]
  <2>1. b[j] = a[j] /\ c[j] = b[j] /\ g[j] = c[j] /\ h[j] = g[j]
    BY <1>1, <1>3, <1>4, <1>5, <1>6, <1>7, <1>8, <1>9, <1>14 DEF Written
  <2> QED
    BY <1>1, <2>1
<1> QED
  BY <1>0, <1>10, <1>11, <1>12, <1>13, <1>14 DEF HasHeader

(* z is x and then y. *)
Joins(z, x, y) ==
    /\ z \in ByteStrings /\ Len(z) = Len(x) + Len(y)
    /\ \A j \in 1 .. Len(x) : z[j] = x[j]
    /\ \A j \in 1 .. Len(y) : z[Len(x) + j] = y[j]

LEMMA Concatenated ==
  ASSUME NEW x \in ByteStrings, NEW y \in ByteStrings
  PROVE  Joins(x \o y, x, y)
<1> DEFINE z == x \o y
<1>1. Len(x) \in Nat /\ Len(y) \in Nat
  BY MessageBytes
<1>2. /\ z \in ByteStrings /\ Len(z) = Len(x) + Len(y)
      /\ \A j \in 1 .. Len(x) + Len(y) : z[j] = IF j <= Len(x) THEN x[j] ELSE y[j - Len(x)]
  BY ConcatProperties DEF ByteStrings
<1> HIDE DEF z
<1>3. ASSUME NEW j \in 1 .. Len(y) PROVE z[Len(x) + j] = y[j]
  <2>1. Len(x) + j \in 1 .. Len(x) + Len(y) /\ ~(Len(x) + j <= Len(x)) /\ (Len(x) + j) - Len(x) = j
    BY <1>1
  <2> QED
    BY <1>2, <2>1
<1>4. ASSUME NEW j \in 1 .. Len(x) PROVE z[j] = x[j]
  BY <1>1, <1>2
<1>5. Joins(z, x, y)
  BY <1>2, <1>3, <1>4 DEF Joins
<1> QED
  BY <1>5 DEF z

(* A resource record, up to its data. *)
IsAnswer(a, type, n, length) ==
    /\ a \in ByteStrings /\ Len(a) = 12 + length
    /\ a[1] = 192 /\ a[2] = 12 /\ a[3] = type \div 256 /\ a[4] = type % 256
    /\ a[11] = 0 /\ a[12] = n

LEMMA AnswerIs ==
  ASSUME NEW type \in Words, NEW n \in 0 .. 255, NEW rdata \in ByteStrings
  PROVE  IsAnswer(Answer(type, n, rdata), type, n, Len(rdata))
<1> DEFINE s == <<192, 12>>
           t == <<type \div 256, type % 256>>
           u == <<0, 1>>
           v == <<0, 0, 0, 60>>
           w == <<0, n>>
           st == s \o t
           su == st \o u
           sv == su \o v
           sw == sv \o w
           a  == sw \o rdata
<1>0. a = Answer(type, n, rdata)
  BY DEF Answer
<1>1. type \div 256 \in 0 .. 255 /\ type % 256 \in 0 .. 255
  BY WordsAreNumbers, Halves
<1>2. /\ s \in ByteStrings /\ t \in ByteStrings /\ u \in ByteStrings /\ v \in ByteStrings /\ w \in ByteStrings
      /\ Len(s) = 2 /\ Len(t) = 2 /\ Len(u) = 2 /\ Len(v) = 4 /\ Len(w) = 2
      /\ s[1] = 192 /\ s[2] = 12 /\ t[1] = type \div 256 /\ t[2] = type % 256 /\ w[1] = 0 /\ w[2] = n
  BY <1>1 DEF ByteStrings
<1> HIDE DEF s, t, u, v, w
<1>3. Joins(st, s, t)
  BY <1>2, Concatenated, Zenon
<1> HIDE DEF st
<1>4. st \in ByteStrings /\ Len(st) = 4 /\ st[1] = s[1] /\ st[2] = s[2] /\ st[3] = t[1] /\ st[4] = t[2]
  <2>1. st[2 + 1] = t[1] /\ st[2 + 2] = t[2]
    BY <1>2, <1>3 DEF Joins
  <2> QED
    BY <1>2, <1>3, <2>1 DEF Joins
<1>5. Joins(su, st, u)
  BY <1>2, <1>4, Concatenated, Zenon
<1> HIDE DEF su
<1>6. su \in ByteStrings /\ Len(su) = 6 /\ \A j \in 1 .. 4 : su[j] = st[j]
  BY <1>2, <1>4, <1>5 DEF Joins
<1>7. Joins(sv, su, v)
  BY <1>2, <1>6, Concatenated, Zenon
<1> HIDE DEF sv
<1>8. sv \in ByteStrings /\ Len(sv) = 10 /\ \A j \in 1 .. 6 : sv[j] = su[j]
  BY <1>2, <1>6, <1>7 DEF Joins
<1>9. Joins(sw, sv, w)
  BY <1>2, <1>8, Concatenated, Zenon
<1> HIDE DEF sw
<1>10. sw \in ByteStrings /\ Len(sw) = 12 /\ (\A j \in 1 .. 10 : sw[j] = sv[j]) /\ sw[11] = w[1] /\ sw[12] = w[2]
  <2>1. sw[10 + 1] = w[1] /\ sw[10 + 2] = w[2]
    BY <1>2, <1>8, <1>9 DEF Joins
  <2> QED
    BY <1>2, <1>8, <1>9, <2>1 DEF Joins
<1>11. Joins(a, sw, rdata)
  BY <1>10, Concatenated, Zenon
<1> HIDE DEF a
<1>12. a \in ByteStrings /\ Len(a) = 12 + Len(rdata) /\ \A j \in 1 .. 12 : a[j] = sw[j]
  BY <1>10, <1>11 DEF Joins
<1>13. /\ a[1] = 192 /\ a[2] = 12 /\ a[3] = type \div 256 /\ a[4] = type % 256
  BY <1>2, <1>4, <1>6, <1>8, <1>10, <1>12
<1>14. a[11] = 0 /\ a[12] = n
  BY <1>2, <1>10, <1>12
<1> QED
  BY <1>0, <1>12, <1>13, <1>14 DEF IsAnswer
-----------------------------------------------------------------------------
(* Pieces of messages and packets. *)
Piece(s, x, i, n) == s \in ByteStrings /\ Len(s) = n /\ \A k \in 1 .. n : s[k] = x[i + k - 1]

LEMMA SubSeqIs ==
  ASSUME NEW x, NEW i \in Nat, NEW n \in Nat, \A k \in i .. i + n - 1 : x[k] \in 0 .. 255
  PROVE  Piece(SubSeq(x, i, i + n - 1), x, i, n)
<1>1. PICK j \in Int : j = i + n - 1
  OBVIOUS
<1>2. /\ SubSeq(x, i, j) \in Seq(0 .. 255)
      /\ Len(SubSeq(x, i, j)) = IF i <= j THEN j - i + 1 ELSE 0
      /\ \A k \in 1 .. j - i + 1 : SubSeq(x, i, j)[k] = x[i + k - 1]
  BY <1>1, SubSeqProperties
<1>3. j - i + 1 = n /\ ((IF i <= j THEN j - i + 1 ELSE 0) = n)
  BY <1>1
<1> QED
  BY <1>1, <1>2, <1>3 DEF Piece, ByteStrings

LEMMA SamePieces ==
  ASSUME NEW x, NEW y \in ByteStrings, NEW i \in Nat, NEW j \in Nat, 1 <= j, NEW n \in Nat,
         j + n <= Len(y) + 1, \A k \in i .. i + n - 1 : x[k] = y[k + j - i]
  PROVE  Same(x, i, y, j, n)
<1>a. \A k \in j .. j + n - 1 : y[k] \in 0 .. 255
  <2>1. Len(y) \in Nat
    BY MessageBytes
  <2>2. \A k \in j .. j + n - 1 : k \in 1 .. Len(y)
    BY <2>1
  <2> QED
    BY <2>2, MessageBytes
<1>b. \A k \in i .. i + n - 1 : x[k] \in 0 .. 255
  <2>1. \A k \in i .. i + n - 1 : k + j - i \in j .. j + n - 1
    OBVIOUS
  <2> QED
    BY <1>a, <2>1
<1> DEFINE s == SubSeq(x, i, i + n - 1)
           t == SubSeq(y, j, j + n - 1)
<1>1. Piece(s, x, i, n) /\ Piece(t, y, j, n)
  BY <1>a, <1>b, SubSeqIs
<1> HIDE DEF s, t
<1>2. ASSUME NEW k \in 1 .. n PROVE s[k] = t[k]
  <2>1. i + k - 1 \in i .. i + n - 1 /\ (i + k - 1) + j - i = j + k - 1
    OBVIOUS
  <2>2. x[i + k - 1] = y[j + k - 1]
    BY <2>1
  <2> QED
    BY <1>1, <2>2 DEF Piece
<1>3. s = t
  BY <1>1, <1>2, SeqEqual DEF Piece, ByteStrings
<1> QED
  BY <1>3 DEF Same, s, t

-----------------------------------------------------------------------------
LEMMA Addresses ==
  /\ <<127, 0, 0, 1>> \in ByteStrings /\ Len(<<127, 0, 0, 1>>) = 4
  /\ Zeros(16) \in ByteStrings /\ Len(Zeros(16)) = 16
<1>1. <<127, 0, 0, 1>> \in ByteStrings /\ Len(<<127, 0, 0, 1>>) = 4
  BY DEF ByteStrings
<1>2. Zeros(16) = [k \in 1 .. 16 |-> 0]
  BY DEF Zeros
<1>3. [k \in 1 .. 16 |-> 0] \in ByteStrings /\ Len([k \in 1 .. 16 |-> 0]) = 16
  BY DEF ByteStrings
<1> QED
  BY <1>1, <1>2, <1>3
-----------------------------------------------------------------------------
Byte == 0 .. 255 \* the length of a record's data

(* The words of two messages, one after the other. *)
LEMMA JoinedWords ==
  ASSUME NEW x \in ByteStrings, NEW y \in ByteStrings, NEW z, Joins(z, x, y), NEW k \in Nat
  PROVE  /\ k + 2 <= Len(x) => WordAt(z, k) = WordAt(x, k)
         /\ k + 2 <= Len(y) => WordAt(z, Len(x) + k) = Joined(y[k + 1], y[k + 2])
<1>1. Len(x) \in Nat /\ Len(y) \in Nat /\ z \in ByteStrings /\ Len(z) = Len(x) + Len(y)
  BY MessageBytes DEF Joins
<1>2. ASSUME k + 2 <= Len(x) PROVE WordAt(z, k) = WordAt(x, k)
  <2>1. k + 1 \in 1 .. Len(x) /\ k + 2 \in 1 .. Len(x) /\ k + 2 <= Len(z)
    BY <1>1, <1>2
  <2>2. z[k + 1] = x[k + 1] /\ z[k + 2] = x[k + 2]
    BY <2>1 DEF Joins
  <2>3. WordAt(z, k) = Joined(z[k + 1], z[k + 2]) /\ WordAt(x, k) = Joined(x[k + 1], x[k + 2])
    BY <1>1, <1>2, <2>1, WordIs
  <2> QED
    BY <2>2, <2>3
<1>3. ASSUME k + 2 <= Len(y) PROVE WordAt(z, Len(x) + k) = Joined(y[k + 1], y[k + 2])
  <2>1. k + 1 \in 1 .. Len(y) /\ k + 2 \in 1 .. Len(y)
        /\ (Len(x) + k) + 2 <= Len(z) /\ Len(x) + k \in Nat
        /\ (Len(x) + k) + 1 = Len(x) + (k + 1) /\ (Len(x) + k) + 2 = Len(x) + (k + 2)
    BY <1>1, <1>3
  <2>2. z[Len(x) + (k + 1)] = y[k + 1] /\ z[Len(x) + (k + 2)] = y[k + 2]
    BY <2>1 DEF Joins
  <2>3. WordAt(z, Len(x) + k) = Joined(z[(Len(x) + k) + 1], z[(Len(x) + k) + 2])
    BY <1>1, <2>1, WordIs
  <2> QED
    BY <2>1, <2>2, <2>3
<1> QED
  BY <1>2, <1>3

(* A message that begins with a header for the question of d. *)
BeginsAs(a, d, e, f, n) ==
    /\ a \in ByteStrings /\ e <= Len(a)
    /\ WordAt(a, 2) = f /\ WordAt(a, 6) = n /\ WordAt(a, 8) = 0 /\ WordAt(a, 10) = 0
    /\ \A j \in 1 .. e : j \notin 3 .. 12 => a[j] = d[j]

LEMMA QuestionCopied ==
  ASSUME NEW d \in ByteStrings, NEW e \in Nat, 17 <= e, e <= Len(d), NEW f, NEW n,
         NEW a, BeginsAs(a, d, e, f, n)
  PROVE  Same(a, 1, d, 1, 2) /\ Same(a, 13, d, 13, e - 12)
<1>1. Len(d) \in Nat /\ Len(a) \in Nat /\ e <= Len(a) /\ a \in ByteStrings
  BY MessageBytes DEF BeginsAs
<1>2. Same(a, 1, d, 1, 2)
  <2>1. \A k \in 1 .. 1 + 2 - 1 : a[k] = d[k] /\ k + 1 - 1 = k
    BY DEF BeginsAs
  <2>2. \A k \in 1 .. 1 + 2 - 1 : a[k] = d[k + 1 - 1]
    BY <2>1
  <2>3. 1 \in Nat /\ 1 <= 1 /\ 2 \in Nat /\ 1 + 2 <= Len(d) + 1
    BY <1>1
  <2> QED
    BY <1>1, <2>2, <2>3, SamePieces, Zenon
<1>3. Same(a, 13, d, 13, e - 12)
  <2>1. \A k \in 13 .. 13 + (e - 12) - 1 : a[k] = d[k] /\ k + 13 - 13 = k
    BY DEF BeginsAs
  <2>2. \A k \in 13 .. 13 + (e - 12) - 1 : a[k] = d[k + 13 - 13]
    BY <2>1
  <2>3. 13 \in Nat /\ 1 <= 13 /\ e - 12 \in Nat /\ 13 + (e - 12) <= Len(d) + 1
    BY <1>1
  <2> QED
    BY <1>1, <2>2, <2>3, SamePieces, Zenon
<1> QED
  BY <1>2, <1>3

LEMMA HeaderBegins ==
  ASSUME NEW d, NEW e \in Nat, 17 <= e, NEW f, NEW n, NEW h, HasHeader(h, d, e, f, n)
  PROVE  /\ BeginsAs(h, d, e, f, n)
         /\ \A y \in ByteStrings : \A z : Joins(z, h, y) => BeginsAs(z, d, e, f, n)
<1>1. BeginsAs(h, d, e, f, n)
  BY DEF HasHeader, BeginsAs
<1>2. ASSUME NEW y \in ByteStrings, NEW z, Joins(z, h, y) PROVE BeginsAs(z, d, e, f, n)
  <2>1. h \in ByteStrings /\ Len(h) = e /\ Len(y) \in Nat
    BY MessageBytes DEF HasHeader
  <2>2. z \in ByteStrings /\ Len(z) = e + Len(y) /\ \A j \in 1 .. e : z[j] = h[j]
    BY <1>2, <2>1 DEF Joins
  <2>3. /\ WordAt(z, 2) = WordAt(h, 2) /\ WordAt(z, 6) = WordAt(h, 6)
        /\ WordAt(z, 8) = WordAt(h, 8) /\ WordAt(z, 10) = WordAt(h, 10)
    BY <1>2, <2>1, JoinedWords
  <2> QED
    BY <2>1, <2>2, <2>3 DEF HasHeader, BeginsAs
<1> QED
  BY <1>1, <1>2

(* The message of a reply is one, and answers the question. *)
LEMMA PayloadAnswers ==
  ASSUME NEW d \in ByteStrings, NEW q, q = ParseDNSQuery(d), q.is = "query",
         NEW a, a = SpoofedPayload(d, q)
  PROVE  /\ a \in ByteStrings
         /\ q.type # TypeAAAA => AnswersQuestion(a, d, q)
<1>0. PICK e : e = q.end
  OBVIOUS
<1>1. e \in Nat /\ 17 <= e /\ e <= Len(d)
  BY <1>0, QueryWithin
<1>2. /\ 33152 \in Words /\ 33155 \in Words /\ 0 \in Words /\ 1 \in Words
      /\ TypeA \in Words /\ TypeAAAA \in Words
      /\ TypeA # TypeAAAA /\ 4 \in Byte /\ 22 \in Byte
  BY DEF Words, Byte, TypeA, TypeAAAA
<1> DEFINE ofA     == Header(d, e, 33152, 1) \o Answer(TypeA, 4, <<127, 0, 0, 1>>)
           ofAAAA  == Header(d, e, 33152, 1) \o Answer(TypeAAAA, 22, Zeros(16))
           ofOther == Header(d, e, 33155, 0)
<1>3. a = CASE q.type = TypeA -> ofA [] q.type = TypeAAAA -> ofAAAA [] OTHER -> ofOther
  BY <1>0 DEF SpoofedPayload, Header
<1> HIDE DEF ofA, ofAAAA, ofOther
<1>8. /\ q.type = TypeA => a = ofA
      /\ q.type = TypeAAAA => a = ofAAAA
      /\ q.type # TypeA /\ q.type # TypeAAAA => a = ofOther
  BY <1>2, <1>3
<1>4. ASSUME NEW rdata \in ByteStrings, NEW type \in Words, NEW n \in Byte,
             a = Header(d, e, 33152, 1) \o Answer(type, n, rdata)
      PROVE  /\ BeginsAs(a, d, e, 33152, 1) /\ Len(a) = e + 12 + Len(rdata)
             /\ WordAt(a, e) = 49164 /\ WordAt(a, e + 2) = type /\ WordAt(a, e + 10) = n
  <2> DEFINE h == Header(d, e, 33152, 1)
             y == Answer(type, n, rdata)
  <2>1. HasHeader(h, d, e, 33152, 1)
    BY <1>1, <1>2, HeaderIs
  <2>2. IsAnswer(y, type, n, Len(rdata))
    BY AnswerIs, Zenon DEF y, Byte
  <2>a. a = h \o y
    BY <1>4
  <2> HIDE DEF h, y
  <2>3. h \in ByteStrings /\ y \in ByteStrings /\ Len(h) = e /\ Len(y) = 12 + Len(rdata) /\ Len(rdata) \in Nat
    BY <2>1, <2>2, MessageBytes DEF HasHeader, IsAnswer
  <2>4. Joins(a, h, y)
    BY <2>3, <2>a, Concatenated, Zenon
  <2>5. BeginsAs(a, d, e, 33152, 1)
    BY <1>1, <2>1, <2>3, <2>4, HeaderBegins
  <2>6. Len(a) = e + 12 + Len(rdata)
    BY <1>1, <2>3, <2>4 DEF Joins
  <2>7. /\ WordAt(a, e + 0) = Joined(y[0 + 1], y[0 + 2])
        /\ WordAt(a, e + 2) = Joined(y[2 + 1], y[2 + 2])
        /\ WordAt(a, e + 10) = Joined(y[10 + 1], y[10 + 2])
    <3>1. 0 \in Nat /\ 2 \in Nat /\ 10 \in Nat
          /\ 0 + 2 <= Len(y) /\ 2 + 2 <= Len(y) /\ 10 + 2 <= Len(y)
      BY <2>3
    <3>2. ASSUME NEW k \in Nat, k + 2 <= Len(y)
          PROVE  WordAt(a, Len(h) + k) = Joined(y[k + 1], y[k + 2])
      <4>1. h \in ByteStrings /\ y \in ByteStrings
        BY <2>3
      <4>2. (k + 2 <= Len(h) => WordAt(a, k) = WordAt(h, k))
            /\ (k + 2 <= Len(y) => WordAt(a, Len(h) + k) = Joined(y[k + 1], y[k + 2]))
        BY <4>1, <2>4, JoinedWords
      <4> QED
        BY <3>2, <4>2
    <3>3. \A k \in Nat : k + 2 <= Len(y) => WordAt(a, e + k) = Joined(y[k + 1], y[k + 2])
      BY <2>3, <3>2
    <3> QED
      BY <3>1, <3>3, Zenon
  <2>8. Joined(y[0 + 1], y[0 + 2]) = 49164
    BY <2>2 DEF IsAnswer, Joined, Byte
  <2>9. Joined(y[2 + 1], y[2 + 2]) = type
    BY <2>2, WordsAreNumbers, Halves DEF IsAnswer
  <2>10. Joined(y[10 + 1], y[10 + 2]) = n
    BY <2>2 DEF IsAnswer, Joined, Byte
  <2>11. e + 0 = e
    BY <1>1
  <2> QED
    BY <2>5, <2>6, <2>7, <2>8, <2>9, <2>10, <2>11
<1>5. ASSUME q.type = TypeA PROVE a \in ByteStrings /\ AnswersQuestion(a, d, q)
  <2>1. a = Header(d, e, 33152, 1) \o Answer(TypeA, 4, <<127, 0, 0, 1>>)
    BY <1>8, <1>5 DEF ofA
  <2>2. /\ BeginsAs(a, d, e, 33152, 1) /\ Len(a) = e + 12 + 4
        /\ WordAt(a, e) = 49164 /\ WordAt(a, e + 2) = TypeA /\ WordAt(a, e + 10) = 4
    <3>1. PICK rdata \in ByteStrings : rdata = <<127, 0, 0, 1>> /\ Len(rdata) = 4
      BY Addresses
    <3>2. a = Header(d, e, 33152, 1) \o Answer(TypeA, 4, rdata)
      BY <2>1, <3>1
    <3> QED
      <4>1. PICK type \in Words : type = TypeA
        BY <1>2
      <4>2. PICK n \in Byte : n = 4
        BY <1>2
      <4>3. a = Header(d, e, 33152, 1) \o Answer(type, n, rdata)
        BY <3>2, <4>1, <4>2
      <4>4. /\ BeginsAs(a, d, e, 33152, 1) /\ Len(a) = e + 12 + Len(rdata)
            /\ WordAt(a, e) = 49164 /\ WordAt(a, e + 2) = type /\ WordAt(a, e + 10) = n
        BY <1>4, <4>3
      <4> QED
        BY <3>1, <4>1, <4>2, <4>4
  <2>3. Same(a, 1, d, 1, 2) /\ Same(a, 13, d, 13, e - 12)
    BY <1>1, <2>2, QuestionCopied
  <2>4. (e + 12) - 2 = e + 10
    BY <1>1
  <2> QED
    BY <1>0, <1>5, <2>2, <2>3, <2>4 DEF AnswersQuestion, BeginsAs
<1>6. ASSUME q.type = TypeAAAA PROVE a \in ByteStrings
  <2>1. q.type # TypeA
    BY <1>2, <1>6
  <2>2. a = Header(d, e, 33152, 1) \o Answer(TypeAAAA, 22, Zeros(16))
    BY <1>8, <1>6 DEF ofAAAA
  <2>3. BeginsAs(a, d, e, 33152, 1)
    <3>1. PICK type \in Words : type = TypeAAAA
      BY <1>2
    <3>2. PICK n \in Byte : n = 22
      BY <1>2
    <3>3. PICK rdata \in ByteStrings : rdata = Zeros(16)
      BY Addresses
    <3>4. a = Header(d, e, 33152, 1) \o Answer(type, n, rdata)
      BY <2>2, <3>1, <3>2, <3>3
    <3> QED
      BY <1>4, <3>4
  <2> QED
    BY <2>3 DEF BeginsAs
<1>7. ASSUME q.type # TypeA, q.type # TypeAAAA PROVE a \in ByteStrings /\ AnswersQuestion(a, d, q)
  <2>1. a = Header(d, e, 33155, 0)
    BY <1>8, <1>7 DEF ofOther
  <2>2. HasHeader(a, d, e, 33155, 0)
    BY <1>1, <1>2, <2>1, HeaderIs
  <2>3. BeginsAs(a, d, e, 33155, 0) /\ Len(a) = e
    BY <1>1, <2>2, HeaderBegins DEF HasHeader
  <2>4. Same(a, 1, d, 1, 2) /\ Same(a, 13, d, 13, e - 12)
    BY <1>1, <2>3, QuestionCopied
  <2> QED
    BY <1>0, <2>3, <2>4 DEF AnswersQuestion, BeginsAs
<1> QED
  BY <1>2, <1>5, <1>6, <1>7
-----------------------------------------------------------------------------
(* The packet.  What a length field keeps. *)
Short(n) == n % 65536

(* y is x with the n bytes at i and those at j exchanged. *)
Exchanged(x, y, i, j, n) ==
    /\ y \in ByteStrings /\ Len(y) = Len(x)
    /\ \A k \in i .. i + n - 1 : y[k] = x[k + j - i]
    /\ \A k \in j .. j + n - 1 : y[k] = x[k + i - j]
    /\ \A k \in 1 .. Len(x) : k \notin i .. i + n - 1 /\ k \notin j .. j + n - 1 => y[k] = x[k]

LEMMA ExchangeIs ==
  ASSUME NEW x \in ByteStrings, NEW i \in Nat, NEW j \in Nat, NEW n \in Nat,
         1 <= i, i + n <= j, j + n <= Len(x) + 1
  PROVE  Exchanged(x, Exchange(x, i, j, n), i, j, n)
<1> DEFINE y == Exchange(x, i, j, n)
<1>1. Len(x) \in Nat /\ DOMAIN x = 1 .. Len(x) /\ \A k \in 1 .. Len(x) : x[k] \in 0 .. 255
  BY MessageBytes
<1>2. /\ \A k \in i .. i + n - 1 : k \in 1 .. Len(x) /\ k + j - i \in 1 .. Len(x) /\ k \notin j .. j + n - 1
      /\ \A k \in j .. j + n - 1 : k \in 1 .. Len(x) /\ k + i - j \in 1 .. Len(x) /\ k \notin i .. i + n - 1
  BY <1>1
<1>3. y = [k \in 1 .. Len(x) |-> IF k \in i .. i + n - 1 THEN x[k + j - i]
                                 ELSE IF k \in j .. j + n - 1 THEN x[k + i - j] ELSE x[k]]
  BY <1>1 DEF Exchange
<1> HIDE DEF y
<1>4. \A k \in i .. i + n - 1 : y[k] = x[k + j - i]
  BY <1>2, <1>3
<1>5. \A k \in j .. j + n - 1 : y[k] = x[k + i - j]
  BY <1>2, <1>3
<1>6. \A k \in 1 .. Len(x) : k \notin i .. i + n - 1 /\ k \notin j .. j + n - 1 => y[k] = x[k]
  BY <1>3
<1>7. \A k \in 1 .. Len(x) : y[k] \in 0 .. 255
  BY <1>1, <1>2, <1>4, <1>5, <1>6
<1>8. y \in [1 .. Len(x) -> 0 .. 255]
  BY <1>3, <1>7
<1>9. y \in ByteStrings /\ Len(y) = Len(x)
  <2>1. PICK l \in Nat : l = Len(x)
    BY <1>1
  <2>2. y \in Seq(0 .. 255)
    BY <1>8, <2>1, SeqDef, Zenon
  <2>3. DOMAIN y = 1 .. Len(x)
    BY <1>3
  <2>4. Len(y) = l
    BY <2>1, <2>2, <2>3, LenProperties
  <2> QED
    BY <2>1, <2>2, <2>4 DEF ByteStrings
<1>10. Exchanged(x, y, i, j, n)
  BY <1>4, <1>5, <1>6, <1>9 DEF Exchanged
<1> QED
  BY <1>10 DEF y

LEMMA LengthIs ==
  ASSUME NEW x \in ByteStrings, NEW i \in Nat, 1 <= i, i + 1 <= Len(x), NEW n \in Nat
  PROVE  Written(x, PutLength(x, i, n), i - 1, Short(n))
<1>1. Short(n) \in Words
  BY DEF Words, Short
<1>2. i - 1 \in Nat /\ (i - 1) + 2 <= Len(x)
  BY MessageBytes
<1> QED
  BY <1>1, <1>2, PutIs DEF PutLength, Short

(* m is x with the n bytes at i and those at j, and the ports behind a     *)
(* header of h bytes, exchanged, and the lengths u at at and v in the      *)
(* header of the datagram.                                                 *)
Turned(x, m, i, j, n, h, at, u, v) ==
    /\ m \in ByteStrings /\ Len(m) = Len(x)
    /\ \A k \in i .. i + n - 1 : m[k] = x[k + j - i]
    /\ \A k \in j .. j + n - 1 : m[k] = x[k + i - j]
    /\ \A k \in h + 1 .. h + 2 : m[k] = x[k + 2]
    /\ \A k \in h + 3 .. h + 4 : m[k] = x[k - 2]
    /\ WordAt(m, at - 1) = Short(u) /\ WordAt(m, h + 4) = Short(v)
    /\ \A k \in 1 .. Len(x) :
          /\ k \notin i .. i + n - 1 /\ k \notin j .. j + n - 1
          /\ k \notin h + 1 .. h + 6 /\ k \notin at .. at + 1
          => m[k] = x[k]

LEMMA TurnedIs ==
  ASSUME NEW x \in ByteStrings, NEW i \in Nat, NEW j \in Nat, NEW n \in Nat, NEW h \in Nat, NEW at \in Nat,
         1 <= at, at + 1 < i, i + n <= j, j + n <= h + 1, h + 8 <= Len(x),
         NEW u \in Nat, NEW v \in Nat
  PROVE  Turned(x, PutLength(Exchange(PutLength(Exchange(x, i, j, n), at, u), h + 1, h + 3, 2), h + 5, v),
                i, j, n, h, at, u, v)
<1> DEFINE x1 == Exchange(x, i, j, n)
           x2 == PutLength(x1, at, u)
           x3 == Exchange(x2, h + 1, h + 3, 2)
           m  == PutLength(x3, h + 5, v)
<1>0. Len(x) \in Nat
  BY MessageBytes
<1>1. Exchanged(x, x1, i, j, n)
  BY <1>0, ExchangeIs
<1> HIDE DEF x1
<1>2. x1 \in ByteStrings /\ Len(x1) = Len(x)
  BY <1>1 DEF Exchanged
<1>3. Written(x1, x2, at - 1, Short(u))
  <2>1. at + 1 <= Len(x1)
    BY <1>0, <1>2
  <2> QED
    BY <1>2, <2>1, LengthIs, Zenon
<1> HIDE DEF x2
<1>4. x2 \in ByteStrings /\ Len(x2) = Len(x)
  BY <1>2, <1>3 DEF Written
<1>5. Exchanged(x2, x3, h + 1, h + 3, 2)
  <2>1. /\ h + 1 \in Nat /\ h + 3 \in Nat /\ 2 \in Nat /\ 1 <= h + 1
        /\ (h + 1) + 2 <= h + 3 /\ (h + 3) + 2 <= Len(x2) + 1
    BY <1>0, <1>4
  <2> QED
    BY <1>4, <2>1, ExchangeIs
<1> HIDE DEF x3
<1>6. x3 \in ByteStrings /\ Len(x3) = Len(x)
  BY <1>4, <1>5 DEF Exchanged
<1>7. Written(x3, m, h + 4, Short(v))
  <2>1. h + 5 \in Nat /\ 1 <= h + 5 /\ (h + 5) + 1 <= Len(x3) /\ (h + 5) - 1 = h + 4
    BY <1>0, <1>6
  <2>2. Written(x3, m, (h + 5) - 1, Short(v))
    BY <1>6, <2>1, LengthIs, Zenon
  <2> QED
    BY <2>1, <2>2
<1> HIDE DEF m
<1>8. m \in ByteStrings /\ Len(m) = Len(x) /\ WordAt(m, h + 4) = Short(v)
  BY <1>6, <1>7 DEF Written
<1>9. \A k \in 1 .. Len(x) : k \notin at .. at + 1 => x2[k] = x1[k]
  BY <1>2, <1>3 DEF Written
<1>10. \A k \in 1 .. Len(x) : k \notin h + 1 .. h + 4 => x3[k] = x2[k]
  <2>1. \A k \in 1 .. Len(x) : k \notin h + 1 .. h + 4 =>
           k \notin h + 1 .. (h + 1) + 2 - 1 /\ k \notin h + 3 .. (h + 3) + 2 - 1
    OBVIOUS
  <2> QED
    BY <1>4, <1>5, <2>1 DEF Exchanged
<1>11. \A k \in 1 .. Len(x) : k \notin h + 5 .. h + 6 => m[k] = x3[k]
  <2>1. \A k \in 1 .. Len(x) : k \notin h + 5 .. h + 6 => k # (h + 4) + 1 /\ k # (h + 4) + 2
    OBVIOUS
  <2> QED
    BY <1>6, <1>7, <2>1 DEF Written
<1>12. \A k \in 1 .. h : m[k] = x2[k]
  <2>1. \A k \in 1 .. h : k \in 1 .. Len(x) /\ k \notin h + 1 .. h + 4 /\ k \notin h + 5 .. h + 6
    BY <1>0
  <2> QED
    BY <1>10, <1>11, <2>1
<1>13. \A k \in i .. i + n - 1 : m[k] = x[k + j - i]
  <2>1. \A k \in i .. i + n - 1 : k \in 1 .. h /\ k \in 1 .. Len(x) /\ k \notin at .. at + 1
    BY <1>0
  <2> QED
    BY <1>1, <1>9, <1>12, <2>1 DEF Exchanged
<1>14. \A k \in j .. j + n - 1 : m[k] = x[k + i - j]
  <2>1. \A k \in j .. j + n - 1 : k \in 1 .. h /\ k \in 1 .. Len(x) /\ k \notin at .. at + 1
    BY <1>0
  <2> QED
    BY <1>1, <1>9, <1>12, <2>1 DEF Exchanged
<1>15. \A k \in 1 .. Len(x) : k \notin i .. i + n - 1 /\ k \notin j .. j + n - 1 => x1[k] = x[k]
  BY <1>1 DEF Exchanged
<1>16. \A k \in h + 1 .. h + 4 : x2[k] = x[k]
  <2>1. \A k \in h + 1 .. h + 4 : /\ k \in 1 .. Len(x) /\ k \notin at .. at + 1
                                  /\ k \notin i .. i + n - 1 /\ k \notin j .. j + n - 1
    BY <1>0
  <2> QED
    BY <1>9, <1>15, <2>1
<1>17. \A k \in h + 1 .. h + 2 : m[k] = x[k + 2]
  <2>1. \A k \in h + 1 .. h + 2 : /\ k \in 1 .. Len(x) /\ k \notin h + 5 .. h + 6
                                  /\ k \in h + 1 .. (h + 1) + 2 - 1 /\ k + (h + 3) - (h + 1) = k + 2
                                  /\ k + 2 \in h + 1 .. h + 4
    BY <1>0
  <2>2. \A k \in h + 1 .. h + 2 : x3[k] = x2[k + 2]
    BY <1>5, <2>1 DEF Exchanged
  <2> QED
    BY <1>11, <1>16, <2>1, <2>2
<1>18. \A k \in h + 3 .. h + 4 : m[k] = x[k - 2]
  <2>1. \A k \in h + 3 .. h + 4 : /\ k \in 1 .. Len(x) /\ k \notin h + 5 .. h + 6
                                  /\ k \in h + 3 .. (h + 3) + 2 - 1 /\ k + (h + 1) - (h + 3) = k - 2
                                  /\ k - 2 \in h + 1 .. h + 4
    BY <1>0
  <2>2. \A k \in h + 3 .. h + 4 : x3[k] = x2[k - 2]
    BY <1>5, <2>1 DEF Exchanged
  <2> QED
    BY <1>11, <1>16, <2>1, <2>2
<1>19. WordAt(m, at - 1) = Short(u)
  <2>1. WordAt(x2, at - 1) = Short(u)
    BY <1>3 DEF Written
  <2>2. /\ at - 1 \in Nat /\ (at - 1) + 2 <= Len(x2) /\ (at - 1) + 2 <= Len(m)
        /\ (at - 1) + 1 \in 1 .. h /\ (at - 1) + 2 \in 1 .. h
    BY <1>0, <1>4, <1>8
  <2>3. m[(at - 1) + 1] = x2[(at - 1) + 1] /\ m[(at - 1) + 2] = x2[(at - 1) + 2]
    BY <1>12, <2>2
  <2>4. /\ WordAt(m, at - 1) = Joined(m[(at - 1) + 1], m[(at - 1) + 2])
        /\ WordAt(x2, at - 1) = Joined(x2[(at - 1) + 1], x2[(at - 1) + 2])
    BY <1>4, <1>8, <2>2, WordIs
  <2> QED
    BY <2>1, <2>3, <2>4
<1>20. ASSUME NEW k \in 1 .. Len(x), k \notin i .. i + n - 1, k \notin j .. j + n - 1,
              k \notin h + 1 .. h + 6, k \notin at .. at + 1
       PROVE  m[k] = x[k]
  <2>1. k \notin h + 1 .. h + 4 /\ k \notin h + 5 .. h + 6
    BY <1>20
  <2> QED
    BY <1>9, <1>10, <1>11, <1>15, <1>20, <2>1
<1>21. Turned(x, m, i, j, n, h, at, u, v)
  BY <1>8, <1>13, <1>14, <1>17, <1>18, <1>19, <1>20 DEF Turned
<1> QED
  BY <1>21 DEF m, x3, x2, x1

(* What the sinkhole answers to: a datagram behind a whole header. *)
LEMMA Datagram ==
  ASSUME NEW b \in ByteStrings, Readable(b), HeaderLength(b) >= 20, Transport(b) = "udp"
  PROVE  /\ IsPacket(b) /\ Len(b) \in Nat /\ b[1] \in 0 .. 255
         /\ HeaderLength(b) \in Nat /\ HeaderLength(b) + 8 <= Len(b)
         /\ Version(b) \in {4, 6} /\ (Version(b) = 6 => HeaderLength(b) = 40)
         /\ Protocol(b) = 17
<1>1. IsPacket(b)
  BY BytesArePacket DEF ByteStrings
<1>2. /\ Len(b) \in Nat /\ Len(b) >= 20 /\ DOMAIN b = 1 .. Len(b) /\ b[1] \in 0 .. 255
      /\ HeaderLength(b) \in 0 .. Len(b)
      /\ Version(b) \in {4, 6} /\ (Version(b) = 6 => HeaderLength(b) = 40)
  BY <1>1, HeaderNumbers
<1>3. Protocol(b) = 17 /\ Rest(b) >= 8
  BY DEF Transport
<1>4. HeaderLength(b) + 8 <= Len(b)
  <2>1. PICK n \in Nat : n = HeaderLength(b)
    BY <1>2
  <2> QED
    BY <1>2, <1>3, <2>1 DEF Rest
<1> QED
  BY <1>1, <1>2, <1>3, <1>4

(* The copied headers and the message behind them. *)
LEMMA HeadersAndMessage ==
  ASSUME NEW b \in ByteStrings, NEW a \in ByteStrings, NEW n \in Nat, n + 8 <= Len(b)
  PROVE  LET x == Upto(b, n + 8) \o a
         IN  /\ x \in ByteStrings /\ Len(x) = n + 8 + Len(a)
             /\ \A k \in 1 .. n + 8 : x[k] = b[k]
             /\ \A k \in 1 .. Len(a) : x[n + 8 + k] = a[k]
<1> DEFINE s == SubSeq(b, 1, 1 + (n + 8) - 1)
           x == Upto(b, n + 8) \o a
<1>1. Piece(s, b, 1, n + 8)
  <2>1. \A k \in 1 .. 1 + (n + 8) - 1 : b[k] \in 0 .. 255
    BY MessageBytes
  <2>2. 1 \in Nat /\ n + 8 \in Nat
    OBVIOUS
  <2> QED
    BY <2>1, <2>2, SubSeqIs
<1>2. x = s \o a
  <2>1. 1 + (n + 8) - 1 = n + 8
    OBVIOUS
  <2> QED
    BY <2>1 DEF Upto
<1> HIDE DEF s
<1>3. s \in ByteStrings /\ Len(s) = n + 8
  BY <1>1 DEF Piece
<1>4. \A k \in 1 .. n + 8 : s[k] = b[k]
  <2>1. \A k \in 1 .. n + 8 : s[k] = b[1 + k - 1] /\ 1 + k - 1 = k
    BY <1>1 DEF Piece
  <2> QED
    BY <2>1
<1>5. Joins(s \o a, s, a)
  BY <1>3, Concatenated, Zenon
<1> HIDE DEF x
<1>6. Joins(x, s, a)
  BY <1>2, <1>5
<1>7. /\ x \in ByteStrings /\ Len(x) = n + 8 + Len(a)
      /\ \A k \in 1 .. n + 8 : x[k] = b[k]
      /\ \A k \in 1 .. Len(a) : x[n + 8 + k] = a[k]
  <2>1. Len(a) \in Nat
    BY MessageBytes
  <2> QED
    BY <1>3, <1>4, <1>6, <2>1 DEF Joins
<1> QED
  BY <1>7 DEF x

(* m is the datagram b turned around, h bytes of header and of the message *)
(* a the l bytes: the addresses have n bytes and begin at i and j, and the *)
(* length u of the packet is at at.                                        *)
TurnedAround(m, b, a, h, l, i, j, n, at, u) ==
    /\ m \in ByteStrings /\ Len(m) = h + 8 + l
    /\ \A k \in i .. i + n - 1 : m[k] = b[k + j - i]
    /\ \A k \in j .. j + n - 1 : m[k] = b[k + i - j]
    /\ \A k \in h + 1 .. h + 2 : m[k] = b[k + 2]
    /\ \A k \in h + 3 .. h + 4 : m[k] = b[k - 2]
    /\ WordAt(m, at - 1) = Short(u) /\ WordAt(m, h + 4) = Short(8 + l)
    /\ m[1] = b[1] /\ m[7] = b[7] /\ (at = 3 => m[10] = b[10])
    /\ \A k \in 1 .. l : m[h + 8 + k] = a[k]

LEMMA TurnsAround ==
  ASSUME NEW x \in ByteStrings, NEW b, NEW a, NEW h \in Nat, h >= 20, NEW l \in Nat,
         Len(x) = h + 8 + l,
         \A k \in 1 .. h + 8 : x[k] = b[k],
         \A k \in 1 .. l : x[h + 8 + k] = a[k],
         NEW i \in Nat, NEW j \in Nat, NEW n \in Nat, NEW at \in Nat, NEW u \in Nat, NEW m,
         (at = 3 /\ i = 13 /\ j = 17 /\ n = 4) \/ (at = 5 /\ i = 9 /\ j = 25 /\ n = 16),
         j + n <= h + 1,
         Turned(x, m, i, j, n, h, at, u, 8 + l)
  PROVE  TurnedAround(m, b, a, h, l, i, j, n, at, u)
<1>1. /\ \A k \in i .. i + n - 1 : k + j - i \in 1 .. h + 8
      /\ \A k \in j .. j + n - 1 : k + i - j \in 1 .. h + 8
      /\ \A k \in h + 1 .. h + 2 : k + 2 \in 1 .. h + 8
      /\ \A k \in h + 3 .. h + 4 : k - 2 \in 1 .. h + 8
  <2>1. ASSUME NEW k \in i .. i + n - 1 PROVE k + j - i \in 1 .. h + 8
    OBVIOUS
  <2>2. ASSUME NEW k \in j .. j + n - 1 PROVE k + i - j \in 1 .. h + 8
    OBVIOUS
  <2>3. \A k \in h + 1 .. h + 2 : k + 2 \in 1 .. h + 8
    OBVIOUS
  <2>4. \A k \in h + 3 .. h + 4 : k - 2 \in 1 .. h + 8
    OBVIOUS
  <2> QED
    BY <2>1, <2>2, <2>3, <2>4
<1>2. \A k \in i .. i + n - 1 : m[k] = b[k + j - i]
  BY <1>1 DEF Turned
<1>3. \A k \in j .. j + n - 1 : m[k] = b[k + i - j]
  BY <1>1 DEF Turned
<1>4. \A k \in h + 1 .. h + 2 : m[k] = b[k + 2]
  BY <1>1 DEF Turned
<1>5. \A k \in h + 3 .. h + 4 : m[k] = b[k - 2]
  BY <1>1 DEF Turned
<1>6. /\ m \in ByteStrings /\ Len(m) = h + 8 + l
      /\ WordAt(m, at - 1) = Short(u) /\ WordAt(m, h + 4) = Short(8 + l)
  BY DEF Turned
<1>7. ASSUME NEW k \in 1 .. h + 8 + l, k \notin i .. i + n - 1, k \notin j .. j + n - 1,
             k \notin h + 1 .. h + 6, k \notin at .. at + 1
      PROVE  m[k] = x[k]
  BY <1>7 DEF Turned
<1>8. m[1] = b[1] /\ m[7] = b[7] /\ (at = 3 => m[10] = b[10])
  <2>1. \A k \in {1, 7, 10} : k \in 1 .. h + 8 + l /\ k \in 1 .. h + 8 /\ k \notin h + 1 .. h + 6
    OBVIOUS
  <2>2. \A k \in {1, 7} : k \notin i .. i + n - 1 /\ k \notin j .. j + n - 1 /\ k \notin at .. at + 1
    OBVIOUS
  <2>3. at = 3 => 10 \notin i .. i + n - 1 /\ 10 \notin j .. j + n - 1 /\ 10 \notin at .. at + 1
    OBVIOUS
  <2> QED
    BY <1>7, <2>1, <2>2, <2>3
<1>9. ASSUME NEW k \in 1 .. l PROVE m[h + 8 + k] = a[k]
  <2>1. /\ h + 8 + k \in 1 .. h + 8 + l /\ h + 8 + k \notin h + 1 .. h + 6
        /\ h + 8 + k \notin i .. i + n - 1 /\ h + 8 + k \notin j .. j + n - 1
        /\ h + 8 + k \notin at .. at + 1
    OBVIOUS
  <2> QED
    BY <1>7, <2>1
<1> QED
  BY <1>2, <1>3, <1>4, <1>5, <1>6, <1>8, <1>9 DEF TurnedAround

(* The spoofed packet is the query turned around, of either version.       *)
LEMMA SpoofedIs ==
  ASSUME NEW b \in ByteStrings, Readable(b), HeaderLength(b) >= 20, Transport(b) = "udp",
         NEW a \in ByteStrings,
         NEW h \in Nat, h = HeaderLength(b), NEW l \in Nat, l = Len(a),
         NEW m, m = SpoofedPacket(b, a)
  PROVE  /\ Version(b) = 4 => TurnedAround(m, b, a, h, l, 13, 17, 4, 3, h + 8 + l)
         /\ Version(b) = 6 => TurnedAround(m, b, a, h, l, 9, 25, 16, 5, 8 + l)
<1> DEFINE x == Upto(b, h + 8) \o a
<1>1. h >= 20 /\ h + 8 <= Len(b) /\ (Version(b) = 6 => h = 40)
  BY Datagram
<1>2. /\ x \in ByteStrings /\ Len(x) = h + 8 + l
      /\ \A k \in 1 .. h + 8 : x[k] = b[k]
      /\ \A k \in 1 .. l : x[h + 8 + k] = a[k]
  BY <1>1, HeadersAndMessage
<1>3. m = LET ip == IF Version(b) = 4
                    THEN PutLength(Exchange(x, 13, 17, 4), 3, Len(x))
                    ELSE PutLength(Exchange(x, 9, 25, 16), 5, 8 + l)
          IN  PutLength(Exchange(ip, h + 1, h + 3, 2), h + 5, 8 + l)
  BY DEF SpoofedPacket
<1> HIDE DEF x
<1>4. ASSUME NEW i \in Nat, NEW j \in Nat, NEW n \in Nat, NEW at \in Nat, NEW u \in Nat,
             (at = 3 /\ i = 13 /\ j = 17 /\ n = 4) \/ (at = 5 /\ i = 9 /\ j = 25 /\ n = 16),
             j + n <= h + 1,
             m = PutLength(Exchange(PutLength(Exchange(x, i, j, n), at, u), h + 1, h + 3, 2), h + 5, 8 + l)
      PROVE  TurnedAround(m, b, a, h, l, i, j, n, at, u)
  <2>1. 1 <= at /\ at + 1 < i /\ i + n <= j /\ h + 8 <= Len(x) /\ 8 + l \in Nat
    <3>1. 1 <= at /\ at + 1 < i /\ i + n <= j
      BY <1>4
    <3>2. h + 8 <= Len(x) /\ 8 + l \in Nat
      BY <1>2
    <3> QED
      BY <3>1, <3>2
  <2>2. Turned(x, PutLength(Exchange(PutLength(Exchange(x, i, j, n), at, u), h + 1, h + 3, 2), h + 5, 8 + l),
               i, j, n, h, at, u, 8 + l)
    BY <1>2, <1>4, <2>1, TurnedIs
  <2>3. Turned(x, m, i, j, n, h, at, u, 8 + l)
    BY <1>4, <2>2
  <2> QED
    BY <1>1, <1>2, <1>4, <2>3, TurnsAround
<1>5. ASSUME Version(b) = 4 PROVE TurnedAround(m, b, a, h, l, 13, 17, 4, 3, h + 8 + l)
  <2>1. m = PutLength(Exchange(PutLength(Exchange(x, 13, 17, 4), 3, h + 8 + l), h + 1, h + 3, 2), h + 5, 8 + l)
    BY <1>2, <1>3, <1>5
  <2>2. 17 + 4 <= h + 1 /\ h + 8 + l \in Nat
    BY <1>1
  <2> QED
    BY <1>4, <2>1, <2>2
<1>6. ASSUME Version(b) = 6 PROVE TurnedAround(m, b, a, h, l, 9, 25, 16, 5, 8 + l)
  <2>1. m = PutLength(Exchange(PutLength(Exchange(x, 9, 25, 16), 5, 8 + l), h + 1, h + 3, 2), h + 5, 8 + l)
    BY <1>3, <1>6
  <2>2. 25 + 16 <= h + 1 /\ 8 + l \in Nat
    BY <1>1, <1>6
  <2> QED
    BY <1>4, <2>1, <2>2
<1> QED
  BY <1>5, <1>6

(* ParsePacket finds in it what it found in the query. *)
LEMMA SpoofedRead ==
  ASSUME NEW b \in ByteStrings, Readable(b), HeaderLength(b) >= 20, Transport(b) = "udp",
         NEW h \in Nat, h = HeaderLength(b), NEW l \in Nat,
         NEW m \in ByteStrings, Len(m) = h + 8 + l,
         m[1] = b[1], m[7] = b[7], Version(b) = 4 => m[10] = b[10]
  PROVE  /\ IsPacket(m) /\ Readable(m) /\ Version(m) = Version(b) /\ HeaderLength(m) = h
         /\ Transport(m) = "udp" /\ TransportChecksumAt(m) = h + 7
<1>1. h >= 20 /\ Version(b) \in {4, 6} /\ Protocol(b) = 17
  BY Datagram
<1>2. IsPacket(m)
  BY BytesArePacket DEF ByteStrings
<1>3. Version(m) = Version(b) /\ HeaderLength(m) = h
  BY DEF Version, HeaderLength
<1>4. Protocol(m) = 17
  BY <1>1, <1>3 DEF Protocol
<1>5. Rest(m) = 8 + l
  BY <1>3 DEF Rest
<1>6. Readable(m)
  BY <1>1, <1>3 DEF Readable
<1>7. Transport(m) = "udp"
  BY <1>4, <1>5 DEF Transport
<1>8. TransportChecksumAt(m) = h + 7
  BY <1>3, <1>7 DEF TransportChecksumAt
<1> QED
  BY <1>2, <1>3, <1>6, <1>7, <1>8

-----------------------------------------------------------------------------
(* The reply is the query turned around but for the checksums.             *)
LEMMA ReplyIs ==
  ASSUME NEW b \in ByteStrings, Readable(b), HeaderLength(b) >= 20, Transport(b) = "udp",
         NEW h \in Nat, h = HeaderLength(b), NEW l \in Nat,
         NEW m \in ByteStrings, Len(m) = h + 8 + l,
         m[1] = b[1], m[7] = b[7], Version(b) = 4 => m[10] = b[10],
         NEW r, r = CalcChecksums(m, {})
  PROVE  /\ Len(r) = h + 8 + l /\ PayloadLength(r) = l
         /\ \A k \in 1 .. h + 8 + l :
               /\ Version(b) = 4 => k \notin 11 .. 12
               /\ k \notin h + 7 .. h + 8
               => r[k] = m[k]
<1>1. /\ IsPacket(m) /\ Readable(m) /\ Version(m) = Version(b) /\ HeaderLength(m) = h
      /\ Transport(m) = "udp" /\ TransportChecksumAt(m) = h + 7
  BY SpoofedRead
<1>2. SameHeaders(m, r)
  BY <1>1, CalcWritten
<1>3. \A k \in DOMAIN m : r[k] # m[k] =>
         \/ Version(m) = 4 /\ k \in {IpChecksumAt, IpChecksumAt + 1}
         \/ k \in {TransportChecksumAt(m), TransportChecksumAt(m) + 1}
  BY <1>1, CalcWritten
<1>4. DOMAIN m = 1 .. h + 8 + l
  BY MessageBytes
<1>5. Len(r) = h + 8 + l /\ HeaderLength(r) = h /\ Transport(r) = "udp"
  BY <1>1, <1>2 DEF SameHeaders
<1>6. PayloadLength(r) = l
  <2>1. Rest(r) = 8 + l /\ TransportLength(r) = 8
    BY <1>5 DEF Rest, TransportLength
  <2> QED
    BY <1>5, <2>1 DEF PayloadLength
<1>7. ASSUME NEW k \in 1 .. h + 8 + l, Version(b) = 4 => k \notin 11 .. 12, k \notin h + 7 .. h + 8
      PROVE  r[k] = m[k]
  <2>1. k # h + 7 /\ k # h + 7 + 1 /\ (Version(b) = 4 => k # 11 /\ k # 11 + 1)
    BY <1>7
  <2> QED
    BY <1>1, <1>3, <1>4, <2>1 DEF IpChecksumAt
<1> QED
  BY <1>5, <1>6, <1>7

LEMMA ReplyMessage ==
  ASSUME NEW a \in ByteStrings, NEW h \in Nat, NEW l \in Nat, l = Len(a),
         NEW r, Len(r) = h + 8 + l, PayloadLength(r) = l,
         \A k \in 1 .. l : r[h + 8 + k] = a[k]
  PROVE  Payload(r) = a
<1> DEFINE s == SubSeq(r, h + 9, (h + 9) + l - 1)
<1>1. Payload(r) = s
  <2>1. Len(r) - PayloadLength(r) + 1 = h + 9 /\ Len(r) = (h + 9) + l - 1
    OBVIOUS
  <2> QED
    BY <2>1 DEF Payload
<1>2. \A k \in 1 .. l : a[k] \in 0 .. 255
  BY MessageBytes
<1>3. \A k \in h + 9 .. (h + 9) + l - 1 : r[k] \in 0 .. 255
  <2>1. \A k \in h + 9 .. (h + 9) + l - 1 : k - (h + 8) \in 1 .. l /\ h + 8 + (k - (h + 8)) = k
    OBVIOUS
  <2> QED
    BY <1>2, <2>1
<1>4. Piece(s, r, h + 9, l)
  <2>1. h + 9 \in Nat
    OBVIOUS
  <2> QED
    BY <1>3, <2>1, SubSeqIs, Zenon
<1> HIDE DEF s
<1>5. \A k \in 1 .. l : s[k] = a[k]
  <2>1. \A k \in 1 .. l : s[k] = r[(h + 9) + k - 1] /\ (h + 9) + k - 1 = h + 8 + k
    BY <1>4 DEF Piece
  <2> QED
    BY <2>1
<1>6. s = a
  BY <1>4, <1>5, SeqEqual DEF Piece, ByteStrings
<1> QED
  BY <1>1, <1>6

(* What is turned around and sent to the asker. *)
LEMMA AnswersAsker ==
  ASSUME NEW b \in ByteStrings, NEW a, NEW h \in Nat, h >= 20, h + 8 <= Len(b), NEW l \in Nat, NEW m, NEW r,
         NEW i \in Nat, NEW j \in Nat, NEW n \in Nat, NEW at \in Nat, NEW u \in Nat,
         (at = 3 /\ i = 13 /\ j = 17 /\ n = 4) \/ (at = 5 /\ i = 9 /\ j = 25 /\ n = 16),
         j + n <= h + 1,
         TurnedAround(m, b, a, h, l, i, j, n, at, u),
         \A k \in 1 .. h + 6 : (at = 3 => k \notin 11 .. 12) => r[k] = m[k]
  PROVE  /\ Same(r, i, b, j, n) /\ Same(r, j, b, i, n)
         /\ Same(r, h + 1, b, h + 3, 2) /\ Same(r, h + 3, b, h + 1, 2)
         /\ Word(r, at) = Short(u) /\ Word(r, h + 5) = Short(8 + l)
<1>1. Len(b) \in Nat
  BY MessageBytes
<1>2. Same(r, i, b, j, n)
  <2>1. ASSUME NEW k \in i .. i + n - 1 PROVE k \in 1 .. h + 6 /\ (at = 3 => k \notin 11 .. 12)
    OBVIOUS
  <2>2. \A k \in i .. i + n - 1 : r[k] = b[k + j - i]
    BY <2>1 DEF TurnedAround
  <2>3. 1 <= j /\ j + n <= Len(b) + 1
    BY <1>1
  <2> QED
    BY <2>2, <2>3, SamePieces
<1>3. Same(r, j, b, i, n)
  <2>1. ASSUME NEW k \in j .. j + n - 1 PROVE k \in 1 .. h + 6 /\ (at = 3 => k \notin 11 .. 12)
    OBVIOUS
  <2>2. \A k \in j .. j + n - 1 : r[k] = b[k + i - j]
    BY <2>1 DEF TurnedAround
  <2>3. 1 <= i /\ i + n <= Len(b) + 1
    BY <1>1
  <2> QED
    BY <2>2, <2>3, SamePieces
<1>4. Same(r, h + 1, b, h + 3, 2)
  <2>1. \A k \in h + 1 .. (h + 1) + 2 - 1 :
           /\ k \in 1 .. h + 6 /\ k \notin 11 .. 12 /\ k \in h + 1 .. h + 2 /\ k + (h + 3) - (h + 1) = k + 2
    OBVIOUS
  <2>2. \A k \in h + 1 .. (h + 1) + 2 - 1 : r[k] = b[k + (h + 3) - (h + 1)]
    BY <2>1 DEF TurnedAround
  <2>3. h + 1 \in Nat /\ h + 3 \in Nat /\ 2 \in Nat /\ 1 <= h + 3 /\ (h + 3) + 2 <= Len(b) + 1
    BY <1>1
  <2> QED
    BY <2>2, <2>3, SamePieces, Zenon
<1>5. Same(r, h + 3, b, h + 1, 2)
  <2>1. \A k \in h + 3 .. (h + 3) + 2 - 1 :
           /\ k \in 1 .. h + 6 /\ k \notin 11 .. 12 /\ k \in h + 3 .. h + 4 /\ k + (h + 1) - (h + 3) = k - 2
    OBVIOUS
  <2>2. \A k \in h + 3 .. (h + 3) + 2 - 1 : r[k] = b[k + (h + 1) - (h + 3)]
    BY <2>1 DEF TurnedAround
  <2>3. h + 1 \in Nat /\ h + 3 \in Nat /\ 2 \in Nat /\ 1 <= h + 1 /\ (h + 1) + 2 <= Len(b) + 1
    BY <1>1
  <2> QED
    BY <2>2, <2>3, SamePieces, Zenon
<1>6. \A k \in Nat : k + 2 <= h + 6 /\ k \notin 10 .. 11 /\ k # 9 =>
         r[k + 1] = m[k + 1] /\ r[k + 2] = m[k + 2]
  <2>1. \A k \in Nat : k + 2 <= h + 6 /\ k \notin 10 .. 11 /\ k # 9 =>
           /\ k + 1 \in 1 .. h + 6 /\ k + 2 \in 1 .. h + 6
           /\ k + 1 \notin 11 .. 12 /\ k + 2 \notin 11 .. 12
    OBVIOUS
  <2> QED
    BY <2>1
<1>7. Word(r, at) = Short(u)
  <2>1. /\ at - 1 \in Nat /\ (at - 1) + 2 <= h + 6 /\ at - 1 \notin 10 .. 11 /\ at - 1 # 9
        /\ (at - 1) + 1 = at /\ (at - 1) + 2 = at + 1
    OBVIOUS
  <2>2. r[at] = m[at] /\ r[at + 1] = m[at + 1]
    BY <1>6, <2>1
  <2>3. WordAt(m, at - 1) = Short(u)
    BY DEF TurnedAround
  <2> QED
    BY <2>1, <2>2, <2>3 DEF WordAt, Word
<1>8. Word(r, h + 5) = Short(8 + l)
  <2>1. /\ h + 4 \in Nat /\ (h + 4) + 2 <= h + 6 /\ h + 4 \notin 10 .. 11 /\ h + 4 # 9
        /\ (h + 4) + 1 = h + 5 /\ (h + 4) + 2 = (h + 5) + 1
    <3>1. h + 4 \in Nat /\ h + 4 >= 24 /\ (h + 4) + 2 <= h + 6
      OBVIOUS
    <3>2. (h + 4) + 1 = h + 5 /\ (h + 4) + 2 = (h + 5) + 1
      OBVIOUS
    <3>3. h + 4 \notin 10 .. 11 /\ h + 4 # 9
      BY <3>1
    <3> QED
      BY <3>1, <3>2, <3>3
  <2>2. r[h + 5] = m[h + 5] /\ r[(h + 5) + 1] = m[(h + 5) + 1]
    BY <1>6, <2>1
  <2>3. WordAt(m, h + 4) = Short(8 + l)
    BY DEF TurnedAround
  <2> QED
    BY <2>1, <2>2, <2>3 DEF WordAt, Word
<1> QED
  BY <1>2, <1>3, <1>4, <1>5, <1>7, <1>8

LEMMA ShortIs == \A w \in Nat : w < 65536 => Short(w) = w
  BY DEF Short

LEMMA ReplyRight ==
  ASSUME NEW b \in ByteStrings, Readable(b), HeaderLength(b) >= 20, Transport(b) = "udp",
         NEW a \in ByteStrings, NEW r, r = CalcChecksums(SpoofedPacket(b, a), {})
  PROVE  /\ Payload(r) = a
         /\ Len(r) < 65536 => AddressedToAsker(r, b)
<1>1. PICK h \in Nat : h = HeaderLength(b)
  BY Datagram
<1>2. PICK l \in Nat : l = Len(a)
  BY MessageBytes
<1>3. PICK m : m = SpoofedPacket(b, a)
  OBVIOUS
<1>4. h >= 20 /\ h + 8 <= Len(b) /\ Version(b) \in {4, 6} /\ (Version(b) = 6 => h = 40)
  BY <1>1, Datagram
<1>5. /\ Version(b) = 4 => TurnedAround(m, b, a, h, l, 13, 17, 4, 3, h + 8 + l)
      /\ Version(b) = 6 => TurnedAround(m, b, a, h, l, 9, 25, 16, 5, 8 + l)
  BY <1>1, <1>2, <1>3, SpoofedIs
<1>6. /\ m \in ByteStrings /\ Len(m) = h + 8 + l
      /\ m[1] = b[1] /\ m[7] = b[7] /\ (Version(b) = 4 => m[10] = b[10])
      /\ \A k \in 1 .. l : m[h + 8 + k] = a[k]
  BY <1>4, <1>5 DEF TurnedAround
<1>7. /\ Len(r) = h + 8 + l /\ PayloadLength(r) = l
      /\ \A k \in 1 .. h + 8 + l :
            /\ Version(b) = 4 => k \notin 11 .. 12
            /\ k \notin h + 7 .. h + 8
            => r[k] = m[k]
  BY <1>1, <1>3, <1>6, ReplyIs
<1>8. Payload(r) = a
  <2>1. \A k \in 1 .. l : h + 8 + k \in 1 .. h + 8 + l /\ h + 8 + k \notin 11 .. 12 /\ h + 8 + k \notin h + 7 .. h + 8
    BY <1>4
  <2>2. \A k \in 1 .. l : r[h + 8 + k] = a[k]
    BY <1>6, <1>7, <2>1
  <2> QED
    BY <1>2, <1>7, <2>2, ReplyMessage
<1>9. \A k \in 1 .. h + 6 : (Version(b) = 4 => k \notin 11 .. 12) => r[k] = m[k]
  <2>1. \A k \in 1 .. h + 6 : k \in 1 .. h + 8 + l /\ k \notin h + 7 .. h + 8
    OBVIOUS
  <2> QED
    BY <1>7, <2>1
<1>10. ASSUME Version(b) = 4, Len(r) < 65536 PROVE AddressedToAsker(r, b)
  <2>1. /\ Same(r, 13, b, 17, 4) /\ Same(r, 17, b, 13, 4)
        /\ Same(r, h + 1, b, h + 3, 2) /\ Same(r, h + 3, b, h + 1, 2)
        /\ Word(r, 3) = Short(h + 8 + l) /\ Word(r, h + 5) = Short(8 + l)
    <3>1. PICK u \in Nat : u = h + 8 + l
      BY <1>4
    <3>2. 17 + 4 <= h + 1
      BY <1>4
    <3>3. \A k \in 1 .. h + 6 : (3 = 3 => k \notin 11 .. 12) => r[k] = m[k]
      BY <1>9, <1>10
    <3>4. TurnedAround(m, b, a, h, l, 13, 17, 4, 3, u)
      BY <1>5, <1>10, <3>1
    <3> QED
      BY <1>4, <3>1, <3>2, <3>3, <3>4, AnswersAsker
  <2>2. Short(h + 8 + l) = Len(r) /\ Short(8 + l) = Len(r) - h
    BY <1>7, <1>10, ShortIs
  <2> QED
    BY <1>1, <1>10, <2>1, <2>2 DEF AddressedToAsker
<1>11. ASSUME Version(b) = 6, Len(r) < 65536 PROVE AddressedToAsker(r, b)
  <2>1. /\ Same(r, 9, b, 25, 16) /\ Same(r, 25, b, 9, 16)
        /\ Same(r, h + 1, b, h + 3, 2) /\ Same(r, h + 3, b, h + 1, 2)
        /\ Word(r, 5) = Short(8 + l) /\ Word(r, h + 5) = Short(8 + l)
    <3>1. 25 + 16 <= h + 1 /\ 8 + l \in Nat
      BY <1>4, <1>11
    <3> QED
      BY <1>4, <1>5, <1>9, <1>11, <3>1, AnswersAsker
  <2>2. Short(8 + l) = Len(r) - h /\ Short(8 + l) = Len(r) - 40
    BY <1>4, <1>7, <1>11, ShortIs
  <2> QED
    BY <1>1, <1>11, <2>1, <2>2 DEF AddressedToAsker
<1> QED
  BY <1>4, <1>8, <1>10, <1>11

(* What is sent for a query that is answered is what the property says.    *)
IsReply(r, b) ==
    LET d == Payload(b)
        q == ParseDNSQuery(d)
    IN  /\ Len(r) < 65536 => AddressedToAsker(r, b)
        /\ WordAt(d, 4) = 1 /\ q.type # TypeAAAA => AnswersQuestion(Payload(r), d, q)

LEMMA SpoofIsReply ==
  ASSUME NEW b \in Received, Readable(b), Transport(b) = "udp",
         NEW d, d = Payload(b), NEW q, q = ParseDNSQuery(d), q.is = "query"
  PROVE  IsReply(CalcChecksums(SpoofedPacket(b, SpoofedPayload(d, q)), {}), b)
<1>1. b \in ByteStrings /\ HeaderLength(b) >= 20
  BY ReceivedAssumption DEF ByteStrings
<1>2. PICK h \in Nat : h = HeaderLength(b) /\ h + 8 <= Len(b)
  BY <1>1, Datagram
<1>3. PICK l \in Nat : h + 8 + l = Len(b)
  <2>1. Len(b) \in Nat
    BY <1>1, MessageBytes
  <2>2. Len(b) - (h + 8) \in Nat /\ h + 8 + (Len(b) - (h + 8)) = Len(b)
    BY <1>2, <2>1
  <2> QED
    BY <2>2
<1>4. d \in ByteStrings
  <2>1. PayloadLength(b) = l
    <3>1. Rest(b) = 8 + l /\ TransportLength(b) = 8
      BY <1>2, <1>3 DEF Rest, TransportLength
    <3> QED
      BY <3>1 DEF PayloadLength
  <2>2. d = SubSeq(b, h + 9, (h + 9) + l - 1)
    <3>1. Len(b) - PayloadLength(b) + 1 = h + 9 /\ Len(b) = (h + 9) + l - 1
      BY <1>3, <2>1
    <3> QED
      BY <3>1 DEF Payload
  <2>3. \A k \in h + 9 .. (h + 9) + l - 1 : b[k] \in 0 .. 255
    <3>1. \A k \in h + 9 .. (h + 9) + l - 1 : k \in 1 .. Len(b)
      BY <1>3
    <3> QED
      BY <1>1, <3>1, MessageBytes
  <2>4. h + 9 \in Nat
    OBVIOUS
  <2> QED
    BY <2>2, <2>3, <2>4, SubSeqIs DEF Piece
<1>5. PICK a : a = SpoofedPayload(d, q)
  OBVIOUS
<1>6. a \in ByteStrings /\ (q.type # TypeAAAA => AnswersQuestion(a, d, q))
  BY <1>4, <1>5, PayloadAnswers
<1>7. PICK r : r = CalcChecksums(SpoofedPacket(b, a), {})
  OBVIOUS
<1>8. Payload(r) = a /\ (Len(r) < 65536 => AddressedToAsker(r, b))
  BY <1>1, <1>6, <1>7, ReplyRight
<1>9. IsReply(r, b)
  BY <1>6, <1>8 DEF IsReply
<1> QED
  BY <1>5, <1>7, <1>9

-----------------------------------------------------------------------------
(* The sinkhole.  What it handles has been received. *)
SinkInv == (pc = "handle" => packet \in Received) /\ SpoofAnswersQuery

LEMMA SinkInvNext == SinkInv /\ [SinkholeNext]_sinkVars => SinkInv'
<1> SUFFICES ASSUME SinkInv, [SinkholeNext]_sinkVars PROVE SinkInv'
  OBVIOUS
<1>1. CASE RecvPacket
  BY <1>1 DEF RecvPacket, SinkInv, SpoofAnswersQuery
<1>2. CASE Forward
  <2>1. query' = query /\ packet' = packet
    BY <1>2 DEF Forward, query, IsUdp
  <2>2. pc' = "recv" /\ ~(query.is = "query" /\ Blocklisted(query.labels))
    BY <1>2 DEF Forward
  <2>3. ~(query'.is = "query" /\ Blocklisted(query'.labels))
    BY <2>1, <2>2
  <2>4. SpoofAnswersQuery'
    BY <2>3 DEF SpoofAnswersQuery
  <2> QED
    BY <2>2, <2>4 DEF SinkInv
<1>3. CASE Spoof
  <2>1. query' = query /\ packet' = packet
    BY <1>3 DEF Spoof, query, IsUdp
  <2> DEFINE d == Payload(packet)
             r == CalcChecksums(SpoofedPacket(packet, SpoofedPayload(d, query)), {})
  <2>2. IsUdp
    BY <1>3 DEF Spoof, query, NoName
  <2>3. query = ParseDNSQuery(d) /\ query.is = "query"
    BY <1>3, <2>2 DEF Spoof, query
  <2>4. packet \in Received /\ pc' = "recv"
    BY <1>3 DEF Spoof, SinkInv
  <2>5. IsReply(r, packet)
    BY <2>2, <2>3, <2>4, SpoofIsReply DEF IsUdp
  <2>6. reply' \in {<<>>, <<[bytes |-> r, outbound |-> FALSE]>>}
    BY <1>3 DEF Spoof, Sending
  <2> HIDE DEF r
  <2>7. reply' # <<>> => reply'[1].bytes = r /\ ~reply'[1].outbound
    BY <2>6
  <2>8. SpoofAnswersQuery'
    BY <2>1, <2>3, <2>5, <2>7 DEF SpoofAnswersQuery, IsReply
  <2> QED
    BY <2>4, <2>8 DEF SinkInv
<1>4. CASE StackOverflow
  BY <1>4 DEF StackOverflow, SinkInv, SpoofAnswersQuery
<1>5. CASE UNCHANGED sinkVars
  BY <1>5 DEF sinkVars, SinkInv, SpoofAnswersQuery, query, IsUdp
<1> QED
  BY <1>1, <1>2, <1>3, <1>4, <1>5 DEF SinkholeNext

(* To whatever is received, with whatever names on the list: a query that  *)
(* is blocked gets a reply that is one to it.                              *)
THEOREM SinkholeAnswers == ExamplesSpec => []SpoofAnswersQuery
<1>1. ExamplesInit => SinkInv
  BY DEF ExamplesInit, SinkholeInit, SinkholeOff, SinkInv, SpoofAnswersQuery
<1>2. SinkInv /\ [ExamplesNext]_allVars => SinkInv'
  <2>1. [ExamplesNext]_allVars => [SinkholeNext]_sinkVars
    BY DEF ExamplesNext, Shape, Watch, Sink, SetAField, Recalculate, NotShaper, NotMonitor, allVars
  <2> QED
    BY <2>1, SinkInvNext
<1>3. SinkInv => SpoofAnswersQuery
  BY DEF SinkInv
<1> QED
  BY <1>1, <1>2, <1>3, PTL DEF ExamplesSpec
=============================================================================
