------------------------------ MODULE BitFields ------------------------------
(***************************************************************************)
(* The bit fields of the structures that lie over the driver's bytes       *)
(* (types/ip_headers.go, types/types.go Address.Flags): several fields     *)
(* share a word, and each has a getter and a setter of shifts and masks.   *)
(*                                                                         *)
(* A word is the set of its bits that are 1.  The words are read in the    *)
(* byte order of the machine, which is little endian wherever Windows      *)
(* runs: bit 8 is the first bit of the second byte.                        *)
(***************************************************************************)
EXTENDS Integers, Sequences, FiniteSets

(* The bits of a field in its word, the lowest of the value first, and the *)
(* bits of the word that its setter keeps. *)
Field(bits, kept) == [bits |-> bits, kept |-> kept]
Flag(b)           == Field(<<b>>, (0 .. 31) \ {b})

FragOffWord ==
    [FragOff  |-> Field(<<8, 9, 10, 11, 12, 13, 14, 15, 0, 1, 2, 3, 4>>, 5 .. 7),
     MF       |-> Flag(5),
     DF       |-> Flag(6),
     Reserved |-> Flag(7)]

(* TVFT, and FlowLabel1 above it. *)
TrafficWord ==
    [TrafficClass |-> Field(<<12, 13, 14, 15, 0, 1, 2, 3>>, (4 .. 11) \cup (16 .. 31)),
     FlowLabel    |-> Field([k \in 1 .. 20 |-> IF k <= 16 THEN 15 + k ELSE k - 9],
                            (0 .. 7) \cup (12 .. 15)),
     Version      |-> Field(<<4, 5, 6, 7>>, (0 .. 3) \cup (8 .. 31))]

(* TCPHdr.R1HdrLengthFlagsR2. *)
TcpWord ==
    [HdrLength |-> Field(<<12, 13, 14, 15>>, (0 .. 11) \cup (16 .. 31)),
     Fin |-> Flag(0), Syn |-> Flag(1), Rst |-> Flag(2),
     Psh |-> Flag(3), Ack |-> Flag(4), Urg |-> Flag(5)]

AddressFlags ==
    [Sniffed |-> Flag(0), Outbound |-> Flag(1), Loopback |-> Flag(2), Impostor |-> Flag(3),
     IPv6 |-> Flag(4), IPChecksum |-> Flag(5), TCPChecksum |-> Flag(6), UDPChecksum |-> Flag(7)]

Structures == {FragOffWord, TrafficWord, TcpWord, AddressFlags}

(* A value is the set of the numbers of its bits, the lowest is 1. *)
ValueBits(f) == DOMAIN f.bits

Get(w, f) == {k \in ValueBits(f) : f.bits[k] \in w}

(* Mutant: the bits that were set are not cleared first. *)
SetOnly(w, f, v) == w \cup {f.bits[k] : k \in v}

Set(w, f, v) == (w \cap f.kept) \cup {f.bits[k] : k \in v}

-----------------------------------------------------------------------------
VARIABLES structure, \* one of Structures
          word,      \* the bits that are set
          meant      \* what each field should be: what was last set

fieldVars == <<structure, word, meant>>

(* No bit, all bits, every second one, and each alone. *)
Values(f) == {{}, ValueBits(f), {k \in ValueBits(f) : k % 2 = 0}} \cup {{k} : k \in ValueBits(f)}

FieldsInit ==
    /\ structure \in Structures
    /\ word = {}
    /\ meant = [n \in DOMAIN structure |-> {}]

SetField(n, v) ==
    /\ word' = Set(word, structure[n], v)
    /\ meant' = [meant EXCEPT ![n] = v]
    /\ UNCHANGED structure

FieldsNext == \E n \in DOMAIN structure : \E v \in Values(structure[n]) : SetField(n, v)

FieldsSpec == FieldsInit /\ [][FieldsNext]_fieldVars

-----------------------------------------------------------------------------
(* Fields that share a word do not disturb each other: whatever setters    *)
(* are called in whatever order, each getter returns what its own setter   *)
(* was given last (ip_headers.go:23-200, types.go:113-177).                *)
FieldsApart == \A n \in DOMAIN structure : Get(word, structure[n]) = meant[n]
=============================================================================
