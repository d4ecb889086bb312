----------------------------- MODULE DnsSinkhole -----------------------------
(***************************************************************************)
(* examples/dns_sinkhole/main.go: outbound DNS queries are received, and   *)
(* those whose name is on a list of keywords are answered by the program   *)
(* itself.                                                                 *)
(*                                                                         *)
(* A packet is the sequence of its bytes; addr is represented by its       *)
(* direction.  Offsets into a DNS message count from 0, as in the code.    *)
(***************************************************************************)
EXTENDS Packets

CONSTANTS Received,         \* the packets the filter lets through
          Blocklisted(_)    \* of the labels of a name: a keyword is in it

(* A packet has its bytes, and if it is an IPv4 packet the 20 of its header. *)
ASSUME ReceivedAssumption ==
    \A b \in Received : b \in Seq(0 .. 255) /\ (Readable(b) => HeaderLength(b) >= 20)

VARIABLES packet,    \* what was received last
          outbound,  \* addr.Outbound()
          reply,     \* what was sent for it: nothing or one packet and its direction
          pc

sinkVars == <<packet, outbound, reply, pc>>

At(d, i)     == d[i + 1]
WordAt(d, i) == Word(d, i + 1)
Put(d, i, w) == [d EXCEPT ![i + 1] = w \div 256, ![i + 2] = w % 256]
Upto(d, n)   == SubSeq(d, 1, n)

-----------------------------------------------------------------------------
(* parseDNSName: the labels of the name and where it ends.  A pointer      *)
(* starts over at another offset; a name that visits more offsets than     *)
(* there are visits one twice, and the function calls itself until the     *)
(* stack is full. *)
Name(labels, end) == [is |-> "name", labels |-> labels, end |-> end]
NoName  == [is |-> "error"]
Endless == [is |-> "endless"]

(* One turn of the loop: pointed is the name that a pointer at curr leads  *)
(* to, next what follows a label at curr. *)
NameAt(d, curr, pointed, next) ==
    LET length == At(d, curr)
    IN  IF curr >= Len(d) THEN NoName
        ELSE IF length = 0 THEN Name(<<>>, curr + 1)
        ELSE IF length >= 192
        THEN IF curr + 1 >= Len(d) THEN NoName
             ELSE IF pointed.is # "name" THEN pointed
             ELSE Name(pointed.labels, curr + 2)
        ELSE IF curr + 1 + length > Len(d) THEN NoName
        ELSE IF next.is # "name" THEN next
        ELSE Name(<<SubSeq(d, curr + 2, curr + 1 + length)>> \o next.labels, next.end)

Pointer(d, curr)    == WordAt(d, curr) % 16384
AfterLabel(d, curr) == curr + 1 + At(d, curr)

ParseDNSName(d, offset) ==
    LET From[at \in Nat \X Nat] ==
            LET left == at[1]
                curr == at[2]
            IN  IF left = 0 THEN Endless
                ELSE NameAt(d, curr, From[<<left - 1, Pointer(d, curr)>>],
                                     From[<<left - 1, AfterLabel(d, curr)>>])
    IN  From[<<Len(d) + 1, offset>>]

IsQuery(d) == Len(d) >= 12 /\ WordAt(d, 2) < 32768 /\ WordAt(d, 4) # 0

(* parseDNSQuery: the name, the type and the end of the first question. *)
ParseDNSQuery(d) ==
    LET name == ParseDNSName(d, 12)
    IN  IF ~IsQuery(d) THEN NoName
        ELSE IF name.is # "name" THEN name
        ELSE IF name.end + 4 > Len(d) THEN NoName
        ELSE [is |-> "query", labels |-> name.labels, type |-> WordAt(d, name.end), end |-> name.end + 4]

TypeA    == 1
TypeAAAA == 28
Zeros(n) == [k \in 1 .. n |-> 0]

Answer(type, rdlength, rdata) ==
    <<192, 12>> \o <<type \div 256, type % 256>> \o <<0, 1>> \o <<0, 0, 0, 60>>
    \o <<0, rdlength>> \o rdata

(* Mutant: what follows the question in the query is sent back, too. *)
WholeQuestion(d, end) == d

QuestionOf(d, end) == Upto(d, end)

(* buildSpoofedDNSPayload. *)
SpoofedPayload(d, q) ==
    LET head(flags, answers) ==
            Put(Put(Put(Put(QuestionOf(d, q.end), 2, flags), 6, answers), 8, 0), 10, 0)
    IN  CASE q.type = TypeA    -> head(33152, 1) \o Answer(TypeA, 4, <<127, 0, 0, 1>>)
          [] q.type = TypeAAAA -> head(33152, 1) \o Answer(TypeAAAA, 22, Zeros(16))
          [] OTHER             -> head(33155, 0)

-----------------------------------------------------------------------------
Exchange(p, i, j, n) ==
    [k \in DOMAIN p |-> IF k \in i .. i + n - 1 THEN p[k + j - i]
                        ELSE IF k \in j .. j + n - 1 THEN p[k + i - j] ELSE p[k]]

(* htons, and the host's order of a field: the length, of which 16 bits    *)
(* are kept, is in network order. *)
PutLength(p, i, n) == Put(p, i - 1, n % 65536)

(* The addresses and the ports of a packet change places, and its lengths  *)
(* are set; a copy of the headers the query came with. *)
SpoofedPacket(p, payload) ==
    LET n     == HeaderLength(p)
        bytes == Upto(p, n + 8) \o payload
        ip    == IF Version(p) = 4
                 THEN PutLength(Exchange(bytes, 13, 17, 4), 3, Len(bytes))
                 ELSE PutLength(Exchange(bytes, 9, 25, 16), 5, 8 + Len(payload))
    IN  PutLength(Exchange(ip, n + 1, n + 3, 2), n + 5, 8 + Len(payload))

-----------------------------------------------------------------------------
SinkholeInit ==
    /\ packet = <<>> /\ outbound = TRUE /\ reply = <<>>
    /\ pc = "recv"

RecvPacket ==
    /\ pc = "recv"
    /\ packet' \in Received /\ outbound' = TRUE /\ reply' = <<>>
    /\ pc' = "handle"

IsUdp == Readable(packet) /\ Transport(packet) = "udp" /\ PayloadLength(packet) > 0

query == IF IsUdp THEN ParseDNSQuery(Payload(packet)) ELSE NoName

(* Send: one packet and its direction, unless it fails. *)
Sending(bytes, out) == reply' \in {<<>>, <<[bytes |-> bytes, outbound |-> out]>>}

(* What is no query, or is not on the list, is sent on as it came. *)
Forward ==
    /\ pc = "handle"
    /\ query.is = "error" \/ (query.is = "query" /\ ~Blocklisted(query.labels))
    /\ Sending(packet, outbound)
    /\ pc' = "recv"
    /\ UNCHANGED <<packet, outbound>>

Spoof ==
    /\ pc = "handle"
    /\ query.is = "query" /\ Blocklisted(query.labels)
    /\ outbound' = FALSE
    /\ LET payload == SpoofedPayload(Payload(packet), query)
       IN  Sending(CalcChecksums(SpoofedPacket(packet, payload), {}), FALSE)
    /\ pc' = "recv"
    /\ UNCHANGED packet

(* Pointers that lead back to where they came from. *)
StackOverflow ==
    /\ pc = "handle" /\ query.is = "endless"
    /\ pc' = "crashed"
    /\ UNCHANGED <<packet, outbound, reply>>

SinkholeNext == RecvPacket \/ Forward \/ Spoof \/ StackOverflow

SinkholeSpec == SinkholeInit /\ [][SinkholeNext]_sinkVars

-----------------------------------------------------------------------------
Same(p, i, q, j, n) == SubSeq(p, i, i + n - 1) = SubSeq(q, j, j + n - 1)

(* The reply goes to who asked, from whom he asked, and its lengths are    *)
(* what they say. *)
AddressedToAsker(r, p) ==
    LET n == HeaderLength(p)
    IN  /\ IF Version(p) = 4
           THEN /\ Same(r, 13, p, 17, 4) /\ Same(r, 17, p, 13, 4)
                /\ Word(r, 3) = Len(r)
           ELSE /\ Same(r, 9, p, 25, 16) /\ Same(r, 25, p, 9, 16)
                /\ Word(r, 5) = Len(r) - 40
        /\ Same(r, n + 1, p, n + 3, 2) /\ Same(r, n + 3, p, n + 1, 2)
        /\ Word(r, n + 5) = Len(r) - n

(* A message of the question that was asked and the answers it counts: it  *)
(* ends where its last record ends. *)
AnswersQuestion(a, d, q) ==
    LET rdata == q.end + 12
    IN  /\ Same(a, 1, d, 1, 2) /\ WordAt(a, 2) >= 32768
        /\ Same(a, 13, d, 13, q.end - 12)
        /\ WordAt(a, 8) = 0 /\ WordAt(a, 10) = 0
        /\ IF WordAt(a, 6) = 0 THEN Len(a) = q.end
           ELSE /\ WordAt(a, 6) = 1
                /\ WordAt(a, q.end) = 49152 + 12 /\ WordAt(a, q.end + 2) = q.type
                /\ Len(a) = rdata + WordAt(a, rdata - 2)

(* A blocked query does not leave the machine, and the asker gets a reply  *)
(* that is one to his query (main.go:228-276).  Two kinds of query are     *)
(* left out that get a malformed reply: of more than one question (the     *)
(* count of questions is copied, one question is), and of type AAAA (the   *)
(* length of the answer is 22, for 16 bytes); and a reply that is longer   *)
(* than its length field counts.                                           *)
SpoofAnswersQuery ==
    pc = "recv" /\ reply # <<>> /\ query.is = "query" /\ Blocklisted(query.labels) =>
        LET r == reply[1].bytes
            d == Payload(packet)
        IN  /\ ~reply[1].outbound
            /\ Len(r) < 65536 => AddressedToAsker(r, packet)
            /\ WordAt(d, 4) = 1 /\ query.type # TypeAAAA => AnswersQuestion(Payload(r), d, query)
=============================================================================
