---------------------------- MODULE FilterSimplify ----------------------------
(***************************************************************************)
(* The simplification of one test of a filter (compile/flatten.go,         *)
(* SimplifyTest and compare128): a test whose value lies outside of the    *)
(* limits of its field is decided at compile time, and replaced by a test  *)
(* of the header that holds the field.                                     *)
(*                                                                         *)
(* A number is a sign and four words, the least significant first, as      *)
(* types.Filter carries it.  The code only compares numbers, so that its   *)
(* 32-bit words may be narrower here: TLC takes words of 31 bits.          *)
(*                                                                         *)
(* A test is a record of a variable (a field), a kind of comparison and a  *)
(* number.  FilterFlatten calls SimplifyTest for each test of a filter.    *)
(***************************************************************************)
EXTENDS Integers, Sequences

CONSTANTS WordMax,   \* 0xFFFFFFFF
          WordHalf   \* 0x80000000

ASSUME WordAssumption == WordMax \in Nat /\ WordMax >= 1048575 /\ WordHalf \in 1 .. WordMax

Kinds    == {"eq", "neq", "lt", "leq", "gt", "geq"}

(* An IPv4 address as the tokenizer writes it (token.go). *)
ParseIPv4Address(n) == [neg |-> FALSE, word |-> <<0, 0, 65535, n>>]

(* -0 is not among the numbers: the code takes it for less than 0. *)
Numerals ==
    {n \in [neg : BOOLEAN, word : [1 .. 4 -> 0 .. WordMax]] :
        n.neg => \E k \in 1 .. 4 : n.word[k] # 0}

Number(n)   == [neg |-> FALSE, word |-> <<n, 0, 0, 0>>]
Negative(n) == [neg |-> TRUE, word |-> <<n, 0, 0, 0>>]

-----------------------------------------------------------------------------
(* Fields of IPv4, IPv6, ... headers, each with its limits. *)
Bits    == {"inbound", "outbound", "fragment", "ip", "ipv6", "icmp", "icmpv6",
            "tcp", "udp", "ip.DF", "ip.MF", "tcp.Urg", "tcp.Ack", "tcp.Psh",
            "tcp.Rst", "tcp.Syn", "tcp.Fin"}
Nibbles == {"ip.HdrLength", "tcp.HdrLength"}
Bytes   == {"ip.TTL", "ip.Protocol", "ipv6.TrafficClass", "ipv6.NextHdr",
            "ipv6.HopLimit", "icmp.Type", "icmp.Code", "icmpv6.Type", "icmpv6.Code",
            "tcp.Payload", "udp.Payload", "protocol", "packet", "random8"}
Shorts  == {"ip.TOS", "ip.Length", "ip.Id", "ip.Checksum", "ipv6.Length",
            "icmp.Checksum", "icmpv6.Checksum", "tcp.SrcPort", "tcp.DstPort",
            "tcp.Window", "tcp.Checksum", "tcp.UrgPtr", "tcp.PayloadLength",
            "tcp.Payload16", "udp.SrcPort", "udp.DstPort", "udp.Length",
            "udp.Checksum", "udp.PayloadLength", "udp.Payload16",
            "localPort", "remotePort", "packet16", "random16"}
Longs   == {"tcp.Payload32", "udp.Payload32", "ifIdx", "subIfIdx", "random32",
            "processId"}
Addresses == {"ipv6.SrcAddr", "ipv6.DstAddr", "localAddr", "remoteAddr"}

(* The header a folded test asks for; "true" where there is none. *)
Headers ==
    [ip     |-> {"ip.DF", "ip.MF", "ip.HdrLength", "ip.TTL", "ip.Protocol", "ip.FragOff",
                 "ip.TOS", "ip.Length", "ip.Id", "ip.Checksum", "ip.SrcAddr", "ip.DstAddr"},
     ipv6   |-> {"ipv6.TrafficClass", "ipv6.NextHdr", "ipv6.HopLimit", "ipv6.Length",
                 "ipv6.FlowLabel", "ipv6.SrcAddr", "ipv6.DstAddr"},
     icmp   |-> {"icmp.Type", "icmp.Code", "icmp.Checksum"},
     icmpv6 |-> {"icmpv6.Type", "icmpv6.Code", "icmpv6.Checksum"},
     tcp    |-> {"tcp.Urg", "tcp.Ack", "tcp.Psh", "tcp.Rst", "tcp.Syn", "tcp.Fin",
                 "tcp.HdrLength", "tcp.Payload", "tcp.SrcPort", "tcp.DstPort", "tcp.Window",
                 "tcp.Checksum", "tcp.UrgPtr", "tcp.PayloadLength", "tcp.Payload16",
                 "tcp.Payload32"},
     udp    |-> {"udp.Payload", "udp.SrcPort", "udp.DstPort", "udp.Length", "udp.Checksum",
                 "udp.PayloadLength", "udp.Payload16", "udp.Payload32"}]
HeaderOf(v) ==
    IF \E h \in DOMAIN Headers : v \in Headers[h]
    THEN CHOOSE h \in DOMAIN Headers : v \in Headers[h]
    ELSE "true"

Upto(n) == [lb |-> Number(0), ub |-> Number(n)]
Limits(v) ==
    CASE v \in {"zero", "false"} -> Upto(0)
      [] v = "true"        -> [lb |-> Number(1), ub |-> Number(1)]
      [] v = "layer"       -> Upto(4)
      [] v = "event"       -> Upto(9)
      [] v = "priority"    -> [lb |-> Negative(30000), ub |-> Number(30000)]
      [] v \in Bits        -> Upto(1)
      [] v \in Nibbles     -> Upto(15)
      [] v \in Bytes       -> Upto(255)
      [] v = "ip.FragOff"  -> Upto(8191)
      [] v \in Shorts      -> Upto(65535)
      [] v = "ipv6.FlowLabel" -> Upto(1048575)
      [] v = "length"      -> [lb |-> Number(20), ub |-> Number(65575)]
      [] v \in Longs       -> Upto(WordMax)
      [] v \in {"ip.SrcAddr", "ip.DstAddr"} ->
             [lb |-> [neg |-> FALSE, word |-> <<0, 65535, 0, 0>>],
              ub |-> [neg |-> FALSE, word |-> <<WordMax, 65535, 0, 0>>]]
      [] v \in {"endpointId", "parentEndpointId"} ->
             [lb |-> Number(0), ub |-> [neg |-> FALSE, word |-> <<WordMax, WordMax, 0, 0>>]]
      [] v \in Addresses ->
             [lb |-> Number(0),
              ub |-> [neg |-> FALSE, word |-> <<WordMax, WordMax, WordMax, WordMax>>]]
      [] v = "timestamp" ->
             [lb |-> [neg |-> TRUE, word |-> <<0, WordHalf, 0, 0>>],
              ub |-> [neg |-> FALSE, word |-> <<WordMax, WordHalf - 1, 0, 0>>]]

(* The other fields are left alone. *)
Bounded ==
    Bits \cup Nibbles \cup Bytes \cup Shorts \cup Longs \cup Addresses
    \cup {"zero", "false", "true", "layer", "event", "priority", "ip.FragOff",
          "ipv6.FlowLabel", "length", "ip.SrcAddr", "ip.DstAddr", "endpointId",
          "parentEndpointId", "timestamp"}
HasLimits(v) == v \in Bounded
Variables ==
    Bounded \cup {"loopback", "impostor", "icmp.Body", "icmpv6.Body", "tcp.SeqNum",
                 "tcp.AckNum", "packet32"}

(* The sign first, then the words from the most significant one. *)
compare128(a, b) ==
    LET differ == {k \in 1 .. 4 : a.word[k] # b.word[k]}
        high   == CHOOSE k \in differ : \A j \in differ : j <= k
        neg    == IF a.neg THEN -1 ELSE 1
    IN  CASE a.neg /\ ~b.neg -> -1
          [] ~a.neg /\ b.neg -> 1
          [] a.neg = b.neg /\ differ = {} -> 0
          [] OTHER -> IF a.word[high] < b.word[high] THEN -neg ELSE neg

(* Mutant: "less or equal" is decided like "less". *)
DecideLeqAsLt(kind, eq, lo, hi) ==
    CASE kind = "eq"  -> IF lo < 0 \/ hi > 0 THEN "no" ELSE IF eq /\ lo = 0 THEN "yes" ELSE "open"
      [] kind = "neq" -> IF lo < 0 \/ hi > 0 THEN "yes" ELSE IF eq /\ lo = 0 THEN "no" ELSE "open"
      [] kind \in {"lt", "leq"} -> IF hi > 0 THEN "yes" ELSE IF lo <= 0 THEN "no" ELSE "open"
      [] kind = "gt"  -> IF hi >= 0 THEN "no" ELSE IF lo < 0 THEN "yes" ELSE "open"
      [] kind = "geq" -> IF hi > 0 THEN "no" ELSE IF lo <= 0 THEN "yes" ELSE "open"

(* What the value's place among the limits says of the test; eq: the field *)
(* is a constant. *)
Decide(kind, eq, lo, hi) ==
    CASE kind = "eq"  -> IF lo < 0 \/ hi > 0 THEN "no" ELSE IF eq /\ lo = 0 THEN "yes" ELSE "open"
      [] kind = "neq" -> IF lo < 0 \/ hi > 0 THEN "yes" ELSE IF eq /\ lo = 0 THEN "no" ELSE "open"
      [] kind = "lt"  -> IF hi > 0 THEN "yes" ELSE IF lo <= 0 THEN "no" ELSE "open"
      [] kind = "leq" -> IF hi >= 0 THEN "yes" ELSE IF lo < 0 THEN "no" ELSE "open"
      [] kind = "gt"  -> IF hi >= 0 THEN "no" ELSE IF lo < 0 THEN "yes" ELSE "open"
      [] kind = "geq" -> IF hi > 0 THEN "no" ELSE IF lo <= 0 THEN "yes" ELSE "open"

Decision(t) ==
    Decide(t.kind, t.var \in {"zero", "false", "true"},
           compare128(t.val, Limits(t.var).lb), compare128(t.val, Limits(t.var).ub))

SimplifyTest(t) ==
    IF ~HasLimits(t.var) \/ Decision(t) = "open" THEN t
    ELSE [var |-> HeaderOf(t.var), kind |-> "eq",
          val |-> Number(IF Decision(t) = "yes" THEN 1 ELSE 0)]

-----------------------------------------------------------------------------
(* External: an IPv4 address in the fields of a packet: mapped into IPv6's. *)
IPv4(n) == [neg |-> FALSE, word |-> <<n, 65535, 0, 0>>]

(* External: what the driver knows of a packet.  Fields are read from a    *)
(* header that may be absent, and a test of an absent header fails.        *)
(* FieldValues gives extreme and middle values for the width of each field *)
(* in its header (types/ip_headers.go).                                    *)
FieldValues(v) ==
    CASE v \in {"zero", "false"} -> {Number(0)}
      [] v = "true"       -> {Number(1)}
      [] v = "priority"   -> {Negative(30000), Negative(1), Number(0), Number(30000)}
      [] v = "layer"      -> {Number(n) : n \in 0 .. 4}
      [] v = "event"      -> {Number(n) : n \in 0 .. 9}
      [] v \in Bits \cup {"loopback", "impostor"} -> {Number(0), Number(1)}
      [] v \in Nibbles    -> {Number(n) : n \in {0, 5, 15}}
      [] v \in Bytes      -> {Number(n) : n \in {0, 5, 128, 255}}
      [] v = "ip.FragOff" -> {Number(n) : n \in {0, 5, 8191}}
      [] v \in Shorts \cup {"length"} -> {Number(n) : n \in {20, 255, 65535}}
      [] v = "ipv6.FlowLabel" -> {Number(n) : n \in {0, 255, 1048575}}
      [] v \in Longs \cup (Variables \ (Bounded \cup {"loopback", "impostor"})) ->
             {Number(n) : n \in {0, 255, 1048576, WordMax}}
      [] v \in {"ip.SrcAddr", "ip.DstAddr"} ->
             {IPv4(n) : n \in {0, 16909060, WordMax}}
      [] v \in {"endpointId", "parentEndpointId"} ->
             {[neg |-> FALSE, word |-> <<n, m, 0, 0>>] : n \in {0, WordMax}, m \in {0, WordMax}}
      [] v \in Addresses ->
             {[neg |-> FALSE, word |-> <<n, m, 0, m>>] : n \in {0, 1}, m \in {0, 255, WordMax}}
      [] v = "timestamp" ->
             {[neg |-> TRUE, word |-> <<0, WordHalf, 0, 0>>], Negative(1), Number(0),
              [neg |-> FALSE, word |-> <<WordMax, WordHalf - 1, 0, 0>>]}

(* The order of signed numbers. *)
LessWords(a, b) == \E k \in 1 .. 4 : a[k] < b[k] /\ \A j \in k + 1 .. 4 : a[j] = b[j]
Less(a, b) ==
    \/ a.neg /\ ~b.neg
    \/ ~a.neg /\ ~b.neg /\ LessWords(a.word, b.word)
    \/ a.neg /\ b.neg /\ LessWords(b.word, a.word)

Passes(kind, x, val) ==
    CASE kind = "eq"  -> x = val
      [] kind = "neq" -> x # val
      [] kind = "lt"  -> Less(x, val)
      [] kind = "leq" -> x = val \/ Less(x, val)
      [] kind = "gt"  -> Less(val, x)
      [] kind = "geq" -> x = val \/ Less(val, x)

(* A packet is the set of its headers and a number for each field. *)
ValueOf(v, e) ==
    CASE v \in DOMAIN Headers     -> Number(IF v \in e.headers THEN 1 ELSE 0)
      [] v = "true"              -> Number(1)
      [] v \in {"zero", "false"} -> Number(0)
      [] OTHER                   -> e.field[v]

HasHeader(v, e) == HeaderOf(v) \in e.headers \cup {"true"}

Satisfies(t, e) == HasHeader(t.var, e) /\ Passes(t.kind, ValueOf(t.var, e), t.val)

(* What a packet is taken to be for test t: it has the header that the     *)
(* field is in (flatten.go:258 tests the header in its place), and the     *)
(* field holds a number that fits into it. *)
Suits(e, t) ==
    /\ HasHeader(t.var, e)
    /\ ValueOf(t.var, e) \in Numerals
    /\ HasLimits(t.var) => /\ ~Less(ValueOf(t.var, e), Limits(t.var).lb)
                           /\ ~Less(Limits(t.var).ub, ValueOf(t.var, e))
=============================================================================
