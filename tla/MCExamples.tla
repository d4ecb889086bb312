----------------------------- MODULE MCExamples -----------------------------
(***************************************************************************)
(* What the example programs receive: DNS messages, TCP and UDP packets.   *)
(***************************************************************************)
EXTENDS Examples

(* DNS messages.  The names: the root, two that are not blocked and two    *)
(* that are ("a" is the keyword), one that ends in a pointer, and broken   *)
(* ones, two of them without end.  The questions: A, TXT and AAAA.         *)
Names ==
    {<<0>>, <<1, 98, 0>>, <<1, 97, 0>>, <<1, 98, 1, 97, 0>>, <<1, 97, 192, 2>>, <<192, 12>>,
     <<1, 98, 192, 12>>, <<192, 17>>, <<1, 97, 192, 200>>, <<2, 97>>, <<1, 97, 192>>}

HasKeyword(labels) == \E j \in DOMAIN labels : labels[j] = <<97>>

Questions == {n \o <<0, t, 0, 1>> : n \in Names, t \in {1, 16, 28}}
Messages ==
    {<<7, 9>> \o f \o <<0, n>> \o <<0, 0, 0, 0, 0, 1>> \o q \o end :
        f \in {<<1, 0>>, <<129, 128>>}, n \in 0 .. 2, q \in Questions, end \in {<<>>, <<0, 0, 41>>}}
    \cup {<<>>, <<7, 9>>, <<7, 9, 1, 0, 0, 1, 0, 0, 0, 0, 0, 0>>}

Udp(m) == <<192, 1, 0, 53, 0, (8 + Len(m)), 3, 4>> \o m

(* Without and with a word of options. *)
IPv4(protocol, segment, options) ==
    LET n == 20 + Len(options)
    IN  <<64 + n \div 4, 0, 0, n + Len(segment), 0, 1, 64, 0, 128, protocol, 17, 34,
          192, 168, 1, 2, 9, 9, 9, 9>> \o options \o segment
IPv6(protocol, segment) ==
    <<96, 0, 0, 0, 0, Len(segment), protocol, 64>>
    \o [k \in 1 .. 16 |-> k] \o [k \in 1 .. 16 |-> 200 + k] \o segment

Queries ==
    {IPv4(17, Udp(m), <<>>) : m \in Messages} \cup {IPv6(17, Udp(m)) : m \in Messages}
    \cup {IPv4(17, Udp(<<7, 9, 1, 0, 0, 1, 0, 0, 0, 0, 0, 0>> \o q), <<1, 1, 1, 1>>) : q \in Questions}
    \cup {IPv6(0, Udp(<<7, 9>>)), <<>>, <<64, 0>>}

(* TCP segments with headers of 20 and 24 bytes, one that is longer than   *)
(* the segment, and odd lengths; the sums carry over once and twice.       *)
Tcp(offset, flags, n) ==
    <<0, 80, 31, 64, 0, 0, 0, 1, 0, 0, 0, 2, 16 * offset, flags, 255, 255, 170, 85, 0, 0>>
    \o [k \in 1 .. n |-> 255]
TcpSegments == {Tcp(o, f, n) : o \in {5, 6}, f \in {2, 16, 82, 194}, n \in {0, 3, 4, 13}}
OtherSegments ==
    {Udp(<<>>), Udp(<<255, 255, 1>>), Udp([k \in 1 .. 20 |-> 255]), <<8, 0, 0, 0, 1, 2, 3, 4>>, <<>>}
SomeSegments ==
    {IPv4(6, s, o) : s \in TcpSegments, o \in {<<>>, <<1, 1, 1, 1>>}}
    \cup {IPv4(n, s, <<>>) : n \in {1, 6, 17}, s \in OtherSegments}
    \cup {IPv6(6, s) : s \in TcpSegments} \cup {IPv6(n, s) : n \in {17, 58}, s \in OtherSegments}
    \cup {<<>>, [k \in 1 .. 20 |-> 16], [k \in 1 .. 20 |-> 79]}
=============================================================================
