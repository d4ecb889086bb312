--------------------------- MODULE MCFilterFlatten ---------------------------
(***************************************************************************)
(* Instances of FilterFlatten for TLC: all expressions of small depth over *)
(* three tests, and single tests of every field, compared with numbers at  *)
(* and next to the limits of all fields.                                   *)
(***************************************************************************)
EXTENDS FilterFlatten, FiniteSetsExt

Leaves  == {Test("inbound", "eq", Number(1)), Test("loopback", "neq", Number(0)),
            Test("ip.TTL", "lt", Number(64))}
EitherOf(S, T)           == [op : {"and", "or"}, arg : S \X T]
Conditional(C, S, T) == [op : {"if"}, arg : C \X S \X T]

(* Two levels, the arguments of the second level's "?" being tests. *)
OneLevel  == Leaves \cup EitherOf(Leaves, Leaves) \cup Conditional(Leaves, Leaves, Leaves)
TwoLevels == OneLevel \cup EitherOf(OneLevel, OneLevel)
                      \cup Conditional(OneLevel, Leaves, Leaves)
                      \cup Conditional(Leaves, OneLevel, Leaves)
                      \cup Conditional(Leaves, Leaves, OneLevel)

RECURSIVE HeightOf(_)
HeightOf(x) ==
    IF x.op = "test" THEN 0 ELSE 1 + Max({HeightOf(y) : y \in Parts(x)})

-----------------------------------------------------------------------------
Edges == {0, 1, 2, 4, 9, 15, 16, 19, 20, 255, 256, 8191, 8192, 30000, 65535, 65536, 65575,
          1048575, 1048576, WordMax}
Words4(a, b, c, d) == [neg |-> FALSE, word |-> <<a, b, c, d>>]
Numbers ==
    {Number(n) : n \in Edges} \cup {Negative(n) : n \in {1, 30000, 30001}}
    \cup {IPv4(n) : n \in {0, 16909060, WordMax}}
    \cup {Words4(0, 65536, 0, 0), Words4(1, WordMax, 0, 0), Words4(5, 0, 1, 0),
          Words4(0, WordHalf, 0, 0), Words4(WordMax, WordHalf - 1, 0, 0),
          Words4(WordMax, WordMax, WordMax, WordMax), Words4(1, 255, 0, 255),
          [neg |-> TRUE, word |-> <<0, WordHalf, 0, 0>>],
          [neg |-> TRUE, word |-> <<1, WordHalf, 0, 0>>]}

SingleTests == [op : {"test"}, test : [var : Variables, kind : Kinds, val : Numbers]]

AllExprs == TwoLevels \cup SingleTests

(* Packets with every header but for those whose absence is itself tested. *)
AllHeaders == DOMAIN Headers
Fields     == {"inbound", "loopback", "ip.TTL"}
WithField(v, n) ==
    [headers |-> IF v \in AllHeaders /\ n = Number(0) THEN AllHeaders \ {v} ELSE AllHeaders,
     field   |-> [f \in {v} |-> n]]
FullPackets == {[headers |-> AllHeaders, field |-> f] :
                   f \in {g \in [Fields -> UNION {FieldValues(v) : v \in Fields}] :
                             \A v \in Fields : g[v] \in FieldValues(v)}}
Complete(x) ==
    IF x.op = "test" THEN {WithField(x.test.var, n) : n \in FieldValues(x.test.var)}
                     ELSE FullPackets

(* With tests that are decided at compile time. *)
Small         == Leaves \cup {Test("true", "eq", Number(1)), Test("false", "neq", Number(0))}
Conjunctions  == {And(x, y) : x \in Small, y \in Small}
WithConstants == Small \cup Conjunctions \cup {Or(x, y) : x \in Conjunctions, y \in Small}

(* Tests of an address as they come from the tokenizer. *)
AddressTests == {Test(v, "eq", ParseIPv4Address(n)) :
                    v \in {"ip.SrcAddr", "ip.DstAddr"}, n \in {0, 16909060, WordMax}}
=============================================================================
