--------------------------- MODULE MCFilterAnalyze ---------------------------
(***************************************************************************)
(* Instances of FilterAnalyze for TLC: all programs of one or two          *)
(* instructions over the listed tests, with every kind of jump: accept,    *)
(* reject, forward, to itself and backward.                                *)
(***************************************************************************)
EXTENDS FilterAnalyze

Test(f, t, v, w) == [field |-> f, test |-> t, arg |-> v, wide |-> w]
Code(tests, targets) ==
    {[field |-> t.field, test |-> t.test, arg |-> t.arg, wide |-> t.wide,
      succ |-> s, fail |-> n] : t \in tests, s \in targets, n \in targets}
OfLength(n, tests, targets) ==
    {[length |-> n, code |-> c] : c \in [0 .. n - 1 -> Code(tests, targets)]}

Targets == {Accept, Reject, 0, 1}

FieldTests == {Test("inbound", "eq", 1, FALSE), Test("inbound", "neq", 1, FALSE),
               Test("outbound", "eq", 1, FALSE), Test("ip", "gt", 0, FALSE),
               Test("ipv6", "eq", 1, TRUE), Test("zero", "unknown", 0, FALSE),
               Test("other", "eq", 5, FALSE)}
FieldPrograms == UNION {OfLength(n, FieldTests, Targets) : n \in 0 .. 2}

EventTests == {Test("event", t, v, FALSE) : t \in {"eq", "lt", "geq"}, v \in {2, 4}}
                 \cup {Test("event", "leq", 6, FALSE), Test("other", "eq", 5, FALSE)}
EventPrograms == OfLength(2, EventTests, {Accept, Reject, 1})

(* Packets and events as the driver reports them: one direction, one IP    *)
(* version, the event of the layer. *)
Seen(in, v4, ev, o) ==
    [f \in Fields |-> CASE f = "zero" -> 0
                        [] f = "inbound"  -> in     [] f = "outbound" -> 1 - in
                        [] f = "ip"       -> v4     [] f = "ipv6"     -> 1 - v4
                        [] f = "event"    -> ev     [] f = "other"    -> o]
NetworkPackets == {Seen(in, v4, 0, o) : in \in {0, 1}, v4 \in {0, 1}, o \in {0, 5}}
Events         == {Seen(1, 1, ev, o) : ev \in 1 .. 7, o \in {0, 5}}

AllPrograms == FieldPrograms \cup EventPrograms
AllPackets  == NetworkPackets \cup Events
AllLayers   == {"network", "flow", "socket", "reflect"}
=============================================================================
