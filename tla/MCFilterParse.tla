---------------------------- MODULE MCFilterParse ----------------------------
(***************************************************************************)
(* Instances of FilterGrammar for TLC.                                     *)
(***************************************************************************)
EXTENDS FilterGrammar

Structure == {Word("var"), Word("and"), Word("or"), Word("("), Word(")")}
Choice    == {Word("var"), Word("("), Word(")"), Word("?"), Word(":")}
Compared  == {Word("var"), Word("not"), Word("eq"), Word("lt"), Word("minus"), Num(1)}

(* Anything that may be written with some words, up to a length. *)
Soup(t, words, n) == Len(t) <= n /\ \A k \in DOMAIN t : t[k] \in words

Beginnings(S) == UNION {{SubSeq(t, 1, k) : k \in 0 .. Len(t)} : t \in S}

(* Indices at the ends of the ranges, in elements and in bytes. *)
Indices    == {0, 1, 3, 4, 16382, 16383, 16384, 65531, 65532, 65535, 65536, 65576}
Indexed(a) == Beginnings({<<Word(a), Word("[")>> \o m \o <<Num(n)>> \o b \o <<Word("]")>> \o c :
                          m \in {<<>>, <<Word("minus")>>}, b \in {<<>>, <<Word("bytes")>>},
                          c \in {<<Word("lt"), Num(1)>>, <<Num(1)>>}, n \in Indices})
Inverted   == Beginnings({<<Word("not"), Word("var"), Word(k), Num(1)>> : k \in Comparisons})

Wide32     == Indexed("packet32")
ArrayWords == {Word(a) : a \in Arrays}
              \cup {Word(k) : k \in {"[", "]", "minus", "bytes", "lt"}}
              \cup {Num(n) : n \in Indices}
CompareWords == {Word(k) : k \in Comparisons}

LongTexts    == Inverted \cup Wide32

AllWords == Structure \cup Choice \cup Compared \cup ArrayWords \cup CompareWords
=============================================================================
