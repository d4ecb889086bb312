----------------------------- MODULE MCTokenScan -----------------------------
(***************************************************************************)
(* Texts for TokenScan: all short ones over the characters of numbers and  *)
(* addresses, of comparisons, of conditional expressions; full addresses,  *)
(* too long numbers and lists; and every keyword at every layer.           *)
(***************************************************************************)
EXTENDS TokenScan

TextsOf(A, n)   == UNION {[1 .. k -> A] : k \in 0 .. n}
Repeat(a, n) == [k \in 1 .. n |-> a]
Groups(n)    == [k \in 1 .. 2 * n - 1 |-> IF k % 2 = 1 THEN "8" ELSE ":"]

NetworkTexts ==
    TextsOf({"0", "8", "b", "x", ":", " "}, 5)
    \cup TextsOf({"!", "=", "<", ">", "&", "|", " ", "8", ":"}, 3)
    \cup TextsOf({"tcp", ":", "?", "(", "b", "8", " "}, 4)
    \cup {Groups(n) \o c : n \in 7 .. 9, c \in {<<>>, <<":">>, <<":", ":">>}}
    \cup {Repeat(a, n) : a \in {"0", "8", "(", "-"}, n \in 1 .. 11}

Singles == {<<w>> : w \in WordAtoms \cup {"#"}}

AllInputs ==
    {[text |-> t, layer |-> "network"] : t \in NetworkTexts}
    \cup {[text |-> w \o c, layer |-> l] : w \in Singles, c \in {<<>>, <<":">>}, l \in AllLayers}
=============================================================================
