------------------------------ MODULE TokenScan ------------------------------
(***************************************************************************)
(* The scanner of the filter compiler: TokenizeFilter with                 *)
(* scanConditionToken, scanNumber and expandMacro (compile/token.go), the  *)
(* fields that the keywords name and the layers where each is valid        *)
(* (compile/types.go ToField, compile/flatten.go ValidateField).           *)
(*                                                                         *)
(* A text is a sequence of atoms: the punctuation characters, a blank, the *)
(* letters that have a meaning in numbers ("0", "8", "b", "x"), and, as    *)
(* one atom each, keywords, a dotted IPv4 address ("ip4"), a letter of no  *)
(* word ("z") and a character of no token ("#").                           *)
(***************************************************************************)
EXTENDS Integers, Sequences, FiniteSets, SequencesExt

CONSTANTS Inputs,    \* texts, each with a layer it is scanned for
          tokensMax, \* the argument of TokenizeFilter
          wordMax,   \* tokenMaxLen (limit.go), counted in atoms
          digitsMax  \* the digits that fit into 32 bits, without leading zeros

ASSUME ScanLimits == wordMax \in Nat /\ wordMax > 2

-----------------------------------------------------------------------------
(* The variables of a filter by the layers where they are valid; those     *)
(* that are not listed are the fields of a packet. *)
AllLayers == {"network", "forward", "flow", "socket", "reflect"}

FieldLayers(name) ==
    CASE name \in {"zero", "event", "timestamp"} -> AllLayers
      [] name \in {"ip", "ipv6", "icmp", "tcp", "udp", "icmpv6"} -> AllLayers \ {"reflect"}
      [] name \in {"inbound", "outbound", "loopback", "localAddr", "remoteAddr",
                   "localPort", "remotePort", "protocol"} -> {"network", "flow", "socket"}
      [] name = "processId" -> {"flow", "socket", "reflect"}
      [] name \in {"endpointId", "parentEndpointId"} -> {"flow", "socket"}
      [] name \in {"layer", "priority"} -> {"reflect"}
      [] OTHER -> {"network", "forward"}

Events(layer) ==
    CASE layer \in {"network", "forward"} -> [PACKET |-> 0]
      [] layer = "flow"    -> [ESTABLISHED |-> 1, DELETED |-> 2]
      [] layer = "socket"  -> [BIND |-> 3, CONNECT |-> 4, LISTEN |-> 5, ACCEPT |-> 6, CLOSE |-> 7]
      [] layer = "reflect" -> [OPEN |-> 8, CLOSE |-> 9]

Everywhere ==
    [NETWORK |-> 0, NETWORK_FORWARD |-> 1, FLOW |-> 2, SOCKET |-> 3, REFLECT |-> 4,
     TRUE |-> 1, FALSE |-> 0, TCP |-> 6, UDP |-> 17, ICMP |-> 1, ICMPV6 |-> 58]

Macros(layer) ==
    [m \in DOMAIN Events(layer) \cup DOMAIN Everywhere |->
        IF m \in DOMAIN Events(layer) THEN Events(layer)[m] ELSE Everywhere[m]]

EventNames == UNION {DOMAIN Events(l) : l \in AllLayers}

(* Keywords that are no variables. *)
Operators == {"and", "or", "not", "true", "false"}

IsField(name) == name \notin Operators \cup EventNames \cup DOMAIN Macros("network")

(* One variable of each group stands for the group. *)
Keywords ==
    {"zero", "tcp", "inbound", "processId", "endpointId", "layer", "ip.TTL"}
    \cup Operators \cup EventNames \cup DOMAIN Macros("network")

WordAtoms == {"0", "8", "b", "x", ":", "z", "ip4"} \cup Keywords

Atoms ==
    WordAtoms \cup {"(", ")", "[", "]", "-", "?", "!", "=", "<", ">", "&", "|", " ", "#"}

ASSUME InputsAssumption == Inputs \subseteq [text : Seq(Atoms), layer : AllLayers]

Digit == [a \in {"0", "8", "b"} |-> CASE a = "0" -> 0 [] a = "8" -> 8 [] a = "b" -> 11]
ParseUint(word, base) == FoldLeft(LAMBDA n, a : base * n + Digit[a], 0, word)

(* A number whose digits are among these and not too many. *)
IsNumeral(word, digits) ==
    /\ word # <<>> /\ ToSet(word) \subseteq digits
    /\ \A k \in DOMAIN word : word[k] # "0" => Len(word) - k < digitsMax

IsDecimal(word) == IsNumeral(word, {"0", "8"})
IsHex(word) ==
    /\ IsPrefix(<<"0", "x">>, word)
    /\ IsNumeral(SubSeq(word, 3, Len(word)), DOMAIN Digit)

(* net.ParseIP: eight groups of hexadecimal digits with colons in between, *)
(* two of them for groups that are left out. *)
IsIPv6(word) ==
    LET colons  == {k \in DOMAIN word : word[k] = ":"}
        doubles == {k \in colons : k + 1 \in colons}
        groups  == {k \in DOMAIN word \ colons : k = 1 \/ k - 1 \in colons}
    IN  /\ ToSet(word) \subseteq {"0", "8", "b", ":"}
        /\ \/ doubles = {} /\ Cardinality(groups) = 8
           \/ Cardinality(doubles) = 1 /\ Cardinality(groups) <= 7
        /\ 1 \in colons => 1 \in doubles
        /\ Len(word) \in colons => Len(word) - 1 \in doubles
        /\ \A k \in groups : \E j \in k .. k + 4 : j \in colons \cup {Len(word) + 1}

IsAddress(word) == word = <<"ip4">> \/ IsIPv6(word)

-----------------------------------------------------------------------------
VARIABLES text, layer,  \* the arguments
          read,         \* the number of atoms that have been read
          tokens,       \* kind, value and Pos of each
          err,
          scanning

scanVars == <<text, layer, read, tokens, err, scanning>>

(* The atom after i others; none after the end. *)
Atom(i) == IF i < Len(text) THEN text[i + 1] ELSE "end"

Token(kind, val, n) == [kind |-> kind, val |-> val, n |-> n]

(* One character, or two if another one follows. *)
Either(i, kind, other, kind2) ==
    IF Atom(i + 1) = other THEN Token(kind2, 0, 2) ELSE Token(kind, 0, 1)

(* Two characters or nothing. *)
Doubled(i, other, kind) == IF Atom(i + 1) = other THEN Token(kind, 0, 2) ELSE Token("bad", 0, 0)

NoToken == Token("none", 0, 0)

(* scanConditionToken: the token at i and its length.  Two colons begin an *)
(* address. *)
ConditionToken(i) ==
    CASE Atom(i) \in {"(", ")", "[", "]", "-", "?"} -> Token(Atom(i), 0, 1)
      [] Atom(i) = "!" -> Either(i, "not", "=", "neq")
      [] Atom(i) = "=" -> Either(i, "eq", "=", "eq")
      [] Atom(i) = "<" -> Either(i, "lt", "=", "leq")
      [] Atom(i) = ">" -> Either(i, "gt", "=", "geq")
      [] Atom(i) = "&" -> Doubled(i, "&", "and")
      [] Atom(i) = "|" -> Doubled(i, "|", "or")
      [] Atom(i) = ":" -> IF Atom(i + 1) = ":" THEN NoToken ELSE Token(":", 0, 1)
      [] OTHER -> NoToken

(* The longest beginning of s that is made of atoms of A. *)
Span(s, A) ==
    LET end == CHOOSE e \in 0 .. Len(s) :
                   /\ \A k \in 1 .. e : s[k] \in A
                   /\ e < Len(s) => s[e + 1] \notin A
    IN  SubSeq(s, 1, end)

(* The characters of a word from i on. *)
WordRun(i) == Span(SubSeq(text, i + 1, Len(text)), WordAtoms)

(* Mutant: of two colons at the end the last is taken off, too. *)
ColonAlwaysTrails(run) == Last(run) = ":"

(* A colon at the end belongs to a conditional expression, if it is one    *)
(* alone. *)
ColonTrails(run) == Last(run) = ":" /\ (Len(run) = 1 \/ run[Len(run) - 1] # ":")

(* A keyword: a number at the layers that know it as one, a variable at    *)
(* those where it is valid. *)
Symbol(name) ==
    IF name \in DOMAIN Macros(layer) THEN Token("num", Macros(layer)[name], 1)
    ELSE IF IsField(name) /\ layer \notin FieldLayers(name) THEN Token("bad", 0, 0)
    ELSE Token(name, 0, 1)

(* "8b": the number; the "b" is left for the next token. *)
NumberOfBytes(word) == Token("num", ParseUint(Front(word), 10), Len(word) - 1)

(* scanNumber: the word in a run, and the token that it begins with. *)
WordOf(run) == IF ColonTrails(run) THEN Front(run) ELSE run

Judged(word) ==
    IF Len(word) = 1 /\ word[1] \in Keywords THEN Symbol(word[1])
    ELSE IF word = <<"b">> THEN Token("bytes", 0, 1)
    ELSE IF Last(word) = "b" /\ IsDecimal(Front(word)) THEN NumberOfBytes(word)
    ELSE IF IsDecimal(word) THEN Token("num", ParseUint(word, 10), Len(word))
    ELSE IF IsHex(word) THEN Token("num", ParseUint(SubSeq(word, 3, Len(word)), 16), Len(word))
    ELSE IF IsAddress(word) THEN Token("address", word, Len(word))
    ELSE Token("bad", 0, 0)

WordToken(i) ==
    LET run == WordRun(i)
    IN  IF run = <<>> \/ Len(run) >= wordMax THEN Token("bad", 0, 0) ELSE Judged(WordOf(run))

(* A condition token, and a word where there is none. *)
TokenAt(i) == IF ConditionToken(i).kind = "none" THEN WordToken(i) ELSE ConditionToken(i)

-----------------------------------------------------------------------------
ScanInit ==
    /\ \E in \in Inputs : text = in.text /\ layer = in.layer
    /\ read = 0 /\ tokens = <<>>
    /\ err = "none" /\ scanning = "scan"

Add(kind, val) == tokens' = Append(tokens, [kind |-> kind, val |-> val, pos |-> read])

Turn == scanning = "scan" /\ Len(tokens) < tokensMax - 1

TooManyTokens ==
    /\ scanning = "scan" /\ Len(tokens) >= tokensMax - 1
    /\ err' = "too long" /\ scanning' = "done"
    /\ UNCHANGED <<text, layer, read, tokens>>

SkipSpace ==
    /\ Turn /\ Atom(read) = " "
    /\ read' = read + 1
    /\ UNCHANGED <<text, layer, tokens, err, scanning>>

Finish ==
    /\ Turn /\ Atom(read) = "end"
    /\ Add("end", 0) /\ scanning' = "done"
    /\ UNCHANGED <<text, layer, read, err>>

ScanToken ==
    /\ Turn /\ Atom(read) \notin {" ", "end"}
    /\ LET t == TokenAt(read)
       IN  IF t.kind = "bad"
           THEN err' = "bad token" /\ scanning' = "done" /\ UNCHANGED <<read, tokens>>
           ELSE Add(t.kind, t.val) /\ read' = read + t.n /\ UNCHANGED <<err, scanning>>
    /\ UNCHANGED <<text, layer>>

ScanNext == TooManyTokens \/ SkipSpace \/ Finish \/ ScanToken

ScanSpec == ScanInit /\ [][ScanNext]_scanVars

-----------------------------------------------------------------------------
(* How the tokens are written: those with a spelling of their own, and the *)
(* words, which are spelled as they are called. *)
Spelling ==
    [eq |-> {<<"=">>, <<"=", "=">>}, neq |-> {<<"!", "=">>},
     lt |-> {<<"<">>}, leq |-> {<<"<", "=">>}, gt |-> {<<">">>}, geq |-> {<<">", "=">>},
     not |-> {<<"!">>, <<"not">>}, and |-> {<<"&", "&">>, <<"and">>}, or |-> {<<"|", "|">>, <<"or">>},
     bytes |-> {<<"b">>}]

Names ==
    {n \in Keywords : IsField(n) => layer \in FieldLayers(n)}
    \cup {"(", ")", "[", "]", "-", "?", ":"}

Spells(w, t) ==
    CASE t.kind = "num" -> \/ IsDecimal(w) /\ t.val = ParseUint(w, 10)
                           \/ IsHex(w) /\ t.val = ParseUint(SubSeq(w, 3, Len(w)), 16)
                           \/ \E m \in DOMAIN Macros(layer) : w = <<m>> /\ t.val = Macros(layer)[m]
      [] t.kind = "address" -> IsAddress(w)
      [] t.kind \in DOMAIN Spelling -> w \in Spelling[t.kind]
      [] OTHER -> w = <<t.kind>> /\ t.kind \in Names

IsToken(w) ==
    /\ Len(w) < wordMax
    /\ \/ IsDecimal(w) \/ IsHex(w) \/ IsAddress(w)
       \/ \E n \in Names : w = <<n>>
       \/ \E k \in DOMAIN Spelling : w \in Spelling[k]

(* The text from a token to the next one, and up to the first blank. *)
PartEnd(k) == IF k < Len(tokens) THEN tokens[k + 1].pos ELSE read
Part(k)    == SubSeq(text, tokens[k].pos + 1, PartEnd(k))
Piece(k)   == Span(Part(k), Atoms \ {" "})

Touch(k) == Part(k) = Piece(k) /\ Piece(k + 1) # <<>>

(* The atoms lo .. hi stand between two blanks. *)
IsChunk(lo, hi) ==
    /\ lo <= hi /\ \A k \in lo .. hi : text[k] # " "
    /\ \A k \in {lo - 1, hi + 1} \cap DOMAIN text : text[k] = " "

(* Every character of a filter belongs to one token, which is what its     *)
(* characters spell, and no two tokens that touch could be one longer      *)
(* token; a filter with a blank between its tokens is never refused        *)
(* (token.go:143-247, the colon and the "b" that are put back).            *)
ScannedAsWritten ==
    /\ \A k \in DOMAIN tokens :
           tokens[k].kind # "end" =>
               /\ Spells(Piece(k), tokens[k])
               /\ \A j \in DOMAIN Part(k) : j > Len(Piece(k)) => Part(k)[j] = " "
    /\ tokens # <<>> => \A k \in 1 .. tokens[1].pos : text[k] = " "
    /\ \A k \in 1 .. Len(tokens) - 1 : Touch(k) => ~IsToken(Piece(k) \o Piece(k + 1))
    /\ err = "bad token" =>
           \E lo, hi \in DOMAIN text : IsChunk(lo, hi) /\ ~IsToken(SubSeq(text, lo, hi))
=============================================================================
