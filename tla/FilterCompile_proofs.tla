------------------------- MODULE FilterCompile_proofs -------------------------
(***************************************************************************)
(* The filter compiler for all tables, words, texts, filters and limits:   *)
(* the binary search (TableSearch), the simplification of a test           *)
(* (FilterSimplify), the code generator (FilterFlatten), whose program is  *)
(* shown to say what the expression says, the scanner (TokenScan), whose   *)
(* tokens are shown to be what is written, and the parser (FilterParse),   *)
(* which is shown to stay inside the text and to be deep enough.           *)
(***************************************************************************)
EXTENDS TableSearch, TokenScan, FilterParse, FilterFlatten, Recursion,
        FiniteSetTheorems, SequenceTheorems, TLAPS

-----------------------------------------------------------------------------
(* The binary search, for tables of any length: what is looked for is      *)
(* between lo and hi, if it is in the table at all.                        *)

Ascending(t) == \A i, j \in 1 .. Len(t) : i < j => t[i] < t[j]

Typed ==
    /\ table \in Seq(Int) /\ Ascending(table)
    /\ key \in Int
    /\ TypeOK

(* The loop invariant. *)
Narrowed ==
    /\ \A i \in 0 .. Len(table) - 1 : At(i) = key => lo <= i /\ i <= hi
    /\ found # -1 => pc = "done" /\ At(found) = key
    /\ pc = "done" /\ found = -1 => lo > hi

SearchInv == Typed /\ Narrowed

(* The middle of what is left is an entry of it. *)
LEMMA Middle == ASSUME NEW l \in Nat, NEW h \in Int, l <= h
                PROVE  (l + h) \div 2 \in Int /\ l <= (l + h) \div 2 /\ (l + h) \div 2 <= h
  OBVIOUS

LEMMA SearchInitHolds == Init => SearchInv
<1> SUFFICES ASSUME Init PROVE SearchInv
  OBVIOUS
<1>1. table \in Seq(Int) /\ Ascending(table)
  BY TablesAssumption DEF Init, Ascending
<1> QED
  BY <1>1, KeysAssumption DEF Init, SearchInv, Typed, Narrowed, TypeOK, At

LEMMA SearchStepHolds == SearchInv /\ [Next]_vars => SearchInv'
<1> SUFFICES ASSUME SearchInv, [Next]_vars PROVE SearchInv'
  OBVIOUS
<1> USE DEF SearchInv, Typed, Narrowed, TypeOK, mid, At
<1>1. CASE Right
  <2>1. mid \in Int /\ lo <= mid /\ mid <= hi
    BY <1>1, Middle DEF Right
  <2>2. \A i \in 0 .. Len(table) - 1 : At(i) = key => mid + 1 <= i
    BY <1>1, <2>1 DEF Right, Ascending
  <2> QED
    BY <1>1, <2>1, <2>2 DEF Right
<1>2. CASE Left
  <2>1. mid \in Int /\ lo <= mid /\ mid <= hi
    BY <1>2, Middle DEF Left
  <2>2. \A i \in 0 .. Len(table) - 1 : At(i) = key => i <= mid - 1
    BY <1>2, <2>1 DEF Left, Ascending
  <2> QED
    BY <1>2, <2>1, <2>2 DEF Left
<1>3. CASE Return
  <2>1. CASE lo <= hi
    <3>1. mid \in Int /\ lo <= mid /\ mid <= hi
      BY <2>1, Middle
    <3> QED
      BY <1>3, <2>1, <3>1 DEF Return
  <2>2. CASE lo > hi
    BY <1>3, <2>2 DEF Return
  <2> QED
    BY <2>1, <2>2
<1>4. CASE UNCHANGED vars
  BY <1>4 DEF vars
<1> QED
  BY <1>1, <1>2, <1>3, <1>4 DEF Next

(* For every ascending table and every key: the entry that is returned is  *)
(* the one that was asked for, and none is returned only when there is     *)
(* none.  No keyword and no variable of a filter is missed.                *)
THEOREM SearchAlwaysExact == Spec => []SearchIsExact
<1>1. SearchInv => SearchIsExact
  BY DEF SearchInv, Typed, Narrowed, TypeOK, SearchIsExact, At
<1> QED
  BY <1>1, SearchInitHolds, SearchStepHolds, PTL DEF Spec

(* The search never looks outside of the table.                            *)
THEOREM StaysInTable == Spec => []TypeOK
<1>1. SearchInv => TypeOK
  BY DEF SearchInv, Typed
<1> QED
  BY <1>1, SearchInitHolds, SearchStepHolds, PTL DEF Spec

(* What keeps the loop from running for ever: every turn that goes on      *)
(* leaves less to search than there was.                                   *)
THEOREM LoopShrinks == SearchInv /\ Next /\ pc' = "loop" => hi' - lo' < hi - lo
<1> SUFFICES ASSUME SearchInv, Next, pc' = "loop" PROVE hi' - lo' < hi - lo
  OBVIOUS
<1>1. CASE Right
  BY <1>1, Middle DEF Right, SearchInv, Typed, TypeOK, mid
<1>2. CASE Left
  BY <1>2, Middle DEF Left, SearchInv, Typed, TypeOK, mid
<1>3. CASE Return
  BY <1>3 DEF Return
<1> QED
  BY <1>1, <1>2, <1>3 DEF Next

-----------------------------------------------------------------------------
(* Numbers: LessWords and Less are strict orders, and compare128 is the    *)
(* second one. All limits are numbers.                                     *)

FourWords == [1 .. 4 -> 0 .. WordMax]

LEMMA WordMaxIs == WordMax \in Nat
  BY WordAssumption

(* What a word-by-word comparison amounts to. *)
LEMMA LessWordsIs ==
  ASSUME NEW a \in FourWords, NEW b \in FourWords
  PROVE  LessWords(a, b) <=>
            \/ a[4] < b[4]
            \/ a[4] = b[4] /\ a[3] < b[3]
            \/ a[4] = b[4] /\ a[3] = b[3] /\ a[2] < b[2]
            \/ a[4] = b[4] /\ a[3] = b[3] /\ a[2] = b[2] /\ a[1] < b[1]
<1>1. \A k \in 1 .. 4 : k = 1 \/ k = 2 \/ k = 3 \/ k = 4
  OBVIOUS
<1>2. 2 .. 4 = {2, 3, 4} /\ 3 .. 4 = {3, 4} /\ 4 .. 4 = {4} /\ 5 .. 4 = {}
  OBVIOUS
<1>3. 1 .. 4 = {1, 2, 3, 4} /\ 1 + 1 = 2 /\ 2 + 1 = 3 /\ 3 + 1 = 4 /\ 4 + 1 = 5
  OBVIOUS
<1> QED
  BY <1>2, <1>3, SMTT(30) DEF LessWords

LEMMA SameWords ==
  ASSUME NEW a \in FourWords, NEW b \in FourWords
  PROVE  a = b <=> a[1] = b[1] /\ a[2] = b[2] /\ a[3] = b[3] /\ a[4] = b[4]
<1>1. ASSUME a[1] = b[1], a[2] = b[2], a[3] = b[3], a[4] = b[4] PROVE a = b
  <2>1. \A k \in 1 .. 4 : a[k] = b[k]
    <3>1. \A k \in 1 .. 4 : k = 1 \/ k = 2 \/ k = 3 \/ k = 4
      OBVIOUS
    <3> QED
      BY <1>1, <3>1
  <2> QED
    BY <2>1 DEF FourWords
<1> QED
  BY <1>1

LEMMA NumeralIs ==
  ASSUME NEW a \in Numerals
  PROVE  /\ a.neg \in BOOLEAN /\ a.word \in FourWords /\ a = [neg |-> a.neg, word |-> a.word]
         /\ \A k \in 1 .. 4 : a.word[k] \in Nat
  BY WordMaxIs DEF Numerals, FourWords

LEMMA WordsOrdered ==
  ASSUME NEW a \in FourWords, NEW b \in FourWords, NEW c \in FourWords
  PROVE  /\ ~LessWords(a, a)
         /\ LessWords(a, b) => ~LessWords(b, a)
         /\ LessWords(a, b) \/ LessWords(b, a) \/ a = b
         /\ LessWords(a, b) /\ LessWords(b, c) => LessWords(a, c)
<1>1. \A k \in 1 .. 4 : a[k] \in Int /\ b[k] \in Int /\ c[k] \in Int
  BY WordMaxIs DEF FourWords
<1>2. a[1] \in Int /\ a[2] \in Int /\ a[3] \in Int /\ a[4] \in Int
  BY <1>1
<1>3. b[1] \in Int /\ b[2] \in Int /\ b[3] \in Int /\ b[4] \in Int
  BY <1>1
<1>4. c[1] \in Int /\ c[2] \in Int /\ c[3] \in Int /\ c[4] \in Int
  BY <1>1
<1> QED
  BY <1>2, <1>3, <1>4, LessWordsIs, SameWords

LEMMA Ordered ==
  ASSUME NEW a \in Numerals, NEW b \in Numerals, NEW c \in Numerals
  PROVE  /\ ~Less(a, a)
         /\ Less(a, b) => ~Less(b, a)
         /\ Less(a, b) \/ Less(b, a) \/ a = b
         /\ Less(a, b) /\ Less(b, c) => Less(a, c)
<1>1. a.neg \in BOOLEAN /\ b.neg \in BOOLEAN /\ c.neg \in BOOLEAN
  BY NumeralIs
<1>2. a.word \in FourWords /\ b.word \in FourWords /\ c.word \in FourWords
  BY NumeralIs
<1>3. a.neg = b.neg /\ a.word = b.word => a = b
  BY NumeralIs
<1> QED
  BY <1>1, <1>2, <1>3, WordsOrdered DEF Less

(* compare128 is the order. *)
LEMMA CompareIs ==
  ASSUME NEW a \in Numerals, NEW b \in Numerals
  PROVE  LET c == compare128(a, b)
         IN  \/ c = -1 /\ Less(a, b)
             \/ c = 0 /\ a = b
             \/ c = 1 /\ Less(b, a)
<1> DEFINE differ == {k \in 1 .. 4 : a.word[k] # b.word[k]}
           high   == CHOOSE k \in differ : \A j \in differ : j <= k
           neg    == IF a.neg THEN -1 ELSE 1
<1>1. /\ a.neg \in BOOLEAN /\ b.neg \in BOOLEAN /\ a.word \in FourWords /\ b.word \in FourWords
      /\ a.neg = b.neg /\ a.word = b.word => a = b
  BY NumeralIs
<1>2. compare128(a, b) = CASE a.neg /\ ~b.neg -> -1
          [] ~a.neg /\ b.neg -> 1
          [] a.neg = b.neg /\ differ = {} -> 0
          [] OTHER -> IF a.word[high] < b.word[high] THEN -neg ELSE neg
  BY DEF compare128
<1>3. CASE a.neg # b.neg
  BY <1>1, <1>2, <1>3 DEF Less
<1>4. CASE a.neg = b.neg /\ differ = {}
  <2>1. \A k \in 1 .. 4 : a.word[k] = b.word[k]
    BY <1>4
  <2>2. a.word = b.word
    BY <1>1, <2>1, SameWords
  <2> HIDE DEF differ, high, neg
  <2> QED
    BY <1>1, <1>2, <1>4, <2>2
<1>5. CASE a.neg = b.neg /\ differ # {}
  <2>1. \E k \in differ : \A j \in differ : j <= k
    <3>1. 1 \in differ \/ 2 \in differ \/ 3 \in differ \/ 4 \in differ
      BY <1>5
    <3> QED
      BY <3>1
  <2>2. high \in 1 .. 4 /\ a.word[high] # b.word[high] /\ \A j \in differ : j <= high
    BY <2>1
  <2> HIDE DEF high
  <2>3. \A j \in 1 .. 4 : j > high => a.word[j] = b.word[j]
    BY <2>2
  <2>4. a.word[high] \in Int /\ b.word[high] \in Int
    BY <1>1, <2>2, WordMaxIs DEF FourWords
  <2>5. IF a.word[high] < b.word[high] THEN LessWords(a.word, b.word) ELSE LessWords(b.word, a.word)
    <3>1. \A j \in high + 1 .. 4 : a.word[j] = b.word[j]
      BY <2>2, <2>3
    <3> QED
      BY <2>2, <2>4, <3>1 DEF LessWords
  <2>6. compare128(a, b) = IF a.word[high] < b.word[high] THEN -neg ELSE neg
    <3> HIDE DEF differ, neg
    <3> QED
      BY <1>1, <1>2, <1>5
  <2> HIDE DEF differ
  <2>7. CASE a.neg
    <3>1. neg = -1
      BY <2>7
    <3>a. b.neg
      BY <1>5, <2>7
    <3>2. /\ LessWords(a.word, b.word) => Less(b, a)
          /\ LessWords(b.word, a.word) => Less(a, b)
      BY <2>7, <3>a DEF Less
    <3> HIDE DEF neg
    <3>3. compare128(a, b) = IF a.word[high] < b.word[high] THEN 1 ELSE 0 - 1
      BY <2>6, <3>1
    <3> QED
      BY <2>5, <3>2, <3>3
  <2>8. CASE ~a.neg
    <3>1. neg = 1 /\ ~b.neg
      BY <1>1, <1>5, <2>8
    <3>2. /\ LessWords(a.word, b.word) => Less(a, b)
          /\ LessWords(b.word, a.word) => Less(b, a)
      BY <2>8, <3>1 DEF Less
    <3> HIDE DEF neg
    <3>3. compare128(a, b) = IF a.word[high] < b.word[high] THEN 0 - 1 ELSE 1
      BY <2>6, <3>1
    <3> QED
      BY <2>5, <3>2, <3>3
  <2> QED
    BY <1>1, <2>7, <2>8
<1> QED
  BY <1>3, <1>4, <1>5

Plain(a, b, c, d) == [neg |-> FALSE, word |-> <<a, b, c, d>>]

LEMMA PlainIs ==
  ASSUME NEW a \in 0 .. WordMax, NEW b \in 0 .. WordMax, NEW c \in 0 .. WordMax,
         NEW d \in 0 .. WordMax
  PROVE  Plain(a, b, c, d) \in Numerals
<1>1. <<a, b, c, d>> \in FourWords
  BY DEF FourWords
<1> QED
  BY <1>1 DEF Plain, Numerals, FourWords

LEMMA NegatedIs ==
  ASSUME NEW a \in 0 .. WordMax, NEW b \in 0 .. WordMax, a # 0 \/ b # 0
  PROVE  [neg |-> TRUE, word |-> <<a, b, 0, 0>>] \in Numerals
<1>1. <<a, b, 0, 0>> \in FourWords
  BY WordMaxIs DEF FourWords
<1>2. <<a, b, 0, 0>>[1] # 0 \/ <<a, b, 0, 0>>[2] # 0
  OBVIOUS
<1> QED
  BY <1>1, <1>2 DEF Numerals, FourWords

LEMMA LimitsAre ==
  ASSUME NEW v, HasLimits(v)
  PROVE  Limits(v).lb \in Numerals /\ Limits(v).ub \in Numerals
<1> DEFINE Good(l) == l.lb \in Numerals /\ l.ub \in Numerals
           In(n)   == n \in 0 .. WordMax
           Low     == [neg |-> TRUE, word |-> <<0, WordHalf, 0, 0>>]
<1>1. /\ In(0) /\ In(1) /\ In(4) /\ In(9) /\ In(15) /\ In(20) /\ In(255) /\ In(8191)
      /\ In(30000) /\ In(65535) /\ In(65575) /\ In(1048575) /\ In(WordMax)
      /\ In(WordHalf - 1) /\ In(WordHalf) /\ WordHalf # 0
  BY WordAssumption, SMT
<1>2. \A a, b, c, d : In(a) /\ In(b) /\ In(c) /\ In(d) => Plain(a, b, c, d) \in Numerals
  BY PlainIs
<1> HIDE DEF In
<1>3. \A n : In(n) => Number(n) \in Numerals
  BY <1>1, <1>2 DEF Plain, Number
<1>4. ASSUME NEW n, In(n) PROVE Good(Upto(n))
  BY <1>1, <1>3, <1>4 DEF Upto
<1>5. Negative(30000) \in Numerals
  BY <1>1, NegatedIs DEF In, Negative
<1>6. Low \in Numerals
  BY <1>1, NegatedIs DEF In
<1>7. \A lb \in Numerals, ub \in Numerals : Good([lb |-> lb, ub |-> ub])
  OBVIOUS
<1> HIDE DEF Good, Low
<1>8. /\ Plain(0, 65535, 0, 0) \in Numerals /\ Plain(WordMax, 65535, 0, 0) \in Numerals
      /\ Plain(WordMax, WordMax, 0, 0) \in Numerals
      /\ Plain(WordMax, WordMax, WordMax, WordMax) \in Numerals
      /\ Plain(WordMax, WordHalf - 1, 0, 0) \in Numerals
  BY <1>1, <1>2
<1>9. /\ Number(0) \in Numerals /\ Number(1) \in Numerals /\ Number(20) \in Numerals
      /\ Number(30000) \in Numerals /\ Number(65575) \in Numerals
  BY <1>1, <1>3
<1>10. /\ Good([lb |-> Number(1), ub |-> Number(1)])
       /\ Good([lb |-> Negative(30000), ub |-> Number(30000)])
       /\ Good([lb |-> Number(20), ub |-> Number(65575)])
  BY <1>5, <1>7, <1>9
<1>11. /\ Good([lb |-> Plain(0, 65535, 0, 0), ub |-> Plain(WordMax, 65535, 0, 0)])
       /\ Good([lb |-> Number(0), ub |-> Plain(WordMax, WordMax, 0, 0)])
       /\ Good([lb |-> Number(0), ub |-> Plain(WordMax, WordMax, WordMax, WordMax)])
       /\ Good([lb |-> Low, ub |-> Plain(WordMax, WordHalf - 1, 0, 0)])
  BY <1>6, <1>7, <1>8, <1>9
<1>12. /\ Good(Upto(0)) /\ Good(Upto(1)) /\ Good(Upto(4)) /\ Good(Upto(9)) /\ Good(Upto(15))
       /\ Good(Upto(255)) /\ Good(Upto(8191)) /\ Good(Upto(65535)) /\ Good(Upto(1048575))
       /\ Good(Upto(WordMax))
  BY <1>1, <1>4
<1>13. Good(Limits(v))
  BY <1>10, <1>11, <1>12, SMTT(60) DEF Limits, HasLimits, Bounded, Plain, Low
<1> QED
  BY <1>13 DEF Good

-----------------------------------------------------------------------------
(* One test: what SimplifyTest decides.                                    *)

(* What is decided about a number between two limits is so. *)
LEMMA DecisionIs ==
  ASSUME NEW t \in Tests, HasLimits(t.var), NEW x \in Numerals,
         ~Less(x, Limits(t.var).lb), ~Less(Limits(t.var).ub, x)
  PROVE  /\ Decision(t) \in {"yes", "no", "open"}
         /\ Decision(t) = "yes" => Passes(t.kind, x, t.val)
         /\ Decision(t) = "no" => ~Passes(t.kind, x, t.val)
<1> DEFINE kind == t.kind
           val  == t.val
           lb   == Limits(t.var).lb
           ub   == Limits(t.var).ub
           low   == compare128(val, lb)
           high   == compare128(val, ub)
<1>a. kind \in Kinds /\ val \in Numerals /\ lb \in Numerals /\ ub \in Numerals
  BY LimitsAre DEF Tests
<1>b. t.var \in {"zero", "false", "true"} => lb = ub
  <2>1. Limits("zero") = Upto(0) /\ Limits("false") = Upto(0)
    BY DEF Limits, Bits, Nibbles, Bytes, Shorts, Longs, Addresses
  <2>2. Limits("true") = [lb |-> Number(1), ub |-> Number(1)]
    BY DEF Limits, Bits, Nibbles, Bytes, Shorts, Longs, Addresses
  <2> QED
    BY <2>1, <2>2 DEF Upto
<1>c. Decision(t) = Decide(kind, t.var \in {"zero", "false", "true"}, low, high)
  BY DEF Decision
<1>d. ~Less(x, lb) /\ ~Less(ub, x)
  OBVIOUS
<1> HIDE DEF lb, ub, kind, val
<1>1. /\ low \in {-1, 0, 1} /\ high \in {-1, 0, 1}
      /\ low < 0 <=> Less(val, lb)
      /\ low = 0 <=> val = lb
      /\ low > 0 <=> Less(lb, val)
      /\ high < 0 <=> Less(val, ub)
      /\ high = 0 <=> val = ub
      /\ high > 0 <=> Less(ub, val)
  BY <1>a, CompareIs, Ordered
<1>2. /\ ~Less(val, val) /\ ~Less(x, x)
      /\ Less(x, val) => ~Less(val, x)
      /\ x = lb \/ Less(lb, x)
      /\ x = ub \/ Less(x, ub)
      /\ lb = ub => x = lb
      /\ x = val \/ Less(x, val) \/ Less(val, x)
  BY <1>a, <1>d, Ordered
<1>3. /\ Less(val, lb) => Less(val, x)
      /\ Less(ub, val) => Less(x, val)
  BY <1>a, <1>2, Ordered
<1> HIDE DEF low, high
<1>4. low \in Int /\ high \in Int
  BY <1>1
<1> DEFINE Holds(r) == /\ r \in {"yes", "no", "open"}
                       /\ r = "yes" => Passes(kind, x, val)
                       /\ r = "no" => ~Passes(kind, x, val)
<1>5. ASSUME kind = "eq" PROVE Holds(Decision(t))
  BY <1>b, <1>c, <1>1, <1>2, <1>3, <1>4, <1>5 DEF Decide, Passes
<1>6. ASSUME kind = "neq" PROVE Holds(Decision(t))
  BY <1>b, <1>c, <1>1, <1>2, <1>3, <1>4, <1>6 DEF Decide, Passes
<1>7. ASSUME kind = "lt" PROVE Holds(Decision(t))
  BY <1>b, <1>c, <1>1, <1>2, <1>3, <1>4, <1>7 DEF Decide, Passes
<1>8. ASSUME kind = "leq" PROVE Holds(Decision(t))
  BY <1>b, <1>c, <1>1, <1>2, <1>3, <1>4, <1>8 DEF Decide, Passes
<1>9. ASSUME kind = "gt" PROVE Holds(Decision(t))
  BY <1>b, <1>c, <1>1, <1>2, <1>3, <1>4, <1>9 DEF Decide, Passes
<1>10. ASSUME kind = "geq" PROVE Holds(Decision(t))
  BY <1>b, <1>c, <1>1, <1>2, <1>3, <1>4, <1>10 DEF Decide, Passes
<1>11. Holds(Decision(t))
  BY <1>a, <1>5, <1>6, <1>7, <1>8, <1>9, <1>10 DEF Kinds
<1> QED
  BY <1>11 DEF kind, val

LEMMA HeaderIs ==
  ASSUME NEW v
  PROVE  HeaderOf(v) \in DOMAIN Headers \cup {"true"}
  BY DEF HeaderOf

LEMMA HeaderInNone ==
  ASSUME NEW h \in DOMAIN Headers \cup {"true"} PROVE HeaderOf(h) = "true"
<1>1. \A g \in DOMAIN Headers : h \notin Headers[g]
  BY DEF Headers
<1> QED
  BY <1>1 DEF HeaderOf

LEMMA SimplifyTyped == \A t \in Tests : SimplifyTest(t) \in Tests
<1> SUFFICES ASSUME NEW t \in Tests PROVE SimplifyTest(t) \in Tests
  OBVIOUS
<1>1. HeaderOf(t.var) \in Variables
  <2>1. DOMAIN Headers = {"ip", "ipv6", "icmp", "icmpv6", "tcp", "udp"}
    BY DEF Headers
  <2>2. DOMAIN Headers \cup {"true"} \subseteq Variables
    BY <2>1 DEF Variables, Bounded, Bits
  <2> QED
    BY <2>2, HeaderIs
<1>2. Number(0) \in Numerals /\ Number(1) \in Numerals
  BY PlainIs, WordAssumption DEF Plain, Number
<1> QED
  BY <1>1, <1>2 DEF SimplifyTest, Tests, Kinds

(* SimplifyTest (flatten.go:250) never changes what a test says, whatever  *)
(* its field, comparison and number, of a packet that has the header and   *)
(* holds a number that fits into the field.                                *)
THEOREM SimplifyKeeps ==
  ASSUME NEW t \in Tests, NEW e, Suits(e, t)
  PROVE  Satisfies(SimplifyTest(t), e) <=> Satisfies(t, e)
<1>1. CASE ~HasLimits(t.var) \/ Decision(t) = "open"
  BY <1>1 DEF SimplifyTest
<1>2. CASE HasLimits(t.var) /\ Decision(t) # "open"
  <2> DEFINE v == t.var
             n == IF Decision(t) = "yes" THEN 1 ELSE 0
             k == [var |-> HeaderOf(v), kind |-> "eq", val |-> Number(n)]
  <2>1. SimplifyTest(t) = k
    BY <1>2 DEF SimplifyTest
  <2>3. HasHeader(v, e) /\ ValueOf(v, e) \in Numerals
    BY DEF Suits
  <2>4. ~Less(ValueOf(v, e), Limits(v).lb) /\ ~Less(Limits(v).ub, ValueOf(v, e))
    BY <1>2 DEF Suits
  <2>7. /\ Decision(t) \in {"yes", "no"}
        /\ Satisfies(t, e) <=> Decision(t) = "yes"
    <3>2. Satisfies(t, e) <=> Passes(t.kind, ValueOf(v, e), t.val)
      BY <2>3 DEF Satisfies, v
    <3>4. /\ Decision(t) \in {"yes", "no", "open"}
          /\ Decision(t) = "yes" => Passes(t.kind, ValueOf(v, e), t.val)
          /\ Decision(t) = "no" => ~Passes(t.kind, ValueOf(v, e), t.val)
      BY <1>2, <2>3, <2>4, DecisionIs
    <3> QED
      BY <1>2, <3>2, <3>4
  <2>8. Satisfies(k, e) <=> n = 1
    <3> DEFINE h == HeaderOf(v)
    <3>1. h \in DOMAIN Headers \cup {"true"} /\ HasHeader(h, e)
      BY HeaderIs, HeaderInNone DEF HasHeader
    <3>2. ValueOf(h, e) = Number(1)
      <4>1. {"true", "zero", "false"} \cap DOMAIN Headers = {}
        BY DEF Headers
      <4>2. h = "true" \/ (h \in DOMAIN Headers /\ h \in e.headers)
        BY <2>3, <3>1, <4>1 DEF HasHeader
      <4> HIDE DEF h
      <4> QED
        BY <4>1, <4>2 DEF ValueOf
    <3>3. Number(1) = Number(n) <=> n = 1
      <4>1. <<1, 0, 0, 0>>[1] = 1 /\ <<n, 0, 0, 0>>[1] = n
        OBVIOUS
      <4> QED
        BY <4>1 DEF Number
    <3> QED
      BY <3>1, <3>2, <3>3 DEF Satisfies, Passes
  <2> QED
    BY <2>1, <2>7, <2>8
<1> QED
  BY <1>1, <1>2

-----------------------------------------------------------------------------
(* FlattenParts, operation by operation, and FlattenExpr as the function   *)
(* that obeys it. (FlattenExpr is what CHOOSE finds: that there is a       *)
(* function to find is RecursiveFunctionExists.)                           *)

LEMMA PartsAre ==
  ASSUME NEW x \in Exprs
  PROVE  /\ x.op \in {"test", "and", "or", "if"} /\ Height(x) \in Nat
         /\ x.op = "test" => x.test \in Tests
         /\ x.op \in {"and", "or", "if"} =>
               /\ x.arg[1] \in Exprs /\ Height(x.arg[1]) < Height(x)
               /\ x.arg[2] \in Exprs /\ Height(x.arg[2]) < Height(x)
         /\ x.op = "if" => x.arg[3] \in Exprs /\ Height(x.arg[3]) < Height(x)
<1>1. /\ x.op \in {"test", "and", "or", "if"} /\ Height(x) \in Nat
      /\ x.op = "test" => x.test \in Tests
      /\ \A y \in Parts(x) : y \in Exprs /\ Height(y) < Height(x)
  BY ExprsAssumption
<1>2. x.op \in {"and", "or"} => Parts(x) = {x.arg[1], x.arg[2]}
  BY DEF Parts
<1>3. x.op = "if" => Parts(x) = {x.arg[1], x.arg[2], x.arg[3]}
  BY DEF Parts
<1> QED
  BY <1>1, <1>2, <1>3

LEMMA StateIs ==
  ASSUME NEW s \in FlattenState
  PROVE  /\ s.stack \in Seq(Labelled) /\ Len(s.stack) \in Nat /\ s.label \in Nat /\ s.ip \in Int
         /\ s = [stack |-> s.stack, label |-> s.label, ip |-> s.ip]
  BY DEF FlattenState

LEMMA TooLongTyped ==
  ASSUME NEW s \in FlattenState
  PROVE  TooLong(s) \in FlattenState /\ TooLong(s).ip = -1 /\ TooLong(s).label = s.label
<1> DEFINE z == [stack |-> <<>>, label |-> s.label, ip |-> -1]
<1>1. TooLong(s) = [[s EXCEPT !.stack = <<>>] EXCEPT !.ip = -1]
  BY DEF TooLong
<1>2. s = [stack |-> s.stack, label |-> s.label, ip |-> s.ip]
  BY StateIs
<1>3. [s EXCEPT !.stack = <<>>] = [stack |-> <<>>, label |-> s.label, ip |-> s.ip]
  BY <1>2
<1>4. TooLong(s) = z
  BY <1>1, <1>3
<1>5. <<>> \in Seq(Labelled) /\ s.label \in Nat /\ -1 \in Int
  BY StateIs
<1> QED
  BY <1>4, <1>5 DEF FlattenState

(* A test that is kept becomes the next label. *)
Kept(t, s, succ, fail) ==
    [stack |-> Append(s.stack, [test |-> SimplifyTest(t), succ |-> succ, fail |-> fail]),
     label |-> s.label + 1, ip |-> s.label]

LEMMA TestIs ==
  ASSUME NEW t \in Tests, NEW s \in FlattenState, NEW succ \in Int, NEW fail \in Int
  PROVE  LET r == FlattenTest(t, s, succ, fail)
             k == SimplifyTest(t)
         IN  /\ r \in FlattenState
             /\ IsDecided(k) => r = [stack |-> s.stack, label |-> s.label,
                                     ip |-> IF k.val.word[1] # 0 THEN succ ELSE fail]
             /\ ~IsDecided(k) /\ s.label >= filterMaxLen => r = TooLong(s)
             /\ ~IsDecided(k) /\ s.label < filterMaxLen => r = Kept(t, s, succ, fail)
<1> DEFINE k == SimplifyTest(t)
           r == FlattenTest(t, s, succ, fail)
           ip == Shortcut(k, succ, fail)
<1>1. s.label \in Nat /\ filterMaxLen \in Nat
  BY StateIs, MaxLenAssumption
<1>2. CASE IsDecided(k)
  <2>1. r = [s EXCEPT !.ip = ip]
    BY <1>2 DEF FlattenTest
  <2>2. ip \in Int
    BY DEF Shortcut
  <2> HIDE DEF ip
  <2>3. r = [stack |-> s.stack, label |-> s.label, ip |-> ip] /\ r \in FlattenState
    BY <2>1, <2>2 DEF FlattenState
  <2> QED
    BY <1>2, <2>3 DEF ip, Shortcut
<1>3. CASE ~IsDecided(k) /\ s.label >= filterMaxLen
  <2>1. r = TooLong(s)
    BY <1>3 DEF FlattenTest
  <2> QED
    BY <1>1, <1>3, <2>1, TooLongTyped
<1>4. CASE ~IsDecided(k) /\ s.label < filterMaxLen
  <2>1. r = Kept(t, s, succ, fail)
    BY <1>1, <1>4 DEF FlattenTest, Kept
  <2>2. [test |-> k, succ |-> succ, fail |-> fail] \in Labelled
    BY SimplifyTyped DEF Labelled
  <2>3. r \in FlattenState
    BY <2>1, <2>2, <1>1, StateIs DEF Kept, FlattenState
  <2> QED
    BY <1>1, <1>4, <2>1, <2>3
<1> QED
  BY <1>1, <1>2, <1>3, <1>4

LEMMA CallIs ==
  ASSUME NEW x \in Exprs, NEW s \in FlattenState, NEW succ \in Int, NEW fail \in Int
  PROVE  /\ <<x, s, succ, fail>> \in Calls
         /\ <<x, s, succ, fail>>[1] = x /\ <<x, s, succ, fail>>[2] = s
         /\ <<x, s, succ, fail>>[3] = succ /\ <<x, s, succ, fail>>[4] = fail
  BY DEF Calls

Flatteners == [Calls -> FlattenState]

LEMMA PartIs ==
  ASSUME NEW f \in Flatteners,
         NEW x \in Exprs, NEW s \in FlattenState, NEW succ \in Int, NEW fail \in Int
  PROVE  f[<<x, s, succ, fail>>] \in FlattenState /\ f[<<x, s, succ, fail>>].ip \in Int
  BY CallIs, StateIs DEF Flatteners

(* What FlattenParts says, op by op. *)
LEMMA OfNone ==
  ASSUME NEW f \in Flatteners,
         NEW x \in Exprs, NEW s \in FlattenState, NEW succ \in Int, NEW fail \in Int,
         succ < 0 \/ fail < 0
  PROVE  FlattenParts(f, x, s, succ, fail) = TooLong(s)
  BY DEF FlattenParts

LEMMA OfTest ==
  ASSUME NEW f \in Flatteners,
         NEW x \in Exprs, NEW s \in FlattenState, NEW succ \in Int, NEW fail \in Int,
         succ >= 0, fail >= 0, x.op = "test"
  PROVE  FlattenParts(f, x, s, succ, fail) = FlattenTest(x.test, s, succ, fail)
  BY DEF FlattenParts

LEMMA OfAnd ==
  ASSUME NEW f \in Flatteners,
         NEW x \in Exprs, NEW s \in FlattenState, NEW succ \in Int, NEW fail \in Int,
         succ >= 0, fail >= 0, x.op = "and", NEW r, r = f[<<x.arg[2], s, succ, fail>>]
  PROVE  /\ r \in FlattenState /\ r.ip \in Int
         /\ FlattenParts(f, x, s, succ, fail) = f[<<x.arg[1], r, r.ip, fail>>]
<1>1. r \in FlattenState /\ r.ip \in Int
  BY PartIs, PartsAre
<1> QED
  BY <1>1 DEF FlattenParts

LEMMA OfOr ==
  ASSUME NEW f \in Flatteners,
         NEW x \in Exprs, NEW s \in FlattenState, NEW succ \in Int, NEW fail \in Int,
         succ >= 0, fail >= 0, x.op = "or", NEW r, r = f[<<x.arg[2], s, succ, fail>>]
  PROVE  /\ r \in FlattenState /\ r.ip \in Int
         /\ FlattenParts(f, x, s, succ, fail) = f[<<x.arg[1], r, succ, r.ip>>]
<1>1. r \in FlattenState /\ r.ip \in Int
  BY PartIs, PartsAre
<1> QED
  BY <1>1 DEF FlattenParts

LEMMA OfIf ==
  ASSUME NEW f \in Flatteners,
         NEW x \in Exprs, NEW s \in FlattenState, NEW succ \in Int, NEW fail \in Int,
         succ >= 0, fail >= 0, x.op = "if", NEW no, NEW yes,
         no = f[<<x.arg[3], s, succ, fail>>], yes = f[<<x.arg[2], no, succ, fail>>]
  PROVE  /\ no \in FlattenState /\ no.ip \in Int /\ yes \in FlattenState /\ yes.ip \in Int
         /\ FlattenParts(f, x, s, succ, fail) = f[<<x.arg[1], yes, yes.ip, no.ip>>]
<1>1. no \in FlattenState /\ no.ip \in Int
  BY PartIs, PartsAre
<1>2. yes \in FlattenState /\ yes.ip \in Int
  BY <1>1, PartIs, PartsAre
<1> QED
  BY <1>1, <1>2 DEF FlattenParts

LEMMA OfPartsTyped ==
  ASSUME NEW f \in Flatteners,
         NEW x \in Exprs, NEW s \in FlattenState, NEW succ \in Int, NEW fail \in Int
  PROVE  FlattenParts(f, x, s, succ, fail) \in FlattenState
<1> DEFINE z == FlattenParts(f, x, s, succ, fail)
<1>1. ASSUME succ < 0 \/ fail < 0 PROVE z \in FlattenState
  BY <1>1, OfNone, TooLongTyped
<1>2. ASSUME succ >= 0, fail >= 0, x.op = "test" PROVE z \in FlattenState
  <2>1. x.test \in Tests
    BY <1>2, PartsAre
  <2> QED
    BY <1>2, <2>1, OfTest, TestIs
<1>3. ASSUME succ >= 0, fail >= 0, x.op = "and" PROVE z \in FlattenState
  <2>1. PICK r : r = f[<<x.arg[2], s, succ, fail>>]
    OBVIOUS
  <2> QED
    <3>1. r \in FlattenState /\ r.ip \in Int /\ z = f[<<x.arg[1], r, r.ip, fail>>]
      BY <1>3, <2>1, OfAnd
    <3> QED
      BY <1>3, <3>1, PartIs, PartsAre
<1>4. ASSUME succ >= 0, fail >= 0, x.op = "or" PROVE z \in FlattenState
  <2>1. PICK r : r = f[<<x.arg[2], s, succ, fail>>]
    OBVIOUS
  <2> QED
    <3>1. r \in FlattenState /\ r.ip \in Int /\ z = f[<<x.arg[1], r, succ, r.ip>>]
      BY <1>4, <2>1, OfOr
    <3> QED
      BY <1>4, <3>1, PartIs, PartsAre
<1>5. ASSUME succ >= 0, fail >= 0, x.op = "if" PROVE z \in FlattenState
  <2>1. PICK no : no = f[<<x.arg[3], s, succ, fail>>]
    OBVIOUS
  <2>2. PICK yes : yes = f[<<x.arg[2], no, succ, fail>>]
    OBVIOUS
  <2> QED
    <3>1. /\ no \in FlattenState /\ no.ip \in Int /\ yes \in FlattenState /\ yes.ip \in Int
          /\ z = f[<<x.arg[1], yes, yes.ip, no.ip>>]
      BY <1>5, <2>1, <2>2, OfIf
    <3> QED
      BY <1>5, <3>1, PartIs, PartsAre
<1> QED
  BY <1>1, <1>2, <1>3, <1>4, <1>5, PartsAre

LEMMA CallParts ==
  ASSUME NEW c \in Calls
  PROVE  /\ c[1] \in Exprs /\ c[2] \in FlattenState /\ c[3] \in Int /\ c[4] \in Int
         /\ c = <<c[1], c[2], c[3], c[4]>>
  BY DEF Calls

(* What FlattenParts says of an expression depends on its parts only. *)
LEMMA OfPartsAgrees ==
  ASSUME NEW f \in Flatteners, NEW g,
         NEW x \in Exprs, NEW s \in FlattenState, NEW succ \in Int, NEW fail \in Int,
         \A d \in Calls : Height(d[1]) < Height(x) => f[d] = g[d]
  PROVE  FlattenParts(f, x, s, succ, fail) = FlattenParts(g, x, s, succ, fail)
<1>a. ASSUME NEW y \in Exprs, Height(y) < Height(x),
             NEW u \in FlattenState, NEW a \in Int, NEW b \in Int
      PROVE  f[<<y, u, a, b>>] = g[<<y, u, a, b>>]
  BY <1>a, CallIs
<1>2. CASE succ < 0 \/ fail < 0
  BY <1>2 DEF FlattenParts
<1>3. CASE succ >= 0 /\ fail >= 0 /\ x.op = "test"
  BY <1>3 DEF FlattenParts
<1>4. CASE succ >= 0 /\ fail >= 0 /\ x.op = "and"
  <2>1. PICK r : r = f[<<x.arg[2], s, succ, fail>>]
    OBVIOUS
  <2>2. /\ r \in FlattenState /\ r.ip \in Int
        /\ FlattenParts(f, x, s, succ, fail) = f[<<x.arg[1], r, r.ip, fail>>]
    BY <1>4, <2>1, OfAnd
  <2>3. r = g[<<x.arg[2], s, succ, fail>>]
    BY <1>4, <1>a, <2>1, PartsAre
  <2>4. FlattenParts(g, x, s, succ, fail) = g[<<x.arg[1], r, r.ip, fail>>]
    BY <1>4, <2>3 DEF FlattenParts
  <2>5. f[<<x.arg[1], r, r.ip, fail>>] = g[<<x.arg[1], r, r.ip, fail>>]
    BY <1>4, <1>a, <2>2, PartsAre
  <2> QED
    BY <2>2, <2>4, <2>5
<1>5. CASE succ >= 0 /\ fail >= 0 /\ x.op = "or"
  <2>1. PICK r : r = f[<<x.arg[2], s, succ, fail>>]
    OBVIOUS
  <2>2. /\ r \in FlattenState /\ r.ip \in Int
        /\ FlattenParts(f, x, s, succ, fail) = f[<<x.arg[1], r, succ, r.ip>>]
    BY <1>5, <2>1, OfOr
  <2>3. r = g[<<x.arg[2], s, succ, fail>>]
    BY <1>5, <1>a, <2>1, PartsAre
  <2>4. FlattenParts(g, x, s, succ, fail) = g[<<x.arg[1], r, succ, r.ip>>]
    BY <1>5, <2>3 DEF FlattenParts
  <2>5. f[<<x.arg[1], r, succ, r.ip>>] = g[<<x.arg[1], r, succ, r.ip>>]
    BY <1>5, <1>a, <2>2, PartsAre
  <2> QED
    BY <2>2, <2>4, <2>5
<1>6. CASE succ >= 0 /\ fail >= 0 /\ x.op = "if"
  <2>1. PICK no : no = f[<<x.arg[3], s, succ, fail>>]
    OBVIOUS
  <2>2. PICK yes : yes = f[<<x.arg[2], no, succ, fail>>]
    OBVIOUS
  <2>3. /\ no \in FlattenState /\ no.ip \in Int /\ yes \in FlattenState /\ yes.ip \in Int
        /\ FlattenParts(f, x, s, succ, fail) = f[<<x.arg[1], yes, yes.ip, no.ip>>]
    BY <1>6, <2>1, <2>2, OfIf
  <2>4. no = g[<<x.arg[3], s, succ, fail>>]
    BY <1>6, <1>a, <2>1, PartsAre
  <2>5. yes = g[<<x.arg[2], no, succ, fail>>]
    BY <1>6, <1>a, <2>2, <2>3, PartsAre
  <2>6. FlattenParts(g, x, s, succ, fail) = g[<<x.arg[1], yes, yes.ip, no.ip>>]
    BY <1>6, <2>4, <2>5 DEF FlattenParts
  <2>7. f[<<x.arg[1], yes, yes.ip, no.ip>>] = g[<<x.arg[1], yes, yes.ip, no.ip>>]
    BY <1>6, <1>a, <2>3, PartsAre
  <2> QED
    BY <2>3, <2>6, <2>7
<1> QED
  BY <1>2, <1>3, <1>4, <1>5, <1>6, PartsAre

(* FlattenExpr is a function, and obeys its definition. *)
LEMMA FlattenIs ==
    /\ FlattenExpr \in [Calls -> FlattenState]
    /\ \A c \in Calls : FlattenExpr[c] = FlattenParts(FlattenExpr, c[1], c[2], c[3], c[4])
<1> DEFINE F    == [g \in [Calls -> FlattenState] |->
                       [c \in Calls |-> FlattenParts(g, c[1], c[2], c[3], c[4])]]
           rank == [c \in Calls |-> Height(c[1])]
<1>1. ASSUME NEW g \in [Calls -> FlattenState], NEW c \in Calls
      PROVE  FlattenParts(g, c[1], c[2], c[3], c[4]) \in FlattenState
  BY CallParts, OfPartsTyped DEF Flatteners
<1>2. F \in [[Calls -> FlattenState] -> [Calls -> FlattenState]]
  <2>1. \A g \in [Calls -> FlattenState] :
           [c \in Calls |-> FlattenParts(g, c[1], c[2], c[3], c[4])] \in [Calls -> FlattenState]
    BY <1>1
  <2> QED
    BY <2>1
<1>3. FlattenState # {}
  <2>1. Empty \in FlattenState
    BY DEF Empty, FlattenState
  <2> QED
    BY <2>1
<1>4. rank \in [Calls -> Nat]
  BY CallParts, PartsAre
<1>5. ASSUME NEW g \in [Calls -> FlattenState], NEW h \in [Calls -> FlattenState], NEW c \in Calls,
             \A d \in Calls : rank[d] < rank[c] => g[d] = h[d]
      PROVE  F[g][c] = F[h][c]
  <2>1. \A d \in Calls : Height(d[1]) < Height(c[1]) => g[d] = h[d]
    BY <1>5
  <2>2. FlattenParts(g, c[1], c[2], c[3], c[4]) = FlattenParts(h, c[1], c[2], c[3], c[4])
    BY <2>1, CallParts, OfPartsAgrees DEF Flatteners
  <2> QED
    BY <2>2
<1>6. Descends(F, Calls, FlattenState, rank)
  <2> HIDE DEF F, rank
  <2> QED
    BY <1>2, <1>3, <1>4, <1>5 DEF Descends
<1>7. \E f \in [Calls -> FlattenState] : f = F[f]
  <2> HIDE DEF F, rank
  <2> QED
    BY <1>6, RecursiveFunctionExists
<1>8. \E f : f = [c \in Calls |-> FlattenParts(f, c[1], c[2], c[3], c[4])]
  BY <1>7
<1>9. FlattenExpr = CHOOSE f : f = [c \in Calls |-> FlattenParts(f, c[1], c[2], c[3], c[4])]
  BY DEF FlattenExpr
<1>10. FlattenExpr = [c \in Calls |-> FlattenParts(FlattenExpr, c[1], c[2], c[3], c[4])]
  BY <1>8, <1>9
<1>11. FlattenExpr \in [Calls -> FlattenState]
  <2>1. PICK f \in [Calls -> FlattenState] : f = F[f]
    BY <1>7
  <2> DEFINE S == {n \in Nat : \A c \in Calls : Height(c[1]) < n => FlattenExpr[c] = f[c]}
  <2>2. \A c \in Calls : Height(c[1]) \in Nat
    BY CallParts, PartsAre
  <2>3. 0 \in S
    BY <2>2
  <2>4. ASSUME NEW n \in Nat, n \in S PROVE n + 1 \in S
    <3> SUFFICES ASSUME NEW c \in Calls, Height(c[1]) < n + 1 PROVE FlattenExpr[c] = f[c]
      OBVIOUS
    <3>1. \A d \in Calls : Height(d[1]) < Height(c[1]) => f[d] = FlattenExpr[d]
      BY <2>2, <2>4
    <3>2. /\ c[1] \in Exprs /\ c[2] \in FlattenState /\ c[3] \in Int /\ c[4] \in Int
      BY CallParts
    <3>3. f[c] = FlattenParts(f, c[1], c[2], c[3], c[4])
      BY <2>1
    <3>4. f \in Flatteners
      BY DEF Flatteners
    <3>5. FlattenParts(f, c[1], c[2], c[3], c[4])
          = FlattenParts(FlattenExpr, c[1], c[2], c[3], c[4])
      BY <3>1, <3>2, <3>4, OfPartsAgrees
    <3> QED
      BY <1>10, <3>3, <3>5
  <2> HIDE DEF S
  <2>5. \A n \in Nat : n \in S
    BY <2>3, <2>4, SetInduction
  <2>6. \A c \in Calls : FlattenExpr[c] = f[c]
    <3> SUFFICES ASSUME NEW c \in Calls PROVE FlattenExpr[c] = f[c]
      OBVIOUS
    <3>1. Height(c[1]) + 1 \in S /\ Height(c[1]) < Height(c[1]) + 1
      BY <2>2, <2>5
    <3> QED
      BY <3>1 DEF S
  <2> QED
    BY <1>10, <2>6
<1> QED
  BY <1>10, <1>11

-----------------------------------------------------------------------------
(* The other recursive definitions, as functions that obey theirs.         *)

(* What holds of an expression if it holds of all lower ones holds of all. *)
LEMMA HeightInduction ==
  ASSUME NEW S, \A x \in Exprs : (\A y \in Exprs : Height(y) < Height(x) => y \in S) => x \in S
  PROVE  \A x \in Exprs : x \in S
<1> DEFINE N == {n \in Nat : \A x \in Exprs : Height(x) < n => x \in S}
<1>1. \A x \in Exprs : Height(x) \in Nat
  BY PartsAre
<1>2. 0 \in N
  BY <1>1
<1>3. ASSUME NEW n \in Nat, n \in N PROVE n + 1 \in N
  <2> SUFFICES ASSUME NEW x \in Exprs, Height(x) < n + 1 PROVE x \in S
    OBVIOUS
  <2>1. \A y \in Exprs : Height(y) < Height(x) => y \in S
    BY <1>1, <1>3
  <2> QED
    BY <2>1
<1> HIDE DEF N
<1>4. \A n \in Nat : n \in N
  BY <1>2, <1>3, SetInduction
<1>5. ASSUME NEW x \in Exprs PROVE x \in S
  <2>1. Height(x) + 1 \in N /\ Height(x) < Height(x) + 1
    BY <1>1, <1>4
  <2> QED
    BY <2>1 DEF N
<1> QED
  BY <1>5

(* The number of tests that are kept, part by part. *)
LEMMA KeptIs ==
  ASSUME NEW x \in Exprs
  PROVE  /\ KeptTests[x] \in Nat
         /\ x.op = "test" => KeptTests[x] = IF IsDecided(SimplifyTest(x.test)) THEN 0 ELSE 1
         /\ x.op \in {"and", "or"} =>
               KeptTests[x] = KeptTests[x.arg[1]] + KeptTests[x.arg[2]]
         /\ x.op = "if" =>
               KeptTests[x] = KeptTests[x.arg[1]] + KeptTests[x.arg[2]] + KeptTests[x.arg[3]]
         /\ x.op \in {"and", "or", "if"} =>
               KeptTests[x.arg[1]] \in Nat /\ KeptTests[x.arg[2]] \in Nat
         /\ x.op = "if" => KeptTests[x.arg[3]] \in Nat
<1> DEFINE W(g, y) == IF y.op = "test" THEN (IF IsDecided(SimplifyTest(y.test)) THEN 0 ELSE 1)
                      ELSE g[y.arg[1]] + g[y.arg[2]] + (IF y.op = "if" THEN g[y.arg[3]] ELSE 0)
           F    == [g \in [Exprs -> Nat] |-> [y \in Exprs |-> W(g, y)]]
           rank == [y \in Exprs |-> Height(y)]
<1>1. ASSUME NEW g \in [Exprs -> Nat], NEW y \in Exprs PROVE W(g, y) \in Nat
  <2>1. CASE y.op = "test"
    BY <2>1
  <2>2. CASE y.op \in {"and", "or"}
    <3>1. g[y.arg[1]] \in Nat /\ g[y.arg[2]] \in Nat
      BY <2>2, PartsAre
    <3> QED
      BY <2>2, <3>1
  <2>3. CASE y.op = "if"
    <3>1. g[y.arg[1]] \in Nat /\ g[y.arg[2]] \in Nat /\ g[y.arg[3]] \in Nat
      BY <2>3, PartsAre
    <3> QED
      BY <2>3, <3>1
  <2> QED
    BY <2>1, <2>2, <2>3, PartsAre
<1>2. ASSUME NEW g, NEW h, NEW y \in Exprs, \A z \in Exprs : Height(z) < Height(y) => g[z] = h[z]
      PROVE  W(g, y) = W(h, y)
  <2>1. CASE y.op = "test"
    BY <2>1
  <2>2. CASE y.op \in {"and", "or"}
    <3>1. g[y.arg[1]] = h[y.arg[1]] /\ g[y.arg[2]] = h[y.arg[2]]
      BY <1>2, <2>2, PartsAre
    <3> QED
      BY <2>2, <3>1
  <2>3. CASE y.op = "if"
    <3>1. g[y.arg[1]] = h[y.arg[1]] /\ g[y.arg[2]] = h[y.arg[2]] /\ g[y.arg[3]] = h[y.arg[3]]
      BY <1>2, <2>3, PartsAre
    <3> QED
      BY <2>3, <3>1
  <2> QED
    BY <2>1, <2>2, <2>3, PartsAre
<1>3. KeptTests = CHOOSE f : f = [y \in Exprs |-> W(f, y)]
  BY DEF KeptTests
<1> HIDE DEF W
<1>4. Descends(F, Exprs, Nat, rank)
  <2>1. F \in [[Exprs -> Nat] -> [Exprs -> Nat]]
    BY <1>1
  <2>2. rank \in [Exprs -> Nat]
    BY PartsAre
  <2>3. ASSUME NEW g \in [Exprs -> Nat], NEW h \in [Exprs -> Nat], NEW y \in Exprs,
               \A z \in Exprs : rank[z] < rank[y] => g[z] = h[z]
        PROVE  F[g][y] = F[h][y]
    <3>1. W(g, y) = W(h, y)
      BY <1>2, <2>3
    <3> QED
      BY <3>1
  <2> HIDE DEF F, rank
  <2> QED
    BY <2>1, <2>2, <2>3 DEF Descends
<1>5. \E f \in [Exprs -> Nat] : f = F[f]
  <2> HIDE DEF F, rank
  <2> QED
    BY <1>4, RecursiveFunctionExists
<1>6. PICK f \in [Exprs -> Nat] : f = [y \in Exprs |-> W(f, y)]
  BY <1>5
<1>7. KeptTests = [y \in Exprs |-> W(KeptTests, y)]
  BY <1>3, <1>6
<1>8. \A y \in Exprs : KeptTests[y] \in Nat
  <2> DEFINE S == {y \in Exprs : KeptTests[y] = f[y]}
  <2>1. ASSUME NEW y \in Exprs, \A z \in Exprs : Height(z) < Height(y) => z \in S
        PROVE  y \in S
    <3>1. W(KeptTests, y) = W(f, y)
      BY <1>2, <2>1
    <3>2. f[y] = W(f, y)
      BY <1>6
    <3> QED
      BY <1>7, <3>1, <3>2
  <2> HIDE DEF S
  <2>2. \A y \in Exprs : y \in S
    BY <2>1, HeightInduction
  <2> QED
    BY <2>2 DEF S
<1>9. KeptTests[x] = W(KeptTests, x)
  BY <1>7
<1>10. /\ x.op \in {"and", "or", "if"} => KeptTests[x.arg[1]] \in Nat /\ KeptTests[x.arg[2]] \in Nat
       /\ x.op = "if" => KeptTests[x.arg[3]] \in Nat
  BY <1>8, PartsAre
<1> QED
  BY <1>8, <1>9, <1>10 DEF W

(* The tests of an expression, part by part. *)
LEMMA TestsOfIs ==
  ASSUME NEW x \in Exprs
  PROVE  /\ x.op = "test" => TestsOf[x] = {x.test}
         /\ x.op \in {"and", "or", "if"} => /\ TestsOf[x.arg[1]] \subseteq TestsOf[x]
                                            /\ TestsOf[x.arg[2]] \subseteq TestsOf[x]
         /\ x.op = "if" => TestsOf[x.arg[3]] \subseteq TestsOf[x]
<1> DEFINE W(g, y) == IF y.op = "test" THEN {y.test} ELSE UNION {g[z] : z \in Parts(y)}
           T    == SUBSET Tests
           F    == [g \in [Exprs -> T] |-> [y \in Exprs |-> W(g, y)]]
           rank == [y \in Exprs |-> Height(y)]
<1>0. ASSUME NEW y \in Exprs
      PROVE  /\ \A z \in Parts(y) : z \in Exprs /\ Height(z) < Height(y)
             /\ y.op = "test" => y.test \in Tests
  BY ExprsAssumption
<1>1. ASSUME NEW g \in [Exprs -> T], NEW y \in Exprs PROVE W(g, y) \in T
  <2>1. \A z \in Parts(y) : g[z] \subseteq Tests
    BY <1>0
  <2> QED
    BY <1>0, <2>1
<1>2. ASSUME NEW g, NEW h, NEW y \in Exprs, \A z \in Exprs : Height(z) < Height(y) => g[z] = h[z]
      PROVE  W(g, y) = W(h, y)
  <2>1. \A z \in Parts(y) : g[z] = h[z]
    BY <1>0, <1>2
  <2>2. {g[z] : z \in Parts(y)} = {h[z] : z \in Parts(y)}
    BY <2>1
  <2> QED
    BY <2>2
<1>3. TestsOf = CHOOSE f : f = [y \in Exprs |-> W(f, y)]
  BY DEF TestsOf
<1> HIDE DEF W
<1>4. Descends(F, Exprs, T, rank)
  <2>1. F \in [[Exprs -> T] -> [Exprs -> T]]
    <3> HIDE DEF T
    <3> QED
      BY <1>1
  <2>2. rank \in [Exprs -> Nat] /\ T # {}
    BY PartsAre
  <2>3. ASSUME NEW g \in [Exprs -> T], NEW h \in [Exprs -> T], NEW y \in Exprs,
               \A z \in Exprs : rank[z] < rank[y] => g[z] = h[z]
        PROVE  F[g][y] = F[h][y]
    <3>1. W(g, y) = W(h, y)
      BY <1>2, <2>3
    <3> QED
      BY <3>1
  <2> HIDE DEF F, rank, T
  <2> QED
    BY <2>1, <2>2, <2>3 DEF Descends
<1>5. \E f \in [Exprs -> T] : f = F[f]
  <2> HIDE DEF F, rank, T
  <2> QED
    BY <1>4, RecursiveFunctionExists
<1>6. \E f : f = [y \in Exprs |-> W(f, y)]
  BY <1>5
<1>7. TestsOf = [y \in Exprs |-> W(TestsOf, y)]
  BY <1>3, <1>6
<1>8. TestsOf[x] = W(TestsOf, x)
  BY <1>7
<1>9. /\ x.op \in {"and", "or"} => Parts(x) = {x.arg[1], x.arg[2]}
      /\ x.op = "if" => Parts(x) = {x.arg[1], x.arg[2], x.arg[3]}
  BY DEF Parts
<1> QED
  BY <1>8, <1>9 DEF W

(* The function that Means looks the answer up in. *)
Says(e, f, y) ==
    \/ y.op = "test" /\ Satisfies(y.test, e)
    \/ y.op = "and" /\ f[y.arg[1]] /\ f[y.arg[2]]
    \/ y.op = "or" /\ (f[y.arg[1]] \/ f[y.arg[2]])
    \/ y.op = "if" /\ IF f[y.arg[1]] THEN f[y.arg[2]] ELSE f[y.arg[3]]
Sense(e) == CHOOSE f : f = [y \in Exprs |-> Says(e, f, y)]

LEMMA SenseIs == \A x, e : Means(x, e) = Sense(e)[x]
  BY DEF Means, Sense, Says

(* What a filter says of a packet, part by part. *)
LEMMA MeaningIs ==
  ASSUME NEW x \in Exprs, NEW e
  PROVE  /\ x.op = "test" => (Means(x, e) <=> Satisfies(x.test, e))
         /\ x.op = "and" => (Means(x, e) <=> Means(x.arg[1], e) /\ Means(x.arg[2], e))
         /\ x.op = "or" => (Means(x, e) <=> Means(x.arg[1], e) \/ Means(x.arg[2], e))
         /\ x.op = "if" =>
               (Means(x, e) <=> IF Means(x.arg[1], e) THEN Means(x.arg[2], e) ELSE Means(x.arg[3], e))
<1> DEFINE T    == BOOLEAN
           F    == [g \in [Exprs -> T] |-> [y \in Exprs |-> Says(e, g, y)]]
           rank == [y \in Exprs |-> Height(y)]
<1>1. ASSUME NEW g \in [Exprs -> T], NEW y \in Exprs PROVE Says(e, g, y) \in T
  BY DEF Says
<1>2. ASSUME NEW g, NEW h, NEW y \in Exprs, \A z \in Exprs : Height(z) < Height(y) => g[z] = h[z]
      PROVE  Says(e, g, y) = Says(e, h, y)
  <2>1. CASE y.op = "test"
    BY <2>1 DEF Says
  <2>2. CASE y.op \in {"and", "or"}
    <3>1. g[y.arg[1]] = h[y.arg[1]] /\ g[y.arg[2]] = h[y.arg[2]]
      BY <1>2, <2>2, PartsAre
    <3> QED
      BY <2>2, <3>1 DEF Says
  <2>3. CASE y.op = "if"
    <3>1. g[y.arg[1]] = h[y.arg[1]] /\ g[y.arg[2]] = h[y.arg[2]] /\ g[y.arg[3]] = h[y.arg[3]]
      BY <1>2, <2>3, PartsAre
    <3> QED
      BY <2>3, <3>1 DEF Says
  <2> QED
    BY <2>1, <2>2, <2>3, PartsAre
<1>4. Descends(F, Exprs, T, rank)
  <2>1. F \in [[Exprs -> T] -> [Exprs -> T]]
    <3> HIDE DEF T
    <3> QED
      BY <1>1
  <2>2. rank \in [Exprs -> Nat] /\ T # {}
    BY PartsAre
  <2>3. ASSUME NEW g \in [Exprs -> T], NEW h \in [Exprs -> T], NEW y \in Exprs,
               \A z \in Exprs : rank[z] < rank[y] => g[z] = h[z]
        PROVE  F[g][y] = F[h][y]
    <3>1. Says(e, g, y) = Says(e, h, y)
      BY <1>2, <2>3
    <3> QED
      BY <3>1
  <2> HIDE DEF F, rank, T
  <2> QED
    BY <2>1, <2>2, <2>3 DEF Descends
<1>5. \E f \in [Exprs -> T] : f = F[f]
  <2> HIDE DEF F, rank, T
  <2> QED
    BY <1>4, RecursiveFunctionExists
<1>6. \E f : f = [y \in Exprs |-> Says(e, f, y)]
  BY <1>5
<1>7. Sense(e) = [y \in Exprs |-> Says(e, Sense(e), y)]
  BY <1>6 DEF Sense
<1>8. Means(x, e) = Says(e, Sense(e), x)
  BY <1>7, SenseIs
<1>9. \A y : Means(y, e) = Sense(e)[y]
  BY SenseIs
<1> QED
  BY <1>8, <1>9 DEF Says

(* Where the run of a program is at position k. *)
Goes(p, e, f, k) ==
    IF NextStep(p[k + 1], e) = Accept THEN "accept"
    ELSE IF NextStep(p[k + 1], e) = Reject THEN "reject"
    ELSE IF k < NextStep(p[k + 1], e) /\ NextStep(p[k + 1], e) < Len(p)
    THEN f[NextStep(p[k + 1], e)] ELSE "refused"
RunFrom(p, e) == CHOOSE f : f = [k \in 0 .. Len(p) - 1 |-> Goes(p, e, f, k)]

LEMMA RunIs == \A p, e : Run(p, e) = RunFrom(p, e)[0]
  BY DEF Run, RunFrom, Goes

(* A run obeys the definition: each step is followed by the one it names. *)
LEMMA RunFromIs ==
  ASSUME NEW p \in Seq(Labelled), NEW e, NEW k \in 0 .. Len(p) - 1
  PROVE  RunFrom(p, e)[k] = Goes(p, e, RunFrom(p, e), k)
<1> DEFINE D    == 0 .. Len(p) - 1
           T    == {"accept", "reject", "refused"}
           F    == [g \in [D -> T] |-> [i \in D |-> Goes(p, e, g, i)]]
           rank == [i \in D |-> Len(p) - i]
<1>0. Len(p) \in Nat
  OBVIOUS
<1>1. ASSUME NEW i \in D
      PROVE  LET t == NextStep(p[i + 1], e) IN t \in Int
  <2>1. p[i + 1] \in Labelled
    BY <1>0
  <2> QED
    BY <2>1 DEF NextStep, Labelled
<1>2. ASSUME NEW g \in [D -> T], NEW i \in D PROVE Goes(p, e, g, i) \in T
  <2> DEFINE t == NextStep(p[i + 1], e)
  <2>1. t \in Int
    BY <1>1
  <2> HIDE DEF t
  <2>2. i < t /\ t < Len(p) => g[t] \in T
    BY <1>0, <2>1
  <2> QED
    BY <2>2 DEF Goes, t
<1>3. ASSUME NEW g, NEW h, NEW i \in D, \A j \in D : rank[j] < rank[i] => g[j] = h[j]
      PROVE  Goes(p, e, g, i) = Goes(p, e, h, i)
  <2> DEFINE t == NextStep(p[i + 1], e)
  <2>1. t \in Int
    BY <1>1
  <2> HIDE DEF t
  <2>2. i < t /\ t < Len(p) => g[t] = h[t]
    BY <1>0, <1>3, <2>1
  <2> QED
    BY <2>2 DEF Goes, t
<1>4. Descends(F, D, T, rank)
  <2>1. F \in [[D -> T] -> [D -> T]]
    <3> HIDE DEF T, D
    <3> QED
      BY <1>2
  <2>2. rank \in [D -> Nat] /\ T # {}
    BY <1>0
  <2>3. ASSUME NEW g \in [D -> T], NEW h \in [D -> T], NEW i \in D,
               \A j \in D : rank[j] < rank[i] => g[j] = h[j]
        PROVE  F[g][i] = F[h][i]
    <3>1. Goes(p, e, g, i) = Goes(p, e, h, i)
      BY <1>3, <2>3
    <3> QED
      BY <3>1
  <2> HIDE DEF F, rank, T, D
  <2> QED
    BY <2>1, <2>2, <2>3 DEF Descends
<1>5. \E f \in [D -> T] : f = F[f]
  <2> HIDE DEF F, rank, T, D
  <2> QED
    BY <1>4, RecursiveFunctionExists
<1>6. \E f : f = [i \in D |-> Goes(p, e, f, i)]
  BY <1>5
<1>7. RunFrom(p, e) = [i \in D |-> Goes(p, e, RunFrom(p, e), i)]
  BY <1>6 DEF RunFrom
<1> QED
  BY <1>7

-----------------------------------------------------------------------------
(* The list of tests: what flattening an expression adds to it, by         *)
(* induction on the height of the expression.                              *)

(* The results, and the labels given so far. *)
Below(l) == {Accept, Reject} \cup 0 .. l - 1

(* Each test is labelled with its place in the list, and goes to one that  *)
(* was labelled before it. *)
Sound(s) ==
    /\ s.label = Len(s.stack) /\ s.label <= filterMaxLen
    /\ \A j \in 1 .. Len(s.stack) :
          s.stack[j].succ \in Below(j - 1) /\ s.stack[j].fail \in Below(j - 1)

Extends(r, s) ==
    /\ Len(s.stack) <= Len(r.stack)
    /\ \A j \in 1 .. Len(s.stack) : r.stack[j] = s.stack[j]

(* What an expression of n tests, flattened from s on, comes to. *)
Outcome(n, s, r) ==
    \/ r.ip = -1 /\ s.label + n > filterMaxLen
    \/ r.ip \in Below(r.label) /\ Sound(r) /\ r.label = s.label + n /\ Extends(r, s)

LEMMA BelowIs ==
  ASSUME NEW l \in Nat, NEW m \in Nat, l <= m, NEW t \in Below(l)
  PROVE  t \in Below(m) /\ t \in Int /\ t >= 0
  BY DEF Below, Accept, Reject

LEMMA OutcomeChain ==
  ASSUME NEW s \in FlattenState, NEW r \in FlattenState, NEW q \in FlattenState,
         NEW m \in Nat, NEW n \in Nat, r.ip # -1, Outcome(m, s, r), Outcome(n, r, q)
  PROVE  Outcome(m + n, s, q) /\ (q.ip # -1 => Extends(q, r))
<1>1. /\ s.label \in Nat /\ r.label \in Nat /\ q.label \in Nat /\ filterMaxLen \in Nat
      /\ Len(s.stack) \in Nat /\ Len(r.stack) \in Nat /\ Len(q.stack) \in Nat
  BY StateIs, MaxLenAssumption
<1>2. r.label = s.label + m /\ Extends(r, s)
  BY DEF Outcome
<1>3. CASE q.ip = -1 /\ r.label + n > filterMaxLen
  BY <1>1, <1>2, <1>3 DEF Outcome
<1>4. CASE q.ip \in Below(q.label) /\ Sound(q) /\ q.label = r.label + n /\ Extends(q, r)
  <2>1. q.label = s.label + (m + n)
    BY <1>1, <1>2, <1>4
  <2>2. Extends(q, s)
    BY <1>1, <1>2, <1>4 DEF Extends
  <2> QED
    BY <1>4, <2>1, <2>2 DEF Outcome
<1> QED
  BY <1>3, <1>4 DEF Outcome

LEMMA FlattenCall ==
  ASSUME NEW x \in Exprs, NEW s \in FlattenState, NEW succ \in Int, NEW fail \in Int
  PROVE  /\ FlattenExpr \in Flatteners
         /\ FlattenExpr[<<x, s, succ, fail>>] = FlattenParts(FlattenExpr, x, s, succ, fail)
         /\ FlattenExpr[<<x, s, succ, fail>>] \in FlattenState
         /\ FlattenExpr[<<x, s, succ, fail>>].ip \in Int
<1>1. FlattenExpr \in Flatteners
  BY FlattenIs DEF Flatteners
<1>2. FlattenExpr[<<x, s, succ, fail>>] = FlattenParts(FlattenExpr, x, s, succ, fail)
  BY FlattenIs, CallIs
<1> QED
  BY <1>1, <1>2, PartIs

LEMMA TestOutcome ==
  ASSUME NEW x \in Exprs, x.op = "test", NEW s \in FlattenState, Sound(s),
         NEW succ \in Below(s.label), NEW fail \in Below(s.label)
  PROVE  Outcome(KeptTests[x], s, FlattenTest(x.test, s, succ, fail))
<1> DEFINE t == x.test
           k == SimplifyTest(t)
           r == FlattenTest(t, s, succ, fail)
<1>1. /\ s.label \in Nat /\ filterMaxLen \in Nat /\ s.stack \in Seq(Labelled)
      /\ Len(s.stack) \in Nat
  BY StateIs, MaxLenAssumption
<1>2. succ \in Int /\ fail \in Int /\ t \in Tests
  BY <1>1, BelowIs, PartsAre
<1>3. KeptTests[x] = IF IsDecided(k) THEN 0 ELSE 1
  BY KeptIs
<1>4. CASE IsDecided(k)
  <2> DEFINE ip == IF k.val.word[1] # 0 THEN succ ELSE fail
  <2>1. r = [stack |-> s.stack, label |-> s.label, ip |-> ip]
    BY <1>2, <1>4, TestIs
  <2>2. ip \in Below(s.label)
    OBVIOUS
  <2> HIDE DEF r, ip
  <2>3. r.stack = s.stack /\ r.label = s.label /\ r.ip = ip
    BY <2>1
  <2>4. Sound(r) /\ Extends(r, s)
    BY <1>1, <2>3 DEF Sound, Extends
  <2>5. KeptTests[x] = 0 /\ r.label = s.label + 0
    BY <1>1, <1>3, <1>4, <2>3
  <2>6. Outcome(KeptTests[x], s, r)
    BY <2>2, <2>3, <2>4, <2>5 DEF Outcome
  <2> QED
    BY <2>6 DEF r
<1>5. CASE ~IsDecided(k) /\ s.label >= filterMaxLen
  <2>1. r = TooLong(s)
    BY <1>2, <1>5, TestIs
  <2>2. r.ip = -1
    BY <2>1, TooLongTyped
  <2> QED
    BY <1>1, <1>3, <1>5, <2>2 DEF Outcome
<1>6. CASE ~IsDecided(k) /\ s.label < filterMaxLen
  <2> DEFINE l == [test |-> k, succ |-> succ, fail |-> fail]
  <2>1. r = Kept(t, s, succ, fail)
    BY <1>2, <1>6, TestIs
  <2>2. r.stack = Append(s.stack, l) /\ r.label = s.label + 1 /\ r.ip = s.label
    BY <2>1 DEF Kept
  <2>3. l \in Labelled /\ l.succ = succ /\ l.fail = fail
    BY <1>2, SimplifyTyped DEF Labelled
  <2> HIDE DEF r, l
  <2>4. /\ Len(r.stack) = Len(s.stack) + 1 /\ r.stack[Len(s.stack) + 1] = l
        /\ \A j \in 1 .. Len(s.stack) : r.stack[j] = s.stack[j]
    BY <1>1, <2>2, <2>3
  <2>5. s.label = Len(s.stack)
    BY DEF Sound
  <2>6. \A j \in 1 .. Len(r.stack) :
           r.stack[j].succ \in Below(j - 1) /\ r.stack[j].fail \in Below(j - 1)
    <3> SUFFICES ASSUME NEW j \in 1 .. Len(r.stack)
                 PROVE  r.stack[j].succ \in Below(j - 1) /\ r.stack[j].fail \in Below(j - 1)
      OBVIOUS
    <3>1. j \in 1 .. Len(s.stack) \/ j = Len(s.stack) + 1
      BY <1>1, <2>4
    <3>2. CASE j \in 1 .. Len(s.stack)
      BY <2>4, <3>2 DEF Sound
    <3>3. CASE j = Len(s.stack) + 1
      <4>1. j - 1 = s.label /\ r.stack[j] = l
        BY <1>1, <2>4, <2>5, <3>3
      <4> QED
        BY <2>3, <4>1
    <3> QED
      BY <3>1, <3>2, <3>3
  <2>7. Sound(r)
    BY <1>1, <1>6, <2>2, <2>4, <2>5, <2>6 DEF Sound
  <2>8. Extends(r, s)
    BY <1>1, <2>4 DEF Extends
  <2>9. r.ip \in Below(r.label)
    BY <1>1, <2>2 DEF Below
  <2>10. Outcome(KeptTests[x], s, r)
    BY <1>3, <1>6, <2>2, <2>7, <2>8, <2>9 DEF Outcome
  <2> QED
    BY <2>10 DEF r
<1> QED
  BY <1>1, <1>4, <1>5, <1>6

(* Where x is flattened as it should be. *)
Flattens(x) ==
    \A s \in FlattenState : Sound(s) =>
        \A succ, fail \in Below(s.label) :
            Outcome(KeptTests[x], s, FlattenExpr[<<x, s, succ, fail>>])

LEMMA FlattenOne ==
  ASSUME NEW x \in Exprs, Flattens(x), NEW s \in FlattenState, Sound(s),
         NEW succ \in Below(s.label), NEW fail \in Below(s.label),
         NEW r, r = FlattenExpr[<<x, s, succ, fail>>]
  PROVE  /\ Outcome(KeptTests[x], s, r) /\ r \in FlattenState /\ r.label \in Nat /\ r.ip \in Int
         /\ KeptTests[x] \in Nat /\ succ \in Int /\ succ >= 0 /\ fail \in Int /\ fail >= 0
         /\ r.ip # -1 => /\ Sound(r) /\ r.ip \in Below(r.label)
                         /\ succ \in Below(r.label) /\ fail \in Below(r.label)
<1>1. s.label \in Nat /\ filterMaxLen \in Nat
  BY StateIs, MaxLenAssumption
<1>2. succ \in Int /\ succ >= 0 /\ fail \in Int /\ fail >= 0
  BY <1>1, BelowIs
<1>3. r \in FlattenState /\ r.label \in Nat /\ r.ip \in Int
  BY <1>2, FlattenCall, StateIs
<1>4. Outcome(KeptTests[x], s, r) /\ KeptTests[x] \in Nat
  BY KeptIs DEF Flattens
<1>5. ASSUME r.ip # -1 PROVE s.label <= r.label
  BY <1>1, <1>3, <1>4, <1>5 DEF Outcome
<1>6. ASSUME r.ip # -1 PROVE succ \in Below(r.label) /\ fail \in Below(r.label)
  BY <1>1, <1>3, <1>5, <1>6, BelowIs
<1> QED
  BY <1>2, <1>3, <1>4, <1>6 DEF Outcome

(* The parts of "and" and of "or", one after the other. *)
LEMMA TwoParts ==
  ASSUME NEW x \in Exprs, NEW y \in Exprs, Flattens(x), Flattens(y),
         NEW s \in FlattenState, Sound(s), NEW succ \in Below(s.label), NEW fail \in Below(s.label),
         NEW r, r = FlattenExpr[<<y, s, succ, fail>>], NEW n, n = KeptTests[x] + KeptTests[y]
  PROVE  /\ Outcome(n, s, FlattenExpr[<<x, r, r.ip, fail>>])
         /\ Outcome(n, s, FlattenExpr[<<x, r, succ, r.ip>>])
<1>1. /\ Outcome(KeptTests[y], s, r) /\ r \in FlattenState /\ r.label \in Nat /\ r.ip \in Int
      /\ succ \in Int /\ succ >= 0 /\ fail \in Int /\ fail >= 0
      /\ r.ip # -1 => /\ Sound(r) /\ r.ip \in Below(r.label)
                      /\ succ \in Below(r.label) /\ fail \in Below(r.label)
  BY FlattenOne
<1>2. KeptTests[x] \in Nat /\ KeptTests[y] \in Nat /\ n = KeptTests[y] + KeptTests[x] /\ s.label \in Nat
      /\ filterMaxLen \in Nat
  BY KeptIs, StateIs, MaxLenAssumption
<1> DEFINE q == FlattenExpr[<<x, r, r.ip, fail>>]
           p == FlattenExpr[<<x, r, succ, r.ip>>]
<1>3. CASE r.ip = -1
  <2>1. q = TooLong(r) /\ p = TooLong(r)
    <3>1. q = FlattenParts(FlattenExpr, x, r, r.ip, fail) /\ p = FlattenParts(FlattenExpr, x, r, succ, r.ip)
          /\ FlattenExpr \in Flatteners
      BY <1>1, FlattenCall
    <3> QED
      BY <1>1, <1>3, <3>1, OfNone
  <2>2. q.ip = -1 /\ p.ip = -1
    BY <1>1, <2>1, TooLongTyped
  <2>3. s.label + KeptTests[y] > filterMaxLen
    <3>1. -1 \notin Below(r.label)
      BY <1>1 DEF Below, Accept, Reject
    <3> QED
      BY <1>1, <1>3, <3>1 DEF Outcome
  <2>4. s.label + n > filterMaxLen
    BY <1>2, <2>3
  <2> QED
    BY <2>2, <2>4 DEF Outcome
<1>4. CASE r.ip # -1
  <2>1. Outcome(KeptTests[x], r, q) /\ q \in FlattenState
    BY <1>1, <1>4, FlattenOne
  <2>2. Outcome(KeptTests[x], r, p) /\ p \in FlattenState
    BY <1>1, <1>4, FlattenOne
  <2> HIDE DEF p, q
  <2>3. Outcome(n, s, q)
    BY <1>1, <1>2, <1>4, <2>1, OutcomeChain
  <2>4. Outcome(n, s, p)
    BY <1>1, <1>2, <1>4, <2>2, OutcomeChain
  <2> QED
    BY <2>3, <2>4 DEF p, q
<1> QED
  BY <1>3, <1>4

(* The parts of "?", from the last to the first. *)
LEMMA ThreeParts ==
  ASSUME NEW c \in Exprs, NEW y \in Exprs, NEW z \in Exprs, Flattens(c), Flattens(y), Flattens(z),
         NEW s \in FlattenState, Sound(s), NEW succ \in Below(s.label), NEW fail \in Below(s.label),
         NEW no, no = FlattenExpr[<<z, s, succ, fail>>],
         NEW yes, yes = FlattenExpr[<<y, no, succ, fail>>],
         NEW n, n = KeptTests[c] + KeptTests[y] + KeptTests[z]
  PROVE  Outcome(n, s, FlattenExpr[<<c, yes, yes.ip, no.ip>>])
<1> DEFINE q == FlattenExpr[<<c, yes, yes.ip, no.ip>>]
<1>1. /\ Outcome(KeptTests[z], s, no) /\ no \in FlattenState /\ no.label \in Nat /\ no.ip \in Int
      /\ succ \in Int /\ succ >= 0 /\ fail \in Int /\ fail >= 0
      /\ no.ip # -1 => /\ Sound(no) /\ no.ip \in Below(no.label)
                       /\ succ \in Below(no.label) /\ fail \in Below(no.label)
  BY FlattenOne
<1>2. /\ KeptTests[c] \in Nat /\ KeptTests[y] \in Nat /\ KeptTests[z] \in Nat
      /\ s.label \in Nat /\ filterMaxLen \in Nat
  BY KeptIs, StateIs, MaxLenAssumption
<1>3. yes \in FlattenState /\ yes.label \in Nat /\ yes.ip \in Int
  BY <1>1, FlattenCall, StateIs
<1>4. ASSUME yes.ip < 0 \/ no.ip < 0 PROVE q.ip = -1
  <2>1. q = FlattenParts(FlattenExpr, c, yes, yes.ip, no.ip) /\ FlattenExpr \in Flatteners
    BY <1>1, <1>3, FlattenCall
  <2>2. q = TooLong(yes)
    BY <1>1, <1>3, <1>4, <2>1, OfNone
  <2> QED
    BY <1>3, <2>2, TooLongTyped
<1>5. -1 \notin Below(no.label) /\ -1 \notin Below(yes.label)
  BY <1>1, <1>3 DEF Below, Accept, Reject
<1>6. CASE no.ip = -1
  <2>1. s.label + KeptTests[z] > filterMaxLen
    BY <1>1, <1>5, <1>6 DEF Outcome
  <2>2. s.label + n > filterMaxLen
    BY <1>2, <2>1
  <2>3. q.ip = -1
    BY <1>4, <1>6
  <2> QED
    BY <2>2, <2>3 DEF Outcome
<1>7. CASE no.ip # -1
  <2>1. Sound(no) /\ no.ip \in Below(no.label) /\ succ \in Below(no.label) /\ fail \in Below(no.label)
    BY <1>1, <1>7
  <2>2. /\ Outcome(KeptTests[y], no, yes)
        /\ yes.ip # -1 => Sound(yes) /\ yes.ip \in Below(yes.label)
    BY <1>1, <2>1, FlattenOne
  <2>3. no.label = s.label + KeptTests[z]
    BY <1>1, <1>7 DEF Outcome
  <2>4. CASE yes.ip = -1
    <3>1. no.label + KeptTests[y] > filterMaxLen
      BY <1>5, <2>2, <2>4 DEF Outcome
    <3>2. s.label + n > filterMaxLen
      BY <1>2, <2>3, <3>1
    <3>3. q.ip = -1
      BY <1>4, <2>4
    <3> QED
      BY <3>2, <3>3 DEF Outcome
  <2>5. CASE yes.ip # -1
    <3>1. yes.label = no.label + KeptTests[y]
      BY <2>2, <2>5 DEF Outcome
    <3>2. no.label <= yes.label
      BY <1>1, <1>2, <3>1
    <3>3. no.ip \in Below(yes.label)
      BY <1>1, <1>3, <2>1, <3>2, BelowIs
    <3>4. Outcome(KeptTests[c], yes, q) /\ q \in FlattenState
      BY <1>3, <2>2, <2>5, <3>3, FlattenOne
    <3> HIDE DEF q
    <3>5. Outcome(KeptTests[z] + KeptTests[y], s, yes) /\ KeptTests[z] + KeptTests[y] \in Nat
      BY <1>1, <1>2, <1>3, <1>7, <2>2, OutcomeChain
    <3>6. Outcome((KeptTests[z] + KeptTests[y]) + KeptTests[c], s, q)
      BY <1>2, <1>3, <2>5, <3>4, <3>5, OutcomeChain
    <3>7. n = (KeptTests[z] + KeptTests[y]) + KeptTests[c]
      BY <1>2
    <3> QED
      BY <3>6, <3>7 DEF q
  <2> QED
    BY <2>4, <2>5
<1> QED
  BY <1>6, <1>7

(* Every expression is flattened as it should be, however it is nested. *)
LEMMA AllFlatten == \A x \in Exprs : Flattens(x)
<1> DEFINE S == {x \in Exprs : Flattens(x)}
<1>1. ASSUME NEW x \in Exprs, \A y \in Exprs : Height(y) < Height(x) => y \in S
      PROVE  x \in S
  <2> SUFFICES ASSUME NEW s \in FlattenState, Sound(s),
                      NEW succ \in Below(s.label), NEW fail \in Below(s.label)
               PROVE  Outcome(KeptTests[x], s, FlattenExpr[<<x, s, succ, fail>>])
    BY DEF Flattens
  <2>0. /\ x.op \in {"and", "or", "if"} => /\ x.arg[1] \in Exprs /\ Flattens(x.arg[1])
                                           /\ x.arg[2] \in Exprs /\ Flattens(x.arg[2])
        /\ x.op = "if" => x.arg[3] \in Exprs /\ Flattens(x.arg[3])
    BY <1>1, PartsAre
  <2> HIDE DEF S
  <2>1. s.label \in Nat
    BY StateIs
  <2>2. succ \in Int /\ succ >= 0 /\ fail \in Int /\ fail >= 0
    BY <2>1, BelowIs
  <2>3. /\ FlattenExpr \in Flatteners
        /\ FlattenExpr[<<x, s, succ, fail>>] = FlattenParts(FlattenExpr, x, s, succ, fail)
    BY <2>2, FlattenCall
  <2>4. CASE x.op = "test"
    <3>1. FlattenExpr[<<x, s, succ, fail>>] = FlattenTest(x.test, s, succ, fail)
      BY <2>2, <2>3, <2>4, OfTest
    <3>2. Outcome(KeptTests[x], s, FlattenTest(x.test, s, succ, fail))
      BY <2>4, TestOutcome
    <3> QED
      BY <3>1, <3>2
  <2>5. CASE x.op = "and"
    <3>1. PICK r : r = FlattenExpr[<<x.arg[2], s, succ, fail>>]
      OBVIOUS
    <3>2. FlattenExpr[<<x, s, succ, fail>>] = FlattenExpr[<<x.arg[1], r, r.ip, fail>>]
      BY <2>2, <2>3, <2>5, <3>1, OfAnd
    <3>3. KeptTests[x] = KeptTests[x.arg[1]] + KeptTests[x.arg[2]]
      BY <2>5, KeptIs
    <3>4. Outcome(KeptTests[x], s, FlattenExpr[<<x.arg[1], r, r.ip, fail>>])
      BY <2>0, <2>5, <3>1, <3>3, TwoParts
    <3> QED
      BY <3>2, <3>4
  <2>6. CASE x.op = "or"
    <3>1. PICK r : r = FlattenExpr[<<x.arg[2], s, succ, fail>>]
      OBVIOUS
    <3>2. FlattenExpr[<<x, s, succ, fail>>] = FlattenExpr[<<x.arg[1], r, succ, r.ip>>]
      BY <2>2, <2>3, <2>6, <3>1, OfOr
    <3>3. KeptTests[x] = KeptTests[x.arg[1]] + KeptTests[x.arg[2]]
      BY <2>6, KeptIs
    <3>4. Outcome(KeptTests[x], s, FlattenExpr[<<x.arg[1], r, succ, r.ip>>])
      BY <2>0, <2>6, <3>1, <3>3, TwoParts
    <3> QED
      BY <3>2, <3>4
  <2>7. CASE x.op = "if"
    <3>1. PICK no : no = FlattenExpr[<<x.arg[3], s, succ, fail>>]
      OBVIOUS
    <3>2. PICK yes : yes = FlattenExpr[<<x.arg[2], no, succ, fail>>]
      OBVIOUS
    <3>3. FlattenExpr[<<x, s, succ, fail>>] = FlattenExpr[<<x.arg[1], yes, yes.ip, no.ip>>]
      BY <2>2, <2>3, <2>7, <3>1, <3>2, OfIf
    <3>4. KeptTests[x] = KeptTests[x.arg[1]] + KeptTests[x.arg[2]] + KeptTests[x.arg[3]]
      BY <2>7, KeptIs
    <3>5. Outcome(KeptTests[x], s, FlattenExpr[<<x.arg[1], yes, yes.ip, no.ip>>])
      BY <2>0, <2>7, <3>1, <3>2, <3>4, ThreeParts
    <3> QED
      BY <3>3, <3>5
  <2> QED
    BY <2>4, <2>5, <2>6, <2>7, PartsAre
<1> HIDE DEF S
<1>2. \A x \in Exprs : x \in S
  BY <1>1, HeightInduction
<1> QED
  BY <1>2 DEF S

-----------------------------------------------------------------------------
(* The entry point: the test that was labelled last, if nothing is         *)
(* decided.                                                                *)

(* r is reached from s by flattening something that fits. *)
Reaches(s, r) == /\ r \in FlattenState /\ Sound(r) /\ r.ip \in Below(r.label) /\ Extends(r, s)
                 /\ Below(s.label) \subseteq Below(r.label)

LEMMA NoTarget ==
  ASSUME NEW x \in Exprs, NEW s \in FlattenState, NEW succ \in Int, NEW fail \in Int,
         FlattenExpr[<<x, s, succ, fail>>].ip # -1
  PROVE  succ >= 0 /\ fail >= 0
<1>1. FlattenExpr[<<x, s, succ, fail>>] = FlattenParts(FlattenExpr, x, s, succ, fail)
      /\ FlattenExpr \in Flatteners
  BY FlattenCall
<1>2. CASE succ < 0 \/ fail < 0
  <2>1. FlattenExpr[<<x, s, succ, fail>>] = TooLong(s)
    BY <1>1, <1>2, OfNone
  <2> QED
    BY <2>1, TooLongTyped
<1> QED
  BY <1>2

LEMMA OneStep ==
  ASSUME NEW x \in Exprs, NEW s \in FlattenState, Sound(s),
         NEW succ \in Below(s.label), NEW fail \in Below(s.label),
         NEW r, r = FlattenExpr[<<x, s, succ, fail>>], r.ip # -1
  PROVE  Reaches(s, r)
<1>1. /\ Outcome(KeptTests[x], s, r) /\ r \in FlattenState /\ r.label \in Nat /\ s.label \in Nat
      /\ KeptTests[x] \in Nat /\ Sound(r) /\ r.ip \in Below(r.label)
  BY AllFlatten, FlattenOne, StateIs
<1>2. Extends(r, s) /\ s.label <= r.label
  BY <1>1 DEF Outcome
<1>3. Below(s.label) \subseteq Below(r.label)
  BY <1>1, <1>2, BelowIs
<1> QED
  BY <1>1, <1>2, <1>3 DEF Reaches

LEMMA AndSteps ==
  ASSUME NEW x \in Exprs, x.op = "and", NEW s \in FlattenState, Sound(s),
         NEW succ \in Below(s.label), NEW fail \in Below(s.label),
         NEW r, r = FlattenExpr[<<x.arg[2], s, succ, fail>>],
         NEW q, q = FlattenExpr[<<x, s, succ, fail>>], q.ip # -1
  PROVE  /\ q = FlattenExpr[<<x.arg[1], r, r.ip, fail>>] /\ r.ip # -1
         /\ Reaches(s, r) /\ Reaches(r, q)
<1>1. succ \in Int /\ fail \in Int /\ succ >= 0 /\ fail >= 0 /\ s.label \in Nat
  BY BelowIs, StateIs
<1>2. x.arg[1] \in Exprs /\ x.arg[2] \in Exprs
  BY PartsAre
<1>3. r \in FlattenState /\ r.ip \in Int
  BY <1>1, <1>2, FlattenCall
<1>4. q = FlattenExpr[<<x.arg[1], r, r.ip, fail>>]
  <2>1. q = FlattenParts(FlattenExpr, x, s, succ, fail) /\ FlattenExpr \in Flatteners
    BY <1>1, FlattenCall
  <2> QED
    BY <1>1, <2>1, OfAnd
<1>5. r.ip # -1
  <2>1. r.ip >= 0
    BY <1>1, <1>2, <1>3, <1>4, NoTarget
  <2> QED
    BY <2>1
<1>6. Reaches(s, r)
  BY <1>2, <1>5, OneStep
<1>7. Reaches(r, q)
  <2>1. Sound(r) /\ r.ip \in Below(r.label) /\ fail \in Below(r.label)
    BY <1>6 DEF Reaches
  <2> QED
    BY <1>2, <1>3, <1>4, <2>1, OneStep
<1> QED
  BY <1>4, <1>5, <1>6, <1>7

LEMMA OrSteps ==
  ASSUME NEW x \in Exprs, x.op = "or", NEW s \in FlattenState, Sound(s),
         NEW succ \in Below(s.label), NEW fail \in Below(s.label),
         NEW r, r = FlattenExpr[<<x.arg[2], s, succ, fail>>],
         NEW q, q = FlattenExpr[<<x, s, succ, fail>>], q.ip # -1
  PROVE  /\ q = FlattenExpr[<<x.arg[1], r, succ, r.ip>>] /\ r.ip # -1
         /\ Reaches(s, r) /\ Reaches(r, q)
<1>1. succ \in Int /\ fail \in Int /\ succ >= 0 /\ fail >= 0 /\ s.label \in Nat
  BY BelowIs, StateIs
<1>2. x.arg[1] \in Exprs /\ x.arg[2] \in Exprs
  BY PartsAre
<1>3. r \in FlattenState /\ r.ip \in Int
  BY <1>1, <1>2, FlattenCall
<1>4. q = FlattenExpr[<<x.arg[1], r, succ, r.ip>>]
  <2>1. q = FlattenParts(FlattenExpr, x, s, succ, fail) /\ FlattenExpr \in Flatteners
    BY <1>1, FlattenCall
  <2> QED
    BY <1>1, <2>1, OfOr
<1>5. r.ip # -1
  <2>1. r.ip >= 0
    BY <1>1, <1>2, <1>3, <1>4, NoTarget
  <2> QED
    BY <2>1
<1>6. Reaches(s, r)
  BY <1>2, <1>5, OneStep
<1>7. Reaches(r, q)
  <2>1. Sound(r) /\ r.ip \in Below(r.label) /\ succ \in Below(r.label)
    BY <1>6 DEF Reaches
  <2>2. PICK p : p = FlattenExpr[<<x.arg[1], r, succ, r.ip>>]
    OBVIOUS
  <2>3. p.ip # -1 => Reaches(r, p)
    BY <1>2, <1>3, <2>1, <2>2, OneStep
  <2> QED
    BY <1>4, <2>2, <2>3
<1> QED
  BY <1>4, <1>5, <1>6, <1>7

LEMMA IfSteps ==
  ASSUME NEW x \in Exprs, x.op = "if", NEW s \in FlattenState, Sound(s),
         NEW succ \in Below(s.label), NEW fail \in Below(s.label),
         NEW no, no = FlattenExpr[<<x.arg[3], s, succ, fail>>],
         NEW yes, yes = FlattenExpr[<<x.arg[2], no, succ, fail>>],
         NEW q, q = FlattenExpr[<<x, s, succ, fail>>], q.ip # -1
  PROVE  /\ q = FlattenExpr[<<x.arg[1], yes, yes.ip, no.ip>>] /\ yes.ip # -1 /\ no.ip # -1
         /\ Reaches(s, no) /\ Reaches(no, yes) /\ Reaches(yes, q)
<1>1. succ \in Int /\ fail \in Int /\ succ >= 0 /\ fail >= 0 /\ s.label \in Nat
  BY BelowIs, StateIs
<1>2. x.arg[1] \in Exprs /\ x.arg[2] \in Exprs /\ x.arg[3] \in Exprs
  BY PartsAre
<1>3. no \in FlattenState /\ no.ip \in Int
  BY <1>1, <1>2, FlattenCall
<1>4. yes \in FlattenState /\ yes.ip \in Int
  BY <1>1, <1>2, <1>3, FlattenCall
<1>5. q = FlattenExpr[<<x.arg[1], yes, yes.ip, no.ip>>]
  <2>1. q = FlattenParts(FlattenExpr, x, s, succ, fail) /\ FlattenExpr \in Flatteners
    BY <1>1, FlattenCall
  <2> QED
    BY <1>1, <2>1, OfIf
<1>6. yes.ip # -1 /\ no.ip # -1
  <2>1. yes.ip >= 0 /\ no.ip >= 0
    BY <1>2, <1>3, <1>4, <1>5, NoTarget
  <2> QED
    BY <2>1
<1>7. Reaches(s, no)
  BY <1>2, <1>6, OneStep
<1>8. Reaches(no, yes)
  <2>1. Sound(no) /\ succ \in Below(no.label) /\ fail \in Below(no.label)
    BY <1>7 DEF Reaches
  <2> QED
    BY <1>2, <1>3, <1>6, <2>1, OneStep
<1>9. Reaches(yes, q)
  <2>1. Sound(yes) /\ yes.ip \in Below(yes.label) /\ no.ip \in Below(yes.label)
    BY <1>7, <1>8 DEF Reaches
  <2>2. PICK p : p = FlattenExpr[<<x.arg[1], yes, yes.ip, no.ip>>]
    OBVIOUS
  <2>3. ASSUME p.ip # -1 PROVE Reaches(yes, p)
    <3>1. PICK c : c = x.arg[1] /\ c \in Exprs
      BY <1>2
    <3>2. p = FlattenExpr[<<c, yes, yes.ip, no.ip>>] /\ yes \in FlattenState
      BY <1>4, <2>2, <3>1
    <3> QED
      BY <2>1, <2>3, <3>1, <3>2, OneStep
  <2> QED
    BY <1>5, <2>2, <2>3
<1> QED
  BY <1>5, <1>6, <1>7, <1>8, <1>9

(* The first test to be run has the last label. *)
EntersLast(x) ==
    \/ x.op = "test" /\ IsDecided(SimplifyTest(x.test))
    \/ \A s \in FlattenState : Sound(s) =>
          \A succ, fail \in Below(s.label) :
              FlattenExpr[<<x, s, succ, fail>>].ip # -1 =>
                  FlattenExpr[<<x, s, succ, fail>>].ip
                  = FlattenExpr[<<x, s, succ, fail>>].label - 1

LEMMA AllEnterLast == ASSUME NothingDecided PROVE \A x \in Exprs : EntersLast(x)
<1> DEFINE S == {x \in Exprs : EntersLast(x)}
<1>1. ASSUME NEW x \in Exprs, \A y \in Exprs : Height(y) < Height(x) => y \in S
      PROVE  x \in S
  <2> SUFFICES ASSUME ~(x.op = "test" /\ IsDecided(SimplifyTest(x.test))),
                      NEW s \in FlattenState, Sound(s),
                      NEW succ \in Below(s.label), NEW fail \in Below(s.label),
                      FlattenExpr[<<x, s, succ, fail>>].ip # -1
               PROVE  FlattenExpr[<<x, s, succ, fail>>].ip = FlattenExpr[<<x, s, succ, fail>>].label - 1
    BY DEF EntersLast
  <2>0. x.op \in {"and", "or", "if"} =>
           /\ x.arg[1] \in Exprs /\ x.arg[2] \in Exprs /\ EntersLast(x.arg[1])
           /\ ~(x.arg[1].op = "test" /\ IsDecided(SimplifyTest(x.arg[1].test)))
    <3>1. x.op \in {"and", "or", "if"} => x.arg[1] \in Parts(x)
      BY DEF Parts
    <3> QED
      BY <1>1, <3>1, PartsAre DEF NothingDecided
  <2> HIDE DEF S
  <2>1. s.label \in Nat /\ filterMaxLen \in Nat
    BY StateIs, MaxLenAssumption
  <2>2. succ \in Int /\ succ >= 0 /\ fail \in Int /\ fail >= 0
    BY <2>1, BelowIs
  <2> DEFINE q == FlattenExpr[<<x, s, succ, fail>>]
  <2>4. CASE x.op = "test"
    <3>a. q = FlattenParts(FlattenExpr, x, s, succ, fail) /\ FlattenExpr \in Flatteners
      BY <2>2, FlattenCall
    <3>1. q = FlattenTest(x.test, s, succ, fail)
      BY <2>2, <2>4, <3>a, OfTest
    <3>2. ~IsDecided(SimplifyTest(x.test)) /\ x.test \in Tests
      BY <2>4, PartsAre
    <3>3. CASE s.label >= filterMaxLen
      <4>1. q = TooLong(s)
        BY <2>2, <3>1, <3>2, <3>3, TestIs
      <4> QED
        BY <4>1, TooLongTyped
    <3>4. CASE s.label < filterMaxLen
      <4>1. q = Kept(x.test, s, succ, fail)
        BY <2>2, <3>1, <3>2, <3>4, TestIs
      <4> QED
        BY <2>1, <4>1 DEF Kept
    <3> QED
      BY <2>1, <3>3, <3>4
  <2>5. CASE x.op = "and"
    <3>1. PICK r : r = FlattenExpr[<<x.arg[2], s, succ, fail>>]
      OBVIOUS
    <3>2. /\ q = FlattenExpr[<<x.arg[1], r, r.ip, fail>>]
          /\ r \in FlattenState /\ Sound(r) /\ r.ip \in Below(r.label) /\ fail \in Below(r.label)
      BY <2>5, <3>1, AndSteps DEF Reaches
    <3> QED
      BY <2>0, <2>5, <3>2 DEF EntersLast
  <2>6. CASE x.op = "or"
    <3>1. PICK r : r = FlattenExpr[<<x.arg[2], s, succ, fail>>]
      OBVIOUS
    <3>2. /\ q = FlattenExpr[<<x.arg[1], r, succ, r.ip>>]
          /\ r \in FlattenState /\ Sound(r) /\ r.ip \in Below(r.label) /\ succ \in Below(r.label)
      BY <2>6, <3>1, OrSteps DEF Reaches
    <3> QED
      BY <2>0, <2>6, <3>2 DEF EntersLast
  <2>7. CASE x.op = "if"
    <3>1. PICK no : no = FlattenExpr[<<x.arg[3], s, succ, fail>>]
      OBVIOUS
    <3>2. PICK yes : yes = FlattenExpr[<<x.arg[2], no, succ, fail>>]
      OBVIOUS
    <3>3. /\ q = FlattenExpr[<<x.arg[1], yes, yes.ip, no.ip>>]
          /\ yes \in FlattenState /\ Sound(yes) /\ yes.ip \in Below(yes.label)
          /\ no.ip \in Below(yes.label)
      BY <2>7, <3>1, <3>2, IfSteps DEF Reaches
    <3> QED
      BY <2>0, <2>7, <3>3 DEF EntersLast
  <2> QED
    BY <2>4, <2>5, <2>6, <2>7, PartsAre
<1> HIDE DEF S
<1>2. \A x \in Exprs : x \in S
  BY <1>1, HeightInduction
<1> QED
  BY <1>2 DEF S

-----------------------------------------------------------------------------
(* The meaning: whatever gives labels their results, the targets of an     *)
(* expression lead to the result that it asks for.                         *)

(* A test that was decided says nothing of the packet. *)
LEMMA DecidedIs ==
  ASSUME NEW t \in Tests, NEW k, k = SimplifyTest(t), IsDecided(k), NEW e
  PROVE  Satisfies(k, e) <=> k.val.word[1] # 0
<1>1. k.kind = "eq" /\ k.var = "true"
  BY DEF IsDecided
<1>2. k.val = Number(0) \/ k.val = Number(1)
  <2>1. CASE HasLimits(t.var) /\ Decision(t) # "open"
    BY <2>1 DEF SimplifyTest
  <2>2. CASE ~(HasLimits(t.var) /\ Decision(t) # "open")
    <3>1. k = t
      BY <2>2 DEF SimplifyTest
    <3>2. t.var = "true" /\ t.kind = "eq"
      BY <1>1, <3>1
    <3>3. HasLimits(t.var)
      BY <3>2 DEF HasLimits, Bounded
    <3>4. Limits("true") = [lb |-> Number(1), ub |-> Number(1)]
      BY DEF Limits, Bits, Nibbles, Bytes, Shorts, Longs, Addresses
    <3>5. t.val \in Numerals /\ Limits("true").lb \in Numerals
      BY <3>2, <3>3, LimitsAre DEF Tests
    <3>6. PICK c : c = compare128(t.val, Limits("true").lb)
      OBVIOUS
    <3>7. c = -1 \/ c = 0 \/ c = 1
      BY <3>5, <3>6, CompareIs
    <3>8. compare128(t.val, Limits(t.var).lb) = c /\ compare128(t.val, Limits(t.var).ub) = c
      BY <3>2, <3>4, <3>6
    <3>9. Decision(t) # "open"
      BY <3>2, <3>7, <3>8 DEF Decision, Decide
    <3> QED
      BY <2>2, <3>3, <3>9
  <2> QED
    BY <2>1, <2>2
<1>3. HasHeader("true", e)
  BY HeaderInNone DEF HasHeader
<1>4. ValueOf("true", e) = Number(1)
  BY DEF ValueOf, Headers
<1>5. Satisfies(k, e) <=> Number(1) = k.val
  BY <1>1, <1>3, <1>4 DEF Satisfies, Passes
<1>6. Number(1) # Number(0) /\ Number(1).word[1] = 1 /\ Number(0).word[1] = 0
  <2>1. Number(1).word = <<1, 0, 0, 0>> /\ Number(0).word = <<0, 0, 0, 0>>
    BY DEF Number
  <2> QED
    BY <2>1
<1> QED
  BY <1>2, <1>5, <1>6

(* W gives each label the result of the run from there: Valued; Out: the   *)
(* result behind a target. *)
Out(W, t) == IF t = Accept THEN "accept" ELSE IF t = Reject THEN "reject" ELSE W[t]
Valued(W, L, e) == \A j \in 1 .. Len(L) : W[j - 1] = Out(W, NextStep(L[j], e))
Within(L, r) == /\ Len(r.stack) <= Len(L)
                /\ \A j \in 1 .. Len(r.stack) : L[j] = r.stack[j]
SuitsAll(e, x) == \A t \in TestsOf[x] : Suits(e, t)
OutOf(W, x, e, succ, fail) == IF Means(x, e) THEN Out(W, succ) ELSE Out(W, fail)

LEMMA WithinBoth ==
  ASSUME NEW L \in Seq(Labelled), NEW r \in FlattenState, NEW q \in FlattenState,
         Within(L, q), Extends(q, r)
  PROVE  Within(L, r)
<1>1. Len(L) \in Nat /\ Len(r.stack) \in Nat /\ Len(q.stack) \in Nat
  BY StateIs
<1> QED
  BY <1>1 DEF Within, Extends

LEMMA TestMeans ==
  ASSUME NEW x \in Exprs, x.op = "test", NEW e, SuitsAll(e, x),
         NEW L \in Seq(Labelled), NEW W, Valued(W, L, e),
         NEW s \in FlattenState, Sound(s), NEW succ \in Below(s.label), NEW fail \in Below(s.label),
         NEW q, q = FlattenTest(x.test, s, succ, fail), q.ip # -1, Within(L, q)
  PROVE  Out(W, q.ip) = OutOf(W, x, e, succ, fail)
<1> DEFINE t == x.test
           k == SimplifyTest(t)
<1>1. /\ s.label \in Nat /\ filterMaxLen \in Nat /\ s.stack \in Seq(Labelled)
      /\ Len(s.stack) \in Nat /\ Len(L) \in Nat
  BY StateIs, MaxLenAssumption
<1>2. succ \in Int /\ fail \in Int /\ t \in Tests
  BY <1>1, BelowIs, PartsAre
<1>3. Means(x, e) <=> Satisfies(k, e)
  <2>1. Suits(e, t)
    BY TestsOfIs DEF SuitsAll
  <2>2. Satisfies(k, e) <=> Satisfies(t, e)
    BY <1>2, <2>1, SimplifyKeeps
  <2> QED
    BY <2>2, MeaningIs
<1>4. CASE IsDecided(k)
  <2>1. q.ip = IF k.val.word[1] # 0 THEN succ ELSE fail
    <3>1. q = [stack |-> s.stack, label |-> s.label, ip |-> IF k.val.word[1] # 0 THEN succ ELSE fail]
      BY <1>2, <1>4, TestIs
    <3> QED
      BY <3>1
  <2>2. Satisfies(k, e) <=> k.val.word[1] # 0
    BY <1>2, <1>4, DecidedIs
  <2> HIDE DEF k
  <2> QED
    BY <1>3, <2>1, <2>2 DEF OutOf
<1>5. CASE ~IsDecided(k) /\ s.label >= filterMaxLen
  <2>1. q = TooLong(s)
    BY <1>2, <1>5, TestIs
  <2> QED
    BY <2>1, TooLongTyped
<1>6. CASE ~IsDecided(k) /\ s.label < filterMaxLen
  <2> DEFINE l == [test |-> k, succ |-> succ, fail |-> fail]
  <2>1. q = Kept(t, s, succ, fail)
    BY <1>2, <1>6, TestIs
  <2>2. q.stack = Append(s.stack, l) /\ q.label = s.label + 1 /\ q.ip = s.label
    BY <2>1 DEF Kept
  <2>3. l \in Labelled /\ l.succ = succ /\ l.fail = fail /\ l.test = k
    BY <1>2, SimplifyTyped DEF Labelled
  <2> HIDE DEF k, l
  <2>4. Len(q.stack) = Len(s.stack) + 1 /\ q.stack[Len(s.stack) + 1] = l
    BY <1>1, <2>2, <2>3
  <2>5. s.label = Len(s.stack)
    BY DEF Sound
  <2>6. s.label + 1 \in 1 .. Len(L) /\ L[s.label + 1] = l
    BY <1>1, <2>4, <2>5 DEF Within
  <2>7. W[s.label] = Out(W, NextStep(l, e))
    <3>1. (s.label + 1) - 1 = s.label
      BY <1>1
    <3> QED
      BY <2>6, <3>1 DEF Valued
  <2>8. NextStep(l, e) = IF Means(x, e) THEN succ ELSE fail
    BY <1>3, <2>3 DEF NextStep
  <2>9. Out(W, q.ip) = W[s.label]
    BY <1>1, <1>6, <2>2, MaxLenAssumption DEF Out, Accept, Reject
  <2> QED
    BY <2>7, <2>8, <2>9 DEF OutOf
<1> QED
  BY <1>1, <1>4, <1>5, <1>6

(* Where the targets of x lead to the results that x asks for. *)
Leads(W, L, e, x) ==
    SuitsAll(e, x) =>
        \A s \in FlattenState : Sound(s) =>
            \A succ, fail \in Below(s.label) :
                \A q : /\ q = FlattenExpr[<<x, s, succ, fail>>]
                       /\ q.ip # -1 /\ Within(L, q)
                       => Out(W, q.ip) = OutOf(W, x, e, succ, fail)

LEMMA LeadsOne ==
  ASSUME NEW W, NEW L, NEW e, NEW x \in Exprs, Leads(W, L, e, x), SuitsAll(e, x),
         NEW s \in FlattenState, Sound(s), NEW succ \in Below(s.label), NEW fail \in Below(s.label),
         NEW q, q = FlattenExpr[<<x, s, succ, fail>>], q.ip # -1, Within(L, q)
  PROVE  Out(W, q.ip) = OutOf(W, x, e, succ, fail)
  BY DEF Leads

LEMMA AllLead ==
  ASSUME NEW e, NEW L \in Seq(Labelled), NEW W, Valued(W, L, e)
  PROVE  \A x \in Exprs : Leads(W, L, e, x)
<1> DEFINE S == {x \in Exprs : Leads(W, L, e, x)}
<1>1. ASSUME NEW x \in Exprs, \A y \in Exprs : Height(y) < Height(x) => y \in S
      PROVE  x \in S
  <2> SUFFICES ASSUME SuitsAll(e, x), NEW s \in FlattenState, Sound(s),
                      NEW succ \in Below(s.label), NEW fail \in Below(s.label),
                      NEW q, q = FlattenExpr[<<x, s, succ, fail>>], q.ip # -1, Within(L, q)
               PROVE  Out(W, q.ip) = OutOf(W, x, e, succ, fail)
    BY DEF Leads
  <2>0. /\ x.op \in {"and", "or", "if"} =>
              /\ x.arg[1] \in Exprs /\ Leads(W, L, e, x.arg[1]) /\ SuitsAll(e, x.arg[1])
              /\ x.arg[2] \in Exprs /\ Leads(W, L, e, x.arg[2]) /\ SuitsAll(e, x.arg[2])
        /\ x.op = "if" =>
              x.arg[3] \in Exprs /\ Leads(W, L, e, x.arg[3]) /\ SuitsAll(e, x.arg[3])
    <3>1. /\ x.op \in {"and", "or", "if"} => SuitsAll(e, x.arg[1]) /\ SuitsAll(e, x.arg[2])
          /\ x.op = "if" => SuitsAll(e, x.arg[3])
      BY TestsOfIs DEF SuitsAll
    <3> QED
      BY <1>1, <3>1, PartsAre
  <2> HIDE DEF S
  <2>1. s.label \in Nat
    BY StateIs
  <2>2. succ \in Int /\ succ >= 0 /\ fail \in Int /\ fail >= 0
    BY <2>1, BelowIs
  <2>4. CASE x.op = "test"
    <3>1. q = FlattenParts(FlattenExpr, x, s, succ, fail) /\ FlattenExpr \in Flatteners
      BY <2>2, FlattenCall
    <3>2. q = FlattenTest(x.test, s, succ, fail)
      BY <2>2, <2>4, <3>1, OfTest
    <3> QED
      BY <2>4, <3>2, TestMeans
  <2>5. CASE x.op = "and"
    <3>1. PICK r : r = FlattenExpr[<<x.arg[2], s, succ, fail>>]
      OBVIOUS
    <3>2. /\ q = FlattenExpr[<<x.arg[1], r, r.ip, fail>>] /\ r.ip # -1
          /\ Reaches(s, r) /\ Reaches(r, q)
      BY <2>5, <3>1, AndSteps
    <3>3. /\ r \in FlattenState /\ Sound(r) /\ r.ip \in Below(r.label) /\ fail \in Below(r.label)
          /\ Within(L, r)
      BY <3>2, WithinBoth DEF Reaches
    <3>4. Out(W, r.ip) = OutOf(W, x.arg[2], e, succ, fail)
      BY <2>0, <2>5, <3>1, <3>2, <3>3, LeadsOne
    <3>5. Out(W, q.ip) = OutOf(W, x.arg[1], e, r.ip, fail)
      BY <2>0, <2>5, <3>2, <3>3, LeadsOne
    <3>6. Means(x, e) <=> Means(x.arg[1], e) /\ Means(x.arg[2], e)
      BY <2>5, MeaningIs
    <3> QED
      BY <3>4, <3>5, <3>6 DEF OutOf
  <2>6. CASE x.op = "or"
    <3>1. PICK r : r = FlattenExpr[<<x.arg[2], s, succ, fail>>]
      OBVIOUS
    <3>2. /\ q = FlattenExpr[<<x.arg[1], r, succ, r.ip>>] /\ r.ip # -1
          /\ Reaches(s, r) /\ Reaches(r, q)
      BY <2>6, <3>1, OrSteps
    <3>3. /\ r \in FlattenState /\ Sound(r) /\ r.ip \in Below(r.label) /\ succ \in Below(r.label)
          /\ Within(L, r)
      BY <3>2, WithinBoth DEF Reaches
    <3>4. Out(W, r.ip) = OutOf(W, x.arg[2], e, succ, fail)
      BY <2>0, <2>6, <3>1, <3>2, <3>3, LeadsOne
    <3>5. Out(W, q.ip) = OutOf(W, x.arg[1], e, succ, r.ip)
      BY <2>0, <2>6, <3>2, <3>3, LeadsOne
    <3>6. Means(x, e) <=> Means(x.arg[1], e) \/ Means(x.arg[2], e)
      BY <2>6, MeaningIs
    <3> QED
      BY <3>4, <3>5, <3>6 DEF OutOf
  <2>7. CASE x.op = "if"
    <3>1. PICK no : no = FlattenExpr[<<x.arg[3], s, succ, fail>>]
      OBVIOUS
    <3>2. PICK yes : yes = FlattenExpr[<<x.arg[2], no, succ, fail>>]
      OBVIOUS
    <3>3. /\ q = FlattenExpr[<<x.arg[1], yes, yes.ip, no.ip>>] /\ yes.ip # -1 /\ no.ip # -1
          /\ Reaches(s, no) /\ Reaches(no, yes) /\ Reaches(yes, q)
      BY <2>7, <3>1, <3>2, IfSteps, SMTT(60)
    <3>4. /\ yes \in FlattenState /\ Sound(yes) /\ yes.ip \in Below(yes.label)
          /\ no.ip \in Below(yes.label) /\ Within(L, yes)
      BY <3>3, WithinBoth DEF Reaches
    <3>5. /\ no \in FlattenState /\ Sound(no) /\ Within(L, no)
          /\ succ \in Below(no.label) /\ fail \in Below(no.label)
      BY <3>3, <3>4, WithinBoth DEF Reaches
    <3>6. Out(W, no.ip) = OutOf(W, x.arg[3], e, succ, fail)
      BY <2>0, <2>7, <3>1, <3>3, <3>5, LeadsOne, SMTT(60)
    <3>7. Out(W, yes.ip) = OutOf(W, x.arg[2], e, succ, fail)
      BY <2>0, <2>7, <3>2, <3>3, <3>4, <3>5, LeadsOne, SMTT(60)
    <3>8. Out(W, q.ip) = OutOf(W, x.arg[1], e, yes.ip, no.ip)
      BY <2>0, <2>7, <3>3, <3>4, LeadsOne, SMTT(60)
    <3>9. Means(x, e) <=> IF Means(x.arg[1], e) THEN Means(x.arg[2], e) ELSE Means(x.arg[3], e)
      BY <2>7, MeaningIs
    <3> QED
      BY <3>6, <3>7, <3>8, <3>9 DEF OutOf
  <2> QED
    BY <2>4, <2>5, <2>6, <2>7, PartsAre
<1> HIDE DEF S
<1>2. \A x \in Exprs : x \in S
  BY <1>1, HeightInduction
<1> QED
  BY <1>2 DEF S

-----------------------------------------------------------------------------
(* The program: the list turned around, and its run.                       *)

LEMMA SmallModulo == ASSUME NEW d \in Int, 0 <= d, d < 65536 PROVE d % 65536 = d
  OBVIOUS

(* The position of a label: no two of them wrap round to the same. *)
LEMMA TargetIs ==
  ASSUME NEW n \in 1 .. filterMaxLen, NEW j \in 1 .. n, NEW t \in Below(j - 1)
  PROVE  /\ t \in {Accept, Reject} => Target(t, n - 1) = t
         /\ t \notin {Accept, Reject} => /\ t \in 0 .. j - 2 /\ Target(t, n - 1) = n - 1 - t
                                         /\ n - j < n - 1 - t /\ n - 1 - t < n
                                         /\ n - 1 - t \notin {Accept, Reject}
<1>1. filterMaxLen \in Nat /\ filterMaxLen < Accept /\ n \in Nat /\ j \in Nat
  BY MaxLenAssumption DEF Accept
<1>2. CASE t \in {Accept, Reject}
  BY <1>2 DEF Target
<1>3. CASE t \notin {Accept, Reject}
  <2>1. t \in 0 .. j - 2 /\ t \in Nat
    BY <1>1, <1>3 DEF Below
  <2>2. PICK d \in Int : d = n - 1 - t
    BY <1>1, <2>1
  <2>a. 0 <= d /\ d < 65536 /\ d < Accept
    BY <1>1, <2>1, <2>2 DEF Accept
  <2>3. Target(t, n - 1) = n - 1 - t
    <3>1. d % 65536 = d
      BY <2>a, SmallModulo
    <3>2. Target(t, n - 1) = (n - 1 - t) % 65536
      BY <1>3 DEF Target
    <3> QED
      BY <2>2, <3>1, <3>2
  <2>4. n - j < n - 1 - t /\ n - 1 - t < n
    BY <1>1, <2>1
  <2>5. n - 1 - t \notin {Accept, Reject}
    <3>1. d # Accept /\ d # Reject
      BY <2>a DEF Accept, Reject
    <3> QED
      BY <2>2, <3>1
  <2> QED
    BY <1>3, <2>1, <2>3, <2>4, <2>5
<1> QED
  BY <1>2, <1>3

LEMMA TargetTyped == \A t, offset \in Int : Target(t, offset) \in Int
<1> SUFFICES ASSUME NEW t \in Int, NEW offset \in Int PROVE Target(t, offset) \in Int
  OBVIOUS
<1>1. (offset - t) % 65536 \in Int
  OBVIOUS
<1> QED
  BY <1>1 DEF Target

(* Each test of the list goes to one that was labelled before it. *)
Jumps(L) == \A j \in 1 .. Len(L) : L[j].succ \in Below(j - 1) /\ L[j].fail \in Below(j - 1)

(* The program: the list turned around, with positions for labels. *)
Turned(p, L, n) ==
    /\ p \in Seq(Labelled) /\ Len(p) = n
    /\ \A k \in 1 .. n : /\ n + 1 - k \in 1 .. n
                         /\ p[k].test = L[n + 1 - k].test
                         /\ p[k].succ = Target(L[n + 1 - k].succ, n - 1)
                         /\ p[k].fail = Target(L[n + 1 - k].fail, n - 1)

LEMMA EmitIs ==
  ASSUME NEW L \in Seq(Labelled), NEW n \in 1 .. filterMaxLen, Len(L) = n,
         NEW p, p = EmitFilter(L, n - 1)
  PROVE  Turned(p, L, n)
<1>1. n \in Nat /\ filterMaxLen \in Nat /\ filterMaxLen < Accept
  BY MaxLenAssumption DEF Accept
<1>2. n - 1 \notin {Accept, Reject}
  BY <1>1 DEF Accept, Reject
<1> DEFINE l(k) == L[n + 1 - k]
           m(k) == [test |-> l(k).test, succ |-> Target(l(k).succ, n - 1),
                    fail |-> Target(l(k).fail, n - 1)]
<1>3. ASSUME NEW k \in 1 .. n
      PROVE  /\ n + 1 - k \in 1 .. n
             /\ [l(k) EXCEPT !.succ = Target(@, n - 1), !.fail = Target(@, n - 1)] = m(k)
             /\ m(k) \in Labelled
  <2>1. n + 1 - k \in 1 .. n
    BY <1>1
  <2>2. l(k) \in Labelled
    BY <1>1, <2>1
  <2> HIDE DEF l
  <2>3. PICK a \in Labelled : a = l(k)
    BY <2>2
  <2>4. a = [test |-> a.test, succ |-> a.succ, fail |-> a.fail]
        /\ a.test \in Tests /\ a.succ \in Int /\ a.fail \in Int
    BY DEF Labelled
  <2> DEFINE b == [a EXCEPT !.succ = Target(a.succ, n - 1)]
  <2>5. [a EXCEPT !.succ = Target(@, n - 1), !.fail = Target(@, n - 1)]
        = [b EXCEPT !.fail = Target(a.fail, n - 1)]
    BY <2>4
  <2>6. b = [test |-> a.test, succ |-> Target(a.succ, n - 1), fail |-> a.fail]
    BY <2>4
  <2>7. [a EXCEPT !.succ = Target(@, n - 1), !.fail = Target(@, n - 1)]
        = [test |-> a.test, succ |-> Target(a.succ, n - 1), fail |-> Target(a.fail, n - 1)]
    <3> HIDE DEF b
    <3> QED
      BY <2>5, <2>6
  <2>8. Target(a.succ, n - 1) \in Int /\ Target(a.fail, n - 1) \in Int
    BY <1>1, <2>4, TargetTyped
  <2>10. m(k) \in Labelled
    BY <2>3, <2>4, <2>8 DEF Labelled
  <2> QED
    BY <2>1, <2>3, <2>7, <2>10
<1>4. p = [k \in 1 .. n |-> m(k)]
  <2>1. p = [k \in 1 .. n |-> [l(k) EXCEPT !.succ = Target(@, n - 1), !.fail = Target(@, n - 1)]]
    BY <1>1, <1>2 DEF EmitFilter
  <2> HIDE DEF l, m
  <2> QED
    BY <1>3, <2>1
<1>5. ASSUME NEW k \in 1 .. n PROVE p[k] = m(k) /\ p[k] \in Labelled
  <2> HIDE DEF l, m
  <2> QED
    BY <1>3, <1>4
<1>6. p \in [1 .. n -> Labelled]
  <2>1. DOMAIN p = 1 .. n /\ p = [k \in 1 .. n |-> p[k]]
    <3> HIDE DEF l, m
    <3> QED
      BY <1>4
  <2> HIDE DEF l, m
  <2> QED
    BY <1>5, <2>1
<1>7. p \in Seq(Labelled) /\ Len(p) = n
  BY <1>1, <1>6
<1>8. ASSUME NEW k \in 1 .. n
      PROVE  /\ p[k].test = L[n + 1 - k].test
             /\ p[k].succ = Target(L[n + 1 - k].succ, n - 1)
             /\ p[k].fail = Target(L[n + 1 - k].fail, n - 1)
  <2>1. p[k] = [test |-> L[n + 1 - k].test, succ |-> Target(L[n + 1 - k].succ, n - 1),
                fail |-> Target(L[n + 1 - k].fail, n - 1)]
    BY <1>5
  <2> QED
    BY <2>1
<1> QED
  BY <1>3, <1>7, <1>8 DEF Turned

(* No jump of the program leads backwards or out of it. *)
LEMMA EmitForward ==
  ASSUME NEW L \in Seq(Labelled), NEW n \in 1 .. filterMaxLen, Len(L) = n, Jumps(L),
         NEW p, p = EmitFilter(L, n - 1)
  PROVE  \A k \in DOMAIN p : \A t \in {p[k].succ, p[k].fail} :
            t \in {Accept, Reject} \/ (k - 1 < t /\ t < Len(p))
<1>0. Turned(p, L, n)
  BY EmitIs
<1>2. /\ p \in Seq(Labelled) /\ Len(p) = n
      /\ \A k \in 1 .. n : /\ n + 1 - k \in 1 .. n
                           /\ p[k].test = L[n + 1 - k].test
                           /\ p[k].succ = Target(L[n + 1 - k].succ, n - 1)
                           /\ p[k].fail = Target(L[n + 1 - k].fail, n - 1)
  BY <1>0 DEF Turned
<1>3. filterMaxLen \in Nat /\ n \in Nat
  BY MaxLenAssumption
<1>4. ASSUME NEW k \in 1 .. n, NEW t \in Below(n - k)
      PROVE  Target(t, n - 1) \in {Accept, Reject}
             \/ (k - 1 < Target(t, n - 1) /\ Target(t, n - 1) < n)
  <2>1. PICK j \in 1 .. n : j = n + 1 - k
    BY <1>2
  <2>2. j - 1 = n - k /\ n - j = k - 1
    BY <1>2, <1>3, <2>1
  <2>3. t \in Below(j - 1)
    BY <2>2
  <2>4. CASE t \in {Accept, Reject}
    <3>1. Target(t, n - 1) = t
      BY <2>3, <2>4, TargetIs
    <3> QED
      BY <2>4, <3>1
  <2>5. CASE t \notin {Accept, Reject}
    <3>1. Target(t, n - 1) = n - 1 - t /\ n - j < n - 1 - t /\ n - 1 - t < n
      BY <2>3, <2>5, TargetIs
    <3> QED
      BY <2>2, <3>1
  <2> QED
    BY <2>4, <2>5
<1>5. ASSUME NEW k \in 1 .. n
      PROVE  L[n + 1 - k].succ \in Below(n - k) /\ L[n + 1 - k].fail \in Below(n - k)
  <2>1. PICK j \in 1 .. n : j = n + 1 - k
    BY <1>2
  <2>2. j - 1 = n - k
    BY <1>2, <1>3, <2>1
  <2> QED
    BY <1>3, <2>1, <2>2 DEF Jumps
<1>6. DOMAIN p = 1 .. n
  BY <1>2
<1> SUFFICES ASSUME NEW k \in 1 .. n, NEW t \in {p[k].succ, p[k].fail}
             PROVE  t \in {Accept, Reject} \/ (k - 1 < t /\ t < n)
  BY <1>2, <1>6
<1>7. CASE t = p[k].succ
  BY <1>2, <1>4, <1>5, <1>7
<1>8. CASE t = p[k].fail
  BY <1>2, <1>4, <1>5, <1>8
<1> QED
  BY <1>7, <1>8

(* The run from a position gives what its label stands for. *)
LEMMA EmitValued ==
  ASSUME NEW L \in Seq(Labelled), NEW n \in 1 .. filterMaxLen, Len(L) = n, Jumps(L),
         NEW p, p = EmitFilter(L, n - 1), NEW e,
         NEW W, W = [t \in 0 .. n - 1 |-> RunFrom(p, e)[n - 1 - t]]
  PROVE  Valued(W, L, e) /\ Out(W, n - 1) = Run(p, e)
<1>0. Turned(p, L, n)
  BY EmitIs
<1>1. /\ p \in Seq(Labelled) /\ Len(p) = n
      /\ \A k \in 1 .. n : /\ n + 1 - k \in 1 .. n
                           /\ p[k].test = L[n + 1 - k].test
                           /\ p[k].succ = Target(L[n + 1 - k].succ, n - 1)
                           /\ p[k].fail = Target(L[n + 1 - k].fail, n - 1)
  BY <1>0 DEF Turned
<1>2. filterMaxLen \in Nat /\ filterMaxLen < Accept /\ n \in Nat
  BY MaxLenAssumption DEF Accept
<1>3. ASSUME NEW j \in 1 .. n PROVE W[j - 1] = Out(W, NextStep(L[j], e))
  <2>1. PICK k \in 1 .. n : k = n + 1 - j /\ n + 1 - k = j
    BY <1>2
  <2>2. PICK t : t = NextStep(L[j], e)
    OBVIOUS
  <2>3. t \in Below(j - 1)
    BY <1>2, <2>2 DEF NextStep, Jumps
  <2>4. NextStep(p[k], e) = Target(t, n - 1)
    BY <1>1, <2>1, <2>2 DEF NextStep
  <2>5. W[j - 1] = RunFrom(p, e)[n - j]
    <3>1. j - 1 \in 0 .. n - 1 /\ n - 1 - (j - 1) = n - j
      BY <1>2
    <3> QED
      BY <3>1
  <2>6. n - j \in 0 .. Len(p) - 1 /\ (n - j) + 1 = k
    BY <1>1, <1>2, <2>1
  <2>7. RunFrom(p, e)[n - j] = Goes(p, e, RunFrom(p, e), n - j)
    BY <1>1, <2>6, RunFromIs
  <2>8. CASE t = Accept
    <3>1. NextStep(p[k], e) = Accept
      BY <2>3, <2>4, <2>8, <1>1, TargetIs
    <3> QED
      BY <2>2, <2>5, <2>6, <2>7, <2>8, <3>1 DEF Goes, Out
  <2>9. CASE t = Reject
    <3>1. NextStep(p[k], e) = Reject
      BY <2>3, <2>4, <2>9, <1>1, TargetIs
    <3>2. Accept # Reject
      BY DEF Accept, Reject
    <3> QED
      BY <2>2, <2>5, <2>6, <2>7, <2>9, <3>1, <3>2 DEF Goes, Out
  <2>10. CASE t \notin {Accept, Reject}
    <3>1. /\ t \in 0 .. j - 2 /\ NextStep(p[k], e) = n - 1 - t
          /\ n - j < n - 1 - t /\ n - 1 - t < n /\ n - 1 - t \notin {Accept, Reject}
      BY <2>3, <2>4, <2>10, <1>1, TargetIs
    <3>2. Goes(p, e, RunFrom(p, e), n - j) = RunFrom(p, e)[n - 1 - t]
      BY <1>1, <2>6, <3>1 DEF Goes
    <3>3. W[t] = RunFrom(p, e)[n - 1 - t]
      BY <1>2, <3>1
    <3> QED
      BY <2>2, <2>5, <2>7, <2>10, <3>2, <3>3 DEF Out
  <2> QED
    BY <2>8, <2>9, <2>10
<1>4. Valued(W, L, e)
  BY <1>2, <1>3 DEF Valued
<1>5. Out(W, n - 1) = W[n - 1]
  BY <1>1, <1>2 DEF Out, Accept, Reject
<1>6. W[n - 1] = RunFrom(p, e)[0]
  <2>1. n - 1 \in 0 .. n - 1 /\ n - 1 - (n - 1) = 0
    BY <1>1, <1>2
  <2> QED
    BY <2>1
<1> QED
  BY <1>4, <1>5, <1>6, RunIs

-----------------------------------------------------------------------------
(* The code generator.                                                     *)

(* What the expression is flattened into. *)
Flat(x) == FlattenExpr[<<x, Empty, Accept, Reject>>]

LEMMA EmptySound ==
    /\ Empty \in FlattenState /\ Sound(Empty) /\ Empty.label = 0 /\ Empty.stack = <<>>
    /\ Accept \in Below(Empty.label) /\ Reject \in Below(Empty.label)
    /\ Accept \in Int /\ Reject \in Int /\ Accept # Reject /\ Accept > 0 /\ Reject > 0
<1>1. Empty.label = 0 /\ Empty.stack = <<>> /\ Empty.ip = 0
  BY DEF Empty
<1>2. Empty \in FlattenState
  BY DEF Empty, FlattenState
<1>3. Sound(Empty)
  BY <1>1, MaxLenAssumption DEF Sound
<1> QED
  BY <1>1, <1>2, <1>3 DEF Below, Accept, Reject

LEMMA FlatIs ==
  ASSUME NEW x \in Exprs
  PROVE  /\ Flat(x) \in FlattenState /\ Flat(x).label \in Nat /\ Flat(x).ip \in Int
         /\ Flat(x).ip < 0 => Flat(x).ip = -1 /\ KeptTests[x] > filterMaxLen
         /\ Flat(x).ip >= 0 =>
               /\ Flat(x).ip \in Below(Flat(x).label) /\ Sound(Flat(x))
               /\ Flat(x).label = KeptTests[x] /\ Len(Flat(x).stack) = KeptTests[x]
               /\ KeptTests[x] <= filterMaxLen /\ KeptTests[x] \in Nat
<1>1. PICK r : r = Flat(x)
  OBVIOUS
<1>2. Outcome(KeptTests[x], Empty, r) /\ r \in FlattenState /\ r.label \in Nat /\ r.ip \in Int
      /\ KeptTests[x] \in Nat
  BY <1>1, AllFlatten, EmptySound, FlattenOne DEF Flat
<1>3. CASE r.ip = -1 /\ Empty.label + KeptTests[x] > filterMaxLen
  BY <1>1, <1>2, <1>3, EmptySound
<1>4. CASE r.ip \in Below(r.label) /\ Sound(r) /\ r.label = Empty.label + KeptTests[x]
  <2>1. r.label = KeptTests[x] /\ r.ip >= 0
    BY <1>2, <1>4, EmptySound, BelowIs
  <2> QED
    BY <1>1, <1>2, <1>4, <2>1 DEF Sound
<1> QED
  BY <1>2, <1>3, <1>4 DEF Outcome

(* The entry point of an expression of which nothing is decided. *)
LEMMA EntryIs ==
  ASSUME NothingDecided, NEW x \in Exprs, Flat(x).ip >= 0
  PROVE  \/ Flat(x).ip \in {Accept, Reject} /\ Flat(x).stack = <<>>
         \/ /\ Flat(x).ip \notin {Accept, Reject}
            /\ Flat(x).ip = Flat(x).label - 1 /\ Flat(x).label \in 1 .. filterMaxLen
<1>1. PICK r : r = Flat(x)
  OBVIOUS
<1>2. /\ r \in FlattenState /\ r.label \in Nat /\ r.ip \in Int
      /\ r.ip \in Below(r.label) /\ Sound(r) /\ r.label <= filterMaxLen /\ Len(r.stack) = r.label
      /\ filterMaxLen \in Nat /\ filterMaxLen < Accept
  BY <1>1, FlatIs, MaxLenAssumption DEF Accept
<1>3. CASE x.op = "test" /\ IsDecided(SimplifyTest(x.test))
  <2>1. r = FlattenParts(FlattenExpr, x, Empty, Accept, Reject) /\ FlattenExpr \in Flatteners
    BY <1>1, EmptySound, FlattenCall DEF Flat
  <2>2. r = FlattenTest(x.test, Empty, Accept, Reject)
    BY <1>3, <2>1, EmptySound, OfTest
  <2>3. x.test \in Tests
    BY <1>3, PartsAre
  <2>4. r = [stack |-> Empty.stack, label |-> Empty.label,
             ip |-> IF SimplifyTest(x.test).val.word[1] # 0 THEN Accept ELSE Reject]
    BY <1>3, <2>2, <2>3, EmptySound, TestIs
  <2> QED
    BY <1>1, <2>4, EmptySound
<1>4. CASE ~(x.op = "test" /\ IsDecided(SimplifyTest(x.test)))
  <2>1. r.ip = r.label - 1
    <3>1. EntersLast(x)
      BY AllEnterLast
    <3>2. r.ip # -1
      BY <1>1, <1>2
    <3> QED
      BY <1>1, <1>4, <3>1, <3>2, EmptySound DEF EntersLast, Flat
  <2>2. r.label >= 1
    BY <1>1, <1>2, <2>1
  <2>3. r.ip \notin {Accept, Reject}
    BY <1>2, <2>1 DEF Accept, Reject
  <2> QED
    BY <1>1, <1>2, <2>1, <2>2, <2>3
<1> QED
  BY <1>3, <1>4

(* The program says of a packet what the filter says. *)
LEMMA ProgramMeans ==
  ASSUME NothingDecided, NEW x \in Exprs, Flat(x).ip >= 0, NEW e \in Packets(x),
         NEW p, p = EmitFilter(Flat(x).stack, Flat(x).ip)
  PROVE  Run(p, e) = IF Means(x, e) THEN "accept" ELSE "reject"
<1>1. PICK r : r = Flat(x)
  OBVIOUS
<1>2. /\ r \in FlattenState /\ r.label \in Nat /\ r.ip \in Int /\ r.ip # -1
      /\ r.stack \in Seq(Labelled) /\ Sound(r) /\ Len(r.stack) = r.label
  BY <1>1, FlatIs, StateIs DEF Sound
<1>3. SuitsAll(e, x)
  BY PacketsAssumption DEF SuitsAll
<1>4. Within(r.stack, r)
  BY <1>2 DEF Within
<1>5. ASSUME NEW W, Valued(W, r.stack, e)
      PROVE  Out(W, r.ip) = IF Means(x, e) THEN "accept" ELSE "reject"
  <2>1. Leads(W, r.stack, e, x)
    BY <1>2, <1>5, AllLead
  <2>2. Out(W, r.ip) = OutOf(W, x, e, Accept, Reject)
    BY <1>1, <1>2, <1>3, <1>4, <2>1, EmptySound, LeadsOne DEF Flat
  <2>3. Out(W, Accept) = "accept" /\ Out(W, Reject) = "reject"
    BY EmptySound DEF Out
  <2> QED
    BY <2>2, <2>3 DEF OutOf
<1>6. CASE r.ip \in {Accept, Reject} /\ r.stack = <<>>
  <2>1. PICK W : W = <<>>
    OBVIOUS
  <2>2. Valued(W, r.stack, e)
    BY <1>6 DEF Valued
  <2>3. Out(W, r.ip) = IF Means(x, e) THEN "accept" ELSE "reject"
    BY <1>5, <2>2
  <2>4. p = <<Constant(r.ip)>>
    BY <1>1, <1>6 DEF EmitFilter
  <2>5. Constant(r.ip) \in Labelled /\ NextStep(Constant(r.ip), e) = r.ip
    <3>1. 0 \in 0 .. WordMax
      BY WordAssumption
    <3>2. Number(0) = Plain(0, 0, 0, 0)
      BY DEF Number, Plain
    <3>3. Number(0) \in Numerals
      BY <3>1, <3>2, PlainIs
    <3>4. [var |-> "zero", kind |-> "eq", val |-> Number(0)] \in Tests
      BY <3>3 DEF Tests, Kinds, Variables, Bounded
    <3> QED
      BY <1>2, <3>4 DEF Constant, Labelled, NextStep
  <2>6. p \in Seq(Labelled) /\ 0 \in 0 .. Len(p) - 1 /\ p[0 + 1] = Constant(r.ip)
    BY <2>4, <2>5
  <2>7. RunFrom(p, e)[0] = Goes(p, e, RunFrom(p, e), 0)
    BY <2>6, RunFromIs
  <2>8. Goes(p, e, RunFrom(p, e), 0) = Out(W, r.ip)
    BY <1>6, <2>5, <2>6 DEF Goes, Out
  <2> QED
    BY <2>3, <2>7, <2>8, RunIs
<1>7. CASE r.ip \notin {Accept, Reject} /\ r.ip = r.label - 1 /\ r.label \in 1 .. filterMaxLen
  <2>1. PICK n \in 1 .. filterMaxLen : n = r.label
    BY <1>7
  <2>2. PICK W : W = [t \in 0 .. n - 1 |-> RunFrom(p, e)[n - 1 - t]]
    OBVIOUS
  <2>3. p = EmitFilter(r.stack, n - 1) /\ Len(r.stack) = n /\ r.ip = n - 1
    BY <1>1, <1>2, <1>7, <2>1
  <2>4. Jumps(r.stack)
    BY <1>2 DEF Jumps, Sound
  <2>5. Valued(W, r.stack, e) /\ Out(W, n - 1) = Run(p, e)
    BY <1>2, <2>2, <2>3, <2>4, EmitValued
  <2> QED
    BY <1>5, <2>3, <2>5
<1> QED
  BY <1>1, <1>6, <1>7, EntryIs

(* The list and the program are those of the expression. *)
FlattenInv ==
    /\ expr \in Exprs
    /\ emitting \in {"flatten", "tooLong", "emit", "done"}
    /\ emitting # "flatten" => list = Flat(expr).stack /\ ipEP = Flat(expr).ip
    /\ emitting = "tooLong" => ipEP < 0
    /\ emitting \in {"emit", "done"} => ipEP >= 0
    /\ emitting = "done" => object = EmitFilter(list, ipEP)

LEMMA FlattenInvHolds == FlattenSpec => []FlattenInv
<1>1. FlattenInit => FlattenInv
  BY DEF FlattenInit, FlattenInv
<1>2. ASSUME FlattenInv, [FlattenNext]_emitVars PROVE FlattenInv'
  <2>1. CASE Flatten
    <3>1. list' = Flat(expr).stack /\ ipEP' = Flat(expr).ip /\ expr' = expr
          /\ emitting' = IF Flat(expr).ip < 0 THEN "tooLong" ELSE "emit"
      BY <2>1 DEF Flatten, Flat
    <3>2. expr \in Exprs /\ Flat(expr).ip \in Int
      BY <1>2, FlatIs DEF FlattenInv
    <3> QED
      BY <3>1, <3>2 DEF FlattenInv
  <2>2. CASE Emit
    BY <1>2, <2>2 DEF Emit, FlattenInv
  <2>3. CASE UNCHANGED emitVars
    BY <1>2, <2>3 DEF emitVars, FlattenInv
  <2> QED
    BY <1>2, <2>1, <2>2, <2>3 DEF FlattenNext
<1> QED
  BY <1>1, <1>2, PTL DEF FlattenSpec

(* For every filter and every limit: a filter is refused as too long       *)
(* exactly when more tests are kept of it than the limit allows, and a     *)
(* program holds each of them once.                                        *)
THEOREM LengthAlwaysExact == FlattenSpec => []LengthIsExact
<1>1. ASSUME FlattenInv PROVE LengthIsExact
  <2>1. CASE emitting = "tooLong"
    BY <1>1, <2>1, FlatIs DEF FlattenInv, LengthIsExact
  <2>2. CASE emitting = "done"
    <3>1. /\ list = Flat(expr).stack /\ ipEP = Flat(expr).ip /\ object = EmitFilter(list, ipEP)
          /\ KeptTests[expr] <= filterMaxLen /\ KeptTests[expr] \in Nat
          /\ Len(list) = KeptTests[expr] /\ list \in Seq(Labelled)
      BY <1>1, <2>2, FlatIs, StateIs DEF FlattenInv
    <3>2. ipEP \notin {Accept, Reject} => Len(object) = KeptTests[expr]
      <4> SUFFICES ASSUME ipEP \notin {Accept, Reject} PROVE Len(object) = KeptTests[expr]
        OBVIOUS
      <4>1. PICK n \in Nat : n = Len(list)
        BY <3>1
      <4>2. object = [k \in 1 .. n |->
               [list[n + 1 - k] EXCEPT !.succ = Target(@, ipEP), !.fail = Target(@, ipEP)]]
        BY <3>1, <4>1 DEF EmitFilter
      <4> DEFINE U == {object[k] : k \in 1 .. n}
      <4>3. object \in [1 .. n -> U]
        BY <4>2
      <4> HIDE DEF U
      <4>4. Len(object) = n
        BY <4>3
      <4> QED
        BY <3>1, <4>1, <4>4
    <3> QED
      BY <2>2, <3>1, <3>2 DEF LengthIsExact
  <2>3. CASE emitting \notin {"tooLong", "done"}
    BY <2>3 DEF LengthIsExact
  <2> QED
    BY <2>1, <2>2, <2>3
<1> QED
  BY <1>1, FlattenInvHolds, PTL

(* For every filter of which no part is decided at compile time: no jump   *)
(* of its program leads backwards or out of it.                            *)
THEOREM JumpsAlwaysForward == ASSUME NothingDecided PROVE FlattenSpec => []JumpsForward
<1>1. ASSUME FlattenInv PROVE JumpsForward
  <2> SUFFICES ASSUME emitting = "done"
               PROVE  \A k \in DOMAIN object : \A t \in {object[k].succ, object[k].fail} :
                         t \in {Accept, Reject} \/ (k - 1 < t /\ t < Len(object))
    BY DEF JumpsForward
  <2>1. PICK r : r = Flat(expr)
    OBVIOUS
  <2>2. /\ r \in FlattenState /\ r.ip \in Int /\ r.ip >= 0 /\ object = EmitFilter(r.stack, r.ip)
        /\ r.stack \in Seq(Labelled) /\ Sound(r) /\ Len(r.stack) = r.label
    BY <1>1, <2>1, FlatIs, StateIs DEF FlattenInv, Sound
  <2>3. CASE r.ip \in {Accept, Reject}
    <3>1. object = <<Constant(r.ip)>> /\ Constant(r.ip).succ = r.ip /\ Constant(r.ip).fail = r.ip
      BY <2>2, <2>3 DEF EmitFilter, Constant
    <3>2. \A k \in DOMAIN object : object[k] = Constant(r.ip)
      BY <3>1
    <3> QED
      BY <2>3, <3>1, <3>2
  <2>4. CASE r.ip = r.label - 1 /\ r.label \in 1 .. filterMaxLen
    <3>1. PICK n \in 1 .. filterMaxLen : n = r.label
      BY <2>4
    <3>2. object = EmitFilter(r.stack, n - 1) /\ Len(r.stack) = n
      BY <2>2, <2>4, <3>1
    <3>3. Jumps(r.stack)
      BY <2>2 DEF Jumps, Sound
    <3> QED
      BY <2>2, <3>2, <3>3, EmitForward
  <2> QED
    BY <1>1, <2>1, <2>2, <2>3, <2>4, EntryIs DEF FlattenInv
<1> QED
  BY <1>1, FlattenInvHolds, PTL

(* For every filter of which no part is decided at compile time: its       *)
(* program accepts the packets the filter is true of, and no other.        *)
THEOREM ProgramMeansFilter == ASSUME NothingDecided PROVE FlattenSpec => []SameMeaning
<1>1. ASSUME FlattenInv PROVE SameMeaning
  <2> SUFFICES ASSUME emitting = "done", NEW e \in Packets(expr)
               PROVE  Run(object, e) = IF Means(expr, e) THEN "accept" ELSE "reject"
    BY DEF SameMeaning
  <2> QED
    BY <1>1, ProgramMeans DEF FlattenInv
<1> QED
  BY <1>1, FlattenInvHolds, PTL

-----------------------------------------------------------------------------
(* The scanner, for texts of any length and any limits.  First what is     *)
(* needed of sequences.                                                    *)

(* Any set of numbers that is not empty has a least one. *)
LEMMA Least ==
  ASSUME NEW S \in SUBSET Nat, S # {}
  PROVE  \E m \in S : \A n \in S : m <= n
<1>1. PICK x \in S : \A y \in S : <<y, x>> \notin LessThan
  BY LessThanWF, WFMin
<1>2. ASSUME NEW n \in S, ~(x <= n) PROVE FALSE
  <2>1. <<n, x>> \in LessThan
    BY <1>2 DEF LessThan
  <2> QED
    BY <1>1, <2>1
<1> QED
  BY <1>2

(* What stands between two places of a sequence. *)
LEMMA SliceIs ==
  ASSUME NEW S, NEW s \in Seq(S), NEW a \in 0 .. Len(s), NEW b \in a .. Len(s)
  PROVE  /\ SubSeq(s, a + 1, b) \in Seq(S) /\ Len(SubSeq(s, a + 1, b)) = b - a
         /\ \A j \in 1 .. b - a : SubSeq(s, a + 1, b)[j] = s[a + j]
<1>1. a + 1 \in Int /\ b \in Int /\ \A j \in a + 1 .. b : s[j] \in S
  OBVIOUS
<1>2. /\ SubSeq(s, a + 1, b) \in Seq(S)
      /\ Len(SubSeq(s, a + 1, b)) = IF a + 1 <= b THEN b - (a + 1) + 1 ELSE 0
      /\ \A j \in 1 .. b - (a + 1) + 1 : SubSeq(s, a + 1, b)[j] = s[a + 1 + j - 1]
  BY <1>1, SubSeqProperties
<1> QED
  BY <1>2

(* The longest beginning. *)
LEMMA SpanIs ==
  ASSUME NEW S, NEW s \in Seq(S), NEW A
  PROVE  /\ Span(s, A) \in Seq(S) /\ Len(Span(s, A)) \in 0 .. Len(s)
         /\ \A k \in 1 .. Len(Span(s, A)) : Span(s, A)[k] = s[k] /\ s[k] \in A
         /\ Len(Span(s, A)) < Len(s) => s[Len(Span(s, A)) + 1] \notin A
         /\ Span(s, A) = SubSeq(s, 1, Len(Span(s, A)))
<1> DEFINE Stops(e) == (\A k \in 1 .. e : s[k] \in A) /\ (e < Len(s) => s[e + 1] \notin A)
<1>1. \E e \in 0 .. Len(s) : Stops(e)
  <2> DEFINE E == {n \in 0 .. Len(s) : n = Len(s) \/ s[n + 1] \notin A}
  <2>1. Len(s) \in E /\ E \in SUBSET Nat
    OBVIOUS
  <2>2. PICK m \in E : \A n \in E : m <= n
    <3> HIDE DEF E
    <3> QED
      BY <2>1, Least
  <2>3. ASSUME NEW k \in 1 .. m PROVE s[k] \in A
    <3>1. k - 1 \notin E /\ k - 1 \in 0 .. Len(s) /\ k - 1 # Len(s)
      BY <2>2
    <3> QED
      BY <3>1
  <2> QED
    BY <2>2, <2>3
<1>2. PICK e \in 0 .. Len(s) : e = (CHOOSE n \in 0 .. Len(s) : Stops(n)) /\ Stops(e)
  BY <1>1
<1>3. Span(s, A) = SubSeq(s, 1, e)
  BY <1>2 DEF Span
<1>4. Len(SubSeq(s, 1, e)) = e /\ SubSeq(s, 1, e) \in Seq(S) /\ \A k \in 1 .. e : SubSeq(s, 1, e)[k] = s[k]
  OBVIOUS
<1> QED
  BY <1>2, <1>3, <1>4

-----------------------------------------------------------------------------
(* What words look like. *)
LEMMA EventsAre ==
  /\ \A l \in AllLayers : DOMAIN Events(l) \subseteq
        {"PACKET", "ESTABLISHED", "DELETED", "BIND", "CONNECT", "LISTEN", "ACCEPT", "CLOSE", "OPEN"}
  /\ EventNames \subseteq
        {"PACKET", "ESTABLISHED", "DELETED", "BIND", "CONNECT", "LISTEN", "ACCEPT", "CLOSE", "OPEN"}
<1>1. ASSUME NEW l \in AllLayers
      PROVE  DOMAIN Events(l) \subseteq
        {"PACKET", "ESTABLISHED", "DELETED", "BIND", "CONNECT", "LISTEN", "ACCEPT", "CLOSE", "OPEN"}
  <2>1. CASE l \in {"network", "forward"}
    BY <2>1 DEF Events
  <2>2. CASE l = "flow"
    BY <2>2 DEF Events
  <2>3. CASE l = "socket"
    BY <2>3 DEF Events
  <2>4. CASE l = "reflect"
    BY <2>4 DEF Events
  <2> QED
    BY <2>1, <2>2, <2>3, <2>4 DEF AllLayers
<1> QED
  BY <1>1 DEF EventNames

(* The keywords that are numbers at a layer. *)
LEMMA MacrosAre ==
  \A l \in AllLayers : DOMAIN Macros(l) = DOMAIN Events(l) \cup
      {"NETWORK", "NETWORK_FORWARD", "FLOW", "SOCKET", "REFLECT", "TRUE", "FALSE", "TCP", "UDP",
       "ICMP", "ICMPV6"}
  BY DEF Macros, Everywhere

(* Words are made of no sign, and no keyword is the kind of another token. *)
LEMMA WordsAre ==
  /\ WordAtoms \subseteq Atoms
  /\ WordAtoms \cap {"(", ")", "[", "]", "-", "?", "!", "=", "<", ">", "&", "|", " ", "#", "end"} = {}
  /\ Keywords \cap {"0", "8", "b", "x", ":", "z", "ip4", "bad", "none", "end", "num", "address", "bytes",
                    "eq", "neq", "lt", "leq", "gt", "geq"} = {}
  /\ Keywords \subseteq WordAtoms
  /\ "end" \notin Atoms /\ {"and", "or", "not"} \subseteq Keywords
  /\ {"0", "8", "b", "x", ":", "ip4"} \subseteq WordAtoms
<1>1. "network" \in AllLayers
  BY DEF AllLayers
<1>2. Keywords \subseteq
        {"zero", "tcp", "inbound", "processId", "endpointId", "layer", "ip.TTL",
         "and", "or", "not", "true", "false",
         "PACKET", "ESTABLISHED", "DELETED", "BIND", "CONNECT", "LISTEN", "ACCEPT", "CLOSE", "OPEN",
         "NETWORK", "NETWORK_FORWARD", "FLOW", "SOCKET", "REFLECT", "TRUE", "FALSE", "TCP", "UDP",
         "ICMP", "ICMPV6"}
  BY <1>1, EventsAre, MacrosAre DEF Keywords, Operators
<1>3. {"and", "or", "not"} \subseteq Keywords
  BY DEF Keywords, Operators
<1>3a. ASSUME NEW a \in Keywords
       PROVE  a \notin {"0", "8", "b", "x", ":", "z", "ip4", "bad", "none", "end", "num", "address", "bytes"}
  BY <1>2
<1>3b. ASSUME NEW a \in Keywords
       PROVE  a \notin {"eq", "neq", "lt", "leq", "gt", "geq", "(", ")", "[", "]", "-", "?"}
  BY <1>2
<1>3c. ASSUME NEW a \in Keywords
       PROVE  a \notin {"!", "=", "<", ">", "&", "|", " ", "#"}
  BY <1>2
<1>4. ASSUME NEW a \in Keywords
      PROVE  a \notin {"0", "8", "b", "x", ":", "z", "ip4", "bad", "none", "end", "num", "address",
                      "bytes", "eq", "neq", "lt", "leq", "gt", "geq", "(", ")", "[", "]", "-", "?",
                      "!", "=", "<", ">", "&", "|", " ", "#"}
  BY <1>3a, <1>3b, <1>3c
<1>5. WordAtoms \subseteq Atoms /\ Keywords \subseteq WordAtoms
  BY DEF WordAtoms, Atoms
<1>6. ASSUME NEW a \in WordAtoms
      PROVE  a \notin {"(", ")", "[", "]", "-", "?", "!", "=", "<", ">", "&", "|", " ", "#", "end"}
  BY <1>4 DEF WordAtoms
<1>7. "end" \notin Atoms
  BY <1>6 DEF Atoms
<1>8. {"0", "8", "b", "x", ":", "ip4"} \subseteq WordAtoms
  BY DEF WordAtoms
<1>9. /\ WordAtoms \cap {"(", ")", "[", "]", "-", "?", "!", "=", "<", ">", "&", "|", " ", "#", "end"} = {}
      /\ Keywords \cap {"0", "8", "b", "x", ":", "z", "ip4", "bad", "none", "end", "num", "address", "bytes",
                        "eq", "neq", "lt", "leq", "gt", "geq"} = {}
  <2> HIDE DEF WordAtoms
  <2> QED
    BY <1>4, <1>6
<1> QED
  BY <1>3, <1>5, <1>7, <1>8, <1>9

(* The digits of a decimal number. *)
LEMMA DecimalIs ==
  ASSUME NEW w \in Seq(Atoms), IsDecimal(w)
  PROVE  w # <<>> /\ \A k \in 1 .. Len(w) : w[k] \in {"0", "8"}
  BY DEF IsDecimal, IsNumeral, ToSet

(* The prefix and the digits of a hexadecimal number. *)
LEMMA HexIs ==
  ASSUME NEW w \in Seq(Atoms), IsHex(w)
  PROVE  /\ Len(w) >= 3 /\ w[1] = "0" /\ w[2] = "x"
         /\ \A k \in 3 .. Len(w) : w[k] \in {"0", "8", "b"}
<1> DEFINE d == SubSeq(w, 3, Len(w))
<1>1. Len(w) >= 2 /\ SubSeq(<<"0", "x">>, 1, 2) = SubSeq(w, 1, 2)
  BY DEF IsHex, IsPrefix
<1>2. w[1] = "0" /\ w[2] = "x"
  <2>1. SubSeq(w, 1, 2)[1] = w[1] /\ SubSeq(w, 1, 2)[2] = w[2]
    BY <1>1
  <2>2. SubSeq(<<"0", "x">>, 1, 2)[1] = "0" /\ SubSeq(<<"0", "x">>, 1, 2)[2] = "x"
    OBVIOUS
  <2> QED
    BY <1>1, <2>1, <2>2
<1>3. d # <<>> /\ ToSet(d) \subseteq DOMAIN Digit
  BY DEF IsHex, IsNumeral
<1>4. Len(d) = Len(w) - 2 /\ \A k \in 3 .. Len(w) : \E j \in 1 .. Len(d) : d[j] = w[k]
  <2>1. \A a \in 0 .. Len(w) :
            /\ Len(SubSeq(w, a + 1, Len(w))) = Len(w) - a
            /\ \A j \in 1 .. Len(w) - a : SubSeq(w, a + 1, Len(w))[j] = w[a + j]
    BY SliceIs
  <2>2. PICK a \in 0 .. Len(w) : a = 2 /\ a + 1 = 3
    BY <1>1
  <2>3. d = SubSeq(w, a + 1, Len(w))
    BY <2>2
  <2> HIDE DEF d
  <2>4. Len(d) = Len(w) - 2
    BY <2>1, <2>2, <2>3
  <2>5. ASSUME NEW k \in 3 .. Len(w) PROVE \E j \in 1 .. Len(d) : d[j] = w[k]
    <3>1. k - a \in 1 .. Len(w) - a /\ a + (k - a) = k
      BY <2>2
    <3>2. d[k - a] = w[a + (k - a)]
      BY <2>1, <2>3, <3>1
    <3> QED
      BY <2>2, <2>4, <3>1, <3>2
  <2> QED
    BY <2>4, <2>5
<1>5. Len(w) >= 3
  <2>1. d \in Seq(Atoms)
    BY <1>1
  <2> HIDE DEF d
  <2> QED
    BY <1>3, <1>4, <2>1
<1>6. ASSUME NEW k \in 3 .. Len(w) PROVE w[k] \in {"0", "8", "b"}
  <2>1. PICK j \in 1 .. Len(d) : d[j] = w[k]
    BY <1>4
  <2>2. d \in Seq(Atoms)
    BY <1>1
  <2> HIDE DEF d
  <2>3. d[j] \in ToSet(d)
    BY <2>1, <2>2 DEF ToSet
  <2> QED
    BY <1>3, <2>1, <2>3 DEF Digit
<1> QED
  BY <1>2, <1>5, <1>6

(* The colons of an address. *)
Colons(w) ==
  /\ \A k \in 1 .. Len(w) : w[k] \in {"0", "8", "b", ":"}
  /\ \E k \in 1 .. Len(w) : w[k] = ":"
  /\ w[1] = ":" => Len(w) >= 2 /\ w[2] = ":"
  /\ w[Len(w)] = ":" => Len(w) >= 2 /\ w[Len(w) - 1] = ":"

(* What an address has to look like. *)
LEMMA AddressIs ==
  ASSUME NEW w \in Seq(Atoms), w # <<>>, IsAddress(w)
  PROVE  w = <<"ip4">> \/ Colons(w)
<1> SUFFICES ASSUME IsIPv6(w) PROVE Colons(w)
  BY DEF IsAddress
<1> DEFINE colons  == {k \in DOMAIN w : w[k] = ":"}
           doubles == {k \in colons : k + 1 \in colons}
           groups  == {k \in DOMAIN w \ colons : k = 1 \/ k - 1 \in colons}
<1>1. /\ ToSet(w) \subseteq {"0", "8", "b", ":"}
      /\ \/ doubles = {} /\ Cardinality(groups) = 8
         \/ Cardinality(doubles) = 1 /\ Cardinality(groups) <= 7
      /\ 1 \in colons => 1 \in doubles
      /\ Len(w) \in colons => Len(w) - 1 \in doubles
  BY DEF IsIPv6
<1>2. DOMAIN w = 1 .. Len(w) /\ Len(w) \in Nat /\ Len(w) >= 1
  OBVIOUS
<1>3. ASSUME NEW k \in 1 .. Len(w) PROVE w[k] \in {"0", "8", "b", ":"}
  BY <1>1, <1>2 DEF ToSet
<1>4. ASSUME colons = {} PROVE FALSE
  <2>1. doubles = {} /\ groups = {1}
    BY <1>2, <1>4
  <2>2. Cardinality({}) = 0
    BY FS_EmptySet
  <2>3. Cardinality({1}) = 1
    BY FS_Singleton
  <2> HIDE DEF colons, doubles, groups
  <2> QED
    BY <1>1, <2>1, <2>2, <2>3
<1>5. w[1] = ":" => Len(w) >= 2 /\ w[2] = ":"
  BY <1>1, <1>2
<1>6. w[Len(w)] = ":" => Len(w) >= 2 /\ w[Len(w) - 1] = ":"
  BY <1>1, <1>2
<1> QED
  BY <1>2, <1>3, <1>4, <1>5, <1>6 DEF Colons

(* All that is spelled otherwise than it is called. *)
LEMMA SpellingIs ==
  ASSUME NEW w, NEW k \in DOMAIN Spelling, w \in Spelling[k]
  PROVE  w \in {<<"=">>, <<"<">>, <<">">>, <<"!">>, <<"not">>, <<"and">>, <<"or">>, <<"b">>,
                <<"=", "=">>, <<"!", "=">>, <<"<", "=">>, <<">", "=">>, <<"&", "&">>, <<"|", "|">>}
  BY DEF Spelling

(* The tokens of one atom, of two that are no word, and the words. *)
Valid(n) == n \in Keywords /\ (IsField(n) => layer \in FieldLayers(n))
OneAtom(w) ==
  \E a \in Atoms : /\ w = <<a>>
                   /\ \/ a \in {"(", ")", "[", "]", "-", "?", ":", "=", "<", ">", "!", "b", "ip4"}
                      \/ IsDecimal(w)
                      \/ Valid(a)
TwoSigns(w) ==
  w \in {<<"=", "=">>, <<"!", "=">>, <<"<", "=">>, <<">", "=">>, <<"&", "&">>, <<"|", "|">>}
LongWord(w) ==
  /\ Len(w) >= 2 /\ w \in Seq(WordAtoms)
  /\ IsDecimal(w) \/ IsHex(w) \/ (IsAddress(w) /\ Colons(w))

(* A token is one atom, two signs or a word of several characters. *)
LEMMA TokenIs ==
  ASSUME NEW w \in Seq(Atoms), w # <<>>, IsToken(w)
  PROVE  OneAtom(w) \/ TwoSigns(w) \/ LongWord(w)
<1>1. Len(w) \in Nat /\ Len(w) >= 1 /\ w[1] \in Atoms
  OBVIOUS
<1>2. ASSUME Len(w) = 1 PROVE w = <<w[1]>>
  BY <1>2
<1>3. ASSUME \A k \in 1 .. Len(w) : w[k] \in {"0", "8", "b", "x", ":"} PROVE w \in Seq(WordAtoms)
  <2>1. \A k \in 1 .. Len(w) : w[k] \in WordAtoms
    BY <1>3, WordsAre
  <2>2. w = [k \in 1 .. Len(w) |-> w[k]]
    OBVIOUS
  <2> QED
    BY <1>1, <2>1, <2>2, IsASeq
<1>4. CASE IsDecimal(w)
  <2>1. CASE Len(w) = 1
    BY <1>1, <1>2, <1>4, <2>1 DEF OneAtom
  <2>2. CASE Len(w) >= 2
    <3>1. w \in Seq(WordAtoms)
      BY <1>3, <1>4, DecimalIs
    <3> QED
      BY <1>4, <2>2, <3>1 DEF LongWord
  <2>3. Len(w) = 1 \/ Len(w) >= 2
    BY <1>1
  <2> QED
    BY <2>1, <2>2, <2>3
<1>5. CASE IsHex(w)
  <2>1. Len(w) >= 3 /\ \A k \in 1 .. Len(w) : w[k] \in {"0", "8", "b", "x", ":"}
    BY <1>1, <1>5, HexIs
  <2> QED
    BY <1>1, <1>3, <1>5, <2>1 DEF LongWord
<1>6. CASE IsAddress(w)
  <2>1. CASE w = <<"ip4">>
    <3>1. "ip4" \in Atoms
      BY WordsAre
    <3> QED
      BY <2>1, <3>1 DEF OneAtom
  <2>2. CASE Colons(w)
    <3>1. Len(w) >= 2 /\ \A k \in 1 .. Len(w) : w[k] \in {"0", "8", "b", "x", ":"}
      BY <1>1, <2>2 DEF Colons
    <3> QED
      BY <1>3, <1>6, <2>2, <3>1 DEF LongWord
  <2> QED
    BY <1>6, <2>1, <2>2, AddressIs
<1>7. CASE \E n \in Names : w = <<n>>
  <2>1. PICK n \in Names : w = <<n>>
    BY <1>7
  <2>2. n \in Atoms
    BY <1>1, <2>1
  <2>3. n \in {"(", ")", "[", "]", "-", "?", ":"} \/ Valid(n)
    BY DEF Names, Valid
  <2> QED
    BY <2>1, <2>2, <2>3 DEF OneAtom
<1>8. CASE \E k \in DOMAIN Spelling : w \in Spelling[k]
  <2>1. w \in {<<"=">>, <<"<">>, <<">">>, <<"!">>, <<"not">>, <<"and">>, <<"or">>, <<"b">>} \/ TwoSigns(w)
    BY <1>8, SpellingIs DEF TwoSigns
  <2>2. ASSUME NEW a \in {"not", "and", "or"}, w = <<a>> PROVE OneAtom(w)
    <3>1. a \in Atoms
      BY <1>1, <2>2
    <3>2. Valid(a)
      BY WordsAre DEF Valid, IsField, Operators
    <3> QED
      BY <2>2, <3>1, <3>2 DEF OneAtom
  <2>3. ASSUME NEW a \in {"=", "<", ">", "!", "b"}, w = <<a>> PROVE OneAtom(w)
    BY <1>1, <2>3 DEF OneAtom
  <2> QED
    BY <2>1, <2>2, <2>3
<1> QED
  BY <1>4, <1>5, <1>6, <1>7, <1>8 DEF IsToken

-----------------------------------------------------------------------------
(* The token at p. *)
Cut(p, r) == SubSeq(text, p + 1, r)

(* What stands between two places of the text. *)
LEMMA CutIs ==
  ASSUME text \in Seq(Atoms), NEW p \in 0 .. Len(text), NEW r \in p .. Len(text)
  PROVE  /\ Cut(p, r) \in Seq(Atoms) /\ Len(Cut(p, r)) = r - p
         /\ \A j \in 1 .. r - p : Cut(p, r)[j] = text[p + j]
  BY SliceIs DEF Cut

(* Pieces of one and of two atoms. *)
LEMMA CutShort ==
  ASSUME text \in Seq(Atoms), NEW p \in 0 .. Len(text) - 1
  PROVE  /\ Cut(p, p + 1) = <<text[p + 1]>>
         /\ p + 1 < Len(text) => Cut(p, p + 2) = <<text[p + 1], text[p + 2]>>
<1>1. ASSUME NEW r \in p .. Len(text), NEW n \in {1, 2}, r = p + n
      PROVE  /\ Cut(p, r) \in Seq(Atoms) /\ Len(Cut(p, r)) = n
             /\ \A j \in 1 .. n : Cut(p, r)[j] = text[p + j]
  <2>1. p \in 0 .. Len(text) /\ r - p = n
    BY <1>1
  <2> QED
    BY <2>1, CutIs
<1>2. Cut(p, p + 1) \in Seq(Atoms) /\ Len(Cut(p, p + 1)) = 1 /\ Cut(p, p + 1)[1] = text[p + 1]
  <2>1. p + 1 \in p .. Len(text)
    OBVIOUS
  <2> QED
    BY <1>1, <2>1
<1>3. ASSUME p + 1 < Len(text)
      PROVE  /\ Cut(p, p + 2) \in Seq(Atoms) /\ Len(Cut(p, p + 2)) = 2
             /\ Cut(p, p + 2)[1] = text[p + 1] /\ Cut(p, p + 2)[2] = text[p + 2]
  <2>1. p + 2 \in p .. Len(text)
    BY <1>3
  <2> QED
    BY <1>1, <2>1
<1> QED
  BY <1>2, <1>3

(* The characters of a word, up to one of no word. *)
IsRun(p, run) ==
    /\ run \in Seq(WordAtoms) /\ Len(run) \in 0 .. Len(text) - p
    /\ \A k \in 1 .. Len(run) : run[k] = text[p + k] /\ text[p + k] \in WordAtoms
    /\ p + Len(run) < Len(text) => text[p + Len(run) + 1] \notin WordAtoms

(* The word at a place goes on to where no word does. *)
LEMMA WordRunIs ==
  ASSUME text \in Seq(Atoms), NEW p \in 0 .. Len(text),
         NEW run, run = WordRun(p)
  PROVE  IsRun(p, run)
<1> DEFINE rest == SubSeq(text, p + 1, Len(text))
<1>1. rest \in Seq(Atoms) /\ Len(rest) = Len(text) - p /\ \A j \in 1 .. Len(text) - p : rest[j] = text[p + j]
  BY SliceIs
<1>2. run = Span(rest, WordAtoms)
  BY DEF WordRun
<1> HIDE DEF rest
<1>3. /\ run \in Seq(Atoms) /\ Len(run) \in 0 .. Len(rest)
      /\ \A k \in 1 .. Len(run) : run[k] = rest[k] /\ rest[k] \in WordAtoms
      /\ Len(run) < Len(rest) => rest[Len(run) + 1] \notin WordAtoms
  <2>1. rest \in Seq(Atoms)
    BY <1>1
  <2>2. /\ Span(rest, WordAtoms) \in Seq(Atoms)
        /\ Len(Span(rest, WordAtoms)) \in 0 .. Len(rest)
        /\ \A k \in 1 .. Len(Span(rest, WordAtoms)) :
               Span(rest, WordAtoms)[k] = rest[k] /\ rest[k] \in WordAtoms
        /\ Len(Span(rest, WordAtoms)) < Len(rest) =>
               rest[Len(Span(rest, WordAtoms)) + 1] \notin WordAtoms
    BY <2>1, SpanIs
  <2> QED
    BY <1>2, <2>2
<1>4. run \in Seq(WordAtoms)
  <2>1. run = [k \in 1 .. Len(run) |-> run[k]] /\ Len(run) \in Nat
    BY <1>3
  <2>2. \A k \in 1 .. Len(run) : run[k] \in WordAtoms
    BY <1>3
  <2> QED
    BY <2>1, <2>2, IsASeq
<1>5. p + Len(run) < Len(text) => text[p + Len(run) + 1] \notin WordAtoms
  <2> SUFFICES ASSUME p + Len(run) < Len(text) PROVE text[p + Len(run) + 1] \notin WordAtoms
    OBVIOUS
  <2>1. Len(run) + 1 \in 1 .. Len(text) - p /\ p + (Len(run) + 1) = p + Len(run) + 1
    BY <1>1, <1>3
  <2>2. rest[Len(run) + 1] = text[p + (Len(run) + 1)]
    BY <1>1, <2>1
  <2> QED
    BY <1>1, <1>3, <2>1, <2>2
<1>6. \A k \in 1 .. Len(run) : run[k] = text[p + k] /\ text[p + k] \in WordAtoms
  BY <1>1, <1>3
<1> QED
  BY <1>1, <1>3, <1>4, <1>5, <1>6 DEF IsRun

(* Where no word can begin with a colon. *)
LoneColon(p) == Atom(p) = ":" /\ Atom(p + 1) # ":"

(* The word in a run: all of it, but for a colon at its end. *)
LEMMA WordOfIs ==
  ASSUME NEW run \in Seq(WordAtoms), run # <<>>, run # <<":">>
  PROVE  /\ WordOf(run) \in Seq(WordAtoms) /\ WordOf(run) # <<>>
         /\ WordOf(run) = SubSeq(run, 1, Len(WordOf(run)))
         /\ \A k \in 1 .. Len(WordOf(run)) : WordOf(run)[k] = run[k]
         /\ \/ WordOf(run) = run
            \/ /\ Len(WordOf(run)) = Len(run) - 1
               /\ run[Len(run)] = ":" /\ run[Len(run) - 1] # ":"
<1>1. Len(run) \in Nat /\ Len(run) >= 1
  OBVIOUS
<1>2. CASE ~ColonTrails(run)
  <2>1. WordOf(run) = run
    BY <1>2 DEF WordOf
  <2> QED
    BY <1>1, <2>1
<1>3. CASE ColonTrails(run)
  <2>1. WordOf(run) = SubSeq(run, 1, Len(run) - 1)
    BY <1>3 DEF WordOf, Front
  <2>2. run[Len(run)] = ":" /\ (Len(run) = 1 \/ run[Len(run) - 1] # ":")
    BY <1>3 DEF ColonTrails, Last
  <2>3. Len(run) # 1
    <3>1. Len(run) = 1 => run = <<run[1]>>
      BY <1>1
    <3> QED
      BY <2>2, <3>1
  <2>4. PICK e \in 1 .. Len(run) : e = Len(run) - 1
    <3>1. \A n \in Nat : n >= 1 /\ n # 1 => \E e \in 1 .. n : e = n - 1
      OBVIOUS
    <3> QED
      BY <1>1, <2>3, <3>1
  <2>5. /\ SubSeq(run, 1, e) \in Seq(WordAtoms) /\ Len(SubSeq(run, 1, e)) = e
        /\ \A k \in 1 .. e : SubSeq(run, 1, e)[k] = run[k]
    OBVIOUS
  <2>6. WordOf(run) = SubSeq(run, 1, e)
    BY <2>1, <2>4
  <2> HIDE DEF WordOf
  <2>7. Len(WordOf(run)) = e /\ WordOf(run) \in Seq(WordAtoms) /\ WordOf(run) # <<>>
    <3>1. <<>> \in Seq(WordAtoms) /\ Len(<<>>) = 0
      OBVIOUS
    <3> QED
      BY <2>5, <2>6, <3>1
  <2>8. WordOf(run) = SubSeq(run, 1, Len(WordOf(run)))
    BY <2>6, <2>7
  <2>9. \A k \in 1 .. Len(WordOf(run)) : WordOf(run)[k] = run[k]
    BY <2>5, <2>6, <2>7
  <2>10. run[Len(run)] = ":" /\ run[Len(run) - 1] # ":"
    BY <2>2, <2>3
  <2> QED
    BY <2>4, <2>7, <2>8, <2>9, <2>10
<1> QED
  BY <1>2, <1>3

(* What is read of a word, if anything is. *)
Reads(word, t) ==
    /\ t.n \in 1 .. Len(word) /\ t.kind \notin {"bad", "end", "none"}
    /\ Spells(SubSeq(word, 1, t.n), t)
    /\ \/ t.n = Len(word)
       \/ t.n = Len(word) - 1 /\ word[Len(word)] = "b" /\ IsDecimal(Front(word))

(* How numbers are written. *)
SpeltNumber(w, val) ==
    \/ IsDecimal(w) /\ val = ParseUint(w, 10)
    \/ IsHex(w) /\ val = ParseUint(SubSeq(w, 3, Len(w)), 16)
    \/ \E m \in DOMAIN Macros(layer) : w = <<m>> /\ val = Macros(layer)[m]

(* What each kind of token has to be spelled like. *)
LEMMA SpellsIs ==
  ASSUME NEW w, NEW t
  PROVE  /\ t.kind = "num" => (Spells(w, t) <=> SpeltNumber(w, t.val))
         /\ t.kind = "address" => (Spells(w, t) <=> IsAddress(w))
         /\ t.kind \in DOMAIN Spelling => (Spells(w, t) <=> w \in Spelling[t.kind])
<1>1. "num" \notin DOMAIN Spelling /\ "address" \notin DOMAIN Spelling
  BY DEF Spelling
<1>2. CASE t.kind = "num"
  <2>1. SpeltNumber(w, t.val) <=>
            \/ IsDecimal(w) /\ t.val = ParseUint(w, 10)
            \/ IsHex(w) /\ t.val = ParseUint(SubSeq(w, 3, Len(w)), 16)
            \/ \E m \in DOMAIN Macros(layer) : w = <<m>> /\ t.val = Macros(layer)[m]
    BY DEF SpeltNumber
  <2>2. Spells(w, t) <=> SpeltNumber(w, t.val)
    BY <1>1, <1>2, <2>1 DEF Spells
  <2> QED
    BY <1>1, <1>2, <2>2
<1>3. CASE t.kind = "address"
  BY <1>1, <1>3 DEF Spells
<1>4. CASE t.kind \in DOMAIN Spelling
  <2>1. t.kind # "num" /\ t.kind # "address"
    BY <1>1, <1>4
  <2> QED
    BY <1>4, <2>1 DEF Spells
<1> QED
  BY <1>2, <1>3, <1>4

(* A keyword that is not refused is spelled as itself or is a number. *)
LEMMA SymbolReads ==
  ASSUME layer \in AllLayers, NEW a \in Keywords, Symbol(a).kind # "bad"
  PROVE  Symbol(a).n = 1 /\ Symbol(a).kind \notin {"end", "none"} /\ Spells(<<a>>, Symbol(a))
<1>1. CASE a \in DOMAIN Macros(layer)
  <2>1. Symbol(a) = Token("num", Macros(layer)[a], 1)
    BY <1>1 DEF Symbol
  <2>2. Symbol(a).kind = "num" /\ Symbol(a).val = Macros(layer)[a] /\ Symbol(a).n = 1
    BY <2>1 DEF Token
  <2>3. Spells(<<a>>, Symbol(a))
    BY <1>1, <2>2, SpellsIs DEF SpeltNumber
  <2> QED
    BY <2>2, <2>3
<1>2. CASE a \notin DOMAIN Macros(layer)
  <2>1. ~(IsField(a) /\ layer \notin FieldLayers(a))
    BY <1>2 DEF Symbol, Token
  <2>2. Symbol(a) = Token(a, 0, 1) /\ a \in Names
    BY <1>2, <2>1 DEF Symbol, Names
  <2>3. a \notin {"num", "address", "bytes", "eq", "neq", "lt", "leq", "gt", "geq", "end", "none", "bad"}
    BY WordsAre
  <2>4. CASE a \in {"and", "or", "not"}
    BY <2>2, <2>4 DEF Token, Spells, Spelling
  <2>5. CASE a \notin {"and", "or", "not"}
    <3>1. a \notin DOMAIN Spelling
      BY <2>3, <2>5 DEF Spelling
    <3> QED
      BY <2>2, <2>3, <3>1 DEF Token, Spells
  <2> QED
    BY <2>4, <2>5
<1> QED
  BY <1>1, <1>2

(* All of a word. *)
LEMMA FullWord ==
  ASSUME NEW word \in Seq(WordAtoms)
  PROVE  SubSeq(word, 1, Len(word)) = word
  BY SubSeqFull

(* Whatever scanNumber makes of a word, the word begins with it. *)
LEMMA WordIs ==
  ASSUME layer \in AllLayers, NEW word \in Seq(WordAtoms), word # <<>>,
         NEW t, t = Judged(word), t.kind # "bad"
  PROVE  Reads(word, t)
<1>1. Len(word) \in Nat /\ Len(word) >= 1 /\ Len(word) \in 1 .. Len(word)
  OBVIOUS
<1>2. SubSeq(word, 1, Len(word)) = word
  BY FullWord
<1>3. CASE Len(word) = 1 /\ word[1] \in Keywords
  <2>1. t = Symbol(word[1]) /\ word = <<word[1]>>
    BY <1>3 DEF Judged
  <2>2. t.n = 1 /\ t.kind \notin {"end", "none"} /\ Spells(<<word[1]>>, t)
    BY <1>3, <2>1, SymbolReads
  <2>3. t.n = Len(word) /\ Spells(SubSeq(word, 1, t.n), t)
    BY <1>2, <1>3, <2>1, <2>2
  <2>4. t.n \in 1 .. Len(word) /\ t.kind \notin {"bad", "end", "none"}
    BY <1>1, <2>2, <2>3
  <2> QED
    BY <2>3, <2>4 DEF Reads
<1>4. CASE ~(Len(word) = 1 /\ word[1] \in Keywords) /\ word = <<"b">>
  <2>1. t = Token("bytes", 0, 1) /\ Len(word) = 1
    BY <1>4 DEF Judged
  <2>2. Spells(word, t)
    BY <1>4, <2>1 DEF Token, Spells, Spelling
  <2>3. t.n = Len(word) /\ t.kind = "bytes"
    BY <2>1 DEF Token
  <2> QED
    BY <1>1, <1>2, <2>2, <2>3 DEF Reads
<1>5. CASE /\ ~(Len(word) = 1 /\ word[1] \in Keywords) /\ word # <<"b">>
           /\ Last(word) = "b" /\ IsDecimal(Front(word))
  <2>1. t = NumberOfBytes(word)
    BY <1>5 DEF Judged
  <2>2. Len(word) >= 2
    <3>1. Len(word) = 1 => word = <<word[1]>>
      BY <1>1
    <3> QED
      BY <1>1, <1>5, <3>1 DEF Last
  <2>3. t.n = Len(word) - 1 /\ t.kind = "num" /\ t.val = ParseUint(Front(word), 10)
    BY <2>1 DEF NumberOfBytes, Token
  <2>4. SubSeq(word, 1, t.n) = Front(word)
    BY <2>3 DEF Front
  <2>5. Spells(SubSeq(word, 1, t.n), t)
    BY <1>5, <2>3, <2>4, SpellsIs DEF SpeltNumber
  <2>6. word[Len(word)] = "b"
    BY <1>5 DEF Last
  <2>7. t.n \in 1 .. Len(word)
    BY <1>1, <2>2, <2>3
  <2> QED
    BY <1>5, <2>3, <2>5, <2>6, <2>7 DEF Reads
<1>6. CASE /\ ~(Len(word) = 1 /\ word[1] \in Keywords) /\ word # <<"b">>
           /\ ~(Last(word) = "b" /\ IsDecimal(Front(word)))
  <2>1. CASE IsDecimal(word)
    <3>1. t = Token("num", ParseUint(word, 10), Len(word))
      BY <1>6, <2>1 DEF Judged
    <3>2. t.kind = "num" /\ t.val = ParseUint(word, 10) /\ t.n = Len(word)
      BY <3>1 DEF Token
    <3>3. Spells(SubSeq(word, 1, t.n), t)
      BY <1>2, <2>1, <3>2, SpellsIs DEF SpeltNumber
    <3> QED
      BY <1>1, <3>2, <3>3 DEF Reads
  <2>2. CASE ~IsDecimal(word) /\ IsHex(word)
    <3>1. t = Token("num", ParseUint(SubSeq(word, 3, Len(word)), 16), Len(word))
      BY <1>6, <2>2 DEF Judged
    <3>2. t.kind = "num" /\ t.val = ParseUint(SubSeq(word, 3, Len(word)), 16) /\ t.n = Len(word)
      BY <3>1 DEF Token
    <3>3. Spells(SubSeq(word, 1, t.n), t)
      BY <1>2, <2>2, <3>2, SpellsIs DEF SpeltNumber
    <3> QED
      BY <1>1, <3>2, <3>3 DEF Reads
  <2>3. CASE ~IsDecimal(word) /\ ~IsHex(word) /\ IsAddress(word)
    <3>1. t = Token("address", word, Len(word))
      BY <1>6, <2>3 DEF Judged
    <3>2. t.kind = "address" /\ t.n = Len(word)
      BY <3>1 DEF Token
    <3>3. Spells(SubSeq(word, 1, t.n), t)
      BY <1>2, <2>3, <3>2, SpellsIs DEF SpeltNumber
    <3> QED
      BY <1>1, <3>2, <3>3 DEF Reads
  <2>4. CASE ~IsDecimal(word) /\ ~IsHex(word) /\ ~IsAddress(word)
    <3>1. t = Token("bad", 0, 0)
      BY <1>6, <2>4 DEF Judged
    <3> QED
      BY <3>1 DEF Token
  <2> QED
    BY <2>1, <2>2, <2>3, <2>4
<1> QED
  BY <1>3, <1>4, <1>5, <1>6

(* The atom at a place and the one behind it. *)
LEMMA AtomIs ==
  ASSUME text \in Seq(Atoms), NEW p \in 0 .. Len(text) - 1
  PROVE  /\ Atom(p) = text[p + 1] /\ Atom(p) \in Atoms
         /\ \A b \in Atoms : Atom(p + 1) = b <=> p + 1 < Len(text) /\ text[p + 2] = b
<1>1. Len(text) \in Nat /\ p < Len(text) /\ p + 1 \in 1 .. Len(text)
  OBVIOUS
<1>2. Atom(p) = text[p + 1]
  BY <1>1 DEF Atom
<1>3. (p + 1) + 1 = p + 2
  OBVIOUS
<1>4. ASSUME NEW b \in Atoms PROVE Atom(p + 1) = b <=> p + 1 < Len(text) /\ text[p + 2] = b
  <2>1. CASE p + 1 < Len(text)
    BY <1>3, <2>1 DEF Atom
  <2>2. CASE ~(p + 1 < Len(text))
    <3>1. Atom(p + 1) = "end"
      BY <2>2 DEF Atom
    <3> QED
      BY <1>4, <2>2, <3>1, WordsAre
  <2> QED
    BY <2>1, <2>2
<1> QED
  BY <1>1, <1>2, <1>4

Brackets == {"(", ")", "[", "]", "-", "?"}

(* The tokens of one or two signs: a, with b behind it. *)
SignTable(a, b, t) ==
    /\ a \in Brackets => t = Token(a, 0, 1)
    /\ a = "!" => t = IF b = "=" THEN Token("neq", 0, 2) ELSE Token("not", 0, 1)
    /\ a = "=" => t = IF b = "=" THEN Token("eq", 0, 2) ELSE Token("eq", 0, 1)
    /\ a = "<" => t = IF b = "=" THEN Token("leq", 0, 2) ELSE Token("lt", 0, 1)
    /\ a = ">" => t = IF b = "=" THEN Token("geq", 0, 2) ELSE Token("gt", 0, 1)
    /\ a = "&" => t = IF b = "&" THEN Token("and", 0, 2) ELSE Token("bad", 0, 0)
    /\ a = "|" => t = IF b = "|" THEN Token("or", 0, 2) ELSE Token("bad", 0, 0)
    /\ a = ":" => t = IF b = ":" THEN NoToken ELSE Token(":", 0, 1)
    /\ a \notin Brackets \cup {"!", "=", "<", ">", "&", "|", ":"} => t = NoToken

(* scanConditionToken. *)
LEMMA SignIs ==
  ASSUME text \in Seq(Atoms), NEW p \in 0 .. Len(text) - 1,
         NEW a, a = Atom(p), NEW b, b = Atom(p + 1), NEW t, t = ConditionToken(p)
  PROVE  SignTable(a, b, t)
<1>1. CASE a \in Brackets
  BY <1>1 DEF SignTable, ConditionToken, Brackets
<1>2. CASE a = "!"
  BY <1>2 DEF SignTable, ConditionToken, Either, Brackets
<1>3. CASE a = "="
  BY <1>3 DEF SignTable, ConditionToken, Either, Brackets
<1>4. CASE a = "<"
  BY <1>4 DEF SignTable, ConditionToken, Either, Brackets
<1>5. CASE a = ">"
  BY <1>5 DEF SignTable, ConditionToken, Either, Brackets
<1>6. CASE a = "&"
  BY <1>6 DEF SignTable, ConditionToken, Doubled, Brackets
<1>7. CASE a = "|"
  BY <1>7 DEF SignTable, ConditionToken, Doubled, Brackets
<1>8. CASE a = ":"
  BY <1>8 DEF SignTable, ConditionToken, Brackets
<1>9. CASE a \notin Brackets \cup {"!", "=", "<", ">", "&", "|", ":"}
  BY <1>9 DEF SignTable, ConditionToken, Brackets
<1> QED
  BY <1>1, <1>2, <1>3, <1>4, <1>5, <1>6, <1>7, <1>8, <1>9

(* Where there is no sign. *)
WordAt(p) == ConditionToken(p).kind = "none"

(* scanConditionToken leaves to scanNumber what begins with no sign. *)
LEMMA WordAtIs ==
  ASSUME text \in Seq(Atoms), NEW p \in 0 .. Len(text) - 1
  PROVE  WordAt(p) <=> /\ Atom(p) \notin Brackets \cup {"!", "=", "<", ">", "&", "|"}
                       /\ ~LoneColon(p)
<1> DEFINE a == Atom(p) b == Atom(p + 1) t == ConditionToken(p)
<1>1. CASE a \in Brackets \cup {"!", "=", "<", ">", "&", "|"}
  <2>1. t.kind # "none"
    <3> HIDE DEF a, b, t
    <3>1. CASE a \in Brackets
      <4>1. t = Token(a, 0, 1)
        BY <3>1, SignIs DEF SignTable, a, b, t
      <4> QED
        BY <3>1, <4>1 DEF Token, Brackets
    <3>2. CASE a \in {"!", "=", "<"}
      <4>1. t \in {Token("neq", 0, 2), Token("not", 0, 1), Token("eq", 0, 2), Token("eq", 0, 1),
                   Token("leq", 0, 2), Token("lt", 0, 1)}
        BY <3>2, SignIs DEF SignTable, a, b, t
      <4> QED
        BY <4>1 DEF Token
    <3>3. CASE a \in {">", "&", "|"}
      <4>1. t \in {Token("geq", 0, 2), Token("gt", 0, 1), Token("and", 0, 2), Token("or", 0, 2),
                   Token("bad", 0, 0)}
        BY <3>3, SignIs DEF SignTable, a, b, t
      <4> QED
        BY <4>1 DEF Token
    <3> QED
      BY <1>1, <3>1, <3>2, <3>3
  <2> QED
    BY <1>1, <2>1 DEF WordAt
<1>2. CASE a = ":"
  <2>1. t = IF b = ":" THEN NoToken ELSE Token(":", 0, 1)
    BY <1>2, SignIs DEF SignTable
  <2>2. NoToken.kind = "none" /\ Token(":", 0, 1).kind = ":"
    BY DEF NoToken, Token
  <2> QED
    BY <1>2, <2>1, <2>2 DEF WordAt, LoneColon, Brackets
<1>3. CASE a \notin Brackets \cup {"!", "=", "<", ">", "&", "|", ":"}
  <2>1. t = NoToken
    BY <1>3, SignIs DEF SignTable
  <2> QED
    BY <1>3, <2>1 DEF WordAt, LoneColon, NoToken, Token
<1> QED
  BY <1>1, <1>2, <1>3

(* What stands at p begins with the token t. *)
Stands(p, t) ==
    /\ t.n \in 1 .. Len(text) - p /\ t.kind \notin {"bad", "end", "none"}
    /\ \A j \in p + 1 .. p + t.n : text[j] # " "
    /\ Spells(Cut(p, p + t.n), t)

(* A sign is spelled as it is read. *)
LEMMA SignStands ==
  ASSUME text \in Seq(Atoms), NEW p \in 0 .. Len(text) - 1, ~WordAt(p),
         NEW t, t = ConditionToken(p), t.kind # "bad"
  PROVE  Stands(p, t)
<1> SUFFICES ASSUME NEW a, a = Atom(p), NEW b, b = Atom(p + 1) PROVE Stands(p, t)
  OBVIOUS
<1>0. SignTable(a, b, t)
  BY SignIs
<1>1. a = text[p + 1] /\ Len(text) \in Nat /\ p + 1 <= Len(text)
  BY AtomIs
<1>2. a \in Brackets \cup {"!", "=", "<", ">", "&", "|", ":"} /\ a # " "
  <2>1. a \in Brackets \cup {"!", "=", "<", ">", "&", "|", ":"}
    BY WordAtIs DEF LoneColon
  <2> QED
    BY <2>1 DEF Brackets
<1>3. ASSUME NEW k, t = Token(k, 0, 1), k \notin {"bad", "end", "none"},
             Spells(<<a>>, t)
      PROVE  Stands(p, t)
  <2>1. t.n = 1 /\ t.kind = k
    BY <1>3 DEF Token
  <2>2. Cut(p, p + 1) = <<a>>
    BY <1>1, CutShort
  <2>3. \A j \in p + 1 .. p + 1 : text[j] # " "
    <3>1. \A j \in p + 1 .. p + 1 : j = p + 1
      OBVIOUS
    <3> QED
      BY <1>1, <1>2, <3>1
  <2>4. 1 \in 1 .. Len(text) - p
    BY <1>1
  <2> QED
    BY <1>3, <2>1, <2>2, <2>3, <2>4 DEF Stands
<1>4. ASSUME NEW k, t = Token(k, 0, 2), k \notin {"bad", "end", "none"}, b \in {"=", "&", "|"},
             Spells(<<a, b>>, t)
      PROVE  Stands(p, t)
  <2>1. t.n = 2 /\ t.kind = k
    BY <1>4 DEF Token
  <2>2. b \in Atoms
    BY <1>4 DEF Atoms
  <2>3. p + 1 < Len(text) /\ text[p + 2] = b /\ b # " "
    BY <1>4, <2>2, AtomIs
  <2>4. Cut(p, p + 2) = <<a, b>>
    BY <1>1, <2>3, CutShort
  <2>5. \A j \in p + 1 .. p + 2 : text[j] # " "
    <3>1. \A j \in p + 1 .. p + 2 : j = p + 1 \/ j = p + 2
      OBVIOUS
    <3> QED
      BY <1>1, <1>2, <2>3, <3>1
  <2>6. 2 \in 1 .. Len(text) - p
    <3>1. p + 1 < Len(text) /\ Len(text) \in Nat
      BY <1>1, <2>3
    <3> QED
      BY <3>1
  <2> QED
    BY <1>4, <2>1, <2>4, <2>5, <2>6 DEF Stands
<1>5. ASSUME NEW k \in DOMAIN Spelling, NEW w \in Spelling[k], NEW n PROVE Spells(w, Token(k, 0, n))
  <2>1. Token(k, 0, n).kind = k
    BY DEF Token
  <2> QED
    BY <2>1, SpellsIs
<1>6. ASSUME NEW k \in Brackets \cup {":"} PROVE Spells(<<k>>, Token(k, 0, 1))
  <2>1. Token(k, 0, 1).kind = k
    BY DEF Token
  <2>2. k \in Names /\ k \notin {"num", "address"} /\ k \notin DOMAIN Spelling
    BY DEF Names, Brackets, Spelling
  <2> QED
    BY <2>1, <2>2 DEF Spells
<1>7. CASE a \in Brackets
  <2>1. t = Token(a, 0, 1)
    BY <1>0, <1>7 DEF SignTable
  <2>2. a \notin {"bad", "end", "none"}
    <3> QED
      BY <1>7 DEF Brackets
  <2> QED
    BY <1>3, <1>6, <1>7, <2>1, <2>2
<1>8. CASE a = ":"
  <2>1. t = Token(":", 0, 1)
    BY <1>0, <1>8 DEF SignTable, WordAt, NoToken, Token
  <2> QED
    BY <1>3, <1>6, <1>8, <2>1
<1>9. ASSUME NEW k1, NEW k2, NEW other \in {"=", "&", "|"},
             k1 \in DOMAIN Spelling \cup {"bad"}, k2 \in DOMAIN Spelling,
             k1 \in DOMAIN Spelling => <<a>> \in Spelling[k1], <<a, other>> \in Spelling[k2],
             t = IF b = other THEN Token(k2, 0, 2) ELSE Token(k1, 0, IF k1 = "bad" THEN 0 ELSE 1)
      PROVE  Stands(p, t)
  <2>1. DOMAIN Spelling \cap {"bad", "end", "none"} = {}
    BY DEF Spelling
  <2>2. CASE b = other
    <3>1. t = Token(k2, 0, 2)
      BY <1>9, <2>2
    <3>2. Spells(<<a, other>>, Token(k2, 0, 2))
      BY <1>5, <1>9
    <3> QED
      BY <1>4, <1>9, <2>1, <2>2, <3>1, <3>2
  <2>3. CASE b # other
    <3>1. k1 # "bad"
      BY <1>9, <2>3 DEF Token
    <3>2. t = Token(k1, 0, 1)
      BY <1>9, <2>3, <3>1
    <3>3. Spells(<<a>>, Token(k1, 0, 1))
      BY <1>5, <1>9, <3>1
    <3> QED
      BY <1>3, <1>9, <2>1, <3>1, <3>2, <3>3
  <2> QED
    BY <2>2, <2>3
<1>10. CASE a = "!"
  <2>1. t = IF b = "=" THEN Token("neq", 0, 2) ELSE Token("not", 0, 1)
    BY <1>0, <1>10 DEF SignTable
  <2>2. /\ "not" \in DOMAIN Spelling \cup {"bad"} /\ "neq" \in DOMAIN Spelling
        /\ "not" \in DOMAIN Spelling => <<a>> \in Spelling["not"]
        /\ <<a, "=">> \in Spelling["neq"]
    BY <1>10 DEF Spelling
  <2> QED
    BY <1>9, <2>1, <2>2
<1>11. CASE a = "="
  <2>1. t = IF b = "=" THEN Token("eq", 0, 2) ELSE Token("eq", 0, 1)
    BY <1>0, <1>11 DEF SignTable
  <2>2. /\ "eq" \in DOMAIN Spelling \cup {"bad"} /\ "eq" \in DOMAIN Spelling
        /\ "eq" \in DOMAIN Spelling => <<a>> \in Spelling["eq"]
        /\ <<a, "=">> \in Spelling["eq"]
    BY <1>11 DEF Spelling
  <2> QED
    BY <1>9, <2>1, <2>2
<1>12. CASE a = "<"
  <2>1. t = IF b = "=" THEN Token("leq", 0, 2) ELSE Token("lt", 0, 1)
    BY <1>0, <1>12 DEF SignTable
  <2>2. /\ "lt" \in DOMAIN Spelling \cup {"bad"} /\ "leq" \in DOMAIN Spelling
        /\ "lt" \in DOMAIN Spelling => <<a>> \in Spelling["lt"]
        /\ <<a, "=">> \in Spelling["leq"]
    BY <1>12 DEF Spelling
  <2> QED
    BY <1>9, <2>1, <2>2
<1>13. CASE a = ">"
  <2>1. t = IF b = "=" THEN Token("geq", 0, 2) ELSE Token("gt", 0, 1)
    BY <1>0, <1>13 DEF SignTable
  <2>2. /\ "gt" \in DOMAIN Spelling \cup {"bad"} /\ "geq" \in DOMAIN Spelling
        /\ "gt" \in DOMAIN Spelling => <<a>> \in Spelling["gt"]
        /\ <<a, "=">> \in Spelling["geq"]
    BY <1>13 DEF Spelling
  <2> QED
    BY <1>9, <2>1, <2>2
<1>14. CASE a = "&"
  <2>1. t = IF b = "&" THEN Token("and", 0, 2) ELSE Token("bad", 0, 0)
    BY <1>0, <1>14 DEF SignTable
  <2>2. /\ "bad" \in DOMAIN Spelling \cup {"bad"} /\ "and" \in DOMAIN Spelling
        /\ "bad" \in DOMAIN Spelling => <<a>> \in Spelling["bad"]
        /\ <<a, "&">> \in Spelling["and"]
    BY <1>14 DEF Spelling
  <2> QED
    BY <1>9, <2>1, <2>2
<1>15. CASE a = "|"
  <2>1. t = IF b = "|" THEN Token("or", 0, 2) ELSE Token("bad", 0, 0)
    BY <1>0, <1>15 DEF SignTable
  <2>2. /\ "bad" \in DOMAIN Spelling \cup {"bad"} /\ "or" \in DOMAIN Spelling
        /\ "bad" \in DOMAIN Spelling => <<a>> \in Spelling["bad"]
        /\ <<a, "|">> \in Spelling["or"]
    BY <1>15 DEF Spelling
  <2> QED
    BY <1>9, <2>1, <2>2
<1> QED
  BY <1>2, <1>7, <1>8, <1>10, <1>11, <1>12, <1>13, <1>14, <1>15

(* Some word is in the characters that scanNumber takes. *)
LEMMA WordReads ==
  ASSUME text \in Seq(Atoms), layer \in AllLayers, NEW p \in 0 .. Len(text) - 1, WordAt(p),
         NEW t, t = WordToken(p), t.kind # "bad",
         NEW run, run = WordRun(p)
  PROVE  run # <<>> /\ run # <<":">> /\ Reads(WordOf(run), t)
<1>1. /\ run \in Seq(WordAtoms) /\ Len(run) \in 0 .. Len(text) - p
      /\ \A k \in 1 .. Len(run) : run[k] = text[p + k] /\ text[p + k] \in WordAtoms
      /\ p + Len(run) < Len(text) => text[p + Len(run) + 1] \notin WordAtoms
  <2>1. p \in 0 .. Len(text)
    OBVIOUS
  <2>2. IsRun(p, run)
    BY <2>1, WordRunIs
  <2> QED
    BY <2>2 DEF IsRun
<1>2. run # <<>> /\ t = Judged(WordOf(run))
  <2>1. t = IF run = <<>> \/ Len(run) >= wordMax THEN Token("bad", 0, 0) ELSE Judged(WordOf(run))
    BY DEF WordToken
  <2>2. Token("bad", 0, 0).kind = "bad"
    BY DEF Token
  <2> QED
    BY <2>1, <2>2
<1>3. ASSUME run = <<":">> PROVE FALSE
  <2>1. Len(run) = 1 /\ run[1] = ":"
    BY <1>3
  <2>2. text[p + 1] = ":" /\ (p + 1 < Len(text) => text[p + 2] \notin WordAtoms)
    <3>1. 1 \in 1 .. Len(run) /\ (p + 1) + 1 = p + 2
      BY <2>1
    <3> QED
      BY <1>1, <2>1, <3>1
  <2>3. ":" \in Atoms /\ ":" \in WordAtoms
    BY WordsAre
  <2>4. Atom(p) = ":" /\ Atom(p + 1) # ":"
    BY <2>2, <2>3, AtomIs
  <2> QED
    BY <2>4, WordAtIs DEF LoneColon
<1>4. WordOf(run) \in Seq(WordAtoms) /\ WordOf(run) # <<>>
  BY <1>1, <1>2, <1>3, WordOfIs
<1>5. Reads(WordOf(run), t)
  BY <1>2, <1>4, WordIs
<1> QED
  BY <1>2, <1>3, <1>5

(* A word is spelled as it is read. *)
LEMMA WordStands ==
  ASSUME text \in Seq(Atoms), layer \in AllLayers, NEW p \in 0 .. Len(text) - 1, WordAt(p),
         NEW t, t = WordToken(p), t.kind # "bad"
  PROVE  Stands(p, t)
<1> SUFFICES ASSUME NEW run, run = WordRun(p), NEW word, word = WordOf(run) PROVE Stands(p, t)
  OBVIOUS
<1>1. /\ run \in Seq(WordAtoms) /\ Len(run) \in 0 .. Len(text) - p
      /\ \A k \in 1 .. Len(run) : run[k] = text[p + k] /\ text[p + k] \in WordAtoms
  <2>1. p \in 0 .. Len(text)
    OBVIOUS
  <2>2. IsRun(p, run)
    BY <2>1, WordRunIs
  <2> QED
    BY <2>2 DEF IsRun
<1>2. run # <<>> /\ run # <<":">> /\ Reads(word, t)
  BY WordReads
<1>3. /\ word \in Seq(WordAtoms) /\ \A k \in 1 .. Len(word) : word[k] = run[k]
      /\ Len(word) = Len(run) \/ Len(word) = Len(run) - 1
  BY <1>1, <1>2, WordOfIs
<1>4. Len(word) \in Nat /\ Len(word) <= Len(run) /\ Len(text) \in Nat /\ Len(run) <= Len(text) - p
  BY <1>1, <1>3
<1>5. t.n \in 1 .. Len(word) /\ t.n \in 1 .. Len(text) - p
  BY <1>2, <1>4 DEF Reads
<1>6. \A k \in 1 .. t.n : word[k] = text[p + k] /\ text[p + k] \in WordAtoms
  <2>1. ASSUME NEW k \in 1 .. t.n PROVE k \in 1 .. Len(word) /\ k \in 1 .. Len(run)
    BY <1>4, <1>5
  <2> QED
    BY <1>1, <1>3, <2>1
<1>7. \A j \in p + 1 .. p + t.n : text[j] # " "
  <2>1. ASSUME NEW j \in p + 1 .. p + t.n PROVE j - p \in 1 .. t.n /\ p + (j - p) = j
    BY <1>5
  <2>2. " " \notin WordAtoms
    BY WordsAre
  <2> QED
    BY <1>6, <2>1, <2>2
<1>8. Cut(p, p + t.n) = SubSeq(word, 1, t.n)
  <2>1. p \in 0 .. Len(text) /\ p + t.n \in p .. Len(text) /\ (p + t.n) - p = t.n
    BY <1>5
  <2>2. /\ Cut(p, p + t.n) \in Seq(Atoms) /\ Len(Cut(p, p + t.n)) = t.n
        /\ \A j \in 1 .. t.n : Cut(p, p + t.n)[j] = text[p + j]
    BY <2>1, CutIs
  <2>3. /\ SubSeq(word, 1, t.n) \in Seq(WordAtoms) /\ Len(SubSeq(word, 1, t.n)) = t.n
        /\ \A j \in 1 .. t.n : SubSeq(word, 1, t.n)[j] = word[j]
    <3>1. \A e \in 1 .. Len(word) :
             /\ SubSeq(word, 1, e) \in Seq(WordAtoms) /\ Len(SubSeq(word, 1, e)) = e
             /\ \A j \in 1 .. e : SubSeq(word, 1, e)[j] = word[j]
      BY <1>3
    <3> QED
      BY <1>5, <3>1
  <2>4. \A j \in 1 .. t.n : Cut(p, p + t.n)[j] = SubSeq(word, 1, t.n)[j]
    BY <1>6, <2>2, <2>3
  <2>5. WordAtoms \subseteq Atoms
    BY DEF Atoms
  <2>6. SubSeq(word, 1, t.n) \in Seq(Atoms)
    BY <2>3, <2>5
  <2> QED
    BY <2>2, <2>3, <2>4, <2>6, SeqEqual
<1>9. Spells(SubSeq(word, 1, t.n), t) /\ t.kind \notin {"bad", "end", "none"}
  BY <1>2 DEF Reads
<1> QED
  BY <1>5, <1>7, <1>8, <1>9 DEF Stands

(* Every token that is recorded is spelled as its characters. *)
LEMMA TokenStands ==
  ASSUME text \in Seq(Atoms), layer \in AllLayers, NEW p \in 0 .. Len(text) - 1,
         TokenAt(p).kind # "bad"
  PROVE  Stands(p, TokenAt(p))
<1>1. CASE WordAt(p)
  <2>1. TokenAt(p) = WordToken(p)
    BY <1>1 DEF TokenAt, WordAt
  <2> QED
    BY <1>1, <2>1, WordStands
<1>2. CASE ~WordAt(p)
  <2>1. TokenAt(p) = ConditionToken(p)
    BY <1>2 DEF TokenAt, WordAt
  <2> QED
    BY <1>2, <2>1, SignStands
<1> QED
  BY <1>1, <1>2

(* A token of two atoms or more. *)
LEMMA LongToken ==
  ASSUME NEW w \in Seq(Atoms), IsToken(w), Len(w) >= 2
  PROVE  TwoSigns(w) \/ LongWord(w)
<1>1. w # <<>>
  OBVIOUS
<1>2. ~OneAtom(w)
  <2>1. ASSUME NEW a, w = <<a>> PROVE FALSE
    BY <2>1
  <2> QED
    BY <2>1 DEF OneAtom
<1> QED
  BY <1>1, <1>2, TokenIs

(* What no word of two characters or more is like. *)
LEMMA LongWordIs ==
  ASSUME NEW w \in Seq(Atoms), LongWord(w)
  PROVE  /\ Len(w) >= 2 /\ \A k \in 1 .. Len(w) : w[k] \in WordAtoms
         /\ w[1] = ":" => w[2] = ":"
         /\ w[Len(w)] = ":" => w[Len(w) - 1] = ":"
         /\ ~(w[Len(w)] = "b" /\ \A k \in 1 .. Len(w) - 1 : w[k] \in {"0", "8"})
<1>1. Len(w) >= 2 /\ Len(w) \in Nat /\ \A k \in 1 .. Len(w) : w[k] \in WordAtoms
  BY DEF LongWord
<1>2. CASE IsDecimal(w)
  <2>1. \A k \in 1 .. Len(w) : w[k] \in {"0", "8"}
    BY <1>2, DecimalIs
  <2>2. 1 \in 1 .. Len(w) /\ Len(w) \in 1 .. Len(w)
    BY <1>1
  <2>3. w[1] \in {"0", "8"} /\ w[Len(w)] \in {"0", "8"}
    BY <2>1, <2>2
  <2> QED
    BY <1>1, <2>3
<1>3. CASE IsHex(w)
  <2>1. /\ Len(w) >= 3 /\ w[1] = "0" /\ w[2] = "x"
        /\ \A k \in 3 .. Len(w) : w[k] \in {"0", "8", "b"}
    BY <1>3, HexIs
  <2>2. Len(w) \in 3 .. Len(w) /\ 2 \in 1 .. Len(w) - 1
    BY <1>1, <2>1
  <2>3. w[Len(w)] \in {"0", "8", "b"}
    BY <2>1, <2>2
  <2>4. w[Len(w)] # ":" /\ w[1] # ":"
    BY <2>1, <2>3
  <2>5. ~(\A k \in 1 .. Len(w) - 1 : w[k] \in {"0", "8"})
    BY <2>1, <2>2
  <2> QED
    BY <1>1, <2>4, <2>5
<1>4. CASE Colons(w)
  <2>1. PICK k \in 1 .. Len(w) : w[k] = ":"
    BY <1>4 DEF Colons
  <2>2. ASSUME w[Len(w)] = "b", \A j \in 1 .. Len(w) - 1 : w[j] \in {"0", "8"} PROVE FALSE
    <3>1. k # Len(w)
      BY <2>1, <2>2
    <3>2. k \in 1 .. Len(w) - 1
      BY <1>1, <3>1
    <3> QED
      BY <2>1, <2>2, <3>2
  <2> QED
    BY <1>1, <1>4, <2>2 DEF Colons
<1> QED
  BY <1>2, <1>3, <1>4 DEF LongWord

(* No longer token begins with a sign that is taken. *)
LEMMA LongestSign ==
  ASSUME text \in Seq(Atoms), NEW p \in 0 .. Len(text) - 1, ~WordAt(p),
         NEW t, t = ConditionToken(p), t.kind # "bad",
         NEW r \in p + 1 .. Len(text), r > p + t.n
  PROVE  ~IsToken(Cut(p, r))
<1> SUFFICES ASSUME NEW w, w = Cut(p, r), IsToken(w),
                    NEW a, a = Atom(p), NEW b, b = Atom(p + 1)
             PROVE  FALSE
  OBVIOUS
<1>1. /\ w \in Seq(Atoms) /\ Len(w) = r - p /\ \A j \in 1 .. r - p : w[j] = text[p + j]
  <2>1. p \in 0 .. Len(text) /\ r \in p .. Len(text)
    OBVIOUS
  <2> QED
    BY <2>1, CutIs
<1>2. Stands(p, t)
  BY SignStands
<1>3. t.n \in Nat /\ t.n >= 1 /\ r - p >= 2 /\ p + 1 < Len(text)
  <2>1. t.n \in 1 .. Len(text) - p
    BY <1>2 DEF Stands
  <2>2. Len(text) \in Nat
    OBVIOUS
  <2> QED
    BY <2>1, <2>2
<1>4. w[1] = a /\ w[2] = b
  <2>1. a = text[p + 1] /\ b = text[p + 2]
    <3>1. text[p + 2] \in Atoms
      BY <1>3
    <3> QED
      BY <1>3, <3>1, AtomIs
  <2> QED
    BY <1>1, <1>3, <2>1
<1>5. SignTable(a, b, t)
  BY SignIs
<1>6. a \in Brackets \cup {"!", "=", "<", ">", "&", "|"} \/ (a = ":" /\ b # ":")
  BY WordAtIs DEF LoneColon
<1>7. CASE TwoSigns(w)
  <2>1. b = IF a = "&" THEN "&" ELSE IF a = "|" THEN "|" ELSE "="
    BY <1>4, <1>7 DEF TwoSigns
  <2>1a. a \in {"=", "!", "<", ">", "&", "|"} /\ Len(w) = 2
    BY <1>4, <1>7 DEF TwoSigns
  <2>2. t \in {Token("eq", 0, 2), Token("neq", 0, 2), Token("leq", 0, 2), Token("geq", 0, 2),
               Token("and", 0, 2), Token("or", 0, 2)}
    BY <1>5, <2>1, <2>1a DEF SignTable
  <2>3. t.n = 2
    BY <2>2 DEF Token
  <2>4. r - p > 2
    BY <2>3
  <2>5. r - p = 2
    BY <1>1, <2>1a
  <2> QED
    BY <2>4, <2>5
<1>8. CASE LongWord(w)
  <2>1. a \in WordAtoms /\ (a = ":" => b = ":")
    <3>1. 1 \in 1 .. Len(w)
      BY <1>1, <1>3
    <3> QED
      BY <1>1, <1>4, <1>8, <3>1, LongWordIs
  <2>2. a \notin {"(", ")", "[", "]", "-", "?", "!", "=", "<", ">", "&", "|"}
    BY <2>1, WordsAre
  <2> QED
    BY <1>6, <2>1, <2>2 DEF Brackets
<1> QED
  BY <1>1, <1>3, <1>7, <1>8, LongToken

(* No longer token begins with a word that is taken: a "b" and a colon are
   put back only where they cannot belong to it. *)
LEMMA LongestWord ==
  ASSUME text \in Seq(Atoms), layer \in AllLayers, NEW p \in 0 .. Len(text) - 1, WordAt(p),
         NEW t, t = WordToken(p), t.kind # "bad",
         NEW r \in p + 1 .. Len(text), r > p + t.n
  PROVE  ~IsToken(Cut(p, r))
<1> SUFFICES ASSUME NEW w, w = Cut(p, r), IsToken(w),
                    NEW run, run = WordRun(p), NEW word, word = WordOf(run)
             PROVE  FALSE
  OBVIOUS
<1>1. /\ w \in Seq(Atoms) /\ Len(w) = r - p /\ \A j \in 1 .. r - p : w[j] = text[p + j]
  <2>1. p \in 0 .. Len(text) /\ r \in p .. Len(text)
    OBVIOUS
  <2> QED
    BY <2>1, CutIs
<1>2. IsRun(p, run)
  <2>1. p \in 0 .. Len(text)
    OBVIOUS
  <2> QED
    BY <2>1, WordRunIs
<1>3. run # <<>> /\ run # <<":">> /\ Reads(word, t)
  BY WordReads
<1>4. /\ word \in Seq(WordAtoms) /\ word # <<>> /\ \A k \in 1 .. Len(word) : word[k] = run[k]
      /\ \/ Len(word) = Len(run)
         \/ Len(word) = Len(run) - 1 /\ run[Len(run)] = ":" /\ run[Len(run) - 1] # ":"
  <2>1. run \in Seq(WordAtoms)
    BY <1>2 DEF IsRun
  <2> QED
    BY <1>3, <2>1, WordOfIs
<1>5. /\ t.n \in Nat /\ t.n >= 1 /\ Len(word) \in Nat /\ Len(run) \in Nat /\ Len(text) \in Nat
      /\ t.n = Len(word) \/ (t.n = Len(word) - 1 /\ word[Len(word)] = "b" /\ IsDecimal(Front(word)))
  <2>1. Len(run) \in Nat
    BY <1>2 DEF IsRun
  <2>2. Len(word) \in Nat /\ Len(text) \in Nat
    BY <1>4
  <2>3. /\ t.n \in 1 .. Len(word)
        /\ t.n = Len(word) \/ (t.n = Len(word) - 1 /\ word[Len(word)] = "b" /\ IsDecimal(Front(word)))
    BY <1>3 DEF Reads
  <2> QED
    BY <2>1, <2>2, <2>3
<1>6. Len(w) >= 2 /\ Len(w) \in Nat
  BY <1>1, <1>5
<1>7. ~TwoSigns(w)
  <2>1. w[1] \in WordAtoms
    <3>1. 1 \in 1 .. Len(run) /\ 1 \in 1 .. r - p
      <4>1. Len(run) # 0
        BY <1>2, <1>3 DEF IsRun
      <4> QED
        BY <1>1, <1>5, <1>6, <4>1
    <3> QED
      BY <1>1, <1>2, <3>1 DEF IsRun
  <2>2. w[1] \notin {"=", "!", "<", ">", "&", "|"}
    BY <2>1, WordsAre
  <2> QED
    BY <2>2 DEF TwoSigns
<1>8. LongWord(w)
  BY <1>1, <1>6, <1>7, LongToken
<1>9. Len(w) <= Len(run)
  <2> SUFFICES ASSUME Len(run) < Len(w) PROVE FALSE
    BY <1>5, <1>6
  <2>1. Len(run) + 1 \in 1 .. r - p /\ Len(run) + 1 \in 1 .. Len(w) /\ p + Len(run) < Len(text)
        /\ p + (Len(run) + 1) = p + Len(run) + 1
    BY <1>1, <1>5, <1>6
  <2>2. w[Len(run) + 1] \in WordAtoms
    BY <1>1, <1>8, <2>1, LongWordIs
  <2>3. w[Len(run) + 1] = text[p + Len(run) + 1]
    BY <1>1, <2>1
  <2> QED
    BY <1>2, <2>1, <2>2, <2>3 DEF IsRun
<1>10. \A k \in 1 .. Len(w) : w[k] = run[k]
  <2>1. ASSUME NEW k \in 1 .. Len(w) PROVE k \in 1 .. Len(run) /\ k \in 1 .. r - p
    BY <1>1, <1>5, <1>6, <1>9
  <2> QED
    BY <1>1, <1>2, <2>1 DEF IsRun
<1>11. CASE Len(w) = Len(run) /\ Len(word) = Len(run) - 1
  <2>1. run[Len(run)] = ":" /\ run[Len(run) - 1] # ":"
    BY <1>4, <1>5, <1>11
  <2>2. Len(w) \in 1 .. Len(w) /\ Len(w) - 1 \in 1 .. Len(w)
    BY <1>6
  <2>3. w[Len(w)] = ":" /\ w[Len(w) - 1] # ":"
    BY <1>10, <1>11, <2>1, <2>2
  <2> QED
    BY <1>1, <1>8, <2>3, LongWordIs
<1>12. CASE Len(w) <= Len(word)
  <2>1. Len(w) = Len(word) /\ t.n = Len(word) - 1
    <3>1. Len(w) > t.n
      BY <1>1, <1>5
    <3> QED
      BY <1>5, <1>6, <1>12, <3>1
  <2>2. word[Len(word)] = "b" /\ IsDecimal(Front(word))
    BY <1>5, <2>1
  <2>3. PICK e \in 1 .. Len(word) : e = Len(word) - 1
    BY <1>5, <2>1
  <2>4. Front(word) = SubSeq(word, 1, e)
    BY <2>3 DEF Front
  <2>5. /\ SubSeq(word, 1, e) \in Seq(WordAtoms) /\ Len(SubSeq(word, 1, e)) = e
        /\ \A j \in 1 .. e : SubSeq(word, 1, e)[j] = word[j]
    BY <1>4
  <2>6. Front(word) \in Seq(Atoms)
    <3>1. \A j \in 1 .. Len(Front(word)) : Front(word)[j] \in Atoms
      <4>1. \A j \in 1 .. e : word[j] \in WordAtoms
        BY <1>4
      <4>2. \A j \in 1 .. e : word[j] \in Atoms
        BY <4>1, WordsAre
      <4> QED
        BY <2>4, <2>5, <4>2
    <3>2. Front(word) = [j \in 1 .. Len(Front(word)) |-> Front(word)[j]] /\ Len(Front(word)) \in Nat
      BY <2>4, <2>5
    <3> QED
      BY <3>1, <3>2, IsASeq
  <2>7. \A j \in 1 .. e : word[j] \in {"0", "8"}
    BY <2>2, <2>4, <2>5, <2>6, DecimalIs
  <2>8. \A j \in 1 .. Len(w) : w[j] = word[j]
    BY <1>4, <1>10, <2>1
  <2>9. w[Len(w)] = "b" /\ \A j \in 1 .. Len(w) - 1 : w[j] \in {"0", "8"}
    <3>1. Len(w) \in 1 .. Len(w) /\ \A j \in 1 .. Len(w) - 1 : j \in 1 .. Len(w) /\ j \in 1 .. e
      BY <1>6, <2>1, <2>3
    <3> QED
      BY <2>1, <2>2, <2>7, <2>8, <3>1
  <2> QED
    BY <1>1, <1>8, <2>9, LongWordIs
<1> QED
  <2>1. Len(w) <= Len(word) \/ (Len(w) = Len(run) /\ Len(word) = Len(run) - 1)
    BY <1>4, <1>5, <1>6, <1>9
  <2> QED
    BY <1>11, <1>12, <2>1

(* Nothing longer than the token that is taken begins where it begins. *)
LEMMA Longest ==
  ASSUME text \in Seq(Atoms), layer \in AllLayers, NEW p \in 0 .. Len(text) - 1,
         TokenAt(p).kind # "bad", NEW r \in p + 1 .. Len(text), r > p + TokenAt(p).n
  PROVE  ~IsToken(Cut(p, r))
<1>1. CASE WordAt(p)
  <2>1. TokenAt(p) = WordToken(p)
    BY <1>1 DEF TokenAt, WordAt
  <2> QED
    BY <1>1, <2>1, LongestWord
<1>2. CASE ~WordAt(p)
  <2>1. TokenAt(p) = ConditionToken(p)
    BY <1>2 DEF TokenAt, WordAt
  <2> QED
    BY <1>2, <2>1, LongestSign
<1> QED
  BY <1>1, <1>2

(* A word of one atom that is no keyword. *)
ShortWord(w) == w[1] \notin Keywords /\ (w = <<"b">> \/ w = <<"ip4">> \/ IsDecimal(w))

(* What scanNumber refuses is no token. *)
LEMMA JudgedFine ==
  ASSUME layer \in AllLayers, NEW word \in Seq(Atoms), word # <<>>,
         (\E a : word = <<a>> /\ Valid(a)) \/ ShortWord(word) \/ LongWord(word)
  PROVE  Judged(word).kind # "bad"
<1>1. ASSUME NEW k \in {"num", "bytes", "address"}, NEW v, NEW n PROVE Token(k, v, n).kind # "bad"
  BY DEF Token
<1>2. ASSUME NEW a, word = <<a>>, Valid(a) PROVE Judged(word).kind # "bad"
  <2>1. Len(word) = 1 /\ word[1] = a /\ a \in Keywords
    BY <1>2 DEF Valid
  <2>2. Judged(word) = Symbol(a)
    BY <2>1 DEF Judged
  <2>3. Symbol(a) = Token("num", Macros(layer)[a], 1) \/ Symbol(a) = Token(a, 0, 1)
    BY <1>2 DEF Symbol, Valid
  <2>4. a # "bad"
    BY <2>1, WordsAre
  <2> QED
    BY <1>1, <2>2, <2>3, <2>4 DEF Token
<1>3. ASSUME ~(Len(word) = 1 /\ word[1] \in Keywords),
             word = <<"b">> \/ IsDecimal(word) \/ IsHex(word) \/ IsAddress(word)
      PROVE  Judged(word).kind # "bad"
  <2>1. \/ Judged(word) = Token("bytes", 0, 1)
        \/ Judged(word) = NumberOfBytes(word)
        \/ Judged(word) = Token("num", ParseUint(word, 10), Len(word))
        \/ Judged(word) = Token("num", ParseUint(SubSeq(word, 3, Len(word)), 16), Len(word))
        \/ Judged(word) = Token("address", word, Len(word))
    BY <1>3 DEF Judged
  <2> QED
    BY <1>1, <2>1 DEF NumberOfBytes
<1>4. CASE \E a : word = <<a>> /\ Valid(a)
  BY <1>2, <1>4
<1>5. CASE ShortWord(word)
  <2>1. word = <<"ip4">> => IsAddress(word)
    BY DEF IsAddress
  <2> QED
    BY <1>3, <1>5, <2>1 DEF ShortWord
<1>6. CASE LongWord(word)
  <2>1. Len(word) # 1
    <3>1. Len(word) >= 2
      BY <1>6 DEF LongWord
    <3>2. Len(word) \in Nat /\ \A n \in Nat : n >= 2 => n # 1
      OBVIOUS
    <3> QED
      BY <3>1, <3>2
  <2>2. IsDecimal(word) \/ IsHex(word) \/ IsAddress(word)
    BY <1>6 DEF LongWord
  <2> QED
    BY <1>3, <2>1, <2>2
<1> QED
  BY <1>4, <1>5, <1>6

(* Where a blank follows, or nothing. *)
Blank(k) == text[k] = " "
Ends(r) == r < Len(text) => Blank(r + 1)

(* A word that ends where a blank follows, or the text, is read. *)
LEMMA WholeWord ==
  ASSUME text \in Seq(Atoms), layer \in AllLayers, NEW p \in 0 .. Len(text) - 1, WordAt(p),
         NEW r \in p + 1 .. Len(text), Ends(r),
         NEW w, w = Cut(p, r), Len(w) < wordMax,
         \A k \in 1 .. Len(w) : w[k] \in WordAtoms,
         w[Len(w)] = ":" => Len(w) >= 2 /\ w[Len(w) - 1] = ":",
         Judged(w).kind # "bad"
  PROVE  TokenAt(p).kind # "bad"
<1> SUFFICES ASSUME NEW run, run = WordRun(p) PROVE TokenAt(p).kind # "bad"
  OBVIOUS
<1>1. /\ w \in Seq(Atoms) /\ Len(w) = r - p /\ \A j \in 1 .. r - p : w[j] = text[p + j]
  <2>1. p \in 0 .. Len(text) /\ r \in p .. Len(text)
    OBVIOUS
  <2> QED
    BY <2>1, CutIs
<1>2. IsRun(p, run)
  <2>1. p \in 0 .. Len(text)
    OBVIOUS
  <2> QED
    BY <2>1, WordRunIs
<1>3. Len(run) \in Nat /\ Len(w) \in Nat /\ Len(text) \in Nat /\ p + Len(run) <= Len(text) /\ Len(w) >= 1
  BY <1>1, <1>2 DEF IsRun
<1>4. ~(Len(run) < Len(w))
  <2> SUFFICES ASSUME Len(run) < Len(w) PROVE FALSE
    OBVIOUS
  <2>1. Len(run) + 1 \in 1 .. r - p /\ Len(run) + 1 \in 1 .. Len(w) /\ p + Len(run) < Len(text)
        /\ p + (Len(run) + 1) = p + Len(run) + 1
    BY <1>1, <1>3
  <2>2. w[Len(run) + 1] \in WordAtoms
    BY <2>1
  <2>3. w[Len(run) + 1] = text[p + Len(run) + 1]
    BY <1>1, <2>1
  <2> QED
    BY <1>2, <2>1, <2>2, <2>3 DEF IsRun
<1>5. ~(Len(run) > Len(w))
  <2> SUFFICES ASSUME Len(run) > Len(w) PROVE FALSE
    OBVIOUS
  <2>1. r - p + 1 \in 1 .. Len(run) /\ p + (r - p + 1) = r + 1 /\ r < Len(text)
    BY <1>1, <1>3
  <2>2. text[r + 1] \in WordAtoms
    BY <1>2, <2>1 DEF IsRun
  <2>3. text[r + 1] = " "
    BY <2>1 DEF Ends, Blank
  <2> QED
    BY <2>2, <2>3, WordsAre
<1>6. Len(run) = Len(w)
  BY <1>3, <1>4, <1>5
<1>7. run = w
  <2>1. run \in Seq(WordAtoms) /\ \A k \in 1 .. Len(run) : run[k] = text[p + k]
    BY <1>2 DEF IsRun
  <2>2. \A k \in 1 .. Len(run) : run[k] = w[k]
    BY <1>1, <1>6, <2>1
  <2> QED
    BY <1>1, <1>6, <2>1, <2>2
<1>8. ~ColonTrails(run)
  <2>1. Last(run) = w[Len(w)]
    BY <1>7 DEF Last
  <2> QED
    BY <1>3, <1>7, <2>1 DEF ColonTrails
<1>9. WordToken(p) = Judged(w)
  <2>1. WordOf(run) = w /\ run # <<>> /\ ~(Len(run) >= wordMax)
    <3>1. run # <<>> /\ ~(Len(run) >= wordMax)
      BY <1>3, <1>6, <1>7, ScanLimits
    <3> QED
      BY <1>7, <1>8, <3>1 DEF WordOf
  <2> QED
    BY <2>1 DEF WordToken
<1> QED
  BY <1>9 DEF WordAt, TokenAt

(* A token between two blanks is never refused. *)
LEMMA Whole ==
  ASSUME text \in Seq(Atoms), layer \in AllLayers, NEW p \in 0 .. Len(text) - 1,
         NEW r \in p + 1 .. Len(text), Ends(r), IsToken(Cut(p, r))
  PROVE  TokenAt(p).kind # "bad"
<1> SUFFICES ASSUME NEW w, w = Cut(p, r), NEW a, a = Atom(p), NEW b, b = Atom(p + 1)
             PROVE  TokenAt(p).kind # "bad"
  OBVIOUS
<1>1. /\ w \in Seq(Atoms) /\ Len(w) = r - p /\ \A j \in 1 .. r - p : w[j] = text[p + j]
  <2>1. p \in 0 .. Len(text) /\ r \in p .. Len(text)
    OBVIOUS
  <2> QED
    BY <2>1, CutIs
<1>2. Len(w) \in Nat /\ Len(w) >= 1 /\ w # <<>> /\ Len(text) \in Nat /\ w[1] = a /\ a \in Atoms
  <2>1. a = text[p + 1] /\ a \in Atoms
    BY AtomIs
  <2>2. Len(w) \in Nat /\ Len(w) >= 1 /\ Len(text) \in Nat
    BY <1>1
  <2>3. w[1] = text[p + 1]
    BY <1>1, <2>2
  <2> QED
    BY <2>1, <2>2, <2>3
<1>3. Len(w) < wordMax
  BY DEF IsToken
<1>4. SignTable(a, b, ConditionToken(p))
  BY SignIs
<1>5. ASSUME Len(w) = 1 PROVE b \notin {"=", "&", "|", ":"}
  <2>1. r = p + 1
    <3>1. r - p = 1
      BY <1>1, <1>5
    <3> QED
      BY <3>1
  <2>2. ASSUME NEW c \in Atoms, c # " ", b = c PROVE FALSE
    <3>1. p + 1 < Len(text) /\ text[p + 2] = c
      BY <2>2, AtomIs
    <3>2. text[r + 1] = text[p + 2]
      BY <2>1
    <3>3. text[r + 1] = " "
      BY <2>1, <3>1 DEF Ends, Blank
    <3> QED
      BY <2>2, <3>1, <3>2, <3>3
  <2>3. {"=", "&", "|", ":"} \subseteq Atoms
    <3>1. ":" \in Atoms
      BY WordsAre
    <3> QED
      BY <3>1 DEF Atoms
  <2> QED
    BY <2>2, <2>3
<1>6. Len(w) >= 2 => b = w[2]
  <2> SUFFICES ASSUME Len(w) >= 2 PROVE b = w[2]
    OBVIOUS
  <2>1. p + 1 < Len(text) /\ 2 \in 1 .. r - p
    BY <1>1, <1>2
  <2>2. text[p + 2] \in Atoms
    BY <2>1
  <2> QED
    BY <1>1, <2>1, <2>2, AtomIs
<1>7. ASSUME ConditionToken(p) \in {Token(k, 0, 1) : k \in Brackets \cup {":", "not", "eq", "lt", "gt"}}
                                 \cup {Token(k, 0, 2) : k \in {"neq", "eq", "leq", "geq", "and", "or"}}
      PROVE  TokenAt(p).kind # "bad"
  BY <1>7 DEF TokenAt, Token, Brackets
<1>8. CASE TwoSigns(w)
  <2>1. /\ b = IF a = "&" THEN "&" ELSE IF a = "|" THEN "|" ELSE "="
        /\ a \in {"=", "!", "<", ">", "&", "|"}
    <3>1. Len(w) = 2
      BY <1>8 DEF TwoSigns
    <3>2. a = w[1] /\ b = w[2]
      BY <1>2, <1>6, <3>1
    <3> QED
      BY <1>8, <3>2 DEF TwoSigns
  <2>2. ConditionToken(p) \in {Token("eq", 0, 2), Token("neq", 0, 2), Token("leq", 0, 2), Token("geq", 0, 2),
               Token("and", 0, 2), Token("or", 0, 2)}
    BY <1>4, <2>1 DEF SignTable
  <2> QED
    BY <1>7, <2>2
<1>9. CASE OneAtom(w)
  <2>1. w = <<a>> /\ Len(w) = 1
    BY <1>2, <1>9 DEF OneAtom
  <2>2. CASE a \in Brackets \cup {":", "=", "<", ">", "!"}
    <3>1. ConditionToken(p) \in {Token(k, 0, 1) : k \in Brackets \cup {":", "not", "eq", "lt", "gt"}}
      <4>1. b # "=" /\ b # ":"
        BY <1>5, <2>1
      <4>2. CASE a \in Brackets
        BY <1>4, <4>2 DEF SignTable
      <4>3. CASE a \in {":", "=", "<", ">", "!"}
        BY <1>4, <4>1, <4>3 DEF SignTable
      <4> QED
        BY <2>2, <4>2, <4>3
    <3> QED
      BY <1>7, <3>1
  <2>3. CASE a \in {"b", "ip4"} \/ IsDecimal(w) \/ Valid(a)
    <3>1. a \in {"b", "ip4", "0", "8"} \/ Valid(a)
      <4>1. ASSUME IsDecimal(w) PROVE a \in {"0", "8"}
        <5>1. 1 \in 1 .. Len(w)
          BY <1>2
        <5>2. \A k \in 1 .. Len(w) : w[k] \in {"0", "8"}
          BY <1>1, <4>1, DecimalIs
        <5> QED
          BY <1>2, <5>1, <5>2
      <4> QED
        BY <2>3, <4>1
    <3>2. a \in WordAtoms /\ a # ":" /\ (~Valid(a) => a \notin Keywords)
      BY <3>1, WordsAre DEF Valid
    <3>3. WordAt(p)
      <4>1. a \notin {"(", ")", "[", "]", "-", "?", "!", "=", "<", ">", "&", "|"}
        BY <3>2, WordsAre
      <4> QED
        BY <3>2, <4>1, WordAtIs DEF Brackets, LoneColon
    <3>4. Judged(w).kind # "bad"
      BY <1>1, <1>2, <2>1, <2>3, <3>2, JudgedFine DEF ShortWord
    <3>5. \A k \in 1 .. Len(w) : w[k] = a
      BY <2>1
    <3> QED
      BY <1>3, <2>1, <3>2, <3>3, <3>4, <3>5, WholeWord
  <2> QED
    BY <1>9, <2>1, <2>2, <2>3 DEF OneAtom, Brackets
<1>10. CASE LongWord(w)
  <2>1. /\ Len(w) >= 2 /\ \A k \in 1 .. Len(w) : w[k] \in WordAtoms
        /\ w[1] = ":" => w[2] = ":"
        /\ w[Len(w)] = ":" => w[Len(w) - 1] = ":"
    BY <1>1, <1>10, LongWordIs
  <2>2. WordAt(p)
    <3>1. a \in WordAtoms /\ (a = ":" => b = ":")
      BY <1>2, <1>6, <2>1
    <3>2. a \notin {"(", ")", "[", "]", "-", "?", "!", "=", "<", ">", "&", "|"}
      BY <3>1, WordsAre
    <3> QED
      BY <3>1, <3>2, WordAtIs DEF Brackets, LoneColon
  <2>3. Judged(w).kind # "bad"
    BY <1>1, <1>2, <1>10, JudgedFine
  <2> QED
    BY <1>3, <2>1, <2>2, <2>3, WholeWord
<1> QED
  BY <1>1, <1>2, <1>8, <1>9, <1>10, TokenIs

-----------------------------------------------------------------------------
(* What is said of the text alone stays true while it is scanned. *)
LEMMA TextStays ==
  ASSUME text' = text, layer' = layer
  PROVE  /\ \A p : TokenAt(p)' = TokenAt(p)
         /\ \A w : IsToken(w)' <=> IsToken(w)
         /\ \A from, to : IsChunk(from, to)' <=> IsChunk(from, to)
<1>1. ASSUME NEW p PROVE Atom(p)' = Atom(p)
  BY DEF Atom
<1>2. ASSUME NEW p PROVE ConditionToken(p)' = ConditionToken(p)
  BY <1>1 DEF ConditionToken, Either, Doubled
<1>3. ASSUME NEW p PROVE WordRun(p)' = WordRun(p)
  BY DEF WordRun
<1>4. Macros(layer)' = Macros(layer)
  OBVIOUS
<1>5. ASSUME NEW n PROVE Symbol(n)' = Symbol(n)
  BY <1>4 DEF Symbol
<1>6. ASSUME NEW w PROVE Judged(w)' = Judged(w)
  BY <1>5 DEF Judged
<1>7. ASSUME NEW p PROVE WordToken(p)' = WordToken(p)
  <2>1. WordToken(p) = IF WordRun(p) = <<>> \/ Len(WordRun(p)) >= wordMax THEN Token("bad", 0, 0)
                       ELSE Judged(WordOf(WordRun(p)))
    BY DEF WordToken
  <2>2. WordToken(p)' = IF WordRun(p)' = <<>> \/ Len(WordRun(p)') >= wordMax THEN Token("bad", 0, 0)
                        ELSE Judged(WordOf(WordRun(p)))'
    BY DEF WordToken
  <2>3. Judged(WordOf(WordRun(p)))' = Judged(WordOf(WordRun(p)))
    BY <1>3, <1>5 DEF Judged
  <2> QED
    BY <1>3, <2>1, <2>2, <2>3
<1>8. ASSUME NEW p PROVE TokenAt(p)' = TokenAt(p)
  BY <1>2, <1>7 DEF TokenAt
<1>9. Names' = Names
  BY DEF Names
<1>10. ASSUME NEW w PROVE IsToken(w)' <=> IsToken(w)
  BY <1>9 DEF IsToken
<1>11. ASSUME NEW from, NEW to PROVE IsChunk(from, to)' <=> IsChunk(from, to)
  BY DEF IsChunk
<1> QED
  BY <1>8, <1>10, <1>11

(* What stands between two blanks is no token. *)
ChunkRefuted(from, to) == IsChunk(from, to) /\ ~IsToken(SubSeq(text, from, to))

(* The token k is what TokenAt finds at its Pos, with nothing but blanks    *)
(* between its characters and the next token.                              *)
Recorded(k) ==
  LET p == tokens[k].pos
      t == TokenAt(p)
  IN  /\ p \in 0 .. Len(text) - 1 /\ t.kind # "bad"
      /\ tokens[k].kind = t.kind /\ tokens[k].val = t.val
      /\ PartEnd(k) \in p + t.n .. Len(text)
      /\ \A j \in p + t.n + 1 .. PartEnd(k) : Blank(j)

(* The token for the end is the last. *)
Ending(k) ==
  k = Len(tokens) /\ scanning = "done" /\ read = Len(text) /\ tokens[k].pos = read

ScanTypes ==
  /\ text \in Seq(Atoms) /\ layer \in AllLayers /\ read \in 0 .. Len(text)
  /\ \E S : tokens \in Seq(S)

(* The inductive invariant. *)
TokensRight ==
  \A k \in 1 .. Len(tokens) : IF tokens[k].kind = "end" THEN Ending(k) ELSE Recorded(k)

FrontBlank == \A j \in 1 .. (IF tokens = <<>> THEN read ELSE tokens[1].pos) : Blank(j)

(* What stands between two blanks and has been read in part is no token: a *)
(* token there would have been read to its end.                            *)
PassedRight ==
  \A from, to \in 1 .. Len(text) :
      IsChunk(from, to) /\ from <= read /\ read < to => ~IsToken(SubSeq(text, from, to))

Refused == \E from, to \in 1 .. Len(text) : ChunkRefuted(from, to)

ScanInv ==
  /\ ScanTypes /\ TokensRight /\ FrontBlank /\ PassedRight
  /\ err = "bad token" => Refused

(* Nothing has been read. *)
LEMMA ScanStarts ==
  ASSUME ScanInit
  PROVE  ScanInv
<1>1. PICK in \in Inputs : text = in.text /\ layer = in.layer
  BY DEF ScanInit
<1>2. text \in Seq(Atoms) /\ layer \in AllLayers
  BY <1>1, InputsAssumption
<1>3. read = 0 /\ tokens = <<>> /\ err = "none"
  BY DEF ScanInit
<1>4. ScanTypes
  <2>1. tokens \in Seq({}) /\ Len(text) \in Nat
    BY <1>2, <1>3
  <2> QED
    BY <1>2, <1>3, <2>1 DEF ScanTypes
<1>5. 1 .. Len(tokens) = {} /\ 1 .. (IF tokens = <<>> THEN read ELSE tokens[1].pos) = {}
  BY <1>3
<1>6. \A from, to \in 1 .. Len(text) : ~(from <= read)
  BY <1>3
<1> QED
  BY <1>3, <1>4, <1>5, <1>6 DEF ScanInv, TokensRight, FrontBlank, PassedRight

(* Two ways to write what stands between two blanks. *)
LEMMA ChunkCut ==
  ASSUME text \in Seq(Atoms), NEW from \in 1 .. Len(text), NEW to
  PROVE  SubSeq(text, from, to) = Cut(from - 1, to)
<1>1. (from - 1) + 1 = from
  OBVIOUS
<1> QED
  BY <1>1 DEF Cut

(* Between two blanks, in terms of blanks. *)
LEMMA ChunkIs ==
  ASSUME text \in Seq(Atoms), NEW from \in 1 .. Len(text), NEW to \in 1 .. Len(text)
  PROVE  IsChunk(from, to) <=>
            /\ from <= to /\ \A k \in from .. to : ~Blank(k)
            /\ from > 1 => Blank(from - 1)
            /\ Ends(to)
<1>1. IsChunk(from, to) <=>
         /\ from <= to /\ \A k \in from .. to : ~Blank(k)
         /\ \A k \in {from - 1, to + 1} \cap DOMAIN text : Blank(k)
  BY DEF IsChunk, Blank
<1>2. DOMAIN text = 1 .. Len(text) /\ Len(text) \in Nat
  OBVIOUS
<1>3. from > 1 <=> from - 1 \in DOMAIN text
  BY <1>2
<1>4. to < Len(text) <=> to + 1 \in DOMAIN text
  BY <1>2
<1>5. (\A k \in {from - 1, to + 1} \cap DOMAIN text : Blank(k))
        <=> (from - 1 \in DOMAIN text => Blank(from - 1)) /\ (to + 1 \in DOMAIN text => Blank(to + 1))
  OBVIOUS
<1> QED
  BY <1>1, <1>3, <1>4, <1>5 DEF Ends

(* Around every character that is no blank stands what two blanks enclose. *)
LEMMA ChunkAround ==
  ASSUME text \in Seq(Atoms), NEW p \in 1 .. Len(text), ~Blank(p)
  PROVE  \E from, to \in 1 .. Len(text) : IsChunk(from, to) /\ from <= p /\ p <= to
<1> DEFINE Before == {j \in 0 .. p - 1 : \A k \in j + 1 .. p : ~Blank(k)}
           Behind == {j \in p .. Len(text) : Ends(j)}
<1>0. Len(text) \in Nat
  OBVIOUS
<1>1. \E from \in 1 .. p : (\A k \in from .. p : ~Blank(k)) /\ (from > 1 => Blank(from - 1))
  <2>1. p - 1 \in Before /\ Before \in SUBSET Nat
    <3>1. \A k \in p - 1 + 1 .. p : k = p
      OBVIOUS
    <3> QED
      BY <3>1
  <2>2. PICK m \in Before : \A n \in Before : m <= n
    <3> HIDE DEF Before
    <3> QED
      BY <2>1, Least
  <2>3. m \in 0 .. p - 1 /\ \A k \in m + 1 .. p : ~Blank(k)
    BY <2>2
  <2>4. ASSUME m > 0, ~Blank(m) PROVE FALSE
    <3>1. m - 1 \in 0 .. p - 1 /\ ~(m <= m - 1)
      BY <2>3, <2>4
    <3>2. ASSUME NEW k \in m - 1 + 1 .. p PROVE ~Blank(k)
      <4>1. k = m \/ k \in m + 1 .. p
        BY <2>3
      <4> QED
        BY <2>3, <2>4, <4>1
    <3>3. m - 1 \in Before
      BY <3>1, <3>2
    <3> QED
      BY <2>2, <3>1, <3>3
  <2>5. m + 1 \in 1 .. p /\ m + 1 - 1 = m /\ (m + 1 > 1 => m > 0)
    BY <2>3
  <2> QED
    BY <2>3, <2>4, <2>5
<1>2. \E to \in p .. Len(text) : (\A k \in p .. to : ~Blank(k)) /\ Ends(to)
  <2>1. Len(text) \in Behind /\ Behind \in SUBSET Nat
    BY <1>0 DEF Ends
  <2>2. PICK m \in Behind : \A n \in Behind : m <= n
    <3> HIDE DEF Behind
    <3> QED
      BY <2>1, Least
  <2>3. m \in p .. Len(text) /\ Ends(m)
    BY <2>2
  <2>4. ASSUME NEW k \in p .. m, Blank(k) PROVE FALSE
    <3>1. k # p
      BY <2>4
    <3>2. k - 1 \in p .. Len(text) /\ k - 1 + 1 = k /\ ~(m <= k - 1)
      BY <2>3, <3>1
    <3>3. Ends(k - 1)
      BY <2>4, <3>2 DEF Ends
    <3>4. k - 1 \in Behind
      BY <3>2, <3>3
    <3> QED
      BY <2>2, <3>2, <3>4
  <2> QED
    BY <2>3, <2>4
<1>3. PICK from \in 1 .. p : (\A k \in from .. p : ~Blank(k)) /\ (from > 1 => Blank(from - 1))
  BY <1>1
<1>4. PICK to \in p .. Len(text) : (\A k \in p .. to : ~Blank(k)) /\ Ends(to)
  BY <1>2
<1> HIDE DEF Before, Behind
<1>5. from \in 1 .. Len(text) /\ to \in 1 .. Len(text) /\ from <= p /\ p <= to /\ from <= to
  BY <1>0
<1>6. ASSUME NEW k \in from .. to PROVE ~Blank(k)
  <2>1. k \in from .. p \/ k \in p .. to
    OBVIOUS
  <2> QED
    BY <1>3, <1>4, <2>1
<1>7. IsChunk(from, to)
  BY <1>3, <1>4, <1>5, <1>6, ChunkIs
<1> QED
  BY <1>5, <1>7

(* The token at a place that is no blank. *)
LEMMA TakenIs ==
  ASSUME text \in Seq(Atoms), layer \in AllLayers, NEW p \in 0 .. Len(text) - 1,
         TokenAt(p).kind # "bad"
  PROVE  /\ TokenAt(p).n \in 1 .. Len(text) - p /\ TokenAt(p).kind # "end"
         /\ \A j \in p + 1 .. p + TokenAt(p).n : ~Blank(j)
         /\ Spells(Cut(p, p + TokenAt(p).n), TokenAt(p))
<1>1. Stands(p, TokenAt(p))
  BY TokenStands
<1> QED
  BY <1>1 DEF Stands, Blank

(* Where the scanner is, by the atom in front of it. *)
LEMMA PlaceIs ==
  ASSUME ScanTypes
  PROVE  /\ Atom(read) = "end" => read = Len(text)
         /\ Atom(read) # "end" => read \in 0 .. Len(text) - 1 /\ Atom(read) = text[read + 1]
<1>1. text \in Seq(Atoms) /\ read \in 0 .. Len(text) /\ Len(text) \in Nat
  BY DEF ScanTypes
<1>2. CASE read < Len(text)
  <2>1. read \in 0 .. Len(text) - 1 /\ read + 1 \in 1 .. Len(text)
    BY <1>1, <1>2
  <2>2. Atom(read) = text[read + 1]
    BY <1>2 DEF Atom
  <2>3. Atom(read) \in Atoms
    BY <1>1, <2>1, <2>2
  <2> QED
    BY <2>1, <2>2, <2>3, WordsAre
<1>3. CASE ~(read < Len(text))
  <2>1. Atom(read) = "end" /\ read = Len(text)
    BY <1>1, <1>3 DEF Atom
  <2> QED
    BY <2>1
<1> QED
  BY <1>2, <1>3

(* The parts of the tokens when one is added, and when none is. *)
LEMMA PartsGrow ==
  ASSUME NEW S, tokens \in Seq(S), NEW x, x.pos = read, tokens' = Append(tokens, x)
  PROVE  /\ Len(tokens') = Len(tokens) + 1 /\ tokens'[Len(tokens) + 1] = x
         /\ tokens' \in Seq(S \cup {x})
         /\ \A k \in 1 .. Len(tokens) : tokens'[k] = tokens[k] /\ PartEnd(k)' = PartEnd(k)
         /\ \A k : k = Len(tokens) + 1 => PartEnd(k)' = read'
<1>1. /\ Len(tokens) \in Nat /\ Len(tokens') = Len(tokens) + 1 /\ tokens'[Len(tokens) + 1] = x
      /\ \A k \in 1 .. Len(tokens) : tokens'[k] = tokens[k]
  OBVIOUS
<1>2. tokens' \in Seq(S \cup {x})
  <2>1. S \subseteq S \cup {x}
    OBVIOUS
  <2>2. tokens \in Seq(S \cup {x})
    OBVIOUS
  <2> QED
    BY <2>2
<1>3. ASSUME NEW k \in 1 .. Len(tokens) PROVE PartEnd(k)' = PartEnd(k)
  <2>1. CASE k < Len(tokens)
    <3>1. k < Len(tokens') /\ k + 1 \in 1 .. Len(tokens)
      BY <1>1, <2>1
    <3> QED
      BY <1>1, <2>1, <3>1 DEF PartEnd
  <2>2. CASE k = Len(tokens)
    <3>1. k < Len(tokens') /\ ~(k < Len(tokens))
      BY <1>1, <2>2
    <3> QED
      BY <1>1, <2>2, <3>1 DEF PartEnd
  <2> QED
    BY <1>1, <2>1, <2>2
<1>4. ASSUME NEW k, k = Len(tokens) + 1 PROVE PartEnd(k)' = read'
  <2>1. ~(k < Len(tokens'))
    BY <1>1, <1>4
  <2> QED
    BY <2>1 DEF PartEnd
<1> QED
  BY <1>1, <1>2, <1>3, <1>4

(* What is recorded stays so when its part does not change. *)
LEMMA RecordStays ==
  ASSUME text' = text, layer' = layer, NEW k, tokens'[k] = tokens[k], PartEnd(k)' = PartEnd(k),
         Recorded(k)
  PROVE  Recorded(k)'
<1>1. \A p : TokenAt(p)' = TokenAt(p)
  BY TextStays
<1>2. \A j : Blank(j)' <=> Blank(j)
  BY DEF Blank
<1> QED
  BY <1>1, <1>2 DEF Recorded

(* A refusal that was right stays right. *)
LEMMA RefusalStays ==
  ASSUME text' = text, layer' = layer, Refused
  PROVE  Refused'
<1>1. PICK from \in 1 .. Len(text), to \in 1 .. Len(text) : ChunkRefuted(from, to)
  BY DEF Refused
<1>2. IsChunk(from, to)' /\ ~IsToken(SubSeq(text, from, to))'
  <2>1. \A w : IsToken(w)' <=> IsToken(w)
    BY TextStays
  <2>2. IsChunk(from, to)' <=> IsChunk(from, to)
    BY TextStays
  <2> QED
    BY <1>1, <2>1, <2>2 DEF ChunkRefuted
<1>3. ChunkRefuted(from, to)'
  BY <1>2 DEF ChunkRefuted
<1> QED
  BY <1>3 DEF Refused

(* What has been passed, at the next place. *)
LEMMA PassedStays ==
  ASSUME text' = text, layer' = layer,
         \A from, to \in 1 .. Len(text) :
             IsChunk(from, to) /\ from <= read' /\ read' < to => ~IsToken(SubSeq(text, from, to))
  PROVE  PassedRight'
<1>1. \A w : IsToken(w)' <=> IsToken(w)
  BY TextStays
<1>2. \A from, to : IsChunk(from, to)' <=> IsChunk(from, to)
  BY TextStays
<1> QED
  BY <1>1, <1>2 DEF PassedRight

(* Blanks stay where they are. *)
LEMMA BlankStays ==
  ASSUME text' = text
  PROVE  \A j : Blank(j)' <=> Blank(j)
  BY DEF Blank

(* A step that reads nothing. *)
LEMMA NothingRead ==
  ASSUME ScanInv, UNCHANGED <<text, layer, read, tokens>>,
         scanning' = scanning \/ scanning' = "done", err' = "bad token" => err = "bad token" \/ Refused
  PROVE  ScanInv'
<1>1. ScanTypes'
  BY DEF ScanInv, ScanTypes
<1>2. TokensRight'
  <2>1. ASSUME NEW k \in 1 .. Len(tokens), tokens[k].kind = "end" PROVE Ending(k)'
    BY <2>1 DEF ScanInv, TokensRight, Ending
  <2>2. ASSUME NEW k \in 1 .. Len(tokens), tokens[k].kind # "end" PROVE Recorded(k)'
    <3>1. PartEnd(k)' = PartEnd(k)
      BY DEF PartEnd
    <3> QED
      BY <2>2, <3>1, RecordStays DEF ScanInv, TokensRight
  <2> QED
    BY <2>1, <2>2 DEF TokensRight
<1>3. FrontBlank'
  BY BlankStays DEF ScanInv, FrontBlank
<1>4. PassedRight'
  BY PassedStays DEF ScanInv, PassedRight
<1>5. (err = "bad token" => Refused)'
  BY RefusalStays DEF ScanInv
<1> QED
  BY <1>1, <1>2, <1>3, <1>4, <1>5 DEF ScanInv

(* SkipSpace. *)
LEMMA BlankRead ==
  ASSUME ScanInv, SkipSpace
  PROVE  ScanInv'
<1>1. /\ scanning = "scan" /\ Atom(read) = " " /\ read' = read + 1
      /\ UNCHANGED <<text, layer, tokens, err, scanning>>
  BY DEF SkipSpace, Turn
<1>2. /\ text \in Seq(Atoms) /\ layer \in AllLayers /\ read \in 0 .. Len(text) - 1 /\ Len(text) \in Nat
      /\ Blank(read + 1)
  <2>1. ScanTypes
    BY DEF ScanInv
  <2>2. Atom(read) # "end"
    BY <1>1
  <2>3. read \in 0 .. Len(text) - 1 /\ Blank(read + 1)
    BY <1>1, <2>1, <2>2, PlaceIs DEF Blank
  <2> QED
    BY <2>1, <2>3 DEF ScanTypes
<1>3. PICK S : tokens \in Seq(S)
  BY DEF ScanInv, ScanTypes
<1>4. ScanTypes'
  <2>1. read' \in 0 .. Len(text)
    <3>1. read + 1 \in 0 .. Len(text)
      BY <1>2
    <3> QED
      BY <1>1, <3>1
  <2> QED
    BY <1>1, <1>2, <1>3, <2>1 DEF ScanTypes
<1>5. \A j : Blank(j)' <=> Blank(j)
  BY <1>1, BlankStays
<1>6. ASSUME NEW k \in 1 .. Len(tokens) PROVE tokens[k].kind # "end" /\ Recorded(k)'
  <2>1. tokens[k].kind # "end" /\ Recorded(k)
    BY <1>1 DEF ScanInv, TokensRight, Ending
  <2>2. CASE k < Len(tokens)
    <3>1. PartEnd(k)' = PartEnd(k)
      BY <1>1, <2>2 DEF PartEnd
    <3> QED
      BY <1>1, <2>1, <3>1, RecordStays
  <2>3. CASE ~(k < Len(tokens))
    <3>1. PartEnd(k) = read /\ PartEnd(k)' = read + 1
      BY <1>1, <2>3 DEF PartEnd
    <3> DEFINE p == tokens[k].pos t == TokenAt(p)
    <3>2. /\ p \in 0 .. Len(text) - 1 /\ t.kind # "bad"
          /\ tokens[k].kind = t.kind /\ tokens[k].val = t.val
          /\ read \in p + t.n .. Len(text)
          /\ \A j \in p + t.n + 1 .. read : Blank(j)
      BY <2>1, <3>1 DEF Recorded
    <3>3. t.n \in 1 .. Len(text) - p
      BY <1>2, <3>2, TakenIs
    <3>4. t' = t /\ p' = p
      <4>1. \A q : TokenAt(q)' = TokenAt(q)
        BY <1>1, TextStays
      <4>2. p' = p
        BY <1>1
      <4> QED
        BY <4>1, <4>2
    <3>5. read + 1 \in p + t.n .. Len(text) /\ \A j \in p + t.n + 1 .. read + 1 : Blank(j)
      <4> HIDE DEF p, t
      <4>1. \A j \in p + t.n + 1 .. read + 1 : j = read + 1 \/ j \in p + t.n + 1 .. read
        BY <1>2, <3>2, <3>3
      <4>2. read + 1 \in p + t.n .. Len(text)
        BY <1>2, <3>2, <3>3
      <4> QED
        BY <1>2, <3>2, <4>1, <4>2
    <3>6. /\ p' \in 0 .. Len(text') - 1 /\ t'.kind # "bad"
          /\ tokens'[k].kind = t'.kind /\ tokens'[k].val = t'.val
          /\ PartEnd(k)' \in p' + t'.n .. Len(text')
          /\ \A j \in p' + t'.n + 1 .. PartEnd(k)' : Blank(j)'
      <4>1. text' = text /\ tokens' = tokens
        BY <1>1
      <4> HIDE DEF p, t
      <4> QED
        BY <1>5, <3>1, <3>2, <3>4, <3>5, <4>1
    <3>7. Recorded(k)'
      BY <3>6 DEF Recorded
    <3> QED
      BY <2>1, <3>7
  <2> QED
    BY <2>2, <2>3
<1>7. TokensRight'
  BY <1>1, <1>6 DEF TokensRight
<1>8. FrontBlank'
  <2>1. CASE tokens = <<>>
    <3>1. \A j \in 1 .. read + 1 : j = read + 1 \/ j \in 1 .. read
      BY <1>2
    <3>2. \A j \in 1 .. read : Blank(j)
      BY <2>1 DEF ScanInv, FrontBlank
    <3> QED
      BY <1>1, <1>2, <1>5, <2>1, <3>1, <3>2 DEF FrontBlank
  <2>2. CASE tokens # <<>>
    BY <1>1, <1>5, <2>2 DEF ScanInv, FrontBlank
  <2> QED
    BY <2>1, <2>2
<1>9. PassedRight'
  <2>1. ASSUME NEW from \in 1 .. Len(text), NEW to \in 1 .. Len(text), IsChunk(from, to),
               from <= read + 1, read + 1 < to
        PROVE  FALSE
    <3>1. read + 1 \in from .. to
      BY <1>2, <2>1
    <3> QED
      BY <1>2, <2>1, <3>1, ChunkIs
  <2> QED
    BY <1>1, <2>1, PassedStays
<1>10. (err = "bad token" => Refused)'
  BY <1>1, RefusalStays DEF ScanInv
<1> QED
  BY <1>4, <1>7, <1>8, <1>9, <1>10 DEF ScanInv

(* Finish. *)
LEMMA EndRead ==
  ASSUME ScanInv, Finish
  PROVE  ScanInv'
<1>1. /\ scanning = "scan" /\ scanning' = "done" /\ Atom(read) = "end"
      /\ UNCHANGED <<text, layer, read, err>>
      /\ tokens' = Append(tokens, [kind |-> "end", val |-> 0, pos |-> read])
  BY DEF Finish, Turn, Add
<1>2. read = Len(text)
  BY <1>1, PlaceIs DEF ScanInv
<1>3. PICK S : tokens \in Seq(S)
  BY DEF ScanInv, ScanTypes
<1> DEFINE x == [kind |-> "end", val |-> 0, pos |-> read]
<1>4. /\ Len(tokens') = Len(tokens) + 1 /\ tokens'[Len(tokens) + 1] = x
      /\ tokens' \in Seq(S \cup {x})
      /\ \A k \in 1 .. Len(tokens) : tokens'[k] = tokens[k] /\ PartEnd(k)' = PartEnd(k)
  <2>1. x.pos = read /\ tokens' = Append(tokens, x)
    BY <1>1
  <2> HIDE DEF x
  <2> QED
    BY <1>3, <2>1, PartsGrow
<1>5. ScanTypes'
  <2> HIDE DEF x
  <2> QED
    BY <1>1, <1>4 DEF ScanInv, ScanTypes
<1>6. ASSUME NEW k \in 1 .. Len(tokens) PROVE tokens'[k].kind # "end" /\ Recorded(k)'
  <2>1. tokens[k].kind # "end" /\ Recorded(k)
    BY <1>1 DEF ScanInv, TokensRight, Ending
  <2> HIDE DEF x
  <2> QED
    BY <1>1, <1>4, <2>1, RecordStays
<1>7. TokensRight'
  <2>1. ASSUME NEW k \in 1 .. Len(tokens'), k \notin 1 .. Len(tokens) PROVE k = Len(tokens) + 1
    <3>1. Len(tokens) \in Nat
      BY <1>3
    <3> QED
      BY <1>4, <2>1, <3>1
  <2>2. ASSUME NEW k, k = Len(tokens) + 1 PROVE tokens'[k].kind = "end" /\ Ending(k)'
    <3>1. tokens'[k] = x /\ k = Len(tokens')
      BY <1>4, <2>2
    <3> QED
      BY <1>1, <1>2, <3>1 DEF Ending
  <2> HIDE DEF x
  <2>4. ASSUME NEW k \in 1 .. Len(tokens') PROVE IF tokens'[k].kind = "end" THEN Ending(k)' ELSE Recorded(k)'
    BY <1>6, <2>1, <2>2
  <2> QED
    BY <2>4 DEF TokensRight
<1>8. FrontBlank'
  <2>1. \A j : Blank(j)' <=> Blank(j)
    BY <1>1, BlankStays
  <2>2. tokens' # <<>>
    BY <1>1, <1>3
  <2>3. CASE tokens = <<>>
    <3>1. tokens'[1].pos = read
      BY <1>1, <2>3
    <3> QED
      BY <2>1, <2>2, <2>3, <3>1 DEF ScanInv, FrontBlank
  <2>4. CASE tokens # <<>>
    <3>1. tokens'[1] = tokens[1]
      BY <1>3, <1>4, <2>4
    <3> QED
      BY <2>1, <2>2, <2>4, <3>1 DEF ScanInv, FrontBlank
  <2> QED
    BY <2>3, <2>4
<1>9. PassedRight'
  BY <1>1, PassedStays DEF ScanInv, PassedRight
<1>10. (err = "bad token" => Refused)'
  BY <1>1, RefusalStays DEF ScanInv
<1> HIDE DEF x
<1> QED
  BY <1>5, <1>7, <1>8, <1>9, <1>10 DEF ScanInv

(* A token is added. *)
LEMMA TokenTaken ==
  ASSUME ScanInv, ScanToken, TokenAt(read).kind # "bad"
  PROVE  ScanInv'
<1> SUFFICES ASSUME NEW t, t = TokenAt(read), NEW p, p = read,
                    NEW x, x = [kind |-> t.kind, val |-> t.val, pos |-> read]
             PROVE  ScanInv'
  OBVIOUS
<1>1. /\ scanning = "scan" /\ Atom(read) \notin {" ", "end"}
      /\ read' = p + t.n /\ tokens' = Append(tokens, x)
      /\ UNCHANGED <<text, layer, err, scanning>>
  BY DEF ScanToken, Turn, Add
<1>2. text \in Seq(Atoms) /\ layer \in AllLayers /\ p \in 0 .. Len(text) - 1 /\ Len(text) \in Nat
  <2>1. ScanTypes
    BY DEF ScanInv
  <2>2. read \in 0 .. Len(text) - 1
    BY <1>1, <2>1, PlaceIs
  <2> QED
    BY <2>1, <2>2 DEF ScanTypes
<1>3. /\ t.n \in 1 .. Len(text) - p /\ t.kind # "end" /\ t.kind # "bad"
      /\ \A j \in p + 1 .. p + t.n : ~Blank(j)
  BY <1>2, TakenIs
<1>4. PICK S : tokens \in Seq(S)
  BY DEF ScanInv, ScanTypes
<1>5. x.kind = t.kind /\ x.val = t.val /\ x.pos = p
  OBVIOUS
<1>6. /\ Len(tokens') = Len(tokens) + 1 /\ tokens'[Len(tokens) + 1] = x
      /\ tokens' \in Seq(S \cup {x})
      /\ \A k \in 1 .. Len(tokens) : tokens'[k] = tokens[k] /\ PartEnd(k)' = PartEnd(k)
      /\ \A k : k = Len(tokens) + 1 => PartEnd(k)' = read'
  BY <1>1, <1>4, <1>5, PartsGrow
<1>7. ScanTypes'
  <2>1. read' \in 0 .. Len(text)
    <3>1. p + t.n \in 0 .. Len(text)
      BY <1>2, <1>3
    <3> QED
      BY <1>1, <3>1
  <2> QED
    BY <1>1, <1>2, <1>6, <2>1 DEF ScanTypes
<1>8. ASSUME NEW k \in 1 .. Len(tokens) PROVE tokens'[k].kind # "end" /\ Recorded(k)'
  <2>1. tokens[k].kind # "end" /\ Recorded(k)
    BY <1>1 DEF ScanInv, TokensRight, Ending
  <2> QED
    BY <1>1, <1>6, <2>1, RecordStays
<1>9. ASSUME NEW k, k = Len(tokens) + 1 PROVE tokens'[k].kind # "end" /\ Recorded(k)'
  <2>1. tokens'[k] = x /\ PartEnd(k)' = p + t.n
    BY <1>1, <1>6, <1>9
  <2>2. TokenAt(p)' = t
    BY <1>1, TextStays
  <2>3. p + t.n \in p + t.n .. Len(text) /\ p + t.n + 1 .. p + t.n = {}
    BY <1>2, <1>3
  <2>4. /\ p \in 0 .. Len(text') - 1 /\ TokenAt(p)'.kind # "bad"
        /\ tokens'[k].kind = TokenAt(p)'.kind /\ tokens'[k].val = TokenAt(p)'.val
        /\ PartEnd(k)' \in p + TokenAt(p)'.n .. Len(text')
        /\ \A j \in p + TokenAt(p)'.n + 1 .. PartEnd(k)' : Blank(j)'
    BY <1>1, <1>2, <1>3, <1>5, <2>1, <2>2, <2>3
  <2>5. tokens'[k].pos = p
    BY <1>5, <2>1
  <2>6. Recorded(k)'
    BY <2>4, <2>5 DEF Recorded
  <2> QED
    BY <1>3, <1>5, <2>1, <2>6
<1>10. TokensRight'
  <2>1. ASSUME NEW k \in 1 .. Len(tokens'), k \notin 1 .. Len(tokens) PROVE k = Len(tokens) + 1
    <3>1. Len(tokens) \in Nat
      BY <1>4
    <3> QED
      BY <1>6, <2>1, <3>1
  <2> QED
    BY <1>8, <1>9, <2>1 DEF TokensRight
<1>11. FrontBlank'
  <2>1. \A j : Blank(j)' <=> Blank(j)
    BY <1>1, BlankStays
  <2>2. tokens' # <<>>
    <3>1. Len(tokens) \in Nat /\ Len(<<>>) = 0
      BY <1>4
    <3>2. Len(tokens') # 0
      BY <1>6, <3>1
    <3> QED
      BY <3>1, <3>2
  <2>3. CASE tokens = <<>>
    <3>1. tokens'[1].pos = read
      <4>1. Len(tokens) + 1 = 1
        BY <2>3
      <4>2. tokens'[1] = x
        BY <1>6, <4>1
      <4> QED
        BY <4>2
    <3> QED
      BY <2>1, <2>2, <2>3, <3>1 DEF ScanInv, FrontBlank
  <2>4. CASE tokens # <<>>
    <3>1. tokens'[1] = tokens[1]
      BY <1>4, <1>6, <2>4
    <3> QED
      BY <2>1, <2>2, <2>4, <3>1 DEF ScanInv, FrontBlank
  <2> QED
    BY <2>3, <2>4
<1>12. PassedRight'
  <2>1. ASSUME NEW from \in 1 .. Len(text), NEW to \in 1 .. Len(text),
               IsChunk(from, to), from <= p + t.n, p + t.n < to
        PROVE  ~IsToken(SubSeq(text, from, to))
    <3>1. CASE from <= p
      <4>1. p < to
        BY <1>2, <1>3, <2>1
      <4> QED
        BY <2>1, <3>1, <4>1 DEF ScanInv, PassedRight
    <3>2. CASE from = p + 1
      <4>1. to \in p + 1 .. Len(text) /\ to > p + t.n /\ from - 1 = p
        BY <1>2, <1>3, <2>1, <3>2
      <4>2. ~IsToken(Cut(p, to))
        BY <1>2, <1>3, <4>1, Longest
      <4> QED
        BY <1>2, <4>1, <4>2, ChunkCut
    <3>3. CASE from > p + 1
      <4>1. from - 1 \in p + 1 .. p + t.n /\ from > 1
        BY <1>2, <1>3, <2>1, <3>3
      <4>2. Blank(from - 1)
        BY <1>2, <2>1, <4>1, ChunkIs
      <4> QED
        BY <1>3, <4>1, <4>2
    <3>4. from <= p \/ from = p + 1 \/ from > p + 1
      BY <1>2
    <3> QED
      BY <3>1, <3>2, <3>3, <3>4
  <2>2. \A from, to \in 1 .. Len(text) :
             IsChunk(from, to) /\ from <= read' /\ read' < to => ~IsToken(SubSeq(text, from, to))
    <3>1. read' = p + t.n
      BY <1>1
    <3> QED
      BY <2>1, <3>1
  <2> QED
    BY <1>1, <2>2, PassedStays
<1>13. (err = "bad token" => Refused)'
  BY <1>1, RefusalStays DEF ScanInv
<1> QED
  BY <1>7, <1>10, <1>11, <1>12, <1>13 DEF ScanInv

(* A bad token: no token begins where the scanner is, so that what stands
   there between two blanks, or began before, is none. *)
LEMMA TokenRefused ==
  ASSUME ScanInv, ScanToken, TokenAt(read).kind = "bad"
  PROVE  ScanInv'
<1>1. Atom(read) \notin {" ", "end"} /\ UNCHANGED <<text, layer, read, tokens>> /\ scanning' = "done"
  BY DEF ScanToken, Turn
<1>2. /\ text \in Seq(Atoms) /\ layer \in AllLayers /\ read \in 0 .. Len(text) - 1 /\ Len(text) \in Nat
      /\ ~Blank(read + 1)
  <2>1. ScanTypes
    BY DEF ScanInv
  <2>2. read \in 0 .. Len(text) - 1 /\ Atom(read) = text[read + 1]
    BY <1>1, <2>1, PlaceIs
  <2>3. ~Blank(read + 1)
    BY <1>1, <2>2 DEF Blank
  <2> QED
    BY <2>1, <2>2, <2>3 DEF ScanTypes
<1>3. PICK from \in 1 .. Len(text), to \in 1 .. Len(text) :
          IsChunk(from, to) /\ from <= read + 1 /\ read + 1 <= to
  <2>1. read + 1 \in 1 .. Len(text)
    BY <1>2
  <2> QED
    BY <1>2, <2>1, ChunkAround
<1>4. ~IsToken(SubSeq(text, from, to))
  <2>1. CASE from <= read
    <3>1. read < to
      BY <1>2, <1>3
    <3> QED
      BY <1>3, <2>1, <3>1 DEF ScanInv, PassedRight
  <2>2. CASE from = read + 1
    <3>1. to \in read + 1 .. Len(text) /\ from - 1 = read
      BY <1>2, <1>3, <2>2
    <3>2. Ends(to)
      BY <1>2, <1>3, ChunkIs
    <3>3. ~IsToken(Cut(read, to))
      BY <1>2, <3>1, <3>2, Whole
    <3> QED
      BY <1>2, <3>1, <3>3, ChunkCut
  <2>3. from <= read \/ from = read + 1
    BY <1>2, <1>3
  <2> QED
    BY <2>1, <2>2, <2>3
<1>5. Refused
  BY <1>3, <1>4 DEF Refused, ChunkRefuted
<1> QED
  BY <1>1, <1>5, NothingRead

(* Every step keeps the invariant. *)
LEMMA ScanStep ==
  ASSUME ScanInv, [ScanNext]_scanVars
  PROVE  ScanInv'
<1>1. CASE TooManyTokens
  BY <1>1, NothingRead DEF TooManyTokens
<1>2. CASE SkipSpace
  BY <1>2, BlankRead
<1>3. CASE Finish
  BY <1>3, EndRead
<1>4. CASE ScanToken
  BY <1>4, TokenTaken, TokenRefused
<1>5. CASE UNCHANGED scanVars
  BY <1>5, NothingRead DEF scanVars
<1> QED
  BY <1>1, <1>2, <1>3, <1>4, <1>5 DEF ScanNext

-----------------------------------------------------------------------------
(* The piece of a token is what has been taken for it. *)
LEMMA PieceIs ==
  ASSUME ScanTypes, NEW k, Recorded(k),
         NEW p, p = tokens[k].pos, NEW t, t = TokenAt(p), NEW e, e = PartEnd(k)
  PROVE  /\ p \in 0 .. Len(text) - 1 /\ t.n \in 1 .. Len(text) - p /\ e \in p + t.n .. Len(text)
         /\ Len(Part(k)) = e - p
         /\ Piece(k) = Cut(p, p + t.n) /\ Len(Piece(k)) = t.n
         /\ \A j \in DOMAIN Part(k) : j > t.n => Part(k)[j] = " "
<1>1. text \in Seq(Atoms) /\ layer \in AllLayers /\ Len(text) \in Nat
  BY DEF ScanTypes
<1>2. /\ p \in 0 .. Len(text) - 1 /\ e \in p + t.n .. Len(text)
      /\ \A j \in p + t.n + 1 .. e : Blank(j)
  BY DEF Recorded
<1>2a. t.kind # "bad"
  BY DEF Recorded
<1>3. t.n \in 1 .. Len(text) - p /\ \A j \in p + 1 .. p + t.n : ~Blank(j)
  BY <1>1, <1>2, <1>2a, TakenIs
<1> DEFINE part == Part(k)
<1>4. part \in Seq(Atoms) /\ Len(part) = e - p /\ \A j \in 1 .. e - p : part[j] = text[p + j]
  <2>1. part = Cut(p, e)
    BY DEF Part, Cut
  <2>2. p \in 0 .. Len(text) /\ e \in p .. Len(text)
    BY <1>1, <1>2, <1>3
  <2> HIDE DEF part
  <2> QED
    BY <1>1, <2>1, <2>2, CutIs
<1> HIDE DEF part
<1> DEFINE A == Atoms \ {" "}
<1>5. ASSUME NEW j \in 1 .. e - p PROVE part[j] \in A <=> j <= t.n
  <2>1. part[j] = text[p + j] /\ part[j] \in Atoms
    BY <1>4
  <2>2. p + j \in p + 1 .. p + t.n \/ p + j \in p + t.n + 1 .. e
    BY <1>2, <1>3
  <2>3. j <= t.n <=> p + j \in p + 1 .. p + t.n
    BY <1>2, <1>3
  <2>4. ~(j <= t.n) => p + j \in p + t.n + 1 .. e
    BY <1>2, <1>3, <2>2, <2>3
  <2>5. Blank(p + j) <=> ~(j <= t.n)
    BY <1>2, <1>3, <2>3, <2>4
  <2> QED
    BY <2>1, <2>5 DEF Blank, A
<1> HIDE DEF A
<1> DEFINE piece == Span(part, A)
<1>6. /\ Len(piece) \in 0 .. Len(part)
      /\ \A j \in 1 .. Len(piece) : part[j] \in A
      /\ Len(piece) < Len(part) => part[Len(piece) + 1] \notin A
      /\ piece = SubSeq(part, 1, Len(piece))
  BY <1>4, SpanIs
<1> HIDE DEF piece
<1>7. Len(piece) = t.n
  <2>0. /\ t.n \in Nat /\ Len(piece) \in Nat /\ e - p \in Nat /\ Len(part) = e - p
        /\ t.n <= e - p /\ Len(piece) <= e - p
    <3>1. t.n \in Nat
      BY <1>1, <1>2, <1>3
    <3>2. e - p \in Nat /\ t.n <= e - p
      BY <1>2, <3>1
    <3> QED
      BY <1>4, <1>6, <3>1, <3>2
  <2>1. ASSUME Len(piece) < t.n PROVE FALSE
    <3>1. Len(piece) + 1 \in 1 .. e - p /\ Len(piece) + 1 <= t.n /\ Len(piece) < Len(part)
      BY <2>0, <2>1
    <3> QED
      BY <1>5, <1>6, <3>1
  <2>2. ASSUME Len(piece) > t.n PROVE FALSE
    <3>1. t.n + 1 \in 1 .. e - p /\ ~(t.n + 1 <= t.n) /\ t.n + 1 \in 1 .. Len(piece)
      BY <2>0, <2>2
    <3> QED
      BY <1>5, <1>6, <3>1
  <2> QED
    BY <2>0, <2>1, <2>2
<1>8. piece = Cut(p, p + t.n)
  <2>1. piece = SubSeq(part, 1, t.n)
    BY <1>6, <1>7
  <2>2. t.n \in 1 .. Len(part)
    BY <1>2, <1>3, <1>4
  <2>3. /\ SubSeq(part, 1, t.n) \in Seq(Atoms) /\ Len(SubSeq(part, 1, t.n)) = t.n
        /\ \A j \in 1 .. t.n : SubSeq(part, 1, t.n)[j] = part[j]
    <3>1. \A n \in 1 .. Len(part) :
             /\ SubSeq(part, 1, n) \in Seq(Atoms) /\ Len(SubSeq(part, 1, n)) = n
             /\ \A j \in 1 .. n : SubSeq(part, 1, n)[j] = part[j]
      BY <1>4
    <3> QED
      BY <2>2, <3>1
  <2>4. /\ Cut(p, p + t.n) \in Seq(Atoms) /\ Len(Cut(p, p + t.n)) = t.n
        /\ \A j \in 1 .. t.n : Cut(p, p + t.n)[j] = text[p + j]
    <3>1. p \in 0 .. Len(text) /\ p + t.n \in p .. Len(text) /\ (p + t.n) - p = t.n
      BY <1>1, <1>2, <1>3
    <3> QED
      BY <1>1, <3>1, CutIs
  <2>5. \A j \in 1 .. t.n : part[j] = text[p + j]
    <3>1. \A j \in 1 .. t.n : j \in 1 .. e - p
      BY <1>4, <2>2
    <3> QED
      BY <1>4, <3>1
  <2> QED
    BY <2>1, <2>3, <2>4, <2>5
<1>9. ASSUME NEW j \in DOMAIN part, j > t.n PROVE part[j] = " "
  <2>1. j \in 1 .. e - p /\ ~(j <= t.n)
    BY <1>3, <1>4, <1>9
  <2>2. part[j] \in Atoms
    BY <1>4, <2>1
  <2> QED
    BY <1>5, <2>1, <2>2 DEF A
<1>10. Piece(k) = piece
  BY DEF Piece, part, piece, A
<1> QED
  BY <1>2, <1>3, <1>4, <1>7, <1>8, <1>9, <1>10 DEF part

(* Two pieces that touch. *)
LEMMA CutsJoin ==
  ASSUME text \in Seq(Atoms), NEW p \in 0 .. Len(text), NEW q \in p .. Len(text), NEW r \in q .. Len(text)
  PROVE  Cut(p, q) \o Cut(q, r) = Cut(p, r)
<1>1. Len(text) \in Nat /\ q \in 0 .. Len(text) /\ r \in p .. Len(text)
  OBVIOUS
<1>2. /\ Cut(p, q) \in Seq(Atoms) /\ Len(Cut(p, q)) = q - p
      /\ \A j \in 1 .. q - p : Cut(p, q)[j] = text[p + j]
  BY CutIs
<1>3. /\ Cut(q, r) \in Seq(Atoms) /\ Len(Cut(q, r)) = r - q
      /\ \A j \in 1 .. r - q : Cut(q, r)[j] = text[q + j]
  BY <1>1, CutIs
<1>4. /\ Cut(p, r) \in Seq(Atoms) /\ Len(Cut(p, r)) = r - p
      /\ \A j \in 1 .. r - p : Cut(p, r)[j] = text[p + j]
  BY <1>1, CutIs
<1> DEFINE both == Cut(p, q) \o Cut(q, r)
<1>5. both \in Seq(Atoms) /\ Len(both) = r - p
  <2>1. Len(both) = Len(Cut(p, q)) + Len(Cut(q, r)) /\ both \in Seq(Atoms)
    BY <1>2, <1>3, ConcatProperties
  <2>2. (q - p) + (r - q) = r - p
    OBVIOUS
  <2> QED
    BY <1>2, <1>3, <2>1, <2>2
<1>6. ASSUME NEW j \in 1 .. r - p PROVE both[j] = Cut(p, r)[j]
  <2>1. CASE j <= q - p
    <3>1. j \in 1 .. q - p
      BY <2>1
    <3>2. both[j] = Cut(p, q)[j]
      BY <1>2, <1>3, <3>1
    <3> QED
      BY <1>2, <1>4, <3>1, <3>2
  <2>2. CASE j > q - p
    <3>1. j - (q - p) \in 1 .. r - q /\ q + (j - (q - p)) = p + j
      BY <2>2
    <3>2. both[j] = Cut(q, r)[j - (q - p)]
      BY <1>2, <1>3, <2>2
    <3> QED
      BY <1>3, <1>4, <3>1, <3>2
  <2>3. j <= q - p \/ j > q - p
    OBVIOUS
  <2> QED
    BY <2>1, <2>2, <2>3
<1> HIDE DEF both
<1>7. both = Cut(p, r)
  BY <1>4, <1>5, <1>6
<1> QED
  BY <1>7 DEF both

(* The invariant implies what the scanner promises. *)
LEMMA ScanSafe ==
  ASSUME ScanInv
  PROVE  ScannedAsWritten
<1>0. ScanTypes
  BY DEF ScanInv
<1>1. text \in Seq(Atoms) /\ layer \in AllLayers /\ Len(text) \in Nat /\ ScanTypes
  BY <1>0 DEF ScanTypes
<1>2. PICK S : tokens \in Seq(S)
  BY DEF ScanInv, ScanTypes
<1>3. DOMAIN tokens = 1 .. Len(tokens) /\ DOMAIN text = 1 .. Len(text) /\ Len(tokens) \in Nat
  BY <1>1, <1>2
<1>4. ASSUME NEW k \in DOMAIN tokens, tokens[k].kind # "end"
      PROVE  /\ Spells(Piece(k), tokens[k])
             /\ \A j \in DOMAIN Part(k) : j > Len(Piece(k)) => Part(k)[j] = " "
  <2> DEFINE p == tokens[k].pos t == TokenAt(p)
  <2>1. Recorded(k)
    BY <1>3, <1>4 DEF ScanInv, TokensRight
  <2>2. /\ Piece(k) = Cut(p, p + t.n) /\ Len(Piece(k)) = t.n /\ p \in 0 .. Len(text) - 1
        /\ \A j \in DOMAIN Part(k) : j > t.n => Part(k)[j] = " "
    BY <1>1, <2>1, PieceIs
  <2>3. tokens[k].kind = t.kind /\ tokens[k].val = t.val /\ t.kind # "bad"
    BY <2>1 DEF Recorded
  <2>4. Spells(Cut(p, p + t.n), t)
    BY <1>1, <2>2, <2>3, TakenIs
  <2> HIDE DEF p, t
  <2>5. Spells(Piece(k), tokens[k])
    BY <2>2, <2>3, <2>4 DEF Spells
  <2> QED
    BY <2>2, <2>5
<1>5. tokens # <<>> => \A k \in 1 .. tokens[1].pos : text[k] = " "
  BY DEF ScanInv, FrontBlank, Blank
<1>6. ASSUME NEW k \in 1 .. Len(tokens) - 1, Touch(k) PROVE ~IsToken(Piece(k) \o Piece(k + 1))
  <2>1. k \in 1 .. Len(tokens) /\ k + 1 \in 1 .. Len(tokens) /\ k # Len(tokens) /\ k < Len(tokens)
    <3>1. Len(tokens) \in Nat
      BY <1>3
    <3> QED
      BY <3>1
  <2>2. Recorded(k)
    BY <2>1 DEF ScanInv, TokensRight, Ending
  <2> DEFINE p == tokens[k].pos n == TokenAt(p).n
  <2>3. /\ p \in 0 .. Len(text) - 1 /\ n \in 1 .. Len(text) - p /\ PartEnd(k) \in p + n .. Len(text)
        /\ Len(Part(k)) = PartEnd(k) - p /\ Piece(k) = Cut(p, p + n) /\ Len(Piece(k)) = n
    BY <1>1, <2>2, PieceIs
  <2>4. TokenAt(p).kind # "bad"
    BY <2>2 DEF Recorded
  <2> DEFINE q == tokens[k + 1].pos m == TokenAt(q).n
  <2>5. PartEnd(k) = q
    BY <2>1 DEF PartEnd
  <2>6. q = p + n
    <3>0. Part(k) = Piece(k)
      BY <1>6 DEF Touch
    <3> HIDE DEF p, n, q
    <3>1. Len(Part(k)) = n
      BY <2>3, <3>0
    <3> QED
      BY <1>1, <2>3, <2>5, <3>1
  <2>7. tokens[k + 1].kind # "end"
    <3> SUFFICES ASSUME tokens[k + 1].kind = "end" PROVE FALSE
      OBVIOUS
    <3>1. Ending(k + 1)
      BY <2>1 DEF ScanInv, TokensRight
    <3>2. Part(k + 1) = <<>>
      <4>1. Part(k + 1) = SubSeq(text, Len(text) + 1, Len(text))
        BY <3>1, <2>1 DEF Ending, Part, PartEnd
      <4> QED
        BY <1>1, <4>1
    <3>3. Piece(k + 1) = <<>>
      <4>1. <<>> \in Seq(Atoms) /\ Len(<<>>) = 0
        OBVIOUS
      <4>2. Piece(k + 1) \in Seq(Atoms) /\ Len(Piece(k + 1)) \in 0 .. 0
        BY <3>2, <4>1, SpanIs DEF Piece
      <4> QED
        BY <4>2
    <3> QED
      BY <1>6, <3>3 DEF Touch
  <2>8. Recorded(k + 1)
    BY <2>1, <2>7 DEF ScanInv, TokensRight
  <2>9. q \in 0 .. Len(text) - 1 /\ m \in 1 .. Len(text) - q /\ Piece(k + 1) = Cut(q, q + m)
    BY <1>1, <2>8, PieceIs
  <2> HIDE DEF p, n, q, m
  <2>10. /\ p \in 0 .. Len(text) /\ q \in p .. Len(text) /\ q + m \in q .. Len(text)
         /\ q + m \in p + 1 .. Len(text) /\ q + m > p + n
    BY <1>1, <2>3, <2>6, <2>9
  <2>11. Piece(k) \o Piece(k + 1) = Cut(p, q + m)
    BY <1>1, <2>3, <2>6, <2>9, <2>10, CutsJoin
  <2>12. ~IsToken(Cut(p, q + m))
    BY <1>1, <2>3, <2>4, <2>10, Longest DEF n
  <2> QED
    BY <2>11, <2>12
<1>7. err = "bad token" =>
           \E from, to \in DOMAIN text : IsChunk(from, to) /\ ~IsToken(SubSeq(text, from, to))
  BY <1>3 DEF ScanInv, Refused, ChunkRefuted
<1> QED
  BY <1>4, <1>5, <1>6, <1>7 DEF ScannedAsWritten

(* For texts of any length, any layer and any limits: the tokens are what  *)
(* the characters spell, no two that touch could be one longer token, and  *)
(* what is refused has something between blanks that is no token           *)
(* (TokenizeFilter, scanConditionToken and scanNumber, token.go:73-278).   *)
THEOREM ScannedAlways == ScanSpec => []ScannedAsWritten
<1>1. ScanInit => ScanInv
  BY ScanStarts
<1>2. ScanInv /\ [ScanNext]_scanVars => ScanInv'
  BY ScanStep
<1>3. ScanInv => ScannedAsWritten
  BY ScanSafe
<1> QED
  BY <1>1, <1>2, <1>3, PTL DEF ScanSpec

-----------------------------------------------------------------------------
(* The parser, for texts of any length and any depth.                      *)

InputTyped == input \in Seq(Words \cup {Word("end")})

(* The text ends with an end. *)
Ended == InputTyped /\ input # <<>> /\ Kind(Len(input)) = "end"

LEMMA InputIs ==
  ASSUME InputTyped
  PROVE  /\ Len(input) \in Nat /\ DOMAIN input = 1 .. Len(input)
         /\ \A i \in 1 .. Len(input) : Kind(i) = input[i].kind /\ input[i].val \in Nat
         /\ \A i : i \notin 1 .. Len(input) => Kind(i) = "outside"
<1>1. \A w \in Words \cup {Word("end")} : w.val \in Nat
  BY WordsAssumption DEF Word
<1>2. /\ Len(input) \in Nat /\ DOMAIN input = 1 .. Len(input)
      /\ \A i \in 1 .. Len(input) : input[i] \in Words \cup {Word("end")}
  BY DEF InputTyped
<1> QED
  BY <1>1, <1>2 DEF Kind

(* Behind a token that is not the end there is another one. *)
LEMMA NotTheEnd ==
  ASSUME Ended, NEW i \in 1 .. Len(input), Kind(i) # "end"
  PROVE  i + 1 \in 1 .. Len(input)
  BY InputIs DEF Ended

LEMMA FailedIs ==
  ASSUME InputTyped, NEW e, NEW i
  PROVE  /\ Failed(e, i).code = <<>> /\ Failed(e, i).n = 0
         /\ Failed(e, i).err = IF i \in 1 .. Len(input) THEN e ELSE "outside"
  BY InputIs DEF Failed

LEMMA AfterNotsIs ==
  ASSUME InputTyped, NEW i \in Nat
  PROVE  /\ AfterNots(i) \in i .. i + Len(input)
         /\ Kind(AfterNots(i)) # "not" /\ \A h \in i .. AfterNots(i) - 1 : Kind(h) = "not"
<1> DEFINE S == {j \in i .. i + Len(input) : Kind(j) # "not"}
<1>1. \E j \in i .. i + Len(input) : j \notin 1 .. Len(input)
  <2>1. CASE i = 0
    BY <2>1, InputIs
  <2>2. CASE i # 0
    <3>1. i + Len(input) \in i .. i + Len(input) /\ i + Len(input) \notin 1 .. Len(input)
      BY <2>2, InputIs
    <3> QED
      BY <3>1
  <2> QED
    BY <2>1, <2>2
<1>2. S # {} /\ S \in SUBSET Nat
  BY <1>1, InputIs
<1>3. PICK m \in S : \A n \in S : m <= n
  <2> HIDE DEF S
  <2> QED
    BY <1>2, Least
<1>4. \A h \in i .. m - 1 : Kind(h) = "not"
  <2> SUFFICES ASSUME NEW h \in i .. m - 1, Kind(h) # "not" PROVE FALSE
    OBVIOUS
  <2>1. h \in S /\ ~(m <= h)
    BY <1>3, InputIs
  <2> QED
    BY <1>3, <2>1
<1>5. \E j \in i .. i + Len(input) : Kind(j) # "not" /\ \A h \in i .. j - 1 : Kind(h) = "not"
  BY <1>3, <1>4
<1> QED
  BY <1>5 DEF AfterNots

-----------------------------------------------------------------------------
(* An array variable of four-byte elements has the index that is written. *)
ScaledVars ==
  {v \in Vars : Kind(v.at) = "packet32" =>
                   \E last \in v.at + 3 .. Len(input) : ArrayIndex(v.at, last) = {v.index}}

ScaledNodes == {x \in Nodes : x.op = "test" => x.var \in ScaledVars}

(* A call ends within the text: it fails at one of its tokens, and what    *)
(* succeeds leaves at least one. *)
Stays(r, i) == r.err # "outside" /\ (r.err = "none" => i + r.n \in 1 .. Len(input))

(* What may come of a part without calls, with things of S. *)
Outcome1(r, S, i) ==
  /\ r.err \in (Errors \ {"too deep"}) \cup {"none"} /\ r.n \in Nat
  /\ r.code \in Seq(S) /\ (r.err = "none" => Len(r.code) = 1) /\ (r.err # "none" => r.code = <<>>)
  /\ Ended => Stays(r, i)

LEMMA Refusal ==
  ASSUME InputTyped, NEW e \in {"unexpected token", "index out of bounds"}, NEW j,
         Ended => j \in 1 .. Len(input), NEW i, NEW S
  PROVE  Outcome1(Failed(e, j), S, i)
<1>1. /\ Failed(e, j).code = <<>> /\ Failed(e, j).n = 0
      /\ Failed(e, j).err = IF j \in 1 .. Len(input) THEN e ELSE "outside"
  BY FailedIs
<1>2. <<>> \in Seq(S)
  BY EmptySeq
<1>3. Failed(e, j).err \in Errors \ {"too deep"} /\ Failed(e, j).err # "none"
  BY <1>1 DEF Errors
<1>4. Ended => Failed(e, j).err # "outside"
  BY <1>1
<1>5. PICK z : z = Failed(e, j)
  OBVIOUS
<1>6. z.n = 0 /\ z.code = <<>>
  BY <1>1, <1>5, Zenon
<1>7. z.err \in Errors \ {"too deep"} /\ z.err # "none" /\ (Ended => z.err # "outside")
  BY <1>3, <1>4, <1>5, Zenon
<1>8. z.code \in Seq(S)
  BY <1>2, <1>6, Zenon
<1>9. Outcome1(z, S, i)
  <2>1. z.n \in Nat
    <3>1. 0 \in Nat
      OBVIOUS
    <3> QED
      BY <1>6, <3>1, Zenon
  <2>2. z.err \in (Errors \ {"too deep"}) \cup {"none"}
    BY <1>7
  <2> QED
    BY <1>6, <1>7, <1>8, <2>1, <2>2, Zenon DEF Outcome1, Stays
<1> QED
  BY <1>5, <1>9

LEMMA ArrayIs ==
  ASSUME InputTyped, NEW i \in 1 .. Len(input), Kind(i) \in Arrays
  PROVE  Outcome1(ParseArray(i), ScaledVars, i)
<1> DEFINE neg  == Kind(i + 2) = "minus"
           n    == IF neg THEN i + 3 ELSE i + 2
           byte == Kind(n + 1) = "bytes"
           idx  == Scale(input[n].val, byte, 4)
           last == IF byte THEN n + 2 ELSE n + 1
           x    == IF neg THEN -idx ELSE idx
           r    == ParseArray(i)
<1>1. \/ Kind(i + 1) # "[" /\ r = Unexpected(i + 1)
      \/ Kind(i + 1) = "[" /\ Kind(n) # "num" /\ r = Unexpected(n)
      \/ Kind(i + 1) = "[" /\ Kind(n) = "num" /\ r = Failed("index out of bounds", n)
      \/ Kind(i + 1) = "[" /\ Kind(n) = "num" /\ r = Failed("index out of bounds", last)
      \/ Kind(i + 1) = "[" /\ Kind(n) = "num" /\ Kind(last) # "]" /\ r = Unexpected(last)
      \/ Kind(i + 1) = "[" /\ Kind(n) = "num" /\ Kind(last) = "]" /\ r = Found(<<IndexOf(i, x)>>, last + 1 - i)
  BY Zenon DEF ParseArray
<1>2. n \in Nat /\ last \in n + 1 .. n + 2 /\ n \in i + 2 .. i + 3
  OBVIOUS
<1>3. Kind(n) = "num" => n \in 1 .. Len(input) /\ input[n].val \in Nat /\ idx \in Nat
  <2>1. Kind(n) = "num" => n \in 1 .. Len(input) /\ input[n].val \in Nat
    BY InputIs
  <2> QED
    BY <2>1 DEF Scale
<1>4. CASE Kind(i + 1) # "[" /\ r = Unexpected(i + 1)
  <2>1. Ended => i + 1 \in 1 .. Len(input)
    <3>1. Kind(i) # "end"
      BY DEF Arrays
    <3> QED
      BY <3>1, NotTheEnd
  <2> QED
    BY <1>4, <2>1, Refusal DEF Unexpected
<1>5. ASSUME Ended, Kind(i + 1) = "[" PROVE n \in 1 .. Len(input)
  <2>1. i + 1 \in 1 .. Len(input)
    BY <1>5, InputIs
  <2>2. i + 2 \in 1 .. Len(input)
    BY <1>5, <2>1, NotTheEnd
  <2>3. Kind(i + 2) = "minus" => i + 3 \in 1 .. Len(input)
    BY <1>5, <2>2, NotTheEnd
  <2> QED
    BY <2>2, <2>3
<1>6. CASE Kind(i + 1) = "[" /\ Kind(n) # "num" /\ r = Unexpected(n)
  BY <1>5, <1>6, Refusal DEF Unexpected
<1>7. CASE Kind(i + 1) = "[" /\ Kind(n) = "num" /\ r = Failed("index out of bounds", n)
  BY <1>5, <1>7, Refusal
<1>8. ASSUME Ended, Kind(n) = "num" PROVE last \in 1 .. Len(input)
  <2>1. n + 1 \in 1 .. Len(input)
    BY <1>3, <1>8, NotTheEnd
  <2>2. Kind(n + 1) = "bytes" => n + 2 \in 1 .. Len(input)
    BY <1>8, <2>1, NotTheEnd
  <2> QED
    BY <2>1, <2>2
<1>9. CASE Kind(i + 1) = "[" /\ Kind(n) = "num" /\ r = Failed("index out of bounds", last)
  BY <1>8, <1>9, Refusal
<1>10. CASE Kind(i + 1) = "[" /\ Kind(n) = "num" /\ Kind(last) # "]" /\ r = Unexpected(last)
  BY <1>8, <1>10, Refusal DEF Unexpected
<1>11. CASE Kind(i + 1) = "[" /\ Kind(n) = "num" /\ Kind(last) = "]" /\ r = Found(<<IndexOf(i, x)>>, last + 1 - i)
  <2>1. last \in 1 .. Len(input) /\ last >= i + 3
    BY <1>2, <1>11, InputIs
  <2>2. x \in Int
    BY <1>3, <1>11
  <2>3. ASSUME Kind(i) = "packet32" PROVE ArrayIndex(i, last) = {x}
    <3> DEFINE sign == IF neg THEN -1 ELSE 1
               unit == IF byte THEN 1 ELSE SizeOf[Kind(i)]
    <3>1. ArrayIndex(i, last) = {sign * input[n].val * unit}
      BY <1>11, <2>1 DEF ArrayIndex
    <3>2. unit = IF byte THEN 1 ELSE 4
      BY <2>3 DEF SizeOf
    <3>3. idx = input[n].val * unit
      BY <1>3, <1>11, <3>2 DEF Scale
    <3>4. input[n].val \in Nat /\ unit \in Nat
      BY <1>3, <1>11, <3>2
    <3> HIDE DEF unit, idx
    <3>5. sign * input[n].val * unit = IF neg THEN -(input[n].val * unit) ELSE input[n].val * unit
      BY <3>4
    <3> QED
      BY <3>1, <3>3, <3>5
  <2>4. IndexOf(i, x) \in ScaledVars
    <3>1. IndexOf(i, x) \in Vars /\ IndexOf(i, x).at = i /\ IndexOf(i, x).index = x
      BY <2>2 DEF IndexOf, Vars
    <3> QED
      BY <2>1, <2>3, <3>1 DEF ScaledVars
  <2>5. r.err = "none" /\ r.code = <<IndexOf(i, x)>> /\ r.n = last + 1 - i
    BY <1>11 DEF Found
  <2>6. Ended => last + 1 \in 1 .. Len(input)
    BY <1>11, <2>1, NotTheEnd
  <2>7. last + 1 - i \in Nat /\ (Ended => i + (last + 1 - i) \in 1 .. Len(input))
    BY <2>1, <2>6
  <2> HIDE DEF last, x, r
  <2>8. <<IndexOf(i, x)>> \in Seq(ScaledVars) /\ Len(<<IndexOf(i, x)>>) = 1
    BY <2>4
  <2>9. Outcome1(r, ScaledVars, i)
    BY <2>5, <2>7, <2>8 DEF Stays, Outcome1, Errors
  <2> QED
    BY <2>9 DEF r
<1> QED
  BY <1>1, <1>4, <1>6, <1>7, <1>9, <1>10, <1>11

(* A variable takes at least its own token. *)
LEMMA VarIs ==
  ASSUME InputTyped, NEW i \in Nat, Ended => i \in 1 .. Len(input)
  PROVE  Outcome1(ParseVar(i), ScaledVars, i)
<1>1. CASE Kind(i) = "var"
  <2> DEFINE v == IndexOf(i, 0)
             r == ParseVar(i)
  <2>1. r.err = "none" /\ r.code = <<v>> /\ r.n = 1
    BY <1>1 DEF ParseVar, Found
  <2>2. v \in ScaledVars
    <3>1. v \in Vars /\ v.at = i
      BY DEF IndexOf, Vars
    <3> QED
      BY <1>1, <3>1 DEF ScaledVars
  <2>3. <<v>> \in Seq(ScaledVars) /\ Len(<<v>>) = 1
    BY <2>2
  <2>4. Ended => i + 1 \in 1 .. Len(input)
    BY <1>1, NotTheEnd
  <2> HIDE DEF v, r
  <2>5. Outcome1(r, ScaledVars, i)
    BY <2>1, <2>3, <2>4 DEF Outcome1, Stays, Errors
  <2> QED
    BY <2>5 DEF r
<1>2. CASE Kind(i) \in Arrays
  <2>1. Kind(i) # "outside" /\ Kind(i) # "var"
    BY <1>2 DEF Arrays
  <2>2. i \in 1 .. Len(input)
    BY <2>1, InputIs
  <2>3. ParseVar(i) = ParseArray(i)
    BY <1>2, <2>1 DEF ParseVar
  <2> QED
    BY <1>2, <2>2, <2>3, ArrayIs
<1>3. CASE Kind(i) # "var" /\ Kind(i) \notin Arrays
  BY <1>3, Refusal DEF ParseVar, Unexpected
<1> QED
  BY <1>1, <1>2, <1>3

LEMMA NegatedIn == Negated \in [Comparisons -> Comparisons]
  BY DEF Negated, Comparisons

LEMMA TestNode ==
  ASSUME NEW k \in Comparisons, NEW v \in ScaledVars, NEW n \in Int
  PROVE  TestOf(k, v, n) \in ScaledNodes
<1>1. v \in Vars
  BY DEF ScaledVars
<1> QED
  BY <1>1 DEF TestOf, ScaledNodes, Nodes

LEMMA TestIsParsed ==
  ASSUME InputTyped, NEW i \in Nat, Ended => i \in 1 .. Len(input)
  PROVE  Outcome1(ParseTest(i), ScaledNodes, i)
<1> DEFINE start == AfterNots(i)
           not   == (start - i) % 2 = 1
           v     == ParseVar(start)
           o     == start + v.n
           neg   == Kind(o + 1) = "minus"
           n     == IF neg THEN o + 2 ELSE o + 1
           plain == TestOf(IF not THEN "eq" ELSE "neq", v.code[1], 0)
           whole == TestOf(IF not THEN Negated[Kind(o)] ELSE Kind(o), v.code[1],
                           IF neg THEN -input[n].val ELSE input[n].val)
           r     == ParseTest(i)
<1>1. \/ IsError(v) /\ r = v
      \/ ~IsError(v) /\ o \notin DOMAIN input /\ r = Unexpected(o)
      \/ ~IsError(v) /\ o \in DOMAIN input /\ Kind(o) \notin Comparisons /\ r = Found(<<plain>>, o - i)
      \/ ~IsError(v) /\ Kind(o) \in Comparisons /\ Kind(n) # "num" /\ r = Unexpected(n)
      \/ ~IsError(v) /\ Kind(o) \in Comparisons /\ Kind(n) = "num" /\ r = Found(<<whole>>, n + 1 - i)
  BY Zenon DEF ParseTest
<1>2. start \in Nat /\ start >= i /\ (Ended => start \in 1 .. Len(input))
  <2>1. start \in i .. i + Len(input) /\ \A h \in i .. start - 1 : Kind(h) = "not"
    BY AfterNotsIs
  <2>2. ASSUME Ended, start > Len(input) PROVE FALSE
    <3>1. Len(input) \in i .. start - 1
      BY <2>1, <2>2, InputIs
    <3>2. Kind(Len(input)) = "not"
      BY <2>1, <3>1
    <3> QED
      BY <2>2, <3>2 DEF Ended
  <2> QED
    BY <2>1, <2>2, InputIs
<1>3. Outcome1(v, ScaledVars, start)
  BY <1>2, VarIs
<1> SUFFICES Outcome1(r, ScaledNodes, i)
  OBVIOUS
<1> HIDE DEF start, v, r
<1>4. /\ v.n \in Nat /\ v.err \in (Errors \ {"too deep"}) \cup {"none"} /\ o \in Nat /\ o >= i
      /\ v.code \in Seq(ScaledVars)
      /\ IsError(v) => v.code = <<>>
      /\ ~IsError(v) => Len(v.code) = 1 /\ (Ended => o \in 1 .. Len(input))
      /\ Ended => v.err # "outside"
  <2>1. /\ v.n \in Nat /\ v.err \in (Errors \ {"too deep"}) \cup {"none"} /\ v.code \in Seq(ScaledVars)
        /\ (v.err = "none" => Len(v.code) = 1) /\ (v.err # "none" => v.code = <<>>)
        /\ (Ended => v.err # "outside" /\ (v.err = "none" => start + v.n \in 1 .. Len(input)))
    BY <1>3 DEF Outcome1, Stays
  <2>2. o \in Nat /\ o >= i
    <3>1. v.n \in Nat /\ start \in Nat /\ start >= i
      BY <1>2, <2>1
    <3> QED
      BY <3>1
  <2>3. IsError(v) <=> v.err # "none"
    BY DEF IsError
  <2> QED
    BY <2>1, <2>2, <2>3
<1>4a. ~IsError(v) => v.code[1] \in ScaledVars
  <2> SUFFICES ASSUME ~IsError(v) PROVE v.code[1] \in ScaledVars
    OBVIOUS
  <2>1. v.code \in Seq(ScaledVars) /\ Len(v.code) = 1
    BY <1>4
  <2> QED
    BY <2>1
<1>b. ASSUME NEW x \in ScaledNodes, NEW k \in Nat, r = Found(<<x>>, k), Ended => i + k \in 1 .. Len(input)
      PROVE  Outcome1(r, ScaledNodes, i)
  <2>1. r.err = "none" /\ r.code = <<x>> /\ r.n = k
    BY <1>b DEF Found
  <2>2. <<x>> \in Seq(ScaledNodes) /\ Len(<<x>>) = 1
    OBVIOUS
  <2> HIDE DEF r
  <2> QED
    BY <1>b, <2>1, <2>2 DEF Outcome1, Stays, Errors
<1>c. Kind(o) \in Comparisons => Kind(o) # "end" /\ o \in 1 .. Len(input)
  <2>1. Kind(o) \in Comparisons => Kind(o) # "end" /\ Kind(o) # "outside"
    BY DEF Comparisons
  <2> QED
    BY <2>1, InputIs
<1>d. ASSUME Ended, Kind(o) \in Comparisons PROVE n \in 1 .. Len(input)
  <2>1. o \in 1 .. Len(input) /\ Kind(o) # "end"
    BY <1>c, <1>d
  <2> HIDE DEF o
  <2>2. o + 1 \in 1 .. Len(input)
    BY <1>d, <2>1, NotTheEnd
  <2>3. ASSUME Kind(o + 1) = "minus" PROVE o + 2 \in 1 .. Len(input)
    <3>1. (o + 1) + 1 \in 1 .. Len(input)
      BY <1>d, <2>2, <2>3, NotTheEnd
    <3> QED
      BY <2>1, <3>1
  <2> QED
    BY <2>2, <2>3
<1>e. o \in Nat /\ o >= i /\ n \in Nat /\ n > i
  <2>1. o \in Nat /\ o >= i
    BY <1>4
  <2> HIDE DEF o
  <2> QED
    BY <2>1
<1>5. CASE IsError(v) /\ r = v
  <2>1. v.err # "none"
    BY <1>5 DEF IsError
  <2>2. <<>> \in Seq(ScaledNodes) /\ v.code = <<>>
    BY <1>4, <1>5, EmptySeq
  <2>3. v.code \in Seq(ScaledNodes)
    BY <2>2, Zenon
  <2>4. Outcome1(v, ScaledNodes, i)
    BY <1>4, <2>1, <2>2, <2>3 DEF Outcome1, Stays
  <2> QED
    BY <1>5, <2>4
<1>6. CASE ~IsError(v) /\ o \notin DOMAIN input /\ r = Unexpected(o)
  <2>1. Ended => o \in 1 .. Len(input)
    BY <1>4, <1>6
  <2> HIDE DEF o
  <2> QED
    BY <1>6, <2>1, Refusal DEF Unexpected
<1>7. CASE ~IsError(v) /\ o \in DOMAIN input /\ Kind(o) \notin Comparisons /\ r = Found(<<plain>>, o - i)
  <2>1. plain \in ScaledNodes
    <3>1. (IF not THEN "eq" ELSE "neq") \in Comparisons
      BY DEF Comparisons
    <3> QED
      BY <1>4a, <1>7, <3>1, TestNode
  <2> HIDE DEF plain, o
  <2>2. o - i \in Nat /\ (Ended => i + (o - i) \in 1 .. Len(input))
    <3>1. o \in Nat /\ o >= i /\ (Ended => o \in 1 .. Len(input))
      BY <1>4, <1>7
    <3> HIDE DEF o
    <3> QED
      BY <3>1
  <2> QED
    BY <1>b, <1>7, <2>1, <2>2
<1>8. CASE ~IsError(v) /\ Kind(o) \in Comparisons /\ Kind(n) # "num" /\ r = Unexpected(n)
  <2>1. Ended => n \in 1 .. Len(input)
    BY <1>d, <1>8
  <2> HIDE DEF n
  <2> QED
    BY <1>8, <2>1, Refusal DEF Unexpected
<1>9. CASE ~IsError(v) /\ Kind(o) \in Comparisons /\ Kind(n) = "num" /\ r = Found(<<whole>>, n + 1 - i)
  <2>1. n \in 1 .. Len(input) /\ n > i /\ input[n].val \in Int
    <3>1. Kind(n) # "outside"
      BY <1>9
    <3>2. n > i
      BY <1>e
    <3> HIDE DEF n
    <3> QED
      BY <3>1, <3>2, InputIs
  <2>2. whole \in ScaledNodes
    <3>1. (IF not THEN Negated[Kind(o)] ELSE Kind(o)) \in Comparisons
      BY <1>9, NegatedIn
    <3>2. (IF neg THEN -input[n].val ELSE input[n].val) \in Int
      BY <2>1
    <3> QED
      BY <1>4a, <1>9, <3>1, <3>2, TestNode
  <2> HIDE DEF whole, n
  <2>3. Ended => n + 1 \in 1 .. Len(input)
    BY <1>9, <2>1, NotTheEnd
  <2>4. n + 1 - i \in Nat /\ (Ended => i + (n + 1 - i) \in 1 .. Len(input))
    BY <2>1, <2>3
  <2> QED
    BY <1>b, <1>9, <2>2, <2>4
<1> QED
  BY <1>1, <1>5, <1>6, <1>7, <1>8, <1>9

-----------------------------------------------------------------------------
(* How deep it gets.                                                       *)

(* Three for each "(" and one for each "or" from the token i on. *)
Weight(i) ==
  3 * Cardinality(Places("(", i, Len(input))) + Cardinality(Places("or", i, Len(input)))

LEMMA PlacesAre ==
  ASSUME InputTyped, NEW k, NEW i \in Nat, NEW j \in Nat, i <= j
  PROVE  LET p == Places(k, i, Len(input))
             q == Places(k, j, Len(input))
         IN  /\ Cardinality(p) \in Nat /\ Cardinality(q) \in Nat /\ Cardinality(q) <= Cardinality(p)
             /\ i < j /\ i \in 1 .. Len(input) /\ Kind(i) = k => Cardinality(q) + 1 <= Cardinality(p)
<1> DEFINE L == Len(input)
           p == Places(k, i, L)
           q == Places(k, j, L)
<1>1. L \in Nat
  BY InputIs
<1>2. IsFiniteSet(i .. L)
  BY <1>1, FS_Interval
<1>3. p \subseteq i .. L /\ q \subseteq p
  BY <1>1 DEF Places
<1> HIDE DEF p, q
<1>4. IsFiniteSet(p) /\ IsFiniteSet(q)
  BY <1>2, <1>3, FS_Subset
<1>5. Cardinality(p) \in Nat /\ Cardinality(q) \in Nat /\ Cardinality(q) <= Cardinality(p)
  BY <1>3, <1>4, FS_Subset, FS_CardinalityType
<1>6. ASSUME i < j, i \in 1 .. L, Kind(i) = k PROVE Cardinality(q) + 1 <= Cardinality(p)
  <2>1. i \notin q /\ i \in p
    BY <1>1, <1>6 DEF p, q, Places
  <2>2. IsFiniteSet(q \cup {i}) /\ Cardinality(q \cup {i}) = Cardinality(q) + 1
    BY <1>4, <2>1, FS_AddElement
  <2>3. q \cup {i} \subseteq p
    BY <1>3, <2>1
  <2>4. Cardinality(q \cup {i}) <= Cardinality(p)
    BY <1>4, <2>3, FS_Subset
  <2> QED
    BY <2>2, <2>4
<1> QED
  BY <1>5, <1>6 DEF p, q

LEMMA WeightIs ==
  ASSUME InputTyped, NEW i \in Nat, NEW j \in Nat, i <= j
  PROVE  /\ Weight(i) \in Nat /\ Weight(j) \in Nat /\ Weight(j) <= Weight(i)
         /\ i < j /\ i \in 1 .. Len(input) /\ Kind(i) = "(" => Weight(j) + 3 <= Weight(i)
         /\ i < j /\ i \in 1 .. Len(input) /\ Kind(i) = "or" => Weight(j) + 1 <= Weight(i)
<1> DEFINE a == Cardinality(Places("(", i, Len(input)))
           b == Cardinality(Places("(", j, Len(input)))
           c == Cardinality(Places("or", i, Len(input)))
           e == Cardinality(Places("or", j, Len(input)))
<1>1. /\ a \in Nat /\ b \in Nat /\ b <= a
      /\ i < j /\ i \in 1 .. Len(input) /\ Kind(i) = "(" => b + 1 <= a
  BY PlacesAre
<1>2. /\ c \in Nat /\ e \in Nat /\ e <= c
      /\ i < j /\ i \in 1 .. Len(input) /\ Kind(i) = "or" => e + 1 <= c
  BY PlacesAre
<1>3. Weight(i) = 3 * a + c /\ Weight(j) = 3 * b + e
  BY DEF Weight
<1> HIDE DEF a, b, c, e
<1> QED
  BY <1>1, <1>2, <1>3

(* The depth below which each of the four may fail when none of these      *)
(* tokens follow. *)
Share == [filter |-> 3, ands |-> 2, arg |-> 1, more |-> 1]

(* What may come of the call of p at the token i with a depth of d. *)
Fine(r, p, i, d) ==
  Ended /\ i \in 1 .. Len(input) =>
      Stays(r, i) /\ (r.err = "too deep" => d < Share[p] + Weight(i))

-----------------------------------------------------------------------------
(* The calls.                                                              *)

(* A call is made with a smaller depth, or farther on in the text. *)
Rank(i, d) == d * (Len(input) + 2) + (IF i <= Len(input) THEN Len(input) + 1 - i ELSE 0)

Returned  == [err : Errors \cup {"none"}, code : Seq(ScaledNodes), n : Nat]
Returning == [ParseCalls -> Returned]

(* f returns what g does, below a call; what it returns there is fine. *)
AgreeBelow(f, g, i, d) ==
  \A p \in Parsers : \A j, e \in Nat : Rank(j, e) < Rank(i, d) => f[<<p, j, e>>] = g[<<p, j, e>>]
FineBelow(f, i, d) ==
  \A p \in Parsers : \A j, e \in Nat : Rank(j, e) < Rank(i, d) => Fine(f[<<p, j, e>>], p, j, e)

LEMMA RankIs ==
  ASSUME InputTyped, NEW i \in Nat, NEW d \in Nat, NEW j \in Nat
  PROVE  /\ Rank(i, d) \in Nat
         /\ d # 0 => Rank(j, d - 1) < Rank(i, d)
         /\ i \in 1 .. Len(input) /\ i < j => Rank(j, d) < Rank(i, d)
<1> DEFINE L == Len(input)
           t(k) == IF k <= L THEN L + 1 - k ELSE 0
<1>1. L \in Nat
  BY InputIs
<1> HIDE DEF L
<1>2. PICK m : m = d * (L + 2)
  OBVIOUS
<1>3. m \in Nat
  BY <1>1, <1>2
<1>4. t(i) \in 0 .. L + 1 /\ t(j) \in 0 .. L + 1
  BY <1>1
<1>5. i \in 1 .. L /\ i < j => t(j) < t(i)
  BY <1>1
<1>6. d # 0 => (d - 1) * (L + 2) = m - (L + 2)
  BY <1>1, <1>2
<1>7. Rank(i, d) = m + t(i) /\ Rank(j, d) = m + t(j)
  BY <1>2 DEF Rank, L
<1>8. d # 0 => Rank(j, d - 1) = m - (L + 2) + t(j)
  BY <1>6 DEF Rank, L
<1> HIDE DEF t
<1>9. /\ Rank(i, d) \in Nat
      /\ d # 0 => Rank(j, d - 1) < Rank(i, d)
      /\ i \in 1 .. L /\ i < j => Rank(j, d) < Rank(i, d)
  BY <1>1, <1>3, <1>4, <1>5, <1>7, <1>8
<1> QED
  BY <1>9 DEF L

LEMMA ReturnedIs ==
  ASSUME NEW f \in Returning, NEW p \in Parsers, NEW j \in Nat, NEW e \in Nat
  PROVE  LET r == f[<<p, j, e>>]
         IN  /\ r \in Returned /\ r.err \in Errors \cup {"none"}
             /\ r.code \in Seq(ScaledNodes) /\ r.n \in Nat
<1>1. <<p, j, e>> \in ParseCalls
  BY DEF ParseCalls
<1>2. f[<<p, j, e>>] \in Returned
  BY <1>1 DEF Returning
<1> QED
  BY <1>2 DEF Returned

LEMMA FailedReturned ==
  ASSUME InputTyped, NEW e \in {"too deep", "unexpected token"}, NEW j
  PROVE  Failed(e, j) \in Returned
<1>1. Failed(e, j).err \in Errors
  BY FailedIs DEF Errors
<1>2. Failed(e, j) = [err |-> Failed(e, j).err, code |-> <<>>, n |-> 0]
  BY Zenon DEF Failed
<1>3. <<>> \in Seq(ScaledNodes)
  BY EmptySeq
<1>4. ASSUME NEW c \in Seq(ScaledNodes), NEW x \in Errors
      PROVE  [err |-> x, code |-> c, n |-> 0] \in Returned
  BY DEF Returned
<1> QED
  BY <1>1, <1>2, <1>3, <1>4, Zenon

(* A refusal is returned, and fine at a token of the text. *)
LEMMA FailedFine ==
  ASSUME InputTyped, NEW e \in {"too deep", "unexpected token"}, NEW j, NEW p, NEW i, NEW d,
         Ended /\ i \in 1 .. Len(input) => j \in 1 .. Len(input),
         e = "too deep" => d < Share[p] + Weight(i)
  PROVE  Failed(e, j) \in Returned /\ Fine(Failed(e, j), p, i, d)
<1>1. PICK z : z = Failed(e, j)
  OBVIOUS
<1>2. /\ z.code = <<>> /\ z.n = 0
      /\ z.err = IF j \in 1 .. Len(input) THEN e ELSE "outside"
  BY <1>1, FailedIs, Zenon
<1>3. z.err # "none"
  BY <1>2
<1>4. z \in Returned
  BY <1>1, FailedReturned
<1>5. Fine(z, p, i, d)
  <2>1. z.err = "too deep" => e = "too deep"
    BY <1>2
  <2>2. Ended /\ i \in 1 .. Len(input) => z.err # "outside"
    BY <1>2
  <2> QED
    BY <1>3, <2>1, <2>2, Zenon DEF Fine, Stays
<1> QED
  BY <1>1, <1>4, <1>5, Zenon

LEMMA FoundFine ==
  ASSUME NEW c \in Seq(ScaledNodes), NEW n \in Nat, NEW p, NEW i, NEW d,
         Ended /\ i \in 1 .. Len(input) => i + n \in 1 .. Len(input)
  PROVE  Found(c, n) \in Returned /\ Fine(Found(c, n), p, i, d)
<1>1. PICK z : z = Found(c, n)
  OBVIOUS
<1>2. z.err = "none" /\ z.n = n
  BY <1>1 DEF Found
<1>3. z \in Returned
  BY <1>1 DEF Found, Returned
<1>4. Fine(z, p, i, d)
  <2>1. z.err # "outside" /\ z.err # "too deep"
    BY <1>2
  <2> QED
    BY <1>2, <2>1, Zenon DEF Fine, Stays
<1> QED
  BY <1>1, <1>3, <1>4, Zenon

(* An error that a call returned, farther on and no deeper than it may be. *)
LEMMA PassedOn ==
  ASSUME NEW r \in Returned, IsError(r), NEW p, NEW q, NEW i, NEW d, NEW j, NEW e, Fine(r, q, j, e),
         Ended /\ i \in 1 .. Len(input) => j \in 1 .. Len(input),
         e < Share[q] + Weight(j) => d < Share[p] + Weight(i)
  PROVE  Fine(r, p, i, d)
  BY Zenon DEF Fine, Stays, IsError

LEMMA SharesAre ==
  Share["filter"] = 3 /\ Share["ands"] = 2 /\ Share["arg"] = 1 /\ Share["more"] = 1
  BY DEF Share

LEMMA JointIs ==
  ASSUME NEW o \in {"and", "or", "if"}
  PROVE  Joint(o) \in ScaledNodes
  BY DEF Joint, ScaledNodes, Nodes

-----------------------------------------------------------------------------
(* Each of the four: it returns what it may, what it returns is fine if    *)
(* its calls are, and it depends on calls of a lower rank only.            *)
LEMMA MoreFine ==
  ASSUME InputTyped, NEW f \in Returning, NEW i \in Nat, NEW d \in Nat
  PROVE  /\ ParseMore(f, i, d) \in Returned
         /\ FineBelow(f, i, d) => Fine(ParseMore(f, i, d), "more", i, d)
<1> DEFINE r == ParseMore(f, i, d)
           q == IF Kind(i) = "and" THEN "arg" ELSE "ands"
<1>0. PICK arg : arg = f[<<q, i + 1, d>>]
  OBVIOUS
<1>1. PICK more : more = f[<<"more", i + 1 + arg.n, d>>]
  OBVIOUS
<1>2. q \in Parsers /\ "more" \in Parsers /\ i + 1 \in Nat
  BY DEF Parsers
<1>3. /\ arg \in Returned /\ arg.err \in Errors \cup {"none"}
      /\ arg.code \in Seq(ScaledNodes) /\ arg.n \in Nat
  BY <1>0, <1>2, ReturnedIs
<1>4. i + 1 + arg.n \in Nat
  BY <1>3
<1>5. /\ more \in Returned /\ more.err \in Errors \cup {"none"}
      /\ more.code \in Seq(ScaledNodes) /\ more.n \in Nat
  BY <1>1, <1>2, <1>4, ReturnedIs
<1>6. \/ i \notin DOMAIN input /\ r = Unexpected(i)
      \/ i \in DOMAIN input /\ Kind(i) \notin {"and", "or"} /\ r = Found(<<>>, 0)
      \/ i \in DOMAIN input /\ Kind(i) \in {"and", "or"} /\ IsError(arg) /\ r = arg
      \/ i \in DOMAIN input /\ Kind(i) \in {"and", "or"} /\ ~IsError(arg) /\ IsError(more) /\ r = more
      \/ /\ i \in DOMAIN input /\ Kind(i) \in {"and", "or"} /\ ~IsError(arg) /\ ~IsError(more)
         /\ r = Found(arg.code \o <<Joint(Kind(i))>> \o more.code, 1 + arg.n + more.n)
  <2>1. arg = IF Kind(i) = "and" THEN f[<<"arg", i + 1, d>>] ELSE f[<<"ands", i + 1, d>>]
    BY <1>0, Zenon
  <2> QED
    BY <1>1, <2>1, Zenon DEF ParseMore
<1>7. ASSUME i \in 1 .. Len(input), Kind(i) \in {"and", "or"}, FineBelow(f, i, d)
      PROVE  Fine(arg, q, i + 1, d) /\ Fine(more, "more", i + 1 + arg.n, d)
  <2>1. i < i + 1 /\ i < i + 1 + arg.n
    BY <1>3
  <2>2. Rank(i + 1, d) < Rank(i, d) /\ Rank(i + 1 + arg.n, d) < Rank(i, d)
    BY <1>4, <1>7, <2>1, RankIs
  <2> QED
    BY <1>0, <1>1, <1>2, <1>4, <1>7, <2>2, Zenon DEF FineBelow
<1>8. ASSUME i \in 1 .. Len(input), Kind(i) \in {"and", "or"}, Ended, Fine(arg, q, i + 1, d)
      PROVE  i + 1 \in 1 .. Len(input) /\ (~IsError(arg) => i + 1 + arg.n \in 1 .. Len(input))
  <2>1. i + 1 \in 1 .. Len(input)
    BY <1>8, NotTheEnd
  <2> QED
    BY <1>8, <2>1 DEF Fine, Stays, IsError
<1> SUFFICES r \in Returned /\ (FineBelow(f, i, d) => Fine(r, "more", i, d))
  OBVIOUS
<1> HIDE DEF r
<1>9. CASE i \notin DOMAIN input /\ r = Unexpected(i)
  BY <1>9, InputIs, FailedFine DEF Unexpected
<1>10. CASE i \in DOMAIN input /\ Kind(i) \notin {"and", "or"} /\ r = Found(<<>>, 0)
  <2>1. <<>> \in Seq(ScaledNodes) /\ i + 0 = i
    BY EmptySeq
  <2> QED
    BY <1>10, <2>1, FoundFine
<1> SUFFICES ASSUME i \in 1 .. Len(input), Kind(i) \in {"and", "or"}
             PROVE  r \in Returned /\ (FineBelow(f, i, d) => Fine(r, "more", i, d))
  BY <1>6, <1>9, <1>10, InputIs
<1>11. CASE IsError(arg) /\ r = arg
  <2>1. d < Share[q] + Weight(i + 1) => d < Share["more"] + Weight(i)
    <3>1. Weight(i) \in Nat /\ Weight(i + 1) \in Nat /\ Weight(i + 1) <= Weight(i)
      BY <1>2, WeightIs
    <3>2. Kind(i) = "or" => Weight(i + 1) + 1 <= Weight(i)
      BY <1>2, WeightIs
    <3> QED
      BY <3>1, <3>2, SharesAre
  <2> HIDE DEF q
  <2>2. ASSUME FineBelow(f, i, d) PROVE Fine(r, "more", i, d)
    BY <1>3, <1>7, <1>8, <1>11, <2>1, <2>2, PassedOn
  <2> QED
    BY <1>3, <1>11, <2>2
<1>12. CASE ~IsError(arg) /\ IsError(more) /\ r = more
  <2>1. d < Share["more"] + Weight(i + 1 + arg.n) => d < Share["more"] + Weight(i)
    <3>1. i <= i + 1 + arg.n
      BY <1>3
    <3>2. Weight(i) \in Nat /\ Weight(i + 1 + arg.n) \in Nat /\ Weight(i + 1 + arg.n) <= Weight(i)
      BY <1>4, <3>1, WeightIs
    <3> QED
      BY <3>2, SharesAre
  <2> HIDE DEF q
  <2>2. ASSUME FineBelow(f, i, d) PROVE Fine(r, "more", i, d)
    BY <1>5, <1>7, <1>8, <1>12, <2>1, <2>2, PassedOn
  <2> QED
    BY <1>5, <1>12, <2>2
<1>13. CASE /\ ~IsError(arg) /\ ~IsError(more)
            /\ r = Found(arg.code \o <<Joint(Kind(i))>> \o more.code, 1 + arg.n + more.n)
  <2>1. arg.code \o <<Joint(Kind(i))>> \o more.code \in Seq(ScaledNodes)
    <3>1. <<Joint(Kind(i))>> \in Seq(ScaledNodes)
      BY JointIs
    <3> QED
      BY <1>3, <1>5, <3>1
  <2>2. 1 + arg.n + more.n \in Nat
    BY <1>3, <1>5
  <2>3. ASSUME FineBelow(f, i, d), Ended PROVE i + (1 + arg.n + more.n) \in 1 .. Len(input)
    <3>1. Fine(more, "more", i + 1 + arg.n, d) /\ i + 1 + arg.n \in 1 .. Len(input)
      BY <1>7, <1>8, <1>13, <2>3
    <3>2. i + 1 + arg.n + more.n \in 1 .. Len(input)
      BY <1>13, <2>3, <3>1 DEF Fine, Stays, IsError
    <3>3. i + 1 + arg.n + more.n = i + (1 + arg.n + more.n)
      BY <1>3, <1>5
    <3> QED
      BY <3>2, <3>3
  <2>4. r \in Returned
    <3>1. r = [err |-> "none", code |-> arg.code \o <<Joint(Kind(i))>> \o more.code, n |-> 1 + arg.n + more.n]
      BY <1>13, Zenon DEF Found
    <3> QED
      BY <2>1, <2>2, <3>1 DEF Returned
  <2>5. ASSUME FineBelow(f, i, d) PROVE Fine(r, "more", i, d)
    <3> DEFINE c == arg.code \o <<Joint(Kind(i))>> \o more.code
               n == 1 + arg.n + more.n
    <3>1. c \in Seq(ScaledNodes) /\ n \in Nat /\ r = Found(c, n) /\ (Ended => i + n \in 1 .. Len(input))
      BY <1>13, <2>1, <2>2, <2>3, <2>5
    <3> HIDE DEF c, n
    <3> QED
      BY <3>1, FoundFine
  <2> QED
    BY <2>4, <2>5
<1> QED
  BY <1>6, <1>11, <1>12, <1>13

LEMMA FilterFine ==
  ASSUME InputTyped, NEW f \in Returning, NEW i \in Nat, NEW d \in Nat, NEW and \in BOOLEAN
  PROVE  /\ ParseFilter(f, i, d, and) \in Returned
         /\ FineBelow(f, i, d) => Fine(ParseFilter(f, i, d, and), IF and THEN "ands" ELSE "filter", i, d)
<1> DEFINE r == ParseFilter(f, i, d, and)
           p == IF and THEN "ands" ELSE "filter"
           q == IF and THEN "arg" ELSE "ands"
<1>1. PICK first : first = f[<<q, i, d - 1>>]
  OBVIOUS
<1>2. PICK more : more = f[<<"more", i + first.n, d - 1>>]
  OBVIOUS
<1>3. \/ d = 0 /\ r = Failed("too deep", i)
      \/ d # 0 /\ IsError(first) /\ r = first
      \/ d # 0 /\ ~IsError(first) /\ IsError(more) /\ r = more
      \/ d # 0 /\ ~IsError(first) /\ ~IsError(more) /\ r = Found(first.code \o more.code, first.n + more.n)
  BY <1>1, <1>2, Zenon DEF ParseFilter
<1>4. Share[p] = Share[q] + 1 /\ Share[q] \in Nat /\ Share[q] >= 1 /\ Share["more"] = 1 /\ Weight(i) \in Nat
  BY SharesAre, WeightIs
<1>5. q \in Parsers /\ "more" \in Parsers
  BY DEF Parsers
<1> SUFFICES r \in Returned /\ (FineBelow(f, i, d) => Fine(r, p, i, d))
  OBVIOUS
<1> HIDE DEF r, p, q
<1>6. CASE d = 0 /\ r = Failed("too deep", i)
  <2>1. d < Share[p] + Weight(i)
    <3>1. PICK w \in Nat, m \in Nat : w = Weight(i) /\ m = Share[q]
      BY <1>4
    <3>2. d = 0
      BY <1>6, Zenon
    <3>3. d < (m + 1) + w
      BY <3>2
    <3> QED
      BY <1>4, <3>1, <3>3
  <2> QED
    BY <1>6, <2>1, FailedFine
<1> SUFFICES ASSUME d # 0 PROVE r \in Returned /\ (FineBelow(f, i, d) => Fine(r, p, i, d))
  BY <1>3, <1>6
<1>7. d - 1 \in Nat
  OBVIOUS
<1>8. /\ first \in Returned /\ first.err \in Errors \cup {"none"}
      /\ first.code \in Seq(ScaledNodes) /\ first.n \in Nat
  BY <1>1, <1>5, <1>7, ReturnedIs
<1>9. i + first.n \in Nat
  BY <1>8
<1>10. /\ more \in Returned /\ more.err \in Errors \cup {"none"}
       /\ more.code \in Seq(ScaledNodes) /\ more.n \in Nat
  BY <1>2, <1>5, <1>7, <1>9, ReturnedIs
<1>11. ASSUME FineBelow(f, i, d)
       PROVE  Fine(first, q, i, d - 1) /\ Fine(more, "more", i + first.n, d - 1)
  <2>1. Rank(i, d - 1) < Rank(i, d) /\ Rank(i + first.n, d - 1) < Rank(i, d)
    BY <1>9, RankIs
  <2> QED
    BY <1>1, <1>2, <1>5, <1>7, <1>9, <1>11, <2>1, Zenon DEF FineBelow
<1>12. ASSUME i \in 1 .. Len(input), Ended, Fine(first, q, i, d - 1), ~IsError(first)
       PROVE  i + first.n \in 1 .. Len(input)
  BY <1>12 DEF Fine, Stays, IsError
<1>13. CASE IsError(first) /\ r = first
  <2>1. d - 1 < Share[q] + Weight(i) => d < Share[p] + Weight(i)
    BY <1>4
  <2>2. ASSUME FineBelow(f, i, d) PROVE Fine(r, p, i, d)
    BY <1>8, <1>11, <1>13, <2>1, <2>2, PassedOn
  <2> QED
    BY <1>8, <1>13, <2>2
<1>14. CASE ~IsError(first) /\ IsError(more) /\ r = more
  <2>1. d - 1 < Share["more"] + Weight(i + first.n) => d < Share[p] + Weight(i)
    <3>1. Weight(i + first.n) \in Nat /\ Weight(i + first.n) <= Weight(i)
      <4>1. i <= i + first.n
        BY <1>8
      <4> QED
        BY <1>9, <4>1, WeightIs
    <3> QED
      BY <1>4, <3>1
  <2>2. ASSUME FineBelow(f, i, d) PROVE Fine(r, p, i, d)
    BY <1>10, <1>11, <1>12, <1>14, <2>1, <2>2, PassedOn
  <2> QED
    BY <1>10, <1>14, <2>2
<1>15. CASE ~IsError(first) /\ ~IsError(more) /\ r = Found(first.code \o more.code, first.n + more.n)
  <2>1. first.code \o more.code \in Seq(ScaledNodes) /\ first.n + more.n \in Nat
    BY <1>8, <1>10
  <2>2. ASSUME FineBelow(f, i, d), Ended, i \in 1 .. Len(input)
        PROVE  i + (first.n + more.n) \in 1 .. Len(input)
    <3>1. Fine(more, "more", i + first.n, d - 1) /\ i + first.n \in 1 .. Len(input)
      BY <1>11, <1>12, <1>15, <2>2
    <3>2. i + first.n + more.n \in 1 .. Len(input)
      BY <1>15, <2>2, <3>1 DEF Fine, Stays, IsError
    <3>3. i + first.n + more.n = i + (first.n + more.n)
      BY <1>8, <1>10
    <3> QED
      BY <3>2, <3>3
  <2>3. r \in Returned
    <3>1. r = [err |-> "none", code |-> first.code \o more.code, n |-> first.n + more.n]
      BY <1>15, Zenon DEF Found
    <3> QED
      BY <2>1, <3>1 DEF Returned
  <2>4. ASSUME FineBelow(f, i, d) PROVE Fine(r, p, i, d)
    <3> DEFINE c == first.code \o more.code
               n == first.n + more.n
    <3>1. /\ c \in Seq(ScaledNodes) /\ n \in Nat /\ r = Found(c, n)
          /\ Ended /\ i \in 1 .. Len(input) => i + n \in 1 .. Len(input)
      BY <1>15, <2>1, <2>2, <2>4
    <3> HIDE DEF c, n
    <3> QED
      BY <3>1, FoundFine
  <2> QED
    BY <2>3, <2>4
<1> QED
  BY <1>3, <1>13, <1>14, <1>15

(* The rest of a conditional expression, of which i and cond are the       *)
(* beginning and k is a later token. *)
LEMMA ElseFine ==
  ASSUME InputTyped, NEW f \in Returning, NEW i \in Nat, NEW d \in Nat, NEW k \in Nat, i < k,
         NEW cond, cond.code \in Seq(ScaledNodes),
         Ended /\ i \in 1 .. Len(input) => k \in 1 .. Len(input),
         i \in 1 .. Len(input), Kind(i) = "("
  PROVE  /\ ParseElse(f, cond, i, k, d) \in Returned
         /\ FineBelow(f, i, d + 1) => Fine(ParseElse(f, cond, i, k, d), "arg", i, d + 1)
<1> DEFINE r == ParseElse(f, cond, i, k, d)
<1>1. PICK yes : yes = f[<<"filter", k, d>>]
  OBVIOUS
<1>2. PICK colon : colon = k + yes.n
  OBVIOUS
<1>3. PICK no : no = f[<<"filter", colon + 1, d>>]
  OBVIOUS
<1>4. PICK close : close = colon + 1 + no.n
  OBVIOUS
<1>5. PICK code : code = cond.code \o yes.code \o no.code \o <<Joint("if")>>
  OBVIOUS
<1>6. \/ IsError(yes) /\ r = yes
      \/ ~IsError(yes) /\ Kind(colon) # ":" /\ r = Unexpected(colon)
      \/ ~IsError(yes) /\ Kind(colon) = ":" /\ IsError(no) /\ r = no
      \/ ~IsError(yes) /\ Kind(colon) = ":" /\ ~IsError(no) /\ Kind(close) # ")" /\ r = Unexpected(close)
      \/ ~IsError(yes) /\ Kind(colon) = ":" /\ ~IsError(no) /\ Kind(close) = ")" /\ r = Found(code, close + 1 - i)
  BY <1>1, <1>2, <1>3, <1>4, <1>5, Zenon DEF ParseElse
<1> SUFFICES r \in Returned /\ (FineBelow(f, i, d + 1) => Fine(r, "arg", i, d + 1))
  OBVIOUS
<1> HIDE DEF r
<1>7. "filter" \in Parsers /\ d + 1 \in Nat /\ (d + 1) - 1 = d /\ d + 1 # 0
  BY DEF Parsers
<1>8. /\ yes \in Returned /\ yes.err \in Errors \cup {"none"}
      /\ yes.code \in Seq(ScaledNodes) /\ yes.n \in Nat
  BY <1>1, <1>7, ReturnedIs
<1>9. colon \in Nat /\ i < colon /\ colon + 1 \in Nat
  BY <1>2, <1>8
<1>10. /\ no \in Returned /\ no.err \in Errors \cup {"none"}
       /\ no.code \in Seq(ScaledNodes) /\ no.n \in Nat
  BY <1>3, <1>7, <1>9, ReturnedIs
<1>11. close \in Nat /\ i < close
  BY <1>4, <1>9, <1>10
<1>12. ASSUME FineBelow(f, i, d + 1)
       PROVE  Fine(yes, "filter", k, d) /\ Fine(no, "filter", colon + 1, d)
  <2>1. Rank(k, d) < Rank(i, d + 1) /\ Rank(colon + 1, d) < Rank(i, d + 1)
    <3>1. Rank(k, (d + 1) - 1) < Rank(i, d + 1) /\ Rank(colon + 1, (d + 1) - 1) < Rank(i, d + 1)
      BY <1>7, <1>9, RankIs
    <3> QED
      BY <1>7, <3>1
  <2> QED
    BY <1>1, <1>3, <1>7, <1>9, <1>12, <2>1, Zenon DEF FineBelow
<1>13. ASSUME FineBelow(f, i, d + 1), Ended, ~IsError(yes) PROVE colon \in 1 .. Len(input)
  BY <1>2, <1>12, <1>13 DEF Fine, Stays, IsError
<1>14. ASSUME Ended, colon \in 1 .. Len(input), Kind(colon) = ":" PROVE colon + 1 \in 1 .. Len(input)
  BY <1>14, NotTheEnd
<1>15. ASSUME FineBelow(f, i, d + 1), Ended, colon + 1 \in 1 .. Len(input), ~IsError(no)
       PROVE  close \in 1 .. Len(input)
  BY <1>4, <1>12, <1>15 DEF Fine, Stays, IsError
<1>16. ASSUME NEW j \in Nat, i < j, d < Share["filter"] + Weight(j)
       PROVE  d + 1 < Share["arg"] + Weight(i)
  <2>1. Weight(j) \in Nat /\ Weight(i) \in Nat /\ Weight(j) + 3 <= Weight(i)
    BY <1>16, WeightIs
  <2> QED
    BY <1>16, <2>1, SharesAre
<1>17. CASE IsError(yes) /\ r = yes
  <2>1. d < Share["filter"] + Weight(k) => d + 1 < Share["arg"] + Weight(i)
    BY <1>16
  <2>2. ASSUME FineBelow(f, i, d + 1) PROVE Fine(r, "arg", i, d + 1)
    BY <1>8, <1>12, <1>17, <2>1, <2>2, PassedOn
  <2> QED
    BY <1>8, <1>17, <2>2
<1>18. CASE ~IsError(yes) /\ Kind(colon) # ":" /\ r = Unexpected(colon)
  <2>1. r \in Returned
    BY <1>18, FailedReturned DEF Unexpected
  <2>2. ASSUME FineBelow(f, i, d + 1) PROVE Fine(r, "arg", i, d + 1)
    BY <1>13, <1>18, <2>2, FailedFine DEF Unexpected
  <2> QED
    BY <2>1, <2>2
<1>19. CASE ~IsError(yes) /\ Kind(colon) = ":" /\ IsError(no) /\ r = no
  <2>1. d < Share["filter"] + Weight(colon + 1) => d + 1 < Share["arg"] + Weight(i)
    BY <1>9, <1>16
  <2>2. ASSUME FineBelow(f, i, d + 1) PROVE Fine(r, "arg", i, d + 1)
    BY <1>10, <1>12, <1>13, <1>14, <1>19, <2>1, <2>2, PassedOn
  <2> QED
    BY <1>10, <1>19, <2>2
<1>20. CASE ~IsError(yes) /\ Kind(colon) = ":" /\ ~IsError(no) /\ Kind(close) # ")" /\ r = Unexpected(close)
  <2>1. r \in Returned
    BY <1>20, FailedReturned DEF Unexpected
  <2>2. ASSUME FineBelow(f, i, d + 1) PROVE Fine(r, "arg", i, d + 1)
    BY <1>13, <1>14, <1>15, <1>20, <2>2, FailedFine DEF Unexpected
  <2> QED
    BY <2>1, <2>2
<1>21. CASE ~IsError(yes) /\ Kind(colon) = ":" /\ ~IsError(no) /\ Kind(close) = ")" /\ r = Found(code, close + 1 - i)
  <2>1. code \in Seq(ScaledNodes)
    <3>1. <<Joint("if")>> \in Seq(ScaledNodes)
      BY JointIs
    <3> QED
      BY <1>5, <1>8, <1>10, <3>1
  <2>2. close + 1 - i \in Nat
    BY <1>11
  <2>3. ASSUME FineBelow(f, i, d + 1), Ended PROVE i + (close + 1 - i) \in 1 .. Len(input)
    <3>1. close \in 1 .. Len(input)
      BY <1>13, <1>14, <1>15, <1>21, <2>3
    <3>2. close + 1 \in 1 .. Len(input)
      BY <1>21, <2>3, <3>1, NotTheEnd
    <3>3. close + 1 = i + (close + 1 - i)
      BY <1>11
    <3> QED
      BY <3>2, <3>3
  <2>4. r \in Returned
    <3>1. r = [err |-> "none", code |-> code, n |-> close + 1 - i]
      BY <1>21, Zenon DEF Found
    <3> QED
      BY <2>1, <2>2, <3>1 DEF Returned
  <2>5. ASSUME FineBelow(f, i, d + 1) PROVE Fine(r, "arg", i, d + 1)
    BY <1>21, <2>1, <2>2, <2>3, <2>5, FoundFine
  <2> QED
    BY <2>4, <2>5
<1> QED
  BY <1>6, <1>17, <1>18, <1>19, <1>20, <1>21

(* A test, wherever it begins. *)
LEMMA TestFine ==
  ASSUME InputTyped, NEW i \in Nat, NEW d
  PROVE  ParseTest(i) \in Returned /\ Fine(ParseTest(i), "arg", i, d)
<1> DEFINE r == ParseTest(i)
<1>1. ASSUME r.err \in Errors \cup {"none"}, r.n \in Nat, r.code \in Seq(ScaledNodes) PROVE r \in Returned
  <2> DEFINE Shaped(z) == (\E c, n : z = Found(c, n)) \/ (\E e, j : z = Failed(e, j))
  <2>1. \A c, n : Shaped(Found(c, n))
    BY Zenon
  <2>2. \A e, j : Shaped(Failed(e, j)) /\ Shaped(Unexpected(j))
    BY Zenon DEF Unexpected
  <2> HIDE DEF Shaped
  <2>3. ASSUME NEW j PROVE Shaped(ParseArray(j))
    BY <2>1, <2>2, Zenon DEF ParseArray
  <2>4. ASSUME NEW j PROVE Shaped(ParseVar(j))
    BY <2>1, <2>2, <2>3, Zenon DEF ParseVar
  <2>5. Shaped(r)
    BY <2>1, <2>2, <2>4, Zenon DEF ParseTest
  <2> HIDE DEF r
  <2>6. r = [err |-> r.err, code |-> r.code, n |-> r.n]
    <3>1. (\E c, n : r = Found(c, n)) \/ (\E e, j : r = Failed(e, j))
      BY <2>5 DEF Shaped
    <3>2. ASSUME NEW c, NEW n, r = Found(c, n) PROVE r = [err |-> r.err, code |-> r.code, n |-> r.n]
      BY <3>2 DEF Found
    <3>3. ASSUME NEW e, NEW j, r = Failed(e, j) PROVE r = [err |-> r.err, code |-> r.code, n |-> r.n]
      BY <3>3 DEF Failed
    <3> QED
      BY <3>1, <3>2, <3>3
  <2> QED
    BY <1>1, <2>6 DEF Returned
<1>2. CASE Ended => i \in 1 .. Len(input)
  <2>1. Outcome1(r, ScaledNodes, i)
    BY <1>2, TestIsParsed
  <2> HIDE DEF r
  <2>2. r.err \in Errors \cup {"none"} /\ r.n \in Nat /\ r.code \in Seq(ScaledNodes) /\ r.err # "too deep"
    BY <2>1 DEF Outcome1
  <2>3. Fine(r, "arg", i, d)
    BY <2>1, <2>2, Zenon DEF Outcome1, Fine
  <2> QED
    BY <1>1, <2>2, <2>3 DEF r
<1>3. CASE i \notin 1 .. Len(input)
  <2>1. Kind(i) = "outside"
    BY <1>3, InputIs
  <2>2. AfterNots(i) = i
    <3>1. AfterNots(i) \in i .. i + Len(input) /\ \A h \in i .. AfterNots(i) - 1 : Kind(h) = "not"
      BY AfterNotsIs
    <3>2. i \in i .. AfterNots(i) - 1 => Kind(i) = "not"
      BY <3>1
    <3> QED
      BY <2>1, <3>1, <3>2, InputIs
  <2>3. ParseVar(i) = Unexpected(i)
    BY <2>1 DEF ParseVar, Arrays
  <2>4. IsError(ParseVar(i))
    BY <1>3, <2>3, FailedIs DEF Unexpected, IsError
  <2>5. ParseTest(i) = Unexpected(i)
    BY <2>2, <2>3, <2>4, Zenon DEF ParseTest
  <2>6. Unexpected(i) \in Returned
    BY FailedReturned DEF Unexpected
  <2> QED
    BY <1>3, <2>5, <2>6 DEF Fine
<1> QED
  BY <1>2, <1>3

LEMMA ArgFine ==
  ASSUME InputTyped, NEW f \in Returning, NEW i \in Nat, NEW d \in Nat
  PROVE  /\ ParseAndOrArg(f, i, d) \in Returned
         /\ FineBelow(f, i, d) => Fine(ParseAndOrArg(f, i, d), "arg", i, d)
<1> DEFINE r == ParseAndOrArg(f, i, d)
<1>1. PICK inner : inner = f[<<"filter", i + 1, d - 1>>]
  OBVIOUS
<1>2. PICK k : k = i + 1 + inner.n
  OBVIOUS
<1>3. \/ d = 0 /\ r = Failed("too deep", i)
      \/ d # 0 /\ Kind(i) # "(" /\ r = ParseTest(i)
      \/ d # 0 /\ Kind(i) = "(" /\ IsError(inner) /\ r = inner
      \/ d # 0 /\ Kind(i) = "(" /\ ~IsError(inner) /\ Kind(k) = ")" /\ r = Found(inner.code, k + 1 - i)
      \/ d # 0 /\ Kind(i) = "(" /\ ~IsError(inner) /\ Kind(k) = "?" /\ r = ParseElse(f, inner, i, k + 1, d - 1)
      \/ d # 0 /\ Kind(i) = "(" /\ ~IsError(inner) /\ Kind(k) \notin {")", "?"} /\ r = Unexpected(k)
  BY <1>1, <1>2, Zenon DEF ParseAndOrArg
<1> SUFFICES r \in Returned /\ (FineBelow(f, i, d) => Fine(r, "arg", i, d))
  OBVIOUS
<1> HIDE DEF r
<1>4. CASE d = 0 /\ r = Failed("too deep", i)
  <2>1. d < Share["arg"] + Weight(i)
    <3>1. d = 0
      BY <1>4, Zenon
    <3>2. Weight(i) \in Nat
      BY WeightIs
    <3> QED
      BY <3>1, <3>2, SharesAre
  <2> QED
    BY <1>4, <2>1, FailedFine
<1>5. CASE d # 0 /\ Kind(i) # "(" /\ r = ParseTest(i)
  BY <1>5, TestFine
<1> SUFFICES ASSUME d # 0, Kind(i) = "("
             PROVE  r \in Returned /\ (FineBelow(f, i, d) => Fine(r, "arg", i, d))
  BY <1>3, <1>4, <1>5
<1>6. d - 1 \in Nat /\ (d - 1) + 1 = d /\ i + 1 \in Nat /\ "filter" \in Parsers
  BY DEF Parsers
<1>7. i \in 1 .. Len(input)
  BY InputIs
<1>8. /\ inner \in Returned /\ inner.err \in Errors \cup {"none"}
      /\ inner.code \in Seq(ScaledNodes) /\ inner.n \in Nat
  BY <1>1, <1>6, ReturnedIs
<1>9. k \in Nat /\ i < k
  BY <1>2, <1>8
<1>10. ASSUME FineBelow(f, i, d) PROVE Fine(inner, "filter", i + 1, d - 1)
  <2>1. Rank(i + 1, d - 1) < Rank(i, d)
    BY <1>6, RankIs
  <2> QED
    BY <1>1, <1>6, <1>10, <2>1, Zenon DEF FineBelow
<1>11. Ended => i + 1 \in 1 .. Len(input)
  BY <1>7, NotTheEnd
<1>12. ASSUME FineBelow(f, i, d), Ended, ~IsError(inner) PROVE k \in 1 .. Len(input)
  BY <1>2, <1>10, <1>11, <1>12 DEF Fine, Stays, IsError
<1>13. CASE IsError(inner) /\ r = inner
  <2>1. d - 1 < Share["filter"] + Weight(i + 1) => d < Share["arg"] + Weight(i)
    <3>1. Weight(i + 1) \in Nat /\ Weight(i) \in Nat /\ Weight(i + 1) + 3 <= Weight(i)
      BY <1>6, <1>7, WeightIs
    <3> QED
      BY <3>1, SharesAre
  <2>2. ASSUME FineBelow(f, i, d) PROVE Fine(r, "arg", i, d)
    BY <1>8, <1>10, <1>11, <1>13, <2>1, <2>2, PassedOn
  <2> QED
    BY <1>8, <1>13, <2>2
<1>14. CASE ~IsError(inner) /\ Kind(k) = ")" /\ r = Found(inner.code, k + 1 - i)
  <2>1. k + 1 - i \in Nat
    BY <1>9
  <2>2. ASSUME FineBelow(f, i, d), Ended PROVE i + (k + 1 - i) \in 1 .. Len(input)
    <3>1. k \in 1 .. Len(input)
      BY <1>12, <1>14, <2>2
    <3>2. k + 1 \in 1 .. Len(input)
      BY <1>14, <2>2, <3>1, NotTheEnd
    <3>3. k + 1 = i + (k + 1 - i)
      BY <1>9
    <3> QED
      BY <3>2, <3>3
  <2>3. r \in Returned
    <3>1. r = [err |-> "none", code |-> inner.code, n |-> k + 1 - i]
      BY <1>14, Zenon DEF Found
    <3> QED
      BY <1>8, <2>1, <3>1 DEF Returned
  <2>4. ASSUME FineBelow(f, i, d) PROVE Fine(r, "arg", i, d)
    BY <1>8, <1>14, <2>1, <2>2, <2>4, FoundFine
  <2> QED
    BY <2>3, <2>4
<1>15. CASE ~IsError(inner) /\ Kind(k) = "?" /\ r = ParseElse(f, inner, i, k + 1, d - 1)
  <2>1. k + 1 \in Nat /\ i < k + 1
    BY <1>9
  <2>2. k \in 1 .. Len(input) /\ (Ended => k + 1 \in 1 .. Len(input))
    <3>1. k \in 1 .. Len(input)
      BY <1>15, InputIs
    <3> QED
      BY <1>15, <3>1, NotTheEnd
  <2>3. /\ ParseElse(f, inner, i, k + 1, d - 1) \in Returned
        /\ FineBelow(f, i, (d - 1) + 1) => Fine(ParseElse(f, inner, i, k + 1, d - 1), "arg", i, (d - 1) + 1)
    BY <1>6, <1>7, <1>8, <2>1, <2>2, ElseFine
  <2> QED
    BY <1>6, <1>15, <2>3
<1>16. CASE ~IsError(inner) /\ Kind(k) \notin {")", "?"} /\ r = Unexpected(k)
  <2>1. r \in Returned
    BY <1>16, FailedReturned DEF Unexpected
  <2>2. ASSUME FineBelow(f, i, d) PROVE Fine(r, "arg", i, d)
    BY <1>12, <1>16, <2>2, FailedFine DEF Unexpected
  <2> QED
    BY <2>1, <2>2
<1> QED
  BY <1>3, <1>13, <1>14, <1>15, <1>16

LEMMA MoreAgrees ==
  ASSUME InputTyped, NEW f \in Returning, NEW g, NEW i \in Nat, NEW d \in Nat,
         AgreeBelow(f, g, i, d)
  PROVE  ParseMore(f, i, d) = ParseMore(g, i, d)
<1>1. CASE i \notin DOMAIN input
  BY <1>1, Zenon DEF ParseMore
<1>2. CASE Kind(i) \notin {"and", "or"}
  BY <1>2, Zenon DEF ParseMore
<1>3. CASE i \in DOMAIN input /\ Kind(i) \in {"and", "or"}
  <2> DEFINE q == IF Kind(i) = "and" THEN "arg" ELSE "ands"
  <2>1. PICK arg : arg = f[<<q, i + 1, d>>]
    OBVIOUS
  <2>2. q \in Parsers /\ "more" \in Parsers /\ i + 1 \in Nat
    BY DEF Parsers
  <2>3. arg.n \in Nat
    BY <2>1, <2>2, ReturnedIs
  <2>4. i + 1 + arg.n \in Nat /\ i < i + 1 /\ i < i + 1 + arg.n /\ i \in 1 .. Len(input)
    BY <1>3, <2>3, InputIs
  <2>5. Rank(i + 1, d) < Rank(i, d) /\ Rank(i + 1 + arg.n, d) < Rank(i, d)
    BY <2>2, <2>4, RankIs
  <2> HIDE DEF q
  <2>6. f[<<q, i + 1, d>>] = g[<<q, i + 1, d>>]
    BY <2>2, <2>5, Zenon DEF AgreeBelow
  <2>7. f[<<"more", i + 1 + arg.n, d>>] = g[<<"more", i + 1 + arg.n, d>>]
    BY <2>2, <2>4, <2>5, Zenon DEF AgreeBelow
  <2> DEFINE F(a, m) ==
        IF i \notin DOMAIN input THEN Unexpected(i)
        ELSE IF Kind(i) \notin {"and", "or"} THEN Found(<<>>, 0)
        ELSE IF IsError(a) THEN a
        ELSE IF IsError(m) THEN m
        ELSE Found(a.code \o <<Joint(Kind(i))>> \o m.code, 1 + a.n + m.n)
  <2>8. ASSUME NEW h PROVE ParseMore(h, i, d) = F(h[<<q, i + 1, d>>], h[<<"more", i + 1 + h[<<q, i + 1, d>>].n, d>>])
    <3>1. CASE Kind(i) = "and"
      BY <3>1, Zenon DEF ParseMore, q
    <3>2. CASE Kind(i) # "and"
      BY <3>2, Zenon DEF ParseMore, q
    <3> QED
      BY <3>1, <3>2
  <2> HIDE DEF F
  <2>9. ParseMore(f, i, d) = F(arg, f[<<"more", i + 1 + arg.n, d>>])
    BY <2>1, <2>8, Zenon
  <2>10. ParseMore(g, i, d) = F(arg, g[<<"more", i + 1 + arg.n, d>>])
    BY <2>1, <2>6, <2>8, Zenon
  <2> QED
    BY <2>7, <2>9, <2>10
<1> QED
  BY <1>1, <1>2, <1>3

LEMMA FilterAgrees ==
  ASSUME InputTyped, NEW f \in Returning, NEW g, NEW i \in Nat, NEW d \in Nat,
         AgreeBelow(f, g, i, d), NEW and \in BOOLEAN
  PROVE  ParseFilter(f, i, d, and) = ParseFilter(g, i, d, and)
<1>1. CASE d = 0
  BY <1>1, Zenon DEF ParseFilter
<1>2. CASE d # 0
  <2> DEFINE q == IF and THEN "arg" ELSE "ands"
  <2>1. PICK first : first = f[<<q, i, d - 1>>]
    OBVIOUS
  <2>2. q \in Parsers /\ "more" \in Parsers /\ d - 1 \in Nat
    BY <1>2 DEF Parsers
  <2> HIDE DEF q
  <2>3. first.n \in Nat
    BY <2>1, <2>2, ReturnedIs
  <2>4. i + first.n \in Nat
    BY <2>3
  <2>5. Rank(i, d - 1) < Rank(i, d) /\ Rank(i + first.n, d - 1) < Rank(i, d)
    BY <1>2, <2>4, RankIs
  <2>6. f[<<q, i, d - 1>>] = g[<<q, i, d - 1>>]
    BY <2>2, <2>5, Zenon DEF AgreeBelow
  <2>7. f[<<"more", i + first.n, d - 1>>] = g[<<"more", i + first.n, d - 1>>]
    BY <2>2, <2>4, <2>5, Zenon DEF AgreeBelow
  <2> DEFINE F(a, m) ==
        IF d = 0 THEN Failed("too deep", i)
        ELSE IF IsError(a) THEN a
        ELSE IF IsError(m) THEN m
        ELSE Found(a.code \o m.code, a.n + m.n)
  <2>8. ASSUME NEW h
        PROVE  ParseFilter(h, i, d, and) = F(h[<<q, i, d - 1>>], h[<<"more", i + h[<<q, i, d - 1>>].n, d - 1>>])
    BY Zenon DEF ParseFilter, q
  <2> HIDE DEF F
  <2>9. ParseFilter(f, i, d, and) = F(first, f[<<"more", i + first.n, d - 1>>])
    BY <2>1, <2>8, Zenon
  <2>10. ParseFilter(g, i, d, and) = F(first, g[<<"more", i + first.n, d - 1>>])
    BY <2>1, <2>6, <2>8, Zenon
  <2> QED
    BY <2>7, <2>9, <2>10
<1> QED
  BY <1>1, <1>2

LEMMA ArgAgrees ==
  ASSUME InputTyped, NEW f \in Returning, NEW g, NEW i \in Nat, NEW d \in Nat,
         AgreeBelow(f, g, i, d)
  PROVE  ParseAndOrArg(f, i, d) = ParseAndOrArg(g, i, d)
<1>1. CASE d = 0
  BY <1>1, Zenon DEF ParseAndOrArg
<1>2. CASE d # 0
  <2>1. PICK inner : inner = f[<<"filter", i + 1, d - 1>>]
    OBVIOUS
  <2>2. PICK k : k = i + 1 + inner.n + 1
    OBVIOUS
  <2>3. "filter" \in Parsers /\ d - 1 \in Nat /\ i + 1 \in Nat
    BY <1>2 DEF Parsers
  <2>4. ASSUME NEW j \in Nat PROVE f[<<"filter", j, d - 1>>] = g[<<"filter", j, d - 1>>] /\ f[<<"filter", j, d - 1>>].n \in Nat
    <3>1. Rank(j, d - 1) < Rank(i, d)
      BY <1>2, RankIs
    <3>2. f[<<"filter", j, d - 1>>] = g[<<"filter", j, d - 1>>]
      BY <2>3, <3>1, Zenon DEF AgreeBelow
    <3> QED
      BY <2>3, <3>2, ReturnedIs
  <2>5. inner = g[<<"filter", i + 1, d - 1>>] /\ inner.n \in Nat
    BY <2>1, <2>3, <2>4
  <2>6. k \in Nat
    BY <2>2, <2>5
  <2>7. PICK yes : yes = f[<<"filter", k, d - 1>>]
    OBVIOUS
  <2>8. yes = g[<<"filter", k, d - 1>>] /\ yes.n \in Nat
    BY <2>4, <2>6, <2>7
  <2>9. k + yes.n + 1 \in Nat
    BY <2>6, <2>8
  <2>10. f[<<"filter", k + yes.n + 1, d - 1>>] = g[<<"filter", k + yes.n + 1, d - 1>>]
    BY <2>4, <2>9
  <2>11. ParseElse(f, inner, i, k, d - 1) = ParseElse(g, inner, i, k, d - 1)
    <3>1. PICK no : no = f[<<"filter", k + yes.n + 1, d - 1>>]
      OBVIOUS
    <3>2. no = g[<<"filter", k + yes.n + 1, d - 1>>]
      BY <2>10, <3>1
    <3> DEFINE G(y, z) ==
          IF IsError(y) THEN y
          ELSE IF Kind(k + y.n) # ":" THEN Unexpected(k + y.n)
          ELSE IF IsError(z) THEN z
          ELSE IF Kind(k + y.n + 1 + z.n) # ")" THEN Unexpected(k + y.n + 1 + z.n)
          ELSE Found(inner.code \o y.code \o z.code \o <<Joint("if")>>, k + y.n + 1 + z.n + 1 - i)
    <3>3. ASSUME NEW h PROVE ParseElse(h, inner, i, k, d - 1)
                             = G(h[<<"filter", k, d - 1>>], h[<<"filter", k + h[<<"filter", k, d - 1>>].n + 1, d - 1>>])
      BY Zenon DEF ParseElse
    <3> HIDE DEF G
    <3>4. ParseElse(f, inner, i, k, d - 1) = G(yes, no)
      BY <2>7, <3>1, <3>3, Zenon
    <3>5. ParseElse(g, inner, i, k, d - 1) = G(yes, no)
      BY <2>8, <3>2, <3>3, Zenon
    <3> QED
      BY <3>4, <3>5
  <2> DEFINE F(a, e) ==
        IF d = 0 THEN Failed("too deep", i)
        ELSE IF Kind(i) # "(" THEN ParseTest(i)
        ELSE IF IsError(a) THEN a
        ELSE IF Kind(i + 1 + a.n) = ")" THEN Found(a.code, i + 1 + a.n + 1 - i)
        ELSE IF Kind(i + 1 + a.n) = "?" THEN e
        ELSE Unexpected(i + 1 + a.n)
  <2>12. ASSUME NEW h PROVE ParseAndOrArg(h, i, d)
                            = F(h[<<"filter", i + 1, d - 1>>],
                                ParseElse(h, h[<<"filter", i + 1, d - 1>>], i, i + 1 + h[<<"filter", i + 1, d - 1>>].n + 1, d - 1))
    BY Zenon DEF ParseAndOrArg
  <2> HIDE DEF F
  <2>13. ParseAndOrArg(f, i, d) = F(inner, ParseElse(f, inner, i, k, d - 1))
    BY <2>1, <2>2, <2>12, Zenon
  <2>14. ParseAndOrArg(g, i, d) = F(inner, ParseElse(g, inner, i, k, d - 1))
    BY <2>2, <2>5, <2>12, Zenon
  <2> QED
    BY <2>11, <2>13, <2>14
<1> QED
  BY <1>1, <1>2

LEMMA BodyIs ==
  ASSUME NEW f, NEW i, NEW d
  PROVE  /\ ParseBody(f, "filter", i, d) = ParseFilter(f, i, d, FALSE)
         /\ ParseBody(f, "ands", i, d) = ParseFilter(f, i, d, TRUE)
         /\ ParseBody(f, "arg", i, d) = ParseAndOrArg(f, i, d)
         /\ ParseBody(f, "more", i, d) = ParseMore(f, i, d)
  BY DEF ParseBody

LEMMA BodyFine ==
  ASSUME InputTyped, NEW f \in Returning, NEW p \in Parsers, NEW i \in Nat, NEW d \in Nat
  PROVE  /\ ParseBody(f, p, i, d) \in Returned
         /\ FineBelow(f, i, d) => Fine(ParseBody(f, p, i, d), p, i, d)
<1>1. CASE p = "filter"
  BY <1>1, BodyIs, FilterFine
<1>2. CASE p = "ands"
  BY <1>2, BodyIs, FilterFine
<1>3. CASE p = "arg"
  BY <1>3, BodyIs, ArgFine
<1>4. CASE p = "more"
  BY <1>4, BodyIs, MoreFine
<1> QED
  BY <1>1, <1>2, <1>3, <1>4 DEF Parsers

LEMMA BodyAgrees ==
  ASSUME InputTyped, NEW f \in Returning, NEW g,
         NEW p \in Parsers, NEW i \in Nat, NEW d \in Nat, AgreeBelow(f, g, i, d)
  PROVE  ParseBody(f, p, i, d) = ParseBody(g, p, i, d)
<1>1. CASE p = "filter"
  <2>1. ParseFilter(f, i, d, FALSE) = ParseFilter(g, i, d, FALSE)
    BY FilterAgrees
  <2> QED
    BY <1>1, <2>1, BodyIs, Zenon
<1>2. CASE p = "ands"
  <2>1. ParseFilter(f, i, d, TRUE) = ParseFilter(g, i, d, TRUE)
    BY FilterAgrees
  <2> QED
    BY <1>2, <2>1, BodyIs, Zenon
<1>3. CASE p = "arg"
  <2>1. ParseAndOrArg(f, i, d) = ParseAndOrArg(g, i, d)
    BY ArgAgrees
  <2> QED
    BY <1>3, <2>1, BodyIs, Zenon
<1>4. CASE p = "more"
  <2>1. ParseMore(f, i, d) = ParseMore(g, i, d)
    BY MoreAgrees
  <2> QED
    BY <1>4, <2>1, BodyIs, Zenon
<1> QED
  BY <1>1, <1>2, <1>3, <1>4 DEF Parsers

LEMMA CallIsOne ==
  ASSUME NEW c \in ParseCalls
  PROVE  c[1] \in Parsers /\ c[2] \in Nat /\ c[3] \in Nat /\ c = <<c[1], c[2], c[3]>>
  BY DEF ParseCalls

(* What holds of a call if it holds of all calls of a lower rank holds of  *)
(* all. *)
LEMMA CallInduction ==
  ASSUME InputTyped, NEW S,
         \A c \in ParseCalls :
            (\A b \in ParseCalls : Rank(b[2], b[3]) < Rank(c[2], c[3]) => b \in S) => c \in S
  PROVE  ParseCalls \subseteq S
<1> DEFINE N == {n \in Nat : \A c \in ParseCalls : Rank(c[2], c[3]) < n => c \in S}
<1>1. \A c \in ParseCalls : Rank(c[2], c[3]) \in Nat
  BY CallIsOne, RankIs
<1>2. 0 \in N
  BY <1>1
<1>3. ASSUME NEW n \in Nat, n \in N PROVE n + 1 \in N
  <2> SUFFICES ASSUME NEW c \in ParseCalls, Rank(c[2], c[3]) < n + 1 PROVE c \in S
    OBVIOUS
  <2>1. \A b \in ParseCalls : Rank(b[2], b[3]) < Rank(c[2], c[3]) => b \in S
    BY <1>1, <1>3
  <2> QED
    BY <2>1
<1> HIDE DEF N
<1>4. \A n \in Nat : n \in N
  BY <1>2, <1>3, SetInduction
<1>5. ASSUME NEW c \in ParseCalls PROVE c \in S
  <2>1. Rank(c[2], c[3]) + 1 \in N /\ Rank(c[2], c[3]) < Rank(c[2], c[3]) + 1
    BY <1>1, <1>4
  <2> QED
    BY <2>1 DEF N
<1> QED
  BY <1>5

(* ParseCall is a function, and obeys its definition. *)
LEMMA ParseCallIs ==
  ASSUME InputTyped
  PROVE  /\ ParseCall \in Returning
         /\ \A c \in ParseCalls : ParseCall[c] = ParseBody(ParseCall, c[1], c[2], c[3])
<1> DEFINE F    == [g \in Returning |-> [c \in ParseCalls |-> ParseBody(g, c[1], c[2], c[3])]]
           rank == [c \in ParseCalls |-> Rank(c[2], c[3])]
<1>1. ASSUME NEW g \in Returning
      PROVE  [c \in ParseCalls |-> ParseBody(g, c[1], c[2], c[3])] \in Returning
  <2>1. ASSUME NEW c \in ParseCalls PROVE ParseBody(g, c[1], c[2], c[3]) \in Returned
    BY CallIsOne, BodyFine
  <2> QED
    BY <2>1 DEF Returning
<1>2. F \in [Returning -> Returning]
  BY <1>1
<1>3. Returned # {}
  BY FailedReturned
<1>4. rank \in [ParseCalls -> Nat]
  <2>1. ASSUME NEW c \in ParseCalls PROVE Rank(c[2], c[3]) \in Nat
    BY CallIsOne, RankIs
  <2> QED
    BY <2>1
<1>5. ASSUME NEW g \in Returning, NEW h, NEW c \in ParseCalls,
             \A b \in ParseCalls : Rank(b[2], b[3]) < Rank(c[2], c[3]) => g[b] = h[b]
      PROVE  ParseBody(g, c[1], c[2], c[3]) = ParseBody(h, c[1], c[2], c[3])
  <2>1. ASSUME NEW p \in Parsers, NEW j \in Nat, NEW e \in Nat, Rank(j, e) < Rank(c[2], c[3])
        PROVE  g[<<p, j, e>>] = h[<<p, j, e>>]
    <3>1. <<p, j, e>> \in ParseCalls /\ <<p, j, e>>[2] = j /\ <<p, j, e>>[3] = e
      BY DEF ParseCalls
    <3>2. Rank(<<p, j, e>>[2], <<p, j, e>>[3]) < Rank(c[2], c[3])
      BY <2>1, <3>1
    <3> QED
      BY <1>5, <3>1, <3>2
  <2>2. AgreeBelow(g, h, c[2], c[3])
    BY <2>1 DEF AgreeBelow
  <2> QED
    BY <2>2, CallIsOne, BodyAgrees
<1>6. Descends(F, ParseCalls, Returned, rank)
  <2>1. ASSUME NEW g \in [ParseCalls -> Returned], NEW h \in [ParseCalls -> Returned], NEW c \in ParseCalls,
               \A b \in ParseCalls : rank[b] < rank[c] => g[b] = h[b]
        PROVE  F[g][c] = F[h][c]
    <3>1. g \in Returning /\ h \in Returning
      BY DEF Returning
    <3>2. \A b \in ParseCalls : Rank(b[2], b[3]) < Rank(c[2], c[3]) => g[b] = h[b]
      BY <2>1
    <3>3. ParseBody(g, c[1], c[2], c[3]) = ParseBody(h, c[1], c[2], c[3])
      BY <1>5, <3>1, <3>2
    <3> QED
      BY <3>1, <3>3
  <2>2. F \in [[ParseCalls -> Returned] -> [ParseCalls -> Returned]]
    BY <1>2 DEF Returning
  <2> HIDE DEF F, rank
  <2> QED
    BY <1>3, <1>4, <2>1, <2>2 DEF Descends
<1>7. \E f \in [ParseCalls -> Returned] : f = F[f]
  <2> HIDE DEF F, rank
  <2> QED
    BY <1>6, RecursiveFunctionExists
<1>8. PICK f \in Returning : f = [c \in ParseCalls |-> ParseBody(f, c[1], c[2], c[3])]
  BY <1>7 DEF Returning
<1>9. ParseCall = CHOOSE g : g = [c \in ParseCalls |-> ParseBody(g, c[1], c[2], c[3])]
  BY DEF ParseCall
<1>10. ParseCall = [c \in ParseCalls |-> ParseBody(ParseCall, c[1], c[2], c[3])]
  BY <1>8, <1>9
<1>11. ParseCall \in Returning
  <2> DEFINE S == {c \in ParseCalls : ParseCall[c] = f[c]}
  <2>1. ASSUME NEW c \in ParseCalls,
               \A b \in ParseCalls : Rank(b[2], b[3]) < Rank(c[2], c[3]) => b \in S
        PROVE  c \in S
    <3>1. \A b \in ParseCalls : Rank(b[2], b[3]) < Rank(c[2], c[3]) => f[b] = ParseCall[b]
      BY <2>1
    <3>2. ParseBody(f, c[1], c[2], c[3]) = ParseBody(ParseCall, c[1], c[2], c[3])
      BY <1>5, <3>1
    <3>3. f[c] = ParseBody(f, c[1], c[2], c[3])
      BY <1>8
    <3>4. ParseCall[c] = ParseBody(ParseCall, c[1], c[2], c[3])
      BY <1>10
    <3> QED
      BY <3>2, <3>3, <3>4
  <2> HIDE DEF S
  <2>2. ParseCalls \subseteq S
    BY <2>1, CallInduction
  <2>3. \A c \in ParseCalls : ParseCall[c] = f[c]
    BY <2>2 DEF S
  <2>4. ParseCall = f
    <3>1. ParseCall = [c \in ParseCalls |-> ParseCall[c]]
      BY <1>10
    <3>2. f = [c \in ParseCalls |-> f[c]]
      BY DEF Returning
    <3> QED
      BY <2>3, <3>1, <3>2
  <2> QED
    BY <2>4
<1> QED
  BY <1>10, <1>11

LEMMA CallsFine ==
  ASSUME InputTyped, NEW p \in Parsers, NEW i \in Nat, NEW d \in Nat
  PROVE  LET r == ParseCall[<<p, i, d>>]
         IN  /\ r \in Returned
             /\ Fine(r, p, i, d)
<1> DEFINE S == {c \in ParseCalls : Fine(ParseCall[c], c[1], c[2], c[3])}
<1>1. ASSUME NEW c \in ParseCalls,
             \A b \in ParseCalls : Rank(b[2], b[3]) < Rank(c[2], c[3]) => b \in S
      PROVE  c \in S
  <2>1. ASSUME NEW q \in Parsers, NEW j \in Nat, NEW e \in Nat, Rank(j, e) < Rank(c[2], c[3])
        PROVE  Fine(ParseCall[<<q, j, e>>], q, j, e)
    <3>1. /\ <<q, j, e>> \in ParseCalls
          /\ <<q, j, e>>[1] = q /\ <<q, j, e>>[2] = j /\ <<q, j, e>>[3] = e
      BY DEF ParseCalls
    <3>2. <<q, j, e>> \in S
      BY <1>1, <2>1, <3>1
    <3> QED
      BY <3>1, <3>2
  <2>2. FineBelow(ParseCall, c[2], c[3])
    BY <2>1 DEF FineBelow
  <2>3. Fine(ParseBody(ParseCall, c[1], c[2], c[3]), c[1], c[2], c[3])
    BY <2>2, CallIsOne, ParseCallIs, BodyFine
  <2> QED
    BY <2>3, ParseCallIs
<1> HIDE DEF S
<1>2. ParseCalls \subseteq S
  BY <1>1, CallInduction
<1>3. /\ <<p, i, d>> \in ParseCalls
      /\ <<p, i, d>>[1] = p /\ <<p, i, d>>[2] = i /\ <<p, i, d>>[3] = d
  BY DEF ParseCalls
<1>4. ParseCall[<<p, i, d>>] \in Returned
  BY <1>3, ParseCallIs DEF Returning
<1> QED
  BY <1>2, <1>3, <1>4 DEF S

-----------------------------------------------------------------------------
(* Tokens are added until there is an end; then they are parsed.           *)

(* An end is the last token. *)
EndsOnce == Ended /\ \A k \in 1 .. Len(input) - 1 : input[k].kind # "end"

(* The parser never looks behind the end of the text, and what it accepts  *)
(* is all of the text. *)
TextIsRead == Parsed => result.err # "outside" /\ (~IsError(result) => 1 + result.n = Len(input))

ParseInv ==
  /\ InputTyped /\ parsing \in {"tokenize", "parse", "done"}
  /\ parsing = "tokenize" => /\ result = Found(<<>>, 0)
                             /\ \A k \in 1 .. Len(input) : input[k].kind # "end"
  /\ parsing = "parse" => EndsOnce
  /\ Parsed => /\ TextIsRead /\ result \in Returned
               /\ result.err = "too deep" => maxDepth < 3 + Weight(1)

LEMMA ParseInitHolds == ParseInit => ParseInv
<1> SUFFICES ASSUME ParseInit PROVE ParseInv
  OBVIOUS
<1>1. InputTyped /\ Len(input) = 0
  BY DEF ParseInit, InputTyped
<1>2. parsing = "tokenize" /\ result = Found(<<>>, 0) /\ ~Parsed
  BY DEF ParseInit, Parsed
<1>3. \A k \in 1 .. Len(input) : input[k].kind # "end"
  BY <1>1
<1>4. parsing \in {"tokenize", "parse", "done"} /\ parsing # "parse"
  BY <1>2
<1> QED
  BY <1>1, <1>2, <1>3, <1>4, Zenon DEF ParseInv

LEMMA TokenizeHolds == ParseInv /\ TokenizeFilter => ParseInv'
<1> SUFFICES ASSUME ParseInv, TokenizeFilter PROVE ParseInv'
  OBVIOUS
<1>1. /\ parsing = "tokenize" /\ input \in Seq(Words \cup {Word("end")})
      /\ result = [err |-> "none", code |-> <<>>, n |-> 0]
      /\ \A k \in 1 .. Len(input) : input[k].kind # "end"
  BY Zenon DEF TokenizeFilter, ParseInv, InputTyped, Found
<1>2. ASSUME NEW e \in {"too long", "bad token"}, result' = [result EXCEPT !.err = e],
             parsing' = "done", input' = input
      PROVE  ParseInv'
  <2>1. result'.err = e
    BY <1>1, <1>2
  <2>2. ~Parsed'
    BY <1>2, <2>1 DEF Parsed
  <2>3. InputTyped'
    BY <1>1, <1>2 DEF InputTyped
  <2> QED
    BY <1>2, <2>2, <2>3 DEF ParseInv
<1>3. CASE input' = Append(input, Word("end")) /\ parsing' = "parse" /\ result' = result
  <2>1. /\ Len(input') = Len(input) + 1 /\ input'[Len(input')] = Word("end")
        /\ \A k \in 1 .. Len(input) : input'[k] = input[k]
        /\ input' \in Seq(Words \cup {Word("end")}) /\ Len(input) \in Nat
    BY <1>1, <1>3
  <2>2. DOMAIN input' = 1 .. Len(input')
    BY <2>1
  <2>3. InputTyped' /\ input' # <<>>
    BY <2>1 DEF InputTyped
  <2>4. Len(input') \in DOMAIN input' /\ input'[Len(input')].kind = "end"
    BY <2>1, <2>2 DEF Word
  <2>5. Kind(Len(input))' = "end"
    BY <2>4 DEF Kind
  <2>6. \A k \in 1 .. Len(input') - 1 : input'[k].kind # "end"
    BY <1>1, <2>1
  <2>7. EndsOnce'
    BY <2>3, <2>5, <2>6 DEF EndsOnce, Ended
  <2>8. ~Parsed'
    BY <1>3 DEF Parsed
  <2> QED
    BY <1>3, <2>3, <2>7, <2>8 DEF ParseInv
<1>4. CASE \E w \in Words : input' = Append(input, w) /\ parsing' = parsing /\ result' = result
  <2>1. PICK w \in Words : input' = Append(input, w)
    BY <1>4
  <2>2. w.kind # "end"
    BY WordsAssumption
  <2>3. /\ Len(input') = Len(input) + 1 /\ input'[Len(input')] = w
        /\ \A k \in 1 .. Len(input) : input'[k] = input[k]
        /\ input' \in Seq(Words \cup {Word("end")}) /\ Len(input) \in Nat
    BY <1>1, <2>1
  <2>4. \A k \in 1 .. Len(input') : input'[k].kind # "end"
    <3> SUFFICES ASSUME NEW k \in 1 .. Len(input') PROVE input'[k].kind # "end"
      OBVIOUS
    <3>1. CASE k = Len(input')
      BY <2>2, <2>3, <3>1
    <3>2. CASE k # Len(input')
      <4>1. k \in 1 .. Len(input)
        BY <2>3, <3>2
      <4> QED
        BY <1>1, <2>3, <4>1
    <3> QED
      BY <3>1, <3>2
  <2>5. InputTyped'
    BY <2>3 DEF InputTyped
  <2>6. ~Parsed' /\ parsing' = "tokenize"
    BY <1>1, <1>4 DEF Parsed
  <2>7. result' = Found(<<>>, 0)
    BY <1>1, <1>4, Zenon DEF Found
  <2>8. (result = Found(<<>>, 0))'
    BY <2>7, Zenon DEF Found
  <2> QED
    BY <2>4, <2>5, <2>6, <2>8 DEF ParseInv
<1> QED
  <2>1. \/ \E e \in {"too long", "bad token"} :
              result' = [result EXCEPT !.err = e] /\ parsing' = "done" /\ input' = input
        \/ input' = Append(input, Word("end")) /\ parsing' = "parse" /\ result' = result
        \/ \E w \in Words : input' = Append(input, w) /\ parsing' = parsing /\ result' = result
    BY DEF TokenizeFilter
  <2> QED
    BY <1>2, <1>3, <1>4, <2>1

LEMMA ParseHolds == ParseInv /\ Parse => ParseInv'
<1> SUFFICES ASSUME ParseInv, Parse PROVE ParseInv'
  OBVIOUS
<1>1. InputTyped /\ EndsOnce /\ Ended /\ input' = input /\ parsing' = "done"
  BY DEF Parse, ParseInv, EndsOnce
<1>2. PICK r : r = ParseCall[<<"filter", 1, maxDepth>>]
  OBVIOUS
<1>3. result' = IF ~IsError(r) /\ 1 + r.n \in DOMAIN input /\ Kind(1 + r.n) # "end"
                THEN Unexpected(1 + r.n) ELSE r
  BY <1>2, Zenon DEF Parse
<1>4. 1 \in 1 .. Len(input)
  BY <1>1, InputIs DEF Ended
<1>5. r \in Returned /\ r.n \in Nat /\ Fine(r, "filter", 1, maxDepth)
  <2>1. "filter" \in Parsers /\ 1 \in Nat /\ maxDepth \in Nat
    BY DepthAssumption DEF Parsers
  <2>2. r \in Returned /\ Fine(r, "filter", 1, maxDepth)
    BY <1>1, <1>2, <2>1, CallsFine
  <2> QED
    BY <2>2 DEF Returned
<1>6. /\ r.err # "outside" /\ (r.err = "none" => 1 + r.n \in 1 .. Len(input))
      /\ r.err = "too deep" => maxDepth < Share["filter"] + Weight(1)
  BY <1>1, <1>4, <1>5 DEF Fine, Stays
<1>7. /\ result' \in Returned /\ result'.err # "outside"
      /\ result'.err = "none" => 1 + result'.n = Len(input)
      /\ result'.err = "too deep" => maxDepth < 3 + Weight(1)
  <2>1. CASE ~IsError(r) /\ Kind(1 + r.n) # "end"
    <3>1. 1 + r.n \in 1 .. Len(input)
      BY <1>6, <2>1 DEF IsError
    <3>2. result' = Unexpected(1 + r.n)
      BY <1>1, <1>3, <2>1, <3>1, InputIs
    <3>3. result' \in Returned
      BY <1>1, <3>2, FailedReturned DEF Unexpected
    <3>4. result'.err = "unexpected token"
      BY <1>1, <3>1, <3>2, FailedIs DEF Unexpected
    <3> QED
      BY <3>3, <3>4
  <2>2. CASE IsError(r) \/ Kind(1 + r.n) = "end"
    <3>1. result' = r
      BY <1>3, <2>2, Zenon
    <3>2. r.err = "none" => 1 + r.n = Len(input)
      <4> SUFFICES ASSUME r.err = "none" PROVE 1 + r.n = Len(input)
        OBVIOUS
      <4>1. 1 + r.n \in 1 .. Len(input) /\ Kind(1 + r.n) = "end"
        BY <1>6, <2>2 DEF IsError
      <4>2. input[1 + r.n].kind = "end"
        BY <1>1, <4>1, InputIs
      <4>3. 1 + r.n \notin 1 .. Len(input) - 1
        BY <1>1, <4>2 DEF EndsOnce
      <4> QED
        BY <1>1, <4>1, <4>3, InputIs
    <3> QED
      BY <1>5, <1>6, <3>1, <3>2, SharesAre
  <2> QED
    BY <2>1, <2>2
<1>8. InputTyped' /\ Returned' = Returned /\ Weight(1)' = Weight(1)
  BY <1>1 DEF InputTyped, Returned, ScaledNodes, ScaledVars, ArrayIndex, Weight, Places, Kind
<1>9. TextIsRead'
  BY <1>1, <1>7 DEF TextIsRead, IsError
<1> QED
  BY <1>1, <1>7, <1>8, <1>9 DEF ParseInv

LEMMA ParseInvHolds == ParseSpec => []ParseInv
<1>1. ParseInv /\ [ParseNext]_parseVars => ParseInv'
  <2> SUFFICES ASSUME ParseInv, [ParseNext]_parseVars PROVE ParseInv'
    OBVIOUS
  <2>1. CASE TokenizeFilter
    BY <2>1, TokenizeHolds
  <2>2. CASE Parse
    BY <2>2, ParseHolds
  <2>3. CASE UNCHANGED parseVars
    <3>1. input' = input /\ result' = result /\ parsing' = parsing
      BY <2>3 DEF parseVars
    <3>2. InputTyped' = InputTyped /\ EndsOnce' = EndsOnce
      BY <3>1 DEF InputTyped, EndsOnce, Ended, Kind
    <3>3. Returned' = Returned /\ Weight(1)' = Weight(1)
      BY <3>1 DEF Returned, ScaledNodes, ScaledVars, ArrayIndex, Weight, Places, Kind
    <3>4. Parsed' = Parsed /\ TextIsRead' = TextIsRead
      BY <3>1 DEF Parsed, TextIsRead, IsError
    <3>5. Found(<<>>, 0)' = Found(<<>>, 0)
      BY Zenon DEF Found
    <3> QED
      BY <3>1, <3>2, <3>3, <3>4, <3>5 DEF ParseInv
  <2> QED
    BY <2>1, <2>2, <2>3 DEF ParseNext
<1> QED
  BY <1>1, ParseInitHolds, PTL DEF ParseSpec

(* The parser never looks behind the last token, and accepts whole texts   *)
(* only, at every length of a text and every depth (expr.go peeks at       *)
(* tokens[0] without asking whether there is one). *)
THEOREM TextAlwaysRead == ParseSpec => []TextIsRead
<1>1. ParseInv => TextIsRead
  BY DEF ParseInv, TextIsRead
<1> QED
  BY <1>1, ParseInvHolds, PTL

(* The depth that a filter needs is bounded by its parentheses and its     *)
(* "or"s, whatever maxDepth is and however long the text. *)
THEOREM DepthAlwaysEnough == ParseSpec => []DepthIsEnough
<1>1. ASSUME NEW a \in Nat, NEW b \in Nat PROVE 3 + (3 * a + b) = 3 + 3 * a + b
  OBVIOUS
<1>2. ASSUME InputTyped, maxDepth < 3 + Weight(1)
      PROVE  maxDepth < 3 + 3 * Cardinality(Places("(", 1, Len(input))) + Cardinality(Places("or", 1, Len(input)))
  <2>1. /\ Cardinality(Places("(", 1, Len(input))) \in Nat
        /\ Cardinality(Places("or", 1, Len(input))) \in Nat
    <3>1. 1 \in Nat /\ 1 <= 1
      OBVIOUS
    <3> QED
      BY <1>2, <3>1, PlacesAre
  <2> QED
    BY <1>1, <1>2, <2>1 DEF Weight
<1>3. ParseInv => DepthIsEnough
  BY <1>2, Zenon DEF ParseInv, DepthIsEnough
<1> QED
  BY <1>3, ParseInvHolds, PTL

(* Of every filter that is accepted, each index of packet32 is the one     *)
(* that is written. *)
THEOREM ElementsAlwaysScaled == ParseSpec => []ElementScaled
<1>1. ParseInv => ElementScaled
  <2> SUFFICES ASSUME ParseInv, Parsed, NEW v \in VarsOf(result.code), Kind(v.at) = "packet32"
               PROVE  \E last \in v.at + 3 .. Len(input) : ArrayIndex(v.at, last) = {v.index}
    BY DEF ElementScaled
  <2>1. result.code \in Seq(ScaledNodes)
    BY DEF ParseInv, Returned
  <2>2. PICK k \in DOMAIN result.code : result.code[k].op = "test" /\ v = result.code[k].var
    BY DEF VarsOf
  <2>3. result.code[k] \in ScaledNodes
    BY <2>1, <2>2
  <2>4. v \in ScaledVars
    BY <2>2, <2>3 DEF ScaledNodes
  <2> QED
    BY <2>4 DEF ScaledVars
<1> QED
  BY <1>1, ParseInvHolds, PTL
=============================================================================
