------------------------------ MODULE Recursion ------------------------------
(***************************************************************************)
(* Lemmas about recursive functions.  The values of a recursive function   *)
(* f[x \in D] == e are those of SOME function with f = [x \in D |-> e];    *)
(* before anything can be said of them, one has to exist.  It does if the  *)
(* definition goes down some rank, as is shown here from the fact that the *)
(* order of the natural numbers is well-founded.                           *)
(***************************************************************************)
EXTENDS Naturals, WellFoundedInduction, TLAPS

LessThan == {r \in Nat \X Nat : r[1] < r[2]}

LEMMA LessThanWF == IsWellFoundedOn(LessThan, Nat)
  BY NatLessThanWellFounded, Zenon DEF LessThan, OpToRel

(* A set with 0 and with the successor of each of its numbers has all. *)
LEMMA SetInduction ==
  ASSUME NEW S, 0 \in S, \A n \in Nat : n \in S => n + 1 \in S
  PROVE  \A n \in Nat : n \in S
<1> DEFINE T == Nat \ S
<1> SUFFICES ASSUME T # {} PROVE FALSE
  OBVIOUS
<1>1. PICK x \in T : \A y \in T : <<y, x>> \notin LessThan
  <2> HIDE DEF T
  <2>1. T \subseteq Nat
    BY DEF T
  <2> QED
    BY <2>1, LessThanWF, WFMin
<1>2. x # 0 /\ x - 1 \in Nat /\ <<x - 1, x>> \in LessThan
  BY DEF LessThan
<1>3. x - 1 \in S /\ (x - 1) + 1 = x
  BY <1>1, <1>2
<1> QED
  BY <1>2, <1>3

-----------------------------------------------------------------------------
(* F makes of a function the next one in D's definition: what it says of x *)
(* depends on arguments of lower rank only. *)
Descends(F, D, T, rank) ==
    /\ T # {} /\ rank \in [D -> Nat] /\ F \in [[D -> T] -> [D -> T]]
    /\ \A g, h \in [D -> T] : \A x \in D :
          (\A y \in D : rank[y] < rank[x] => g[y] = h[y]) => F[g][x] = F[h][x]

(* g obeys the definition at all arguments of a rank below n. *)
Obeys(g, F, D, rank, n) == \A x \in D : rank[x] < n => g[x] = F[g][x]

(* Functions that obey the definition agree where they do. *)
LEMMA ObeyingAgree ==
  ASSUME NEW D, NEW T, NEW rank, NEW F, Descends(F, D, T, rank),
         NEW m \in Nat, NEW g \in [D -> T], NEW h \in [D -> T],
         Obeys(g, F, D, rank, m), Obeys(h, F, D, rank, m)
  PROVE  \A x \in D : rank[x] < m => g[x] = h[x]
<1>0. rank \in [D -> Nat]
  BY DEF Descends
<1> DEFINE S == {n \in Nat : \A x \in D : rank[x] < n /\ rank[x] < m => g[x] = h[x]}
<1>1. 0 \in S
  BY <1>0
<1>2. ASSUME NEW n \in Nat, n \in S PROVE n + 1 \in S
  <2> SUFFICES ASSUME NEW x \in D, rank[x] < n + 1, rank[x] < m PROVE g[x] = h[x]
    BY <1>0
  <2>1. \A y \in D : rank[y] < rank[x] => g[y] = h[y]
    BY <1>0, <1>2
  <2>2. F[g][x] = F[h][x]
    BY <2>1 DEF Descends
  <2> QED
    BY <2>2 DEF Obeys
<1>3. \A n \in Nat : n \in S
  <2> HIDE DEF S
  <2> QED
    BY <1>1, <1>2, SetInduction
<1> QED
  BY <1>3

(* Some function obeys the definition, as far up as one likes. *)
LEMMA SomeObeys ==
  ASSUME NEW D, NEW T, NEW rank, NEW F, Descends(F, D, T, rank)
  PROVE  \A n \in Nat : \E g \in [D -> T] : Obeys(g, F, D, rank, n)
<1>0. T # {} /\ rank \in [D -> Nat] /\ F \in [[D -> T] -> [D -> T]]
  BY DEF Descends
<1> DEFINE S == {n \in Nat : \E g \in [D -> T] : Obeys(g, F, D, rank, n)}
<1>1. 0 \in S
  <2>1. PICK t \in T : TRUE
    BY <1>0
  <2>2. [x \in D |-> t] \in [D -> T] /\ Obeys([x \in D |-> t], F, D, rank, 0)
    BY <1>0 DEF Obeys
  <2> QED
    BY <2>2
<1>2. ASSUME NEW n \in Nat, n \in S PROVE n + 1 \in S
  <2>1. PICK g \in [D -> T] : Obeys(g, F, D, rank, n)
    BY <1>2
  <2>2. F[g] \in [D -> T]
    BY DEF Descends
  <2>3. ASSUME NEW x \in D, rank[x] < n + 1 PROVE F[g][x] = F[F[g]][x]
    <3>1. \A y \in D : rank[y] < rank[x] => g[y] = F[g][y]
      BY <1>0, <2>1, <2>3 DEF Obeys
    <3> QED
      BY <2>2, <3>1 DEF Descends
  <2> QED
    BY <2>2, <2>3 DEF Obeys
<1>3. \A n \in Nat : n \in S
  <2> HIDE DEF S
  <2> QED
    BY <1>1, <1>2, SetInduction
<1> QED
  BY <1>3

(* A definition that goes down a rank has a function that obeys it. *)
LEMMA RecursiveFunctionExists ==
  ASSUME NEW D, NEW T, NEW rank, NEW F, Descends(F, D, T, rank)
  PROVE  \E f \in [D -> T] : f = F[f]
<1>0. T # {} /\ rank \in [D -> Nat] /\ F \in [[D -> T] -> [D -> T]]
  BY DEF Descends
<1> DEFINE Upto(n) == CHOOSE g \in [D -> T] : Obeys(g, F, D, rank, n)
           f == [x \in D |-> Upto(rank[x] + 1)[x]]
<1>1. \A n \in Nat : Upto(n) \in [D -> T] /\ Obeys(Upto(n), F, D, rank, n)
  BY SomeObeys
<1> HIDE DEF Upto
<1>a. ASSUME NEW m \in Nat, NEW u \in [D -> T], NEW v \in [D -> T],
             Obeys(u, F, D, rank, m), Obeys(v, F, D, rank, m), NEW z \in D, rank[z] < m
      PROVE  u[z] = v[z]
  BY <1>a, ObeyingAgree
<1>2. f \in [D -> T]
  <2>1. ASSUME NEW x \in D PROVE Upto(rank[x] + 1)[x] \in T
    BY <1>0, <1>1
  <2> QED
    BY <2>1
<1>3. ASSUME NEW x \in D PROVE f[x] = F[f][x]
  <2> DEFINE g == Upto(rank[x] + 1)
  <2>1. g \in [D -> T] /\ Obeys(g, F, D, rank, rank[x] + 1)
    BY <1>0, <1>1
  <2>2. ASSUME NEW y \in D, rank[y] < rank[x] PROVE f[y] = g[y]
    <3> DEFINE h == Upto(rank[y] + 1)
    <3>1. h \in [D -> T] /\ Obeys(h, F, D, rank, rank[y] + 1)
      BY <1>0, <1>1
    <3>2. Obeys(g, F, D, rank, rank[y] + 1)
      BY <1>0, <2>1, <2>2 DEF Obeys
    <3> HIDE DEF g, h
    <3>3. rank[y] + 1 \in Nat /\ rank[y] < rank[y] + 1
      BY <1>0
    <3>4. g[y] = h[y]
      BY <1>a, <2>1, <3>1, <3>2, <3>3
    <3> QED
      BY <3>4 DEF g, h
  <2>3. F[f][x] = F[g][x]
    <3> HIDE DEF f, g
    <3> QED
      BY <1>2, <2>1, <2>2 DEF Descends
  <2>4. g[x] = F[g][x]
    BY <1>0, <2>1 DEF Obeys
  <2> QED
    BY <2>3, <2>4
<1> HIDE DEF f
<1>4. F[f] \in [D -> T]
  BY <1>0, <1>2
<1> QED
  BY <1>2, <1>3, <1>4
=============================================================================
