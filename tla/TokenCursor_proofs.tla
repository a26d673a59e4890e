------------------------- MODULE TokenCursor_proofs -------------------------
(***************************************************************************)
(* Lemmas about the token cursor (TokenCursor): what the recursive         *)
(* functions in it compute, and that every operation of the cursor         *)
(* collects each token that it passes, once and in its place.              *)
(***************************************************************************)
EXTENDS TokenCursor, SequenceTheorems, FiniteSetTheorems, WellFoundedInduction, TLAPS

-----------------------------------------------------------------------------
(* Induction and recursion over the natural numbers.  Sets stand for the   *)
(* predicates and functions for the steps.                                 *)

(* A set of numbers that is not empty has a least one. *)
LEMMA LeastNat ==
    ASSUME NEW T \in SUBSET Nat, T # {}
    PROVE  \E x \in T : \A y \in T : x <= y
  <1> DEFINE R == OpToRel(<, Nat)
  <1>1. IsWellFoundedOn(R, Nat)
    BY NatLessThanWellFounded
  <1>2. \A x, y \in Nat : <<y, x>> \in R <=> y < x
    BY DEF OpToRel
  <1> HIDE DEF R
  <1>3. PICK x \in T : \A y \in T : <<y, x>> \notin R
    BY <1>1, WFMin
  <1>4. \A y \in T : ~ (y < x)
    BY <1>2, <1>3
  <1> QED BY <1>4

(* Induction: a set with 0 and the successor of each of its numbers has    *)
(* all numbers.                                                            *)
LEMMA Induction ==
    ASSUME NEW S, 0 \in S, \A n \in Nat : n \in S => n + 1 \in S
    PROVE  Nat \subseteq S
  <1> SUFFICES ASSUME Nat \ S # {} PROVE FALSE
    OBVIOUS
  <1>1. PICK x \in Nat \ S : \A y \in Nat \ S : x <= y
    BY LeastNat, Nat \ S \in SUBSET Nat
  <1>2. x # 0 /\ x - 1 \in Nat /\ x - 1 \in S
    BY <1>1
  <1> QED BY <1>1, <1>2

Steps(S) == [Nat -> [S -> S]]
Recurs(f, S, base, step) ==
    /\ f \in [Nat -> S]
    /\ f[0] = base
    /\ \A n \in Nat : f[n + 1] = step[n + 1][f[n]]

(* Recursion: there is a function with a given value at 0 whose values     *)
(* follow from each other by given steps (Recurs); Begins says it of the   *)
(* values up to k.                                                         *)
Begins(f, k, S, base, step) ==
    /\ f \in [Nat -> S]
    /\ f[0] = base
    /\ \A n \in Nat : n < k => f[n + 1] = step[n + 1][f[n]]

(* What begins can be continued. *)
LEMMA BeginsStep ==
    ASSUME NEW S, NEW base \in S, NEW step \in [Nat -> [S -> S]], NEW k \in Nat,
           NEW g, Begins(g, k, S, base, step)
    PROVE  \E h : Begins(h, k + 1, S, base, step)
  <1> DEFINE next == step[k + 1][g[k]]
             h == [g EXCEPT ![k + 1] = next]
  <1>1. g \in [Nat -> S]
    BY DEF Begins
  <1>2. next \in S
    <2>1. step[k + 1] \in [S -> S]
      OBVIOUS
    <2>2. g[k] \in S
      BY <1>1
    <2> QED BY <2>1, <2>2
  <1> HIDE DEF next
  <1>3. h \in [Nat -> S] /\ h[0] = base
    BY <1>1, <1>2 DEF Begins
  <1>4. ASSUME NEW n \in Nat, n < k + 1 PROVE h[n + 1] = step[n + 1][h[n]]
    <2>1. h[n] = g[n]
      BY <1>1, <1>4
    <2>2. CASE n = k
      BY <2>1, <2>2, <1>1 DEF next
    <2>3. CASE n # k
      BY <2>1, <2>3, <1>1, <1>4 DEF Begins
    <2> QED BY <2>2, <2>3
  <1>5. Begins(h, k + 1, S, base, step)
    BY <1>3, <1>4 DEF Begins
  <1> QED BY <1>5

(* Functions that begin alike agree. *)
LEMMA BeginsAgree ==
    ASSUME NEW S, NEW base \in S, NEW step \in [Nat -> [S -> S]],
           NEW k \in Nat, NEW g, Begins(g, k, S, base, step),
           NEW l \in Nat, NEW h, Begins(h, l, S, base, step),
           NEW i \in Nat, i <= k, i <= l
    PROVE  g[i] = h[i]
  <1> DEFINE T == {n \in Nat : n <= k /\ n <= l => g[n] = h[n]}
  <1>1. 0 \in T
    BY DEF Begins
  <1>2. ASSUME NEW n \in Nat, n \in T PROVE n + 1 \in T
    BY <1>2 DEF Begins
  <1> HIDE DEF T
  <1>3. i \in T
    BY <1>1, <1>2, Induction
  <1> QED BY <1>3 DEF T

(* Such a function exists. *)
LEMMA Recursion ==
    ASSUME NEW S, NEW base \in S, NEW step \in Steps(S)
    PROVE  \E f : Recurs(f, S, base, step)
  <1>0. step \in [Nat -> [S -> S]]
    BY DEF Steps
  <1> DEFINE B(g, k) == Begins(g, k, S, base, step)
             T == {k \in Nat : \E g : B(g, k)}
             f == [n \in Nat |-> (CHOOSE g : B(g, n))[n]]
  <1>1. 0 \in T
    <2>1. B([n \in Nat |-> base], 0)
      BY DEF Begins
    <2> QED BY <2>1
  <1>2. ASSUME NEW k \in Nat, k \in T PROVE k + 1 \in T
    BY <1>0, <1>2, BeginsStep
  <1>3. ASSUME NEW n \in Nat PROVE \E g : B(g, n)
    <2> HIDE DEF T
    <2>1. n \in T
      BY <1>1, <1>2, Induction
    <2> QED BY <2>1 DEF T
  <1>4. ASSUME NEW n \in Nat, NEW g, B(g, n) PROVE f[n] = g[n]
    <2>1. B(CHOOSE h : B(h, n), n)
      BY <1>3
    <2> HIDE DEF B
    <2> QED BY <1>0, <2>1, <1>4, BeginsAgree DEF B
  <1> HIDE DEF f, B
  <1>5. ASSUME NEW n \in Nat PROVE f[n] \in S /\ f[n + 1] = step[n + 1][f[n]]
    <2>1. PICK g : B(g, n + 1)
      BY <1>3, n + 1 \in Nat
    <2>2. B(g, n) /\ g[n] \in S /\ g[n + 1] = step[n + 1][g[n]]
      BY <2>1 DEF B, Begins
    <2> QED BY <2>1, <2>2, <1>4
  <1>6. f[0] = base
    <2>1. PICK g : B(g, 0)
      BY <1>3
    <2> QED BY <2>1, <1>4 DEF B, Begins
  <1>7. f \in [Nat -> S]
    BY <1>5 DEF f
  <1>8. Recurs(f, S, base, step)
    BY <1>5, <1>6, <1>7 DEF Recurs
  <1> QED BY <1>8
StepsTo(m, S) == [1 .. m -> [S -> S]]
RecursTo(f, m, S, base, step) ==
    /\ f \in [0 .. m -> S]
    /\ f[0] = base
    /\ \A n \in 1 .. m : f[n] = step[n][f[n - 1]]

(* The same over the numbers up to a bound. *)
LEMMA BoundedRecursion ==
    ASSUME NEW m \in Nat, NEW S, NEW base \in S, NEW step \in StepsTo(m, S)
    PROVE  \E f : RecursTo(f, m, S, base, step)
  <1>0. step \in [1 .. m -> [S -> S]]
    BY DEF StepsTo
  <1>1. PICK all \in [Nat -> [S -> S]] : \A n \in 1 .. m : all[n] = step[n]
    <2> DEFINE all == [n \in Nat |-> IF n \in 1 .. m THEN step[n] ELSE [s \in S |-> s]]
    <2>1. all \in [Nat -> [S -> S]] /\ \A n \in 1 .. m : all[n] = step[n]
      BY <1>0
    <2> QED BY <2>1
  <1>2. PICK f : Recurs(f, S, base, all)
    BY Recursion DEF Steps
  <1> DEFINE g == [n \in 0 .. m |-> f[n]]
  <1>3. ASSUME NEW n \in 1 .. m PROVE f[n] = step[n][f[n - 1]]
    <2>1. n - 1 \in Nat /\ (n - 1) + 1 = n
      OBVIOUS
    <2> QED BY <2>1, <1>2, <1>1 DEF Recurs
  <1>4. g \in [0 .. m -> S] /\ g[0] = base
    BY <1>2 DEF Recurs
  <1>5. ASSUME NEW n \in 1 .. m PROVE g[n] = step[n][g[n - 1]]
    BY <1>3
  <1>6. RecursTo(g, m, S, base, step)
    BY <1>4, <1>5 DEF RecursTo
  <1> QED BY <1>6

-----------------------------------------------------------------------------
(* What the recursive functions of TokenCursor compute. *)

(* The width of the text up to a token. *)
LEMMA WidthsStep ==
    ASSUME NEW kinds \in Seq(Kinds)
    PROVE  /\ Widths(kinds) \in [0 .. Len(kinds) -> Nat]
           /\ Widths(kinds)[0] = 0
           /\ \A i \in 1 .. Len(kinds) :
                  Widths(kinds)[i] = Widths(kinds)[i - 1] + Width(kinds[i])
  <1> DEFINE m == Len(kinds)
             step == [i \in 1 .. m |-> [w \in Nat |-> w + Width(kinds[i])]]
  <1>0. m \in Nat
    OBVIOUS
  <1>1. step \in StepsTo(m, Nat)
    BY DEF Width, StepsTo
  <1>2. ASSUME NEW i \in 1 .. m, NEW w \in Nat PROVE step[i][w] = w + Width(kinds[i])
    OBVIOUS
  <1> HIDE DEF step
  <1>3. PICK f : RecursTo(f, m, Nat, 0, step)
    <2> HIDE DEF m
    <2> QED BY <1>0, <1>1, BoundedRecursion, 0 \in Nat
  <1>4. f \in [0 .. m -> Nat] /\ f[0] = 0
    BY <1>3 DEF RecursTo
  <1>5. ASSUME NEW i \in 1 .. m PROVE f[i] = f[i - 1] + Width(kinds[i])
    BY <1>2, <1>3, <1>4 DEF RecursTo
  <1>6. f = [i \in 0 .. m |-> IF i = 0 THEN 0 ELSE f[i - 1] + Width(kinds[i])]
    BY <1>4, <1>5
  <1> DEFINE W == Widths(kinds)
  <1>7. W = [i \in 0 .. m |-> IF i = 0 THEN 0 ELSE W[i - 1] + Width(kinds[i])]
    BY <1>6 DEF Widths
  <1> HIDE DEF W, m
  <1>8. W[0] = 0 /\ \A i \in 1 .. m : W[i] = W[i - 1] + Width(kinds[i])
    BY <1>0, <1>7
  <1> DEFINE T == {i \in Nat : i <= m => W[i] \in Nat}
  <1>9. 0 \in T
    BY <1>8
  <1>10. ASSUME NEW i \in Nat, i \in T PROVE i + 1 \in T
    BY <1>0, <1>8, <1>10 DEF Width
  <1> HIDE DEF T
  <1>11. Nat \subseteq T
    BY <1>9, <1>10, Induction
  <1>12. W \in [0 .. m -> Nat]
    <2>1. W = [i \in 0 .. m |-> W[i]]
      BY <1>7
    <2> QED BY <2>1, <1>11 DEF T
  <1> QED BY <1>8, <1>12 DEF W, m

(* Children that refer to the first n nodes, and a table in which each     *)
(* node refers to nodes before it.                                         *)
ReferTo(kids, n) == \A i \in 1 .. Len(kids) : IsToken(kids[i]) \/ kids[i].child \in 1 .. n
Linked(nodes) == \A i \in 1 .. Len(nodes) : ReferTo(nodes[i].kids, i - 1)

LEMMA TokenOrChild ==
    ASSUME NEW k \in Child
    PROVE  IF IsToken(k) THEN k \in Token ELSE k \in [child : Nat]
  BY DEF Child, Token, IsToken

LEMMA LeavesUnderType ==
    ASSUME NEW leaves \in Seq(Seq(Token)), NEW k \in Child,
           IsToken(k) \/ k.child \in 1 .. Len(leaves)
    PROVE  LeavesUnder(leaves, k) \in Seq(Token)
  <1>1. CASE IsToken(k)
    <2>1. k \in Token
      BY <1>1, TokenOrChild
    <2> QED BY <1>1, <2>1 DEF LeavesUnder
  <1>2. CASE ~ IsToken(k)
    BY <1>2, ElementOfSeq DEF LeavesUnder
  <1> QED BY <1>1, <1>2

(* The leaves up to a child. *)
LEMMA LeavesStep ==
    ASSUME NEW leaves \in Seq(Seq(Token)), NEW kids \in Seq(Child), ReferTo(kids, Len(leaves))
    PROVE  /\ LeavesUpTo(leaves, kids)[0] = <<>>
           /\ \A i \in 1 .. Len(kids) :
                  LeavesUpTo(leaves, kids)[i] =
                      LeavesUpTo(leaves, kids)[i - 1] \o LeavesUnder(leaves, kids[i])
           /\ \A i \in 0 .. Len(kids) : LeavesUpTo(leaves, kids)[i] \in Seq(Token)
  <1> DEFINE m == Len(kids)
             S == Seq(Token)
             none == <<>>
             join(s, i) == s \o LeavesUnder(leaves, kids[i])
             step == [i \in 1 .. m |-> [s \in S |-> join(s, i)]]
  <1>1. m \in Nat /\ none \in S
    OBVIOUS
  <1>2. ASSUME NEW i \in 1 .. m, NEW s \in S PROVE join(s, i) \in S
    <2>1. kids[i] \in Child
      BY ElementOfSeq
    <2>2. LeavesUnder(leaves, kids[i]) \in S
      BY <2>1, LeavesUnderType DEF ReferTo
    <2> QED BY <2>2, ConcatProperties
  <1> HIDE DEF m, S, none, join
  <1>3. step \in StepsTo(m, S)
    BY <1>2 DEF StepsTo
  <1>4. ASSUME NEW i \in 1 .. m, NEW s \in S PROVE step[i][s] = join(s, i)
    OBVIOUS
  <1> HIDE DEF step
  <1>5. PICK f : RecursTo(f, m, S, none, step)
    BY <1>1, <1>3, BoundedRecursion
  <1>6. f \in [0 .. m -> S] /\ f[0] = none
    BY <1>5 DEF RecursTo
  <1>7. ASSUME NEW i \in 1 .. m PROVE f[i] = join(f[i - 1], i)
    <2>1. f[i - 1] \in S
      BY <1>1, <1>6
    <2> QED BY <2>1, <1>4, <1>5 DEF RecursTo
  <1>8. f = [i \in 0 .. m |-> IF i = 0 THEN none ELSE join(f[i - 1], i)]
    BY <1>1, <1>6, <1>7
  <1> DEFINE L == LeavesUpTo(leaves, kids)
  <1>9. L = [i \in 0 .. m |-> IF i = 0 THEN none ELSE join(L[i - 1], i)]
    BY <1>8 DEF LeavesUpTo, m, none, join
  <1> HIDE DEF L
  <1>10. L[0] = none /\ \A i \in 1 .. m : L[i] = join(L[i - 1], i)
    BY <1>1, <1>9
  <1> DEFINE T == {i \in Nat : i <= m => L[i] \in S}
  <1>11. 0 \in T
    BY <1>1, <1>10
  <1>12. ASSUME NEW i \in Nat, i \in T PROVE i + 1 \in T
    BY <1>1, <1>2, <1>10, <1>12
  <1> HIDE DEF T
  <1>13. Nat \subseteq T
    BY <1>11, <1>12, Induction
  <1>14. \A i \in 0 .. m : L[i] \in S
    BY <1>1, <1>13 DEF T
  <1> QED BY <1>10, <1>14 DEF L, m, S, none, join

LEMMA LeavesOfType ==
    ASSUME NEW leaves \in Seq(Seq(Token)), NEW kids \in Seq(Child), ReferTo(kids, Len(leaves))
    PROVE  LeavesOf(leaves, kids) \in Seq(Token)
  <1>1. Len(kids) \in 0 .. Len(kids)
    OBVIOUS
  <1> QED BY <1>1, LeavesStep DEF LeavesOf

(* The leaves of the nodes up to a node: those of each come to those of    *)
(* the nodes before it.                                                    *)
LEMMA WithLeavesOfType ==
    ASSUME NEW leaves \in Seq(Seq(Token)), NEW n \in GreenNode, ReferTo(n.kids, Len(leaves))
    PROVE  /\ WithLeavesOf(leaves, n) \in Seq(Seq(Token))
           /\ Len(WithLeavesOf(leaves, n)) = Len(leaves) + 1
           /\ \A i \in 1 .. Len(leaves) : WithLeavesOf(leaves, n)[i] = leaves[i]
           /\ WithLeavesOf(leaves, n)[Len(leaves) + 1] = LeavesOf(leaves, n.kids)
  <1>1. LeavesOf(leaves, n.kids) \in Seq(Token)
    BY LeavesOfType DEF GreenNode
  <1> QED BY <1>1, AppendProperties DEF WithLeavesOf

LEMMA NodeLeavesStep ==
    ASSUME NEW nodes \in Seq(GreenNode), Linked(nodes)
    PROVE  /\ NodeLeavesUpTo(nodes)[0] = <<>>
           /\ \A i \in 1 .. Len(nodes) :
                  NodeLeavesUpTo(nodes)[i] = WithLeavesOf(NodeLeavesUpTo(nodes)[i - 1], nodes[i])
           /\ \A i \in 0 .. Len(nodes) :
                  /\ NodeLeavesUpTo(nodes)[i] \in Seq(Seq(Token))
                  /\ Len(NodeLeavesUpTo(nodes)[i]) = i
  <1> DEFINE m == Len(nodes)
             S == Seq(Seq(Token))
             none == <<>>
             with(s, i) == WithLeavesOf(s, nodes[i])
             long(s, i) == Len(s) = i
             step == [i \in 1 .. m |-> [s \in S |-> IF long(s, i - 1) THEN with(s, i) ELSE none]]
  <1>1. m \in Nat /\ none \in S /\ long(none, 0)
    OBVIOUS
  <1>2. ASSUME NEW i \in 1 .. m, NEW s \in S, long(s, i - 1)
        PROVE  with(s, i) \in S /\ long(with(s, i), i)
    <2>1. nodes[i] \in GreenNode /\ ReferTo(nodes[i].kids, Len(s))
      BY <1>2, ElementOfSeq DEF Linked
    <2> QED BY <1>2, <2>1, WithLeavesOfType
  <1> HIDE DEF m, S, none, with, long
  <1>3. step \in StepsTo(m, S)
    BY <1>1, <1>2 DEF StepsTo
  <1>4. ASSUME NEW i \in 1 .. m, NEW s \in S, long(s, i - 1) PROVE step[i][s] = with(s, i)
    BY <1>4
  <1> HIDE DEF step
  <1>5. PICK f : RecursTo(f, m, S, none, step)
    BY <1>1, <1>3, BoundedRecursion
  <1>6. f \in [0 .. m -> S] /\ f[0] = none /\ \A i \in 1 .. m : f[i] = step[i][f[i - 1]]
    BY <1>5 DEF RecursTo
  <1> DEFINE T == {i \in Nat : i <= m => long(f[i], i)}
  <1>7. 0 \in T
    BY <1>1, <1>6
  <1>8. ASSUME NEW i \in Nat, i \in T PROVE i + 1 \in T
    <2> SUFFICES ASSUME i + 1 <= m PROVE long(f[i + 1], i + 1)
      OBVIOUS
    <2>1. i + 1 \in 1 .. m /\ f[i] \in S /\ long(f[i], i)
      BY <1>1, <1>6, <1>8
    <2>2. f[i + 1] = with(f[i], i + 1)
      BY <2>1, <1>4, <1>6
    <2> QED BY <2>1, <2>2, <1>2
  <1> HIDE DEF T
  <1>9. Nat \subseteq T
    BY <1>7, <1>8, Induction
  <1>10. ASSUME NEW i \in 1 .. m PROVE f[i] = with(f[i - 1], i)
    <2>1. i - 1 \in 0 .. m /\ i - 1 \in Nat
      BY <1>1
    <2>2. f[i - 1] \in S /\ long(f[i - 1], i - 1)
      BY <2>1, <1>1, <1>6, <1>9 DEF T
    <2> QED BY <2>2, <1>4, <1>6
  <1>11. f = [i \in 0 .. m |-> IF i = 0 THEN none ELSE with(f[i - 1], i)]
    BY <1>1, <1>6, <1>10
  <1> DEFINE L == NodeLeavesUpTo(nodes)
  <1>12. L = [i \in 0 .. m |-> IF i = 0 THEN none ELSE with(L[i - 1], i)]
    BY <1>11 DEF NodeLeavesUpTo, m, none, with
  <1> HIDE DEF L
  <1>13. L[0] = none /\ \A i \in 1 .. m : L[i] = with(L[i - 1], i)
    BY <1>1, <1>12
  <1> DEFINE U == {i \in Nat : i <= m => L[i] \in S /\ long(L[i], i)}
  <1>14. 0 \in U
    BY <1>1, <1>13
  <1>15. ASSUME NEW i \in Nat, i \in U PROVE i + 1 \in U
    <2> SUFFICES ASSUME i + 1 <= m PROVE L[i + 1] \in S /\ long(L[i + 1], i + 1)
      OBVIOUS
    <2>1. i + 1 \in 1 .. m /\ L[i] \in S /\ long(L[i], i) /\ L[i + 1] = with(L[i], i + 1)
      BY <1>1, <1>13, <1>15
    <2> QED BY <2>1, <1>2
  <1> HIDE DEF U
  <1>16. Nat \subseteq U
    BY <1>14, <1>15, Induction
  <1>17. \A i \in 0 .. m : L[i] \in S /\ long(L[i], i)
    BY <1>1, <1>16 DEF U
  <1> QED BY <1>13, <1>17 DEF L, m, S, none, with, long

(* The children that two nodes begin with have the same leaves, also when  *)
(* more nodes are filled.                                                  *)
LEMMA LeavesAgree ==
    ASSUME NEW leaves \in Seq(Seq(Token)), NEW kids \in Seq(Child), ReferTo(kids, Len(leaves)),
           NEW more \in Seq(Seq(Token)), NEW all \in Seq(Child), ReferTo(all, Len(more)),
           Len(leaves) <= Len(more), \A i \in 1 .. Len(leaves) : more[i] = leaves[i],
           Len(kids) <= Len(all), \A i \in 1 .. Len(kids) : all[i] = kids[i]
    PROVE  LeavesUpTo(more, all)[Len(kids)] = LeavesOf(leaves, kids)
  <1> DEFINE m == Len(kids)
             K == LeavesUpTo(leaves, kids)
             A == LeavesUpTo(more, all)
             T == {i \in Nat : i <= m => A[i] = K[i]}
  <1>1. m \in Nat /\ Len(all) \in Nat /\ Len(leaves) \in Nat /\ Len(more) \in Nat
    OBVIOUS
  <1>2. 0 \in T
    BY LeavesStep
  <1>3. ASSUME NEW i \in 1 .. m PROVE LeavesUnder(more, all[i]) = LeavesUnder(leaves, kids[i])
    <2>1. all[i] = kids[i] /\ (IsToken(kids[i]) \/ kids[i].child \in 1 .. Len(leaves))
      BY DEF ReferTo
    <2> QED BY <2>1 DEF LeavesUnder
  <1>4. ASSUME NEW i \in Nat, i \in T PROVE i + 1 \in T
    <2> SUFFICES ASSUME i + 1 <= m PROVE A[i + 1] = K[i + 1]
      OBVIOUS
    <2>1. i + 1 \in 1 .. m /\ i + 1 \in 1 .. Len(all) /\ (i + 1) - 1 = i /\ A[i] = K[i]
      BY <1>1, <1>4
    <2> HIDE DEF A, K
    <2>2. A[i + 1] = A[i] \o LeavesUnder(more, all[i + 1])
      BY <2>1, LeavesStep DEF A
    <2>3. K[i + 1] = K[i] \o LeavesUnder(leaves, kids[i + 1])
      BY <2>1, LeavesStep DEF K
    <2> QED BY <2>1, <2>2, <2>3, <1>3
  <1> HIDE DEF T
  <1>5. Nat \subseteq T
    BY <1>2, <1>4, Induction
  <1> QED BY <1>1, <1>5 DEF T, LeavesOf

LEMMA LeavesOfMore ==
    ASSUME NEW leaves \in Seq(Seq(Token)), NEW kids \in Seq(Child), ReferTo(kids, Len(leaves)),
           NEW more \in Seq(Seq(Token)), Len(leaves) <= Len(more),
           \A i \in 1 .. Len(leaves) : more[i] = leaves[i]
    PROVE  LeavesOf(more, kids) = LeavesOf(leaves, kids)
  <1>1. ReferTo(kids, Len(more))
    BY DEF ReferTo
  <1>2. Len(kids) <= Len(kids)
    OBVIOUS
  <1> QED BY <1>1, <1>2, LeavesAgree DEF LeavesOf

(* The leaves of one more child come last. *)
LEMMA LeavesOfAppend ==
    ASSUME NEW leaves \in Seq(Seq(Token)), NEW kids \in Seq(Child), ReferTo(kids, Len(leaves)),
           NEW k \in Child, IsToken(k) \/ k.child \in 1 .. Len(leaves)
    PROVE  /\ Append(kids, k) \in Seq(Child)
           /\ ReferTo(Append(kids, k), Len(leaves))
           /\ LeavesOf(leaves, Append(kids, k)) = LeavesOf(leaves, kids) \o LeavesUnder(leaves, k)
  <1> DEFINE all == Append(kids, k)
             m == Len(kids)
  <1>1. /\ all \in Seq(Child) /\ Len(all) = m + 1 /\ all[m + 1] = k /\ m \in Nat
        /\ \A i \in 1 .. m : all[i] = kids[i]
    BY AppendProperties
  <1> HIDE DEF all, m
  <1>2. ReferTo(all, Len(leaves))
    BY <1>1 DEF ReferTo, m
  <1>3. LeavesUpTo(leaves, all)[m + 1] = LeavesUpTo(leaves, all)[m] \o LeavesUnder(leaves, k)
    <2>1. m + 1 \in 1 .. Len(all) /\ (m + 1) - 1 = m
      BY <1>1
    <2> QED BY <1>1, <1>2, <2>1, LeavesStep
  <1>4. LeavesUpTo(leaves, all)[m] = LeavesOf(leaves, kids)
    <2>1. Len(kids) <= Len(all) /\ Len(leaves) <= Len(leaves)
      BY <1>1 DEF m
    <2> QED BY <1>1, <1>2, <2>1, LeavesAgree DEF m
  <1> QED BY <1>1, <1>2, <1>3, <1>4 DEF all, LeavesOf

LEMMA ConcatNext ==
    ASSUME NEW S, NEW s \in Seq(S), NEW t \in Seq(S), NEW i \in Nat, i + 1 <= Len(t)
    PROVE  (s \o SubSeq(t, 1, i)) \o <<t[i + 1]>> = s \o SubSeq(t, 1, i + 1)
  <1> DEFINE before == SubSeq(t, 1, i)
             next == <<t[i + 1]>>
             upTo == SubSeq(t, 1, i + 1)
  <1>1. before \o next = upTo
    OBVIOUS
  <1>2. before \in Seq(S) /\ next \in Seq(S)
    BY SubSeqProperties
  <1> HIDE DEF before, next, upTo
  <1>3. (s \o before) \o next = s \o upTo
    <2>1. (s \o before) \o next = s \o (before \o next)
      BY <1>2, SMTT(30)
    <2> QED BY <1>1, <2>1, Zenon
  <1> QED BY <1>3, Zenon DEF before, next, upTo

(* Tokens that become children are leaves. *)
LEMMA LeavesOfTokens ==
    ASSUME NEW leaves \in Seq(Seq(Token)), NEW kids \in Seq(Child), ReferTo(kids, Len(leaves)),
           NEW tokens \in Seq(Token)
    PROVE  /\ kids \o tokens \in Seq(Child)
           /\ ReferTo(kids \o tokens, Len(leaves))
           /\ LeavesOf(leaves, kids \o tokens) = LeavesOf(leaves, kids) \o tokens
  <1> DEFINE all == kids \o tokens
             m == Len(kids)
             n == Len(tokens)
             A == LeavesUpTo(leaves, all)
             K == LeavesOf(leaves, kids)
             part(i) == K \o SubSeq(tokens, 1, i)
             T == {i \in Nat : i <= n => A[m + i] = part(i)}
  <1>1. /\ m \in Nat /\ n \in Nat /\ Len(all) = m + n
        /\ \A i \in 1 .. m : all[i] = kids[i]
        /\ \A i \in 1 .. n : all[m + i] = tokens[i] /\ tokens[i] \in Token
    BY ConcatProperties, ElementOfSeq
  <1>2. all \in Seq(Child)
    <2>1. tokens \in Seq(Child)
      <3>1. \A i \in 1 .. Len(tokens) : tokens[i] \in Child
        BY <1>1 DEF Child
      <3> QED BY <3>1
    <2> QED BY <2>1, ConcatProperties
  <1>3. \A t \in Token : IsToken(t)
    BY DEF Token, IsToken
  <1> HIDE DEF all, m, n
  <1>4. ReferTo(all, Len(leaves))
    <2> SUFFICES ASSUME NEW i \in 1 .. m + n
                 PROVE  IsToken(all[i]) \/ all[i].child \in 1 .. Len(leaves)
      BY <1>1 DEF ReferTo
    <2>1. CASE i <= m
      BY <1>1, <2>1 DEF ReferTo, m
    <2>2. CASE i > m
      <3>1. i - m \in 1 .. n /\ m + (i - m) = i
        BY <1>1, <2>2
      <3> QED BY <3>1, <1>1, <1>3
    <2> QED BY <1>1, <2>1, <2>2
  <1>5. K \in Seq(Token) /\ A[m] = K
    <2>1. Len(kids) <= Len(all) /\ Len(leaves) <= Len(leaves)
      BY <1>1 DEF m
    <2> QED BY <1>1, <1>2, <1>4, <2>1, LeavesAgree, LeavesOfType DEF m
  <1>6. \A i \in 1 .. m + n : A[i] = A[i - 1] \o LeavesUnder(leaves, all[i])
    BY <1>1, <1>2, <1>4, LeavesStep
  <1> HIDE DEF A, K
  <1>7. 0 \in T
    <2>1. SubSeq(tokens, 1, 0) = <<>>
      BY SubSeqEmpty
    <2> QED BY <1>1, <1>5, <2>1, ConcatEmptySeq
  <1> HIDE DEF part
  <1>8. ASSUME NEW i \in Nat, i \in T PROVE i + 1 \in T
    <2> SUFFICES ASSUME i + 1 <= n PROVE A[m + (i + 1)] = part(i + 1)
      OBVIOUS
    <2>1. i + 1 \in 1 .. n /\ m + (i + 1) \in 1 .. m + n /\ (m + (i + 1)) - 1 = m + i
      BY <1>1
    <2>2. LeavesUnder(leaves, all[m + (i + 1)]) = <<tokens[i + 1]>>
      BY <1>1, <1>3, <2>1 DEF LeavesUnder
    <2>3. A[m + (i + 1)] = A[m + i] \o <<tokens[i + 1]>>
      BY <1>6, <2>1, <2>2
    <2>4. A[m + i] = part(i)
      BY <1>1, <1>8
    <2>5. part(i) \o <<tokens[i + 1]>> = part(i + 1)
      BY <1>1, <1>5, ConcatNext DEF part, n
    <2> QED BY <2>3, <2>4, <2>5
  <1> HIDE DEF T
  <1>9. Nat \subseteq T
    BY <1>7, <1>8, Induction
  <1>10. A[m + n] = K \o tokens
    BY <1>1, <1>9, SMTT(30) DEF T, n, part
  <1> QED BY <1>1, <1>2, <1>4, <1>10, SMTT(30) DEF all, A, K, LeavesOf

(* The leaves of a node do not change when more nodes are filled. *)
LEMMA NodeLeavesType ==
    ASSUME NEW nodes \in Seq(GreenNode), Linked(nodes)
    PROVE  NodeLeaves(nodes) \in Seq(Seq(Token)) /\ Len(NodeLeaves(nodes)) = Len(nodes)
  <1>1. Len(nodes) \in 0 .. Len(nodes)
    OBVIOUS
  <1> QED BY <1>1, NodeLeavesStep DEF NodeLeaves

LEMMA NodeLeavesAgree ==
    ASSUME NEW nodes \in Seq(GreenNode), Linked(nodes), NEW more \in Seq(GreenNode), Linked(more),
           Len(nodes) <= Len(more), \A i \in 1 .. Len(nodes) : more[i] = nodes[i]
    PROVE  /\ NodeLeavesUpTo(more)[Len(nodes)] = NodeLeaves(nodes)
           /\ \A i \in 1 .. Len(nodes) : NodeLeaves(more)[i] = NodeLeaves(nodes)[i]
  <1> DEFINE m == Len(nodes)
             n == Len(more)
             N == NodeLeavesUpTo(nodes)
             M == NodeLeavesUpTo(more)
             T == {i \in Nat : i <= m => M[i] = N[i]}
             U == {i \in Nat : m + i <= n => \A j \in 1 .. m : M[m + i][j] = M[m][j]}
  <1>1. m \in Nat /\ n \in Nat
    OBVIOUS
  <1>2. M[0] = N[0]
    BY NodeLeavesStep
  <1>3. \A i \in 1 .. m : N[i] = WithLeavesOf(N[i - 1], nodes[i])
    BY NodeLeavesStep
  <1>4. \A i \in 1 .. n : M[i] = WithLeavesOf(M[i - 1], more[i])
    BY NodeLeavesStep
  <1>5. \A i \in 0 .. n : M[i] \in Seq(Seq(Token)) /\ Len(M[i]) = i
    BY NodeLeavesStep
  <1> HIDE DEF M, N
  <1>6. 0 \in T
    BY <1>2
  <1>7. ASSUME NEW i \in Nat, i \in T PROVE i + 1 \in T
    <2> SUFFICES ASSUME i + 1 <= m PROVE M[i + 1] = N[i + 1]
      OBVIOUS
    <2>1. i + 1 \in 1 .. m /\ i + 1 \in 1 .. n /\ (i + 1) - 1 = i /\ M[i] = N[i]
      BY <1>1, <1>7
    <2> QED BY <2>1, <1>3, <1>4
  <1> HIDE DEF T
  <1>8. Nat \subseteq T
    BY <1>6, <1>7, Induction
  <1>9. M[m] = N[m]
    BY <1>1, <1>8 DEF T
  <1>10. 0 \in U
    BY <1>1
  <1>11. ASSUME NEW i \in Nat, i \in U PROVE i + 1 \in U
    <2> SUFFICES ASSUME m + (i + 1) <= n, NEW j \in 1 .. m PROVE M[m + (i + 1)][j] = M[m][j]
      BY <1>1
    <2>1. /\ m + (i + 1) \in 1 .. n /\ (m + (i + 1)) - 1 = m + i /\ m + i \in 0 .. n
          /\ j \in 1 .. m + i /\ M[m + i][j] = M[m][j]
      BY <1>1, <1>11
    <2>2. M[m + (i + 1)] = WithLeavesOf(M[m + i], more[m + (i + 1)])
      BY <1>4, <2>1
    <2>3. M[m + i] \in Seq(Seq(Token)) /\ Len(M[m + i]) = m + i
      BY <1>5, <2>1
    <2>4. more[m + (i + 1)] \in GreenNode /\ ReferTo(more[m + (i + 1)].kids, m + i)
      BY <2>1, ElementOfSeq DEF Linked
    <2> DEFINE before == M[m + i]
               n1 == more[m + (i + 1)]
    <2> HIDE DEF before, n1
    <2>5. WithLeavesOf(before, n1)[j] = before[j]
      <3>1. /\ before \in Seq(Seq(Token)) /\ n1 \in GreenNode /\ ReferTo(n1.kids, Len(before))
            /\ j \in 1 .. Len(before)
        BY <2>1, <2>3, <2>4 DEF before, n1
      <3> QED BY <3>1, WithLeavesOfType
    <2>6. M[m + (i + 1)][j] = M[m + i][j]
      BY <2>2, <2>5 DEF before, n1
    <2> QED BY <2>1, <2>6
  <1> HIDE DEF U
  <1>12. Nat \subseteq U
    BY <1>10, <1>11, Induction
  <1>13. \A j \in 1 .. m : M[n][j] = M[m][j]
    <2>1. n - m \in Nat /\ m + (n - m) = n
      BY <1>1
    <2> QED BY <2>1, <1>12, <1>1 DEF U
  <1> QED BY <1>9, <1>13 DEF M, N, NodeLeaves

LEMMA NodeLeavesAppend ==
    ASSUME NEW nodes \in Seq(GreenNode), Linked(nodes), NEW n \in GreenNode, ReferTo(n.kids, Len(nodes))
    PROVE  /\ Append(nodes, n) \in Seq(GreenNode) /\ Linked(Append(nodes, n))
           /\ NodeLeaves(Append(nodes, n)) = WithLeavesOf(NodeLeaves(nodes), n)
  <1> DEFINE more == Append(nodes, n)
             m == Len(nodes)
  <1>1. /\ more \in Seq(GreenNode) /\ Len(more) = m + 1 /\ more[m + 1] = n /\ m \in Nat
        /\ \A i \in 1 .. m : more[i] = nodes[i]
    BY AppendProperties
  <1> HIDE DEF more
  <1>2. Linked(more)
    BY <1>1 DEF Linked
  <1>3. m + 1 \in 1 .. Len(more) /\ (m + 1) - 1 = m /\ m <= Len(more)
    BY <1>1
  <1>4. NodeLeavesUpTo(more)[m + 1] = WithLeavesOf(NodeLeavesUpTo(more)[m], n)
    BY <1>1, <1>2, <1>3, NodeLeavesStep
  <1>5. NodeLeavesUpTo(more)[m] = NodeLeaves(nodes)
    BY <1>1, <1>2, <1>3, NodeLeavesAgree
  <1> QED BY <1>1, <1>2, <1>4, <1>5 DEF NodeLeaves, more

-----------------------------------------------------------------------------
(* What every operation of the cursor keeps. *)

(* A parser between two operations: the cursor is at a token or behind the *)
(* last one, the end's, which there is one of, and the children refer to   *)
(* nodes that are filled.                                                  *)
Wellformed(r) ==
    /\ r \in Parser
    /\ r.at <= Len(r.toks) + 1
    /\ r.toks # <<>>
    /\ \A i \in 1 .. Len(r.toks) : r.toks[i].id = "end" <=> i = Len(r.toks)
    /\ ReferTo(r.kids, Len(r.nodes))
    /\ Linked(r.nodes)

(* From r to s the parser has passed tokens, and these have become leaves  *)
(* of its tree in their order; what was behind it in r has not changed.    *)
Continues(r, s) ==
    /\ Wellformed(r) /\ Wellformed(s)
    /\ r.at <= s.at
    /\ Len(r.toks) <= Len(s.toks) /\ \A i \in 1 .. r.at - 1 : s.toks[i] = r.toks[i]
    /\ Len(r.nodes) <= Len(s.nodes) /\ \A i \in 1 .. Len(r.nodes) : s.nodes[i] = r.nodes[i]
    /\ Leaves(s) = Leaves(r) \o SubSeq(s.toks, r.at, s.at - 1)

LEMMA LeavesType ==
    ASSUME NEW r, Wellformed(r)
    PROVE  /\ NodeLeaves(r.nodes) \in Seq(Seq(Token)) /\ Len(NodeLeaves(r.nodes)) = Len(r.nodes)
           /\ Leaves(r) \in Seq(Token)
  <1>1. r.nodes \in Seq(GreenNode) /\ r.kids \in Seq(Child)
    BY DEF Wellformed, Parser
  <1>2. NodeLeaves(r.nodes) \in Seq(Seq(Token)) /\ Len(NodeLeaves(r.nodes)) = Len(r.nodes)
    BY <1>1, NodeLeavesType DEF Wellformed
  <1> QED BY <1>1, <1>2, LeavesOfType DEF Wellformed, Leaves

(* The tokens of a part of the list. *)
LEMMA PassedType ==
    ASSUME NEW toks \in Seq(Token), NEW i \in Nat \ {0}, NEW j \in Nat \ {0}, j <= Len(toks) + 1
    PROVE  SubSeq(toks, i, j - 1) \in Seq(Token)
  <1>1. \A k \in i .. j - 1 : toks[k] \in Token
    BY ElementOfSeq
  <1> QED BY <1>1, SubSeqProperties

LEMMA PassedAgree ==
    ASSUME NEW toks \in Seq(Token), NEW more \in Seq(Token), NEW i \in Nat \ {0}, NEW j \in Nat \ {0},
           j <= Len(toks) + 1, j <= Len(more) + 1, \A k \in i .. j - 1 : more[k] = toks[k]
    PROVE  SubSeq(more, i, j - 1) = SubSeq(toks, i, j - 1)
  <1> DEFINE a == SubSeq(toks, i, j - 1)
             b == SubSeq(more, i, j - 1)
             n == IF i <= j - 1 THEN (j - 1) - i + 1 ELSE 0
  <1>1. a \in Seq(Token) /\ b \in Seq(Token)
    BY PassedType
  <1>2. Len(a) = n /\ \A k \in 1 .. (j - 1) - i + 1 : a[k] = toks[i + k - 1]
    <2>1. \A k \in i .. j - 1 : toks[k] \in Token
      BY ElementOfSeq
    <2> QED BY <2>1, SubSeqProperties
  <1>3. Len(b) = n /\ \A k \in 1 .. (j - 1) - i + 1 : b[k] = more[i + k - 1]
    <2>1. \A k \in i .. j - 1 : more[k] \in Token
      BY ElementOfSeq
    <2> QED BY <2>1, SubSeqProperties
  <1>4. ASSUME NEW k \in 1 .. n PROVE b[k] = a[k]
    <2>1. k \in 1 .. (j - 1) - i + 1 /\ i + k - 1 \in i .. j - 1
      OBVIOUS
    <2> QED BY <1>2, <1>3, <2>1
  <1> HIDE DEF a, b, n
  <1> QED BY <1>1, <1>2, <1>3, <1>4

LEMMA ContinuesReflexive ==
    ASSUME NEW r, Wellformed(r)
    PROVE  Continues(r, r)
  <1>1. SubSeq(r.toks, r.at, r.at - 1) = <<>>
    BY SubSeqEmpty DEF Wellformed, Parser
  <1>2. Leaves(r) = Leaves(r) \o SubSeq(r.toks, r.at, r.at - 1)
    BY <1>1, LeavesType, ConcatEmptySeq
  <1>3. r.at <= r.at /\ Len(r.toks) <= Len(r.toks) /\ Len(r.nodes) <= Len(r.nodes)
    BY DEF Wellformed, Parser
  <1> QED BY <1>2, <1>3 DEF Continues

LEMMA ContinuesPlaces ==
    ASSUME NEW r, NEW s, Continues(r, s)
    PROVE  r.at \in Nat /\ s.at \in Nat /\ 1 <= r.at /\ r.at <= s.at
  <1>1. r \in Parser /\ s \in Parser /\ r.at <= s.at
    BY Zenon DEF Continues, Wellformed
  <1>2. r.at \in Nat \ {0}
    BY <1>1 DEF Parser
  <1>3. s.at \in Nat \ {0}
    BY <1>1 DEF Parser
  <1> QED BY <1>1, <1>2, <1>3

LEMMA ContinuesTransitive ==
    ASSUME NEW r, NEW s, NEW t, Continues(r, s), Continues(s, t)
    PROVE  Continues(r, t)
  <1>1. /\ r.toks \in Seq(Token) /\ s.toks \in Seq(Token) /\ t.toks \in Seq(Token)
        /\ r.at \in Nat \ {0} /\ s.at \in Nat \ {0} /\ t.at \in Nat \ {0}
        /\ r.at <= s.at /\ s.at <= t.at /\ s.at <= Len(s.toks) + 1 /\ t.at <= Len(t.toks) + 1
        /\ r.at <= Len(r.toks) + 1
        /\ Len(r.toks) <= Len(s.toks) /\ Len(s.toks) <= Len(t.toks)
    BY DEF Continues, Wellformed, Parser
  <1> DEFINE a == Leaves(r)
             b == SubSeq(s.toks, r.at, s.at - 1)
             c == SubSeq(t.toks, s.at, t.at - 1)
             d == SubSeq(t.toks, r.at, t.at - 1)
  <1>2. b \in Seq(Token) /\ c \in Seq(Token) /\ a \in Seq(Token)
    BY <1>1, PassedType, LeavesType DEF Continues
  <1>3. b \o c = d
    <2>1. \A i \in r.at .. s.at - 1 : t.toks[i] = s.toks[i]
      BY <1>1 DEF Continues
    <2>2. SubSeq(t.toks, r.at, s.at - 1) = b
      <3>1. s.at <= Len(t.toks) + 1
        BY <1>1
      <3> QED BY <2>1, <3>1, <1>1, PassedAgree, SMTT(30)
    <2>3. SubSeq(t.toks, r.at, s.at - 1) \o SubSeq(t.toks, (s.at - 1) + 1, t.at - 1) = d
      <3> DEFINE n == Len(t.toks)
      <3>1. n \in Nat /\ t.at <= n + 1
        BY <1>1
      <3> HIDE DEF n
      <3>2. /\ r.at \in 1 .. n + 1 /\ s.at - 1 \in r.at - 1 .. n
            /\ t.at - 1 \in s.at - 1 .. n
        BY <1>1, <3>1, SMTT(30)
      <3>3. /\ r.at \in 1 .. Len(t.toks) + 1 /\ s.at - 1 \in r.at - 1 .. Len(t.toks)
            /\ t.at - 1 \in s.at - 1 .. Len(t.toks)
        BY <3>2, Zenon DEF n
      <3>4. t.toks \in Seq(Token)
        BY <1>1
      <3> QED BY <3>3, <3>4, ConcatAdjacentSubSeq, Zenon
    <2>4. (s.at - 1) + 1 = s.at
      BY <1>1
    <2> QED BY <2>2, <2>3, <2>4, Zenon
  <1>4. Leaves(t) = (a \o b) \o c
    BY DEF Continues
  <1> HIDE DEF a, b, c, d
  <1>5. (a \o b) \o c = a \o (b \o c)
    BY <1>2
  <1>6. Leaves(t) = a \o d
    BY <1>3, <1>4, <1>5, Zenon
  <1>7. \A i \in 1 .. r.at - 1 : t.toks[i] = r.toks[i]
    BY <1>1 DEF Continues
  <1>8. Len(r.nodes) <= Len(t.nodes) /\ \A i \in 1 .. Len(r.nodes) : t.nodes[i] = r.nodes[i]
    <2>1. /\ r.nodes \in Seq(GreenNode) /\ s.nodes \in Seq(GreenNode) /\ t.nodes \in Seq(GreenNode)
          /\ Len(r.nodes) <= Len(s.nodes) /\ Len(s.nodes) <= Len(t.nodes)
      BY DEF Continues, Wellformed, Parser
    <2> QED BY <2>1 DEF Continues
  <1>9. r.at <= t.at /\ Len(r.toks) <= Len(t.toks)
    BY <1>1
  <1>10. Wellformed(r) /\ Wellformed(t)
    BY Zenon DEF Continues
  <1> QED BY <1>6, <1>7, <1>8, <1>9, <1>10 DEF Continues, a, d

(* A parser whose children have become longer by the tokens that it has    *)
(* passed.                                                                 *)
LEMMA Passing ==
    ASSUME NEW r, Wellformed(r), NEW s \in Parser,
           s.toks = r.toks, s.nodes = r.nodes, r.at <= s.at, s.at <= Len(r.toks) + 1,
           s.kids = r.kids \o SubSeq(r.toks, r.at, s.at - 1)
    PROVE  Continues(r, s)
  <1>1. r.kids \in Seq(Child) /\ r.toks \in Seq(Token) /\ r.at \in Nat \ {0} /\ s.at \in Nat \ {0}
    BY DEF Wellformed, Parser
  <1> DEFINE passed == SubSeq(r.toks, r.at, s.at - 1)
             leaves == NodeLeaves(r.nodes)
  <1>2. passed \in Seq(Token)
    BY <1>1, PassedType
  <1>3. leaves \in Seq(Seq(Token)) /\ Len(leaves) = Len(r.nodes) /\ ReferTo(r.kids, Len(leaves))
    BY LeavesType DEF Wellformed
  <1> HIDE DEF passed, leaves
  <1>4. /\ ReferTo(r.kids \o passed, Len(leaves))
        /\ LeavesOf(leaves, r.kids \o passed) = LeavesOf(leaves, r.kids) \o passed
    BY <1>1, <1>2, <1>3, LeavesOfTokens
  <1>5. Leaves(s) = Leaves(r) \o SubSeq(s.toks, r.at, s.at - 1)
    BY <1>4 DEF Leaves, leaves, passed
  <1>6. Wellformed(s)
    BY <1>3, <1>4 DEF Wellformed, leaves, passed
  <1>7. Len(r.toks) <= Len(s.toks) /\ Len(r.nodes) <= Len(s.nodes)
    BY DEF Wellformed, Parser
  <1> QED BY <1>5, <1>6, <1>7 DEF Continues

(* Where the tree and the cursor do not change. *)
LEMMA Staying ==
    ASSUME NEW r, Wellformed(r), NEW s \in Parser,
           s.toks = r.toks, s.nodes = r.nodes, s.at = r.at, s.kids = r.kids
    PROVE  Continues(r, s)
  <1>1. SubSeq(r.toks, r.at, s.at - 1) = <<>>
    BY SubSeqEmpty DEF Wellformed, Parser
  <1>2. s.kids = r.kids \o SubSeq(r.toks, r.at, s.at - 1)
    <2>1. r.kids \o <<>> = r.kids
      BY ConcatEmptySeq DEF Wellformed, Parser
    <2> QED BY <1>1, <2>1
  <1>3. r.at <= s.at /\ s.at <= Len(r.toks) + 1
    BY DEF Wellformed, Parser
  <1> QED BY <1>2, <1>3, Passing

LEMMA WellformedType ==
    ASSUME NEW r, Wellformed(r)
    PROVE  /\ r \in Parser
           /\ r.toks \in Seq(Token) /\ Len(r.toks) \in Nat \ {0}
           /\ r.at \in 1 .. Len(r.toks) + 1 /\ r.at \in Nat \ {0}
           /\ r.errors \in Seq(Errors) /\ r.err \in Errors \cup {"none", "endless"} /\ r.node \in NodeKinds
           /\ r.kids \in Seq(Child) /\ r.nodes \in Seq(GreenNode)
  <1>1. /\ r \in Parser /\ r.toks \in Seq(Token) /\ r.toks # <<>> /\ r.at \in Nat \ {0}
        /\ r.at <= Len(r.toks) + 1
    BY DEF Wellformed, Parser
  <1>2. Len(r.toks) \in Nat \ {0}
    BY <1>1, EmptySeq
  <1> QED BY <1>1, <1>2 DEF Parser

(* Errors and the kind of the node do not move the cursor. *)
LEMMA FailContinues ==
    ASSUME NEW r, NEW q, Continues(r, q), NEW e \in Errors \cup {"endless"}
    PROVE  Continues(r, Fail(q, e))
  <1>1. Wellformed(q)
    BY DEF Continues
  <1>2. [q EXCEPT !.err = e] \in Parser
    BY <1>1 DEF Wellformed, Parser
  <1>3. Continues(q, [q EXCEPT !.err = e])
    BY <1>1, <1>2, Staying DEF Parser
  <1> QED BY <1>3, ContinuesTransitive DEF Fail

LEMMA ReportContinues ==
    ASSUME NEW r, NEW q, Continues(r, q), NEW e \in Errors
    PROVE  Continues(r, Report(q, e))
  <1>1. Wellformed(q)
    BY DEF Continues
  <1>2. Append(q.errors, e) \in Seq(Errors)
    BY <1>1, WellformedType, AppendProperties
  <1>3. [q EXCEPT !.errors = Append(@, e)] \in Parser
    BY <1>1, <1>2 DEF Wellformed, Parser
  <1>4. Continues(q, [q EXCEPT !.errors = Append(@, e)])
    BY <1>1, <1>3, Staying DEF Parser
  <1> QED BY <1>4, ContinuesTransitive DEF Report

LEMMA NotedContinues ==
    ASSUME NEW r, NEW q, Continues(r, q)
    PROVE  Continues(r, Noted(q))
  <1> SUFFICES ASSUME q.err \notin {"none", "endless"}
               PROVE  Continues(r, [q EXCEPT !.errors = Append(@, q.err), !.err = "none"])
    BY DEF Noted
  <1>1. Wellformed(q)
    BY DEF Continues
  <1>2. Append(q.errors, q.err) \in Seq(Errors)
    BY <1>1, WellformedType, AppendProperties
  <1>3. [q EXCEPT !.errors = Append(@, q.err), !.err = "none"] \in Parser
    BY <1>1, <1>2 DEF Wellformed, Parser
  <1>4. Continues(q, [q EXCEPT !.errors = Append(@, q.err), !.err = "none"])
    BY <1>1, <1>3, Staying DEF Parser
  <1> QED BY <1>4, ContinuesTransitive

LEMMA AsContinues ==
    ASSUME NEW r, NEW q, Continues(r, q), NEW kind \in NodeKinds
    PROVE  Continues(r, As(q, kind))
  <1>1. Wellformed(q)
    BY DEF Continues
  <1>2. [q EXCEPT !.node = kind] \in Parser
    BY <1>1 DEF Wellformed, Parser
  <1>3. Continues(q, [q EXCEPT !.node = kind])
    BY <1>1, <1>2, Staying DEF Parser
  <1> QED BY <1>3, ContinuesTransitive DEF As

LEMMA TurnContinues ==
    ASSUME NEW r, NEW q, NEW s, Continues(r, s)
    PROVE  Continues(r, Turn(q, s))
  <1>1. Wellformed(s)
    BY DEF Continues
  <1>2. [s EXCEPT !.err = "endless"] \in Parser
    BY <1>1 DEF Wellformed, Parser
  <1>3. Continues(s, [s EXCEPT !.err = "endless"])
    BY <1>1, <1>2, Staying DEF Parser
  <1> QED BY <1>3, ContinuesTransitive DEF Turn

(* The next token that is no trivia: there is one unless the cursor is     *)
(* behind the end's.                                                       *)
LEMMA SolidNext ==
    ASSUME NEW r, Wellformed(r)
    PROVE  /\ Solid(r) = 0 <=> r.at = Len(r.toks) + 1
           /\ Solid(r) # 0 => /\ Solid(r) \in r.at .. Len(r.toks)
                              /\ r.toks[Solid(r)].id \notin Trivia
                              /\ Peek(r) = r.toks[Solid(r)].id
                              /\ \A j \in r.at .. Solid(r) - 1 : r.toks[j].id \in Trivia
  <1> DEFINE n == Len(r.toks)
             S == {i \in r.at .. n : r.toks[i].id \notin Trivia}
             solid == CHOOSE i \in S : \A j \in S : i <= j
  <1>1. n \in Nat \ {0} /\ r.at \in 1 .. n + 1
    BY WellformedType
  <1>2. Solid(r) = IF S = {} THEN 0 ELSE solid
    BY DEF Solid
  <1>3. CASE r.at = n + 1
    <2>1. S = {}
      BY <1>1, <1>3
    <2> QED BY <1>2, <1>3, <2>1
  <1>4. CASE r.at # n + 1
    <2>1. n \in S
      <3>1. r.toks[n].id = "end"
        BY <1>1 DEF Wellformed
      <3> QED BY <1>1, <1>4, <3>1 DEF Trivia
    <2>2. S \in SUBSET Nat /\ S # {}
      BY <1>1, <2>1
    <2>3. \E i \in S : \A j \in S : i <= j
      <3> HIDE DEF S
      <3> QED BY <2>2, LeastNat
    <2>4. solid \in S /\ \A j \in S : solid <= j
      <3> HIDE DEF S
      <3> QED BY <2>3
    <2> HIDE DEF solid
    <2>5. Solid(r) = solid
      BY <1>2, <2>1
    <2>6. solid \in r.at .. n /\ solid # 0 /\ r.toks[solid].id \notin Trivia
      BY <1>1, <2>4
    <2>7. \A j \in r.at .. solid - 1 : r.toks[j].id \in Trivia
      BY <1>1, <2>4, <2>6
    <2> QED BY <1>4, <2>5, <2>6, <2>7 DEF Peek
  <1> QED BY <1>3, <1>4

LEMMA SkipToContinues ==
    ASSUME NEW r, NEW q, Continues(r, q), NEW next \in q.at .. Len(q.toks) + 1
    PROVE  Continues(r, SkipTo(q, next))
  <1>1. Wellformed(q)
    BY DEF Continues
  <1>2. next \in Nat \ {0} /\ q.at <= next /\ next <= Len(q.toks) + 1
    BY <1>1, WellformedType
  <1> DEFINE passed == SubSeq(q.toks, q.at, next - 1)
             s == SkipTo(q, next)
  <1>3. passed \in Seq(Token)
    BY <1>1, <1>2, WellformedType, PassedType
  <1>4. q.kids \o passed \in Seq(Child)
    <2>1. NodeLeaves(q.nodes) \in Seq(Seq(Token)) /\ ReferTo(q.kids, Len(NodeLeaves(q.nodes)))
      BY <1>1, LeavesType DEF Wellformed
    <2> HIDE DEF passed
    <2> QED BY <1>1, <1>3, <2>1, WellformedType, LeavesOfTokens
  <1>5. s \in Parser /\ s.toks = q.toks /\ s.nodes = q.nodes /\ s.at = next
        /\ s.kids = q.kids \o passed
    <2> HIDE DEF passed
    <2>1. s = [q EXCEPT !.kids = q.kids \o passed, !.at = next]
      BY DEF SkipTo, passed
    <2> QED BY <1>1, <1>2, <1>4, <2>1 DEF Wellformed, Parser
  <1> HIDE DEF s
  <1>6. Continues(q, s)
    BY <1>1, <1>2, <1>5, Passing
  <1> QED BY <1>6, ContinuesTransitive DEF s

(* to_next_token, collect_token and what is made of them. *)
LEMMA ToNextTokenContinues ==
    ASSUME NEW r, NEW q, Continues(r, q)
    PROVE  Continues(r, ToNextToken(q))
  <1>1. Wellformed(q)
    BY DEF Continues
  <1>2. /\ Len(q.toks) + 1 \in q.at .. Len(q.toks) + 1
        /\ Solid(q) # 0 => Solid(q) \in q.at .. Len(q.toks) + 1
    BY <1>1, SolidNext, WellformedType
  <1>3. CASE ~ Ok(q)
    BY <1>3 DEF ToNextToken
  <1>4. CASE Ok(q) /\ Solid(q) = 0
    <2>1. Continues(r, SkipTo(q, Len(q.toks) + 1))
      BY <1>2, SkipToContinues
    <2>2. Continues(r, Fail(SkipTo(q, Len(q.toks) + 1), "ExpectingMoreTokens"))
      BY <2>1, FailContinues DEF Errors
    <2> QED BY <1>4, <2>2 DEF ToNextToken
  <1>5. CASE Ok(q) /\ Solid(q) # 0
    BY <1>2, <1>5, SkipToContinues DEF ToNextToken
  <1> QED BY <1>3, <1>4, <1>5, Zenon

LEMMA CollectContinues ==
    ASSUME NEW r, NEW q, Continues(r, q)
    PROVE  Continues(r, Collect(q))
  <1>1. Wellformed(q)
    BY DEF Continues
  <1>2. CASE ~ Ok(q)
    BY <1>2 DEF Collect
  <1>3. CASE Ok(q) /\ q.at > Len(q.toks)
    <2>1. Continues(r, Fail(q, "ExpectingMoreTokens"))
      BY FailContinues DEF Errors
    <2> QED BY <1>3, <2>1 DEF Collect
  <1>4. CASE Ok(q) /\ ~ (q.at > Len(q.toks))
    <2>1. q.toks \in Seq(Token) /\ q.at \in 1 .. Len(q.toks) /\ q.kids \in Seq(Child)
      BY <1>1, <1>4, WellformedType
    <2>2. q.toks[q.at] \in Token
      BY <2>1, ElementOfSeq
    <2>3. SubSeq(q.toks, q.at, q.at) = <<q.toks[q.at]>>
      <3> DEFINE t == SubSeq(q.toks, q.at, q.at)
      <3>1. \A k \in q.at .. q.at : q.toks[k] \in Token
        BY <2>1, <2>2
      <3>2. t \in Seq(Token) /\ Len(t) = 1 /\ t[1] = q.toks[q.at]
        BY <2>1, <3>1, SubSeqProperties
      <3> HIDE DEF t
      <3>3. t = <<q.toks[q.at]>>
        BY <3>2, <2>2
      <3> QED BY <3>3 DEF t
    <2>4. Append(q.kids, q.toks[q.at]) = q.kids \o <<q.toks[q.at]>>
      BY <2>1, <2>2, AppendIsConcat DEF Child
    <2>5. Collect(q) = SkipTo(q, q.at + 1)
      <3>1. (q.at + 1) - 1 = q.at
        BY <2>1
      <3> QED BY <1>4, <2>3, <2>4, <3>1 DEF Collect, SkipTo
    <2>6. q.at + 1 \in q.at .. Len(q.toks) + 1
      BY <2>1
    <2> QED BY <2>5, <2>6, SkipToContinues
  <1> QED BY <1>2, <1>3, <1>4, Zenon

LEMMA TakeContinues ==
    ASSUME NEW r, NEW q, Continues(r, q)
    PROVE  Continues(r, Take(q))
  BY ToNextTokenContinues, CollectContinues DEF Take

LEMMA OptionalContinues ==
    ASSUME NEW r, NEW q, Continues(r, q), NEW kinds
    PROVE  Continues(r, Optional(q, kinds))
  BY TakeContinues DEF Optional

LEMMA OptionalsContinues ==
    ASSUME NEW r, NEW q, Continues(r, q), NEW first, NEW second, NEW third
    PROVE  Continues(r, Optionals(q, first, second, third))
  BY OptionalContinues DEF Optionals

LEMMA ExpectContinues ==
    ASSUME NEW r, NEW q, Continues(r, q), NEW kind
    PROVE  Continues(r, Expect(q, kind))
  <1> DEFINE s == ToNextToken(q)
  <1>1. Continues(r, s)
    BY ToNextTokenContinues
  <1>2. Expect(q, kind) = IF Ok(s) THEN IF Peek(s) = kind THEN Collect(s)
                                        ELSE Fail(s, "ExpectingSingleToken")
                          ELSE s
    BY DEF Expect, Then
  <1>3. Continues(r, Collect(s)) /\ Continues(r, Fail(s, "ExpectingSingleToken"))
    BY <1>1, CollectContinues, FailContinues DEF Errors
  <1> QED BY <1>1, <1>2, <1>3

(* split_shr_op_token and split_rdbrackets_token: the list gets longer by  *)
(* one token, behind the cursor and before the end's.                      *)
InsertedAt(longer, toks, i, t) ==
    /\ longer \in Seq(Token)
    /\ Len(longer) = Len(toks) + 1
    /\ \A j \in 1 .. Len(toks) + 1 :
           longer[j] = IF j < i THEN toks[j] ELSE IF j = i THEN t ELSE toks[j - 1]

LEMMA InsertAtType ==
    ASSUME NEW toks \in Seq(Token), NEW i \in 1 .. Len(toks) + 1, NEW t \in Token
    PROVE  InsertedAt(InsertAt(toks, i, t), toks, i, t)
  <1> DEFINE n == Len(toks)
             a == SubSeq(toks, 1, i - 1)
             b == <<t>>
             c == SubSeq(toks, i, n)
             ab == a \o b
  <1>1. n \in Nat /\ i \in Int /\ \A k \in 1 .. n : toks[k] \in Token
    BY ElementOfSeq
  <1>2. a \in Seq(Token) /\ Len(a) = i - 1 /\ \A j \in 1 .. i - 1 : a[j] = toks[j]
    <2>1. \A k \in 1 .. i - 1 : toks[k] \in Token
      BY <1>1
    <2> QED BY <2>1, <1>1, SubSeqProperties
  <1>3. b \in Seq(Token) /\ Len(b) = 1 /\ b[1] = t
    OBVIOUS
  <1>4. c \in Seq(Token) /\ Len(c) = n - i + 1 /\ \A j \in 1 .. n - i + 1 : c[j] = toks[i + j - 1]
    <2>1. \A k \in i .. n : toks[k] \in Token
      BY <1>1
    <2> QED BY <2>1, <1>1, SubSeqProperties
  <1> HIDE DEF a, b, c
  <1>5. /\ ab \in Seq(Token) /\ Len(ab) = i
        /\ \A j \in 1 .. i : ab[j] = IF j < i THEN toks[j] ELSE t
    <2>0. Len(ab) = Len(a) + Len(b) /\ ab \in Seq(Token)
      BY <1>2, <1>3, ConcatProperties
    <2>1. ab \in Seq(Token) /\ Len(ab) = i
      BY <1>2, <1>3, <2>0
    <2>2. \A j \in 1 .. (i - 1) + 1 : ab[j] = IF j <= i - 1 THEN a[j] ELSE b[j - (i - 1)]
      <3>1. \A j \in 1 .. Len(a) + Len(b) : ab[j] = IF j <= Len(a) THEN a[j] ELSE b[j - Len(a)]
        <4>1. a \in Seq(Token) /\ b \in Seq(Token)
          BY <1>2, <1>3
        <4> QED BY <4>1, ConcatProperties
      <3>2. Len(a) = i - 1 /\ Len(b) = 1
        BY <1>2, <1>3
      <3> QED BY <3>1, <3>2
    <2> HIDE DEF ab
    <2> QED BY <1>2, <1>3, <2>1, <2>2
  <1> HIDE DEF ab
  <1> DEFINE abc == ab \o c
  <1>6. abc \in Seq(Token) /\ Len(abc) = i + (n - i + 1)
    <2>1. abc \in Seq(Token) /\ Len(abc) = Len(ab) + Len(c)
      BY <1>4, <1>5, ConcatProperties
    <2> QED BY <1>4, <1>5, <2>1
  <1>7. \A j \in 1 .. i + (n - i + 1) : abc[j] = IF j <= i THEN ab[j] ELSE c[j - i]
    <2>1. \A j \in 1 .. Len(ab) + Len(c) : abc[j] = IF j <= Len(ab) THEN ab[j] ELSE c[j - Len(ab)]
      <3>1. ab \in Seq(Token) /\ c \in Seq(Token)
        BY <1>4, <1>5
      <3> QED BY <3>1, ConcatProperties
    <2>2. Len(ab) = i /\ Len(c) = n - i + 1
      BY <1>4, <1>5
    <2> QED BY <2>1, <2>2
  <1>8. InsertAt(toks, i, t) = abc
    BY Zenon DEF InsertAt, ab, a, b, c, n
  <1> HIDE DEF abc
  <1>9. Len(abc) = n + 1
    BY <1>1, <1>6
  <1>10. ASSUME NEW j \in 1 .. n + 1
         PROVE  abc[j] = IF j < i THEN toks[j] ELSE IF j = i THEN t ELSE toks[j - 1]
    <2>1. abc[j] = IF j <= i THEN ab[j] ELSE c[j - i]
      BY <1>1, <1>7
    <2>2. CASE j <= i
      BY <2>1, <2>2, <1>1, <1>5
    <2>3. CASE j > i
      <3>1. j - i \in 1 .. n - i + 1 /\ i + (j - i) - 1 = j - 1
        BY <1>1, <2>3
      <3>2. c[j - i] = toks[j - 1]
        BY <1>4, <3>1
      <3> QED BY <2>1, <2>3, <3>2, <1>1
    <2> QED BY <2>2, <2>3, <1>1
  <1> QED BY <1>6, <1>8, <1>9, <1>10 DEF n, InsertedAt

LEMMA SplitContinues ==
    ASSUME NEW r, NEW q, Continues(r, q), NEW double \in Kinds \ {"end"}, NEW single \in Kinds \ {"end"}
    PROVE  Continues(r, Split(q, double, single))
  <1>1. Wellformed(q)
    BY DEF Continues
  <1> SUFFICES ASSUME Ok(q), Solid(q) # 0, Peek(q) = double
               PROVE  Continues(r, Split(q, double, single))
    BY DEF Split
  <1> DEFINE n == Len(q.toks)
             p == Solid(q)
             first == [q.toks[p] EXCEPT !.id = single, !.width = 1]
             second == [id |-> single, from |-> first.from + 1, width |-> 0]
             cut == [q.toks EXCEPT ![p] = first]
             toks == InsertAt(cut, q.at + 1, second)
             s == [q EXCEPT !.toks = toks]
  <1>2. /\ q.toks \in Seq(Token) /\ n \in Nat \ {0} /\ q.at \in 1 .. n + 1
        /\ p \in q.at .. n /\ q.toks[p].id = double
    BY <1>1, WellformedType, SolidNext
  <1>3. p < n /\ q.at + 1 \in 1 .. n + 1
    BY <1>1, <1>2 DEF Wellformed
  <1>4. first \in Token /\ first.id = single
    <2>1. q.toks[p] \in Token
      BY <1>2, ElementOfSeq
    <2> QED BY <2>1 DEF Token
  <1> HIDE DEF first
  <1>5. second \in Token /\ second.id = single
    BY <1>4 DEF Token
  <1> HIDE DEF second
  <1>6. cut \in Seq(Token) /\ Len(cut) = n /\ \A i \in 1 .. n : cut[i] = IF i = p THEN first ELSE q.toks[i]
    BY <1>2, <1>4
  <1> HIDE DEF cut, n, p
  <1>7. /\ toks \in Seq(Token) /\ Len(toks) = n + 1
        /\ \A j \in 1 .. n + 1 : toks[j] = IF j < q.at + 1 THEN cut[j]
                                           ELSE IF j = q.at + 1 THEN second ELSE cut[j - 1]
    <2>1. q.at + 1 \in 1 .. Len(cut) + 1
      BY <1>3, <1>6
    <2>2. cut \in Seq(Token)
      BY <1>6
    <2>3. InsertedAt(toks, cut, q.at + 1, second)
      BY <1>5, <2>1, <2>2, InsertAtType, Zenon
    <2> HIDE DEF toks
    <2> QED BY <1>6, <2>3 DEF InsertedAt
  <1>8. Split(q, double, single) = s
    BY Zenon DEF Split, toks, cut, first, second, p
  <1> HIDE DEF toks
  <1>9. /\ s \in Parser /\ s.toks = toks /\ s.at = q.at /\ s.kids = q.kids /\ s.nodes = q.nodes
    BY <1>1, <1>7 DEF Wellformed, Parser
  <1>10. \A i \in 1 .. n + 1 : toks[i].id = "end" <=> i = n + 1
    <2>1. \A i \in 1 .. n : cut[i].id = "end" <=> i = n
      BY <1>1, <1>2, <1>3, <1>4, <1>6 DEF Wellformed, n
    <2> SUFFICES ASSUME NEW i \in 1 .. n + 1 PROVE toks[i].id = "end" <=> i = n + 1
      OBVIOUS
    <2>2. CASE i < q.at + 1
      <3>1. i \in 1 .. n /\ i # n /\ i # n + 1
        BY <2>2, <1>2, <1>3
      <3>2. toks[i] = cut[i]
        BY <1>7, <2>2
      <3> QED BY <3>1, <3>2, <2>1
    <2>3. CASE i = q.at + 1
      <3>1. i # n + 1
        BY <2>3, <1>2, <1>3
      <3> QED BY <3>1, <2>3, <1>2, <1>5, <1>7
    <2>4. CASE i > q.at + 1
      <3>1. i - 1 \in 1 .. n /\ toks[i] = cut[i - 1]
        BY <2>4, <1>2, <1>7
      <3> QED BY <3>1, <2>1, <1>2
    <2> QED BY <2>2, <2>3, <2>4, <1>2
  <1>11. \A i \in 1 .. q.at - 1 : toks[i] = q.toks[i]
    BY <1>2, <1>3, <1>6, <1>7
  <1>12. Wellformed(s)
    <2>1. s.at <= Len(s.toks) + 1 /\ s.toks # <<>>
      BY <1>2, <1>7, <1>9, EmptySeq
    <2> HIDE DEF s
    <2> QED BY <1>1, <1>7, <1>9, <1>10, <2>1 DEF Wellformed
  <1>13. Leaves(s) = Leaves(q) /\ Leaves(q) \in Seq(Token)
    BY <1>1, <1>9, LeavesType DEF Leaves
  <1>14. SubSeq(s.toks, q.at, s.at - 1) = <<>>
    BY <1>2, <1>9, SubSeqEmpty
  <1>15. Leaves(s) = Leaves(q) \o SubSeq(s.toks, q.at, s.at - 1)
    BY <1>13, <1>14, ConcatEmptySeq
  <1>16. /\ q.at <= s.at /\ Len(q.toks) <= Len(s.toks) /\ Len(q.nodes) <= Len(s.nodes)
    <2>1. q.nodes \in Seq(GreenNode)
      BY <1>1, WellformedType
    <2> HIDE DEF s
    <2> QED BY <1>2, <1>7, <1>9, <2>1 DEF n
  <1>17. Continues(q, s)
    <2> HIDE DEF s
    <2> QED BY <1>1, <1>9, <1>11, <1>12, <1>15, <1>16 DEF Continues
  <1> QED BY <1>8, <1>17, ContinuesTransitive

LEMMA SplitsContinue ==
    ASSUME NEW r, NEW q, Continues(r, q)
    PROVE  Continues(r, SplitShr(q)) /\ Continues(r, SplitRDBrackets(q))
  <1>1. ">>" \in Kinds \ {"end"} /\ ">" \in Kinds \ {"end"}
        /\ "]]" \in Kinds \ {"end"} /\ "]" \in Kinds \ {"end"}
    BY DEF Kinds, Wide
  <1> QED BY <1>1, SplitContinues DEF SplitShr, SplitRDBrackets

(* A node is filled: what it has under it becomes the leaves of the child  *)
(* that refers to it, which comes last.                                    *)
LEMMA FilledType ==
    ASSUME NEW r, Wellformed(r)
    PROVE  Filled(r) \in GreenNode /\ Filled(r).kids = r.kids /\ ReferTo(Filled(r).kids, Len(r.nodes))
  BY DEF Wellformed, Parser, Filled, GreenNode

LEMMA FilledLeaves ==
    ASSUME NEW r, Wellformed(r)
    PROVE  /\ Append(r.nodes, Filled(r)) \in Seq(GreenNode) /\ Linked(Append(r.nodes, Filled(r)))
           /\ Len(Append(r.nodes, Filled(r))) = Len(r.nodes) + 1
           /\ \A i \in 1 .. Len(r.nodes) : Append(r.nodes, Filled(r))[i] = r.nodes[i]
           /\ NodeLeaves(Append(r.nodes, Filled(r)))[Len(r.nodes) + 1] = Leaves(r)
           /\ \A i \in 1 .. Len(r.nodes) :
                  NodeLeaves(Append(r.nodes, Filled(r)))[i] = NodeLeaves(r.nodes)[i]
  <1> DEFINE n == Filled(r)
             leaves == NodeLeaves(r.nodes)
             more == Append(r.nodes, n)
  <1>1. r.nodes \in Seq(GreenNode) /\ Linked(r.nodes)
    BY DEF Wellformed, Parser
  <1>2. n \in GreenNode /\ n.kids = r.kids /\ ReferTo(n.kids, Len(r.nodes))
    BY FilledType
  <1>3. leaves \in Seq(Seq(Token)) /\ Len(leaves) = Len(r.nodes)
    BY LeavesType
  <1> HIDE DEF n
  <1>4. more \in Seq(GreenNode) /\ Linked(more) /\ NodeLeaves(more) = WithLeavesOf(leaves, n)
    BY <1>1, <1>2, NodeLeavesAppend
  <1>5. Len(more) = Len(r.nodes) + 1 /\ \A i \in 1 .. Len(r.nodes) : more[i] = r.nodes[i]
    BY <1>1, <1>2, AppendProperties
  <1>6. /\ WithLeavesOf(leaves, n)[Len(leaves) + 1] = LeavesOf(leaves, n.kids)
        /\ \A i \in 1 .. Len(leaves) : WithLeavesOf(leaves, n)[i] = leaves[i]
    <2> HIDE DEF leaves
    <2> QED BY <1>2, <1>3, WithLeavesOfType
  <1> HIDE DEF leaves, more
  <1>7. LeavesOf(leaves, n.kids) = Leaves(r)
    BY <1>2 DEF Leaves, leaves
  <1>8. NodeLeaves(more)[Len(r.nodes) + 1] = Leaves(r)
    BY <1>3, <1>4, <1>6, <1>7
  <1>9. \A i \in 1 .. Len(r.nodes) : NodeLeaves(more)[i] = leaves[i]
    BY <1>3, <1>4, <1>6
  <1> QED BY <1>4, <1>5, <1>8, <1>9 DEF more, leaves, n

LEMMA WrapContinues ==
    ASSUME NEW r, NEW q, Continues(r, q), NEW kind \in NodeKinds
    PROVE  Continues(r, Wrap(q, kind))
  <1>1. Wellformed(q)
    BY DEF Continues
  <1> DEFINE n == Len(q.nodes) + 1
             nodes == Append(q.nodes, Filled(q))
             child == [child |-> n]
             s == [q EXCEPT !.node = kind, !.kids = <<child>>, !.nodes = nodes]
  <1> SUFFICES ASSUME Ok(q) PROVE Continues(r, s)
    BY DEF Wrap
  <1>2. /\ nodes \in Seq(GreenNode) /\ Linked(nodes) /\ Len(nodes) = n
        /\ \A i \in 1 .. Len(q.nodes) : nodes[i] = q.nodes[i]
        /\ NodeLeaves(nodes)[n] = Leaves(q)
    BY <1>1, FilledLeaves
  <1>3. n \in Nat \ {0} /\ Len(q.nodes) < n
    BY <1>1, WellformedType
  <1>4. child \in Child /\ ~ IsToken(child) /\ child.child = n
    BY <1>3 DEF Child, IsToken
  <1> HIDE DEF nodes, n, child
  <1>5. <<child>> \in Seq(Child) /\ ReferTo(<<child>>, n) /\ Len(<<child>>) = 1 /\ <<child>>[1] = child
    BY <1>3, <1>4 DEF ReferTo
  <1>6. /\ s \in Parser /\ s.toks = q.toks /\ s.at = q.at /\ s.kids = <<child>> /\ s.nodes = nodes
    BY <1>1, <1>2, <1>5 DEF Wellformed, Parser
  <1> HIDE DEF s
  <1>7. Wellformed(s)
    BY <1>1, <1>2, <1>5, <1>6 DEF Wellformed
  <1>8. Leaves(s) = Leaves(q) /\ Leaves(q) \in Seq(Token)
    <2>1. NodeLeaves(nodes) \in Seq(Seq(Token)) /\ Len(NodeLeaves(nodes)) = n
      BY <1>2, NodeLeavesType
    <2>2. Leaves(q) \in Seq(Token)
      BY <1>1, LeavesType
    <2> DEFINE none == <<>>
               L == LeavesUpTo(NodeLeaves(nodes), <<child>>)
    <2>3. LeavesUnder(NodeLeaves(nodes), child) = Leaves(q)
      BY <1>2, <1>4 DEF LeavesUnder
    <2>4. L[0] = none /\ L[1] = L[0] \o Leaves(q)
      <3>1. 1 \in 1 .. Len(<<child>>) /\ 1 - 1 = 0
        BY <1>5
      <3> QED BY <2>1, <2>3, <1>5, <3>1, LeavesStep
    <2>5. L[1] = Leaves(q)
      BY <2>2, <2>4, ConcatEmptySeq
    <2> QED BY <1>5, <1>6, <2>2, <2>5 DEF Leaves, LeavesOf
  <1>9. SubSeq(s.toks, q.at, s.at - 1) = <<>>
    <2>1. q.at \in Nat
      BY <1>1, WellformedType
    <2> QED BY <2>1, <1>6, SubSeqEmpty
  <1>10. Leaves(s) = Leaves(q) \o SubSeq(s.toks, q.at, s.at - 1)
    BY <1>8, <1>9, ConcatEmptySeq
  <1>11. q.at <= s.at /\ Len(q.toks) <= Len(s.toks) /\ Len(q.nodes) <= Len(s.nodes)
    BY <1>1, <1>2, <1>3, <1>6, WellformedType
  <1>12. Continues(q, s)
    BY <1>1, <1>2, <1>6, <1>7, <1>10, <1>11 DEF Continues
  <1> QED BY <1>12, ContinuesTransitive

(* A node is begun with no child, and what is passed while it is filled    *)
(* comes behind what its parent had.                                       *)
LEMMA BeginWellformed ==
    ASSUME NEW r, NEW q, Continues(r, q), NEW kind \in NodeKinds
    PROVE  Continues(Begin(q, kind), Begin(q, kind))
  <1> DEFINE none == <<>>
             s == [q EXCEPT !.node = kind, !.kids = none]
  <1>1. Wellformed(q)
    BY DEF Continues
  <1>2. none \in Seq(Child) /\ ReferTo(none, Len(q.nodes))
    BY DEF ReferTo
  <1> HIDE DEF none
  <1>3. Wellformed(s)
    BY <1>1, <1>2 DEF Wellformed, Parser
  <1> QED BY <1>3, ContinuesReflexive DEF Begin, none

LEMMA AdoptContinues ==
    ASSUME NEW r, NEW q, Continues(r, q), NEW kind, NEW c, Continues(Begin(q, kind), c)
    PROVE  Continues(r, Adopt(q, c))
  <1> DEFINE n == Len(c.nodes) + 1
             nodes == Append(c.nodes, Filled(c))
             child == [child |-> n]
             kids == Append(q.kids, child)
             s == [c EXCEPT !.node = q.node, !.kids = kids, !.nodes = nodes]
             leaves == NodeLeaves(nodes)
             passed == SubSeq(c.toks, q.at, c.at - 1)
  <1> SUFFICES ASSUME Ok(q) PROVE Continues(r, s)
    BY DEF Adopt
  <1>1. Wellformed(q) /\ Wellformed(c)
    BY DEF Continues
  <1>2. /\ q \in Parser /\ c \in Parser /\ q.toks \in Seq(Token) /\ c.toks \in Seq(Token)
        /\ q.at \in Nat \ {0} /\ c.at \in Nat \ {0} /\ c.at <= Len(c.toks) + 1
        /\ q.nodes \in Seq(GreenNode) /\ c.nodes \in Seq(GreenNode) /\ q.kids \in Seq(Child)
        /\ q.node \in NodeKinds /\ ReferTo(q.kids, Len(q.nodes)) /\ Linked(q.nodes)
    <2>1. ReferTo(q.kids, Len(q.nodes)) /\ Linked(q.nodes)
      BY <1>1 DEF Wellformed
    <2> QED BY <1>1, <2>1, WellformedType
  <1> DEFINE b == Begin(q, kind)
  <1>3. b.toks = q.toks /\ b.at = q.at /\ b.nodes = q.nodes /\ b.kids = <<>>
    BY <1>2 DEF Begin, Parser
  <1> HIDE DEF b
  <1>4. Continues(b, c)
    BY DEF b
  <1>5. Leaves(b) = <<>>
    <2> DEFINE none == <<>>
    <2>1. NodeLeaves(b.nodes) \in Seq(Seq(Token)) /\ b.kids \in Seq(Child)
          /\ ReferTo(b.kids, Len(NodeLeaves(b.nodes)))
      <3>1. Wellformed(b)
        BY <1>4 DEF Continues
      <3> QED BY <3>1, LeavesType, WellformedType DEF Wellformed
    <2>2. Len(b.kids) = 0
      BY <1>3
    <2> HIDE DEF none
    <2>3. LeavesUpTo(NodeLeaves(b.nodes), b.kids)[0] = <<>>
      BY <2>1, LeavesStep
    <2> QED BY <2>2, <2>3 DEF Leaves, LeavesOf
  <1>6. Leaves(c) = passed
    <2>1. passed \in Seq(Token)
      BY <1>2, PassedType
    <2>2. Leaves(c) = <<>> \o passed
      BY <1>3, <1>4, <1>5 DEF Continues
    <2> HIDE DEF passed
    <2> QED BY <2>1, <2>2, ConcatEmptySeq
  <1>7. /\ q.at <= c.at /\ Len(q.toks) <= Len(c.toks) /\ Len(q.nodes) <= Len(c.nodes)
        /\ \A i \in 1 .. q.at - 1 : c.toks[i] = q.toks[i]
        /\ \A i \in 1 .. Len(q.nodes) : c.nodes[i] = q.nodes[i]
    BY <1>3, <1>4 DEF Continues
  <1>8. /\ nodes \in Seq(GreenNode) /\ Linked(nodes) /\ Len(nodes) = n
        /\ \A i \in 1 .. Len(c.nodes) : nodes[i] = c.nodes[i]
        /\ leaves[n] = Leaves(c)
    BY <1>1, FilledLeaves
  <1>9. n \in Nat \ {0} /\ Len(c.nodes) < n /\ Len(q.nodes) < n /\ Len(q.nodes) \in Nat
    BY <1>2, <1>7
  <1>10. child \in Child /\ ~ IsToken(child) /\ child.child = n
    BY <1>9 DEF Child, IsToken
  <1>11. \A i \in 1 .. Len(q.nodes) : nodes[i] = q.nodes[i]
    BY <1>2, <1>7, <1>8
  <1> HIDE DEF nodes, child, passed
  <1>12. leaves \in Seq(Seq(Token)) /\ Len(leaves) = n
    BY <1>8, NodeLeavesType
  <1>13. /\ NodeLeaves(q.nodes) \in Seq(Seq(Token)) /\ Len(NodeLeaves(q.nodes)) = Len(q.nodes)
         /\ \A i \in 1 .. Len(q.nodes) : leaves[i] = NodeLeaves(q.nodes)[i]
    <2>1. Len(q.nodes) <= Len(nodes)
      BY <1>8, <1>9
    <2> QED BY <1>2, <1>8, <1>11, <2>1, NodeLeavesAgree, NodeLeavesType
  <1> HIDE DEF n, leaves
  <1>14. LeavesOf(leaves, q.kids) = Leaves(q)
    <2>1. Len(NodeLeaves(q.nodes)) <= Len(leaves)
      BY <1>9, <1>12, <1>13
    <2> QED BY <1>2, <1>12, <1>13, <2>1, LeavesOfMore DEF Leaves
  <1>15. ReferTo(q.kids, n)
    BY <1>2, <1>9 DEF ReferTo
  <1>16. /\ kids \in Seq(Child) /\ ReferTo(kids, n)
         /\ LeavesOf(leaves, kids) = LeavesOf(leaves, q.kids) \o LeavesUnder(leaves, child)
    <2>1. IsToken(child) \/ child.child \in 1 .. Len(leaves)
      BY <1>9, <1>10, <1>12
    <2> QED BY <1>2, <1>10, <1>12, <1>15, <2>1, LeavesOfAppend
  <1>17. LeavesUnder(leaves, child) = passed
    BY <1>6, <1>8, <1>10 DEF LeavesUnder
  <1> HIDE DEF kids
  <1>18. /\ s \in Parser /\ s.toks = c.toks /\ s.at = c.at /\ s.kids = kids /\ s.nodes = nodes
    BY <1>2, <1>8, <1>16 DEF Parser
  <1> HIDE DEF s
  <1>19. Wellformed(s)
    BY <1>1, <1>8, <1>16, <1>18 DEF Wellformed
  <1>20. Leaves(s) = Leaves(q) \o SubSeq(s.toks, q.at, s.at - 1)
    BY <1>14, <1>16, <1>17, <1>18 DEF Leaves, leaves, passed
  <1>21. Len(q.nodes) <= Len(s.nodes)
    BY <1>8, <1>9, <1>18
  <1>22. Continues(q, s)
    BY <1>1, <1>7, <1>11, <1>18, <1>19, <1>20, <1>21 DEF Continues
  <1> QED BY <1>22, ContinuesTransitive

(* The parser before its first step. *)
LEMMA EndIsAKind == "end" \in Kinds
  BY DEF Kinds, Trivia, Wide

LEMMA LexedType ==
    ASSUME NEW kinds \in Seq(Kinds \ {"end"})
    PROVE  /\ Lexed(kinds) \in Seq(Token) /\ Len(Lexed(kinds)) = Len(kinds) + 1
           /\ \A i \in 1 .. Len(kinds) + 1 : Lexed(kinds)[i].id = "end" <=> i = Len(kinds) + 1
  <1> DEFINE n == Len(kinds)
  <1>1. kinds \in Seq(Kinds) /\ n \in Nat /\ \A i \in 1 .. n : kinds[i] \in Kinds \ {"end"}
    BY ElementOfSeq
  <1>2. Widths(kinds) \in [0 .. n -> Nat]
    BY <1>1, WidthsStep
  <1>3. ASSUME NEW i \in 1 .. n + 1
        PROVE  Lexed(kinds)[i] \in Token /\ (Lexed(kinds)[i].id = "end" <=> i = n + 1)
    <2>1. CASE i = n + 1
      <3>1. WidthOf(kinds) \in Nat
        BY <1>1, <1>2 DEF WidthOf
      <3>2. Lexed(kinds)[i] = [id |-> "end", from |-> WidthOf(kinds), width |-> 0]
        BY <2>1 DEF Lexed
      <3> QED BY <3>1, <3>2, <2>1, EndIsAKind DEF Token
    <2>2. CASE i # n + 1
      <3>1. i \in 1 .. n /\ i - 1 \in 0 .. n
        BY <1>1, <2>2
      <3>2. Lexed(kinds)[i] = [id |-> kinds[i], from |-> Widths(kinds)[i - 1], width |-> Width(kinds[i])]
        BY <2>2 DEF Lexed
      <3>3. Widths(kinds)[i - 1] \in Nat /\ Width(kinds[i]) \in Nat
        BY <1>2, <3>1 DEF Width
      <3> QED BY <1>1, <3>1, <3>2, <3>3, <2>2 DEF Token
    <2> QED BY <2>1, <2>2
  <1>4. Lexed(kinds) \in Seq(Token) /\ Len(Lexed(kinds)) = n + 1
    BY <1>1, <1>3 DEF Lexed
  <1> QED BY <1>3, <1>4

LEMMA UnparsedWellformed ==
    ASSUME NEW kinds \in Seq(Kinds \ {"end"}), NEW root \in NodeKinds
    PROVE  /\ Wellformed(Unparsed(kinds, root)) /\ Leaves(Unparsed(kinds, root)) = <<>>
           /\ Unparsed(kinds, root).at = 1 /\ Ok(Unparsed(kinds, root))
  <1> DEFINE r == Unparsed(kinds, root)
             none == <<>>
  <1>1. /\ r.toks = Lexed(kinds) /\ r.at = 1 /\ r.errors = none /\ r.err = "none" /\ r.node = root
        /\ r.kids = none /\ r.nodes = none
        /\ r = [toks |-> Lexed(kinds), at |-> 1, errors |-> none, err |-> "none",
                node |-> root, kids |-> none, nodes |-> none]
    BY DEF Unparsed
  <1>2. /\ none \in Seq(GreenNode) /\ none \in Seq(Child) /\ none \in Seq(Errors) /\ Len(none) = 0
        /\ Linked(none) /\ ReferTo(none, Len(none))
    BY DEF Linked, ReferTo
  <1>3. /\ Lexed(kinds) \in Seq(Token) /\ Len(Lexed(kinds)) = Len(kinds) + 1 /\ Len(kinds) \in Nat
        /\ \A i \in 1 .. Len(kinds) + 1 : Lexed(kinds)[i].id = "end" <=> i = Len(kinds) + 1
    BY LexedType
  <1> HIDE DEF r, none
  <1>4. r \in Parser
    BY <1>1, <1>2, <1>3 DEF Parser
  <1>5. Wellformed(r)
    <2>1. r.at <= Len(r.toks) + 1 /\ r.toks # <<>>
      BY <1>1, <1>3
    <2> QED BY <1>1, <1>2, <1>3, <1>4, <2>1 DEF Wellformed
  <1>6. Leaves(r) = <<>>
    <2>1. NodeLeaves(r.nodes) \in Seq(Seq(Token)) /\ r.kids \in Seq(Child)
          /\ ReferTo(r.kids, Len(NodeLeaves(r.nodes)))
      BY <1>5, LeavesType, WellformedType DEF Wellformed
    <2>2. LeavesUpTo(NodeLeaves(r.nodes), r.kids)[0] = <<>>
      BY <2>1, LeavesStep
    <2>3. Len(r.kids) = 0
      BY <1>1, <1>2
    <2> QED BY <2>2, <2>3 DEF Leaves, LeavesOf
  <1> QED BY <1>1, <1>5, <1>6 DEF r, Ok

-----------------------------------------------------------------------------
(* The width of the text of tokens. *)

LEMMA TokenWidthsStep ==
    ASSUME NEW tokens \in Seq(Token)
    PROVE  /\ TokenWidths(tokens) \in [0 .. Len(tokens) -> Nat]
           /\ TokenWidths(tokens)[0] = 0
           /\ \A i \in 1 .. Len(tokens) :
                  TokenWidths(tokens)[i] = TokenWidths(tokens)[i - 1] + tokens[i].width
  <1> DEFINE m == Len(tokens)
             width(i) == tokens[i].width
             step == [i \in 1 .. m |-> [w \in Nat |-> w + width(i)]]
  <1>0. m \in Nat
    OBVIOUS
  <1>1. ASSUME NEW i \in 1 .. m PROVE width(i) \in Nat
    <2>1. tokens[i] \in Token
      BY ElementOfSeq
    <2> QED BY <2>1 DEF Token
  <1> HIDE DEF m, width
  <1>2. step \in StepsTo(m, Nat)
    BY <1>1 DEF StepsTo
  <1>3. ASSUME NEW i \in 1 .. m, NEW w \in Nat PROVE step[i][w] = w + width(i)
    OBVIOUS
  <1> HIDE DEF step
  <1>4. PICK f : RecursTo(f, m, Nat, 0, step)
    BY <1>0, <1>2, BoundedRecursion, 0 \in Nat
  <1>5. f \in [0 .. m -> Nat] /\ f[0] = 0
    BY <1>4 DEF RecursTo
  <1>6. ASSUME NEW i \in 1 .. m PROVE f[i] = f[i - 1] + width(i)
    <2>1. i - 1 \in 0 .. m
      BY <1>0
    <2> QED BY <2>1, <1>3, <1>4, <1>5 DEF RecursTo
  <1>7. f = [i \in 0 .. m |-> IF i = 0 THEN 0 ELSE f[i - 1] + width(i)]
    BY <1>0, <1>5, <1>6
  <1> DEFINE W == TokenWidths(tokens)
  <1>8. W = [i \in 0 .. m |-> IF i = 0 THEN 0 ELSE W[i - 1] + width(i)]
    BY <1>7 DEF TokenWidths, m, width
  <1> HIDE DEF W
  <1>9. W[0] = 0 /\ \A i \in 1 .. m : W[i] = W[i - 1] + width(i)
    BY <1>0, <1>8
  <1> DEFINE T == {i \in Nat : i <= m => W[i] \in Nat}
  <1>10. 0 \in T
    BY <1>9
  <1>11. ASSUME NEW i \in Nat, i \in T PROVE i + 1 \in T
    <2> SUFFICES ASSUME i + 1 <= m PROVE W[i + 1] \in Nat
      OBVIOUS
    <2>1. W[i] \in Nat /\ i + 1 \in 1 .. m /\ (i + 1) - 1 = i
      BY <1>0, <1>11
    <2>2. W[i + 1] = W[i] + width(i + 1)
      BY <2>1, <1>9
    <2> QED BY <2>1, <2>2, <1>1
  <1> HIDE DEF T
  <1>12. Nat \subseteq T
    BY <1>10, <1>11, Induction
  <1>13. W \in [0 .. m -> Nat]
    <2>1. W = [i \in 0 .. m |-> W[i]]
      BY <1>8
    <2> QED BY <2>1, <1>12 DEF T
  <1> QED BY <1>9, <1>13 DEF W, m, width

(* Tokens as wide as those of the lexer, with the end's or without it.     *)
LEMMA TotalWidthIs ==
    ASSUME NEW kinds \in Seq(Kinds), NEW tokens \in Seq(Token),
           Len(tokens) \in {Len(kinds), Len(kinds) + 1},
           \A i \in 1 .. Len(tokens) :
               tokens[i].width = IF i = Len(kinds) + 1 THEN 0 ELSE Width(kinds[i])
    PROVE  TotalWidth(tokens) = WidthOf(kinds)
  <1> DEFINE n == Len(kinds)
             m == Len(tokens)
             V == Widths(kinds)
             W == TokenWidths(tokens)
  <1>1. n \in Nat /\ m \in Nat /\ n <= m
    OBVIOUS
  <1>2. V[0] = 0 /\ \A i \in 1 .. n : V[i] = V[i - 1] + Width(kinds[i])
    BY WidthsStep
  <1>3. /\ W \in [0 .. m -> Nat] /\ W[0] = 0
        /\ \A i \in 1 .. m : W[i] = W[i - 1] + tokens[i].width
    BY TokenWidthsStep
  <1> DEFINE T == {i \in Nat : i <= n => W[i] = V[i]}
  <1>4. 0 \in T
    BY <1>2, <1>3
  <1>5. ASSUME NEW i \in Nat, i \in T PROVE i + 1 \in T
    <2> SUFFICES ASSUME i + 1 <= n PROVE W[i + 1] = V[i + 1]
      OBVIOUS
    <2>1. W[i] = V[i] /\ i + 1 \in 1 .. n /\ i + 1 \in 1 .. m /\ (i + 1) - 1 = i
      BY <1>1, <1>5
    <2>2. tokens[i + 1].width = Width(kinds[i + 1])
      BY <1>1, <2>1
    <2>3. V[i + 1] = V[i] + Width(kinds[i + 1]) /\ W[i + 1] = W[i] + tokens[i + 1].width
      BY <1>2, <1>3, <2>1
    <2> QED BY <2>1, <2>2, <2>3
  <1> HIDE DEF T
  <1>6. W[n] = V[n]
    <2>1. n \in T
      BY <1>1, <1>4, <1>5, Induction
    <2> QED BY <1>1, <2>1 DEF T
  <1>7. W[m] = W[n]
    <2>1. CASE m = n
      BY <2>1
    <2>2. CASE m = n + 1
      <3>1. n + 1 \in 1 .. m /\ (n + 1) - 1 = n
        BY <1>1, <2>2
      <3>2. W[n + 1] = W[n] + tokens[n + 1].width /\ tokens[n + 1].width = 0
        BY <3>1, <1>3
      <3>3. W[n] \in Nat
        BY <1>1, <1>3
      <3> QED BY <2>2, <3>2, <3>3
    <2> QED BY <2>1, <2>2
  <1> QED BY <1>6, <1>7 DEF TotalWidth, WidthOf

LEMMA LexedWidth ==
    ASSUME NEW kinds \in Seq(Kinds \ {"end"}), NEW m \in {Len(kinds), Len(kinds) + 1}
    PROVE  TotalWidth(SubSeq(Lexed(kinds), 1, m)) = WidthOf(kinds)
  <1> DEFINE n == Len(kinds)
             tokens == Lexed(kinds)
             s == SubSeq(tokens, 1, m)
  <1>1. n \in Nat /\ m \in Nat /\ m <= n + 1 /\ kinds \in Seq(Kinds)
    OBVIOUS
  <1>2. tokens \in Seq(Token) /\ Len(tokens) = n + 1
    BY LexedType
  <1>3. ASSUME NEW i \in 1 .. n + 1
        PROVE  tokens[i].width = IF i = n + 1 THEN 0 ELSE Width(kinds[i])
    BY DEF Lexed
  <1> HIDE DEF tokens
  <1>4. \A k \in 1 .. m : tokens[k] \in Token
    BY <1>1, <1>2, ElementOfSeq
  <1>5. s \in Seq(Token) /\ Len(s) = m /\ \A i \in 1 .. m : s[i] = tokens[i]
    BY <1>1, <1>4, SubSeqProperties
  <1> HIDE DEF s
  <1>6. \A i \in 1 .. Len(s) : s[i].width = IF i = n + 1 THEN 0 ELSE Width(kinds[i])
    BY <1>1, <1>3, <1>5
  <1>7. TotalWidth(s) = WidthOf(kinds)
    BY <1>1, <1>5, <1>6, TotalWidthIs
  <1> QED BY <1>7 DEF s, tokens

-----------------------------------------------------------------------------
(* How much is left to be taken.                                           *)

(* What toks can be split into at most: no sequence of splits makes it     *)
(* longer.                                                                 *)
WideOnes(toks) == {i \in 1 .. Len(toks) : toks[i].id \in Wide}
Room(toks) == Len(toks) + Cardinality(WideOnes(toks))

(* Tokens that splits make of toks: halves of tokens and tokens of toks,   *)
(* in no more room.                                                        *)
Halves == {">", "]"}
ComesFrom(toks, more) ==
    /\ Room(more) <= Room(toks)
    /\ \A i \in 1 .. Len(more) :
           more[i].id \in Halves \/ \E j \in 1 .. Len(toks) : more[i].id = toks[j].id

LEMMA RoomType ==
    ASSUME NEW toks \in Seq(Token)
    PROVE  /\ IsFiniteSet(WideOnes(toks)) /\ Cardinality(WideOnes(toks)) \in 0 .. Len(toks)
           /\ Room(toks) \in Nat
  <1>1. IsFiniteSet(1 .. Len(toks)) /\ Cardinality(1 .. Len(toks)) = Len(toks) /\ Len(toks) \in Nat
    <2> DEFINE n == Len(toks)
    <2>1. n \in Nat
      OBVIOUS
    <2> HIDE DEF n
    <2>2. IsFiniteSet(1 .. n) /\ Cardinality(1 .. n) = IF 1 > n THEN 0 ELSE n - 1 + 1
      BY <2>1, FS_Interval
    <2> QED BY <2>1, <2>2 DEF n
  <1>2. WideOnes(toks) \in SUBSET (1 .. Len(toks))
    BY DEF WideOnes
  <1>3. IsFiniteSet(WideOnes(toks)) /\ Cardinality(WideOnes(toks)) <= Len(toks)
    BY <1>1, <1>2, FS_Subset
  <1>4. Cardinality(WideOnes(toks)) \in Nat
    BY <1>3, FS_CardinalityType
  <1> QED BY <1>1, <1>3, <1>4 DEF Room

LEMMA ComesFromItself ==
    ASSUME NEW toks \in Seq(Token)
    PROVE  ComesFrom(toks, toks)
  BY RoomType DEF ComesFrom

LEMMA ComesFromTransitive ==
    ASSUME NEW a \in Seq(Token), NEW b \in Seq(Token), NEW c \in Seq(Token),
           ComesFrom(a, b), ComesFrom(b, c)
    PROVE  ComesFrom(a, c)
  <1>1. Room(c) <= Room(a)
    BY RoomType DEF ComesFrom
  <1>2. ASSUME NEW i \in 1 .. Len(c)
        PROVE  c[i].id \in Halves \/ \E j \in 1 .. Len(a) : c[i].id = a[j].id
    BY DEF ComesFrom
  <1> QED BY <1>1, <1>2 DEF ComesFrom

(* A token of two brackets is cut and the other half goes in front of      *)
(* place i: one token more, one less to be split.                          *)
LEMMA SplitRoom ==
    ASSUME NEW toks \in Seq(Token), NEW p \in 1 .. Len(toks), toks[p].id \in Wide,
           NEW cut \in Seq(Token), Len(cut) = Len(toks), cut[p].id \in Halves,
           \A j \in 1 .. Len(toks) : j # p => cut[j] = toks[j],
           NEW i \in 1 .. Len(toks) + 1, NEW t \in Token, t.id \in Halves,
           NEW more \in Seq(Token), InsertedAt(more, cut, i, t)
    PROVE  ComesFrom(toks, more)
  <1> DEFINE n == Len(toks)
             S == WideOnes(toks)
             U == WideOnes(more)
             from == [j \in U |-> IF j < i THEN j ELSE j - 1]
  <1>1. n \in Nat /\ Len(more) = n + 1
    BY DEF InsertedAt
  <1>2. \A j \in 1 .. n + 1 : more[j] = IF j < i THEN cut[j] ELSE IF j = i THEN t ELSE cut[j - 1]
    BY DEF InsertedAt
  <1>3. \A id \in Halves : id \notin Wide
    BY DEF Halves, Wide
  <1>4. ASSUME NEW j \in U PROVE /\ j \in 1 .. n + 1 /\ j # i /\ from[j] \in S \ {p}
    <2>1. j \in 1 .. n + 1 /\ more[j].id \in Wide
      BY <1>1 DEF WideOnes
    <2>2. j # i
      BY <1>2, <1>3, <2>1
    <2>3. from[j] \in 1 .. n /\ more[j] = cut[from[j]]
      BY <1>1, <1>2, <2>1, <2>2
    <2> HIDE DEF from
    <2>4. from[j] # p
      BY <1>3, <2>1, <2>3
    <2>5. toks[from[j]].id \in Wide
      BY <2>1, <2>3, <2>4
    <2> QED BY <2>1, <2>2, <2>3, <2>4, <2>5 DEF WideOnes
  <1>5. from \in Injection(U, S \ {p})
    <2>1. from \in [U -> S \ {p}]
      BY <1>4
    <2>2. \A j, k \in U : from[j] = from[k] => j = k
      BY <1>4
    <2> QED BY <2>1, <2>2 DEF Injection, IsInjective
  <1>6. IsFiniteSet(S) /\ Cardinality(S) \in Nat /\ p \in S
    BY RoomType DEF WideOnes
  <1>7. IsFiniteSet(S \ {p}) /\ Cardinality(S \ {p}) = Cardinality(S) - 1
    BY <1>6, FS_RemoveElement
  <1>8. Cardinality(U) <= Cardinality(S) - 1
    <2> HIDE DEF from, U, S
    <2> QED BY <1>5, <1>7, FS_Injection
  <1>9. Cardinality(U) \in Nat
    BY RoomType
  <1>10. Room(more) <= Room(toks)
    BY <1>1, <1>6, <1>8, <1>9 DEF Room
  <1>11. ASSUME NEW j \in 1 .. n + 1
         PROVE  more[j].id \in Halves \/ \E k \in 1 .. n : more[j].id = toks[k].id
    <2>1. CASE j = i
      BY <1>2, <2>1
    <2>2. CASE j # i
      <3>1. PICK k \in 1 .. n : more[j] = cut[k]
        <4>1. CASE j < i
          BY <1>1, <1>2, <4>1
        <4>2. CASE j > i
          BY <1>1, <1>2, <4>2
        <4> QED BY <1>1, <2>2, <4>1, <4>2
      <3> QED BY <3>1
    <2> QED BY <2>1, <2>2
  <1> QED BY <1>1, <1>10, <1>11 DEF ComesFrom
=============================================================================
