------------------------- MODULE ExprParser_proofs -------------------------
(***************************************************************************)
(* Theorems about parse_expr on every input of every language.             *)
(***************************************************************************)
EXTENDS ExprParser, Expressions_proofs

LEMMA DepthIsNat ==
    ASSUME NEW kinds \in Seq(Kinds \ {"end"})
    PROVE  MaxDepth(kinds) \in Nat /\ MaxDepth(kinds) >= 8
  <1>1. Len(kinds) \in Nat
    OBVIOUS
  <1> QED BY <1>1 DEF MaxDepth

(* A parser that parse_expr leaves has gone on from the one before its     *)
(* first step.                                                             *)
LEMMA ParseContinues ==
    ASSUME NEW kinds \in Seq(Kinds \ {"end"})
    PROVE  /\ Follows(Unparsed(kinds, "Statement"), Parse(kinds))
           /\ Continues(Unparsed(kinds, "Statement"), Parse(kinds))
  <1> DEFINE start == Unparsed(kinds, "Statement")
             sub == ExprCalls[MaxDepth(kinds)]
  <1>1. "Statement" \in NodeKinds
    BY DEF NodeKinds
  <1>2. Wellformed(start)
    BY <1>1, UnparsedWellformed
  <1>3. Follows(start, start)
    BY <1>2, FollowsItself DEF Wellformed
  <1>4. KeepsExprs(sub)
    BY DepthIsNat, ExprCallsKeep
  <1>5. 0 \in Int
    OBVIOUS
  <1> HIDE DEF start, sub
  <1>6. Follows(start, sub.Expr[0][start])
    BY <1>3, <1>4, <1>5, ExprFollows
  <1>7. Continues(start, sub.Expr[0][start])
    BY <1>2, <1>6 DEF Follows
  <1> QED BY <1>6, <1>7 DEF start, sub, Parse

-----------------------------------------------------------------------------
(* The inductive invariant: parsed is what parse_expr makes of the input.  *)

Typed ==
    /\ language \in Languages
    /\ input \in Seq(Kinds \ {"end"})
    /\ Len(input) <= language.length
    /\ parsed = Parse(input)

LEMMA TypedInit == Init => Typed
  <1> SUFFICES ASSUME Init PROVE Typed
    OBVIOUS
  <1>1. language \in Languages /\ language.length \in Nat
    BY LanguagesAssumption DEF Init
  <1>2. input = <<>> /\ parsed = Parse(input)
    BY DEF Init
  <1>3. input \in Seq(Kinds \ {"end"}) /\ Len(input) = 0
    BY <1>2
  <1> QED BY <1>1, <1>2, <1>3 DEF Typed

LEMMA TypedStep == Typed /\ [Next]_vars => Typed'
  <1> SUFFICES ASSUME Typed, [Next]_vars PROVE Typed'
    OBVIOUS
  <1>1. CASE UNCHANGED vars
    BY <1>1 DEF Typed, vars
  <1>2. ASSUME NEW p \in language.phrases, Type(p) PROVE Typed'
    <2>1. p \in Seq(Kinds \ {"end"})
      BY LanguagesAssumption DEF Typed
    <2>2. input' = input \o p /\ language' = language /\ parsed' = Parse(input')
          /\ Len(input) + Len(p) <= language.length
      BY <1>2 DEF Type
    <2>3. input' \in Seq(Kinds \ {"end"}) /\ Len(input') = Len(input) + Len(p)
      BY <2>1, <2>2, ConcatProperties DEF Typed
    <2> QED BY <2>2, <2>3 DEF Typed
  <1> QED BY <1>1, <1>2 DEF Next

(* parsed is always what parse_expr makes of the input. *)
THEOREM AlwaysTyped == Spec => []Typed
  BY TypedInit, TypedStep, PTL DEF Spec

-----------------------------------------------------------------------------

LEMMA TypedTypeOK == Typed => TypeOK
  <1> SUFFICES ASSUME Typed PROVE TypeOK
    OBVIOUS
  <1>1. Wellformed(parsed)
    BY ParseContinues DEF Typed, Continues
  <1>2. Len(parsed.toks) \in Nat /\ DOMAIN parsed.toks = 1 .. Len(parsed.toks)
    BY <1>1 DEF Wellformed, Parser
  <1>3. parsed.at \in 1 .. Len(parsed.toks) + 1
    BY <1>1, <1>2 DEF Wellformed, Parser
  <1>4. \A i \in DOMAIN parsed.toks : parsed.toks[i].id = "end" <=> i = Len(parsed.toks)
    BY <1>1, <1>2 DEF Wellformed
  <1>5. input \in Seq(Kinds)
    BY DEF Typed
  <1> QED BY <1>3, <1>4, <1>5 DEF Typed, TypeOK

(* However the parser is driven, idx_current_token stays inside the list   *)
(* and the end's token stays the list's last, whatever is split.           *)
THEOREM AlwaysTypeOK == Spec => []TypeOK
  BY AlwaysTyped, TypedTypeOK, PTL

LEMMA TypedLossless == Typed => Lossless
  <1> SUFFICES ASSUME Typed PROVE Lossless
    OBVIOUS
  <1> DEFINE start == Unparsed(input, "Statement")
             passed == SubSeq(parsed.toks, 1, parsed.at - 1)
  <1>1. "Statement" \in NodeKinds
    BY DEF NodeKinds
  <1>2. Continues(start, parsed) /\ Leaves(start) = <<>> /\ start.at = 1
    BY <1>1, ParseContinues, UnparsedWellformed DEF Typed
  <1>3. Leaves(parsed) = <<>> \o passed
    BY <1>2 DEF Continues
  <1>4. passed \in Seq(Token)
    <2>1. Wellformed(parsed)
      BY <1>2 DEF Continues
    <2> QED BY <2>1, PassedType DEF Wellformed, Parser
  <1> QED BY <1>3, <1>4, ConcatEmptySeq DEF Lossless

(* parse_expr loses, doubles and moves no token, on its error paths and    *)
(* with split tokens as well: the leaves of the tree are what it passed.   *)
THEOREM AlwaysLossless == Spec => []Lossless
  BY AlwaysTyped, TypedLossless, PTL

LEMMA TypedAdvances == Typed => Advances
  <1> SUFFICES ASSUME Typed PROVE Advances
    OBVIOUS
  <1> DEFINE start == Unparsed(input, "Statement")
             depth == MaxDepth(input)
             passed == SubSeq(parsed.toks, 1, parsed.at - 1)
  <1>1. Ready(start) /\ start.at = 1
    <2>1. "Statement" \in NodeKinds
      BY DEF NodeKinds
    <2>2. Wellformed(start) /\ start.at = 1 /\ Ok(start)
      BY <2>1, UnparsedWellformed DEF Typed
    <2> HIDE DEF start
    <2>3. Len(start.toks) \in Nat \ {0}
      BY <2>2, WellformedType
    <2>4. Solid(start) # 0
      BY <2>2, <2>3, SolidNext
    <2> QED BY <2>2, <2>4 DEF Ready
  <1>2. Past(start, parsed)
    <2>1. depth - 3 \in Nat /\ depth = (depth - 3) + 3 /\ 0 \in Int
      BY DepthIsNat DEF Typed
    <2>2. parsed = ExprCalls[depth].Expr[0][start]
      BY DEF Typed, Parse
    <2> HIDE DEF depth, start
    <2> QED BY <1>1, <2>1, <2>2, ExprPast
  <1>3. PICK i \in 1 .. parsed.at - 1 : parsed.toks[i].id \notin Trivia
    BY <1>1, <1>2 DEF Past
  <1>4. Leaves(parsed) = passed
    BY TypedLossless DEF Lossless
  <1>5. parsed.toks \in Seq(Token) /\ parsed.at \in Nat \ {0} /\ parsed.at <= Len(parsed.toks) + 1
    BY <1>2 DEF Past, Continues, Wellformed, Parser
  <1>6. Len(passed) = parsed.at - 1 /\ passed[i] = parsed.toks[i] /\ passed \in Seq(Token)
    <2> DEFINE last == parsed.at - 1
    <2>1. last \in Nat /\ last <= Len(parsed.toks) /\ i \in 1 .. last /\ 1 <= last
      BY <1>5
    <2>2. \A k \in 1 .. last : parsed.toks[k] \in Token
      BY <1>5, <2>1, ElementOfSeq
    <2>3. Len(SubSeq(parsed.toks, 1, last)) = last - 1 + 1
          /\ \A k \in 1 .. last - 1 + 1 : SubSeq(parsed.toks, 1, last)[k] = parsed.toks[1 + k - 1]
          /\ SubSeq(parsed.toks, 1, last) \in Seq(Token)
      BY <2>1, <2>2, SubSeqProperties
    <2> HIDE DEF last
    <2>4. last - 1 + 1 = last /\ 1 + i - 1 = i
      BY <2>1
    <2> QED BY <2>1, <2>3, <2>4 DEF last
  <1> HIDE DEF passed
  <1>7. i \in DOMAIN Leaves(parsed) /\ Leaves(parsed)[i].id \notin Trivia
    BY <1>3, <1>4, <1>6
  <1> QED BY <1>7 DEF Advances

(* parse_expr takes a token that is no trivia whenever there is one, also  *)
(* when no expression begins with it: the loops that call it again after   *)
(* an error come to an end.                                                *)
THEOREM AlwaysAdvances == Spec => []Advances
  BY AlwaysTyped, TypedAdvances, PTL

LEMMA TypedHalts == Typed => Halts
  <1> SUFFICES ASSUME Typed PROVE Halts
    OBVIOUS
  <1> DEFINE start == Unparsed(input, "Statement")
             n == Rest(start)
             m == MaxDepth(input)
             f == ExprCalls[m].Expr[0]
  <1>1. input \in Seq(Kinds \ {"end"}) /\ parsed = f[start]
    BY DEF Typed, Parse
  <1>2. "Statement" \in NodeKinds
    BY DEF NodeKinds
  <1>3. Comes(start, n, start) /\ n \in Nat /\ m \in Nat /\ 5 * n + 5 <= m
    BY <1>1, <1>2, UnparsedRest
  <1>4. Halting(f, 2, m)
    <2>1. 0 \in Int
      OBVIOUS
    <2> QED BY <1>3, <2>1, ExprCallsHalt DEF HaltsExprs
  <1> HIDE DEF start, n, m, f
  <1>5. 5 * n + 2 <= m
    BY <1>3
  <1>6. Comes(start, n, parsed)
    BY <1>1, <1>3, <1>4, <1>5 DEF Halting
  <1> QED BY <1>6 DEF Comes, Halts

(* parse_expr comes back, whatever the input: no loop turns and no         *)
(* function calls itself again before a token has been taken, in those     *)
(* that note an error and go on as in the others.                          *)
THEOREM AlwaysHalts == Spec => []Halts
  BY AlwaysTyped, TypedHalts, PTL

LEMMA TypedWidthKept == Typed /\ NoWideTokens(input) => WidthKept
  <1> SUFFICES ASSUME Typed, NoWideTokens(input)
               PROVE  TotalWidth(parsed.toks) = WidthOf(input)
    BY DEF WidthKept
  <1>1. input \in Seq(Kinds \ {"end"}) /\ Len(input) \in Nat
    BY DEF Typed
  <1>2. parsed.toks = Lexed(input)
    <2>1. NoneWide(Lexed(input))
      BY <1>1, NoWideLexed
    <2>2. Unparsed(input, "Statement").toks = Lexed(input)
      BY DEF Unparsed
    <2>3. Follows(Unparsed(input, "Statement"), parsed)
      BY ParseContinues DEF Typed
    <2> QED BY <2>1, <2>2, <2>3 DEF Follows
  <1>3. Lexed(input) = SubSeq(Lexed(input), 1, Len(input) + 1)
    BY <1>1, LexedType, SubSeqFull
  <1>4. Len(input) + 1 \in {Len(input), Len(input) + 1}
    OBVIOUS
  <1>5. TotalWidth(SubSeq(Lexed(input), 1, Len(input) + 1)) = WidthOf(input)
    BY <1>1, <1>4, LexedWidth
  <1> QED BY <1>2, <1>3, <1>5

(* No text is lost in an expression without `>>` and `]]`: the tokens that *)
(* parse_expr leaves are those the lexer made, and cover the input.        *)
THEOREM PlainWidthKept == Spec => [](NoWideTokens(input) => WidthKept)
  <1>1. Typed => (NoWideTokens(input) => WidthKept)
    BY TypedWidthKept
  <1> QED BY <1>1, AlwaysTyped, PTL

-----------------------------------------------------------------------------
(* The parts of a node.                                                    *)

Trivial(k) == IsToken(k) /\ k.id \in Trivia
WithPart(parts, k) == IF Trivial(k) THEN parts ELSE Append(parts, k)

LEMMA PartsStep ==
    ASSUME NEW kids \in Seq(Child)
    PROVE  /\ PartsUpTo(kids) \in [0 .. Len(kids) -> Seq(Child)]
           /\ PartsUpTo(kids)[0] = <<>>
           /\ \A i \in 1 .. Len(kids) :
                  PartsUpTo(kids)[i] = WithPart(PartsUpTo(kids)[i - 1], kids[i])
  <1> DEFINE m == Len(kids)
             S == Seq(Child)
             none == <<>>
             to(i, s) == WithPart(s, kids[i])
             step == [i \in 1 .. m |-> [s \in S |-> to(i, s)]]
  <1>0. m \in Nat /\ none \in S
    OBVIOUS
  <1>1. ASSUME NEW i \in 1 .. m, NEW s \in S PROVE to(i, s) \in S
    <2>1. kids[i] \in Child
      BY ElementOfSeq
    <2> QED BY <2>1, AppendProperties DEF WithPart
  <1> HIDE DEF m, S, none, to
  <1>2. step \in StepsTo(m, S)
    BY <1>1 DEF StepsTo
  <1>3. ASSUME NEW i \in 1 .. m, NEW s \in S PROVE step[i][s] = to(i, s)
    OBVIOUS
  <1> HIDE DEF step
  <1>4. PICK f : RecursTo(f, m, S, none, step)
    BY <1>0, <1>2, BoundedRecursion
  <1>5. f \in [0 .. m -> S] /\ f[0] = none
    BY <1>4 DEF RecursTo
  <1>6. ASSUME NEW i \in 1 .. m PROVE f[i] = to(i, f[i - 1])
    <2>1. i - 1 \in 0 .. m
      BY <1>0
    <2>2. f[i - 1] \in S
      BY <2>1, <1>5
    <2> QED BY <2>2, <1>3, <1>4 DEF RecursTo
  <1>7. f = [i \in 0 .. m |-> IF i = 0 THEN none ELSE to(i, f[i - 1])]
    BY <1>0, <1>5, <1>6
  <1> DEFINE P == PartsUpTo(kids)
  <1>8. P = [i \in 0 .. m |-> IF i = 0 THEN none ELSE to(i, P[i - 1])]
    <2> DEFINE F(p) == [i \in 0 .. m |-> IF i = 0 THEN none
                                         ELSE IF IsToken(kids[i]) /\ kids[i].id \in Trivia THEN p[i - 1]
                                         ELSE Append(p[i - 1], kids[i])]
    <2>1. \A p, i : to(i, p[i - 1]) = IF IsToken(kids[i]) /\ kids[i].id \in Trivia THEN p[i - 1]
                                      ELSE Append(p[i - 1], kids[i])
      BY DEF to, WithPart, Trivial
    <2>2. \A p : F(p) = [i \in 0 .. m |-> IF i = 0 THEN none ELSE to(i, p[i - 1])]
      BY <2>1
    <2>3. P = CHOOSE p : p = F(p)
      BY Zenon DEF PartsUpTo, m, none
    <2> HIDE DEF F, P
    <2>4. f = F(f)
      BY <1>7, <2>2
    <2>5. P = F(P)
      BY <2>3, <2>4, Zenon
    <2> QED BY <2>2, <2>5
  <1> HIDE DEF P
  <1>9. P[0] = none /\ \A i \in 1 .. m : P[i] = to(i, P[i - 1])
    BY <1>0, <1>8
  <1> DEFINE T == {i \in Nat : i <= m => P[i] \in S}
  <1>10. 0 \in T
    BY <1>0, <1>9
  <1>11. ASSUME NEW i \in Nat, i \in T PROVE i + 1 \in T
    <2> SUFFICES ASSUME i + 1 <= m PROVE P[i + 1] \in S
      OBVIOUS
    <2>1. P[i] \in S /\ i + 1 \in 1 .. m /\ (i + 1) - 1 = i
      BY <1>0, <1>11
    <2>2. P[i + 1] = to(i + 1, P[i])
      BY <2>1, <1>9
    <2> QED BY <2>1, <2>2, <1>1
  <1> HIDE DEF T
  <1>12. Nat \subseteq T
    BY <1>10, <1>11, Induction
  <1>13. P \in [0 .. m -> S]
    <2>1. P = [i \in 0 .. m |-> P[i]]
      BY <1>8
    <2> QED BY <2>1, <1>12 DEF T
  <1> QED BY <1>9, <1>13 DEF P, m, S, none, to

LEMMA PartsType ==
    ASSUME NEW kids \in Seq(Child)
    PROVE  PartsOf(kids) \in Seq(Child)
  <1>1. Len(kids) \in 0 .. Len(kids)
    OBVIOUS
  <1> QED BY <1>1, PartsStep DEF PartsOf

LEMMA PartsOfNone == PartsOf(<<>>) = <<>>
  <1> DEFINE none == <<>>
  <1>1. none \in Seq(Child) /\ Len(none) = 0
    OBVIOUS
  <1> HIDE DEF none
  <1>2. PartsOf(none) = <<>>
    BY <1>1, PartsStep DEF PartsOf
  <1> QED BY <1>2 DEF none

LEMMA PartsAgree ==
    ASSUME NEW kids \in Seq(Child), NEW all \in Seq(Child), Len(kids) <= Len(all),
           \A i \in 1 .. Len(kids) : all[i] = kids[i]
    PROVE  PartsUpTo(all)[Len(kids)] = PartsOf(kids)
  <1> DEFINE m == Len(kids)
             n == Len(all)
             P == PartsUpTo(kids)
             Q == PartsUpTo(all)
             T == {i \in Nat : i <= m => Q[i] = P[i]}
  <1>1. m \in Nat /\ n \in Nat /\ m <= n
    OBVIOUS
  <1>2. P[0] = <<>> /\ \A i \in 1 .. m : P[i] = WithPart(P[i - 1], kids[i])
    BY PartsStep
  <1>3. Q[0] = <<>> /\ \A i \in 1 .. n : Q[i] = WithPart(Q[i - 1], all[i])
    BY PartsStep
  <1>4. \A i \in 1 .. m : all[i] = kids[i]
    OBVIOUS
  <1> HIDE DEF P, Q, m, n
  <1>5. 0 \in T
    BY <1>2, <1>3
  <1>6. ASSUME NEW i \in Nat, i \in T PROVE i + 1 \in T
    <2> SUFFICES ASSUME i + 1 <= m PROVE Q[i + 1] = P[i + 1]
      OBVIOUS
    <2>1. Q[i] = P[i] /\ i + 1 \in 1 .. m /\ i + 1 \in 1 .. n /\ (i + 1) - 1 = i
      BY <1>1, <1>6
    <2>2. P[i + 1] = WithPart(P[i], kids[i + 1])
      BY <1>2, <2>1
    <2>3. Q[i + 1] = WithPart(Q[i], all[i + 1])
      BY <1>3, <2>1
    <2> QED BY <1>4, <2>1, <2>2, <2>3
  <1> HIDE DEF T
  <1>7. m \in T
    BY <1>1, <1>5, <1>6, Induction
  <1> QED BY <1>1, <1>7 DEF T, P, Q, m, PartsOf

LEMMA PartsOfAppend ==
    ASSUME NEW kids \in Seq(Child), NEW k \in Child
    PROVE  Append(kids, k) \in Seq(Child) /\ PartsOf(Append(kids, k)) = WithPart(PartsOf(kids), k)
  <1> DEFINE all == Append(kids, k)
             m == Len(kids)
  <1>1. /\ all \in Seq(Child) /\ Len(all) = m + 1 /\ all[m + 1] = k /\ m \in Nat
        /\ \A i \in 1 .. m : all[i] = kids[i]
    BY AppendProperties
  <1> HIDE DEF all
  <1>2. PartsUpTo(all)[m] = PartsOf(kids)
    BY <1>1, PartsAgree
  <1>3. PartsUpTo(all)[m + 1] = WithPart(PartsUpTo(all)[m], k)
    <2>1. m + 1 \in 1 .. Len(all) /\ (m + 1) - 1 = m
      BY <1>1
    <2> QED BY <1>1, <2>1, PartsStep
  <1>4. PartsOf(all) = PartsUpTo(all)[m + 1]
    BY <1>1 DEF PartsOf
  <1> QED BY <1>1, <1>2, <1>3, <1>4 DEF all

(* Children with trivia behind them. *)
Padded(all, kids) ==
    /\ all \in Seq(Child) /\ Len(kids) <= Len(all)
    /\ \A i \in 1 .. Len(kids) : all[i] = kids[i]
    /\ \A i \in Len(kids) + 1 .. Len(all) : Trivial(all[i])

LEMMA PartsOfTrivia ==
    ASSUME NEW kids \in Seq(Child), NEW all, Padded(all, kids)
    PROVE  PartsOf(all) = PartsOf(kids)
  <1> DEFINE m == Len(kids)
             n == Len(all)
             Q == PartsUpTo(all)
             T == {i \in Nat : m <= i /\ i <= n => Q[i] = Q[m]}
  <1>1. /\ m \in Nat /\ n \in Nat /\ m <= n /\ \A i \in m + 1 .. n : Trivial(all[i])
        /\ all \in Seq(Child) /\ \A i \in 1 .. m : all[i] = kids[i]
    BY DEF Padded
  <1>2. Q[m] = PartsOf(kids)
    BY <1>1, PartsAgree
  <1>3. \A i \in 1 .. n : Q[i] = WithPart(Q[i - 1], all[i])
    BY <1>1, PartsStep
  <1> HIDE DEF Q, m, n
  <1>4. 0 \in T
    BY <1>1
  <1>5. ASSUME NEW i \in Nat, i \in T PROVE i + 1 \in T
    <2> SUFFICES ASSUME m <= i + 1, i + 1 <= n PROVE Q[i + 1] = Q[m]
      OBVIOUS
    <2>1. CASE m = i + 1
      BY <2>1
    <2>2. CASE m <= i
      <3>1. Q[i] = Q[m] /\ i + 1 \in 1 .. n /\ i + 1 \in m + 1 .. n /\ (i + 1) - 1 = i
        BY <1>1, <1>5, <2>2
      <3>2. Q[i + 1] = WithPart(Q[i], all[i + 1]) /\ Trivial(all[i + 1])
        BY <1>1, <1>3, <3>1
      <3> QED BY <3>1, <3>2 DEF WithPart
    <2> QED BY <1>1, <2>1, <2>2
  <1> HIDE DEF T
  <1>6. n \in T
    BY <1>1, <1>4, <1>5, Induction
  <1>7. Q[n] = Q[m]
    BY <1>1, <1>6 DEF T
  <1> QED BY <1>2, <1>7 DEF Q, n, PartsOf

LEMMA PartsReferTo ==
    ASSUME NEW kids \in Seq(Child), NEW n \in Nat, ReferTo(kids, n)
    PROVE  ReferTo(PartsOf(kids), n)
  <1> DEFINE m == Len(kids)
             P == PartsUpTo(kids)
             T == {i \in Nat : i <= m => ReferTo(P[i], n)}
  <1>1. m \in Nat
    OBVIOUS
  <1>2. P \in [0 .. m -> Seq(Child)] /\ P[0] = <<>> /\ \A i \in 1 .. m : P[i] = WithPart(P[i - 1], kids[i])
    BY PartsStep
  <1>3. \A i \in 1 .. m : kids[i] \in Child /\ (IsToken(kids[i]) \/ kids[i].child \in 1 .. n)
    BY ElementOfSeq DEF ReferTo
  <1> HIDE DEF P, m
  <1>4. 0 \in T
    BY <1>2 DEF ReferTo
  <1>5. ASSUME NEW i \in Nat, i \in T PROVE i + 1 \in T
    <2> SUFFICES ASSUME i + 1 <= m PROVE ReferTo(P[i + 1], n)
      OBVIOUS
    <2>1. ReferTo(P[i], n) /\ i + 1 \in 1 .. m /\ (i + 1) - 1 = i /\ P[i] \in Seq(Child)
      BY <1>1, <1>2, <1>5
    <2>2. P[i + 1] = WithPart(P[i], kids[i + 1])
      BY <1>2, <2>1
    <2>3. ReferTo(Append(P[i], kids[i + 1]), n)
      <3> DEFINE k == kids[i + 1]
                 s == P[i]
                 a == Append(s, k)
      <3>1. k \in Child /\ (IsToken(k) \/ k.child \in 1 .. n) /\ s \in Seq(Child)
        BY <1>3, <2>1
      <3> HIDE DEF k, s
      <3>2. Len(a) = Len(s) + 1 /\ a[Len(s) + 1] = k /\ \A j \in 1 .. Len(s) : a[j] = s[j]
        BY <3>1, AppendProperties
      <3>3. Len(s) \in Nat /\ ReferTo(s, n)
        BY <2>1, <3>1 DEF s
      <3> HIDE DEF a
      <3>4. ReferTo(a, n)
        BY <3>1, <3>2, <3>3 DEF ReferTo
      <3> QED BY <3>4 DEF a, s, k
    <2> QED BY <2>1, <2>2, <2>3 DEF WithPart
  <1> HIDE DEF T
  <1>6. m \in T
    BY <1>1, <1>4, <1>5, Induction
  <1> QED BY <1>1, <1>6 DEF T, P, m, PartsOf

-----------------------------------------------------------------------------
(* Nesting is a matter of a node and of the nodes before it.               *)

Extends(more, s) == Len(s) <= Len(more) /\ \A i \in 1 .. Len(s) : more[i] = s[i]

LEMMA InfixStable ==
    ASSUME NEW nodes \in Seq(GreenNode), NEW more, Extends(more, nodes),
           NEW n, n.kids \in Seq(Child), ReferTo(n.kids, Len(nodes))
    PROVE  IsInfix(more, n) <=> IsInfix(nodes, n)
  <1> DEFINE parts == Parts(n)
  <1>1. parts \in Seq(Child) /\ ReferTo(parts, Len(nodes))
    <2>1. Len(nodes) \in Nat
      OBVIOUS
    <2> QED BY <2>1, PartsType, PartsReferTo DEF Parts
  <1> HIDE DEF parts
  <1>2. Len(parts) > 1 => (IsExpr(more, parts[1]) <=> IsExpr(nodes, parts[1]))
    <2> SUFFICES ASSUME Len(parts) > 1, ~ IsToken(parts[1])
                 PROVE  more[parts[1].child] = nodes[parts[1].child]
      BY DEF IsExpr
    <2>1. 1 \in 1 .. Len(parts)
      BY <1>1
    <2>2. parts[1].child \in 1 .. Len(nodes)
      BY <1>1, <2>1 DEF ReferTo
    <2> QED BY <2>2 DEF Extends
  <1> QED BY <1>2 DEF IsInfix, parts

LEMMA TighterStable ==
    ASSUME NEW nodes \in Seq(GreenNode), Linked(nodes), NEW more, Extends(more, nodes),
           NEW k, IsToken(k) \/ k.child \in 1 .. Len(nodes), NEW op, NEW orEqual
    PROVE  Tighter(more, k, op, orEqual) <=> Tighter(nodes, k, op, orEqual)
  <1> SUFFICES ASSUME ~ IsToken(k), k.child \in 1 .. Len(nodes)
               PROVE  Tighter(more, k, op, orEqual) <=> Tighter(nodes, k, op, orEqual)
    BY DEF Tighter
  <1> DEFINE n == nodes[k.child]
  <1>1. more[k.child] = n
    BY DEF Extends
  <1>2. n \in GreenNode /\ ReferTo(n.kids, k.child - 1)
    BY ElementOfSeq DEF Linked
  <1>3. ReferTo(n.kids, Len(nodes))
    BY <1>2 DEF ReferTo
  <1>4. n.kids \in Seq(Child)
    BY <1>2 DEF GreenNode
  <1> HIDE DEF n
  <1>5. IsInfix(more, n) <=> IsInfix(nodes, n)
    BY <1>3, <1>4, InfixStable
  <1> QED BY <1>1, <1>5 DEF Tighter, n

LEMMA NestsStable ==
    ASSUME NEW nodes \in Seq(GreenNode), Linked(nodes), NEW more, Extends(more, nodes),
           NEW n, n.kids \in Seq(Child), ReferTo(n.kids, Len(nodes))
    PROVE  Nests(more, n) <=> Nests(nodes, n)
  <1> DEFINE parts == Parts(n)
             op == InfixOf(n)
             left == Left(n)
             right == Right(n)
  <1>1. IsInfix(more, n) <=> IsInfix(nodes, n)
    BY InfixStable
  <1> SUFFICES ASSUME IsInfix(nodes, n) PROVE Nests(more, n) <=> Nests(nodes, n)
    BY <1>1 DEF Nests
  <1>2. parts \in Seq(Child) /\ ReferTo(parts, Len(nodes))
    <2>1. Len(nodes) \in Nat
      OBVIOUS
    <2> QED BY <2>1, PartsType, PartsReferTo DEF Parts
  <1>3. Len(parts) > 1 /\ ~ IsToken(parts[1])
    BY DEF IsInfix, IsExpr
  <1>4. left = parts[1] /\ right = parts[Len(parts)]
    BY DEF Left, Right
  <1> HIDE DEF parts, left, right, op
  <1>5. 1 \in 1 .. Len(parts) /\ Len(parts) \in 1 .. Len(parts)
    BY <1>2, <1>3
  <1>6. left.child \in 1 .. Len(nodes) /\ (IsToken(right) \/ right.child \in 1 .. Len(nodes))
    BY <1>2, <1>3, <1>4, <1>5 DEF ReferTo
  <1>7. more[left.child] = nodes[left.child]
    BY <1>6 DEF Extends
  <1>8. ASSUME NEW orEqual
        PROVE  /\ Tighter(more, left, op, orEqual) <=> Tighter(nodes, left, op, orEqual)
               /\ Tighter(more, right, op, orEqual) <=> Tighter(nodes, right, op, orEqual)
    BY <1>6, TighterStable
  <1> QED BY <1>1, <1>7, <1>8 DEF Nests, left, right, op

(* All nodes that are filled nest. *)
AllNest(nodes) == \A i \in 1 .. Len(nodes) : Nests(nodes, nodes[i])
Sound(r) == Wellformed(r) /\ AllNest(r.nodes)

LEMMA AllNestAppend ==
    ASSUME NEW nodes \in Seq(GreenNode), Linked(nodes), AllNest(nodes),
           NEW n \in GreenNode, ReferTo(n.kids, Len(nodes)), Nests(nodes, n)
    PROVE  AllNest(Append(nodes, n)) /\ Extends(Append(nodes, n), nodes)
  <1> DEFINE more == Append(nodes, n)
             m == Len(nodes)
  <1>1. Len(more) = m + 1 /\ more[m + 1] = n /\ m \in Nat /\ \A i \in 1 .. m : more[i] = nodes[i]
    BY AppendProperties
  <1> HIDE DEF more
  <1>2. Extends(more, nodes)
    BY <1>1 DEF Extends
  <1>3. ASSUME NEW i \in 1 .. m PROVE Nests(more, nodes[i])
    <2>1. nodes[i] \in GreenNode /\ ReferTo(nodes[i].kids, i - 1)
      BY ElementOfSeq DEF Linked
    <2>2. nodes[i].kids \in Seq(Child) /\ ReferTo(nodes[i].kids, m)
      BY <1>1, <2>1 DEF GreenNode, ReferTo
    <2>3. Nests(nodes, nodes[i])
      BY DEF AllNest
    <2> QED BY <1>2, <2>2, <2>3, NestsStable
  <1>4. Nests(more, n)
    <2>1. n.kids \in Seq(Child)
      BY DEF GreenNode
    <2> QED BY <1>2, <2>1, NestsStable
  <1>5. AllNest(more)
    <2> SUFFICES ASSUME NEW i \in 1 .. Len(more) PROVE Nests(more, more[i])
      BY DEF AllNest
    <2>1. CASE i \in 1 .. m
      BY <1>1, <1>3, <2>1
    <2>2. CASE i = m + 1
      BY <1>1, <1>4, <2>2
    <2> QED BY <1>1, <2>1, <2>2
  <1> QED BY <1>2, <1>5 DEF more

-----------------------------------------------------------------------------
(* What the parsing functions do to the node that they fill: its parts     *)
(* grow, and the nodes that are added nest.                                *)

Growth(q, s) == s.node = q.node /\ Extends(PartsOf(s.kids), PartsOf(q.kids))
Grows(r, s) == Follows(r, s) /\ Sound(r) /\ Sound(s) /\ Growth(r, s)

LEMMA GrowsItself ==
    ASSUME NEW r, Sound(r)
    PROVE  Grows(r, r)
  <1>1. Follows(r, r)
    BY FollowsItself DEF Sound, Wellformed
  <1>2. PartsOf(r.kids) \in Seq(Child)
    BY PartsType DEF Sound, Wellformed, Parser
  <1>3. Growth(r, r)
    BY <1>2 DEF Growth, Extends
  <1> QED BY <1>1, <1>3 DEF Grows

LEMMA ExtendsTransitive ==
    ASSUME NEW S, NEW s \in Seq(S), NEW t \in Seq(S), NEW u \in Seq(S), Extends(t, s), Extends(u, t)
    PROVE  Extends(u, s)
  BY DEF Extends

LEMMA SoundParts ==
    ASSUME NEW r, Sound(r)
    PROVE  PartsOf(r.kids) \in Seq(Child) /\ r.kids \in Seq(Child) /\ r.nodes \in Seq(GreenNode)
           /\ r \in Parser
  BY PartsType DEF Sound, Wellformed, Parser

LEMMA GrowthTransitive ==
    ASSUME NEW r, NEW q, NEW s, Sound(r), Sound(q), Sound(s), Growth(r, q), Growth(q, s)
    PROVE  Growth(r, s)
  <1>1. PartsOf(r.kids) \in Seq(Child) /\ PartsOf(q.kids) \in Seq(Child) /\ PartsOf(s.kids) \in Seq(Child)
    BY SoundParts
  <1> QED BY <1>1, ExtendsTransitive DEF Growth

LEMMA GrowsTransitive ==
    ASSUME NEW r, NEW q, NEW s, Grows(r, q), Grows(q, s)
    PROVE  Grows(r, s)
  <1>1. Follows(r, s)
    BY FollowsTransitive DEF Grows
  <1>2. Growth(r, s)
    BY GrowthTransitive DEF Grows
  <1> QED BY <1>1, <1>2 DEF Grows

(* An operation that adds no node. *)
LEMMA SoundBy ==
    ASSUME NEW q, Sound(q), NEW s, Follows(q, s), s.nodes = q.nodes
    PROVE  Sound(s)
  <1>1. Wellformed(s)
    BY DEF Sound, Follows, Continues
  <1> QED BY <1>1 DEF Sound

LEMMA GrowsBy ==
    ASSUME NEW r, NEW q, Grows(r, q), NEW s, Follows(q, s), s.nodes = q.nodes, Growth(q, s)
    PROVE  Grows(r, s)
  <1>1. Sound(q) /\ Sound(s)
    BY SoundBy DEF Grows
  <1>2. Grows(q, s)
    BY <1>1 DEF Grows
  <1> QED BY <1>2, GrowsTransitive

LEMMA SameKids ==
    ASSUME NEW q, Sound(q), NEW s, s.kids = q.kids, s.node = q.node
    PROVE  Growth(q, s)
  <1>1. Growth(q, q)
    BY GrowsItself DEF Grows
  <1> QED BY <1>1 DEF Growth

LEMMA FailGrows ==
    ASSUME NEW r, NEW q, Grows(r, q), NEW e \in Errors \cup {"endless"}
    PROVE  Grows(r, Fail(q, e))
  <1> DEFINE s == Fail(q, e)
  <1>1. Sound(q) /\ q \in Parser
    BY DEF Grows, Sound, Wellformed
  <1>2. Follows(q, s)
    BY <1>1, FollowsItself, FailFollows
  <1>3. s.nodes = q.nodes /\ s.kids = q.kids /\ s.node = q.node
    BY <1>1 DEF Fail, Parser
  <1> HIDE DEF s
  <1>4. Grows(r, s)
    BY <1>1, <1>2, <1>3, SameKids, GrowsBy
  <1> QED BY <1>4 DEF s

LEMMA ReportGrows ==
    ASSUME NEW r, NEW q, Grows(r, q), NEW e \in Errors
    PROVE  Grows(r, Report(q, e))
  <1> DEFINE s == Report(q, e)
  <1>1. Sound(q) /\ q \in Parser
    BY DEF Grows, Sound, Wellformed
  <1>2. Follows(q, s)
    BY <1>1, FollowsItself, ReportFollows
  <1>3. s.nodes = q.nodes /\ s.kids = q.kids /\ s.node = q.node
    BY <1>1 DEF Report, Parser
  <1> HIDE DEF s
  <1>4. Grows(r, s)
    BY <1>1, <1>2, <1>3, SameKids, GrowsBy
  <1> QED BY <1>4 DEF s

LEMMA NotedGrows ==
    ASSUME NEW r, NEW q, Grows(r, q)
    PROVE  Grows(r, Noted(q))
  <1> DEFINE s == Noted(q)
  <1>1. Sound(q) /\ q \in Parser
    BY DEF Grows, Sound, Wellformed
  <1>2. Follows(q, s)
    BY <1>1, FollowsItself, NotedFollows
  <1>3. s.nodes = q.nodes /\ s.kids = q.kids /\ s.node = q.node
    BY <1>1 DEF Noted, Parser
  <1> HIDE DEF s
  <1>4. Grows(r, s)
    BY <1>1, <1>2, <1>3, SameKids, GrowsBy
  <1> QED BY <1>4 DEF s

LEMMA SplitsGrow ==
    ASSUME NEW r, NEW q, Grows(r, q)
    PROVE  Grows(r, SplitShr(q)) /\ Grows(r, SplitRDBrackets(q))
  <1> DEFINE s == SplitShr(q)
             t == SplitRDBrackets(q)
  <1>1. Sound(q) /\ q \in Parser
    BY DEF Grows, Sound, Wellformed
  <1>2. Follows(q, s) /\ Follows(q, t)
    BY <1>1, FollowsItself, SplitsFollow
  <1>3. /\ s.nodes = q.nodes /\ s.kids = q.kids /\ s.node = q.node
        /\ t.nodes = q.nodes /\ t.kids = q.kids /\ t.node = q.node
    BY <1>1 DEF SplitShr, SplitRDBrackets, Split, Parser
  <1> HIDE DEF s, t
  <1>4. Grows(r, s) /\ Grows(r, t)
    BY <1>1, <1>2, <1>3, SameKids, GrowsBy
  <1> QED BY <1>4 DEF s, t

LEMMA WithPartExtends ==
    ASSUME NEW parts \in Seq(Child), NEW k \in Child
    PROVE  Extends(WithPart(parts, k), parts)
  <1>1. Extends(parts, parts)
    BY DEF Extends
  <1>2. Extends(Append(parts, k), parts)
    <2>1. Len(Append(parts, k)) = Len(parts) + 1 /\ Len(parts) \in Nat
          /\ \A i \in 1 .. Len(parts) : Append(parts, k)[i] = parts[i]
      BY AppendProperties
    <2> QED BY <2>1 DEF Extends
  <1> QED BY <1>1, <1>2 DEF WithPart

(* Tokens. *)
LEMMA TokenIsPart ==
    ASSUME NEW k \in Token
    PROVE  IsToken(k) /\ k \in Child /\ (k.id \in Trivia <=> Trivial(k))
  <1>1. IsToken(k)
    BY DEF Token, IsToken
  <1> QED BY <1>1 DEF Child, Trivial

LEMMA SkipToPads ==
    ASSUME NEW q, Wellformed(q), NEW next \in q.at .. Len(q.toks) + 1,
           \A j \in q.at .. next - 1 : q.toks[j].id \in Trivia
    PROVE  Padded(SkipTo(q, next).kids, q.kids)
  <1> DEFINE at == q.at
             passed == SubSeq(q.toks, at, next - 1)
             all == q.kids \o passed
  <1>1. /\ q \in Parser /\ q.toks \in Seq(Token) /\ q.kids \in Seq(Child)
        /\ at \in Nat \ {0} /\ Len(q.toks) \in Nat
    BY WellformedType
  <1>2. next \in Nat \ {0} /\ at <= next /\ next <= Len(q.toks) + 1
    BY <1>1
  <1>3. \A j \in at .. next - 1 : q.toks[j] \in Token /\ q.toks[j].id \in Trivia
    BY <1>1, <1>2, ElementOfSeq
  <1>4. \A j \in at .. next - 1 : q.toks[j] \in Child /\ Trivial(q.toks[j])
    BY <1>3, TokenIsPart
  <1> HIDE DEF at
  <1>5. /\ passed \in Seq(Child) /\ Len(passed) = next - at
        /\ \A i \in 1 .. next - at : passed[i] = q.toks[at + i - 1]
    <2>1. /\ passed \in Seq(Child)
          /\ Len(passed) = IF at <= next - 1 THEN (next - 1) - at + 1 ELSE 0
          /\ \A i \in 1 .. (next - 1) - at + 1 : passed[i] = q.toks[at + i - 1]
      BY <1>1, <1>2, <1>4, SubSeqProperties
    <2>2. (next - 1) - at + 1 = next - at /\ (at <= next - 1 \/ next - at = 0)
      BY <1>1, <1>2
    <2> QED BY <2>1, <2>2
  <1>6. \A i \in 1 .. Len(passed) : Trivial(passed[i])
    <2> SUFFICES ASSUME NEW i \in 1 .. Len(passed) PROVE Trivial(passed[i])
      OBVIOUS
    <2>1. at + i - 1 \in at .. next - 1 /\ i \in 1 .. next - at
      BY <1>1, <1>2, <1>5
    <2> QED BY <1>4, <1>5, <2>1
  <1> HIDE DEF passed
  <1>7. /\ all \in Seq(Child) /\ Len(all) = Len(q.kids) + Len(passed)
        /\ \A i \in 1 .. Len(q.kids) : all[i] = q.kids[i]
        /\ \A i \in 1 .. Len(passed) : all[Len(q.kids) + i] = passed[i]
    <2>1. /\ all \in Seq(Child) /\ Len(all) = Len(q.kids) + Len(passed)
          /\ \A i \in 1 .. Len(q.kids) + Len(passed) :
                 all[i] = IF i <= Len(q.kids) THEN q.kids[i] ELSE passed[i - Len(q.kids)]
      BY <1>1, <1>5, ConcatProperties
    <2>2. Len(q.kids) \in Nat /\ Len(passed) \in Nat
      BY <1>1, <1>5
    <2>3. ASSUME NEW i \in 1 .. Len(passed) PROVE all[Len(q.kids) + i] = passed[i]
      <3>1. /\ Len(q.kids) + i \in 1 .. Len(q.kids) + Len(passed)
            /\ ~ (Len(q.kids) + i <= Len(q.kids)) /\ (Len(q.kids) + i) - Len(q.kids) = i
        BY <2>2
      <3> HIDE DEF all
      <3> QED BY <2>1, <3>1
    <2>4. \A i \in 1 .. Len(q.kids) : all[i] = q.kids[i]
      <3> HIDE DEF all
      <3> QED BY <2>1, <2>2
    <2> HIDE DEF all
    <2> QED BY <2>1, <2>3, <2>4
  <1> HIDE DEF all
  <1>8. \A i \in Len(q.kids) + 1 .. Len(all) : Trivial(all[i])
    <2> SUFFICES ASSUME NEW i \in Len(q.kids) + 1 .. Len(all) PROVE Trivial(all[i])
      OBVIOUS
    <2>1. Len(q.kids) \in Nat /\ Len(passed) \in Nat
      BY <1>1, <1>5
    <2>2. i - Len(q.kids) \in 1 .. Len(passed) /\ Len(q.kids) + (i - Len(q.kids)) = i
      BY <1>7, <2>1
    <2> QED BY <1>6, <1>7, <2>2
  <1>9. Padded(all, q.kids)
    <2>1. Len(q.kids) <= Len(all)
      BY <1>1, <1>5, <1>7
    <2> QED BY <1>7, <1>8, <2>1 DEF Padded
  <1>10. SkipTo(q, next).kids = all
    BY <1>1 DEF SkipTo, Parser, all, passed, at
  <1> QED BY <1>9, <1>10

LEMMA ToNextTokenPads ==
    ASSUME NEW q, Wellformed(q)
    PROVE  LET s == ToNextToken(q)
           IN Padded(s.kids, q.kids) /\ s.nodes = q.nodes /\ s.node = q.node
  <1> DEFINE n == Len(q.toks) + 1
             end == SkipTo(q, n)
             next == SkipTo(q, Solid(q))
  <1>1. q \in Parser /\ Len(q.toks) \in Nat /\ q.at \in Nat /\ q.at <= n
    BY WellformedType
  <1>2. Solid(q) = 0 => Padded(end.kids, q.kids)
    <2>1. Solid(q) = 0 => q.at = n
      BY SolidNext
    <2>2. n \in q.at .. Len(q.toks) + 1
      BY <1>1
    <2>3. Solid(q) = 0 => \A j \in q.at .. n - 1 : q.toks[j].id \in Trivia
      BY <1>1, <2>1
    <2> QED BY <2>2, <2>3, SkipToPads
  <1>3. Solid(q) # 0 => Padded(next.kids, q.kids)
    <2> SUFFICES ASSUME Solid(q) # 0 PROVE Padded(next.kids, q.kids)
      OBVIOUS
    <2> DEFINE i == Solid(q)
    <2>1. i \in q.at .. Len(q.toks) /\ \A j \in q.at .. i - 1 : q.toks[j].id \in Trivia
      BY SolidNext
    <2> HIDE DEF i
    <2>2. i \in q.at .. Len(q.toks) + 1
      BY <1>1, <2>1
    <2>3. Padded(SkipTo(q, i).kids, q.kids)
      BY <2>1, <2>2, SkipToPads
    <2> QED BY <2>3 DEF i
  <1>4. end.nodes = q.nodes /\ end.node = q.node /\ next.nodes = q.nodes /\ next.node = q.node
    BY <1>1 DEF SkipTo, Parser
  <1>5. end \in Parser
    <2>1. n \in Nat \ {0} /\ n <= Len(q.toks) + 1
      BY <1>1
    <2> HIDE DEF n
    <2> QED BY <1>1, <2>1, SkipToType
  <1>6. ToNextToken(q) = IF ~ Ok(q) THEN q
                         ELSE IF Solid(q) = 0 THEN Fail(end, "ExpectingMoreTokens") ELSE next
    BY DEF ToNextToken
  <1> HIDE DEF end, next
  <1>7. LET f == Fail(end, "ExpectingMoreTokens")
        IN f.kids = end.kids /\ f.nodes = end.nodes /\ f.node = end.node
    BY <1>5 DEF Fail, Parser
  <1>8. Padded(q.kids, q.kids)
    <2>1. q.kids \in Seq(Child) /\ Len(q.kids) \in Nat
      BY <1>1 DEF Parser
    <2> QED BY <2>1 DEF Padded
  <1> QED BY <1>2, <1>3, <1>4, <1>6, <1>7, <1>8

LEMMA ToNextTokenParts ==
    ASSUME NEW q, Wellformed(q)
    PROVE  LET s == ToNextToken(q)
           IN PartsOf(s.kids) = PartsOf(q.kids) /\ s.nodes = q.nodes /\ s.node = q.node
  <1>1. q.kids \in Seq(Child)
    BY DEF Wellformed, Parser
  <1> QED BY <1>1, ToNextTokenPads, PartsOfTrivia

LEMMA ToNextTokenGrows ==
    ASSUME NEW r, NEW q, Grows(r, q)
    PROVE  Grows(r, ToNextToken(q))
  <1> DEFINE s == ToNextToken(q)
  <1>1. Sound(q) /\ Wellformed(q) /\ q \in Parser
    BY DEF Grows, Sound, Wellformed
  <1>2. Follows(q, s)
    BY <1>1, FollowsItself, ToNextTokenFollows
  <1>3. PartsOf(s.kids) = PartsOf(q.kids) /\ s.nodes = q.nodes /\ s.node = q.node
    BY <1>1, ToNextTokenParts
  <1>4. Growth(q, s)
    <2>1. Growth(q, q)
      BY <1>1, GrowsItself DEF Grows
    <2> QED BY <1>3, <2>1 DEF Growth
  <1> HIDE DEF s
  <1>5. Grows(r, s)
    BY <1>2, <1>3, <1>4, GrowsBy
  <1> QED BY <1>5 DEF s

LEMMA CollectGrows ==
    ASSUME NEW r, NEW q, Grows(r, q)
    PROVE  Grows(r, Collect(q))
  <1> DEFINE s == Collect(q)
             k == q.toks[q.at]
             kids == Append(q.kids, k)
  <1>1. Sound(q) /\ Wellformed(q) /\ q \in Parser
    BY DEF Grows, Sound, Wellformed
  <1>2. q.toks \in Seq(Token) /\ q.kids \in Seq(Child) /\ q.at \in Nat \ {0} /\ Len(q.toks) \in Nat
    BY <1>1, WellformedType
  <1>3. CASE ~ Ok(q) \/ q.at > Len(q.toks)
    <2>1. s = q \/ s = Fail(q, "ExpectingMoreTokens")
      BY <1>3 DEF Collect
    <2>2. Grows(r, Fail(q, "ExpectingMoreTokens"))
      BY FailGrows DEF Errors
    <2> QED BY <2>1, <2>2
  <1>4. CASE Ok(q) /\ ~ (q.at > Len(q.toks))
    <2>1. k \in Child
      <3>1. k \in Token
        BY <1>2, <1>4, ElementOfSeq
      <3> QED BY <3>1 DEF Child
    <2>2. s = [q EXCEPT !.kids = kids, !.at = q.at + 1]
      BY <1>4 DEF Collect
    <2>3. PartsOf(kids) = WithPart(PartsOf(q.kids), k)
      BY <1>2, <2>1, PartsOfAppend
    <2>4. Follows(q, s)
      BY <1>1, FollowsItself, CollectFollows
    <2> HIDE DEF kids, k, s
    <2>5. s.kids = kids /\ s.nodes = q.nodes /\ s.node = q.node
      BY <1>1, <2>2 DEF Parser
    <2>6. Extends(WithPart(PartsOf(q.kids), k), PartsOf(q.kids))
      BY <1>2, <2>1, PartsType, WithPartExtends
    <2>7. Growth(q, s)
      BY <2>3, <2>5, <2>6 DEF Growth
    <2>8. Grows(r, s)
      BY <2>4, <2>5, <2>7, GrowsBy
    <2> QED BY <2>8 DEF s
  <1> QED BY <1>3, <1>4

LEMMA TakeGrows ==
    ASSUME NEW r, NEW q, Grows(r, q)
    PROVE  Grows(r, Take(q))
  BY ToNextTokenGrows, CollectGrows DEF Take

LEMMA OptionalGrows ==
    ASSUME NEW r, NEW q, Grows(r, q), NEW kinds
    PROVE  Grows(r, Optional(q, kinds))
  BY TakeGrows DEF Optional

LEMMA OptionalsGrow ==
    ASSUME NEW r, NEW q, Grows(r, q), NEW first, NEW second, NEW third
    PROVE  Grows(r, Optionals(q, first, second, third))
  BY OptionalGrows DEF Optionals

LEMMA ExpectGrows ==
    ASSUME NEW r, NEW q, Grows(r, q), NEW kind
    PROVE  Grows(r, Expect(q, kind))
  <1> DEFINE s == ToNextToken(q)
  <1>1. Grows(r, s)
    BY ToNextTokenGrows
  <1>2. Expect(q, kind) = IF Ok(s) THEN IF Peek(s) = kind THEN Collect(s)
                                        ELSE Fail(s, "ExpectingSingleToken")
                          ELSE s
    BY DEF Expect, Then
  <1>3. Grows(r, Collect(s)) /\ Grows(r, Fail(s, "ExpectingSingleToken"))
    BY <1>1, CollectGrows, FailGrows DEF Errors
  <1> QED BY <1>1, <1>2, <1>3

(* A token that is there to take becomes a part. *)
LEMMA TakePart ==
    ASSUME NEW q, Ready(q)
    PROVE  LET s == Take(q)
               k == q.toks[Solid(q)]
           IN /\ PartsOf(s.kids) = Append(PartsOf(q.kids), k)
              /\ IsToken(k) /\ k.id = Peek(q) /\ Ok(s) /\ s.nodes = q.nodes /\ s.node = q.node
  <1> DEFINE i == Solid(q)
             t == SkipTo(q, i)
             k == q.toks[i]
             kids == Append(t.kids, k)
             s == Take(q)
  <1>1. Wellformed(q) /\ Ok(q) /\ i # 0 /\ q \in Parser
    BY DEF Ready, Wellformed
  <1>2. i \in q.at .. Len(q.toks) /\ k.id \notin Trivia /\ Peek(q) = k.id
    BY <1>1, SolidNext
  <1>3. q.toks \in Seq(Token) /\ Len(q.toks) \in Nat /\ q.at \in Nat \ {0}
    BY <1>1, WellformedType
  <1>4. k \in Token
    <2>1. i \in 1 .. Len(q.toks)
      BY <1>2, <1>3
    <2> QED BY <1>3, <2>1, ElementOfSeq
  <1>5. IsToken(k) /\ k \in Child /\ ~ Trivial(k)
    BY <1>2, <1>4, TokenIsPart
  <1>6. ToNextToken(q) = t
    BY <1>1 DEF ToNextToken
  <1>7. PartsOf(t.kids) = PartsOf(q.kids) /\ t.nodes = q.nodes /\ t.node = q.node
    BY <1>1, <1>6, ToNextTokenParts
  <1>8. t.toks = q.toks /\ t.at = i /\ t.err = q.err
    BY <1>1 DEF SkipTo, Parser
  <1>9. t \in Parser /\ t.kids \in Seq(Child)
    <2>1. i \in Nat \ {0} /\ i <= Len(q.toks) + 1
      BY <1>1, <1>2, <1>3
    <2> HIDE DEF i
    <2>2. t \in Parser
      BY <1>1, <2>1, SkipToType
    <2> QED BY <2>2 DEF Parser
  <1> HIDE DEF t, i, k
  <1>10. s = [t EXCEPT !.kids = kids, !.at = t.at + 1]
    <2>1. Ok(t) /\ ~ (t.at > Len(t.toks))
      BY <1>1, <1>2, <1>3, <1>8 DEF Ok
    <2>2. Collect(t) = [t EXCEPT !.kids = Append(t.kids, t.toks[t.at]), !.at = t.at + 1]
      BY <2>1 DEF Collect
    <2> QED BY <1>6, <1>8, <2>2 DEF Take, k
  <1>11. PartsOf(kids) = Append(PartsOf(q.kids), k)
    BY <1>5, <1>7, <1>9, PartsOfAppend DEF WithPart
  <1> HIDE DEF kids, s
  <1>12. s.kids = kids /\ s.nodes = t.nodes /\ s.node = t.node /\ s.err = t.err
    BY <1>9, <1>10 DEF Parser
  <1>13. Ok(s)
    BY <1>1, <1>8, <1>12 DEF Ok
  <1> QED BY <1>2, <1>5, <1>7, <1>11, <1>12, <1>13 DEF s, k, i

(* Nodes. *)
LEMMA StructuralKinds == Structural \subseteq NodeKinds
  BY DEF Structural, NodeKinds

LEMMA StructuralNests ==
    ASSUME NEW nodes, NEW c, c.node \in Structural
    PROVE  Nests(nodes, Filled(c)) /\ ~ IsInfix(nodes, Filled(c))
  <1>1. Filled(c).node \in Structural
    BY DEF Filled
  <1> HIDE DEF Structural
  <1> QED BY <1>1 DEF Nests, IsInfix

LEMMA BeginSound ==
    ASSUME NEW q, Sound(q), NEW kind \in NodeKinds
    PROVE  LET b == Begin(q, kind)
           IN /\ Sound(b) /\ Grows(b, b) /\ PartsOf(b.kids) = <<>> /\ b.nodes = q.nodes /\ b.node = kind
              /\ b.toks = q.toks /\ b.at = q.at /\ b.err = q.err
  <1> DEFINE b == Begin(q, kind)
  <1>1. Wellformed(q) /\ q \in Parser
    BY DEF Sound, Wellformed
  <1>2. Wellformed(b)
    <2>1. Continues(b, b)
      BY <1>1, ContinuesReflexive, BeginWellformed
    <2> QED BY <2>1 DEF Continues
  <1>3. /\ b.kids = <<>> /\ b.nodes = q.nodes /\ b.node = kind
        /\ b.toks = q.toks /\ b.at = q.at /\ b.err = q.err
    BY <1>1 DEF Begin, Parser
  <1> HIDE DEF b
  <1>4. Sound(b)
    BY <1>2, <1>3 DEF Sound
  <1>5. PartsOf(b.kids) = <<>> /\ Grows(b, b)
    BY <1>3, <1>4, PartsOfNone, GrowsItself
  <1> QED BY <1>3, <1>4, <1>5 DEF b

LEMMA AdoptParts ==
    ASSUME NEW q, Sound(q), Ok(q), NEW kind \in NodeKinds, NEW c, Sound(c),
           Follows(Begin(q, kind), c), Nests(c.nodes, Filled(c))
    PROVE  LET s == Adopt(q, c)
               i == Len(c.nodes) + 1
           IN /\ Sound(s) /\ Follows(q, s) /\ s.node = q.node
              /\ PartsOf(s.kids) = Append(PartsOf(q.kids), [child |-> i])
              /\ Extends(s.nodes, c.nodes) /\ i \in 1 .. Len(s.nodes) /\ s.nodes[i] = Filled(c)
              /\ s.toks = c.toks /\ s.at = c.at /\ s.err = c.err
  <1> DEFINE s == Adopt(q, c)
             i == Len(c.nodes) + 1
             k == [child |-> i]
             kids == Append(q.kids, k)
             nodes == Append(c.nodes, Filled(c))
  <1>1. /\ Wellformed(q) /\ Wellformed(c) /\ q \in Parser /\ c \in Parser
        /\ q.kids \in Seq(Child) /\ c.nodes \in Seq(GreenNode) /\ Linked(c.nodes)
    BY SoundParts DEF Sound, Wellformed
  <1>2. Follows(q, s)
    BY <1>1, FollowsItself, AdoptFollows
  <1>3. Filled(c) \in GreenNode /\ ReferTo(Filled(c).kids, Len(c.nodes))
    BY <1>1, FilledType
  <1>4. AllNest(nodes) /\ Extends(nodes, c.nodes)
    BY <1>1, <1>3, AllNestAppend DEF Sound
  <1>5. Len(nodes) = i /\ nodes[i] = Filled(c) /\ i \in Nat \ {0}
    BY <1>1, <1>3, AppendProperties
  <1>6. k \in Child /\ ~ IsToken(k)
    BY <1>5, ChildType DEF IsToken
  <1>7. PartsOf(kids) = Append(PartsOf(q.kids), k)
    <2> HIDE DEF k
    <2>1. PartsOf(kids) = WithPart(PartsOf(q.kids), k)
      BY <1>1, <1>6, PartsOfAppend
    <2> QED BY <1>6, <2>1 DEF WithPart, Trivial
  <1>8. s = [c EXCEPT !.node = q.node, !.kids = kids, !.nodes = nodes]
    BY DEF Adopt
  <1> HIDE DEF s, kids, nodes
  <1>9. /\ s.node = q.node /\ s.kids = kids /\ s.nodes = nodes
        /\ s.toks = c.toks /\ s.at = c.at /\ s.err = c.err
    BY <1>1, <1>8 DEF Parser
  <1>10. Sound(s)
    <2>1. Wellformed(s)
      BY <1>1, <1>2 DEF Follows, Continues
    <2> QED BY <1>4, <1>9, <2>1 DEF Sound
  <1>11. i \in 1 .. Len(s.nodes)
    BY <1>5, <1>9
  <1> HIDE DEF i, k
  <1> QED BY <1>2, <1>4, <1>5, <1>7, <1>9, <1>10, <1>11 DEF s, i, k

LEMMA AdoptGrows ==
    ASSUME NEW r, NEW q, Grows(r, q), NEW kind \in NodeKinds, NEW c, Sound(c),
           Follows(Begin(q, kind), c), Nests(c.nodes, Filled(c))
    PROVE  Grows(r, Adopt(q, c))
  <1> DEFINE s == Adopt(q, c)
             k == [child |-> Len(c.nodes) + 1]
  <1>1. CASE ~ Ok(q)
    BY <1>1 DEF Adopt
  <1>2. CASE Ok(q)
    <2>1. Sound(q) /\ PartsOf(q.kids) \in Seq(Child)
      BY SoundParts DEF Grows
    <2>2. Sound(s) /\ Follows(q, s) /\ s.node = q.node /\ PartsOf(s.kids) = Append(PartsOf(q.kids), k)
      BY <1>2, <2>1, AdoptParts
    <2>3. k \in Child /\ ~ Trivial(k)
      <3>1. Len(c.nodes) + 1 \in Nat
        BY SoundParts
      <3> QED BY <3>1, ChildType DEF Trivial, IsToken
    <2> HIDE DEF s, k
    <2>4. Extends(PartsOf(s.kids), PartsOf(q.kids))
      <3>1. Extends(WithPart(PartsOf(q.kids), k), PartsOf(q.kids))
        BY <2>1, <2>3, WithPartExtends
      <3> QED BY <2>2, <2>3, <3>1 DEF WithPart
    <2>5. Grows(q, s)
      BY <2>1, <2>2, <2>4 DEF Grows, Growth
    <2>6. Grows(r, s)
      BY <2>5, GrowsTransitive
    <2> QED BY <2>6 DEF s
  <1> QED BY <1>1, <1>2

LEMMA StructuralGrows ==
    ASSUME NEW r, NEW q, Grows(r, q), NEW kind \in Structural, NEW c, Grows(Begin(q, kind), c)
    PROVE  Grows(r, Adopt(q, c))
  <1>1. kind \in NodeKinds /\ Sound(q)
    BY StructuralKinds DEF Grows
  <1>2. Begin(q, kind).node = kind
    BY <1>1, BeginSound
  <1>3. c.node \in Structural /\ Sound(c) /\ Follows(Begin(q, kind), c)
    BY <1>2 DEF Grows, Growth
  <1>4. Nests(c.nodes, Filled(c))
    BY <1>3, StructuralNests
  <1> QED BY <1>1, <1>3, <1>4, AdoptGrows

(* A type name changes its kind while it is parsed. *)
Named(r, s) == Follows(r, s) /\ Sound(r) /\ Sound(s) /\ s.node \in Structural

LEMMA NamedThen ==
    ASSUME NEW r, NEW q, NEW s, Named(r, q), Grows(q, s)
    PROVE  Named(r, s)
  <1>1. Follows(r, s)
    BY FollowsTransitive DEF Named, Grows
  <1> QED BY <1>1 DEF Named, Grows, Growth

LEMMA NamedGrows ==
    ASSUME NEW r, NEW q, Grows(r, q), NEW kind \in Structural, NEW c, Named(Begin(q, kind), c)
    PROVE  Grows(r, Adopt(q, c))
  <1>1. kind \in NodeKinds
    BY StructuralKinds
  <1>2. Nests(c.nodes, Filled(c))
    BY StructuralNests DEF Named
  <1> QED BY <1>1, <1>2, AdoptGrows DEF Named

LEMMA AsSound ==
    ASSUME NEW q, Sound(q), NEW kind \in NodeKinds
    PROVE  LET s == As(q, kind)
           IN /\ Sound(s) /\ Follows(q, s) /\ s.kids = q.kids /\ s.nodes = q.nodes
              /\ s.node \in {q.node, kind}
  <1> DEFINE s == As(q, kind)
  <1>1. q \in Parser
    BY SoundParts
  <1>2. Follows(q, s)
    BY <1>1, FollowsItself, AsFollows
  <1>3. s.kids = q.kids /\ s.nodes = q.nodes /\ s.node \in {q.node, kind}
    BY <1>1 DEF As, Parser
  <1> HIDE DEF s
  <1>4. Sound(s)
    BY <1>2, <1>3, SoundBy
  <1> QED BY <1>2, <1>3, <1>4 DEF s

(* The node so far becomes the first part of another. *)
LEMMA WrapSound ==
    ASSUME NEW q, Sound(q), Nests(q.nodes, Filled(q)), NEW kind \in NodeKinds, Ok(q)
    PROVE  LET s == Wrap(q, kind)
               i == Len(q.nodes) + 1
           IN /\ Sound(s) /\ Follows(q, s) /\ s.node = kind
              /\ PartsOf(s.kids) = << [child |-> i] >>
              /\ Extends(s.nodes, q.nodes) /\ i \in 1 .. Len(s.nodes) /\ s.nodes[i] = Filled(q)
              /\ s.toks = q.toks /\ s.at = q.at /\ s.err = q.err
  <1> DEFINE s == Wrap(q, kind)
             i == Len(q.nodes) + 1
             k == [child |-> i]
             none == <<>>
             kids == << k >>
             nodes == Append(q.nodes, Filled(q))
  <1>1. Wellformed(q) /\ q \in Parser /\ q.nodes \in Seq(GreenNode) /\ Linked(q.nodes)
    BY SoundParts DEF Sound, Wellformed
  <1>2. Follows(q, s)
    BY <1>1, FollowsItself, WrapFollows
  <1>3. Filled(q) \in GreenNode /\ ReferTo(Filled(q).kids, Len(q.nodes))
    BY <1>1, FilledType
  <1>4. AllNest(nodes) /\ Extends(nodes, q.nodes)
    BY <1>1, <1>3, AllNestAppend DEF Sound
  <1>5. Len(nodes) = i /\ nodes[i] = Filled(q) /\ i \in Nat \ {0}
    BY <1>1, <1>3, AppendProperties
  <1>6. k \in Child /\ ~ IsToken(k)
    BY <1>5, ChildType DEF IsToken
  <1>7. PartsOf(kids) = kids
    <2> HIDE DEF k
    <2>1. none \in Seq(Child) /\ kids = Append(none, k)
      OBVIOUS
    <2>2. PartsOf(none) = none
      BY PartsOfNone
    <2> HIDE DEF none, kids
    <2>3. PartsOf(kids) = WithPart(none, k)
      BY <1>6, <2>1, <2>2, PartsOfAppend
    <2> QED BY <1>6, <2>1, <2>3 DEF WithPart, Trivial
  <1>8. s = [q EXCEPT !.node = kind, !.kids = kids, !.nodes = nodes]
    BY DEF Wrap
  <1> HIDE DEF s, kids, nodes
  <1>9. /\ s.node = kind /\ s.kids = kids /\ s.nodes = nodes
        /\ s.toks = q.toks /\ s.at = q.at /\ s.err = q.err
    BY <1>1, <1>8 DEF Parser
  <1>10. Sound(s)
    <2>1. Wellformed(s)
      BY <1>1, <1>2 DEF Follows, Continues
    <2> QED BY <1>4, <1>9, <2>1 DEF Sound
  <1>11. i \in 1 .. Len(s.nodes)
    BY <1>5, <1>9
  <1> HIDE DEF i, k
  <1>12. PartsOf(s.kids) = << k >>
    BY <1>7, <1>9 DEF kids
  <1> QED BY <1>2, <1>4, <1>5, <1>9, <1>10, <1>11, <1>12 DEF s, i, k

-----------------------------------------------------------------------------
(* What the functions that are called keep.  An expression that was asked  *)
(* for at a level is one more part, which no weaker operator joins, and    *)
(* no operator follows that would be part of it.                           *)

AtLeast(nodes, n, p) == IsInfix(nodes, n) => InfixOf(n) \in Infixes /\ Level(InfixOf(n)) >= p
Adds(p, q, s) ==
    \/ PartsOf(s.kids) = PartsOf(q.kids)
    \/ \E i \in 1 .. Len(s.nodes) :
           PartsOf(s.kids) = Append(PartsOf(q.kids), [child |-> i]) /\ AtLeast(s.nodes, s.nodes[i], p)
Stops(p, s) == Ok(s) /\ Peek(s) \in Infixes => Level(Peek(s)) < p
ExprGrows(p, q, s) == Grows(q, s) /\ Adds(p, q, s) /\ Stops(p, s)

(* What the second part of an expression finds: a node whose operator can  *)
(* be the left operand of the next one; and what it leaves.                *)
Fits(inner, op) ==
    \/ Level(inner) > Level(op)
    \/ Level(inner) = Level(op) /\ op \notin RightAssociative
    \/ inner = "as"
Looped(p, q) ==
    /\ Sound(q)
    /\ Nests(q.nodes, Filled(q))
    /\ AtLeast(q.nodes, Filled(q), p)
Loops(p, q) ==
    /\ Looped(p, q)
    /\ IsInfix(q.nodes, Filled(q)) /\ Ok(q) /\ Peek(q) \in Infixes => Fits(InfixOf(Filled(q)), Peek(q))

Growing == {f \in [Parser -> Parser] : \A q \in Parser : Sound(q) => Grows(q, f[q])}
NestsExprs(sub) ==
    /\ KeepsExprs(sub)
    /\ \A p \in Int : \A q \in Parser : Sound(q) => ExprGrows(p, q, sub.Expr[p][q])
    /\ \A p \in Int : \A q \in Parser : Loops(p, q) => Looped(p, sub.InfixPart[p][q]) /\ Stops(p, sub.InfixPart[p][q])
    /\ \A t \in Terminals : sub.ArgList[t] \in Growing
    /\ sub.SubscriptList \in Growing
    /\ sub.GenericArgs \in Growing
    /\ \A d \in BOOLEAN : sub.IdRefEntries[d] \in Growing
    /\ \A q \in Parser : Sound(q) /\ q.node \in Structural => Named(q, sub.TypeSuffix[q])
    /\ sub.TypeName \in Growing
    /\ sub.MatchCases \in Growing

LEMMA CallGrows ==
    ASSUME NEW r, NEW q, Grows(r, q), NEW f \in Growing
    PROVE  Grows(r, f[q])
  <1>1. q \in Parser /\ Sound(q)
    BY SoundParts DEF Grows
  <1>2. Grows(q, f[q])
    BY <1>1 DEF Growing
  <1> QED BY <1>2, GrowsTransitive

LEMMA ExprGrowsOn ==
    ASSUME NEW sub, NestsExprs(sub), NEW r, NEW q, Grows(r, q), NEW p \in Int
    PROVE  Grows(r, sub.Expr[p][q]) /\ ExprGrows(p, q, sub.Expr[p][q])
  <1>1. q \in Parser /\ Sound(q)
    BY SoundParts DEF Grows
  <1>2. ExprGrows(p, q, sub.Expr[p][q])
    BY <1>1 DEF NestsExprs
  <1>3. Grows(q, sub.Expr[p][q])
    BY <1>2 DEF ExprGrows
  <1> QED BY <1>2, <1>3, GrowsTransitive

LEMMA ListsGrow ==
    ASSUME NEW sub, NestsExprs(sub), NEW r, NEW q, Grows(r, q)
    PROVE  /\ \A t \in Terminals : Grows(r, sub.ArgList[t][q])
           /\ Grows(r, sub.SubscriptList[q])
           /\ Grows(r, sub.GenericArgs[q])
           /\ \A d \in BOOLEAN : Grows(r, sub.IdRefEntries[d][q])
           /\ Grows(r, sub.TypeName[q])
           /\ Grows(r, sub.MatchCases[q])
  BY CallGrows DEF NestsExprs

LEMMA SeparatedGrows ==
    ASSUME NEW r, NEW q, Grows(r, q)
    PROVE  Grows(r, Separated(q))
  <1>1. Grows(r, Report(q, "ExpectingSingleToken"))
    BY ReportGrows DEF Errors
  <1> QED BY <1>1, TakeGrows DEF Separated

LEMMA BeginGrows ==
    ASSUME NEW r, NEW q, Grows(r, q), NEW kind \in NodeKinds
    PROVE  Grows(Begin(q, kind), Begin(q, kind))
  BY BeginSound DEF Grows

(* Arguments. *)
LEMMA ArgListGrows ==
    ASSUME NEW sub, NestsExprs(sub), NEW r, NEW q, Grows(r, q), NEW t \in Terminals
    PROVE  Grows(r, ArgList(sub, q, t))
  <1> DEFINE e == sub.Expr[0][q]
  <1>1. Grows(r, e)
    BY ExprGrowsOn
  <1>2. Grows(r, sub.ArgList[t][Separated(e)])
    BY <1>1, SeparatedGrows, ListsGrow
  <1> QED BY <1>1, <1>2 DEF ArgList, Then

LEMMA ArgsGrows ==
    ASSUME NEW sub, NestsExprs(sub), NEW r, NEW q, Grows(r, q), NEW t \in Terminals
    PROVE  Grows(r, Args(sub, q, t))
  <1> DEFINE a == Begin(q, "Args")
  <1>1. "Args" \in Structural /\ "Args" \in NodeKinds
    BY DEF Structural, NodeKinds
  <1>2. Grows(a, a) /\ Grows(a, sub.ArgList[t][a])
    BY <1>1, BeginGrows, ListsGrow
  <1> QED BY <1>1, <1>2, StructuralGrows DEF Args

LEMMA SubscriptListGrows ==
    ASSUME NEW sub, NestsExprs(sub), NEW r, NEW q, Grows(r, q)
    PROVE  Grows(r, SubscriptList(sub, q))
  <1> DEFINE e == SplitRDBrackets(sub.Expr[0][q])
  <1>1. Grows(r, e)
    BY ExprGrowsOn, SplitsGrow
  <1>2. Grows(r, sub.SubscriptList[Separated(e)])
    BY <1>1, SeparatedGrows, ListsGrow
  <1> QED BY <1>1, <1>2 DEF SubscriptList, Then

LEMMA SubscriptArgsGrows ==
    ASSUME NEW sub, NestsExprs(sub), NEW r, NEW q, Grows(r, q)
    PROVE  Grows(r, SubscriptArgs(sub, q))
  <1> DEFINE a == Begin(q, "Args")
  <1>1. "Args" \in Structural /\ "Args" \in NodeKinds
    BY DEF Structural, NodeKinds
  <1>2. Grows(a, sub.SubscriptList[SplitRDBrackets(a)])
    BY <1>1, BeginGrows, SplitsGrow, ListsGrow
  <1> QED BY <1>1, <1>2, StructuralGrows DEF SubscriptArgs

(* References and type names. *)
LEMMA GenericArgsGrows ==
    ASSUME NEW sub, NestsExprs(sub), NEW r, NEW q, Grows(r, q)
    PROVE  Grows(r, GenericArgs(sub, q))
  <1> DEFINE t == Adopt(q, sub.TypeName[Begin(q, "Unset")])
  <1>1. "Unset" \in Structural /\ "Unset" \in NodeKinds
    BY DEF Structural, NodeKinds
  <1>2. Grows(Begin(q, "Unset"), sub.TypeName[Begin(q, "Unset")])
    BY <1>1, BeginGrows, ListsGrow
  <1>3. Grows(r, t)
    BY <1>1, <1>2, StructuralGrows
  <1>4. Grows(r, sub.GenericArgs[Take(t)])
    BY <1>3, TakeGrows, ListsGrow
  <1> QED BY <1>3, <1>4 DEF GenericArgs, Then

LEMMA IdRefEntryGrows ==
    ASSUME NEW sub, NestsExprs(sub), NEW r, NEW q, Grows(r, q), NEW d
    PROVE  Grows(r, IdRefEntry(sub, q, d))
  <1> DEFINE n == Expect(q, "id")
             o == OpenGenericArgs(n)
  <1>1. Grows(r, n)
    BY ExpectGrows
  <1>2. Grows(r, o)
    BY <1>1, TakeGrows, ExpectGrows DEF OpenGenericArgs
  <1>3. Grows(r, Expect(SplitShr(sub.GenericArgs[o]), ">"))
    BY <1>2, ListsGrow, SplitsGrow, ExpectGrows
  <1> QED BY <1>1, <1>3 DEF IdRefEntry, Then

LEMMA IdRefEntriesGrow ==
    ASSUME NEW sub, NestsExprs(sub), NEW r, NEW q, Grows(r, q), NEW d \in BOOLEAN
    PROVE  Grows(r, IdRefEntries(sub, q, d))
  <1> DEFINE b == Begin(q, "IdRefEntry")
             e == Adopt(q, IdRefEntry(sub, b, d))
  <1>1. "IdRefEntry" \in Structural /\ "IdRefEntry" \in NodeKinds
    BY DEF Structural, NodeKinds
  <1>2. Grows(b, IdRefEntry(sub, b, d))
    BY <1>1, BeginGrows, IdRefEntryGrows
  <1>3. Grows(r, e)
    BY <1>1, <1>2, StructuralGrows
  <1>4. Grows(r, sub.IdRefEntries[d][Take(e)])
    BY <1>3, TakeGrows, ListsGrow
  <1> QED BY <1>3, <1>4 DEF IdRefEntries, Then

LEMMA IdRefHeadGrows ==
    ASSUME NEW sub, NestsExprs(sub), NEW r, NEW q, Grows(r, q), NEW d \in BOOLEAN
    PROVE  Grows(r, IdRefHead(sub, q, d))
  <1> DEFINE self == Peek(q) \in {"this", "super"}
             h == IF self \/ Peek(q) = "::" THEN Take(q) ELSE q
  <1>1. Grows(r, h)
    BY TakeGrows
  <1>2. Grows(r, sub.IdRefEntries[d][h]) /\ Grows(r, sub.IdRefEntries[d][Take(h)])
    BY <1>1, TakeGrows, ListsGrow
  <1> HIDE DEF self
  <1> QED BY <1>1, <1>2 DEF IdRefHead, Then, self

LEMMA IdRefGrows ==
    ASSUME NEW sub, NestsExprs(sub), NEW r, NEW q, Grows(r, q), NEW d \in BOOLEAN
    PROVE  Grows(r, IdRef(sub, q, d))
  <1>1. "IdRef" \in Structural /\ "IdRef" \in NodeKinds
    BY DEF Structural, NodeKinds
  <1>2. Grows(Begin(q, "IdRef"), IdRefHead(sub, Begin(q, "IdRef"), d))
    BY <1>1, BeginGrows, IdRefHeadGrows
  <1> QED BY <1>1, <1>2, StructuralGrows DEF IdRef

LEMMA AsNamed ==
    ASSUME NEW r, NEW q, Named(r, q), NEW kind \in Structural
    PROVE  Named(r, As(q, kind))
  <1> DEFINE s == As(q, kind)
  <1>1. Sound(q) /\ kind \in NodeKinds
    BY StructuralKinds DEF Named
  <1>2. Sound(s) /\ Follows(q, s) /\ s.node \in {q.node, kind}
    BY <1>1, AsSound
  <1> HIDE DEF s
  <1>3. Follows(r, s)
    BY <1>2, FollowsTransitive DEF Named
  <1>4. Named(r, s)
    BY <1>2, <1>3 DEF Named
  <1> QED BY <1>4 DEF s

LEMMA NamedItself ==
    ASSUME NEW r, NEW q, Named(r, q)
    PROVE  Grows(q, q)
  BY GrowsItself DEF Named

LEMMA TypeBaseNamed ==
    ASSUME NEW sub, NestsExprs(sub), NEW r, NEW q, Named(r, q)
    PROVE  Named(r, TypeBase(sub, q))
  <1> DEFINE a == As(q, "CustomTypeName")
  <1>1. Named(r, IdRef(sub, a, FALSE))
    <2>1. "CustomTypeName" \in Structural
      BY DEF Structural
    <2>2. Named(r, a)
      BY <2>1, AsNamed
    <2>3. Grows(a, IdRef(sub, a, FALSE))
      BY <2>2, NamedItself, IdRefGrows
    <2> QED BY <2>2, <2>3, NamedThen
  <1>2. Named(r, Take(q)) /\ Named(r, Fail(q, "UnexpectedToken"))
    <2>1. Grows(q, Take(q)) /\ Grows(q, Fail(q, "UnexpectedToken"))
      BY NamedItself, TakeGrows, FailGrows DEF Errors
    <2> QED BY <2>1, NamedThen
  <1> QED BY <1>1, <1>2 DEF TypeBase

LEMMA TypeModifiersGrow ==
    ASSUME NEW r, NEW q, Grows(r, q)
    PROVE  Grows(r, TypeModifiers(q))
  BY OptionalGrows, OptionalsGrow DEF TypeModifiers

LEMMA TypeSuffixNamed ==
    ASSUME NEW sub, NestsExprs(sub), NEW r, NEW q, Named(r, q)
    PROVE  Named(r, TypeSuffix(sub, q))
  <1> DEFINE m == TypeModifiers(q)
             w == Wrap(m, "ArrayTypeName")
             e == Expect(Take(w), "]")
  <1>1. Named(r, m)
    BY NamedItself, TypeModifiersGrow, NamedThen
  <1> HIDE DEF m
  <1>2. CASE ~ Ok(m)
    <2>1. TypeSuffix(sub, q) = m
      BY <1>2 DEF TypeSuffix, Then, m
    <2> QED BY <1>1, <2>1
  <1>3. CASE Ok(m)
    <2>1. Named(r, w)
      <3>1. "ArrayTypeName" \in Structural /\ "ArrayTypeName" \in NodeKinds
        BY DEF Structural, NodeKinds
      <3>2. Sound(m) /\ Nests(m.nodes, Filled(m))
        BY <1>1, StructuralNests DEF Named
      <3>3. Sound(w) /\ Follows(m, w) /\ w.node = "ArrayTypeName"
        BY <1>3, <3>1, <3>2, WrapSound
      <3> HIDE DEF w
      <3>4. Follows(r, w)
        BY <1>1, <3>3, FollowsTransitive DEF Named
      <3> QED BY <1>1, <3>1, <3>3, <3>4 DEF Named
    <2>2. Named(r, e)
      <3>1. Grows(w, e)
        BY <2>1, NamedItself, TakeGrows, ExpectGrows
      <3> QED BY <2>1, <3>1, NamedThen
    <2> HIDE DEF e
    <2>3. Named(e, sub.TypeSuffix[e])
      <3>1. Sound(e) /\ e \in Parser /\ e.node \in Structural
        BY <2>2, SoundParts DEF Named
      <3> QED BY <3>1 DEF NestsExprs
    <2>4. Named(r, sub.TypeSuffix[e])
      <3>1. Follows(r, sub.TypeSuffix[e])
        BY <2>2, <2>3, FollowsTransitive DEF Named
      <3> QED BY <2>2, <2>3, <3>1 DEF Named
    <2>5. TypeSuffix(sub, q) = IF Peek(m) = "[" THEN sub.TypeSuffix[e] ELSE m
      BY <1>3 DEF TypeSuffix, Then, m, e, w
    <2> QED BY <1>1, <2>4, <2>5
  <1> QED BY <1>2, <1>3

LEMMA TypeNameGrows ==
    ASSUME NEW sub, NestsExprs(sub), NEW r, NEW q, Grows(r, q)
    PROVE  Grows(r, TypeName(sub, q))
  <1> DEFINE b == Begin(q, "TypeName")
             base == TypeBase(sub, b)
             named == Optional(base, {"object"})
             suffix == sub.TypeSuffix[named]
             full == Optionals(suffix, {"ref"}, {"readonly"}, {"local"})
  <1>1. "TypeName" \in Structural /\ "TypeName" \in NodeKinds
    BY DEF Structural, NodeKinds
  <1>2. Named(b, b)
    <2>1. Grows(b, b) /\ b.node = "TypeName" /\ Sound(b)
      BY <1>1, BeginSound DEF Grows
    <2> HIDE DEF b
    <2> QED BY <1>1, <2>1 DEF Grows, Named
  <1> HIDE DEF b
  <1>3. Named(b, base)
    BY <1>2, TypeBaseNamed
  <1> HIDE DEF base
  <1>4. Named(b, named)
    BY <1>3, NamedItself, OptionalGrows, NamedThen
  <1> HIDE DEF named
  <1>5. Named(b, suffix)
    <2>1. Sound(named) /\ named \in Parser /\ named.node \in Structural
      BY <1>4, SoundParts DEF Named
    <2>2. Named(named, suffix)
      BY <2>1 DEF NestsExprs
    <2>3. Follows(b, suffix)
      BY <1>4, <2>2, FollowsTransitive DEF Named
    <2> QED BY <1>4, <2>2, <2>3 DEF Named
  <1> HIDE DEF suffix
  <1>6. Named(b, full)
    BY <1>5, NamedItself, OptionalsGrow, NamedThen
  <1> HIDE DEF full
  <1>7. Grows(r, Adopt(q, full))
    BY <1>1, <1>6, NamedGrows DEF b
  <1> QED BY <1>7 DEF TypeName, full, suffix, named, base, b

(* The match expression. *)
LEMMA MatchCaseGrows ==
    ASSUME NEW sub, NestsExprs(sub), NEW r, NEW q, Grows(r, q)
    PROVE  Grows(r, MatchCase(sub, q))
  <1>1. Grows(r, Label(sub, q))
    <2>1. 0 \in Int
      OBVIOUS
    <2> QED BY <2>1, ExpectGrows, ExprGrowsOn DEF Label
  <1>2. Grows(r, Try(q, LAMBDA s : Label(sub, s)))
    BY <1>1, NotedGrows DEF Try
  <1> DEFINE label == Try(q, LAMBDA s : Label(sub, s))
             colon == Try(label, LAMBDA s : Expect(s, ":"))
  <1> HIDE DEF label
  <1>3. Grows(r, colon)
    BY <1>2, ExpectGrows, NotedGrows DEF Try, label
  <1> HIDE DEF colon
  <1>4. Grows(r, Try(colon, LAMBDA s : sub.Expr[0][s]))
    BY <1>3, ExprGrowsOn, NotedGrows DEF Try
  <1> QED BY <1>4 DEF MatchCase, colon, label

LEMMA MatchCasesGrow ==
    ASSUME NEW sub, NestsExprs(sub), NEW r, NEW q, Grows(r, q)
    PROVE  Grows(r, MatchCases(sub, q))
  <1> DEFINE b == Begin(q, "MatchCase")
             c == Adopt(q, MatchCase(sub, b))
  <1>1. "MatchCase" \in Structural /\ "MatchCase" \in NodeKinds
    BY DEF Structural, NodeKinds
  <1>2. Grows(b, MatchCase(sub, b))
    BY <1>1, BeginGrows, MatchCaseGrows
  <1>3. Grows(r, c)
    BY <1>1, <1>2, StructuralGrows
  <1>4. Grows(r, sub.MatchCases[Separated(c)])
    BY <1>3, SeparatedGrows, ListsGrow
  <1> QED BY <1>3, <1>4 DEF MatchCases, Then

LEMMA MatchGrows ==
    ASSUME NEW sub, NestsExprs(sub), NEW r, NEW q, Grows(r, Take(As(q, "Match")))
    PROVE  Grows(r, Match(sub, q))
  <1> DEFINE open == Try(Take(As(q, "Match")), LAMBDA s : Expect(s, "("))
             value == Try(open, LAMBDA s : sub.Expr[0][s])
             close == Try(value, LAMBDA s : Expect(s, ")"))
             brace == Try(MatchType(sub, close), LAMBDA s : Expect(s, "{"))
             cases == sub.MatchCases[brace]
  <1>2. Grows(r, open)
    BY ExpectGrows, NotedGrows DEF Try
  <1> HIDE DEF open
  <1>3. Grows(r, value)
    BY <1>2, ExprGrowsOn, NotedGrows DEF Try
  <1> HIDE DEF value
  <1>4. Grows(r, close)
    BY <1>3, ExpectGrows, NotedGrows DEF Try
  <1> HIDE DEF close
  <1>5. Grows(r, MatchType(sub, close))
    BY <1>4, TakeGrows, ListsGrow DEF MatchType
  <1>6. Grows(r, brace)
    BY <1>5, ExpectGrows, NotedGrows DEF Try
  <1> HIDE DEF brace
  <1>7. Grows(r, cases)
    BY <1>6, ListsGrow
  <1> HIDE DEF cases
  <1>8. Grows(r, Try(cases, LAMBDA s : Expect(s, "}")))
    BY <1>7, ExpectGrows, NotedGrows DEF Try
  <1> QED BY <1>8 DEF Match, open, value, close, brace, cases

LEMMA JumpGrows ==
    ASSUME NEW sub, NestsExprs(sub), NEW r, NEW q, NEW t, Grows(r, Take(As(q, t)))
    PROVE  Grows(r, Jump(sub, q, t))
  <1> DEFINE j == Take(As(q, t))
  <1>3. Grows(r, Expect(Args(sub, Take(j), ")"), ")")) /\ Grows(r, sub.Expr[0][j])
    <2>1. ")" \in Terminals
      BY DEF Terminals
    <2> QED BY <2>1, TakeGrows, ArgsGrows, ExpectGrows, ExprGrowsOn
  <1> QED BY <1>3 DEF Jump, Then

LEMMA BracketsGrow ==
    ASSUME NEW sub, NestsExprs(sub), NEW r, NEW q, Grows(r, q)
    PROVE  /\ Grows(r, Expect(sub.Expr[-10][q], ")"))
           /\ Grows(r, Expect(Args(sub, Expect(sub.TypeName[q], "("), ")"), ")"))
           /\ Grows(r, Expect(Args(sub, q, "}"), "}"))
  <1>1. Grows(r, Expect(sub.Expr[-10][q], ")"))
    <2>1. -10 \in Int
      OBVIOUS
    <2> QED BY <2>1, ExprGrowsOn, ExpectGrows
  <1>2. ")" \in Terminals /\ "}" \in Terminals
    BY DEF Terminals
  <1>3. Grows(r, Expect(sub.TypeName[q], "("))
    BY ListsGrow, ExpectGrows
  <1>4. Grows(r, Expect(Args(sub, Expect(sub.TypeName[q], "("), ")"), ")"))
    BY <1>2, <1>3, ArgsGrows, ExpectGrows
  <1>5. Grows(r, Expect(Args(sub, q, "}"), "}"))
    BY <1>2, ArgsGrows, ExpectGrows
  <1> QED BY <1>1, <1>4, <1>5

(* What an expression begins with is not an expression and an operator. *)
Simple(q, s) == Follows(q, s) /\ Sound(s) /\ ~ IsInfix(s.nodes, Filled(s))
Leads(s) == Len(PartsOf(s.kids)) > 0 /\ IsToken(PartsOf(s.kids)[1])

LEMMA SimpleByToken ==
    ASSUME NEW q, NEW t, Follows(q, t), Leads(t), NEW s, Grows(t, s)
    PROVE  Simple(q, s)
  <1>1. PartsOf(t.kids) \in Seq(Child) /\ Extends(PartsOf(s.kids), PartsOf(t.kids))
    BY SoundParts DEF Grows, Growth
  <1>2. PartsOf(s.kids)[1] = PartsOf(t.kids)[1]
    BY <1>1 DEF Extends, Leads
  <1>3. Parts(Filled(s)) = PartsOf(s.kids)
    BY DEF Parts, Filled
  <1>4. ~ IsInfix(s.nodes, Filled(s))
    BY <1>2, <1>3 DEF IsInfix, IsExpr, Leads
  <1>5. Follows(q, s)
    BY FollowsTransitive DEF Grows
  <1> QED BY <1>4, <1>5 DEF Simple, Grows

LEMMA TokenReady ==
    ASSUME NEW q, Sound(q), Ok(q), Peek(q) # "end"
    PROVE  Ready(q)
  <1>1. Wellformed(q)
    BY DEF Sound
  <1>2. Solid(q) # 0
    <2> SUFFICES ASSUME Solid(q) = 0 PROVE Peek(q) = "end"
      OBVIOUS
    <2> QED BY <1>1 DEF Peek, Wellformed, Parser
  <1> QED BY <1>1, <1>2 DEF Ready

LEMMA TakenLeads ==
    ASSUME NEW q, Sound(q), Ready(q), PartsOf(q.kids) = <<>>, NEW kind \in NodeKinds
    PROVE  LET t == Take(As(q, kind)) IN Follows(q, t) /\ Leads(t) /\ Grows(t, t)
  <1> DEFINE a == As(q, kind)
             t == Take(a)
  <1>1. Sound(a) /\ Follows(q, a) /\ a.kids = q.kids /\ Ready(a)
    BY AsSound, AsReady
  <1> HIDE DEF a
  <1>2. PICK k : PartsOf(t.kids) = Append(PartsOf(a.kids), k) /\ IsToken(k)
    BY <1>1, TakePart
  <1>3. Grows(a, t)
    BY <1>1, GrowsItself, TakeGrows
  <1> HIDE DEF t
  <1>4. PartsOf(t.kids) = << k >>
    BY <1>1, <1>2
  <1>5. Leads(t)
    BY <1>2, <1>4 DEF Leads
  <1>6. Follows(q, t) /\ Grows(t, t)
    BY <1>1, <1>3, FollowsTransitive, GrowsItself DEF Grows
  <1> QED BY <1>5, <1>6 DEF t, a

LEMMA IdRefSimple ==
    ASSUME NEW sub, NestsExprs(sub), NEW q, Sound(q), Ok(q), PartsOf(q.kids) = <<>>,
           NEW kind \in NodeKinds
    PROVE  Simple(q, IdRef(sub, As(q, kind), TRUE))
  <1> DEFINE a == As(q, kind)
             b == Begin(a, "IdRef")
             c == IdRefHead(sub, b, TRUE)
             s == Adopt(a, c)
             i == Len(c.nodes) + 1
  <1>1. Sound(a) /\ Follows(q, a) /\ a.kids = q.kids /\ Ok(a)
    <2>1. a.err = q.err
      BY SoundParts DEF As, Parser
    <2> QED BY <2>1, AsSound DEF Ok
  <1> HIDE DEF a
  <1>2. "IdRef" \in Structural /\ "IdRef" \in NodeKinds
    BY DEF Structural, NodeKinds
  <1>3. Grows(b, b) /\ b.node = "IdRef"
    BY <1>1, <1>2, BeginSound
  <1>4. Grows(b, c)
    BY <1>3, IdRefHeadGrows
  <1>5. Follows(b, c) /\ Sound(c) /\ c.node = "IdRef"
    BY <1>3, <1>4 DEF Grows, Growth
  <1> HIDE DEF c
  <1>6. Nests(c.nodes, Filled(c))
    BY <1>2, <1>5, StructuralNests
  <1>7. /\ Sound(s) /\ Follows(a, s) /\ s.nodes[i] = Filled(c)
        /\ PartsOf(s.kids) = Append(PartsOf(a.kids), [child |-> i])
    BY <1>1, <1>2, <1>5, <1>6, AdoptParts
  <1> HIDE DEF s, i, b
  <1>8. Follows(q, s)
    BY <1>1, <1>7, FollowsTransitive
  <1>9. PartsOf(s.kids)[1] = [child |-> i]
    BY <1>1, <1>7
  <1>10. ~ IsInfix(s.nodes, Filled(s))
    <2>1. Parts(Filled(s)) = PartsOf(s.kids)
      BY DEF Parts, Filled
    <2>2. s.nodes[i].node \in Structural
      BY <1>2, <1>5, <1>7 DEF Filled
    <2> QED BY <1>9, <2>1, <2>2 DEF IsInfix, IsExpr
  <1>11. Simple(q, s)
    BY <1>7, <1>8, <1>10 DEF Simple
  <1> QED BY <1>11 DEF IdRef, s, c, b, a

LEMMA NoExprSimple ==
    ASSUME NEW q, Sound(q), Ok(q), PartsOf(q.kids) = <<>>
    PROVE  Simple(q, NoExpr(q))
  <1> DEFINE t == Take(q)
             s == Fail(t, "ExpectingExpr")
  <1>1. Grows(q, t)
    BY GrowsItself, TakeGrows
  <1>2. Grows(t, s)
    BY <1>1, GrowsItself, FailGrows DEF Grows, Errors
  <1>3. CASE Leads(t)
    BY <1>1, <1>2, <1>3, SimpleByToken DEF Grows, NoExpr
  <1>4. CASE PartsOf(t.kids) = <<>>
    <2>1. s.kids = t.kids
      BY <1>1, SoundParts DEF Grows, Fail, Parser
    <2>2. Parts(Filled(s)) = <<>>
      BY <1>4, <2>1 DEF Parts, Filled
    <2>3. ~ IsInfix(s.nodes, Filled(s))
      BY <2>2 DEF IsInfix
    <2>4. Follows(q, s)
      BY <1>1, <1>2, FollowsTransitive DEF Grows
    <2> HIDE DEF s
    <2>5. Simple(q, s)
      BY <1>2, <2>3, <2>4 DEF Simple, Grows
    <2> QED BY <2>5 DEF NoExpr, s
  <1>5. Leads(t) \/ PartsOf(t.kids) = <<>>
    <2>1. CASE Solid(q) = 0
      <3> DEFINE u == ToNextToken(q)
      <3>1. PartsOf(u.kids) = PartsOf(q.kids) /\ u \in Parser
        BY ToNextTokenParts, ToNextTokenGrows, GrowsItself, SoundParts DEF Sound, Grows
      <3>2. ~ Ok(u)
        <4>1. u = Fail(SkipTo(q, Len(q.toks) + 1), "ExpectingMoreTokens")
          BY <2>1 DEF ToNextToken
        <4> DEFINE v == SkipTo(q, Len(q.toks) + 1)
        <4>2. v \in Parser
          <5>1. q \in Parser /\ Len(q.toks) \in Nat
            BY SoundParts DEF Parser
          <5>2. Len(q.toks) + 1 \in Nat \ {0} /\ Len(q.toks) + 1 <= Len(q.toks) + 1
            BY <5>1
          <5> QED BY <5>1, <5>2, SkipToType
        <4> HIDE DEF u, v
        <4>3. Fail(v, "ExpectingMoreTokens").err # "none"
          BY <4>2 DEF Fail, Parser, Ok
        <4> QED BY <4>1, <4>3 DEF Ok, v
      <3>3. t = u
        BY <3>2 DEF Take, Collect
      <3> QED BY <3>1, <3>3
    <2>2. CASE Solid(q) # 0
      <3>1. Ready(q)
        BY <2>2 DEF Ready, Sound
      <3>2. PICK k : PartsOf(t.kids) = Append(PartsOf(q.kids), k) /\ IsToken(k)
        BY <3>1, TakePart
      <3> HIDE DEF t
      <3>3. PartsOf(t.kids) = << k >>
        BY <3>2
      <3> QED BY <3>2, <3>3 DEF Leads
    <2> QED BY <2>1, <2>2
  <1> QED BY <1>3, <1>4, <1>5

LEMMA PrefixSimple ==
    ASSUME NEW sub, NestsExprs(sub), NEW q, Sound(q), Ok(q), PartsOf(q.kids) = <<>>
    PROVE  Simple(q, Prefix(sub, q))
  <1> DEFINE t == Peek(q)
             taken(kind) == Take(As(q, kind))
             group(p) == Expect(sub.Expr[-10][p], ")")
             new(p) == Expect(Args(sub, Expect(sub.TypeName[p], "("), ")"), ")")
             list(p) == Expect(Args(sub, p, "}"), "}")
  <1>1. /\ "Group" \in NodeKinds /\ "New" \in NodeKinds /\ "Literal" \in NodeKinds
        /\ "Unary" \in NodeKinds /\ "InitializerList" \in NodeKinds /\ "Match" \in NodeKinds
        /\ "IdRefExpr" \in NodeKinds
        /\ \A kind \in {"break", "continue", "return", "yield"} : kind \in NodeKinds
    BY DEF NodeKinds
  <1>2. ASSUME NEW kind \in NodeKinds, t # "end"
        PROVE  Follows(q, taken(kind)) /\ Leads(taken(kind)) /\ Grows(taken(kind), taken(kind))
    BY <1>2, TokenReady, TakenLeads
  <1>3. ASSUME NEW kind \in NodeKinds, t # "end", NEW s, Grows(taken(kind), s)
        PROVE  Simple(q, s)
    <2> HIDE DEF taken
    <2> QED BY <1>2, <1>3, SimpleByToken
  <1>4. ASSUME t # "end" PROVE Simple(q, Match(sub, q))
    BY <1>1, <1>2, <1>3, <1>4, MatchGrows
  <1>5. ASSUME t # "end", NEW kind \in {"break", "continue", "return", "yield"}
        PROVE  Simple(q, Jump(sub, q, kind))
    BY <1>1, <1>2, <1>3, <1>5, JumpGrows
  <1>6. ASSUME NEW p, Grows(p, p)
        PROVE  Grows(p, group(p)) /\ Grows(p, new(p)) /\ Grows(p, list(p))
    BY <1>6, BracketsGrow
  <1>7. Simple(q, NoExpr(q))
    BY NoExprSimple
  <1>8. Simple(q, IdRef(sub, As(q, "IdRefExpr"), TRUE))
    BY <1>1, IdRefSimple
  <1> HIDE DEF taken, group, new, list
  <1>9. ASSUME t # "end"
        PROVE  /\ Simple(q, taken("Literal")) /\ Simple(q, taken("Unary"))
               /\ Simple(q, group(taken("Group"))) /\ Simple(q, new(taken("New")))
               /\ Simple(q, list(taken("InitializerList")))
    BY <1>1, <1>2, <1>3, <1>6, <1>9
  <1>10. t = "end" => t \notin {"this", "::", "id", "(", "new", "{", "match", "break", "continue",
                                "return", "yield"} /\ t \notin Literals /\ t \notin Unary
    BY DEF Literals, Unary
  <1>11. t = "end" => Prefix(sub, q) = NoExpr(q)
    BY <1>10, PrefixUnfolded
  <1>12. t # "end" => Simple(q, Prefix(sub, q))
    <2> SUFFICES ASSUME t # "end" PROVE Simple(q, Prefix(sub, q))
      OBVIOUS
    <2>1. Simple(q, Match(sub, q)) /\ (t \in {"break", "continue", "return", "yield"} => Simple(q, Jump(sub, q, t)))
      BY <1>4, <1>5
    <2> QED BY <1>7, <1>8, <1>9, <2>1, PrefixUnfolded DEF taken, group, new, list
  <1> QED BY <1>7, <1>11, <1>12

-----------------------------------------------------------------------------
(* Operators and their operands.                                           *)

LEMMA LevelFacts ==
    ASSUME NEW op \in Infixes
    PROVE  /\ Level(op) \in 1 .. 140
           /\ op \in Assignment <=> Level(op) = 1
           /\ op = "?" <=> Level(op) = 10
           /\ op \in {"(", "[", "."} <=> Level(op) = 140
           /\ op \in Binary \/ op \in {"(", "[", ".", "as", "?"}
           /\ op # "end"
  <1>1. Level(op) \in 1 .. 140
    BY DEF Infixes, Binary, Product, Sum, Shift, Relation, Equality, Assignment, Level
  <1>2. op \in Assignment <=> Level(op) = 1
    BY DEF Infixes, Binary, Product, Sum, Shift, Relation, Equality, Assignment, Level
  <1>3. op = "?" <=> Level(op) = 10
    BY DEF Infixes, Binary, Product, Sum, Shift, Relation, Equality, Assignment, Level
  <1>4. op \in {"(", "[", "."} <=> Level(op) = 140
    BY DEF Infixes, Binary, Product, Sum, Shift, Relation, Equality, Assignment, Level
  <1>5. op \in Binary \/ op \in {"(", "[", ".", "as", "?"}
    BY DEF Infixes
  <1>6. op # "end"
    BY DEF Infixes, Binary, Product, Sum, Shift, Relation, Equality, Assignment
  <1> QED BY <1>1, <1>2, <1>3, <1>4, <1>5, <1>6

(* The level of the right operand. *)
RightLevel(op) == IF op = "?" THEN 10 ELSE OperandLevel(op)

LEMMA RightLevelFacts ==
    ASSUME NEW op \in Infixes
    PROVE  /\ RightLevel(op) \in Int
           /\ \A inner \in Infixes : Level(inner) >= RightLevel(op) =>
                  \/ Level(inner) > Level(op)
                  \/ op \in RightAssociative /\ Level(inner) = Level(op)
           /\ \A next \in Infixes : Level(next) < RightLevel(op) => Fits(op, next)
  <1>1. Level(op) \in 1 .. 140 /\ (op \in Assignment <=> Level(op) = 1) /\ (op = "?" <=> Level(op) = 10)
    BY LevelFacts
  <1>2. RightLevel(op) = IF Level(op) = 10 THEN 10 ELSE IF Level(op) = 1 THEN 0 ELSE Level(op) + 1
    BY <1>1 DEF RightLevel, OperandLevel
  <1>3. op \in RightAssociative <=> Level(op) \in {1, 10}
    BY <1>1 DEF RightAssociative
  <1>4. ASSUME NEW inner \in Infixes, Level(inner) >= RightLevel(op)
        PROVE  Level(inner) > Level(op) \/ (op \in RightAssociative /\ Level(inner) = Level(op))
    <2>1. Level(inner) \in 1 .. 140
      BY LevelFacts
    <2> QED BY <1>1, <1>2, <1>3, <1>4, <2>1
  <1>5. ASSUME NEW next \in Infixes, Level(next) < RightLevel(op)
        PROVE  Fits(op, next)
    <2>1. Level(next) \in 1 .. 140 /\ (next \in RightAssociative => Level(next) \in {1, 10})
      BY LevelFacts DEF RightAssociative
    <2>2. Level(op) > Level(next) \/ (Level(op) = Level(next) /\ next \notin RightAssociative)
      BY <1>1, <1>2, <1>5, <2>1
    <2> QED BY <2>2 DEF Fits
  <1> QED BY <1>1, <1>2, <1>4, <1>5

LEMMA FitsAlways ==
    ASSUME NEW op \in Infixes, op \notin Binary \cup {"?"}, NEW next \in Infixes
    PROVE  Fits(op, next)
  <1>1. op = "as" \/ Level(op) = 140
    BY LevelFacts
  <1>2. Level(next) \in 1 .. 140 /\ (next \in RightAssociative => Level(next) \in {1, 10})
    BY LevelFacts DEF RightAssociative
  <1> QED BY <1>1, <1>2 DEF Fits

(* The last part so far can be the right operand of op. *)
RightTight(op, s) ==
    LET parts == PartsOf(s.kids)
    IN /\ Len(parts) > 0
       /\ Tighter(s.nodes, parts[Len(parts)], op, op \in RightAssociative)

LEMMA PartsRefer ==
    ASSUME NEW q, Sound(q)
    PROVE  /\ PartsOf(q.kids) \in Seq(Child)
           /\ \A j \in 1 .. Len(PartsOf(q.kids)) :
                  IsToken(PartsOf(q.kids)[j]) \/ PartsOf(q.kids)[j].child \in 1 .. Len(q.nodes)
           /\ q.nodes \in Seq(GreenNode) /\ Linked(q.nodes)
  <1>1. q.kids \in Seq(Child) /\ q.nodes \in Seq(GreenNode) /\ ReferTo(q.kids, Len(q.nodes)) /\ Linked(q.nodes)
    BY SoundParts DEF Sound, Wellformed
  <1>2. Len(q.nodes) \in Nat
    BY <1>1
  <1>3. ReferTo(PartsOf(q.kids), Len(q.nodes))
    BY <1>1, <1>2, PartsReferTo
  <1> QED BY <1>1, <1>3, PartsType DEF ReferTo

LEMMA GrowsExtends ==
    ASSUME NEW q, NEW s, Grows(q, s)
    PROVE  Extends(s.nodes, q.nodes)
  BY DEF Grows, Follows, Sound, Continues, Extends

LEMMA RightTightKept ==
    ASSUME NEW op, NEW q, RightTight(op, q), NEW s, Grows(q, s), PartsOf(s.kids) = PartsOf(q.kids)
    PROVE  RightTight(op, s)
  <1> DEFINE parts == PartsOf(q.kids)
             k == parts[Len(parts)]
  <1>1. Len(parts) > 0 /\ Tighter(q.nodes, k, op, op \in RightAssociative)
    BY DEF RightTight
  <1>2. /\ parts \in Seq(Child) /\ q.nodes \in Seq(GreenNode) /\ Linked(q.nodes)
        /\ \A j \in 1 .. Len(parts) : IsToken(parts[j]) \/ parts[j].child \in 1 .. Len(q.nodes)
    BY PartsRefer DEF Grows
  <1> HIDE DEF parts
  <1>3. IsToken(k) \/ k.child \in 1 .. Len(q.nodes)
    BY <1>1, <1>2
  <1>4. Extends(s.nodes, q.nodes)
    BY GrowsExtends
  <1>5. Tighter(s.nodes, k, op, op \in RightAssociative)
    BY <1>1, <1>2, <1>3, <1>4, TighterStable
  <1> QED BY <1>1, <1>5 DEF RightTight, parts

LEMMA RightExpr ==
    ASSUME NEW op \in Infixes, NEW q, RightTight(op, q), NEW s, ExprGrows(RightLevel(op), q, s)
    PROVE  RightTight(op, s)
  <1>1. Grows(q, s)
    BY DEF ExprGrows
  <1>2. CASE PartsOf(s.kids) = PartsOf(q.kids)
    BY <1>1, <1>2, RightTightKept
  <1>3. ASSUME NEW i \in 1 .. Len(s.nodes), PartsOf(s.kids) = Append(PartsOf(q.kids), [child |-> i]),
               AtLeast(s.nodes, s.nodes[i], RightLevel(op))
        PROVE  RightTight(op, s)
    <2> DEFINE parts == PartsOf(s.kids)
               k == [child |-> i]
    <2>1. PartsOf(q.kids) \in Seq(Child)
      BY <1>1, SoundParts DEF Grows
    <2>2. Len(parts) > 0 /\ parts[Len(parts)] = k
      <3> HIDE DEF k, parts
      <3>1. parts = Append(PartsOf(q.kids), k)
        BY <1>3 DEF parts, k
      <3> QED BY <2>1, <3>1
    <2>3. IsInfix(s.nodes, s.nodes[i]) =>
            \/ Level(InfixOf(s.nodes[i])) > Level(op)
            \/ op \in RightAssociative /\ Level(InfixOf(s.nodes[i])) = Level(op)
      BY <1>3, RightLevelFacts DEF AtLeast
    <2>4. Tighter(s.nodes, k, op, op \in RightAssociative)
      BY <2>3 DEF Tighter
    <2> HIDE DEF k
    <2> QED BY <2>2, <2>4 DEF RightTight
  <1> QED BY <1>2, <1>3 DEF ExprGrows, Adds

LEMMA RightToken ==
    ASSUME NEW op, NEW s, Sound(s), NEW parts \in Seq(Child), NEW k, IsToken(k), k \in Child,
           PartsOf(s.kids) = Append(parts, k)
    PROVE  RightTight(op, s)
  <1>1. Len(PartsOf(s.kids)) > 0 /\ PartsOf(s.kids)[Len(PartsOf(s.kids))] = k
    OBVIOUS
  <1>2. Tighter(s.nodes, k, op, op \in RightAssociative)
    BY DEF Tighter
  <1> QED BY <1>1, <1>2 DEF RightTight

LEMMA CollectRight ==
    ASSUME NEW op, NEW q, Sound(q), RightTight(op, q)
    PROVE  RightTight(op, Collect(q))
  <1> DEFINE s == Collect(q)
             k == q.toks[q.at]
             kids == Append(q.kids, k)
  <1>1. Grows(q, s)
    BY GrowsItself, CollectGrows
  <1>2. CASE ~ Ok(q) \/ q.at > Len(q.toks)
    <2>1. s.kids = q.kids
      BY <1>2, SoundParts DEF Collect, Fail, Parser
    <2> QED BY <1>1, <2>1, RightTightKept
  <1>3. CASE Ok(q) /\ ~ (q.at > Len(q.toks))
    <2>1. q \in Parser /\ q.toks \in Seq(Token) /\ q.kids \in Seq(Child) /\ q.at \in Nat \ {0} /\ Len(q.toks) \in Nat
      BY WellformedType DEF Sound
    <2>2. k \in Token
      BY <1>3, <2>1, ElementOfSeq
    <2>3. IsToken(k) /\ k \in Child
      BY <2>2, TokenIsPart
    <2>4. s = [q EXCEPT !.kids = kids, !.at = q.at + 1]
      BY <1>3 DEF Collect
    <2>5. PartsOf(kids) = WithPart(PartsOf(q.kids), k)
      BY <2>1, <2>3, PartsOfAppend
    <2> HIDE DEF kids, k, s
    <2>6. s.kids = kids
      BY <2>1, <2>4 DEF Parser
    <2>7. CASE PartsOf(s.kids) = PartsOf(q.kids)
      <3>1. RightTight(op, s)
        BY <1>1, <2>7, RightTightKept
      <3> QED BY <3>1 DEF s
    <2>8. CASE PartsOf(s.kids) = Append(PartsOf(q.kids), k)
      <3>1. PartsOf(q.kids) \in Seq(Child) /\ Sound(s)
        BY <1>1, SoundParts DEF Grows
      <3>2. RightTight(op, s)
        BY <2>3, <2>8, <3>1, RightToken
      <3> QED BY <3>2 DEF s
    <2> QED BY <2>5, <2>6, <2>7, <2>8 DEF WithPart
  <1> QED BY <1>2, <1>3

LEMMA ExpectRight ==
    ASSUME NEW op, NEW q, Sound(q), RightTight(op, q), NEW kind
    PROVE  RightTight(op, Expect(q, kind))
  <1> DEFINE t == ToNextToken(q)
             f == Fail(t, "ExpectingSingleToken")
  <1>1. Grows(q, t)
    BY GrowsItself, ToNextTokenGrows
  <1>2. PartsOf(t.kids) = PartsOf(q.kids)
    BY ToNextTokenParts DEF Sound
  <1>3. RightTight(op, t) /\ Sound(t)
    BY <1>1, <1>2, RightTightKept DEF Grows
  <1> HIDE DEF t
  <1>4. RightTight(op, Collect(t))
    BY <1>3, CollectRight
  <1>5. RightTight(op, f)
    <2>1. Grows(t, f)
      BY <1>3, GrowsItself, FailGrows DEF Errors
    <2>2. f.kids = t.kids
      BY <1>3, SoundParts DEF Fail, Parser
    <2> HIDE DEF f
    <2> QED BY <1>3, <2>1, <2>2, RightTightKept
  <1> QED BY <1>3, <1>4, <1>5 DEF Expect, Then, t

LEMMA OperandGrows ==
    ASSUME NEW sub, NestsExprs(sub), NEW q, Sound(q), NEW op \in Infixes, RightTight(op, q)
    PROVE  LET o == Operand(sub, q, op)
           IN /\ Grows(q, o)
              /\ op \in Binary \cup {"?"} => RightTight(op, o) /\ Stops(RightLevel(op), o)
  <1> DEFINE call == Expect(Args(sub, q, ")"), ")")
             subscript == Expect(SubscriptArgs(sub, q), "]")
             member == IdRef(sub, q, TRUE)
             cast == sub.TypeName[q]
             first == sub.Expr[10][q]
             colon == Expect(first, ":")
             second == sub.Expr[10][colon]
             right == sub.Expr[OperandLevel(op)][q]
  <1>1. Grows(q, q)
    BY GrowsItself
  <1>2. Grows(q, call) /\ Grows(q, subscript) /\ Grows(q, member) /\ Grows(q, cast)
    <2>1. ")" \in Terminals /\ TRUE \in BOOLEAN
      BY DEF Terminals
    <2> QED BY <1>1, <2>1, ArgsGrows, SubscriptArgsGrows, IdRefGrows, ListsGrow, ExpectGrows
  <1>3. op = "?" => Grows(q, second) /\ RightTight(op, second) /\ Stops(RightLevel(op), second)
    <2> SUFFICES ASSUME op = "?"
                 PROVE  Grows(q, second) /\ RightTight(op, second) /\ Stops(RightLevel(op), second)
      OBVIOUS
    <2>1. RightLevel(op) = 10 /\ 10 \in Int
      BY DEF RightLevel
    <2>2. Grows(q, first) /\ ExprGrows(RightLevel(op), q, first)
      BY <1>1, <2>1, ExprGrowsOn
    <2>3. RightTight(op, first)
      BY <2>2, RightExpr
    <2> HIDE DEF first
    <2>4. Grows(q, colon) /\ RightTight(op, colon)
      BY <2>2, <2>3, ExpectGrows, ExpectRight DEF Grows
    <2> HIDE DEF colon
    <2>5. Grows(q, second) /\ ExprGrows(RightLevel(op), colon, second)
      BY <2>1, <2>4, ExprGrowsOn
    <2>6. RightTight(op, second)
      BY <2>4, <2>5, RightExpr
    <2> QED BY <2>5, <2>6 DEF ExprGrows
  <1>4. op # "?" => Grows(q, right) /\ RightTight(op, right) /\ Stops(RightLevel(op), right)
    <2> SUFFICES ASSUME op # "?"
                 PROVE  Grows(q, right) /\ RightTight(op, right) /\ Stops(RightLevel(op), right)
      OBVIOUS
    <2>1. RightLevel(op) = OperandLevel(op) /\ RightLevel(op) \in Int
      BY RightLevelFacts DEF RightLevel
    <2>2. Grows(q, right) /\ ExprGrows(RightLevel(op), q, right)
      BY <1>1, <2>1, ExprGrowsOn
    <2> QED BY <2>2, RightExpr DEF ExprGrows
  <1>5. /\ op \in Binary => op \notin {"(", "[", ".", "as", "?"}
        /\ op \notin Binary => op \in {"(", "[", ".", "as", "?"}
    BY DEF Infixes, Binary, Product, Sum, Shift, Relation, Equality, Assignment
  <1>6. Operand(sub, q, op) = CASE op = "(" -> call
                                [] op = "[" -> subscript
                                [] op = "." -> member
                                [] op = "as" -> cast
                                [] op = "?" -> second
                                [] OTHER -> right
    BY Zenon DEF Operand
  <1> HIDE DEF call, subscript, member, cast, second, right
  <1>7. \/ op = "(" /\ Operand(sub, q, op) = call
        \/ op = "[" /\ Operand(sub, q, op) = subscript
        \/ op = "." /\ Operand(sub, q, op) = member
        \/ op = "as" /\ Operand(sub, q, op) = cast
        \/ op = "?" /\ Operand(sub, q, op) = second
        \/ op \in Binary /\ Operand(sub, q, op) = right
    BY <1>5, <1>6
  <1> QED BY <1>2, <1>3, <1>4, <1>5, <1>7

LEMMA SamePlace ==
    ASSUME NEW q, NEW s, s.toks = q.toks, s.at = q.at, s.err = q.err
    PROVE  Solid(s) = Solid(q) /\ Peek(s) = Peek(q) /\ (Ok(s) <=> Ok(q))
  <1>1. Solid(s) = Solid(q)
    BY DEF Solid
  <1> QED BY <1>1 DEF Peek, Ok

(* The operator is taken and its right operand parsed: the node is again   *)
(* one that the loop can go on with.                                       *)
LEMMA InfixTurn ==
    ASSUME NEW sub, NestsExprs(sub), NEW p \in Int, NEW q, Loops(p, q), Ok(q),
           Peek(q) \in Infixes, p <= Level(Peek(q))
    PROVE  Loops(p, Operand(sub, Take(Wrap(q, Operation(Peek(q)))), Peek(q)))
  <1> DEFINE op == Peek(q)
             kind == Operation(op)
             w == Wrap(q, kind)
             i == Len(q.nodes) + 1
             first == [child |-> i]
             t == Take(w)
             k == w.toks[Solid(w)]
             o == Operand(sub, t, op)
  <1>1. Sound(q) /\ Nests(q.nodes, Filled(q)) /\ q \in Parser
    BY SoundParts DEF Loops, Looped
  <1>2. op \in Infixes /\ op # "end" /\ kind \in NodeKinds
    BY LevelFacts, LevelType
  <1>3. Ready(q)
    BY <1>1, <1>2, TokenReady
  <1>4. /\ Sound(w) /\ Follows(q, w) /\ PartsOf(w.kids) = << first >>
        /\ Extends(w.nodes, q.nodes) /\ i \in 1 .. Len(w.nodes) /\ w.nodes[i] = Filled(q)
        /\ w.toks = q.toks /\ w.at = q.at /\ w.err = q.err
    BY <1>1, <1>2, WrapSound
  <1>5. Ready(w) /\ Peek(w) = op
    <2> HIDE DEF w
    <2>1. Solid(w) = Solid(q) /\ Peek(w) = Peek(q) /\ Ok(w)
      BY <1>4, SamePlace
    <2> QED BY <1>3, <1>4, <2>1 DEF Ready, Sound
  <1> HIDE DEF w, kind
  <1>6. /\ PartsOf(t.kids) = Append(PartsOf(w.kids), k)
        /\ IsToken(k) /\ k.id = op /\ t.nodes = w.nodes
    BY <1>5, TakePart
  <1>7. Grows(w, t) /\ Sound(t)
    BY <1>4, GrowsItself, TakeGrows DEF Grows
  <1>8. /\ PartsOf(t.kids) \in Seq(Child) /\ Len(PartsOf(t.kids)) = 2
        /\ PartsOf(t.kids)[1] = first /\ PartsOf(t.kids)[2] = k
    <2> DEFINE one == PartsOf(w.kids)
    <2>1. Len(one) = 1 /\ one[1] = first
      BY <1>4
    <2>2. one \in Seq(Child) /\ PartsOf(t.kids) \in Seq(Child)
      BY <1>4, <1>7, SoundParts
    <2> HIDE DEF one, first, k, t
    <2> QED BY <1>6, <2>1, <2>2 DEF one
  <1> HIDE DEF k
  <1>9. RightTight(op, t)
    <2>1. PartsOf(t.kids)[Len(PartsOf(t.kids))] = k
      BY <1>8
    <2>2. Tighter(t.nodes, k, op, op \in RightAssociative)
      BY <1>6 DEF Tighter
    <2> QED BY <1>8, <2>1, <2>2 DEF RightTight
  <1> HIDE DEF t
  <1>10. Grows(t, o) /\ (op \in Binary \cup {"?"} => RightTight(op, o) /\ Stops(RightLevel(op), o))
    BY <1>2, <1>7, <1>9, OperandGrows
  <1> HIDE DEF o
  <1> DEFINE parts == PartsOf(o.kids)
             n == Filled(o)
  <1>11. Sound(o) /\ parts \in Seq(Child) /\ Len(parts) >= 2 /\ parts[1] = first /\ parts[2] = k
    <2>1. Sound(o) /\ Extends(parts, PartsOf(t.kids)) /\ parts \in Seq(Child)
      BY <1>10, SoundParts DEF Grows, Growth
    <2>2. Len(parts) >= 2 /\ parts[1] = PartsOf(t.kids)[1] /\ parts[2] = PartsOf(t.kids)[2]
      BY <1>8, <2>1 DEF Extends
    <2> QED BY <1>8, <2>1, <2>2
  <1>12. Parts(n) = parts
    BY DEF Parts, Filled
  <1>13. InfixOf(n) = op /\ Left(n) = first /\ Right(n) = parts[Len(parts)]
    BY <1>6, <1>11, <1>12 DEF InfixOf, Left, Right
  <1>14. Extends(o.nodes, q.nodes) /\ o.nodes[i] = Filled(q)
    <2>1. Extends(o.nodes, w.nodes)
      BY <1>6, <1>10, GrowsExtends
    <2>2. o.nodes[i] = w.nodes[i]
      BY <1>4, <2>1 DEF Extends
    <2>3. q.nodes \in Seq(GreenNode) /\ w.nodes \in Seq(GreenNode) /\ o.nodes \in Seq(GreenNode)
      BY <1>1, <1>4, <1>11, SoundParts
    <2> QED BY <1>4, <2>1, <2>2, <2>3, ExtendsTransitive
  <1>15. IsInfix(o.nodes, Filled(q)) <=> IsInfix(q.nodes, Filled(q))
    <2>1. q.nodes \in Seq(GreenNode) /\ Linked(q.nodes) /\ Wellformed(q)
      BY <1>1, PartsRefer DEF Sound
    <2>2. Filled(q).kids \in Seq(Child) /\ ReferTo(Filled(q).kids, Len(q.nodes))
      BY <1>1, <2>1, FilledType DEF GreenNode
    <2> QED BY <1>14, <2>1, <2>2, InfixStable
  <1> HIDE DEF parts, i
  <1>16. \/ Tighter(o.nodes, Left(n), op, op \notin RightAssociative)
         \/ InfixOf(o.nodes[Left(n).child]) = "as"
    <2>1. Left(n).child = i /\ o.nodes[Left(n).child] = Filled(q)
      BY <1>13, <1>14
    <2>2. IsInfix(q.nodes, Filled(q)) => Fits(InfixOf(Filled(q)), op)
      BY DEF Loops
    <2> QED BY <1>15, <2>1, <2>2 DEF Tighter, Fits
  <1>17. op \in Binary \cup {"?"} => Tighter(o.nodes, Right(n), op, op \in RightAssociative)
    BY <1>10, <1>13 DEF RightTight, parts
  <1>18. Nests(o.nodes, n)
    BY <1>13, <1>16, <1>17 DEF Nests
  <1>19. AtLeast(o.nodes, n, p)
    BY <1>2, <1>13, LevelType DEF AtLeast
  <1>20. ASSUME Ok(o), Peek(o) \in Infixes PROVE Fits(InfixOf(n), Peek(o))
    <2>1. CASE op \in Binary \cup {"?"}
      <3>1. Level(Peek(o)) < RightLevel(op)
        BY <1>10, <1>20, <2>1 DEF Stops
      <3> QED BY <1>2, <1>13, <1>20, <3>1, RightLevelFacts
    <2>2. CASE op \notin Binary \cup {"?"}
      BY <1>2, <1>13, <1>20, <2>2, FitsAlways
    <2> QED BY <2>1, <2>2
  <1>21. Loops(p, o)
    BY <1>11, <1>18, <1>19, <1>20 DEF Loops, Looped
  <1> QED BY <1>21 DEF o, t, w, kind

LEMMA InfixPartLooped ==
    ASSUME NEW sub, NestsExprs(sub), NEW p \in Int, NEW q, Loops(p, q)
    PROVE  Looped(p, InfixPart(sub, q, p)) /\ Stops(p, InfixPart(sub, q, p))
  <1> DEFINE op == Peek(q)
             o == Operand(sub, Take(Wrap(q, Operation(op))), op)
             goesOn == Ok(q) /\ op \in Infixes /\ p <= Level(op)
  <1>1. InfixPart(sub, q, p) = IF goesOn THEN sub.InfixPart[p][o] ELSE q
    BY DEF InfixPart
  <1>2. goesOn => Loops(p, o)
    BY InfixTurn
  <1>3. goesOn => Looped(p, sub.InfixPart[p][o]) /\ Stops(p, sub.InfixPart[p][o])
    <2> SUFFICES ASSUME Loops(p, o) PROVE Looped(p, sub.InfixPart[p][o]) /\ Stops(p, sub.InfixPart[p][o])
      BY <1>2
    <2> HIDE DEF o
    <2>1. o \in Parser
      BY SoundParts DEF Loops, Looped
    <2> QED BY <2>1 DEF NestsExprs
  <1>4. ~ goesOn => Looped(p, q) /\ Stops(p, q)
    BY LevelType DEF Loops, Stops
  <1> HIDE DEF o, goesOn
  <1> QED BY <1>1, <1>3, <1>4

LEMMA ExprNests ==
    ASSUME NEW sub, NestsExprs(sub), NEW p \in Int, NEW q, Sound(q)
    PROVE  ExprGrows(p, q, Expr(sub, q, p))
  <1> DEFINE b == Begin(q, "Invalid")
             prefix == Prefix(sub, b)
             c == sub.InfixPart[p][prefix]
             s == Adopt(q, c)
             i == Len(c.nodes) + 1
  <1>1. CASE ~ Ok(q)
    <2>1. Expr(sub, q, p) = q
      BY <1>1 DEF Expr, Then
    <2>2. Grows(q, q)
      BY GrowsItself
    <2> QED BY <1>1, <2>1, <2>2 DEF ExprGrows, Adds, Stops
  <1>2. CASE Ok(q)
    <2>1. "Invalid" \in NodeKinds
      BY DEF NodeKinds
    <2>2. Sound(b) /\ Ok(b) /\ PartsOf(b.kids) = <<>>
      <3>1. Sound(b) /\ PartsOf(b.kids) = <<>> /\ b.err = q.err
        BY <2>1, BeginSound
      <3> QED BY <1>2, <3>1 DEF Ok
    <2> HIDE DEF b
    <2>3. Simple(b, prefix)
      BY <2>2, PrefixSimple
    <2> HIDE DEF prefix
    <2>4. Loops(p, prefix) /\ prefix \in Parser
      BY <2>3, SoundParts DEF Loops, Looped, AtLeast, Nests, Simple
    <2>5. Looped(p, c) /\ Stops(p, c)
      BY <2>4 DEF NestsExprs
    <2>6. Follows(b, c)
      <3>1. KeepsExprs(sub) /\ Follows(b, prefix)
        BY <2>3 DEF NestsExprs, Simple
      <3> QED BY <3>1, ExprFollows
    <2> HIDE DEF c
    <2>7. Sound(c) /\ Nests(c.nodes, Filled(c)) /\ AtLeast(c.nodes, Filled(c), p)
      BY <2>5 DEF Looped
    <2>8. /\ PartsOf(s.kids) = Append(PartsOf(q.kids), [child |-> i])
          /\ Extends(s.nodes, c.nodes) /\ i \in 1 .. Len(s.nodes) /\ s.nodes[i] = Filled(c)
          /\ s.toks = c.toks /\ s.at = c.at /\ s.err = c.err
      BY <1>2, <2>1, <2>6, <2>7, AdoptParts DEF b
    <2>9. Grows(q, s)
      BY <2>1, <2>6, <2>7, GrowsItself, AdoptGrows DEF b
    <2> HIDE DEF s, i
    <2>10. AtLeast(s.nodes, s.nodes[i], p)
      <3>1. c.nodes \in Seq(GreenNode) /\ Wellformed(c) /\ c \in Parser
        BY <2>7, SoundParts DEF Sound
      <3>2. Filled(c).kids \in Seq(Child) /\ ReferTo(Filled(c).kids, Len(c.nodes))
        BY <3>1, FilledType DEF GreenNode
      <3>3. IsInfix(s.nodes, Filled(c)) <=> IsInfix(c.nodes, Filled(c))
        BY <2>8, <3>1, <3>2, InfixStable
      <3> QED BY <2>7, <2>8, <3>3 DEF AtLeast
    <2>11. Adds(p, q, s)
      BY <2>8, <2>10 DEF Adds
    <2>12. Stops(p, s)
      <3>1. Peek(s) = Peek(c) /\ (Ok(s) <=> Ok(c))
        BY <2>8, SamePlace
      <3> QED BY <2>5, <3>1 DEF Stops
    <2>13. ExprGrows(p, q, s)
      BY <2>9, <2>11, <2>12 DEF ExprGrows
    <2>14. Expr(sub, q, p) = s
      BY <1>2 DEF Expr, Then, s, c, prefix, b
    <2> QED BY <2>13, <2>14
  <1> QED BY <1>1, <1>2

-----------------------------------------------------------------------------
(* All functions keep it, by induction on the depth of calls.              *)

LEMMA NoExprFunctionsNest == NestsExprs(NoExprFunctions)
  <1> DEFINE f == NoReturn
  <1>1. f \in [Parser -> Parser] /\ \A q \in Parser : f[q] = Fail(q, "endless")
    <2>1. f \in [Parser -> Parser]
      BY NoReturnKeeps DEF Keeping
    <2> QED BY <2>1 DEF NoReturn
  <1>2. ASSUME NEW q \in Parser, Sound(q)
        PROVE  Grows(q, f[q]) /\ ~ Ok(f[q]) /\ f[q].kids = q.kids /\ f[q].nodes = q.nodes
               /\ f[q].node = q.node
    <2> DEFINE s == Fail(q, "endless")
    <2>1. Grows(q, s)
      BY <1>2, GrowsItself, FailGrows
    <2>2. ~ Ok(s) /\ s.kids = q.kids /\ s.nodes = q.nodes /\ s.node = q.node
      BY DEF Fail, Parser, Ok
    <2> HIDE DEF s, f
    <2>3. f[q] = s
      BY <1>1 DEF s
    <2> QED BY <2>1, <2>2, <2>3
  <1>3. KeepsExprs(NoExprFunctions)
    BY NoExprFunctionsKeep, ExprRecordsKeep
  <1>4. /\ \A p \in Int : NoExprFunctions.Expr[p] = f /\ NoExprFunctions.InfixPart[p] = f
        /\ \A t \in Terminals : NoExprFunctions.ArgList[t] = f
        /\ \A d \in BOOLEAN : NoExprFunctions.IdRefEntries[d] = f
        /\ NoExprFunctions.SubscriptList = f /\ NoExprFunctions.GenericArgs = f
        /\ NoExprFunctions.TypeSuffix = f /\ NoExprFunctions.TypeName = f
        /\ NoExprFunctions.MatchCases = f
    BY DEF NoExprFunctions
  <1> HIDE DEF f
  <1>5. f \in Growing
    BY <1>1, <1>2 DEF Growing
  <1>6. ASSUME NEW p \in Int, NEW q \in Parser, Sound(q) PROVE ExprGrows(p, q, f[q])
    BY <1>2, <1>6 DEF ExprGrows, Adds, Stops
  <1>7. ASSUME NEW p \in Int, NEW q \in Parser, Loops(p, q)
        PROVE  Looped(p, f[q]) /\ Stops(p, f[q])
    <2>1. Looped(p, q) /\ Sound(q)
      BY <1>7 DEF Loops, Looped
    <2>2. /\ Grows(q, f[q]) /\ ~ Ok(f[q]) /\ f[q].kids = q.kids /\ f[q].nodes = q.nodes
          /\ f[q].node = q.node
      BY <1>2, <2>1
    <2>3. Sound(f[q]) /\ Filled(f[q]) = Filled(q)
      BY <2>2 DEF Grows, Filled
    <2> QED BY <2>1, <2>2, <2>3 DEF Looped, Stops
  <1>8. ASSUME NEW q \in Parser, Sound(q), q.node \in Structural PROVE Named(q, f[q])
    <2>1. Grows(q, f[q])
      BY <1>2, <1>8
    <2> QED BY <1>8, <2>1 DEF Grows, Growth, Named
  <1> QED BY <1>3, <1>4, <1>5, <1>6, <1>7, <1>8 DEF NestsExprs

LEMMA GrowingBy ==
    ASSUME NEW f \in Keeping, \A q \in Parser : Sound(q) => Grows(q, f[q])
    PROVE  f \in Growing
  BY DEF Keeping, Growing

LEMMA ExprFunctionsNest ==
    ASSUME NEW sub, NestsExprs(sub)
    PROVE  NestsExprs(ExprFunctions(sub))
  <1> DEFINE functions == ExprFunctions(sub)
  <1>1. KeepsExprs(functions)
    BY ExprFunctionsKeep, ExprRecordsKeep DEF NestsExprs
  <1>2. ASSUME NEW q \in Parser
        PROVE  /\ \A p \in Int : functions.Expr[p][q] = Expr(sub, q, p)
               /\ \A p \in Int : functions.InfixPart[p][q] = InfixPart(sub, q, p)
               /\ \A t \in Terminals : functions.ArgList[t][q] = ArgList(sub, q, t)
               /\ functions.SubscriptList[q] = SubscriptList(sub, q)
               /\ functions.GenericArgs[q] = GenericArgs(sub, q)
               /\ \A d \in BOOLEAN : functions.IdRefEntries[d][q] = IdRefEntries(sub, q, d)
               /\ functions.TypeSuffix[q] = TypeSuffix(sub, q)
               /\ functions.TypeName[q] = TypeName(sub, q)
               /\ functions.MatchCases[q] = MatchCases(sub, q)
    BY Zenon DEF ExprFunctions
  <1>3. /\ \A t \in Terminals : functions.ArgList[t] \in Keeping
        /\ \A d \in BOOLEAN : functions.IdRefEntries[d] \in Keeping
        /\ functions.SubscriptList \in Keeping /\ functions.GenericArgs \in Keeping
        /\ functions.TypeName \in Keeping /\ functions.MatchCases \in Keeping
    BY <1>1 DEF KeepsExprs
  <1> HIDE DEF functions
  <1>4. ASSUME NEW q \in Parser, Sound(q)
        PROVE  /\ \A t \in Terminals : Grows(q, functions.ArgList[t][q])
               /\ Grows(q, functions.SubscriptList[q])
               /\ Grows(q, functions.GenericArgs[q])
               /\ \A d \in BOOLEAN : Grows(q, functions.IdRefEntries[d][q])
               /\ Grows(q, functions.TypeName[q])
               /\ Grows(q, functions.MatchCases[q])
    <2>1. Grows(q, q)
      BY <1>4, GrowsItself
    <2>2. /\ \A t \in Terminals : Grows(q, ArgList(sub, q, t))
          /\ Grows(q, SubscriptList(sub, q))
          /\ Grows(q, GenericArgs(sub, q))
          /\ \A d \in BOOLEAN : Grows(q, IdRefEntries(sub, q, d))
          /\ Grows(q, TypeName(sub, q))
          /\ Grows(q, MatchCases(sub, q))
      BY <2>1, ArgListGrows, SubscriptListGrows, GenericArgsGrows, IdRefEntriesGrow, TypeNameGrows,
         MatchCasesGrow
    <2> QED BY <1>2, <2>2
  <1>5. /\ \A t \in Terminals : functions.ArgList[t] \in Growing
        /\ \A d \in BOOLEAN : functions.IdRefEntries[d] \in Growing
        /\ functions.SubscriptList \in Growing /\ functions.GenericArgs \in Growing
        /\ functions.TypeName \in Growing /\ functions.MatchCases \in Growing
    BY <1>3, <1>4, GrowingBy
  <1>6. \A p \in Int : \A q \in Parser : Sound(q) => ExprGrows(p, q, functions.Expr[p][q])
    BY <1>2, ExprNests
  <1>7. \A p \in Int : \A q \in Parser :
            Loops(p, q) => Looped(p, functions.InfixPart[p][q]) /\ Stops(p, functions.InfixPart[p][q])
    BY <1>2, InfixPartLooped
  <1>8. \A q \in Parser : Sound(q) /\ q.node \in Structural => Named(q, functions.TypeSuffix[q])
    <2> SUFFICES ASSUME NEW q \in Parser, Sound(q), q.node \in Structural
                 PROVE  Named(q, functions.TypeSuffix[q])
      OBVIOUS
    <2>1. Named(q, q)
      BY GrowsItself DEF Grows, Named
    <2> QED BY <1>2, <2>1, TypeSuffixNamed
  <1>9. NestsExprs(functions)
    BY <1>1, <1>5, <1>6, <1>7, <1>8 DEF NestsExprs
  <1> QED BY <1>9 DEF functions

LEMMA ExprCallsNest ==
    ASSUME NEW n \in Nat
    PROVE  NestsExprs(ExprCalls[n])
  <1> DEFINE T == {m \in Nat : NestsExprs(ExprCalls[m])}
  <1>1. 0 \in T
    BY ExprCallsStep, NoExprFunctionsNest
  <1>2. ASSUME NEW m \in Nat, m \in T PROVE m + 1 \in T
    BY <1>2, ExprCallsStep, ExprFunctionsNest
  <1> HIDE DEF T
  <1>3. Nat \subseteq T
    BY <1>1, <1>2, Induction
  <1> QED BY <1>3 DEF T

-----------------------------------------------------------------------------
(* The operators nest by their levels. *)

LEMMA TypedWellNested == Typed => WellNested
  <1> SUFFICES ASSUME Typed PROVE WellNested
    OBVIOUS
  <1> DEFINE start == Unparsed(input, "Statement")
             sub == ExprCalls[MaxDepth(input)]
  <1>1. input \in Seq(Kinds \ {"end"}) /\ parsed = Parse(input)
    BY DEF Typed
  <1>2. "Statement" \in NodeKinds /\ "Statement" \in Structural
    BY DEF NodeKinds, Structural
  <1>3. Sound(start) /\ start.node = "Statement"
    <2>1. Wellformed(start)
      BY <1>1, <1>2, UnparsedWellformed
    <2>2. start.nodes = <<>> /\ start.node = "Statement"
      BY DEF Unparsed
    <2> QED BY <2>1, <2>2 DEF Sound, AllNest
  <1>4. NestsExprs(sub)
    BY <1>1, DepthIsNat, ExprCallsNest
  <1> HIDE DEF start, sub
  <1>5. Grows(start, sub.Expr[0][start])
    <2>1. Grows(start, start) /\ 0 \in Int
      BY <1>3, GrowsItself
    <2> QED BY <1>4, <2>1, ExprGrowsOn
  <1>6. parsed = sub.Expr[0][start]
    BY <1>1 DEF Parse, start, sub
  <1>7. Sound(parsed) /\ parsed.node \in Structural
    BY <1>2, <1>3, <1>5, <1>6 DEF Grows, Growth
  <1>8. Nests(parsed.nodes, Filled(parsed))
    BY <1>7, StructuralNests
  <1>9. DOMAIN parsed.nodes = 1 .. Len(parsed.nodes)
    BY <1>7, SoundParts
  <1> QED BY <1>7, <1>8, <1>9 DEF WellNested, Nodes, Sound, AllNest

(* In the tree of every input the operators nest by their levels and       *)
(* associate as they should, also where parse_expr gave up: its loop takes *)
(* an operator only at a level that is not above its own, and the right    *)
(* operand is asked for at a level that leaves weaker operators to it.     *)
THEOREM AlwaysWellNested == Spec => []WellNested
  BY AlwaysTyped, TypedWellNested, PTL

-----------------------------------------------------------------------------
(* What is accepted: the brackets of a node, and what stands side by side. *)

WeightOf(id) == IF id \in Opening THEN 1 ELSE IF id \in Closing THEN -1 ELSE 0
Weight(k) == IF IsToken(k) THEN WeightOf(k.id) ELSE 0
Brackets(kids, ids) == {i \in 1 .. Len(kids) : IsToken(kids[i]) /\ kids[i].id \in ids}
Balance(kids) == Cardinality(Brackets(kids, Opening)) - Cardinality(Brackets(kids, Closing))

LEMMA BracketsType ==
    ASSUME NEW kids \in Seq(Child), NEW ids
    PROVE  IsFiniteSet(Brackets(kids, ids)) /\ Cardinality(Brackets(kids, ids)) \in Nat
  <1>1. Len(kids) \in Nat /\ 1 \in Int
    OBVIOUS
  <1>2. IsFiniteSet(1 .. Len(kids))
    BY <1>1, FS_Interval
  <1>3. Brackets(kids, ids) \subseteq 1 .. Len(kids)
    BY DEF Brackets
  <1>4. IsFiniteSet(Brackets(kids, ids))
    BY <1>2, <1>3, FS_Subset
  <1> QED BY <1>4, FS_CardinalityType

LEMMA BracketsAppend ==
    ASSUME NEW kids \in Seq(Child), NEW k \in Child, NEW ids
    PROVE  Cardinality(Brackets(Append(kids, k), ids)) =
               Cardinality(Brackets(kids, ids)) + IF IsToken(k) /\ k.id \in ids THEN 1 ELSE 0
  <1> DEFINE all == Append(kids, k)
             n == Len(kids)
             had == Brackets(kids, ids)
  <1>1. /\ Len(all) = n + 1 /\ n \in Nat /\ all[n + 1] = k
        /\ \A i \in 1 .. n : all[i] = kids[i]
    BY AppendProperties
  <1>2. IsFiniteSet(had) /\ Cardinality(had) \in Nat
    BY BracketsType
  <1>3. n + 1 \notin had
    BY <1>1 DEF Brackets
  <1> HIDE DEF all
  <1>4. Brackets(all, ids) = IF IsToken(k) /\ k.id \in ids THEN had \cup {n + 1} ELSE had
    <2>1. 1 .. Len(all) = (1 .. n) \cup {n + 1}
      BY <1>1
    <2> QED BY <1>1, <2>1 DEF Brackets
  <1> HIDE DEF had
  <1>5. Cardinality(had \cup {n + 1}) = Cardinality(had) + 1
    BY <1>2, <1>3, FS_AddElement
  <1>6. Cardinality(Brackets(all, ids)) = Cardinality(had) + IF IsToken(k) /\ k.id \in ids THEN 1 ELSE 0
    BY <1>2, <1>4, <1>5
  <1> QED BY <1>6 DEF all, had

LEMMA BalanceAppend ==
    ASSUME NEW kids \in Seq(Child), NEW k \in Child
    PROVE  Append(kids, k) \in Seq(Child) /\ Balance(Append(kids, k)) = Balance(kids) + Weight(k)
  <1> DEFINE in(ids) == IF IsToken(k) /\ k.id \in ids THEN 1 ELSE 0
  <1>1. /\ Cardinality(Brackets(Append(kids, k), Opening)) = Cardinality(Brackets(kids, Opening)) + in(Opening)
        /\ Cardinality(Brackets(Append(kids, k), Closing)) = Cardinality(Brackets(kids, Closing)) + in(Closing)
    BY BracketsAppend
  <1>2. Cardinality(Brackets(kids, Opening)) \in Nat /\ Cardinality(Brackets(kids, Closing)) \in Nat
    BY BracketsType
  <1>3. in(Opening) - in(Closing) = Weight(k)
    <2>1. \A x \in Opening : x \notin Closing
      BY DEF Opening, Closing
    <2> QED BY <2>1 DEF Weight, WeightOf
  <1>4. in(Opening) \in Int /\ in(Closing) \in Int
    OBVIOUS
  <1> HIDE DEF in
  <1>5. Balance(Append(kids, k)) = Balance(kids) + Weight(k)
    BY <1>1, <1>2, <1>3, <1>4 DEF Balance
  <1> QED BY <1>5, AppendProperties

LEMMA BalanceTrivia ==
    ASSUME NEW kids \in Seq(Child), NEW all, Padded(all, kids)
    PROVE  Balance(all) = Balance(kids)
  <1>1. /\ Len(kids) \in Nat /\ Len(all) \in Nat /\ Len(kids) <= Len(all)
        /\ \A i \in 1 .. Len(kids) : all[i] = kids[i]
        /\ \A i \in Len(kids) + 1 .. Len(all) : Trivial(all[i])
    BY DEF Padded
  <1>2. \A x \in Trivia : x \notin Opening /\ x \notin Closing
    BY DEF Trivia, Opening, Closing
  <1>3. ASSUME NEW ids, \A x \in Trivia : x \notin ids
        PROVE  Brackets(all, ids) = Brackets(kids, ids)
    <2>1. ASSUME NEW i \in 1 .. Len(all)
          PROVE  IsToken(all[i]) /\ all[i].id \in ids
                 <=> i \in 1 .. Len(kids) /\ IsToken(kids[i]) /\ kids[i].id \in ids
      <3>1. CASE i <= Len(kids)
        BY <1>1, <3>1
      <3>2. CASE ~ (i <= Len(kids))
        <4>1. i \in Len(kids) + 1 .. Len(all)
          BY <1>1, <3>2
        <4> QED BY <1>1, <1>3, <3>2, <4>1 DEF Trivial
      <3> QED BY <3>1, <3>2
    <2>2. 1 .. Len(kids) \subseteq 1 .. Len(all)
      BY <1>1
    <2> QED BY <2>1, <2>2 DEF Brackets
  <1> QED BY <1>2, <1>3 DEF Balance

(* What a child is to its neighbours. *)
Class(nodes, k) ==
    IF IsToken(k) THEN IF k.id = "," THEN "comma" ELSE "token"
    ELSE IF nodes[k.child].node \in Structural THEN "other" ELSE "expr"
Beside(a, b) == a = b => a \notin {"comma", "expr"}
ApartIn(nodes, kids) ==
    \A i \in 1 .. Len(PartsOf(kids)) - 1 :
        Beside(Class(nodes, PartsOf(kids)[i]), Class(nodes, PartsOf(kids)[i + 1]))
LastIn(nodes, kids) ==
    IF Len(PartsOf(kids)) = 0 THEN "none" ELSE Class(nodes, PartsOf(kids)[Len(PartsOf(kids))])

(* A node that nothing is missing in, and all of a list.                   *)
TidyNode(nodes, n) == (n.node \in Binary \/ Balance(n.kids) = 0) /\ ApartIn(nodes, n.kids)
AllTidy(nodes) == \A i \in 1 .. Len(nodes) : TidyNode(nodes, nodes[i])

LEMMA ClassStable ==
    ASSUME NEW nodes, NEW more, Extends(more, nodes), NEW k, IsToken(k) \/ k.child \in 1 .. Len(nodes)
    PROVE  Class(more, k) = Class(nodes, k)
  BY DEF Class, Extends

LEMMA ApartStable ==
    ASSUME NEW nodes \in Seq(GreenNode), NEW more, Extends(more, nodes),
           NEW kids \in Seq(Child), ReferTo(kids, Len(nodes))
    PROVE  /\ ApartIn(more, kids) <=> ApartIn(nodes, kids)
           /\ LastIn(more, kids) = LastIn(nodes, kids)
  <1> DEFINE parts == PartsOf(kids)
  <1>1. parts \in Seq(Child) /\ ReferTo(parts, Len(nodes)) /\ Len(parts) \in Nat
    <2>1. Len(nodes) \in Nat
      OBVIOUS
    <2> QED BY <2>1, PartsType, PartsReferTo
  <1> HIDE DEF parts
  <1>2. \A i \in 1 .. Len(parts) : Class(more, parts[i]) = Class(nodes, parts[i])
    BY <1>1, ClassStable DEF ReferTo
  <1>3. ASSUME NEW i \in 1 .. Len(parts) - 1 PROVE i \in 1 .. Len(parts) /\ i + 1 \in 1 .. Len(parts)
    BY <1>1
  <1>4. ApartIn(more, kids) <=> ApartIn(nodes, kids)
    BY <1>2, <1>3 DEF ApartIn, parts
  <1>5. Len(parts) # 0 => Len(parts) \in 1 .. Len(parts)
    BY <1>1
  <1>6. LastIn(more, kids) = LastIn(nodes, kids)
    BY <1>2, <1>5 DEF LastIn, parts
  <1> QED BY <1>4, <1>6

LEMMA AllTidyAppend ==
    ASSUME NEW nodes \in Seq(GreenNode), Linked(nodes), AllTidy(nodes),
           NEW n \in GreenNode, ReferTo(n.kids, Len(nodes)), TidyNode(nodes, n)
    PROVE  AllTidy(Append(nodes, n)) /\ Extends(Append(nodes, n), nodes)
  <1> DEFINE more == Append(nodes, n)
             m == Len(nodes)
  <1>1. m \in Nat /\ Len(more) = m + 1 /\ more[m + 1] = n /\ \A i \in 1 .. m : more[i] = nodes[i]
    BY AppendProperties
  <1> HIDE DEF more
  <1>2. Extends(more, nodes)
    BY <1>1 DEF Extends
  <1>3. ASSUME NEW k \in GreenNode, ReferTo(k.kids, m), TidyNode(nodes, k) PROVE TidyNode(more, k)
    <2>1. k.kids \in Seq(Child)
      BY DEF GreenNode
    <2> QED BY <1>2, <1>3, <2>1, ApartStable DEF TidyNode
  <1>4. ASSUME NEW i \in 1 .. m PROVE TidyNode(more, nodes[i])
    <2>1. nodes[i] \in GreenNode /\ ReferTo(nodes[i].kids, i - 1)
      BY ElementOfSeq DEF Linked
    <2>2. ReferTo(nodes[i].kids, m)
      <3>1. 1 .. i - 1 \subseteq 1 .. m
        BY <1>1
      <3> QED BY <2>1, <3>1 DEF ReferTo
    <2> QED BY <1>3, <2>1, <2>2 DEF AllTidy
  <1>5. AllTidy(more)
    <2> SUFFICES ASSUME NEW i \in 1 .. m + 1 PROVE TidyNode(more, more[i])
      BY <1>1 DEF AllTidy
    <2>1. CASE i = m + 1
      BY <1>1, <1>3, <2>1
    <2>2. CASE i # m + 1
      <3>1. i \in 1 .. m
        BY <1>1, <2>2
      <3> QED BY <1>1, <1>4, <3>1
    <2> QED BY <2>1, <2>2
  <1> QED BY <1>2, <1>5 DEF more

(* One more part. *)
LEMMA ApartAppend ==
    ASSUME NEW nodes, NEW kids, NEW all, NEW k, PartsOf(kids) \in Seq(Child), k \in Child,
           PartsOf(all) = Append(PartsOf(kids), k), ApartIn(nodes, kids),
           Beside(LastIn(nodes, kids), Class(nodes, k))
    PROVE  ApartIn(nodes, all) /\ LastIn(nodes, all) = Class(nodes, k)
  <1> DEFINE parts == PartsOf(kids)
             more == PartsOf(all)
             n == Len(parts)
  <1>1. n \in Nat /\ Len(more) = n + 1 /\ more[n + 1] = k /\ \A i \in 1 .. n : more[i] = parts[i]
    BY AppendProperties
  <1> HIDE DEF parts, more, n
  <1>2. LastIn(nodes, all) = Class(nodes, k)
    <2>1. Len(more) # 0
      BY <1>1
    <2> QED BY <1>1, <2>1 DEF LastIn, more
  <1>3. ASSUME NEW i \in 1 .. Len(more) - 1
        PROVE  Beside(Class(nodes, more[i]), Class(nodes, more[i + 1]))
    <2>1. i \in 1 .. n
      BY <1>1
    <2>2. CASE i = n
      <3>1. LastIn(nodes, kids) = Class(nodes, parts[i])
        <4>1. Len(parts) # 0
          BY <1>1, <2>1 DEF n
        <4> QED BY <2>2, <4>1 DEF LastIn, n, parts
      <3> QED BY <1>1, <2>1, <2>2, <3>1
    <2>3. CASE i # n
      <3>1. i + 1 \in 1 .. n /\ i \in 1 .. n - 1
        BY <1>1, <2>1, <2>3
      <3>2. Beside(Class(nodes, parts[i]), Class(nodes, parts[i + 1]))
        BY <3>1 DEF ApartIn, n, parts
      <3> QED BY <1>1, <2>1, <3>1, <3>2
    <2> QED BY <2>2, <2>3
  <1>4. ApartIn(nodes, all)
    BY <1>3 DEF ApartIn, more
  <1> QED BY <1>2, <1>4

-----------------------------------------------------------------------------
(* The node that is being filled, of a kind in kinds, has the balance b    *)
(* and ends with one of the classes last; Tidy says so of a parser that    *)
(* has come from r without an error.                                       *)
Filling(q, kinds, b, last) ==
    /\ q.node \in kinds /\ AllTidy(q.nodes)
    /\ ApartIn(q.nodes, q.kids) /\ Balance(q.kids) = b /\ LastIn(q.nodes, q.kids) \in last
Tidy(r, q, kinds, b, last) ==
    Follows(r, q) /\ Wellformed(r) /\ (Clean(q) => Filling(q, kinds, b, last))

(* The node that is being filled misses nothing.                           *)
Whole(r, q, kinds) ==
    /\ Follows(r, q) /\ Wellformed(r)
    /\ Clean(q) => q.node \in kinds /\ AllTidy(q.nodes) /\ TidyNode(q.nodes, Filled(q))

LEMMA TidyType ==
    ASSUME NEW r, NEW q, Follows(r, q), Wellformed(r)
    PROVE  q \in Parser /\ Wellformed(q) /\ Follows(q, q) /\ (Clean(q) => Clean(r) /\ Ok(q))
  <1>1. Wellformed(q) /\ q \in Parser
    BY DEF Follows, Continues
  <1> QED BY <1>1, FollowsItself DEF Follows, Clean

LEMMA TidyHere ==
    ASSUME NEW r, NEW q, NEW kinds, NEW b, NEW last, Tidy(r, q, kinds, b, last)
    PROVE  Tidy(q, q, kinds, b, last)
  BY TidyType DEF Tidy

LEMMA TidyThen ==
    ASSUME NEW r, NEW q, Follows(r, q), Wellformed(r),
           NEW s, NEW kinds, NEW b, NEW last, Tidy(q, s, kinds, b, last)
    PROVE  Tidy(r, s, kinds, b, last)
  BY FollowsTransitive DEF Tidy

(* With an error there is nothing to show. *)
LEMMA TidyError ==
    ASSUME NEW r, NEW q, Follows(r, q), Wellformed(r), ~ Clean(q), NEW kinds, NEW b, NEW last
    PROVE  Tidy(r, q, kinds, b, last)
  BY DEF Tidy

LEMMA TidyMore ==
    ASSUME NEW r, NEW q, NEW kinds, NEW b, NEW last, Tidy(r, q, kinds, b, last),
           NEW other, kinds \subseteq other, NEW more, last \subseteq more
    PROVE  Tidy(r, q, other, b, more)
  BY DEF Tidy, Filling

LEMMA FailTidy ==
    ASSUME NEW r, NEW q, Follows(r, q), Wellformed(r), NEW e \in Errors \cup {"endless"},
           NEW kinds, NEW b, NEW last
    PROVE  Tidy(r, Fail(q, e), kinds, b, last)
  <1> DEFINE s == Fail(q, e)
  <1>1. q \in Parser
    BY DEF Follows
  <1>2. e # "none"
    BY DEF Errors
  <1>3. ~ Ok(s)
    BY <1>1, <1>2 DEF Fail, Ok, Parser
  <1>4. Follows(r, s)
    BY FailFollows
  <1> HIDE DEF s
  <1>5. Tidy(r, s, kinds, b, last)
    BY <1>3, <1>4, TidyError DEF Clean
  <1> QED BY <1>5 DEF s

(* An operation that changes no more than the tokens and what comes of     *)
(* errors.                                                                 *)
LEMMA TidySame ==
    ASSUME NEW r, NEW q, NEW kinds, NEW b, NEW last, Tidy(r, q, kinds, b, last),
           NEW s, Follows(q, s), s.node = q.node, s.kids = q.kids, s.nodes = q.nodes
    PROVE  Tidy(r, s, kinds, b, last)
  <1>1. Follows(r, s) /\ Wellformed(r)
    BY FollowsTransitive DEF Tidy
  <1>2. Clean(s) => Clean(q)
    BY DEF Follows
  <1>3. Filling(q, kinds, b, last) => Filling(s, kinds, b, last)
    BY DEF Filling
  <1> QED BY <1>1, <1>2, <1>3 DEF Tidy

LEMMA NotedTidy ==
    ASSUME NEW r, NEW q, NEW kinds, NEW b, NEW last, Tidy(r, q, kinds, b, last)
    PROVE  Tidy(r, Noted(q), kinds, b, last)
  <1>1. q \in Parser /\ Follows(q, q)
    BY TidyType DEF Tidy
  <1>2. Follows(q, Noted(q))
    BY <1>1, NotedFollows
  <1>3. Noted(q).node = q.node /\ Noted(q).kids = q.kids /\ Noted(q).nodes = q.nodes
    BY <1>1 DEF Noted, Parser
  <1> QED BY <1>2, <1>3, TidySame

LEMMA SplitsTidy ==
    ASSUME NEW r, NEW q, NEW kinds, NEW b, NEW last, Tidy(r, q, kinds, b, last)
    PROVE  Tidy(r, SplitShr(q), kinds, b, last) /\ Tidy(r, SplitRDBrackets(q), kinds, b, last)
  <1>1. q \in Parser /\ Follows(q, q)
    BY TidyType DEF Tidy
  <1>2. Follows(q, SplitShr(q)) /\ Follows(q, SplitRDBrackets(q))
    BY <1>1, SplitsFollow
  <1>3. ASSUME NEW double, NEW single
        PROVE  LET s == Split(q, double, single)
               IN s.node = q.node /\ s.kids = q.kids /\ s.nodes = q.nodes
    BY <1>1 DEF Split, Parser
  <1>4. /\ SplitShr(q).node = q.node /\ SplitShr(q).kids = q.kids /\ SplitShr(q).nodes = q.nodes
        /\ SplitRDBrackets(q).node = q.node /\ SplitRDBrackets(q).kids = q.kids
        /\ SplitRDBrackets(q).nodes = q.nodes
    BY <1>3 DEF SplitShr, SplitRDBrackets
  <1> QED BY <1>2, <1>4, TidySame

(* Tokens. *)
ClassOf(id) == IF id = "," THEN "comma" ELSE "token"

LEMMA NextToken ==
    ASSUME NEW q, Ready(q)
    PROVE  q.toks[Solid(q)] \in Child /\ IsToken(q.toks[Solid(q)])
  <1> DEFINE i == Solid(q)
  <1>1. q.toks \in Seq(Token) /\ Len(q.toks) \in Nat /\ q.at \in Nat \ {0}
    BY WellformedType DEF Ready
  <1>2. i \in q.at .. Len(q.toks)
    BY SolidNext DEF Ready
  <1> HIDE DEF i
  <1>3. i \in 1 .. Len(q.toks)
    BY <1>1, <1>2
  <1>4. q.toks[i] \in Token
    BY <1>1, <1>3, ElementOfSeq
  <1> QED BY <1>4, TokenIsPart DEF i

LEMMA TakeBalance ==
    ASSUME NEW q, Ready(q)
    PROVE  Balance(Take(q).kids) = Balance(q.kids) + WeightOf(Peek(q))
  <1> DEFINE t == ToNextToken(q)
             i == Solid(q)
             k == q.toks[i]
             kids == Append(t.kids, k)
             s == Take(q)
  <1>1. Wellformed(q) /\ Ok(q) /\ i # 0 /\ q \in Parser /\ q.kids \in Seq(Child)
    BY DEF Ready, Wellformed, Parser
  <1>2. i \in q.at .. Len(q.toks) /\ Peek(q) = k.id
    BY <1>1, SolidNext
  <1>3. q.toks \in Seq(Token) /\ Len(q.toks) \in Nat /\ q.at \in Nat \ {0}
    BY <1>1, WellformedType
  <1>4. IsToken(k) /\ k \in Child
    BY NextToken
  <1>5. Padded(t.kids, q.kids)
    BY <1>1, ToNextTokenPads
  <1>6. Balance(t.kids) = Balance(q.kids) /\ t.kids \in Seq(Child)
    BY <1>1, <1>5, BalanceTrivia DEF Padded
  <1>7. t = SkipTo(q, i)
    BY <1>1 DEF ToNextToken
  <1>8. t.toks = q.toks /\ t.at = i /\ t.err = q.err
    BY <1>1, <1>7 DEF SkipTo, Parser
  <1>9. t \in Parser
    <2>1. Follows(q, t)
      BY <1>1, FollowsItself, ToNextTokenFollows
    <2> QED BY <2>1 DEF Follows
  <1> HIDE DEF t, i, k
  <1>10. s = [t EXCEPT !.kids = kids, !.at = t.at + 1]
    <2>1. Ok(t) /\ ~ (t.at > Len(t.toks))
      BY <1>1, <1>2, <1>3, <1>8 DEF Ok
    <2>2. Collect(t) = [t EXCEPT !.kids = Append(t.kids, t.toks[t.at]), !.at = t.at + 1]
      BY <2>1 DEF Collect
    <2> QED BY <1>8, <2>2 DEF Take, k, t
  <1>11. Balance(kids) = Balance(t.kids) + Weight(k)
    BY <1>4, <1>6, BalanceAppend
  <1> HIDE DEF kids, s
  <1>12. s.kids = kids
    BY <1>9, <1>10 DEF Parser
  <1> QED BY <1>2, <1>4, <1>6, <1>11, <1>12 DEF s, Weight

LEMMA TakeFilling ==
    ASSUME NEW q, Ready(q), NEW kinds, NEW b, NEW last, Filling(q, kinds, b, last),
           Peek(q) # "," \/ "comma" \notin last
    PROVE  Filling(Take(q), kinds, b + WeightOf(Peek(q)), {ClassOf(Peek(q))})
  <1> DEFINE s == Take(q)
             k == q.toks[Solid(q)]
  <1>1. /\ PartsOf(s.kids) = Append(PartsOf(q.kids), k)
        /\ IsToken(k) /\ k.id = Peek(q) /\ s.nodes = q.nodes /\ s.node = q.node
    BY TakePart
  <1>2. PartsOf(q.kids) \in Seq(Child)
    BY PartsType DEF Ready, Wellformed, Parser
  <1>3. k \in Child
    BY NextToken
  <1>4. Balance(s.kids) = b + WeightOf(Peek(q))
    BY TakeBalance DEF Filling
  <1> HIDE DEF s, k
  <1>5. Class(q.nodes, k) = ClassOf(Peek(q))
    BY <1>1 DEF Class, ClassOf
  <1>6. ApartIn(q.nodes, q.kids) /\ LastIn(q.nodes, q.kids) \in last
    BY DEF Filling
  <1>7. Beside(LastIn(q.nodes, q.kids), Class(q.nodes, k))
    BY <1>5, <1>6 DEF Beside, ClassOf
  <1>8. ApartIn(q.nodes, s.kids) /\ LastIn(q.nodes, s.kids) = ClassOf(Peek(q))
    <2> DEFINE kids == q.kids
               all == s.kids
               nodes == q.nodes
    <2>1. /\ PartsOf(kids) \in Seq(Child) /\ PartsOf(all) = Append(PartsOf(kids), k)
          /\ ApartIn(nodes, kids) /\ Beside(LastIn(nodes, kids), Class(nodes, k))
      BY <1>1, <1>2, <1>6, <1>7
    <2> HIDE DEF kids, all, nodes
    <2>2. ApartIn(nodes, all) /\ LastIn(nodes, all) = Class(nodes, k)
      BY <1>3, <2>1, ApartAppend
    <2> QED BY <1>5, <2>2 DEF kids, all, nodes
  <1>9. Filling(s, kinds, b + WeightOf(Peek(q)), {ClassOf(Peek(q))})
    BY <1>1, <1>4, <1>8 DEF Filling
  <1> QED BY <1>9 DEF s

LEMMA TakeReady ==
    ASSUME NEW q, Wellformed(q), Ok(Take(q)), Ok(q)
    PROVE  Ready(q)
  <1> SUFFICES ASSUME Solid(q) = 0 PROVE FALSE
    BY DEF Ready
  <1> DEFINE n == SkipTo(q, Len(q.toks) + 1)
             t == ToNextToken(q)
  <1>1. t = Fail(n, "ExpectingMoreTokens")
    BY DEF ToNextToken
  <1>2. n \in Parser
    <2>1. q \in Parser /\ Len(q.toks) + 1 \in Nat \ {0} /\ Len(q.toks) + 1 <= Len(q.toks) + 1
      BY WellformedType
    <2> QED BY <2>1, SkipToType
  <1> HIDE DEF n, t
  <1>3. ~ Ok(t)
    BY <1>1, <1>2 DEF Fail, Ok, Parser
  <1>4. Take(q) = t
    BY <1>3 DEF Take, Collect, t
  <1> QED BY <1>3, <1>4

LEMMA TakeTidy ==
    ASSUME NEW r, NEW q, NEW kinds, NEW b, NEW last, Tidy(r, q, kinds, b, last),
           Clean(q) /\ Peek(q) = "," => "comma" \notin last
    PROVE  /\ Follows(r, Take(q))
           /\ Clean(Take(q)) => Filling(Take(q), kinds, b + WeightOf(Peek(q)), {ClassOf(Peek(q))})
  <1>1. Follows(r, q) /\ Wellformed(q) /\ Follows(q, q)
    BY TidyType DEF Tidy
  <1>2. Follows(r, Take(q)) /\ Follows(q, Take(q))
    BY <1>1, TakeFollows
  <1>3. ASSUME Clean(Take(q))
        PROVE  Filling(Take(q), kinds, b + WeightOf(Peek(q)), {ClassOf(Peek(q))})
    <2>1. Clean(q) /\ Ok(Take(q)) /\ Ok(q)
      BY <1>2, <1>3 DEF Follows, Clean
    <2>2. Ready(q)
      BY <1>1, <2>1, TakeReady
    <2> QED BY <2>1, <2>2, TakeFilling DEF Tidy
  <1> QED BY <1>2, <1>3

LEMMA ExpectTidy ==
    ASSUME NEW r, NEW q, NEW kinds, NEW b, NEW last, Tidy(r, q, kinds, b, last), NEW kind, kind # ","
    PROVE  Tidy(r, Expect(q, kind), kinds, b + WeightOf(kind), {"token"})
  <1> DEFINE s == Expect(q, kind)
             t == ToNextToken(q)
  <1>1. Follows(r, q) /\ Wellformed(r) /\ Wellformed(q) /\ Follows(q, q) /\ q \in Parser
    BY TidyType DEF Tidy
  <1>2. Follows(r, s) /\ Follows(q, s) /\ Follows(q, t)
    BY <1>1, ExpectFollows, ToNextTokenFollows
  <1>3. s = IF Ok(t) THEN IF Peek(t) = kind THEN Collect(t) ELSE Fail(t, "ExpectingSingleToken") ELSE t
    BY DEF Expect, Then
  <1>4. Ok(t) => ~ Ok(Fail(t, "ExpectingSingleToken"))
    BY <1>2 DEF Fail, Ok, Parser, Follows
  <1> HIDE DEF s
  <1>5. ASSUME Clean(s) PROVE Filling(s, kinds, b + WeightOf(kind), {"token"})
    <2>1. Ok(s) /\ Clean(q) /\ Ok(q)
      BY <1>2, <1>5 DEF Clean, Follows
    <2>2. Ok(t) /\ Peek(t) = kind /\ s = Take(q)
      BY <1>3, <1>4, <2>1 DEF Take
    <2> HIDE DEF t
    <2>3. Ready(q)
      BY <1>1, <2>1, <2>2, TakeReady
    <2>4. Peek(q) = kind
      BY <2>2, <2>3, NextPeek DEF t
    <2>5. Filling(Take(q), kinds, b + WeightOf(Peek(q)), {ClassOf(Peek(q))})
      BY <2>1, <2>3, <2>4, TakeFilling DEF Tidy
    <2> QED BY <2>2, <2>4, <2>5 DEF ClassOf
  <1>6. Tidy(r, s, kinds, b + WeightOf(kind), {"token"})
    BY <1>1, <1>2, <1>5 DEF Tidy
  <1> QED BY <1>6 DEF s

(* Tokens that are no brackets. *)
Plain(ids) == \A id \in ids : WeightOf(id) = 0 /\ id # ","

LEMMA OptionalTidy ==
    ASSUME NEW r, NEW q, NEW kinds, NEW b \in Int, NEW last, Tidy(r, q, kinds, b, last), NEW ids, Plain(ids)
    PROVE  Tidy(r, Optional(q, ids), kinds, b, last \cup {"token"})
  <1>1. CASE ~ (Ok(q) /\ Peek(q) \in ids)
    <2>1. Optional(q, ids) = q
      BY <1>1 DEF Optional
    <2> QED BY <2>1, TidyMore
  <1>2. CASE Ok(q) /\ Peek(q) \in ids
    <2>1. Optional(q, ids) = Take(q)
      BY <1>2 DEF Optional
    <2>2. WeightOf(Peek(q)) = 0 /\ Peek(q) # "," /\ ClassOf(Peek(q)) = "token"
      BY <1>2 DEF Plain, ClassOf
    <2>3. b + 0 = b
      OBVIOUS
    <2>4. /\ Follows(r, Take(q))
          /\ Clean(Take(q)) => Filling(Take(q), kinds, b + WeightOf(Peek(q)), {ClassOf(Peek(q))})
      BY <2>2, TakeTidy
    <2>5. Tidy(r, Take(q), kinds, b, {"token"})
      BY <2>2, <2>3, <2>4 DEF Tidy
    <2> QED BY <2>1, <2>5, TidyMore
  <1> QED BY <1>1, <1>2

LEMMA OptionalsTidy ==
    ASSUME NEW r, NEW q, NEW kinds, NEW b \in Int, NEW last, Tidy(r, q, kinds, b, last),
           NEW first, NEW second, NEW third, Plain(first), Plain(second), Plain(third)
    PROVE  Tidy(r, Optionals(q, first, second, third), kinds, b, last \cup {"token"})
  <1>1. (last \cup {"token"}) \cup {"token"} = last \cup {"token"}
    OBVIOUS
  <1>2. Tidy(r, Optional(q, first), kinds, b, last \cup {"token"})
    BY OptionalTidy
  <1>3. Tidy(r, Optional(Optional(q, first), second), kinds, b, last \cup {"token"})
    BY <1>1, <1>2, OptionalTidy
  <1>4. Tidy(r, Optional(Optional(Optional(q, first), second), third), kinds, b, last \cup {"token"})
    BY <1>1, <1>3, OptionalTidy
  <1> QED BY <1>4 DEF Optionals

LEMMA PlusZero ==
    ASSUME NEW b \in Int
    PROVE  b + 0 = b
  OBVIOUS

LEMMA TakePlain ==
    ASSUME NEW r, NEW q, NEW kinds, NEW b \in Int, NEW last, Tidy(r, q, kinds, b, last),
           WeightOf(Peek(q)) = 0, Peek(q) # ","
    PROVE  Tidy(r, Take(q), kinds, b, {"token"})
  <1>1. b + 0 = b
    BY PlusZero
  <1>2. /\ Follows(r, Take(q))
        /\ Clean(Take(q)) => Filling(Take(q), kinds, b + WeightOf(Peek(q)), {ClassOf(Peek(q))})
    BY TakeTidy
  <1>3. ClassOf(Peek(q)) = "token"
    BY DEF ClassOf
  <1> QED BY <1>1, <1>2, <1>3 DEF Tidy

LEMMA TakeOpening ==
    ASSUME NEW r, NEW q, NEW kinds, NEW b, NEW last, Tidy(r, q, kinds, b, last), Peek(q) \in Opening
    PROVE  Tidy(r, Take(q), kinds, b + 1, {"token"})
  <1>1. WeightOf(Peek(q)) = 1 /\ Peek(q) # "," /\ ClassOf(Peek(q)) = "token"
    BY DEF WeightOf, Opening, ClassOf
  <1>2. /\ Follows(r, Take(q))
        /\ Clean(Take(q)) => Filling(Take(q), kinds, b + WeightOf(Peek(q)), {ClassOf(Peek(q))})
    BY <1>1, TakeTidy
  <1> QED BY <1>1, <1>2 DEF Tidy

LEMMA TakeComma ==
    ASSUME NEW r, NEW q, NEW kinds, NEW b \in Int, NEW last, Tidy(r, q, kinds, b, last),
           Peek(q) = ",", "comma" \notin last
    PROVE  Tidy(r, Take(q), kinds, b, {"comma"})
  <1>1. b + 0 = b
    BY PlusZero
  <1>2. WeightOf(Peek(q)) = 0 /\ ClassOf(Peek(q)) = "comma"
    BY DEF WeightOf, Opening, Closing, ClassOf
  <1>3. /\ Follows(r, Take(q))
        /\ Clean(Take(q)) => Filling(Take(q), kinds, b + WeightOf(Peek(q)), {ClassOf(Peek(q))})
    BY TakeTidy
  <1> QED BY <1>1, <1>2, <1>3 DEF Tidy

LEMMA ExpectPlain ==
    ASSUME NEW r, NEW q, NEW kinds, NEW b \in Int, NEW last, Tidy(r, q, kinds, b, last),
           NEW kind, kind # ",", WeightOf(kind) = 0
    PROVE  Tidy(r, Expect(q, kind), kinds, b, {"token"})
  <1>1. b + 0 = b
    BY PlusZero
  <1>2. Tidy(r, Expect(q, kind), kinds, b + WeightOf(kind), {"token"})
    BY ExpectTidy
  <1> QED BY <1>1, <1>2

LEMMA ExpectOpening ==
    ASSUME NEW r, NEW q, NEW kinds, NEW b, NEW last, Tidy(r, q, kinds, b, last), NEW kind \in Opening
    PROVE  Tidy(r, Expect(q, kind), kinds, b + 1, {"token"})
  <1>1. WeightOf(kind) = 1 /\ kind # ","
    BY DEF WeightOf, Opening
  <1>2. Tidy(r, Expect(q, kind), kinds, b + WeightOf(kind), {"token"})
    BY <1>1, ExpectTidy
  <1> QED BY <1>1, <1>2

LEMMA ExpectClosing ==
    ASSUME NEW r, NEW q, NEW kinds, NEW b \in Int, NEW last, Tidy(r, q, kinds, b + 1, last),
           NEW kind \in Closing
    PROVE  Tidy(r, Expect(q, kind), kinds, b, {"token"})
  <1>1. WeightOf(kind) = -1 /\ kind # ","
    BY DEF WeightOf, Opening, Closing
  <1>2. Tidy(r, Expect(q, kind), kinds, (b + 1) + WeightOf(kind), {"token"})
    BY <1>1, ExpectTidy
  <1>3. \A w : w = -1 => (b + 1) + w = b
    OBVIOUS
  <1> QED BY <1>1, <1>2, <1>3

(* A separator, or an error. *)
LEMMA SeparatedTidy ==
    ASSUME NEW r, NEW q, NEW kinds, NEW b \in Int, NEW last, Tidy(r, q, kinds, b, last),
           "comma" \notin last
    PROVE  Tidy(r, Separated(q), kinds, b, {"comma"})
  <1>1. CASE Peek(q) = ","
    <2>1. Separated(q) = Take(q)
      BY <1>1 DEF Separated
    <2> QED BY <1>1, <2>1, TakeComma
  <1>2. CASE Peek(q) # ","
    <2> DEFINE s == Report(q, "ExpectingSingleToken")
    <2>1. Separated(q) = Take(s)
      BY <1>2 DEF Separated
    <2>2. q \in Parser /\ Follows(r, q) /\ Wellformed(r)
      BY TidyType DEF Tidy
    <2>3. Follows(r, s)
      BY <2>2, ReportFollows DEF Errors
    <2>4. ~ Clean(s)
      <3>1. CASE Ok(q)
        <4> DEFINE errors == Append(q.errors, "ExpectingSingleToken")
        <4>1. s = [q EXCEPT !.errors = errors]
          BY <3>1 DEF Report
        <4>2. q.errors \in Seq(Errors) /\ "ExpectingSingleToken" \in Errors
          BY <2>2 DEF Parser, Errors
        <4>3. errors # <<>>
          BY <4>2
        <4> HIDE DEF errors, s
        <4>4. s.errors = errors
          BY <2>2, <4>1 DEF Parser
        <4> QED BY <4>3, <4>4 DEF Clean
      <3>2. CASE ~ Ok(q)
        BY <3>2 DEF Report, Clean
      <3> QED BY <3>1, <3>2
    <2> HIDE DEF s
    <2>5. Follows(s, s)
      BY <2>3, FollowsItself DEF Follows
    <2>6. Follows(s, Take(s)) /\ Follows(r, Take(s))
      BY <2>3, <2>5, TakeFollows
    <2>7. ~ Clean(Take(s))
      BY <2>4, <2>6 DEF Follows
    <2> QED BY <2>1, <2>2, <2>6, <2>7, TidyError
  <1> QED BY <1>1, <1>2

(* Nodes of their own, and their return to the node they are children of. *)
LEMMA BalanceOfNone == Balance(<<>>) = 0
  <1> DEFINE none == <<>>
  <1>1. Len(none) = 0
    OBVIOUS
  <1> HIDE DEF none
  <1>2. 1 .. Len(none) = {}
    BY <1>1
  <1>3. Brackets(none, Opening) = {} /\ Brackets(none, Closing) = {}
    BY <1>2 DEF Brackets
  <1>4. Cardinality({}) = 0
    BY FS_EmptySet
  <1>5. Balance(none) = 0
    BY <1>3, <1>4 DEF Balance
  <1> QED BY <1>5 DEF none

LEMMA EmptyTidy ==
    ASSUME NEW s \in Parser, Wellformed(s), s.kids = <<>>, Clean(s) => AllTidy(s.nodes)
    PROVE  Tidy(s, s, {s.node}, 0, {"none"})
  <1> DEFINE none == <<>>
  <1>1. PartsOf(none) = none /\ Balance(none) = 0 /\ Len(none) = 0 /\ s.kids = none
    BY PartsOfNone, BalanceOfNone
  <1> HIDE DEF none
  <1>2. ApartIn(s.nodes, none) /\ LastIn(s.nodes, none) = "none"
    <2>1. 1 .. Len(none) - 1 = {}
      BY <1>1
    <2> QED BY <1>1, <2>1 DEF ApartIn, LastIn
  <1>3. Clean(s) => Filling(s, {s.node}, 0, {"none"})
    BY <1>1, <1>2 DEF Filling
  <1> QED BY <1>3, FollowsItself DEF Tidy

LEMMA BeginTidy ==
    ASSUME NEW r, NEW q, NEW kinds, NEW b, NEW last, Tidy(r, q, kinds, b, last), NEW kind \in NodeKinds
    PROVE  Tidy(Begin(q, kind), Begin(q, kind), {kind}, 0, {"none"})
  <1> DEFINE s == Begin(q, kind)
  <1>1. q \in Parser /\ Wellformed(q) /\ Follows(q, q)
    BY TidyType DEF Tidy
  <1>2. s \in Parser
    BY <1>1, BeginFollows DEF Follows
  <1>3. Wellformed(s)
    <2>1. Continues(s, s)
      BY <1>1, ContinuesReflexive, BeginWellformed
    <2> QED BY <2>1 DEF Continues
  <1>4. s.kids = <<>> /\ s.nodes = q.nodes /\ s.node = kind /\ (Clean(s) => Clean(q))
    BY <1>1 DEF Begin, Parser, Clean, Ok
  <1> HIDE DEF s
  <1>5. Clean(s) => AllTidy(s.nodes)
    BY <1>4 DEF Tidy, Filling
  <1>6. Tidy(s, s, {kind}, 0, {"none"})
    BY <1>2, <1>3, <1>4, <1>5, EmptyTidy
  <1> QED BY <1>6 DEF s

LEMMA TidyWhole ==
    ASSUME NEW r, NEW q, NEW kinds, NEW b, NEW last, Tidy(r, q, kinds, b, last),
           b = 0 \/ kinds \subseteq Binary
    PROVE  Whole(r, q, kinds)
  <1>1. Filled(q).node = q.node /\ Filled(q).kids = q.kids
    BY DEF Filled
  <1>2. Filling(q, kinds, b, last) => TidyNode(q.nodes, Filled(q))
    BY <1>1 DEF Filling, TidyNode
  <1> QED BY <1>2 DEF Tidy, Whole, Filling

LEMMA WholeHere ==
    ASSUME NEW r, NEW q, NEW kinds, Whole(r, q, kinds)
    PROVE  Whole(q, q, kinds)
  BY TidyType DEF Whole

LEMMA WholeThen ==
    ASSUME NEW r, NEW q, Follows(r, q), Wellformed(r), NEW s, NEW kinds, Whole(q, s, kinds)
    PROVE  Whole(r, s, kinds)
  BY FollowsTransitive DEF Whole

LEMMA WholeMore ==
    ASSUME NEW r, NEW q, NEW kinds, Whole(r, q, kinds), NEW more, kinds \subseteq more
    PROVE  Whole(r, q, more)
  BY DEF Whole

(* What a node of one of the kinds is to its neighbours. *)
Exprs == NodeKinds \ Structural
Being(kinds, class) ==
    \/ class = "other" /\ kinds \subseteq Structural
    \/ class = "expr" /\ kinds \subseteq Exprs

LEMMA ChildClass ==
    ASSUME NEW nodes, NEW i, NEW kinds, NEW class, Being(kinds, class), nodes[i].node \in kinds
    PROVE  Class(nodes, [child |-> i]) = class
  <1> DEFINE k == [child |-> i]
  <1>1. ~ IsToken(k) /\ k.child = i
    BY DEF IsToken
  <1>2. class = IF nodes[i].node \in Structural THEN "other" ELSE "expr"
    BY DEF Being, Exprs
  <1> HIDE DEF k
  <1>3. Class(nodes, k) = class
    BY <1>1, <1>2 DEF Class
  <1> QED BY <1>3 DEF k

LEMMA NodeTidy ==
    ASSUME NEW q, Wellformed(q), AllTidy(q.nodes), TidyNode(q.nodes, Filled(q)),
           NEW kinds, NEW class, Being(kinds, class), q.node \in kinds
    PROVE  LET nodes == Append(q.nodes, Filled(q))
               i == Len(q.nodes) + 1
           IN /\ nodes \in Seq(GreenNode) /\ Extends(nodes, q.nodes) /\ AllTidy(nodes)
              /\ [child |-> i] \in Child /\ Class(nodes, [child |-> i]) = class
  <1> DEFINE nodes == Append(q.nodes, Filled(q))
             i == Len(q.nodes) + 1
             k == [child |-> i]
  <1>1. q.nodes \in Seq(GreenNode) /\ Linked(q.nodes)
    BY WellformedType DEF Wellformed
  <1>2. Filled(q) \in GreenNode /\ ReferTo(Filled(q).kids, Len(q.nodes)) /\ Filled(q).node = q.node
    BY FilledType DEF Filled
  <1>3. AllTidy(nodes) /\ Extends(nodes, q.nodes)
    BY <1>1, <1>2, AllTidyAppend
  <1>4. nodes \in Seq(GreenNode) /\ nodes[i] = Filled(q) /\ i \in Nat
    BY <1>1, <1>2, AppendProperties
  <1>5. k \in Child
    BY <1>4, ChildType
  <1> HIDE DEF nodes, i
  <1>6. Class(nodes, k) = class
    BY <1>2, <1>4, ChildClass
  <1> QED BY <1>3, <1>4, <1>5, <1>6 DEF nodes, i

LEMMA AdoptTidy ==
    ASSUME NEW r, NEW q, NEW kinds, NEW b \in Int, NEW last, Tidy(r, q, kinds, b, last),
           NEW kind \in NodeKinds, NEW c, NEW inner, Whole(Begin(q, kind), c, inner),
           NEW class, Being(inner, class), class = "expr" => "expr" \notin last
    PROVE  Tidy(r, Adopt(q, c), kinds, b, {class})
  <1> DEFINE s == Adopt(q, c)
             start == Begin(q, kind)
             nodes == Append(c.nodes, Filled(c))
             k == [child |-> Len(c.nodes) + 1]
             kids == Append(q.kids, k)
  <1>1. Follows(r, q) /\ Wellformed(r) /\ q \in Parser /\ Wellformed(q) /\ Follows(q, q)
    BY TidyType DEF Tidy
  <1>2. Follows(start, c) /\ Wellformed(start) /\ Follows(r, s) /\ Follows(q, s)
    <2>1. Follows(start, c) /\ Wellformed(start)
      BY DEF Whole
    <2> QED BY <1>1, <2>1, AdoptFollows
  <1>3. c \in Parser /\ Wellformed(c) /\ Continues(start, c)
    BY <1>2 DEF Follows, Continues
  <1>4. Extends(c.nodes, q.nodes)
    <2>1. start.nodes = q.nodes
      BY <1>1 DEF Begin, Parser
    <2> HIDE DEF start
    <2> QED BY <1>3, <2>1 DEF Continues, Extends
  <1>5. ASSUME Clean(s) PROVE Filling(s, kinds, b, {class})
    <2>1. Clean(q) /\ Ok(q) /\ Filling(q, kinds, b, last)
      BY <1>2, <1>5 DEF Follows, Clean, Tidy
    <2>2. s = [c EXCEPT !.node = q.node, !.kids = kids, !.nodes = nodes]
      BY <2>1 DEF Adopt
    <2> HIDE DEF s, kids, nodes
    <2>3. /\ s.node = q.node /\ s.kids = kids /\ s.nodes = nodes
          /\ s.err = c.err /\ s.errors = c.errors
      BY <1>3, <2>2 DEF Parser
    <2>4. Clean(c)
      BY <1>5, <2>3 DEF Clean, Ok
    <2>5. c.node \in inner /\ AllTidy(c.nodes) /\ TidyNode(c.nodes, Filled(c))
      BY <2>4 DEF Whole
    <2>6. nodes \in Seq(GreenNode) /\ Extends(nodes, c.nodes) /\ AllTidy(nodes) /\ k \in Child /\ Class(nodes, k) = class
      BY <1>3, <2>5, NodeTidy DEF nodes
    <2>7. q.nodes \in Seq(GreenNode) /\ c.nodes \in Seq(GreenNode) /\ q.kids \in Seq(Child)
          /\ ReferTo(q.kids, Len(q.nodes))
      BY <1>1, <1>3, WellformedType DEF Wellformed
    <2>8. Extends(nodes, q.nodes)
      BY <1>4, <2>6, <2>7, ExtendsTransitive
    <2>9. ApartIn(nodes, q.kids) /\ LastIn(nodes, q.kids) \in last
      BY <2>1, <2>7, <2>8, ApartStable DEF Filling
    <2>10. Beside(LastIn(nodes, q.kids), class)
      BY <2>9 DEF Beside, Being
    <2>11. ~ IsToken(k)
      BY DEF IsToken
    <2> HIDE DEF k
    <2>12. PartsOf(q.kids) \in Seq(Child)
      BY <2>7, PartsType
    <2>13. PartsOf(kids) = Append(PartsOf(q.kids), k)
      BY <2>6, <2>7, <2>11, PartsOfAppend DEF kids, WithPart, Trivial
    <2>14. ApartIn(nodes, kids) /\ LastIn(nodes, kids) = class
      BY <2>6, <2>9, <2>10, <2>12, <2>13, ApartAppend
    <2>15. Balance(kids) = b
      <3>1. Balance(q.kids) = b
        BY <2>1 DEF Filling
      <3>2. Weight(k) = 0
        BY <2>11 DEF Weight
      <3>3. Balance(kids) = Balance(q.kids) + Weight(k)
        BY <2>6, <2>7, BalanceAppend DEF kids
      <3> QED BY <3>1, <3>2, <3>3, PlusZero
    <2> QED BY <2>1, <2>3, <2>6, <2>14, <2>15 DEF Filling
  <1> HIDE DEF s
  <1>6. Tidy(r, s, kinds, b, {class})
    BY <1>1, <1>2, <1>5 DEF Tidy
  <1> QED BY <1>6 DEF s

LEMMA WrapTidy ==
    ASSUME NEW r, NEW q, NEW inner, Whole(r, q, inner), NEW kind \in NodeKinds,
           NEW class, Being(inner, class)
    PROVE  Tidy(r, Wrap(q, kind), {kind}, 0, {class})
  <1> DEFINE s == Wrap(q, kind)
             nodes == Append(q.nodes, Filled(q))
             k == [child |-> Len(q.nodes) + 1]
             none == <<>>
             kids == << k >>
  <1>1. Follows(r, q) /\ Wellformed(r) /\ q \in Parser /\ Wellformed(q) /\ Follows(q, q)
    BY TidyType DEF Whole
  <1>2. Follows(r, s) /\ Follows(q, s)
    BY <1>1, WrapFollows
  <1>3. ASSUME Clean(s) PROVE Filling(s, {kind}, 0, {class})
    <2>1. Clean(q) /\ Ok(q)
      BY <1>2, <1>3 DEF Follows, Clean
    <2>2. s = [q EXCEPT !.node = kind, !.kids = kids, !.nodes = nodes]
      BY <2>1 DEF Wrap
    <2>3. none \in Seq(Child) /\ PartsOf(none) = none /\ Balance(none) = 0 /\ Len(none) = 0
      BY PartsOfNone, BalanceOfNone
    <2>4. kids = Append(none, k)
      OBVIOUS
    <2> HIDE DEF s, kids, nodes, none
    <2>5. s.node = kind /\ s.kids = kids /\ s.nodes = nodes
      BY <1>1, <2>2 DEF Parser
    <2>6. q.node \in inner /\ AllTidy(q.nodes) /\ TidyNode(q.nodes, Filled(q))
      BY <2>1 DEF Whole
    <2>7. AllTidy(nodes) /\ k \in Child /\ Class(nodes, k) = class
      BY <1>1, <2>6, NodeTidy DEF nodes
    <2>8. ~ IsToken(k)
      BY DEF IsToken
    <2> HIDE DEF k
    <2>9. PartsOf(kids) = Append(PartsOf(none), k)
      BY <2>3, <2>4, <2>7, <2>8, PartsOfAppend DEF WithPart, Trivial
    <2>10. ApartIn(nodes, none) /\ LastIn(nodes, none) = "none"
      <3>1. 1 .. Len(none) - 1 = {}
        BY <2>3
      <3> QED BY <2>3, <3>1 DEF ApartIn, LastIn
    <2>11. Beside(LastIn(nodes, none), class)
      BY <2>10 DEF Beside
    <2>12. ApartIn(nodes, kids) /\ LastIn(nodes, kids) = class
      BY <2>3, <2>7, <2>9, <2>10, <2>11, ApartAppend
    <2>13. Balance(kids) = 0
      <3>1. Weight(k) = 0
        BY <2>8 DEF Weight
      <3>2. Balance(kids) = Balance(none) + Weight(k)
        BY <2>3, <2>4, <2>7, BalanceAppend
      <3> QED BY <2>3, <3>1, <3>2
    <2> QED BY <2>5, <2>7, <2>12, <2>13 DEF Filling
  <1> HIDE DEF s
  <1>4. Tidy(r, s, {kind}, 0, {class})
    BY <1>1, <1>2, <1>3 DEF Tidy
  <1> QED BY <1>4 DEF s

LEMMA AsTidy ==
    ASSUME NEW r, NEW q, NEW kinds, NEW b, NEW last, Tidy(r, q, kinds, b, last), NEW kind \in NodeKinds
    PROVE  Tidy(r, As(q, kind), {kind}, b, last)
  <1> DEFINE s == As(q, kind)
  <1>1. Follows(r, q) /\ Wellformed(r) /\ q \in Parser /\ Follows(q, q)
    BY TidyType DEF Tidy
  <1>2. Follows(r, s) /\ Follows(q, s)
    BY <1>1, AsFollows
  <1>3. s.kids = q.kids /\ s.nodes = q.nodes /\ (Ok(q) => s.node = kind)
    BY <1>1 DEF As, Parser
  <1> HIDE DEF s
  <1>4. ASSUME Clean(s) PROVE Filling(s, {kind}, b, last)
    <2>1. Clean(q) /\ Ok(q)
      BY <1>2, <1>4 DEF Follows, Clean
    <2> QED BY <1>3, <2>1 DEF Filling, Tidy
  <1>5. Tidy(r, s, {kind}, b, last)
    BY <1>1, <1>2, <1>4 DEF Tidy
  <1> QED BY <1>5 DEF s

(* What comes after an error is not to be shown. *)
LEMMA ThenTidy ==
    ASSUME NEW r, NEW q, Follows(r, q), Wellformed(r), NEW s, NEW kinds, NEW b, NEW last,
           Ok(q) => Tidy(r, s, kinds, b, last)
    PROVE  Tidy(r, IF Ok(q) THEN s ELSE q, kinds, b, last)
  <1>1. ~ Ok(q) => Tidy(r, q, kinds, b, last)
    BY TidyError DEF Clean
  <1> QED BY <1>1

LEMMA TryTidy ==
    ASSUME NEW r, NEW q, Follows(r, q), Wellformed(r), NEW s, NEW kinds, NEW b, NEW last,
           Tidy(r, s, kinds, b, last)
    PROVE  Tidy(r, IF Ok(q) THEN Noted(s) ELSE q, kinds, b, last)
  <1>1. Tidy(r, Noted(s), kinds, b, last)
    BY NotedTidy
  <1> DEFINE noted == Noted(s)
  <1> HIDE DEF noted
  <1>2. Tidy(r, IF Ok(q) THEN noted ELSE q, kinds, b, last)
    BY <1>1, ThenTidy DEF noted
  <1> QED BY <1>2 DEF noted

-----------------------------------------------------------------------------
(* What the functions that are called keep: each adds parts of which the   *)
(* last is of a class.  Before an expression no other may stand.           *)
Classes == {"none", "comma", "token", "other", "expr"}
Adding(f, class) ==
    \A q \in Parser, b \in Int : \A kinds, last :
        Tidy(q, q, kinds, b, last) /\ (class = "expr" => "expr" \notin last) =>
            Tidy(q, f[q], kinds, b, {class})
TidiesExprs(sub) ==
    /\ KeepsExprs(sub)
    /\ \A p \in Int : Adding(sub.Expr[p], "expr")
    /\ \A p \in Int : \A q \in Parser : Whole(q, q, Exprs) => Whole(q, sub.InfixPart[p][q], Exprs)
    /\ \A t \in Terminals : Adding(sub.ArgList[t], "expr")
    /\ Adding(sub.SubscriptList, "expr")
    /\ Adding(sub.GenericArgs, "other")
    /\ \A d \in BOOLEAN : Adding(sub.IdRefEntries[d], "other")
    /\ \A q \in Parser : Tidy(q, q, Structural, 0, Classes) => Tidy(q, sub.TypeSuffix[q], Structural, 0, Classes)
    /\ Adding(sub.TypeName, "other")
    /\ Adding(sub.MatchCases, "other")

LEMMA ZeroIsInt == 0 \in Int
  OBVIOUS

LEMMA CallTidy ==
    ASSUME NEW r, NEW q, NEW kinds, NEW b \in Int, NEW last, Tidy(r, q, kinds, b, last),
           NEW f, NEW class, Adding(f, class), class = "expr" => "expr" \notin last
    PROVE  Tidy(r, f[q], kinds, b, {class})
  <1>1. q \in Parser /\ Tidy(q, q, kinds, b, last)
    BY TidyHere, TidyType DEF Tidy
  <1>2. Tidy(q, f[q], kinds, b, {class})
    BY <1>1 DEF Adding
  <1>3. Follows(r, q) /\ Wellformed(r)
    BY DEF Tidy
  <1> QED BY <1>2, <1>3, TidyThen

(* The calls that add an expression, and the others. *)
LEMMA ExprTidy ==
    ASSUME NEW sub, TidiesExprs(sub), NEW r, NEW q, NEW kinds, NEW b \in Int, NEW last,
           Tidy(r, q, kinds, b, last), "expr" \notin last
    PROVE  /\ \A p \in Int : Tidy(r, sub.Expr[p][q], kinds, b, {"expr"})
           /\ \A t \in Terminals : Tidy(r, sub.ArgList[t][q], kinds, b, {"expr"})
           /\ Tidy(r, sub.SubscriptList[q], kinds, b, {"expr"})
  <1>1. /\ \A p \in Int : Adding(sub.Expr[p], "expr")
        /\ \A t \in Terminals : Adding(sub.ArgList[t], "expr")
        /\ Adding(sub.SubscriptList, "expr")
    BY DEF TidiesExprs
  <1> QED BY <1>1, CallTidy

LEMMA OthersTidy ==
    ASSUME NEW sub, TidiesExprs(sub), NEW r, NEW q, NEW kinds, NEW b \in Int, NEW last,
           Tidy(r, q, kinds, b, last)
    PROVE  /\ Tidy(r, sub.GenericArgs[q], kinds, b, {"other"})
           /\ \A d \in BOOLEAN : Tidy(r, sub.IdRefEntries[d][q], kinds, b, {"other"})
           /\ Tidy(r, sub.TypeName[q], kinds, b, {"other"})
           /\ Tidy(r, sub.MatchCases[q], kinds, b, {"other"})
  <1>1. /\ Adding(sub.GenericArgs, "other") /\ Adding(sub.TypeName, "other") /\ Adding(sub.MatchCases, "other")
        /\ \A d \in BOOLEAN : Adding(sub.IdRefEntries[d], "other")
    BY DEF TidiesExprs
  <1> QED BY <1>1, CallTidy

(* A structural node of its own. *)
LEMMA StructuralTidy ==
    ASSUME NEW r, NEW q, NEW kinds, NEW b \in Int, NEW last, Tidy(r, q, kinds, b, last),
           NEW kind \in NodeKinds, NEW c, NEW inner, inner \subseteq Structural,
           NEW ends, Tidy(Begin(q, kind), c, inner, 0, ends)
    PROVE  Tidy(r, Adopt(q, c), kinds, b, {"other"})
  <1>1. Whole(Begin(q, kind), c, inner)
    BY TidyWhole
  <1>2. Being(inner, "other")
    BY DEF Being
  <1> QED BY <1>1, <1>2, AdoptTidy

(* Arguments. *)
LEMMA ArgListTidy ==
    ASSUME NEW sub, TidiesExprs(sub), NEW r, NEW q, NEW kinds, NEW b \in Int, NEW last,
           Tidy(r, q, kinds, b, last), "expr" \notin last, NEW t \in Terminals
    PROVE  Tidy(r, ArgList(sub, q, t), kinds, b, {"expr"})
  <1> DEFINE e == sub.Expr[0][q]
             next == sub.ArgList[t][Separated(e)]
  <1>1. Tidy(r, e, kinds, b, {"expr"})
    BY ZeroIsInt, ExprTidy
  <1> HIDE DEF e
  <1>2. Tidy(r, Separated(e), kinds, b, {"comma"})
    BY <1>1, SeparatedTidy
  <1>3. Tidy(r, next, kinds, b, {"expr"})
    BY <1>2, ExprTidy
  <1> HIDE DEF next
  <1>4. ArgList(sub, q, t) = IF Ok(e) THEN IF Peek(e) = t THEN e ELSE next ELSE e
    BY DEF ArgList, Then, e, next
  <1> QED BY <1>1, <1>3, <1>4

LEMMA ArgsTidy ==
    ASSUME NEW sub, TidiesExprs(sub), NEW r, NEW q, NEW kinds, NEW b \in Int, NEW last,
           Tidy(r, q, kinds, b, last), NEW t \in Terminals
    PROVE  Tidy(r, Args(sub, q, t), kinds, b, {"other"})
  <1> DEFINE a == Begin(q, "Args")
             c == IF Peek(a) = t THEN a ELSE sub.ArgList[t][a]
  <1>1. "Args" \in NodeKinds /\ {"Args"} \subseteq Structural
    BY DEF NodeKinds, Structural
  <1>2. Tidy(a, a, {"Args"}, 0, {"none"})
    BY <1>1, BeginTidy
  <1>3. Tidy(a, sub.ArgList[t][a], {"Args"}, 0, {"expr"})
    BY <1>2, ZeroIsInt, ExprTidy
  <1>4. Tidy(a, c, {"Args"}, 0, Classes)
    BY <1>2, <1>3, TidyMore DEF Classes
  <1>5. Args(sub, q, t) = Adopt(q, c)
    BY DEF Args
  <1> HIDE DEF c
  <1> QED BY <1>1, <1>4, <1>5, StructuralTidy

LEMMA SubscriptListTidy ==
    ASSUME NEW sub, TidiesExprs(sub), NEW r, NEW q, NEW kinds, NEW b \in Int, NEW last,
           Tidy(r, q, kinds, b, last), "expr" \notin last
    PROVE  Tidy(r, SubscriptList(sub, q), kinds, b, {"expr"})
  <1> DEFINE e == SplitRDBrackets(sub.Expr[0][q])
             next == sub.SubscriptList[Separated(e)]
  <1>1. Tidy(r, e, kinds, b, {"expr"})
    BY ZeroIsInt, ExprTidy, SplitsTidy
  <1> HIDE DEF e
  <1>2. Tidy(r, Separated(e), kinds, b, {"comma"})
    BY <1>1, SeparatedTidy
  <1>3. Tidy(r, next, kinds, b, {"expr"})
    BY <1>2, ExprTidy
  <1> HIDE DEF next
  <1>4. SubscriptList(sub, q) = IF Ok(e) THEN IF Peek(e) = "]" THEN e ELSE next ELSE e
    BY DEF SubscriptList, Then, e, next
  <1> QED BY <1>1, <1>3, <1>4

LEMMA SubscriptArgsTidy ==
    ASSUME NEW sub, TidiesExprs(sub), NEW r, NEW q, NEW kinds, NEW b \in Int, NEW last,
           Tidy(r, q, kinds, b, last)
    PROVE  Tidy(r, SubscriptArgs(sub, q), kinds, b, {"other"})
  <1> DEFINE a == Begin(q, "Args")
             c == sub.SubscriptList[SplitRDBrackets(a)]
  <1>1. "Args" \in NodeKinds /\ {"Args"} \subseteq Structural
    BY DEF NodeKinds, Structural
  <1>2. Tidy(a, SplitRDBrackets(a), {"Args"}, 0, {"none"})
    BY <1>1, BeginTidy, SplitsTidy
  <1>3. Tidy(a, c, {"Args"}, 0, {"expr"})
    BY <1>2, ZeroIsInt, ExprTidy
  <1>4. SubscriptArgs(sub, q) = Adopt(q, c)
    BY DEF SubscriptArgs
  <1> HIDE DEF c
  <1> QED BY <1>1, <1>3, <1>4, StructuralTidy

(* References and type names. *)
LEMMA GenericArgsTidy ==
    ASSUME NEW sub, TidiesExprs(sub), NEW r, NEW q, NEW kinds, NEW b \in Int, NEW last,
           Tidy(r, q, kinds, b, last)
    PROVE  Tidy(r, GenericArgs(sub, q), kinds, b, {"other"})
  <1> DEFINE a == Begin(q, "Unset")
             t == Adopt(q, sub.TypeName[a])
             next == sub.GenericArgs[Take(t)]
  <1>1. "Unset" \in NodeKinds /\ {"Unset"} \subseteq Structural
    BY DEF NodeKinds, Structural
  <1>2. Tidy(a, a, {"Unset"}, 0, {"none"})
    BY <1>1, BeginTidy
  <1>3. Tidy(a, sub.TypeName[a], {"Unset"}, 0, {"other"})
    BY <1>2, ZeroIsInt, OthersTidy
  <1>4. Tidy(r, t, kinds, b, {"other"})
    BY <1>1, <1>3, StructuralTidy
  <1> HIDE DEF t
  <1>5. ASSUME Peek(t) = "," PROVE Tidy(r, next, kinds, b, {"other"})
    <2>1. Tidy(r, Take(t), kinds, b, {"comma"})
      BY <1>4, <1>5, TakeComma
    <2> QED BY <2>1, OthersTidy
  <1> HIDE DEF next
  <1>6. GenericArgs(sub, q) = IF Ok(t) THEN IF Peek(t) = "," THEN next ELSE t ELSE t
    BY DEF GenericArgs, Then, t, next
  <1> QED BY <1>4, <1>5, <1>6

(* Of the tokens that are no brackets. *)
LEMMA PlainTokens ==
    /\ \A id \in {"id", ":", "::", ".", "->", "match", "default", "this", "super", "?", "as"} : WeightOf(id) = 0 /\ id # ","
    /\ \A id \in {"new", "break", "continue", "return", "yield"} : WeightOf(id) = 0 /\ id # ","
    /\ \A id \in Builtin \cup Literals \cup Unary : WeightOf(id) = 0 /\ id # ","
  BY DEF WeightOf, Opening, Closing, Builtin, Literals, Unary

LEMMA BracketTokens ==
    /\ {"(", "[", "{", "<"} \subseteq Opening
    /\ {")", "]", "}", ">"} \subseteq Closing
  BY DEF Opening, Closing

LEMMA OpenGenericArgsTidy ==
    ASSUME NEW r, NEW q, NEW kinds, NEW b \in Int, NEW last, Tidy(r, q, kinds, b, last),
           Peek(q) \in {"::", "<"}
    PROVE  Tidy(r, OpenGenericArgs(q), kinds, b + 1, {"token"})
  <1>1. CASE Peek(q) = "::"
    <2>1. Tidy(r, Take(q), kinds, b, {"token"})
      BY <1>1, PlainTokens, TakePlain
    <2>2. Tidy(r, Expect(Take(q), "<"), kinds, b + 1, {"token"})
      BY <2>1, BracketTokens, ExpectOpening
    <2> QED BY <1>1, <2>2 DEF OpenGenericArgs
  <1>2. CASE Peek(q) # "::"
    <2>1. Peek(q) \in Opening
      BY <1>2, BracketTokens
    <2>2. Tidy(r, Take(q), kinds, b + 1, {"token"})
      BY <2>1, TakeOpening
    <2> QED BY <1>2, <2>2 DEF OpenGenericArgs
  <1> QED BY <1>1, <1>2

LEMMA MoreIsInt ==
    ASSUME NEW b \in Int
    PROVE  b + 1 \in Int
  OBVIOUS

LEMMA IdRefEntryTidy ==
    ASSUME NEW sub, TidiesExprs(sub), NEW r, NEW q, NEW kinds, NEW b \in Int, NEW last,
           Tidy(r, q, kinds, b, last), NEW d
    PROVE  Tidy(r, IdRefEntry(sub, q, d), kinds, b, {"token"})
  <1> DEFINE n == Expect(q, "id")
             o == OpenGenericArgs(n)
             g == sub.GenericArgs[o]
             s == SplitShr(g)
             c == Expect(s, ">")
  <1>1. Tidy(r, n, kinds, b, {"token"})
    BY PlainTokens, ExpectPlain
  <1> HIDE DEF n
  <1>2. ASSUME Peek(n) \in {"::", "<"} PROVE Tidy(r, c, kinds, b, {"token"})
    <2>1. Tidy(r, o, kinds, b + 1, {"token"})
      BY <1>1, <1>2, OpenGenericArgsTidy
    <2> HIDE DEF o
    <2>2. Tidy(r, g, kinds, b + 1, {"other"})
      BY <2>1, MoreIsInt, OthersTidy
    <2> HIDE DEF g
    <2>3. Tidy(r, s, kinds, b + 1, {"other"})
      BY <2>2, SplitsTidy
    <2> HIDE DEF s
    <2> QED BY <2>3, BracketTokens, ExpectClosing
  <1> HIDE DEF c
  <1>3. IdRefEntry(sub, q, d) = IF Ok(n) THEN IF Peek(n) = "::" \/ (Peek(n) = "<" /\ ~ d) THEN c ELSE n ELSE n
    BY DEF IdRefEntry, Then, n, c, s, g, o
  <1> QED BY <1>1, <1>2, <1>3

LEMMA IdRefEntriesTidy ==
    ASSUME NEW sub, TidiesExprs(sub), NEW r, NEW q, NEW kinds, NEW b \in Int, NEW last,
           Tidy(r, q, kinds, b, last), NEW d \in BOOLEAN
    PROVE  Tidy(r, IdRefEntries(sub, q, d), kinds, b, {"other"})
  <1> DEFINE a == Begin(q, "IdRefEntry")
             e == Adopt(q, IdRefEntry(sub, a, d))
             next == sub.IdRefEntries[d][Take(e)]
  <1>1. "IdRefEntry" \in NodeKinds /\ {"IdRefEntry"} \subseteq Structural
    BY DEF NodeKinds, Structural
  <1>2. Tidy(a, a, {"IdRefEntry"}, 0, {"none"})
    BY <1>1, BeginTidy
  <1>3. Tidy(a, IdRefEntry(sub, a, d), {"IdRefEntry"}, 0, {"token"})
    BY <1>2, ZeroIsInt, IdRefEntryTidy
  <1>4. Tidy(r, e, kinds, b, {"other"})
    BY <1>1, <1>3, StructuralTidy
  <1> HIDE DEF e
  <1>5. ASSUME Peek(e) = "." PROVE Tidy(r, next, kinds, b, {"other"})
    <2>1. Tidy(r, Take(e), kinds, b, {"token"})
      BY <1>4, <1>5, PlainTokens, TakePlain
    <2> QED BY <2>1, OthersTidy
  <1> HIDE DEF next
  <1>6. IdRefEntries(sub, q, d) = IF Ok(e) THEN IF Peek(e) = "." THEN next ELSE e ELSE e
    BY DEF IdRefEntries, Then, e, next
  <1> QED BY <1>4, <1>5, <1>6

LEMMA IdRefHeadTidy ==
    ASSUME NEW sub, TidiesExprs(sub), NEW r, NEW q, NEW kinds, NEW b \in Int,
           Tidy(r, q, kinds, b, {"none"}), NEW d \in BOOLEAN
    PROVE  Tidy(r, IdRefHead(sub, q, d), kinds, b, Classes)
  <1> DEFINE self == Peek(q) \in {"this", "super"}
             h == IF self \/ Peek(q) = "::" THEN Take(q) ELSE q
             dotted == sub.IdRefEntries[d][Take(h)]
             plain == sub.IdRefEntries[d][h]
  <1>1. Tidy(r, h, kinds, b, Classes)
    <2>1. ASSUME self \/ Peek(q) = "::" PROVE Tidy(r, Take(q), kinds, b, {"token"})
      BY <2>1, PlainTokens, TakePlain
    <2>2. {"token"} \subseteq Classes /\ {"none"} \subseteq Classes
      BY DEF Classes
    <2> HIDE DEF self
    <2> QED BY <2>1, <2>2, TidyMore
  <1> HIDE DEF h, self
  <1>2. Tidy(r, plain, kinds, b, {"other"})
    BY <1>1, OthersTidy
  <1>3. ASSUME Peek(h) = "." PROVE Tidy(r, dotted, kinds, b, {"other"})
    <2>1. Tidy(r, Take(h), kinds, b, {"token"})
      BY <1>1, <1>3, PlainTokens, TakePlain
    <2> QED BY <2>1, OthersTidy
  <1>4. {"other"} \subseteq Classes
    BY DEF Classes
  <1>5. Tidy(r, plain, kinds, b, Classes) /\ (Peek(h) = "." => Tidy(r, dotted, kinds, b, Classes))
    BY <1>2, <1>3, <1>4, TidyMore
  <1> HIDE DEF dotted, plain
  <1>6. IdRefHead(sub, q, d) =
            IF Ok(h) THEN IF self /\ Peek(h) # "." THEN h ELSE IF self THEN dotted ELSE plain ELSE h
    BY DEF IdRefHead, Then, h, self, dotted, plain
  <1> QED BY <1>1, <1>5, <1>6

LEMMA IdRefTidy ==
    ASSUME NEW sub, TidiesExprs(sub), NEW r, NEW q, NEW kinds, NEW b \in Int, NEW last,
           Tidy(r, q, kinds, b, last), NEW d \in BOOLEAN
    PROVE  Tidy(r, IdRef(sub, q, d), kinds, b, {"other"})
  <1> DEFINE a == Begin(q, "IdRef")
             c == IdRefHead(sub, a, d)
  <1>1. "IdRef" \in NodeKinds /\ {"IdRef"} \subseteq Structural
    BY DEF NodeKinds, Structural
  <1>2. Tidy(a, a, {"IdRef"}, 0, {"none"})
    BY <1>1, BeginTidy
  <1>3. Tidy(a, c, {"IdRef"}, 0, Classes)
    BY <1>2, ZeroIsInt, IdRefHeadTidy
  <1>4. IdRef(sub, q, d) = Adopt(q, c)
    BY DEF IdRef
  <1> HIDE DEF c
  <1> QED BY <1>1, <1>3, <1>4, StructuralTidy

LEMMA TypeBaseTidy ==
    ASSUME NEW sub, TidiesExprs(sub), NEW r, NEW q, Tidy(r, q, Structural, 0, Classes)
    PROVE  Tidy(r, TypeBase(sub, q), Structural, 0, Classes)
  <1> DEFINE a == As(q, "CustomTypeName")
             named == IdRef(sub, a, FALSE)
             failed == Fail(q, "UnexpectedToken")
             taken == Take(q)
  <1>1. {"token"} \subseteq Classes /\ {"other"} \subseteq Classes
    BY DEF Classes
  <1>2. Tidy(r, named, Structural, 0, Classes)
    <2>1. "CustomTypeName" \in NodeKinds /\ {"CustomTypeName"} \subseteq Structural
      BY DEF NodeKinds, Structural
    <2>2. Tidy(r, a, {"CustomTypeName"}, 0, Classes)
      BY <2>1, AsTidy
    <2> HIDE DEF a
    <2>3. Tidy(r, named, {"CustomTypeName"}, 0, {"other"})
      BY <2>2, ZeroIsInt, IdRefTidy
    <2> HIDE DEF named
    <2> QED BY <1>1, <2>1, <2>3, TidyMore
  <1>3. ASSUME Peek(q) \in Builtin PROVE Tidy(r, taken, Structural, 0, Classes)
    <2>1. Tidy(r, taken, Structural, 0, {"token"})
      BY <1>3, ZeroIsInt, PlainTokens, TakePlain
    <2> HIDE DEF taken
    <2> QED BY <1>1, <2>1, TidyMore
  <1>4. Tidy(r, failed, Structural, 0, Classes)
    <2>1. "UnexpectedToken" \in Errors \cup {"endless"} /\ Follows(r, q) /\ Wellformed(r)
      BY DEF Errors, Tidy
    <2> QED BY <2>1, FailTidy
  <1> HIDE DEF taken, failed, named
  <1>5. TypeBase(sub, q) = CASE Peek(q) \in Builtin -> taken
                             [] Peek(q) = "id" -> named
                             [] OTHER -> failed
    BY Zenon DEF TypeBase, taken, failed, named
  <1>6. \/ Peek(q) \in Builtin /\ TypeBase(sub, q) = taken
        \/ TypeBase(sub, q) = named
        \/ TypeBase(sub, q) = failed
    BY <1>5 DEF Builtin
  <1> QED BY <1>2, <1>3, <1>4, <1>6

LEMMA TypeTokens ==
    /\ Plain({"const", "mut"}) /\ Plain({"final"}) /\ Plain({"local"})
    /\ Plain({"restrict", "multi", "synchronized"}) /\ Plain({"?", "!"})
    /\ Plain({"ref"}) /\ Plain({"readonly"}) /\ Plain({"object"})
    /\ Classes \cup {"token"} = Classes
  BY DEF Plain, WeightOf, Opening, Closing, Classes

LEMMA TypeModifiersTidy ==
    ASSUME NEW r, NEW q, NEW kinds, NEW b \in Int, Tidy(r, q, kinds, b, Classes)
    PROVE  Tidy(r, TypeModifiers(q), kinds, b, Classes)
  <1> DEFINE first == Optionals(q, {"const", "mut"}, {"final"}, {"local"})
             second == Optional(first, {"restrict", "multi", "synchronized"})
             third == Optional(second, {"?", "!"})
  <1>1. Tidy(r, first, kinds, b, Classes)
    BY TypeTokens, OptionalsTidy
  <1> HIDE DEF first
  <1>2. Tidy(r, second, kinds, b, Classes)
    BY <1>1, TypeTokens, OptionalTidy
  <1> HIDE DEF second
  <1>3. Tidy(r, third, kinds, b, Classes)
    BY <1>2, TypeTokens, OptionalTidy
  <1> QED BY <1>3 DEF TypeModifiers, third, second, first

LEMMA TypeSuffixTidy ==
    ASSUME NEW sub, TidiesExprs(sub), NEW r, NEW q, Tidy(r, q, Structural, 0, Classes)
    PROVE  Tidy(r, TypeSuffix(sub, q), Structural, 0, Classes)
  <1> DEFINE m == TypeModifiers(q)
             w == Wrap(m, "ArrayTypeName")
             t == Take(w)
             e == Expect(t, "]")
             next == sub.TypeSuffix[e]
  <1>1. Tidy(r, m, Structural, 0, Classes)
    BY ZeroIsInt, TypeModifiersTidy
  <1> HIDE DEF m
  <1>2. ASSUME Ok(m), Peek(m) = "[" PROVE Tidy(r, next, Structural, 0, Classes)
    <2>1. "ArrayTypeName" \in NodeKinds /\ {"ArrayTypeName"} \subseteq Structural
      BY DEF NodeKinds, Structural
    <2>2. Tidy(r, w, {"ArrayTypeName"}, 0, {"other"})
      <3>1. Whole(r, m, Structural) /\ Being(Structural, "other")
        BY <1>1, TidyWhole DEF Being
      <3> QED BY <2>1, <3>1, WrapTidy
    <2>3. Peek(w) \in Opening
      <3>1. m \in Parser
        BY <1>1 DEF Tidy, Follows
      <3>2. w.toks = m.toks /\ w.at = m.at /\ w.err = m.err
        BY <1>2, <3>1 DEF Wrap, Parser
      <3> HIDE DEF w
      <3>3. Peek(w) = Peek(m)
        BY <3>2, SamePlace
      <3> QED BY <1>2, <3>3, BracketTokens
    <2> HIDE DEF w
    <2>4. Tidy(r, t, {"ArrayTypeName"}, 0 + 1, {"token"})
      BY <2>2, <2>3, TakeOpening
    <2> HIDE DEF t
    <2>5. Tidy(r, e, {"ArrayTypeName"}, 0, {"token"})
      BY <2>4, ZeroIsInt, BracketTokens, ExpectClosing
    <2> HIDE DEF e
    <2>6. Tidy(r, e, Structural, 0, Classes)
      BY <2>1, <2>5, TidyMore DEF Classes
    <2>7. Tidy(e, e, Structural, 0, Classes) /\ e \in Parser /\ Follows(r, e) /\ Wellformed(r)
      BY <2>6, TidyHere DEF Tidy, Follows
    <2>8. Tidy(e, next, Structural, 0, Classes)
      BY <2>7 DEF TidiesExprs
    <2> HIDE DEF next
    <2> QED BY <2>7, <2>8, TidyThen
  <1> HIDE DEF next
  <1>3. TypeSuffix(sub, q) = IF Ok(m) THEN IF Peek(m) = "[" THEN next ELSE m ELSE m
    BY DEF TypeSuffix, Then, m, next, e, t, w
  <1> QED BY <1>1, <1>2, <1>3

LEMMA TypeNameTidy ==
    ASSUME NEW sub, TidiesExprs(sub), NEW r, NEW q, NEW kinds, NEW b \in Int, NEW last,
           Tidy(r, q, kinds, b, last)
    PROVE  Tidy(r, TypeName(sub, q), kinds, b, {"other"})
  <1> DEFINE a == Begin(q, "TypeName")
             base == TypeBase(sub, a)
             named == Optional(base, {"object"})
             suffix == sub.TypeSuffix[named]
             full == Optionals(suffix, {"ref"}, {"readonly"}, {"local"})
  <1>1. "TypeName" \in NodeKinds /\ {"TypeName"} \subseteq Structural /\ {"none"} \subseteq Classes
    BY DEF NodeKinds, Structural, Classes
  <1>2. Tidy(a, a, Structural, 0, Classes)
    <2>1. Tidy(a, a, {"TypeName"}, 0, {"none"})
      BY <1>1, BeginTidy
    <2> QED BY <1>1, <2>1, TidyMore
  <1>3. Tidy(a, base, Structural, 0, Classes)
    BY <1>2, TypeBaseTidy
  <1> HIDE DEF base
  <1>4. Tidy(a, named, Structural, 0, Classes)
    BY <1>3, ZeroIsInt, TypeTokens, OptionalTidy
  <1> HIDE DEF named
  <1>5. Tidy(a, suffix, Structural, 0, Classes)
    <2>1. Tidy(named, named, Structural, 0, Classes) /\ named \in Parser /\ Follows(a, named) /\ Wellformed(a)
      BY <1>4, TidyHere DEF Tidy, Follows
    <2>2. Tidy(named, suffix, Structural, 0, Classes)
      BY <2>1 DEF TidiesExprs
    <2> HIDE DEF suffix, a
    <2> QED BY <2>1, <2>2, TidyThen
  <1> HIDE DEF suffix
  <1>6. Tidy(a, full, Structural, 0, Classes)
    BY <1>5, ZeroIsInt, TypeTokens, OptionalsTidy
  <1> HIDE DEF full
  <1>7. Tidy(r, Adopt(q, full), kinds, b, {"other"})
    BY <1>1, <1>6, StructuralTidy
  <1> QED BY <1>7 DEF TypeName, full, suffix, named, base, a

(* The match expression. *)
LEMMA MatchCaseTidy ==
    ASSUME NEW sub, TidiesExprs(sub), NEW r, NEW q, NEW kinds, NEW b \in Int,
           Tidy(r, q, kinds, b, {"none"})
    PROVE  Tidy(r, MatchCase(sub, q), kinds, b, Classes)
  <1> DEFINE label == Try(q, LAMBDA s : Label(sub, s))
             colon == Try(label, LAMBDA s : Expect(s, ":"))
             value == Try(colon, LAMBDA s : sub.Expr[0][s])
  <1>1. Follows(r, q) /\ Wellformed(r)
    BY DEF Tidy
  <1>2. {"token"} \subseteq Classes /\ {"expr"} \subseteq Classes
    BY DEF Classes
  <1>3. Tidy(r, Label(sub, q), kinds, b, Classes)
    <2>1. Tidy(r, Expect(q, "default"), kinds, b, {"token"})
      BY PlainTokens, ExpectPlain
    <2>2. Tidy(r, sub.Expr[0][q], kinds, b, {"expr"})
      BY ZeroIsInt, ExprTidy
    <2>3. Tidy(r, Expect(q, "default"), kinds, b, Classes) /\ Tidy(r, sub.Expr[0][q], kinds, b, Classes)
      BY <1>2, <2>1, <2>2, TidyMore
    <2> QED BY <2>3 DEF Label
  <1>4. Tidy(r, label, kinds, b, Classes)
    BY <1>1, <1>3, TryTidy DEF Try
  <1> HIDE DEF label
  <1>5. Tidy(r, colon, kinds, b, {"token"})
    <2>1. Follows(r, label) /\ Tidy(r, Expect(label, ":"), kinds, b, {"token"})
      BY <1>4, PlainTokens, ExpectPlain DEF Tidy
    <2> QED BY <1>1, <2>1, TryTidy DEF Try
  <1> HIDE DEF colon
  <1>6. Tidy(r, value, kinds, b, Classes)
    <2>1. Follows(r, colon) /\ Tidy(r, sub.Expr[0][colon], kinds, b, {"expr"})
      BY <1>5, ZeroIsInt, ExprTidy DEF Tidy
    <2>2. Tidy(r, sub.Expr[0][colon], kinds, b, Classes)
      BY <1>2, <2>1, TidyMore
    <2> QED BY <1>1, <2>1, <2>2, TryTidy DEF Try
  <1> QED BY <1>6 DEF MatchCase, value, colon, label

LEMMA MatchCasesTidy ==
    ASSUME NEW sub, TidiesExprs(sub), NEW r, NEW q, NEW kinds, NEW b \in Int, NEW last,
           Tidy(r, q, kinds, b, last)
    PROVE  Tidy(r, MatchCases(sub, q), kinds, b, {"other"})
  <1> DEFINE a == Begin(q, "MatchCase")
             c == Adopt(q, MatchCase(sub, a))
             next == sub.MatchCases[Separated(c)]
             turn == IF Ok(c) THEN IF Peek(c) = "}" THEN c ELSE next ELSE c
  <1>1. "MatchCase" \in NodeKinds /\ {"MatchCase"} \subseteq Structural
    BY DEF NodeKinds, Structural
  <1>2. Tidy(a, a, {"MatchCase"}, 0, {"none"})
    BY <1>1, BeginTidy
  <1>3. Tidy(a, MatchCase(sub, a), {"MatchCase"}, 0, Classes)
    BY <1>2, ZeroIsInt, MatchCaseTidy
  <1>4. Tidy(r, c, kinds, b, {"other"})
    BY <1>1, <1>3, StructuralTidy
  <1> HIDE DEF c
  <1>5. Tidy(r, next, kinds, b, {"other"})
    <2>1. Tidy(r, Separated(c), kinds, b, {"comma"})
      BY <1>4, SeparatedTidy
    <2> QED BY <2>1, OthersTidy
  <1> HIDE DEF next
  <1>6. Tidy(r, turn, kinds, b, {"other"})
    BY <1>4, <1>5
  <1> HIDE DEF turn
  <1>7. MatchCases(sub, q) = IF Ok(q) THEN turn ELSE q
    BY DEF MatchCases, Then, turn, c, next
  <1>8. Follows(r, q) /\ Wellformed(r)
    BY DEF Tidy
  <1> QED BY <1>6, <1>7, <1>8, ThenTidy

LEMMA MatchTidy ==
    ASSUME NEW sub, TidiesExprs(sub), NEW r, NEW q, NEW kinds, Tidy(r, q, kinds, 0, {"none"}),
           Peek(As(q, "Match")) = "match"
    PROVE  Tidy(r, Match(sub, q), {"Match"}, 0, {"token"})
  <1> DEFINE K == {"Match"}
             taken == Take(As(q, "Match"))
             open == Try(taken, LAMBDA s : Expect(s, "("))
             value == Try(open, LAMBDA s : sub.Expr[0][s])
             close == Try(value, LAMBDA s : Expect(s, ")"))
             type == MatchType(sub, close)
             brace == Try(type, LAMBDA s : Expect(s, "{"))
             cases == sub.MatchCases[brace]
             end == Try(cases, LAMBDA s : Expect(s, "}"))
  <1>1. Wellformed(r) /\ 0 + 1 \in Int
    BY ZeroIsInt, MoreIsInt DEF Tidy
  <1>2. Tidy(r, taken, K, 0, {"token"})
    <2>1. "Match" \in NodeKinds
      BY DEF NodeKinds
    <2>2. Tidy(r, As(q, "Match"), K, 0, {"none"})
      BY <2>1, AsTidy
    <2> QED BY <2>2, ZeroIsInt, PlainTokens, TakePlain
  <1> HIDE DEF taken, K
  <1>3. Tidy(r, open, K, 0 + 1, {"token"})
    <2>1. Follows(r, taken) /\ Tidy(r, Expect(taken, "("), K, 0 + 1, {"token"})
      BY <1>2, BracketTokens, ExpectOpening DEF Tidy
    <2> QED BY <1>1, <2>1, TryTidy DEF Try
  <1> HIDE DEF open
  <1>4. Tidy(r, value, K, 0 + 1, {"expr"})
    <2>1. Follows(r, open) /\ Tidy(r, sub.Expr[0][open], K, 0 + 1, {"expr"})
      BY <1>1, <1>3, ZeroIsInt, ExprTidy DEF Tidy
    <2> QED BY <1>1, <2>1, TryTidy DEF Try
  <1> HIDE DEF value
  <1>5. Tidy(r, close, K, 0, {"token"})
    <2>1. Follows(r, value) /\ Tidy(r, Expect(value, ")"), K, 0, {"token"})
      BY <1>4, ZeroIsInt, BracketTokens, ExpectClosing DEF Tidy
    <2> QED BY <1>1, <2>1, TryTidy DEF Try
  <1> HIDE DEF close
  <1>6. Tidy(r, type, K, 0, Classes)
    <2> DEFINE t == Take(close)
    <2>1. ASSUME Peek(close) = "->" PROVE Tidy(r, sub.TypeName[t], K, 0, {"other"})
      <3>1. Tidy(r, t, K, 0, {"token"})
        BY <1>5, <2>1, ZeroIsInt, PlainTokens, TakePlain
      <3> HIDE DEF t
      <3> QED BY <3>1, ZeroIsInt, OthersTidy
    <2>2. {"token"} \subseteq Classes /\ {"other"} \subseteq Classes
      BY DEF Classes
    <2>3. Tidy(r, close, K, 0, Classes) /\ (Peek(close) = "->" => Tidy(r, sub.TypeName[t], K, 0, Classes))
      BY <1>5, <2>1, <2>2, TidyMore
    <2> QED BY <2>3 DEF MatchType
  <1> HIDE DEF type
  <1>7. Tidy(r, brace, K, 0 + 1, {"token"})
    <2>1. Follows(r, type) /\ Tidy(r, Expect(type, "{"), K, 0 + 1, {"token"})
      BY <1>6, BracketTokens, ExpectOpening DEF Tidy
    <2> QED BY <1>1, <2>1, TryTidy DEF Try
  <1> HIDE DEF brace
  <1>8. Tidy(r, cases, K, 0 + 1, {"other"})
    BY <1>1, <1>7, OthersTidy
  <1> HIDE DEF cases
  <1>9. Tidy(r, end, K, 0, {"token"})
    <2>1. Follows(r, cases) /\ Tidy(r, Expect(cases, "}"), K, 0, {"token"})
      BY <1>8, ZeroIsInt, BracketTokens, ExpectClosing DEF Tidy
    <2> QED BY <1>1, <2>1, TryTidy DEF Try
  <1> QED BY <1>9 DEF Match, end, cases, brace, type, close, value, open, taken, K

(* Expressions that leave the place where they are. *)
JumpKinds == {"break", "continue", "return", "yield"}

LEMMA JumpTidy ==
    ASSUME NEW sub, TidiesExprs(sub), NEW r, NEW q, NEW kinds, Tidy(r, q, kinds, 0, {"none"}),
           NEW t, t \in JumpKinds, Peek(As(q, t)) = t
    PROVE  Tidy(r, Jump(sub, q, t), {t}, 0, Classes)
  <1> DEFINE j == Take(As(q, t))
             p == Take(j)
             a == Args(sub, p, ")")
             args == Expect(a, ")")
             value == sub.Expr[0][j]
  <1>1. t \in NodeKinds /\ WeightOf(t) = 0 /\ t # ","
    <2>1. t \in NodeKinds
      BY DEF JumpKinds, NodeKinds
    <2>2. WeightOf(t) = 0 /\ t # ","
      BY PlainTokens DEF JumpKinds
    <2> QED BY <2>1, <2>2
  <1>2. Tidy(r, j, {t}, 0, {"token"})
    <2>1. Tidy(r, As(q, t), {t}, 0, {"none"})
      BY <1>1, AsTidy
    <2> QED BY <1>1, <2>1, ZeroIsInt, TakePlain
  <1> HIDE DEF j
  <1>3. ASSUME Peek(j) = "(" PROVE Tidy(r, args, {t}, 0, {"token"})
    <2>1. Tidy(r, p, {t}, 0 + 1, {"token"})
      BY <1>2, <1>3, BracketTokens, TakeOpening
    <2>2. 0 + 1 \in Int /\ ")" \in Terminals
      BY ZeroIsInt, MoreIsInt DEF Terminals
    <2> HIDE DEF p
    <2>3. Tidy(r, a, {t}, 0 + 1, {"other"})
      BY <2>1, <2>2, ArgsTidy
    <2> HIDE DEF a
    <2> QED BY <2>3, ZeroIsInt, BracketTokens, ExpectClosing
  <1>4. Tidy(r, value, {t}, 0, {"expr"})
    BY <1>2, ZeroIsInt, ExprTidy
  <1>5. {"token"} \subseteq Classes /\ {"expr"} \subseteq Classes
    BY DEF Classes
  <1>6. /\ Tidy(r, j, {t}, 0, Classes) /\ Tidy(r, value, {t}, 0, Classes)
        /\ Peek(j) = "(" => Tidy(r, args, {t}, 0, Classes)
    BY <1>2, <1>3, <1>4, <1>5, TidyMore
  <1> HIDE DEF args, value
  <1> DEFINE ends == CASE t = "continue" /\ Peek(j) = "(" -> args
                       [] t = "yield" \/ (t = "return" /\ Peek(j) # ";") -> value
                       [] OTHER -> j
  <1>7. Tidy(r, ends, {t}, 0, Classes)
    BY <1>6
  <1> HIDE DEF ends
  <1>8. Jump(sub, q, t) = IF Ok(j) THEN ends ELSE j
    BY DEF Jump, Then, j, args, value, ends, a, p
  <1> QED BY <1>6, <1>7, <1>8

LEMMA BracketsTidy ==
    ASSUME NEW sub, TidiesExprs(sub), NEW r, NEW q, NEW kinds
    PROVE  /\ Tidy(r, q, kinds, 0 + 1, {"token"}) =>
                  /\ Tidy(r, Expect(sub.Expr[-10][q], ")"), kinds, 0, {"token"})
                  /\ Tidy(r, Expect(Args(sub, q, "}"), "}"), kinds, 0, {"token"})
           /\ Tidy(r, q, kinds, 0, {"token"}) =>
                  Tidy(r, Expect(Args(sub, Expect(sub.TypeName[q], "("), ")"), ")"), kinds, 0, {"token"})
  <1>1. 0 + 1 \in Int /\ -10 \in Int
    OBVIOUS
  <1>2. ")" \in Terminals /\ "}" \in Terminals /\ ")" \in Closing /\ "}" \in Closing /\ "(" \in Opening
    BY DEF Terminals, Closing, Opening
  <1>3. ASSUME Tidy(r, q, kinds, 0 + 1, {"token"})
        PROVE  Tidy(r, Expect(sub.Expr[-10][q], ")"), kinds, 0, {"token"})
    <2> DEFINE e == sub.Expr[-10][q]
    <2>1. Tidy(r, e, kinds, 0 + 1, {"expr"})
      BY <1>1, <1>3, ExprTidy
    <2> HIDE DEF e
    <2>2. Tidy(r, Expect(e, ")"), kinds, 0, {"token"})
      BY <1>2, <2>1, ZeroIsInt, ExpectClosing
    <2> QED BY <2>2 DEF e
  <1>4. ASSUME Tidy(r, q, kinds, 0 + 1, {"token"})
        PROVE  Tidy(r, Expect(Args(sub, q, "}"), "}"), kinds, 0, {"token"})
    <2>1. Tidy(r, Args(sub, q, "}"), kinds, 0 + 1, {"other"})
      BY <1>1, <1>2, <1>4, ArgsTidy
    <2> QED BY <1>2, <2>1, ZeroIsInt, ExpectClosing
  <1>5. ASSUME Tidy(r, q, kinds, 0, {"token"})
        PROVE  Tidy(r, Expect(Args(sub, Expect(sub.TypeName[q], "("), ")"), ")"), kinds, 0, {"token"})
    <2> DEFINE n == sub.TypeName[q]
               o == Expect(n, "(")
               a == Args(sub, o, ")")
    <2>1. Tidy(r, n, kinds, 0, {"other"})
      BY <1>5, ZeroIsInt, OthersTidy
    <2> HIDE DEF n
    <2>2. Tidy(r, o, kinds, 0 + 1, {"token"})
      BY <1>2, <2>1, ExpectOpening
    <2> HIDE DEF o
    <2>3. Tidy(r, a, kinds, 0 + 1, {"other"})
      BY <1>1, <1>2, <2>2, ArgsTidy
    <2> HIDE DEF a
    <2>4. Tidy(r, Expect(a, ")"), kinds, 0, {"token"})
      BY <1>2, <2>3, ZeroIsInt, ExpectClosing
    <2> QED BY <2>4 DEF a, o, n
  <1> QED BY <1>3, <1>4, <1>5

LEMMA AsPeek ==
    ASSUME NEW q \in Parser, NEW kind
    PROVE  Peek(As(q, kind)) = Peek(q)
  <1> DEFINE s == As(q, kind)
  <1>1. s.toks = q.toks /\ s.at = q.at /\ s.err = q.err
    BY DEF As, Parser
  <1> HIDE DEF s
  <1>2. Peek(s) = Peek(q)
    BY <1>1, SamePlace
  <1> QED BY <1>2 DEF s

LEMMA JumpKindsAreExprs == \A kind \in JumpKinds : kind \in Exprs
  <1>1. "break" \in NodeKinds /\ "continue" \in NodeKinds /\ "return" \in NodeKinds /\ "yield" \in NodeKinds
    BY DEF NodeKinds
  <1>2. \A kind \in JumpKinds : kind \notin Structural
    BY DEF Structural, JumpKinds
  <1> QED BY <1>1, <1>2 DEF Exprs, JumpKinds

LEMMA NoExprTidy ==
    ASSUME NEW r, NEW q, Follows(r, q), Wellformed(r), NEW kinds, NEW b, NEW last
    PROVE  Tidy(r, NoExpr(q), kinds, b, last)
  <1>1. Follows(r, Take(q)) /\ "ExpectingExpr" \in Errors \cup {"endless"}
    BY TakeFollows DEF Errors
  <1> QED BY <1>1, FailTidy DEF NoExpr

(* What an expression begins with. *)
LEMMA PrefixTidy ==
    ASSUME NEW sub, TidiesExprs(sub), NEW r, NEW q, NEW kinds, Tidy(r, q, kinds, 0, {"none"})
    PROVE  Whole(r, Prefix(sub, q), Exprs)
  <1> DEFINE t == Peek(q)
             taken(kind) == Take(As(q, kind))
             group(p) == Expect(sub.Expr[-10][p], ")")
             new(p) == Expect(Args(sub, Expect(sub.TypeName[p], "("), ")"), ")")
             list(p) == Expect(Args(sub, p, "}"), "}")
  <1>1. /\ "Group" \in Exprs /\ "New" \in Exprs /\ "Literal" \in Exprs
        /\ "Unary" \in Exprs /\ "InitializerList" \in Exprs /\ "Match" \in Exprs
        /\ "IdRefExpr" \in Exprs
    BY DEF Exprs, NodeKinds, Structural
  <1>2. \A kind \in JumpKinds : kind \in Exprs
    BY JumpKindsAreExprs
  <1>3. Follows(r, q) /\ Wellformed(r) /\ q \in Parser
    BY TidyType DEF Tidy
  <1>4. ASSUME NEW kind \in Exprs, NEW s, NEW last, Tidy(r, s, {kind}, 0, last)
        PROVE  Whole(r, s, Exprs)
    BY <1>4, TidyWhole, WholeMore
  <1>5. ASSUME NEW kind \in Exprs
        PROVE  /\ WeightOf(t) = 0 /\ t # "," => Tidy(r, taken(kind), {kind}, 0, {"token"})
               /\ t \in Opening => Tidy(r, taken(kind), {kind}, 0 + 1, {"token"})
    <2>1. kind \in NodeKinds
      BY DEF Exprs
    <2>2. Tidy(r, As(q, kind), {kind}, 0, {"none"}) /\ Peek(As(q, kind)) = t
      BY <1>3, <2>1, AsTidy, AsPeek
    <2> QED BY <2>2, ZeroIsInt, TakePlain, TakeOpening
  <1>6. Whole(r, IdRef(sub, As(q, "IdRefExpr"), TRUE), Exprs)
    <2>1. "IdRefExpr" \in NodeKinds
      BY <1>1 DEF Exprs
    <2>2. Tidy(r, As(q, "IdRefExpr"), {"IdRefExpr"}, 0, {"none"})
      BY <2>1, AsTidy
    <2>3. Tidy(r, IdRef(sub, As(q, "IdRefExpr"), TRUE), {"IdRefExpr"}, 0, {"other"})
      BY <2>2, ZeroIsInt, IdRefTidy
    <2> QED BY <1>1, <1>4, <2>3
  <1>7. Whole(r, NoExpr(q), Exprs)
    <2>1. Tidy(r, NoExpr(q), {"Literal"}, 0, {"token"})
      BY <1>3, NoExprTidy
    <2> QED BY <1>1, <1>4, <2>1
  <1>8. t = "match" => Whole(r, Match(sub, q), Exprs)
    <2> SUFFICES ASSUME t = "match" PROVE Whole(r, Match(sub, q), Exprs)
      OBVIOUS
    <2>1. Peek(As(q, "Match")) = "match"
      BY <1>3, AsPeek
    <2>2. Tidy(r, Match(sub, q), {"Match"}, 0, {"token"})
      BY <2>1, MatchTidy
    <2> QED BY <1>1, <1>4, <2>2
  <1>9. t \in JumpKinds => Whole(r, Jump(sub, q, t), Exprs)
    <2> SUFFICES ASSUME t \in JumpKinds PROVE Whole(r, Jump(sub, q, t), Exprs)
      OBVIOUS
    <2>1. Peek(As(q, t)) = t
      BY <1>3, AsPeek
    <2>2. Tidy(r, Jump(sub, q, t), {t}, 0, Classes)
      BY <2>1, JumpTidy
    <2> QED BY <1>2, <1>4, <2>2
  <1>10. /\ t = "(" => Whole(r, group(taken("Group")), Exprs)
         /\ t = "new" => Whole(r, new(taken("New")), Exprs)
         /\ t = "{" => Whole(r, list(taken("InitializerList")), Exprs)
         /\ t \in Literals => Whole(r, taken("Literal"), Exprs)
         /\ t \in Unary => Whole(r, taken("Unary"), Exprs)
    <2>1. /\ t = "(" => Tidy(r, taken("Group"), {"Group"}, 0 + 1, {"token"})
          /\ t = "{" => Tidy(r, taken("InitializerList"), {"InitializerList"}, 0 + 1, {"token"})
      <3>1. "(" \in Opening /\ "{" \in Opening
        BY DEF Opening
      <3> HIDE DEF taken
      <3> QED BY <1>1, <1>5, <3>1
    <2>2. /\ t = "new" => Tidy(r, taken("New"), {"New"}, 0, {"token"})
          /\ t \in Literals => Tidy(r, taken("Literal"), {"Literal"}, 0, {"token"})
          /\ t \in Unary => Tidy(r, taken("Unary"), {"Unary"}, 0, {"token"})
      <3>1. t = "new" \/ t \in Literals \/ t \in Unary => WeightOf(t) = 0 /\ t # ","
        BY PlainTokens
      <3> HIDE DEF taken, t
      <3> QED BY <1>1, <1>5, <3>1
    <2>3. ASSUME NEW p, NEW kind
          PROVE  /\ Tidy(r, p, {kind}, 0 + 1, {"token"}) =>
                        /\ Tidy(r, group(p), {kind}, 0, {"token"}) /\ Tidy(r, list(p), {kind}, 0, {"token"})
                 /\ Tidy(r, p, {kind}, 0, {"token"}) => Tidy(r, new(p), {kind}, 0, {"token"})
      BY BracketsTidy
    <2> HIDE DEF taken, group, new, list, t
    <2>4. /\ t = "(" => Tidy(r, group(taken("Group")), {"Group"}, 0, {"token"})
          /\ t = "new" => Tidy(r, new(taken("New")), {"New"}, 0, {"token"})
          /\ t = "{" => Tidy(r, list(taken("InitializerList")), {"InitializerList"}, 0, {"token"})
      BY <2>1, <2>2, <2>3
    <2> QED BY <1>1, <1>4, <2>2, <2>4
  <1> HIDE DEF taken, group, new, list
  <1> QED BY <1>6, <1>7, <1>8, <1>9, <1>10, PrefixUnfolded DEF taken, group, new, list, JumpKinds

(* Operators and their operands. *)
LEMMA OperatorTokens ==
    ASSUME NEW op \in Infixes
    PROVE  /\ op # "," /\ Operation(op) \in Exprs
           /\ op \in Binary => Operation(op) \in Binary
           /\ op \in {"(", "["} => WeightOf(op) = 1
           /\ op \in {".", "as", "?"} => WeightOf(op) = 0
           /\ op \in Binary \/ op \in {"(", "[", ".", "as", "?"}
  <1>1. op # "," /\ (op \in Binary \/ op \in {"(", "[", ".", "as", "?"})
    BY DEF Infixes, Binary, Product, Sum, Shift, Relation, Equality, Assignment
  <1>2. op \in Binary => Operation(op) \in Binary
    BY DEF Binary, Product, Sum, Shift, Relation, Equality, Assignment, Operation
  <1>3. op \in {"(", "[", ".", "as", "?"} =>
            Operation(op) \in {"Call", "Subscript", "HeadedIdRef", "Cast", "Ternary"}
    BY DEF Operation
  <1>4. \A kind \in Binary : kind \notin Structural
    BY DEF Binary, Product, Sum, Shift, Relation, Equality, Assignment, Structural
  <1>5. \A kind \in {"Call", "Subscript", "HeadedIdRef", "Cast", "Ternary"} : kind \notin Structural
    BY DEF Structural
  <1>6. op \in {"(", "["} => WeightOf(op) = 1
    BY DEF WeightOf, Opening
  <1>7. op \in {".", "as", "?"} => WeightOf(op) = 0
    BY PlainTokens
  <1>8. Operation(op) \in Exprs
    <2>1. Operation(op) \in NodeKinds
      BY LevelType
    <2> QED BY <1>1, <1>2, <1>3, <1>4, <1>5, <2>1 DEF Exprs
  <1> QED BY <1>1, <1>2, <1>6, <1>7, <1>8

LEMMA WeightType ==
    ASSUME NEW id
    PROVE  WeightOf(id) \in Int
  BY DEF WeightOf

LEMMA OperandTidy ==
    ASSUME NEW sub, TidiesExprs(sub), NEW r, NEW q, NEW op \in Infixes,
           Tidy(r, q, {Operation(op)}, WeightOf(op), {"token"})
    PROVE  Whole(r, Operand(sub, q, op), {Operation(op)})
  <1> DEFINE K == {Operation(op)}
             w == WeightOf(op)
             call == Expect(Args(sub, q, ")"), ")")
             subscript == Expect(SubscriptArgs(sub, q), "]")
             member == IdRef(sub, q, TRUE)
             cast == sub.TypeName[q]
             first == sub.Expr[10][q]
             colon == Expect(first, ":")
             second == sub.Expr[10][colon]
             right == sub.Expr[OperandLevel(op)][q]
  <1>1. w \in Int /\ 10 \in Int /\ OperandLevel(op) \in Int
    <2>1. w \in Int
      BY WeightType
    <2>2. Level(op) \in Int
      BY LevelType
    <2>3. OperandLevel(op) \in Int
      BY <2>2 DEF OperandLevel
    <2> QED BY <2>1, <2>3
  <1>2. /\ op \in {"(", "["} => w = 1
        /\ op \in {".", "as", "?"} => w = 0
        /\ op \in Binary => K \subseteq Binary
    BY OperatorTokens
  <1>3. ")" \in Terminals /\ ")" \in Closing /\ "]" \in Closing
    BY DEF Terminals, Closing
  <1>4. w = 1 => w = 0 + 1
    OBVIOUS
  <1>5. Tidy(r, q, K, w, {"token"})
    OBVIOUS
  <1> HIDE DEF K, w
  <1>6. op \in {"(", "["} => Tidy(r, q, K, 0 + 1, {"token"}) /\ 0 + 1 \in Int
    BY <1>1, <1>2, <1>4, <1>5
  <1>7. op = "(" => Whole(r, call, K)
    <2> SUFFICES ASSUME op = "(" PROVE Whole(r, call, K)
      OBVIOUS
    <2>1. Tidy(r, Args(sub, q, ")"), K, 0 + 1, {"other"})
      BY <1>3, <1>6, ArgsTidy
    <2>2. Tidy(r, call, K, 0, {"token"})
      BY <1>3, <2>1, ZeroIsInt, ExpectClosing
    <2> HIDE DEF call
    <2> QED BY <2>2, TidyWhole
  <1>8. op = "[" => Whole(r, subscript, K)
    <2> SUFFICES ASSUME op = "[" PROVE Whole(r, subscript, K)
      OBVIOUS
    <2>1. Tidy(r, SubscriptArgs(sub, q), K, 0 + 1, {"other"})
      BY <1>6, SubscriptArgsTidy
    <2>2. Tidy(r, subscript, K, 0, {"token"})
      BY <1>3, <2>1, ZeroIsInt, ExpectClosing
    <2> HIDE DEF subscript
    <2> QED BY <2>2, TidyWhole
  <1>9. op = "." => Whole(r, member, K)
    <2> SUFFICES ASSUME op = "." PROVE Whole(r, member, K)
      OBVIOUS
    <2>1. Tidy(r, member, K, w, {"other"})
      BY <1>1, <1>5, IdRefTidy
    <2> HIDE DEF member
    <2> QED BY <1>2, <2>1, TidyWhole
  <1>10. op = "as" => Whole(r, cast, K)
    <2> SUFFICES ASSUME op = "as" PROVE Whole(r, cast, K)
      OBVIOUS
    <2>1. Tidy(r, cast, K, w, {"other"})
      BY <1>1, <1>5, OthersTidy
    <2> HIDE DEF cast
    <2> QED BY <1>2, <2>1, TidyWhole
  <1>11. op = "?" => Whole(r, second, K)
    <2> SUFFICES ASSUME op = "?" PROVE Whole(r, second, K)
      OBVIOUS
    <2>1. Tidy(r, first, K, w, {"expr"})
      BY <1>1, <1>5, ExprTidy
    <2> HIDE DEF first
    <2>2. Tidy(r, colon, K, w, {"token"})
      BY <1>1, <2>1, PlainTokens, ExpectPlain
    <2> HIDE DEF colon
    <2>3. Tidy(r, second, K, w, {"expr"})
      BY <1>1, <2>2, ExprTidy
    <2> HIDE DEF second
    <2> QED BY <1>2, <2>3, TidyWhole
  <1>12. op \in Binary => Whole(r, right, K)
    <2> SUFFICES ASSUME op \in Binary PROVE Whole(r, right, K)
      OBVIOUS
    <2>1. Tidy(r, right, K, w, {"expr"})
      BY <1>1, <1>5, ExprTidy
    <2> HIDE DEF right
    <2> QED BY <1>2, <2>1, TidyWhole
  <1>13. Operand(sub, q, op) = CASE op = "(" -> call
                                 [] op = "[" -> subscript
                                 [] op = "." -> member
                                 [] op = "as" -> cast
                                 [] op = "?" -> second
                                 [] OTHER -> right
    BY Zenon DEF Operand
  <1>14. op \in Binary \/ op \in {"(", "[", ".", "as", "?"}
    BY OperatorTokens
  <1> HIDE DEF call, subscript, member, cast, second, right
  <1>15. \/ op = "(" /\ Operand(sub, q, op) = call
         \/ op = "[" /\ Operand(sub, q, op) = subscript
         \/ op = "." /\ Operand(sub, q, op) = member
         \/ op = "as" /\ Operand(sub, q, op) = cast
         \/ op = "?" /\ Operand(sub, q, op) = second
         \/ op \in Binary /\ Operand(sub, q, op) = right
    BY <1>13, <1>14
  <1>16. Whole(r, Operand(sub, q, op), K)
    BY <1>7, <1>8, <1>9, <1>10, <1>11, <1>12, <1>15
  <1> QED BY <1>16 DEF K

LEMMA InfixPartWhole ==
    ASSUME NEW sub, TidiesExprs(sub), NEW p \in Int, NEW r, NEW q, Whole(r, q, Exprs)
    PROVE  Whole(r, InfixPart(sub, q, p), Exprs)
  <1> DEFINE op == Peek(q)
             kind == Operation(op)
             w == Wrap(q, kind)
             t == Take(w)
             o == Operand(sub, t, op)
             next == sub.InfixPart[p][o]
             goesOn == Ok(q) /\ op \in Infixes /\ p <= Level(op)
  <1>1. ASSUME Ok(q), op \in Infixes PROVE Whole(r, next, Exprs)
    <2>1. kind \in NodeKinds /\ op # "," /\ {kind} \subseteq Exprs
      BY <1>1, LevelType, OperatorTokens
    <2>2. Tidy(r, w, {kind}, 0, {"expr"})
      <3>1. Being(Exprs, "expr")
        BY DEF Being
      <3> QED BY <2>1, <3>1, WrapTidy
    <2>3. Peek(w) = op
      <3>1. q \in Parser
        BY DEF Whole, Follows
      <3>2. w.toks = q.toks /\ w.at = q.at /\ w.err = q.err
        BY <1>1, <3>1 DEF Wrap, Parser
      <3> HIDE DEF w
      <3> QED BY <3>2, SamePlace
    <2> HIDE DEF w, op
    <2>4. Tidy(r, t, {kind}, WeightOf(op), {"token"})
      <3>1. /\ Follows(r, t)
            /\ Clean(t) => Filling(t, {kind}, 0 + WeightOf(Peek(w)), {ClassOf(Peek(w))})
        BY <2>1, <2>2, <2>3, TakeTidy
      <3>2. 0 + WeightOf(op) = WeightOf(op)
        BY WeightType
      <3>3. ClassOf(op) = "token" /\ Wellformed(r)
        BY <2>1, <2>2 DEF ClassOf, Tidy
      <3> HIDE DEF t
      <3> QED BY <2>3, <3>1, <3>2, <3>3 DEF Tidy
    <2> HIDE DEF t
    <2>5. Whole(r, o, {kind})
      BY <1>1, <2>4, OperandTidy
    <2> HIDE DEF o, kind
    <2>6. Whole(r, o, Exprs)
      <3> DEFINE K == {kind}
      <3>1. K \subseteq Exprs /\ Whole(r, o, K)
        BY <2>1, <2>5
      <3> HIDE DEF K
      <3> QED BY <3>1, WholeMore
    <2>7. Whole(o, o, Exprs) /\ o \in Parser /\ Follows(r, o) /\ Wellformed(r)
      BY <2>6, WholeHere DEF Whole, Follows
    <2>8. Whole(o, next, Exprs)
      BY <2>7 DEF TidiesExprs
    <2> HIDE DEF next
    <2> QED BY <2>7, <2>8, WholeThen
  <1> HIDE DEF next
  <1>2. InfixPart(sub, q, p) = IF goesOn THEN next ELSE q
    BY DEF InfixPart, next, o, t, w
  <1> QED BY <1>1, <1>2

LEMMA ParseExprTidy ==
    ASSUME NEW sub, TidiesExprs(sub), NEW p \in Int, NEW r, NEW q, NEW kinds, NEW b \in Int, NEW last,
           Tidy(r, q, kinds, b, last), "expr" \notin last
    PROVE  Tidy(r, Expr(sub, q, p), kinds, b, {"expr"})
  <1> DEFINE a == Begin(q, "Invalid")
             prefix == Prefix(sub, a)
             c == sub.InfixPart[p][prefix]
             s == Adopt(q, c)
  <1>1. "Invalid" \in NodeKinds /\ Being(Exprs, "expr")
    BY DEF NodeKinds, Being
  <1>2. Tidy(a, a, {"Invalid"}, 0, {"none"})
    BY <1>1, BeginTidy
  <1>3. Whole(a, prefix, Exprs)
    BY <1>2, PrefixTidy
  <1> HIDE DEF prefix
  <1>4. Whole(a, c, Exprs)
    <2>1. Whole(prefix, prefix, Exprs) /\ prefix \in Parser /\ Follows(a, prefix) /\ Wellformed(a)
      BY <1>3, WholeHere DEF Whole, Follows
    <2>2. Whole(prefix, c, Exprs)
      BY <2>1 DEF TidiesExprs
    <2> HIDE DEF a, c
    <2> QED BY <2>1, <2>2, WholeThen
  <1> HIDE DEF c
  <1>5. Tidy(r, s, kinds, b, {"expr"})
    BY <1>1, <1>4, AdoptTidy
  <1> HIDE DEF s
  <1>6. Expr(sub, q, p) = IF Ok(q) THEN s ELSE q
    BY DEF Expr, Then, s, c, prefix, a
  <1>7. Follows(r, q) /\ Wellformed(r)
    BY DEF Tidy
  <1> QED BY <1>5, <1>6, <1>7, ThenTidy

-----------------------------------------------------------------------------
(* All functions keep it, by induction on the depth of calls.              *)

LEMMA NoExprFunctionsTidy == TidiesExprs(NoExprFunctions)
  <1> DEFINE f == NoReturn
  <1>1. \A q \in Parser : f[q] = Fail(q, "endless")
    BY DEF NoReturn
  <1>2. KeepsExprs(NoExprFunctions)
    BY NoExprFunctionsKeep, ExprRecordsKeep
  <1>3. /\ \A p \in Int : NoExprFunctions.Expr[p] = f /\ NoExprFunctions.InfixPart[p] = f
        /\ \A t \in Terminals : NoExprFunctions.ArgList[t] = f
        /\ \A d \in BOOLEAN : NoExprFunctions.IdRefEntries[d] = f
        /\ NoExprFunctions.SubscriptList = f /\ NoExprFunctions.GenericArgs = f
        /\ NoExprFunctions.TypeSuffix = f /\ NoExprFunctions.TypeName = f
        /\ NoExprFunctions.MatchCases = f
    BY DEF NoExprFunctions
  <1> HIDE DEF f
  <1>4. ASSUME NEW q \in Parser, Wellformed(q), NEW kinds, NEW b, NEW last
        PROVE  Tidy(q, f[q], kinds, b, last)
    BY <1>1, <1>4, FollowsItself, FailTidy
  <1>5. ASSUME NEW class PROVE Adding(f, class)
    BY <1>4 DEF Adding, Tidy
  <1>6. ASSUME NEW q \in Parser, Whole(q, q, Exprs) PROVE Whole(q, f[q], Exprs)
    <2>1. Tidy(q, f[q], Exprs, 0, Classes)
      BY <1>4, <1>6 DEF Whole
    <2> QED BY <2>1, TidyWhole
  <1>7. ASSUME NEW q \in Parser, Tidy(q, q, Structural, 0, Classes)
        PROVE  Tidy(q, f[q], Structural, 0, Classes)
    BY <1>4, <1>7 DEF Tidy
  <1> QED BY <1>2, <1>3, <1>5, <1>6, <1>7 DEF TidiesExprs

LEMMA ExprFunctionsTidy ==
    ASSUME NEW sub, TidiesExprs(sub)
    PROVE  TidiesExprs(ExprFunctions(sub))
  <1> DEFINE functions == ExprFunctions(sub)
  <1>1. KeepsExprs(functions)
    BY ExprFunctionsKeep, ExprRecordsKeep DEF TidiesExprs
  <1>2. ASSUME NEW q \in Parser
        PROVE  /\ \A p \in Int : functions.Expr[p][q] = Expr(sub, q, p)
               /\ \A p \in Int : functions.InfixPart[p][q] = InfixPart(sub, q, p)
               /\ \A t \in Terminals : functions.ArgList[t][q] = ArgList(sub, q, t)
               /\ functions.SubscriptList[q] = SubscriptList(sub, q)
               /\ functions.GenericArgs[q] = GenericArgs(sub, q)
               /\ \A d \in BOOLEAN : functions.IdRefEntries[d][q] = IdRefEntries(sub, q, d)
               /\ functions.TypeSuffix[q] = TypeSuffix(sub, q)
               /\ functions.TypeName[q] = TypeName(sub, q)
               /\ functions.MatchCases[q] = MatchCases(sub, q)
    BY Zenon DEF ExprFunctions
  <1> HIDE DEF functions
  <1>3. ASSUME NEW p \in Int PROVE Adding(functions.Expr[p], "expr")
    BY <1>2, ParseExprTidy DEF Adding
  <1>4. ASSUME NEW p \in Int, NEW q \in Parser, Whole(q, q, Exprs)
        PROVE  Whole(q, functions.InfixPart[p][q], Exprs)
    BY <1>2, <1>4, InfixPartWhole
  <1>5. ASSUME NEW t \in Terminals PROVE Adding(functions.ArgList[t], "expr")
    BY <1>2, ArgListTidy DEF Adding
  <1>6. Adding(functions.SubscriptList, "expr")
    BY <1>2, SubscriptListTidy DEF Adding
  <1>7. Adding(functions.GenericArgs, "other")
    BY <1>2, GenericArgsTidy DEF Adding
  <1>8. ASSUME NEW d \in BOOLEAN PROVE Adding(functions.IdRefEntries[d], "other")
    BY <1>2, IdRefEntriesTidy DEF Adding
  <1>9. ASSUME NEW q \in Parser, Tidy(q, q, Structural, 0, Classes)
        PROVE  Tidy(q, functions.TypeSuffix[q], Structural, 0, Classes)
    BY <1>2, <1>9, TypeSuffixTidy
  <1>10. Adding(functions.TypeName, "other")
    BY <1>2, TypeNameTidy DEF Adding
  <1>11. Adding(functions.MatchCases, "other")
    BY <1>2, MatchCasesTidy DEF Adding
  <1>12. TidiesExprs(functions)
    BY <1>1, <1>3, <1>4, <1>5, <1>6, <1>7, <1>8, <1>9, <1>10, <1>11 DEF TidiesExprs
  <1> QED BY <1>12 DEF functions

LEMMA ExprCallsTidy ==
    ASSUME NEW n \in Nat
    PROVE  TidiesExprs(ExprCalls[n])
  <1> DEFINE T == {m \in Nat : TidiesExprs(ExprCalls[m])}
  <1>1. 0 \in T
    BY ExprCallsStep, NoExprFunctionsTidy
  <1>2. ASSUME NEW m \in Nat, m \in T PROVE m + 1 \in T
    BY <1>2, ExprCallsStep, ExprFunctionsTidy
  <1> HIDE DEF T
  <1>3. Nat \subseteq T
    BY <1>1, <1>2, Induction
  <1> QED BY <1>3 DEF T

-----------------------------------------------------------------------------
(* No error is lost. *)

LEMMA TidyNodeApart ==
    ASSUME NEW n, n.kids \in Seq(Child), TidyNode(parsed.nodes, n)
    PROVE  Paired(n) /\ Apart(n)
  <1>1. DOMAIN n.kids = 1 .. Len(n.kids)
    OBVIOUS
  <1>2. \A ids : TokensIn(n, ids) = Brackets(n.kids, ids)
    BY <1>1 DEF TokensIn, Brackets
  <1>3. Paired(n)
    <2>1. Cardinality(Brackets(n.kids, Opening)) \in Nat /\ Cardinality(Brackets(n.kids, Closing)) \in Nat
      BY BracketsType
    <2> DEFINE opened == Cardinality(Brackets(n.kids, Opening))
               closed == Cardinality(Brackets(n.kids, Closing))
    <2>2. Balance(n.kids) = opened - closed
      BY DEF Balance
    <2> HIDE DEF opened, closed
    <2>3. Balance(n.kids) = 0 => opened = closed
      BY <2>1, <2>2 DEF opened, closed
    <2> QED BY <1>2, <2>3 DEF Paired, TidyNode, opened, closed
  <1>4. Apart(n)
    <2> SUFFICES ASSUME NEW i \in 1 .. Len(Parts(n)) - 1
                 PROVE  LET a == Parts(n)[i]
                            b == Parts(n)[i + 1]
                        IN /\ ~ (IsExpr(parsed.nodes, a) /\ IsExpr(parsed.nodes, b))
                           /\ ~ (IsToken(a) /\ IsToken(b) /\ a.id = "," /\ b.id = ",")
      BY DEF Apart
    <2> DEFINE a == Parts(n)[i]
               b == Parts(n)[i + 1]
    <2>1. Beside(Class(parsed.nodes, a), Class(parsed.nodes, b))
      BY DEF TidyNode, ApartIn, Parts
    <2> HIDE DEF a, b
    <2>2. ASSUME NEW k
          PROVE  /\ IsExpr(parsed.nodes, k) => Class(parsed.nodes, k) = "expr"
                 /\ IsToken(k) /\ k.id = "," => Class(parsed.nodes, k) = "comma"
      BY DEF IsExpr, Class
    <2>3. ~ (IsExpr(parsed.nodes, a) /\ IsExpr(parsed.nodes, b))
      BY <2>1, <2>2 DEF Beside
    <2>4. ~ (IsToken(a) /\ IsToken(b) /\ a.id = "," /\ b.id = ",")
      BY <2>1, <2>2 DEF Beside
    <2> QED BY <2>3, <2>4 DEF a, b
  <1> QED BY <1>3, <1>4

LEMMA TypedNoErrorLost == Typed => NoErrorLost
  <1> SUFFICES ASSUME Typed, Accepted PROVE \A n \in Nodes(parsed) : Paired(n) /\ Apart(n)
    BY DEF NoErrorLost
  <1> DEFINE start == Unparsed(input, "Statement")
             sub == ExprCalls[MaxDepth(input)]
  <1>1. input \in Seq(Kinds \ {"end"}) /\ parsed = Parse(input)
    BY DEF Typed
  <1>2. "Statement" \in NodeKinds
    BY DEF NodeKinds
  <1>3. Tidy(start, start, {"Statement"}, 0, {"none"})
    <2>1. Wellformed(start)
      BY <1>1, <1>2, UnparsedWellformed
    <2>2. start.kids = <<>> /\ start.nodes = <<>> /\ start.node = "Statement"
      BY DEF Unparsed
    <2> HIDE DEF start
    <2>3. AllTidy(start.nodes)
      BY <2>2 DEF AllTidy
    <2>4. start \in Parser
      BY <2>1 DEF Wellformed
    <2> QED BY <2>1, <2>2, <2>3, <2>4, EmptyTidy
  <1>4. TidiesExprs(sub)
    BY <1>1, DepthIsNat, ExprCallsTidy
  <1>5. parsed = sub.Expr[0][start]
    BY <1>1 DEF Parse
  <1> HIDE DEF start, sub
  <1>6. Tidy(start, parsed, {"Statement"}, 0, {"expr"})
    BY <1>3, <1>4, <1>5, ZeroIsInt, ExprTidy
  <1>7. AllTidy(parsed.nodes) /\ TidyNode(parsed.nodes, Filled(parsed))
    <2>1. Clean(parsed)
      BY DEF Accepted, Clean
    <2> QED BY <1>6, <2>1, TidyWhole DEF Whole
  <1>8. Wellformed(parsed) /\ parsed.nodes \in Seq(GreenNode)
    BY <1>6, TidyType, WellformedType DEF Tidy
  <1>9. ASSUME NEW i \in DOMAIN parsed.nodes
        PROVE  Paired(parsed.nodes[i]) /\ Apart(parsed.nodes[i])
    <2>1. i \in 1 .. Len(parsed.nodes) /\ parsed.nodes[i] \in GreenNode
      BY <1>8
    <2>2. parsed.nodes[i].kids \in Seq(Child)
      BY <2>1 DEF GreenNode
    <2> QED BY <1>7, <2>1, <2>2, TidyNodeApart DEF AllTidy
  <1>10. Paired(Filled(parsed)) /\ Apart(Filled(parsed))
    BY <1>7, <1>8, FilledType, TidyNodeApart DEF GreenNode
  <1> QED BY <1>9, <1>10 DEF Nodes

(* An input is accepted without an error only if no bracket, operand or    *)
(* separator is missing in any node of its tree: on every way on which one *)
(* could be passed over, parse_expr and the functions it calls note an     *)
(* error or return one, and neither is forgotten.                          *)
THEOREM AlwaysNoErrorLost == Spec => []NoErrorLost
  BY AlwaysTyped, TypedNoErrorLost, PTL
=============================================================================
