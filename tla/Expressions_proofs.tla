------------------------- MODULE Expressions_proofs -------------------------
(***************************************************************************)
(* What every parsing function of Expressions keeps (Follows), whatever    *)
(* the functions it calls do as long as they keep it as well: hence all    *)
(* functions do, however deep the calls.                                   *)
(***************************************************************************)
EXTENDS Expressions, TokenCursor_proofs

(* No error has come up, noted ones included. *)
Clean(r) == Ok(r) /\ r.errors = <<>>

(* No token that is split. *)
NoneWide(toks) == \A i \in 1 .. Len(toks) : toks[i].id \notin Wide

(* A parsing function that is given the parser r and leaves it as s: no    *)
(* error is forgotten, the list of tokens is only changed to split one,    *)
(* and what has been passed has become leaves.                             *)
Follows(r, s) ==
    /\ r \in Parser /\ s \in Parser
    /\ Clean(s) => Clean(r)
    /\ NoneWide(r.toks) => s.toks = r.toks
    /\ Wellformed(r) => Continues(r, s)

LEMMA FollowsItself ==
    ASSUME NEW r \in Parser
    PROVE  Follows(r, r)
  BY ContinuesReflexive DEF Follows

LEMMA FollowsBy ==
    ASSUME NEW r, NEW q, Follows(r, q), NEW s \in Parser, Clean(s) => Clean(q),
           NoneWide(q.toks) => s.toks = q.toks, Wellformed(q) => Continues(q, s)
    PROVE  Follows(r, s)
  <1>1. Wellformed(r) => Continues(r, s)
    <2> SUFFICES ASSUME Wellformed(r) PROVE Continues(r, s)
      OBVIOUS
    <2>1. Continues(r, q) /\ Wellformed(q)
      BY DEF Follows, Continues
    <2> QED BY <2>1, ContinuesTransitive
  <1>2. NoneWide(r.toks) => s.toks = r.toks
    BY DEF Follows
  <1>3. Clean(s) => Clean(r)
    BY DEF Follows
  <1> QED BY <1>1, <1>2, <1>3 DEF Follows

LEMMA FollowsTransitive ==
    ASSUME NEW r, NEW q, NEW s, Follows(r, q), Follows(q, s)
    PROVE  Follows(r, s)
  <1>1. s \in Parser /\ (Clean(s) => Clean(q)) /\ (NoneWide(q.toks) => s.toks = q.toks)
        /\ (Wellformed(q) => Continues(q, s))
    BY DEF Follows
  <1> QED BY <1>1, FollowsBy

(* The operations of the cursor. *)
LEMMA FailFollows ==
    ASSUME NEW r, NEW q, Follows(r, q), NEW e \in Errors \cup {"endless"}
    PROVE  Follows(r, Fail(q, e))
  <1> DEFINE s == Fail(q, e)
  <1>1. q \in Parser /\ e # "none"
    BY DEF Follows, Errors
  <1>2. s \in Parser /\ s.toks = q.toks /\ (Clean(s) => Clean(q))
    BY <1>1 DEF Parser, Fail, Ok, Clean
  <1>3. Wellformed(q) => Continues(q, s)
    BY ContinuesReflexive, FailContinues
  <1> HIDE DEF s
  <1>4. Follows(r, s)
    BY <1>2, <1>3, FollowsBy
  <1> QED BY <1>4 DEF s

LEMMA ReportFollows ==
    ASSUME NEW r, NEW q, Follows(r, q), NEW e \in Errors
    PROVE  Follows(r, Report(q, e))
  <1> DEFINE s == Report(q, e)
             more == Append(q.errors, e)
  <1>1. q \in Parser /\ q.errors \in Seq(Errors)
    BY DEF Follows, Parser
  <1>2. more \in Seq(Errors) /\ more # <<>>
    BY <1>1, AppendProperties
  <1>3. s = IF Ok(q) THEN [q EXCEPT !.errors = more] ELSE q
    BY DEF Report
  <1> HIDE DEF more, s
  <1>4. s \in Parser /\ s.toks = q.toks /\ (Clean(s) => Clean(q))
    BY <1>1, <1>2, <1>3 DEF Parser, Ok, Clean
  <1>5. Wellformed(q) => Continues(q, s)
    BY ContinuesReflexive, ReportContinues DEF s
  <1>6. Follows(r, s)
    BY <1>4, <1>5, FollowsBy
  <1> QED BY <1>6 DEF s

LEMMA NotedFollows ==
    ASSUME NEW r, NEW q, Follows(r, q)
    PROVE  Follows(r, Noted(q))
  <1> DEFINE s == Noted(q)
             more == Append(q.errors, q.err)
  <1>1. q \in Parser /\ q.errors \in Seq(Errors)
    BY DEF Follows, Parser
  <1>2. s = IF q.err \in {"none", "endless"} THEN q ELSE [q EXCEPT !.errors = more, !.err = "none"]
    BY DEF Noted
  <1>3. q.err \notin {"none", "endless"} => more \in Seq(Errors) /\ more # <<>>
    <2> SUFFICES ASSUME q.err \notin {"none", "endless"} PROVE more \in Seq(Errors) /\ more # <<>>
      OBVIOUS
    <2>1. q.err \in Errors
      BY <1>1 DEF Parser
    <2> QED BY <1>1, <2>1, AppendProperties
  <1> HIDE DEF more, s
  <1>4. s \in Parser /\ s.toks = q.toks /\ (Clean(s) => Clean(q))
    BY <1>1, <1>2, <1>3 DEF Parser, Ok, Clean
  <1>5. Wellformed(q) => Continues(q, s)
    BY ContinuesReflexive, NotedContinues DEF s
  <1>6. Follows(r, s)
    BY <1>4, <1>5, FollowsBy
  <1> QED BY <1>6 DEF s

LEMMA AsFollows ==
    ASSUME NEW r, NEW q, Follows(r, q), NEW kind \in NodeKinds
    PROVE  Follows(r, As(q, kind))
  <1> DEFINE s == As(q, kind)
  <1>1. q \in Parser
    BY DEF Follows
  <1>2. s \in Parser /\ s.toks = q.toks /\ (Clean(s) => Clean(q))
    BY <1>1 DEF Parser, As, Ok, Clean
  <1>3. Wellformed(q) => Continues(q, s)
    BY ContinuesReflexive, AsContinues
  <1> HIDE DEF s
  <1>4. Follows(r, s)
    BY <1>2, <1>3, FollowsBy
  <1> QED BY <1>4 DEF s

LEMMA TurnFollows ==
    ASSUME NEW r, NEW q, NEW s, Follows(r, s)
    PROVE  Follows(r, Turn(q, s))
  <1> DEFINE t == Turn(q, s)
  <1>1. s \in Parser
    BY DEF Follows
  <1>2. t \in Parser /\ t.toks = s.toks /\ (Clean(t) => Clean(s))
    BY <1>1 DEF Parser, Turn, Ok, Clean
  <1>3. Wellformed(s) => Continues(s, t)
    BY ContinuesReflexive, TurnContinues
  <1> HIDE DEF t
  <1>4. Follows(r, t)
    BY <1>2, <1>3, FollowsBy
  <1> QED BY <1>4 DEF t

LEMMA SkipToType ==
    ASSUME NEW q \in Parser, NEW next \in Nat \ {0}, next <= Len(q.toks) + 1
    PROVE  SkipTo(q, next) \in Parser
  <1> DEFINE passed == SubSeq(q.toks, q.at, next - 1)
             kids == q.kids \o passed
  <1>1. q.toks \in Seq(Token) /\ q.at \in Nat \ {0} /\ q.kids \in Seq(Child)
    BY DEF Parser
  <1>2. passed \in Seq(Child)
    <2>1. \A k \in q.at .. next - 1 : q.toks[k] \in Child
      <3>1. \A k \in q.at .. next - 1 : q.toks[k] \in Token
        BY <1>1, ElementOfSeq
      <3> QED BY <3>1 DEF Child
    <2> QED BY <1>1, <2>1, SubSeqProperties
  <1>3. kids \in Seq(Child)
    BY <1>1, <1>2, ConcatProperties
  <1>4. SkipTo(q, next) = [q EXCEPT !.kids = kids, !.at = next]
    BY DEF SkipTo
  <1> HIDE DEF kids
  <1> QED BY <1>3, <1>4 DEF Parser

LEMMA ToNextTokenFollows ==
    ASSUME NEW r, NEW q, Follows(r, q)
    PROVE  Follows(r, ToNextToken(q))
  <1> DEFINE s == ToNextToken(q)
             n == Len(q.toks)
             i == Solid(q)
  <1>1. q \in Parser /\ n \in Nat /\ q.at \in Nat \ {0}
    BY DEF Follows, Parser
  <1>2. i # 0 => i \in q.at .. n
    <2> DEFINE S == {k \in q.at .. n : q.toks[k].id \notin Trivia}
               least == CHOOSE k \in S : \A j \in S : k <= j
    <2> SUFFICES ASSUME S # {} PROVE least \in q.at .. n
      BY DEF Solid
    <2>1. S \in SUBSET Nat
      BY <1>1
    <2>2. \E k \in S : \A j \in S : k <= j
      <3> HIDE DEF S
      <3> QED BY <2>1, LeastNat
    <2>3. least \in S
      <3> HIDE DEF S
      <3> QED BY <2>2
    <2> QED BY <2>3
  <1> HIDE DEF n, i
  <1>3. SkipTo(q, n + 1) \in Parser /\ (i # 0 => SkipTo(q, i) \in Parser)
    <2>1. n + 1 \in Nat \ {0} /\ n + 1 <= Len(q.toks) + 1
      BY <1>1 DEF n
    <2>2. i # 0 => i \in Nat \ {0} /\ i <= Len(q.toks) + 1
      BY <1>1, <1>2 DEF n
    <2> QED BY <1>1, <2>1, <2>2, SkipToType
  <1>4. SkipTo(q, n + 1).toks = q.toks /\ SkipTo(q, i).toks = q.toks
        /\ SkipTo(q, n + 1).err = q.err /\ SkipTo(q, i).err = q.err
        /\ SkipTo(q, n + 1).errors = q.errors /\ SkipTo(q, i).errors = q.errors
    BY <1>1 DEF SkipTo, Parser
  <1>5. s = IF ~ Ok(q) THEN q
            ELSE IF i = 0 THEN Fail(SkipTo(q, n + 1), "ExpectingMoreTokens") ELSE SkipTo(q, i)
    BY DEF ToNextToken, n, i
  <1>6. Fail(SkipTo(q, n + 1), "ExpectingMoreTokens") \in Parser
        /\ Fail(SkipTo(q, n + 1), "ExpectingMoreTokens").toks = q.toks
        /\ (Ok(q) => ~ Ok(Fail(SkipTo(q, n + 1), "ExpectingMoreTokens")))
    <2> DEFINE t == SkipTo(q, n + 1)
    <2>1. t \in Parser /\ t.toks = q.toks /\ t.err = q.err
      BY <1>3, <1>4
    <2> HIDE DEF t
    <2>2. Fail(t, "ExpectingMoreTokens") \in Parser /\ Fail(t, "ExpectingMoreTokens").toks = q.toks
          /\ (Ok(q) => ~ Ok(Fail(t, "ExpectingMoreTokens")))
      BY <2>1 DEF Fail, Parser, Ok, Errors
    <2> QED BY <2>2 DEF t
  <1> HIDE DEF s
  <1>7. s \in Parser /\ s.toks = q.toks /\ (Clean(s) => Clean(q))
    <2>1. CASE ~ Ok(q)
      BY <2>1, <1>1, <1>5
    <2>2. CASE Ok(q) /\ i = 0
      BY <2>2, <1>5, <1>6 DEF Clean
    <2>3. CASE Ok(q) /\ i # 0
      BY <2>3, <1>3, <1>4, <1>5 DEF Clean, Ok
    <2> QED BY <2>1, <2>2, <2>3, Zenon
  <1>8. Wellformed(q) => Continues(q, s)
    BY ContinuesReflexive, ToNextTokenContinues DEF s
  <1>9. Follows(r, s)
    BY <1>7, <1>8, FollowsBy
  <1> QED BY <1>9 DEF s

LEMMA CollectFollows ==
    ASSUME NEW r, NEW q, Follows(r, q)
    PROVE  Follows(r, Collect(q))
  <1> DEFINE s == Collect(q)
             kids == Append(q.kids, q.toks[q.at])
  <1>1. q \in Parser /\ q.at \in Nat \ {0} /\ q.kids \in Seq(Child) /\ q.toks \in Seq(Token)
    BY DEF Follows, Parser
  <1>2. ~ (q.at > Len(q.toks)) => kids \in Seq(Child)
    <2> SUFFICES ASSUME ~ (q.at > Len(q.toks)) PROVE kids \in Seq(Child)
      OBVIOUS
    <2>1. q.toks[q.at] \in Child
      <3>1. q.toks[q.at] \in Token
        BY <1>1, ElementOfSeq
      <3> QED BY <3>1 DEF Child
    <2> QED BY <1>1, <2>1, AppendProperties
  <1>3. s = IF ~ Ok(q) THEN q
            ELSE IF q.at > Len(q.toks) THEN Fail(q, "ExpectingMoreTokens")
            ELSE [q EXCEPT !.kids = kids, !.at = q.at + 1]
    BY DEF Collect
  <1> HIDE DEF kids, s
  <1>4. Follows(r, Fail(q, "ExpectingMoreTokens"))
    BY FailFollows DEF Errors
  <1>5. CASE ~ Ok(q)
    BY <1>3, <1>5 DEF s
  <1>6. CASE Ok(q) /\ q.at > Len(q.toks)
    BY <1>3, <1>4, <1>6 DEF s
  <1>7. CASE Ok(q) /\ ~ (q.at > Len(q.toks))
    <2>0. kids \in Seq(Child) /\ q.at + 1 \in Nat \ {0} /\ s = [q EXCEPT !.kids = kids, !.at = q.at + 1]
      BY <1>1, <1>2, <1>3, <1>7
    <2>1. s \in Parser /\ s.toks = q.toks /\ (Clean(s) => Clean(q))
      BY <1>1, <2>0 DEF Parser, Clean, Ok
    <2>2. Wellformed(q) => Continues(q, s)
      BY ContinuesReflexive, CollectContinues DEF s
    <2>3. Follows(r, s)
      BY <2>1, <2>2, FollowsBy
    <2> QED BY <2>3 DEF s
  <1> QED BY <1>5, <1>6, <1>7, Zenon

LEMMA TakeFollows ==
    ASSUME NEW r, NEW q, Follows(r, q)
    PROVE  Follows(r, Take(q))
  BY ToNextTokenFollows, CollectFollows DEF Take

LEMMA OptionalFollows ==
    ASSUME NEW r, NEW q, Follows(r, q), NEW kinds
    PROVE  Follows(r, Optional(q, kinds))
  BY TakeFollows DEF Optional

LEMMA OptionalsFollows ==
    ASSUME NEW r, NEW q, Follows(r, q), NEW first, NEW second, NEW third
    PROVE  Follows(r, Optionals(q, first, second, third))
  BY OptionalFollows DEF Optionals

LEMMA ExpectFollows ==
    ASSUME NEW r, NEW q, Follows(r, q), NEW kind
    PROVE  Follows(r, Expect(q, kind))
  <1> DEFINE s == ToNextToken(q)
  <1>1. Follows(r, s)
    BY ToNextTokenFollows
  <1>2. Expect(q, kind) = IF Ok(s) THEN IF Peek(s) = kind THEN Collect(s)
                                        ELSE Fail(s, "ExpectingSingleToken")
                          ELSE s
    BY DEF Expect, Then
  <1>3. Follows(r, Collect(s)) /\ Follows(r, Fail(s, "ExpectingSingleToken"))
    BY <1>1, CollectFollows, FailFollows DEF Errors
  <1> QED BY <1>1, <1>2, <1>3

LEMMA SplitFollows ==
    ASSUME NEW r, NEW q, Follows(r, q), NEW double \in Wide, NEW single \in Kinds \ {"end"}
    PROVE  Follows(r, Split(q, double, single))
  <1>1. q \in Parser /\ q.at \in Nat \ {0} /\ q.toks \in Seq(Token)
    BY DEF Follows, Parser
  <1> DEFINE n == Len(q.toks)
             p == Solid(q)
             first == [q.toks[p] EXCEPT !.id = single, !.width = 1]
             second == [id |-> single, from |-> first.from + 1, width |-> 0]
             cut == [q.toks EXCEPT ![p] = first]
             toks == InsertAt(cut, q.at + 1, second)
             s == [q EXCEPT !.toks = toks]
  <1> SUFFICES ASSUME Ok(q), p # 0, Peek(q) = double
               PROVE  Follows(r, Split(q, double, single))
    BY DEF Split
  <1>2. p \in q.at .. n /\ q.toks[p].id = double
    <2> DEFINE S == {k \in q.at .. n : q.toks[k].id \notin Trivia}
               least == CHOOSE k \in S : \A j \in S : k <= j
    <2>1. S # {} /\ p = least
      BY DEF Solid
    <2>2. \E k \in S : \A j \in S : k <= j
      <3>1. S \in SUBSET Nat
        BY <1>1
      <3> HIDE DEF S
      <3> QED BY <2>1, <3>1, LeastNat
    <2>3. least \in S
      <3> HIDE DEF S
      <3> QED BY <2>2
    <2> QED BY <2>1, <2>3 DEF Peek
  <1>3. ~ NoneWide(q.toks)
    <2>1. p \in 1 .. Len(q.toks)
      BY <1>1, <1>2
    <2> QED BY <1>2, <2>1 DEF NoneWide
  <1>4. first \in Token
    <2>1. q.toks[p] \in Token
      BY <1>1, <1>2, ElementOfSeq
    <2> QED BY <2>1 DEF Token
  <1> HIDE DEF first
  <1>5. second \in Token
    BY <1>4 DEF Token
  <1> HIDE DEF second
  <1>6. cut \in Seq(Token) /\ Len(cut) = n
    <2>1. p \in 1 .. n /\ n \in Nat
      BY <1>1, <1>2
    <2> HIDE DEF p
    <2>2. cut \in Seq(Token) /\ Len(cut) = n /\ \A i \in 1 .. n : cut[i] = IF i = p THEN first ELSE q.toks[i]
      BY <1>1, <1>4, <2>1
    <2> QED BY <2>2
  <1>7. q.at + 1 \in 1 .. Len(cut) + 1
    BY <1>1, <1>2, <1>6
  <1> HIDE DEF cut
  <1>8. toks \in Seq(Token)
    BY <1>5, <1>6, <1>7, InsertAtType DEF InsertedAt
  <1>9. Split(q, double, single) = s
    BY Zenon DEF Split, toks, cut, first, second, p
  <1> HIDE DEF toks, p
  <1>10. s \in Parser /\ (Clean(s) => Clean(q))
    BY <1>1, <1>8 DEF Parser, Clean, Ok
  <1>11. Wellformed(q) => Continues(q, s)
    <2>1. double \in Kinds \ {"end"}
      BY DEF Wide, Kinds
    <2> QED BY <1>9, <2>1, ContinuesReflexive, SplitContinues
  <1> HIDE DEF s
  <1>12. Follows(r, s)
    BY <1>3, <1>10, <1>11, FollowsBy
  <1> QED BY <1>9, <1>12

LEMMA SplitsFollow ==
    ASSUME NEW r, NEW q, Follows(r, q)
    PROVE  Follows(r, SplitShr(q)) /\ Follows(r, SplitRDBrackets(q))
  <1>1. ">>" \in Wide /\ ">" \in Kinds \ {"end"} /\ "]]" \in Wide /\ "]" \in Kinds \ {"end"}
    BY DEF Kinds, Wide
  <1> QED BY <1>1, SplitFollows DEF SplitShr, SplitRDBrackets

(* The nodes of the tree. *)
LEMMA ChildType ==
    ASSUME NEW n \in Nat
    PROVE  [child |-> n] \in Child
  BY DEF Child

LEMMA WrapFollows ==
    ASSUME NEW r, NEW q, Follows(r, q), NEW kind \in NodeKinds
    PROVE  Follows(r, Wrap(q, kind))
  <1> DEFINE s == Wrap(q, kind)
             kids == << [child |-> Len(q.nodes) + 1] >>
             nodes == Append(q.nodes, Filled(q))
  <1>1. q \in Parser /\ q.nodes \in Seq(GreenNode)
    BY DEF Follows, Parser
  <1>2. kids \in Seq(Child)
    <2>1. [child |-> Len(q.nodes) + 1] \in Child
      BY <1>1, ChildType
    <2> QED BY <2>1
  <1>3. nodes \in Seq(GreenNode)
    <2>1. Filled(q) \in GreenNode
      BY <1>1 DEF Parser, Filled, GreenNode
    <2> QED BY <1>1, <2>1, AppendProperties
  <1>4. s = IF Ok(q) THEN [q EXCEPT !.node = kind, !.kids = kids, !.nodes = nodes] ELSE q
    BY DEF Wrap
  <1> HIDE DEF kids, nodes, s
  <1>5. s \in Parser /\ s.toks = q.toks /\ (Clean(s) => Clean(q))
    BY <1>1, <1>2, <1>3, <1>4 DEF Parser, Clean, Ok
  <1>6. Wellformed(q) => Continues(q, s)
    BY ContinuesReflexive, WrapContinues DEF s
  <1>7. Follows(r, s)
    BY <1>5, <1>6, FollowsBy
  <1> QED BY <1>7 DEF s

LEMMA BeginFollows ==
    ASSUME NEW r, NEW q, Follows(r, q), NEW kind \in NodeKinds
    PROVE  Follows(Begin(q, kind), Begin(q, kind))
  <1> DEFINE none == <<>>
             s == [q EXCEPT !.node = kind, !.kids = none]
  <1>1. none \in Seq(Child) /\ q \in Parser
    BY DEF Follows
  <1> HIDE DEF none
  <1>2. s \in Parser
    BY <1>1 DEF Parser
  <1> QED BY <1>2, FollowsItself DEF Begin, none

LEMMA AdoptFollows ==
    ASSUME NEW r, NEW q, Follows(r, q), NEW kind \in NodeKinds, NEW c, Follows(Begin(q, kind), c)
    PROVE  Follows(r, Adopt(q, c))
  <1> DEFINE s == Adopt(q, c)
             k == [child |-> Len(c.nodes) + 1]
             kids == Append(q.kids, k)
             nodes == Append(c.nodes, Filled(c))
             b == Begin(q, kind)
  <1>1. /\ q \in Parser /\ c \in Parser /\ q.kids \in Seq(Child) /\ c.nodes \in Seq(GreenNode)
        /\ q.node \in NodeKinds
    BY DEF Follows, Parser
  <1>2. kids \in Seq(Child)
    <2>1. k \in Child
      BY <1>1, ChildType
    <2> HIDE DEF k
    <2> QED BY <1>1, <2>1, AppendProperties
  <1>3. nodes \in Seq(GreenNode)
    <2>1. Filled(c) \in GreenNode
      BY <1>1 DEF Parser, Filled, GreenNode
    <2> QED BY <1>1, <2>1, AppendProperties
  <1>4. s = IF Ok(q) THEN [c EXCEPT !.node = q.node, !.kids = kids, !.nodes = nodes] ELSE q
    BY DEF Adopt
  <1>5. b.toks = q.toks /\ (Clean(b) => Clean(q))
    BY <1>1 DEF Begin, Parser, Clean, Ok
  <1> HIDE DEF kids, nodes, s, b
  <1>6. (Clean(c) => Clean(q)) /\ (NoneWide(q.toks) => c.toks = q.toks)
    BY <1>5 DEF Follows, b
  <1>7. s \in Parser /\ (Clean(s) => Clean(q)) /\ (NoneWide(q.toks) => s.toks = q.toks)
    <2>1. CASE ~ Ok(q)
      BY <2>1, <1>1, <1>4
    <2>2. CASE Ok(q)
      <3>1. s \in Parser /\ s.toks = c.toks /\ (Clean(s) => Clean(c))
        BY <2>2, <1>1, <1>2, <1>3, <1>4 DEF Parser, Clean, Ok
      <3> QED BY <3>1, <1>6
    <2> QED BY <2>1, <2>2
  <1>8. Wellformed(q) => Continues(q, s)
    <2> SUFFICES ASSUME Wellformed(q) PROVE Continues(q, s)
      OBVIOUS
    <2>1. Continues(q, q)
      BY ContinuesReflexive
    <2>2. Continues(b, c)
      <3>1. Continues(b, b)
        BY <2>1, BeginWellformed DEF b
      <3>2. Wellformed(b)
        BY <3>1 DEF Continues
      <3> QED BY <3>2 DEF Follows, b
    <2> QED BY <2>1, <2>2, AdoptContinues DEF s, b
  <1>9. Follows(r, s)
    BY <1>7, <1>8, FollowsBy
  <1> QED BY <1>9 DEF s

-----------------------------------------------------------------------------
(* The functions that are called. *)
Keeping == {f \in [Parser -> Parser] : \A q \in Parser : Follows(q, f[q])}
KeepsExprs(sub) ==
    /\ sub.Expr \in [Int -> Keeping]
    /\ sub.InfixPart \in [Int -> Keeping]
    /\ sub.ArgList \in [Terminals -> Keeping]
    /\ sub.SubscriptList \in Keeping
    /\ sub.GenericArgs \in Keeping
    /\ sub.IdRefEntries \in [BOOLEAN -> Keeping]
    /\ sub.TypeSuffix \in Keeping
    /\ sub.TypeName \in Keeping
    /\ sub.MatchCases \in Keeping

LEMMA CallFollows ==
    ASSUME NEW r, NEW q, Follows(r, q), NEW f \in Keeping
    PROVE  Follows(r, f[q])
  <1>1. q \in Parser
    BY DEF Follows
  <1>2. Follows(q, f[q])
    BY <1>1 DEF Keeping
  <1> QED BY <1>2, FollowsTransitive

LEMMA ExprFollows ==
    ASSUME NEW sub, KeepsExprs(sub), NEW r, NEW q, Follows(r, q), NEW p \in Int
    PROVE  Follows(r, sub.Expr[p][q]) /\ Follows(r, sub.InfixPart[p][q])
  BY CallFollows DEF KeepsExprs

LEMMA ListsFollow ==
    ASSUME NEW sub, KeepsExprs(sub), NEW r, NEW q, Follows(r, q)
    PROVE  /\ \A t \in Terminals : Follows(r, sub.ArgList[t][q])
           /\ Follows(r, sub.SubscriptList[q])
           /\ Follows(r, sub.GenericArgs[q])
           /\ \A d \in BOOLEAN : Follows(r, sub.IdRefEntries[d][q])
           /\ Follows(r, sub.TypeSuffix[q])
           /\ Follows(r, sub.TypeName[q])
           /\ Follows(r, sub.MatchCases[q])
  BY CallFollows DEF KeepsExprs

LEMMA SeparatedFollows ==
    ASSUME NEW r, NEW q, Follows(r, q)
    PROVE  Follows(r, Separated(q))
  <1>1. Follows(r, Report(q, "ExpectingSingleToken"))
    BY ReportFollows DEF Errors
  <1> QED BY <1>1, TakeFollows DEF Separated

(* Arguments. *)
LEMMA ArgListFollows ==
    ASSUME NEW sub, KeepsExprs(sub), NEW r, NEW q, Follows(r, q), NEW t \in Terminals
    PROVE  Follows(r, ArgList(sub, q, t))
  <1> DEFINE e == sub.Expr[0][q]
  <1>1. Follows(r, e)
    BY ExprFollows
  <1>2. Follows(r, sub.ArgList[t][Separated(e)])
    BY <1>1, SeparatedFollows, ListsFollow
  <1> QED BY <1>1, <1>2 DEF ArgList, Then

LEMMA ArgsFollows ==
    ASSUME NEW sub, KeepsExprs(sub), NEW r, NEW q, Follows(r, q), NEW t \in Terminals
    PROVE  Follows(r, Args(sub, q, t))
  <1> DEFINE a == Begin(q, "Args")
  <1>1. "Args" \in NodeKinds
    BY DEF NodeKinds
  <1>2. Follows(a, a) /\ Follows(a, sub.ArgList[t][a])
    BY <1>1, BeginFollows, ListsFollow
  <1> QED BY <1>1, <1>2, AdoptFollows DEF Args

LEMMA SubscriptListFollows ==
    ASSUME NEW sub, KeepsExprs(sub), NEW r, NEW q, Follows(r, q)
    PROVE  Follows(r, SubscriptList(sub, q))
  <1> DEFINE e == SplitRDBrackets(sub.Expr[0][q])
  <1>1. Follows(r, e)
    BY ExprFollows, SplitsFollow
  <1>2. Follows(r, sub.SubscriptList[Separated(e)])
    BY <1>1, SeparatedFollows, ListsFollow
  <1> QED BY <1>1, <1>2 DEF SubscriptList, Then

LEMMA SubscriptArgsFollows ==
    ASSUME NEW sub, KeepsExprs(sub), NEW r, NEW q, Follows(r, q)
    PROVE  Follows(r, SubscriptArgs(sub, q))
  <1> DEFINE a == Begin(q, "Args")
  <1>1. "Args" \in NodeKinds
    BY DEF NodeKinds
  <1>2. Follows(a, sub.SubscriptList[SplitRDBrackets(a)])
    BY <1>1, BeginFollows, SplitsFollow, ListsFollow
  <1> QED BY <1>1, <1>2, AdoptFollows DEF SubscriptArgs

(* References and type names. *)
LEMMA GenericArgsFollows ==
    ASSUME NEW sub, KeepsExprs(sub), NEW r, NEW q, Follows(r, q)
    PROVE  Follows(r, GenericArgs(sub, q))
  <1> DEFINE t == Adopt(q, sub.TypeName[Begin(q, "Unset")])
  <1>1. "Unset" \in NodeKinds
    BY DEF NodeKinds
  <1>2. Follows(Begin(q, "Unset"), sub.TypeName[Begin(q, "Unset")])
    BY <1>1, BeginFollows, ListsFollow
  <1>3. Follows(r, t)
    BY <1>1, <1>2, AdoptFollows
  <1>4. Follows(r, sub.GenericArgs[Take(t)])
    BY <1>3, TakeFollows, ListsFollow
  <1> QED BY <1>3, <1>4 DEF GenericArgs, Then

LEMMA IdRefEntryFollows ==
    ASSUME NEW sub, KeepsExprs(sub), NEW r, NEW q, Follows(r, q), NEW d
    PROVE  Follows(r, IdRefEntry(sub, q, d))
  <1> DEFINE n == Expect(q, "id")
             o == OpenGenericArgs(n)
  <1>1. Follows(r, n)
    BY ExpectFollows
  <1>2. Follows(r, o)
    BY <1>1, TakeFollows, ExpectFollows DEF OpenGenericArgs
  <1>3. Follows(r, Expect(SplitShr(sub.GenericArgs[o]), ">"))
    BY <1>2, ListsFollow, SplitsFollow, ExpectFollows
  <1> QED BY <1>1, <1>3 DEF IdRefEntry, Then

LEMMA IdRefEntriesFollows ==
    ASSUME NEW sub, KeepsExprs(sub), NEW r, NEW q, Follows(r, q), NEW d \in BOOLEAN
    PROVE  Follows(r, IdRefEntries(sub, q, d))
  <1> DEFINE b == Begin(q, "IdRefEntry")
             e == Adopt(q, IdRefEntry(sub, b, d))
  <1>1. "IdRefEntry" \in NodeKinds
    BY DEF NodeKinds
  <1>2. Follows(b, IdRefEntry(sub, b, d))
    BY <1>1, BeginFollows, IdRefEntryFollows
  <1>3. Follows(r, e)
    BY <1>1, <1>2, AdoptFollows
  <1>4. Follows(r, sub.IdRefEntries[d][Take(e)])
    BY <1>3, TakeFollows, ListsFollow
  <1> QED BY <1>3, <1>4 DEF IdRefEntries, Then

LEMMA IdRefHeadFollows ==
    ASSUME NEW sub, KeepsExprs(sub), NEW r, NEW q, Follows(r, q), NEW d \in BOOLEAN
    PROVE  Follows(r, IdRefHead(sub, q, d))
  <1> DEFINE self == Peek(q) \in {"this", "super"}
             h == IF self \/ Peek(q) = "::" THEN Take(q) ELSE q
  <1>1. Follows(r, h)
    BY TakeFollows
  <1>2. Follows(r, sub.IdRefEntries[d][h]) /\ Follows(r, sub.IdRefEntries[d][Take(h)])
    BY <1>1, TakeFollows, ListsFollow
  <1> HIDE DEF self
  <1> QED BY <1>1, <1>2 DEF IdRefHead, Then, self

LEMMA IdRefFollows ==
    ASSUME NEW sub, KeepsExprs(sub), NEW r, NEW q, Follows(r, q), NEW d \in BOOLEAN
    PROVE  Follows(r, IdRef(sub, q, d))
  <1>1. "IdRef" \in NodeKinds
    BY DEF NodeKinds
  <1>2. Follows(Begin(q, "IdRef"), IdRefHead(sub, Begin(q, "IdRef"), d))
    BY <1>1, BeginFollows, IdRefHeadFollows
  <1> QED BY <1>1, <1>2, AdoptFollows DEF IdRef

LEMMA TypeBaseFollows ==
    ASSUME NEW sub, KeepsExprs(sub), NEW r, NEW q, Follows(r, q)
    PROVE  Follows(r, TypeBase(sub, q))
  <1>1. Follows(r, IdRef(sub, As(q, "CustomTypeName"), FALSE))
    <2>1. "CustomTypeName" \in NodeKinds
      BY DEF NodeKinds
    <2> QED BY <2>1, AsFollows, IdRefFollows
  <1>2. Follows(r, Take(q)) /\ Follows(r, Fail(q, "UnexpectedToken"))
    BY TakeFollows, FailFollows DEF Errors
  <1> QED BY <1>1, <1>2 DEF TypeBase

LEMMA TypeModifiersFollows ==
    ASSUME NEW r, NEW q, Follows(r, q)
    PROVE  Follows(r, TypeModifiers(q))
  BY OptionalFollows, OptionalsFollows DEF TypeModifiers

LEMMA TypeSuffixFollows ==
    ASSUME NEW sub, KeepsExprs(sub), NEW r, NEW q, Follows(r, q)
    PROVE  Follows(r, TypeSuffix(sub, q))
  <1> DEFINE m == TypeModifiers(q)
             w == Wrap(m, "ArrayTypeName")
  <1>1. Follows(r, m)
    BY TypeModifiersFollows
  <1>2. Follows(r, w)
    BY <1>1, WrapFollows DEF NodeKinds
  <1>3. Follows(r, sub.TypeSuffix[Expect(Take(w), "]")])
    BY <1>2, TakeFollows, ExpectFollows, ListsFollow
  <1> QED BY <1>1, <1>3 DEF TypeSuffix, Then

LEMMA TypeNameFollows ==
    ASSUME NEW sub, KeepsExprs(sub), NEW r, NEW q, Follows(r, q)
    PROVE  Follows(r, TypeName(sub, q))
  <1> DEFINE b == Begin(q, "TypeName")
             named == Optional(TypeBase(sub, b), {"object"})
             full == Optionals(sub.TypeSuffix[named], {"ref"}, {"readonly"}, {"local"})
  <1>1. "TypeName" \in NodeKinds
    BY DEF NodeKinds
  <1>2. Follows(b, named)
    BY <1>1, BeginFollows, TypeBaseFollows, OptionalFollows
  <1>3. Follows(b, full)
    BY <1>2, ListsFollow, OptionalsFollows
  <1> QED BY <1>1, <1>3, AdoptFollows DEF TypeName

(* The match expression. *)
LEMMA MatchCaseFollows ==
    ASSUME NEW sub, KeepsExprs(sub), NEW r, NEW q, Follows(r, q)
    PROVE  Follows(r, MatchCase(sub, q))
  <1>1. Follows(r, Label(sub, q))
    BY ExpectFollows, ExprFollows DEF Label
  <1>2. Follows(r, Try(q, LAMBDA s : Label(sub, s)))
    BY <1>1, NotedFollows DEF Try
  <1> DEFINE label == Try(q, LAMBDA s : Label(sub, s))
             colon == Try(label, LAMBDA s : Expect(s, ":"))
  <1> HIDE DEF label
  <1>3. Follows(r, colon)
    BY <1>2, ExpectFollows, NotedFollows DEF Try, label
  <1> HIDE DEF colon
  <1>4. Follows(r, Try(colon, LAMBDA s : sub.Expr[0][s]))
    BY <1>3, ExprFollows, NotedFollows DEF Try
  <1> QED BY <1>4 DEF MatchCase, colon, label

LEMMA MatchCasesFollows ==
    ASSUME NEW sub, KeepsExprs(sub), NEW r, NEW q, Follows(r, q)
    PROVE  Follows(r, MatchCases(sub, q))
  <1> DEFINE b == Begin(q, "MatchCase")
             c == Adopt(q, MatchCase(sub, b))
  <1>1. "MatchCase" \in NodeKinds
    BY DEF NodeKinds
  <1>2. Follows(b, MatchCase(sub, b))
    BY <1>1, BeginFollows, MatchCaseFollows
  <1>3. Follows(r, c)
    BY <1>1, <1>2, AdoptFollows
  <1>4. Follows(r, sub.MatchCases[Separated(c)])
    BY <1>3, SeparatedFollows, ListsFollow
  <1> QED BY <1>3, <1>4 DEF MatchCases, Then

LEMMA MatchGoesOn ==
    ASSUME NEW sub, KeepsExprs(sub), NEW r, NEW q, Follows(r, Take(As(q, "Match")))
    PROVE  Follows(r, Match(sub, q))
  <1> DEFINE open == Try(Take(As(q, "Match")), LAMBDA s : Expect(s, "("))
             value == Try(open, LAMBDA s : sub.Expr[0][s])
             close == Try(value, LAMBDA s : Expect(s, ")"))
             brace == Try(MatchType(sub, close), LAMBDA s : Expect(s, "{"))
             cases == sub.MatchCases[brace]
  <1>2. Follows(r, open)
    BY ExpectFollows, NotedFollows DEF Try
  <1> HIDE DEF open
  <1>3. Follows(r, value)
    BY <1>2, ExprFollows, NotedFollows DEF Try
  <1> HIDE DEF value
  <1>4. Follows(r, close)
    BY <1>3, ExpectFollows, NotedFollows DEF Try
  <1> HIDE DEF close
  <1>5. Follows(r, MatchType(sub, close))
    BY <1>4, TakeFollows, ListsFollow DEF MatchType
  <1>6. Follows(r, brace)
    BY <1>5, ExpectFollows, NotedFollows DEF Try
  <1> HIDE DEF brace
  <1>7. Follows(r, cases)
    BY <1>6, ListsFollow
  <1> HIDE DEF cases
  <1>8. Follows(r, Try(cases, LAMBDA s : Expect(s, "}")))
    BY <1>7, ExpectFollows, NotedFollows DEF Try
  <1> QED BY <1>8 DEF Match, open, value, close, brace, cases

LEMMA MatchFollows ==
    ASSUME NEW sub, KeepsExprs(sub), NEW r, NEW q, Follows(r, q)
    PROVE  Follows(r, Match(sub, q))
  <1>1. Follows(r, Take(As(q, "Match")))
    BY AsFollows, TakeFollows DEF NodeKinds
  <1> QED BY <1>1, MatchGoesOn

(* The parts of an expression. *)
LEMMA JumpGoesOn ==
    ASSUME NEW sub, KeepsExprs(sub), NEW r, NEW q, NEW t, Follows(r, Take(As(q, t)))
    PROVE  Follows(r, Jump(sub, q, t))
  <1> DEFINE j == Take(As(q, t))
  <1>3. Follows(r, Expect(Args(sub, Take(j), ")"), ")")) /\ Follows(r, sub.Expr[0][j])
    <2>1. ")" \in Terminals
      BY DEF Terminals
    <2> QED BY <2>1, TakeFollows, ArgsFollows, ExpectFollows, ExprFollows
  <1> QED BY <1>3 DEF Jump, Then

LEMMA JumpFollows ==
    ASSUME NEW sub, KeepsExprs(sub), NEW r, NEW q, Follows(r, q),
           NEW t \in {"break", "continue", "return", "yield"}
    PROVE  Follows(r, Jump(sub, q, t))
  <1>1. t \in NodeKinds
    BY DEF NodeKinds
  <1>2. Follows(r, Take(As(q, t)))
    BY <1>1, AsFollows, TakeFollows
  <1> QED BY <1>2, JumpGoesOn

LEMMA NoExprFollows ==
    ASSUME NEW r, NEW q, Follows(r, q)
    PROVE  Follows(r, NoExpr(q))
  BY TakeFollows, FailFollows DEF NoExpr, Errors

LEMMA BracketsGoOn ==
    ASSUME NEW sub, KeepsExprs(sub), NEW r, NEW q, Follows(r, q)
    PROVE  /\ Follows(r, Expect(sub.Expr[-10][q], ")"))
           /\ Follows(r, Expect(Args(sub, Expect(sub.TypeName[q], "("), ")"), ")"))
           /\ Follows(r, Expect(Args(sub, q, "}"), "}"))
  <1>1. Follows(r, Expect(sub.Expr[-10][q], ")"))
    <2>1. -10 \in Int
      OBVIOUS
    <2> QED BY <2>1, ExprFollows, ExpectFollows
  <1>2. ")" \in Terminals /\ "}" \in Terminals
    BY DEF Terminals
  <1>3. Follows(r, Expect(sub.TypeName[q], "("))
    BY ListsFollow, ExpectFollows
  <1>4. Follows(r, Expect(Args(sub, Expect(sub.TypeName[q], "("), ")"), ")"))
    BY <1>2, <1>3, ArgsFollows, ExpectFollows
  <1>5. Follows(r, Expect(Args(sub, q, "}"), "}"))
    BY <1>2, ArgsFollows, ExpectFollows
  <1> QED BY <1>1, <1>4, <1>5

LEMMA PrefixUnfolded ==
    ASSUME NEW sub, NEW q
    PROVE  LET t == Peek(q)
               taken(kind) == Take(As(q, kind))
           IN /\ t \in {"this", "::", "id"} => Prefix(sub, q) = IdRef(sub, As(q, "IdRefExpr"), TRUE)
              /\ t = "(" => Prefix(sub, q) = Expect(sub.Expr[-10][taken("Group")], ")")
              /\ t = "new" => Prefix(sub, q) =
                     Expect(Args(sub, Expect(sub.TypeName[taken("New")], "("), ")"), ")")
              /\ t \in Literals => Prefix(sub, q) = taken("Literal")
              /\ t = "{" => Prefix(sub, q) = Expect(Args(sub, taken("InitializerList"), "}"), "}")
              /\ t \in Unary => Prefix(sub, q) = taken("Unary")
              /\ t = "match" => Prefix(sub, q) = Match(sub, q)
              /\ t \in {"break", "continue", "return", "yield"} => Prefix(sub, q) = Jump(sub, q, t)
              /\ \/ Prefix(sub, q) = NoExpr(q)
                 \/ t \in {"this", "::", "id", "(", "new", "{", "match", "break", "continue", "return",
                           "yield"}
                 \/ t \in Literals
                 \/ t \in Unary
  <1> DEFINE t == Peek(q)
             idRef == IdRef(sub, As(q, "IdRefExpr"), TRUE)
             group == Expect(sub.Expr[-10][Take(As(q, "Group"))], ")")
             new == Expect(Args(sub, Expect(sub.TypeName[Take(As(q, "New"))], "("), ")"), ")")
             literal == Take(As(q, "Literal"))
             list == Expect(Args(sub, Take(As(q, "InitializerList")), "}"), "}")
             unary == Take(As(q, "Unary"))
             match == Match(sub, q)
             jump == Jump(sub, q, t)
             none == NoExpr(q)
  <1>1. Prefix(sub, q) = CASE t \in {"this", "::", "id"} -> idRef
                           [] t = "(" -> group
                           [] t = "new" -> new
                           [] t \in Literals -> literal
                           [] t = "{" -> list
                           [] t \in Unary -> unary
                           [] t = "match" -> match
                           [] t \in {"break", "continue", "return", "yield"} -> jump
                           [] OTHER -> none
    BY Zenon DEF Prefix
  <1> HIDE DEF t, idRef, group, new, literal, list, unary, match, jump, none
  <1>2. /\ t \in {"this", "::", "id"} => Prefix(sub, q) = idRef
        /\ t = "(" => Prefix(sub, q) = group
        /\ t = "new" => Prefix(sub, q) = new
        /\ t \in Literals => Prefix(sub, q) = literal
        /\ t = "{" => Prefix(sub, q) = list
        /\ t \in Unary => Prefix(sub, q) = unary
        /\ t = "match" => Prefix(sub, q) = match
        /\ t \in {"break", "continue", "return", "yield"} => Prefix(sub, q) = jump
        /\ \/ Prefix(sub, q) = none
           \/ t \in {"this", "::", "id", "(", "new", "{", "match", "break", "continue", "return",
                     "yield"}
           \/ t \in Literals
           \/ t \in Unary
    BY <1>1 DEF Literals, Unary
  <1> QED BY <1>2, Zenon DEF t, idRef, group, new, literal, list, unary, match, jump, none

LEMMA PrefixFollows ==
    ASSUME NEW sub, KeepsExprs(sub), NEW r, NEW q, Follows(r, q)
    PROVE  Follows(r, Prefix(sub, q))
  <1> DEFINE taken(kind) == Take(As(q, kind))
  <1>1. ASSUME NEW kind \in NodeKinds PROVE Follows(r, taken(kind))
    BY AsFollows, TakeFollows
  <1>2. Follows(r, IdRef(sub, As(q, "IdRefExpr"), TRUE))
    BY AsFollows, IdRefFollows DEF NodeKinds
  <1>3. /\ Follows(r, taken("Group")) /\ Follows(r, taken("New")) /\ Follows(r, taken("Literal"))
        /\ Follows(r, taken("Unary")) /\ Follows(r, taken("InitializerList"))
    <2>1. /\ "Group" \in NodeKinds /\ "New" \in NodeKinds /\ "Literal" \in NodeKinds
          /\ "Unary" \in NodeKinds /\ "InitializerList" \in NodeKinds
      BY DEF NodeKinds
    <2> HIDE DEF taken
    <2> QED BY <1>1, <2>1
  <1>4. Follows(r, Match(sub, q)) /\ Follows(r, NoExpr(q))
    BY MatchFollows, NoExprFollows
  <1>5. Peek(q) \in {"break", "continue", "return", "yield"} => Follows(r, Jump(sub, q, Peek(q)))
    BY JumpFollows
  <1>6. /\ Follows(r, Expect(sub.Expr[-10][taken("Group")], ")"))
        /\ Follows(r, Expect(Args(sub, Expect(sub.TypeName[taken("New")], "("), ")"), ")"))
        /\ Follows(r, Expect(Args(sub, taken("InitializerList"), "}"), "}"))
    BY <1>3, BracketsGoOn
  <1> HIDE DEF taken
  <1> QED BY <1>2, <1>3, <1>4, <1>5, <1>6, PrefixUnfolded DEF taken

LEMMA LevelType ==
    ASSUME NEW op \in Infixes
    PROVE  Level(op) \in Int /\ Operation(op) \in NodeKinds
  <1>1. Level(op) \in Int
    BY DEF Infixes, Binary, Product, Sum, Shift, Relation, Equality, Assignment, Level
  <1>2. Operation(op) \in NodeKinds
    BY DEF Infixes, Binary, Product, Sum, Shift, Relation, Equality, Assignment, Operation, NodeKinds
  <1> QED BY <1>1, <1>2

LEMMA OperandFollows ==
    ASSUME NEW sub, KeepsExprs(sub), NEW r, NEW q, Follows(r, q), NEW op \in Infixes
    PROVE  Follows(r, Operand(sub, q, op))
  <1>1. Follows(r, Expect(Args(sub, q, ")"), ")"))
    BY ArgsFollows, ExpectFollows DEF Terminals
  <1>2. Follows(r, Expect(SubscriptArgs(sub, q), "]"))
    BY SubscriptArgsFollows, ExpectFollows
  <1>3. Follows(r, IdRef(sub, q, TRUE)) /\ Follows(r, sub.TypeName[q])
    BY IdRefFollows, ListsFollow
  <1>4. Follows(r, sub.Expr[10][Expect(sub.Expr[10][q], ":")])
    <2>1. Follows(r, Expect(sub.Expr[10][q], ":"))
      BY ExprFollows, ExpectFollows
    <2> QED BY <2>1, ExprFollows
  <1>5. Follows(r, sub.Expr[OperandLevel(op)][q])
    <2>1. OperandLevel(op) \in Int
      BY LevelType DEF OperandLevel
    <2> QED BY <2>1, ExprFollows
  <1> QED BY <1>1, <1>2, <1>3, <1>4, <1>5 DEF Operand

LEMMA InfixPartFollows ==
    ASSUME NEW sub, KeepsExprs(sub), NEW r, NEW q, Follows(r, q), NEW p \in Int
    PROVE  Follows(r, InfixPart(sub, q, p))
  <1> DEFINE op == Peek(q)
             w == Wrap(q, Operation(op))
             o == Operand(sub, Take(w), op)
  <1> SUFFICES ASSUME op \in Infixes PROVE Follows(r, sub.InfixPart[p][o])
    BY DEF InfixPart
  <1>1. Follows(r, w)
    BY LevelType, WrapFollows
  <1>2. Follows(r, o)
    BY <1>1, TakeFollows, OperandFollows
  <1> QED BY <1>2, ExprFollows

LEMMA ParseExprFollows ==
    ASSUME NEW sub, KeepsExprs(sub), NEW r, NEW q, Follows(r, q), NEW p \in Int
    PROVE  Follows(r, Expr(sub, q, p))
  <1> DEFINE b == Begin(q, "Invalid")
             c == sub.InfixPart[p][Prefix(sub, b)]
  <1>1. "Invalid" \in NodeKinds
    BY DEF NodeKinds
  <1>2. Follows(b, c)
    BY <1>1, BeginFollows, PrefixFollows, ExprFollows
  <1>3. Follows(r, Adopt(q, c))
    BY <1>1, <1>2, AdoptFollows
  <1> QED BY <1>3 DEF Expr, Then

-----------------------------------------------------------------------------
(* All functions keep it, by induction on the depth of calls. *)
LEMMA KeepingBy ==
    ASSUME NEW f, f = [q \in Parser |-> f[q]], \A q \in Parser : Follows(q, f[q])
    PROVE  f \in Keeping
  <1>1. \A q \in Parser : f[q] \in Parser
    BY DEF Follows
  <1>2. f \in [Parser -> Parser]
    BY <1>1
  <1> QED BY <1>2 DEF Keeping

LEMMA NoReturnKeeps == NoReturn \in Keeping
  <1>1. NoReturn = [q \in Parser |-> NoReturn[q]]
    BY DEF NoReturn
  <1>2. ASSUME NEW q \in Parser PROVE Follows(q, NoReturn[q])
    <2>1. Follows(q, Fail(q, "endless"))
      BY FollowsItself, FailFollows
    <2> QED BY <2>1 DEF NoReturn
  <1> QED BY <1>1, <1>2, KeepingBy

ExprRecords ==
    [Expr : [Int -> Keeping], InfixPart : [Int -> Keeping], ArgList : [Terminals -> Keeping],
     SubscriptList : Keeping, GenericArgs : Keeping, IdRefEntries : [BOOLEAN -> Keeping],
     TypeSuffix : Keeping, TypeName : Keeping, MatchCases : Keeping]

LEMMA ExprRecordsKeep ==
    ASSUME NEW sub \in ExprRecords
    PROVE  KeepsExprs(sub)
  BY DEF ExprRecords, KeepsExprs

LEMMA NoExprFunctionsKeep == NoExprFunctions \in ExprRecords
  <1> DEFINE f == NoReturn
  <1>1. f \in Keeping
    BY NoReturnKeeps
  <1>2. NoExprFunctions =
          [Expr |-> [p \in Int |-> f], InfixPart |-> [p \in Int |-> f],
           ArgList |-> [t \in Terminals |-> f], SubscriptList |-> f,
           GenericArgs |-> f, IdRefEntries |-> [d \in BOOLEAN |-> f],
           TypeSuffix |-> f, TypeName |-> f, MatchCases |-> f]
    BY DEF NoExprFunctions
  <1> HIDE DEF f
  <1> QED BY <1>1, <1>2 DEF ExprRecords

LEMMA ExprFunctionsKeep ==
    ASSUME NEW sub, KeepsExprs(sub)
    PROVE  ExprFunctions(sub) \in ExprRecords
  <1> DEFINE expr(p) == [r \in Parser |-> Expr(sub, r, p)]
             infix(p) == [r \in Parser |-> InfixPart(sub, r, p)]
             argList(t) == [r \in Parser |-> ArgList(sub, r, t)]
             subscripts == [r \in Parser |-> SubscriptList(sub, r)]
             generics == [r \in Parser |-> GenericArgs(sub, r)]
             entries(d) == [r \in Parser |-> IdRefEntries(sub, r, d)]
             suffix == [r \in Parser |-> TypeSuffix(sub, r)]
             name == [r \in Parser |-> TypeName(sub, r)]
             cases == [r \in Parser |-> MatchCases(sub, r)]
  <1>1. ASSUME NEW p \in Int PROVE expr(p) \in Keeping
    <2>1. \A q \in Parser : Follows(q, expr(p)[q])
      BY FollowsItself, ParseExprFollows
    <2> QED BY <2>1, KeepingBy
  <1>2. ASSUME NEW p \in Int PROVE infix(p) \in Keeping
    <2>1. \A q \in Parser : Follows(q, infix(p)[q])
      BY FollowsItself, InfixPartFollows
    <2> QED BY <2>1, KeepingBy
  <1>3. ASSUME NEW t \in Terminals PROVE argList(t) \in Keeping
    <2>1. \A q \in Parser : Follows(q, argList(t)[q])
      BY FollowsItself, ArgListFollows
    <2> QED BY <2>1, KeepingBy
  <1>4. subscripts \in Keeping
    <2>1. \A q \in Parser : Follows(q, subscripts[q])
      BY FollowsItself, SubscriptListFollows
    <2> QED BY <2>1, KeepingBy
  <1>5. generics \in Keeping
    <2>1. \A q \in Parser : Follows(q, generics[q])
      BY FollowsItself, GenericArgsFollows
    <2> QED BY <2>1, KeepingBy
  <1>6. ASSUME NEW d \in BOOLEAN PROVE entries(d) \in Keeping
    <2>1. \A q \in Parser : Follows(q, entries(d)[q])
      BY FollowsItself, IdRefEntriesFollows
    <2> QED BY <2>1, KeepingBy
  <1>7. suffix \in Keeping
    <2>1. \A q \in Parser : Follows(q, suffix[q])
      BY FollowsItself, TypeSuffixFollows
    <2> QED BY <2>1, KeepingBy
  <1>8. name \in Keeping
    <2>1. \A q \in Parser : Follows(q, name[q])
      BY FollowsItself, TypeNameFollows
    <2> QED BY <2>1, KeepingBy
  <1>9. cases \in Keeping
    <2>1. \A q \in Parser : Follows(q, cases[q])
      BY FollowsItself, MatchCasesFollows
    <2> QED BY <2>1, KeepingBy
  <1>10. ExprFunctions(sub) =
           [Expr |-> [p \in Int |-> expr(p)], InfixPart |-> [p \in Int |-> infix(p)],
            ArgList |-> [t \in Terminals |-> argList(t)], SubscriptList |-> subscripts,
            GenericArgs |-> generics, IdRefEntries |-> [d \in BOOLEAN |-> entries(d)],
            TypeSuffix |-> suffix, TypeName |-> name, MatchCases |-> cases]
    BY Zenon DEF ExprFunctions
  <1> HIDE DEF expr, infix, argList, subscripts, generics, entries, suffix, name, cases
  <1> QED BY <1>1, <1>2, <1>3, <1>4, <1>5, <1>6, <1>7, <1>8, <1>9, <1>10 DEF ExprRecords

(* The calls up to a depth, unfolded. *)
LEMMA ExprCallsStep ==
    /\ ExprCalls[0] = NoExprFunctions
    /\ \A n \in Nat : ExprCalls[n + 1] = ExprFunctions(ExprCalls[n])
    /\ \A n \in Nat : ExprCalls[n] \in ExprRecords
  <1> DEFINE S == ExprRecords
             none == NoExprFunctions
             to(s) == ExprFunctions(s)
             step == [n \in Nat |-> [s \in S |-> to(s)]]
  <1>1. none \in S
    BY NoExprFunctionsKeep
  <1>2. ASSUME NEW s \in S PROVE to(s) \in S
    BY ExprRecordsKeep, ExprFunctionsKeep
  <1> HIDE DEF S, none, to
  <1>3. step \in Steps(S)
    BY <1>2 DEF Steps
  <1>4. ASSUME NEW n \in Nat, NEW s \in S PROVE step[n][s] = to(s)
    OBVIOUS
  <1> HIDE DEF step
  <1>5. PICK f : Recurs(f, S, none, step)
    BY <1>1, <1>3, Recursion
  <1>6. f \in [Nat -> S] /\ f[0] = none /\ \A n \in Nat : f[n + 1] = to(f[n])
    BY <1>4, <1>5 DEF Recurs
  <1>7. ASSUME NEW n \in Nat PROVE f[n] = IF n = 0 THEN none ELSE to(f[n - 1])
    <2>1. n # 0 => n - 1 \in Nat /\ (n - 1) + 1 = n
      OBVIOUS
    <2> QED BY <1>6, <2>1
  <1>8. f = [n \in Nat |-> IF n = 0 THEN none ELSE to(f[n - 1])]
    BY <1>6, <1>7
  <1> DEFINE C == ExprCalls
  <1>9. C = [n \in Nat |-> IF n = 0 THEN none ELSE to(C[n - 1])]
    BY <1>8 DEF ExprCalls, none, to
  <1> HIDE DEF C
  <1>10. C[0] = none /\ \A n \in Nat : C[n + 1] = to(C[n])
    BY <1>9
  <1> DEFINE T == {n \in Nat : C[n] \in S}
  <1>11. 0 \in T /\ \A n \in Nat : n \in T => n + 1 \in T
    BY <1>1, <1>2, <1>10
  <1> HIDE DEF T
  <1>12. Nat \subseteq T
    BY <1>11, Induction
  <1>13. \A n \in Nat : C[n] \in S
    BY <1>12 DEF T
  <1> QED BY <1>10, <1>13 DEF C, S, none, to

LEMMA ExprCallsKeep ==
    ASSUME NEW n \in Nat
    PROVE  KeepsExprs(ExprCalls[n])
  BY ExprCallsStep, ExprRecordsKeep

-----------------------------------------------------------------------------
(* An expression takes a token whenever there is one.                      *)

(* From r to s the parser has passed a token that is no trivia. *)
Past(r, s) == Continues(r, s) /\ \E i \in r.at .. s.at - 1 : s.toks[i].id \notin Trivia

(* There is a token to take. *)
Ready(r) == Wellformed(r) /\ Ok(r) /\ Solid(r) # 0

LEMMA PastThen ==
    ASSUME NEW r, NEW q, NEW s, Past(r, q), Follows(q, s)
    PROVE  Past(r, s)
  <1>1. Continues(r, q) /\ Continues(q, s) /\ Continues(r, s)
    <2>1. Continues(r, q) /\ Wellformed(q)
      BY DEF Past, Continues
    <2>2. Continues(q, s)
      BY <2>1, Zenon DEF Follows
    <2> QED BY <2>1, <2>2, ContinuesTransitive, Zenon
  <1>2. r.at \in Nat /\ q.at \in Nat /\ s.at \in Nat /\ 1 <= r.at /\ q.at <= s.at
    BY <1>1, ContinuesPlaces
  <1>3. PICK i \in r.at .. q.at - 1 : q.toks[i].id \notin Trivia
    BY DEF Past
  <1>4. i \in r.at .. s.at - 1 /\ i \in 1 .. q.at - 1
    BY <1>2
  <1>5. s.toks[i] = q.toks[i]
    BY <1>1, <1>4 DEF Continues
  <1> QED BY <1>1, <1>3, <1>4, <1>5 DEF Past

LEMMA PastFrom ==
    ASSUME NEW r, NEW q, NEW s, Past(q, s), Continues(r, q)
    PROVE  Past(r, s)
  <1>1. Continues(r, s)
    BY ContinuesTransitive DEF Past
  <1>2. r.at \in Nat /\ q.at \in Nat /\ s.at \in Nat /\ r.at <= q.at
    BY ContinuesPlaces DEF Past
  <1>3. PICK i \in q.at .. s.at - 1 : s.toks[i].id \notin Trivia
    BY DEF Past
  <1>4. i \in r.at .. s.at - 1
    BY <1>2
  <1> QED BY <1>1, <1>3, <1>4 DEF Past

LEMMA TakePast ==
    ASSUME NEW r, Ready(r)
    PROVE  Past(r, Take(r))
  <1> DEFINE i == Solid(r)
             q == SkipTo(r, i)
             kids == Append(q.kids, q.toks[q.at])
             s == Take(r)
  <1>1. Wellformed(r) /\ Ok(r) /\ i # 0
    BY DEF Ready
  <1>2. i \in r.at .. Len(r.toks) /\ r.toks[i].id \notin Trivia
    BY <1>1, SolidNext
  <1>3. r \in Parser /\ r.at \in Nat /\ Len(r.toks) \in Nat
    BY <1>1 DEF Wellformed, Parser
  <1>4. ToNextToken(r) = q
    BY <1>1 DEF ToNextToken
  <1>5. q.toks = r.toks /\ q.at = i /\ q.err = r.err /\ q = [q EXCEPT !.at = q.at]
    BY <1>3 DEF SkipTo, Parser
  <1>6. s = [q EXCEPT !.kids = kids, !.at = q.at + 1]
    <2>1. Ok(q) /\ ~ (q.at > Len(q.toks))
      BY <1>1, <1>2, <1>3, <1>5 DEF Ok
    <2>2. Collect(q) = [q EXCEPT !.kids = kids, !.at = q.at + 1]
      BY <2>1 DEF Collect
    <2> QED BY <1>4, <2>2 DEF Take
  <1>7. s.at = i + 1 /\ s.toks = r.toks
    <2>1. q \in Parser
      <3>1. i \in Nat \ {0} /\ i <= Len(r.toks) + 1
        BY <1>1, <1>2, <1>3
      <3> HIDE DEF i
      <3> QED BY <1>3, <3>1, SkipToType
    <2> HIDE DEF q, kids, s
    <2>2. s.at = q.at + 1 /\ s.toks = q.toks
      BY <1>6, <2>1 DEF Parser
    <2> QED BY <1>5, <2>2
  <1>8. Continues(r, s)
    BY <1>1, ContinuesReflexive, TakeContinues
  <1> HIDE DEF i, s
  <1>9. i \in r.at .. s.at - 1 /\ s.toks[i].id \notin Trivia
    BY <1>2, <1>3, <1>7
  <1>10. Past(r, s)
    BY <1>8, <1>9 DEF Past
  <1> QED BY <1>10 DEF s

LEMMA AsReady ==
    ASSUME NEW r, Ready(r), NEW kind \in NodeKinds
    PROVE  Ready(As(r, kind)) /\ Continues(r, As(r, kind)) /\ Peek(As(r, kind)) = Peek(r)
  <1> DEFINE s == As(r, kind)
  <1>1. Wellformed(r) /\ Ok(r) /\ Solid(r) # 0 /\ r \in Parser
    BY DEF Ready, Wellformed
  <1>2. Continues(r, s)
    BY <1>1, ContinuesReflexive, AsContinues
  <1>3. s.toks = r.toks /\ s.at = r.at /\ s.err = r.err
    BY <1>1 DEF As, Parser
  <1>4. Solid(s) = Solid(r) /\ Peek(s) = Peek(r) /\ Ok(s)
    BY <1>1, <1>3 DEF Solid, Peek, Ok
  <1> QED BY <1>1, <1>2, <1>4 DEF Ready, Continues

LEMMA AsPast ==
    ASSUME NEW r, Ready(r), NEW kind \in NodeKinds
    PROVE  Past(r, Take(As(r, kind)))
  BY AsReady, TakePast, PastFrom

LEMMA BeginReady ==
    ASSUME NEW r, Ready(r), NEW kind \in NodeKinds
    PROVE  Ready(Begin(r, kind)) /\ Peek(Begin(r, kind)) = Peek(r)
  <1> DEFINE s == Begin(r, kind)
  <1>1. Wellformed(r) /\ Ok(r) /\ Solid(r) # 0 /\ r \in Parser
    BY DEF Ready, Wellformed
  <1>2. Wellformed(s)
    <2>1. Continues(s, s)
      BY <1>1, ContinuesReflexive, BeginWellformed
    <2> QED BY <2>1 DEF Continues
  <1>3. s.toks = r.toks /\ s.at = r.at /\ s.err = r.err
    BY <1>1 DEF Begin, Parser
  <1>4. Solid(s) = Solid(r) /\ Peek(s) = Peek(r) /\ Ok(s)
    BY <1>1, <1>3 DEF Solid, Peek, Ok
  <1> QED BY <1>2, <1>4 DEF Ready

LEMMA AdoptPast ==
    ASSUME NEW r, Ready(r), NEW kind \in NodeKinds, NEW c, Past(Begin(r, kind), c)
    PROVE  Past(r, Adopt(r, c))
  <1> DEFINE s == Adopt(r, c)
             b == Begin(r, kind)
  <1>1. Wellformed(r) /\ Ok(r) /\ r \in Parser
    BY DEF Ready, Wellformed
  <1>2. Continues(b, c) /\ c \in Parser
    BY DEF Past, Continues, Wellformed
  <1>3. Continues(r, s)
    BY <1>1, <1>2, ContinuesReflexive, AdoptContinues
  <1>4. s.toks = c.toks /\ s.at = c.at /\ b.at = r.at
    BY <1>1, <1>2 DEF Adopt, Begin, Parser
  <1> HIDE DEF s
  <1>5. PICK i \in b.at .. c.at - 1 : c.toks[i].id \notin Trivia
    BY DEF Past
  <1>6. i \in r.at .. s.at - 1 /\ s.toks[i].id \notin Trivia
    <2> HIDE DEF b
    <2> QED BY <1>4, <1>5
  <1>7. Past(r, s)
    BY <1>3, <1>6 DEF Past, s
  <1> QED BY <1>7 DEF s

(* What collect_and_expect_token looks at is what it takes. *)
LEMMA NextPeek ==
    ASSUME NEW r, Ready(r)
    PROVE  Ok(ToNextToken(r)) /\ Peek(ToNextToken(r)) = Peek(r)
  <1> DEFINE i == Solid(r)
             q == SkipTo(r, i)
  <1>1. Wellformed(r) /\ Ok(r) /\ i # 0 /\ r \in Parser
    BY DEF Ready, Wellformed
  <1>2. i \in r.at .. Len(r.toks) /\ r.toks[i].id \notin Trivia /\ Peek(r) = r.toks[i].id
    BY <1>1, SolidNext
  <1>3. ToNextToken(r) = q
    BY <1>1 DEF ToNextToken
  <1>4. Wellformed(q)
    <2>1. Continues(r, q)
      BY <1>1, <1>3, ContinuesReflexive, ToNextTokenContinues
    <2> QED BY <2>1 DEF Continues
  <1>5. q.toks = r.toks /\ q.at = i /\ q.err = r.err
    BY <1>1 DEF SkipTo, Parser
  <1> HIDE DEF q, i
  <1>6. Peek(q) = Peek(r)
    <2>1. i \in Nat /\ i <= Len(r.toks)
      BY <1>1, <1>2 DEF Wellformed, Parser
    <2>2. Solid(q) # 0
      BY <1>4, <1>5, <2>1, SolidNext DEF Parser
    <2>3. Solid(q) \in i .. Len(r.toks) /\ Peek(q) = r.toks[Solid(q)].id
          /\ \A j \in i .. Solid(q) - 1 : r.toks[j].id \in Trivia
      BY <1>4, <1>5, <2>2, SolidNext
    <2>4. Solid(q) = i
      BY <1>2, <2>1, <2>3
    <2> QED BY <1>2, <2>3, <2>4
  <1>7. Ok(q)
    BY <1>1, <1>5 DEF Ok
  <1> QED BY <1>3, <1>6, <1>7

LEMMA ExpectPast ==
    ASSUME NEW r, Ready(r)
    PROVE  Past(r, Expect(r, Peek(r)))
  <1>1. Expect(r, Peek(r)) = Take(r)
    BY NextPeek DEF Expect, Take, Then
  <1> QED BY <1>1, TakePast

(* An identifier reference, which a name, "::", "this" or "super" begins. *)
LEMMA IdRefEntriesPast ==
    ASSUME NEW sub, KeepsExprs(sub), NEW r, Ready(r), NEW d \in BOOLEAN, Peek(r) = "id"
    PROVE  Past(r, IdRefEntries(sub, r, d))
  <1> DEFINE b == Begin(r, "IdRefEntry")
             n == Expect(b, "id")
             o == OpenGenericArgs(n)
             entry == IdRefEntry(sub, b, d)
             e == Adopt(r, entry)
  <1>1. "IdRefEntry" \in NodeKinds
    BY DEF NodeKinds
  <1>2. Ready(b) /\ Peek(b) = "id"
    BY <1>1, BeginReady
  <1>3. Past(b, n)
    BY <1>2, ExpectPast
  <1>4. Follows(n, n)
    BY <1>3, FollowsItself DEF Past, Continues, Wellformed
  <1>5. Follows(n, Expect(SplitShr(sub.GenericArgs[o]), ">"))
    <2>1. Follows(n, o)
      BY <1>4, TakeFollows, ExpectFollows DEF OpenGenericArgs
    <2> QED BY <2>1, ListsFollow, SplitsFollow, ExpectFollows
  <1>6. Follows(n, entry)
    BY <1>4, <1>5 DEF IdRefEntry, Then
  <1>7. Past(b, entry)
    BY <1>3, <1>6, PastThen
  <1>8. Past(r, e)
    BY <1>1, <1>7, AdoptPast
  <1>9. Follows(e, e)
    BY <1>8, FollowsItself DEF Past, Continues, Wellformed
  <1>10. Follows(e, sub.IdRefEntries[d][Take(e)])
    BY <1>9, TakeFollows, ListsFollow
  <1>11. Follows(e, IdRefEntries(sub, r, d))
    BY <1>9, <1>10 DEF IdRefEntries, Then
  <1> QED BY <1>8, <1>11, PastThen

LEMMA IdRefPast ==
    ASSUME NEW sub, KeepsExprs(sub), NEW functions, KeepsExprs(functions),
           functions.IdRefEntries = ExprFunctions(sub).IdRefEntries,
           NEW r, Ready(r), NEW d \in BOOLEAN, Peek(r) \in {"this", "super", "::", "id"}
    PROVE  Past(r, IdRef(functions, r, d))
  <1> DEFINE b == Begin(r, "IdRef")
             self == Peek(b) \in {"this", "super"}
             h == IF self \/ Peek(b) = "::" THEN Take(b) ELSE b
  <1>2. functions.IdRefEntries[d][b] = IdRefEntries(sub, b, d)
    <2>1. b \in Parser
      <3>1. "IdRef" \in NodeKinds
        BY DEF NodeKinds
      <3> QED BY <3>1, BeginReady DEF Ready, Wellformed
    <2> HIDE DEF b
    <2>2. ExprFunctions(sub).IdRefEntries[d][b] = IdRefEntries(sub, b, d)
      BY <2>1, Zenon DEF ExprFunctions
    <2> QED BY <2>2
  <1>3. Ready(b) /\ Peek(b) = Peek(r) /\ "IdRef" \in NodeKinds
    BY BeginReady DEF NodeKinds
  <1> HIDE DEF b
  <1>4. Past(b, IdRefHead(functions, b, d))
    <2>1. CASE Peek(b) = "id"
      <3>1. IdRefHead(functions, b, d) = IdRefEntries(sub, b, d)
        <4>1. Ok(b) /\ ~ self /\ h = b
          BY <1>3, <2>1 DEF Ready
        <4>2. IdRefHead(functions, b, d) = functions.IdRefEntries[d][b]
          BY <4>1 DEF IdRefHead, Then
        <4> QED BY <1>2, <4>2
      <3> QED BY <1>3, <2>1, <3>1, IdRefEntriesPast
    <2>2. CASE Peek(b) \in {"this", "super", "::"}
      <3>1. Past(b, Take(b))
        BY <1>3, TakePast
      <3>2. Follows(Take(b), Take(b))
        BY <3>1, FollowsItself DEF Past, Continues, Wellformed
      <3>3. Follows(Take(b), functions.IdRefEntries[d][Take(b)])
            /\ Follows(Take(b), functions.IdRefEntries[d][Take(Take(b))])
        BY <3>2, TakeFollows, ListsFollow
      <3>4. Follows(Take(b), IdRefHead(functions, b, d))
        <4>1. h = Take(b)
          BY <2>2
        <4> HIDE DEF self
        <4> QED BY <3>2, <3>3, <4>1 DEF IdRefHead, Then, self
      <3> QED BY <3>1, <3>4, PastThen
    <2> QED BY <1>3, <2>1, <2>2
  <1> QED BY <1>3, <1>4, AdoptPast DEF IdRef, b

LEMMA PrefixPast ==
    ASSUME NEW sub, KeepsExprs(sub), NEW functions, KeepsExprs(functions),
           functions.IdRefEntries = ExprFunctions(sub).IdRefEntries,
           NEW r, Ready(r)
    PROVE  Past(r, Prefix(functions, r))
  <1> DEFINE t == Peek(r)
             taken(kind) == Take(As(r, kind))
  <1>2. t \in {"this", "::", "id"} => Past(r, IdRef(functions, As(r, "IdRefExpr"), TRUE))
    <2> SUFFICES ASSUME t \in {"this", "::", "id"}
                 PROVE  Past(r, IdRef(functions, As(r, "IdRefExpr"), TRUE))
      OBVIOUS
    <2>1. "IdRefExpr" \in NodeKinds
      BY DEF NodeKinds
    <2>2. Ready(As(r, "IdRefExpr")) /\ Continues(r, As(r, "IdRefExpr"))
          /\ Peek(As(r, "IdRefExpr")) \in {"this", "super", "::", "id"}
      BY <2>1, AsReady
    <2>3. Past(As(r, "IdRefExpr"), IdRef(functions, As(r, "IdRefExpr"), TRUE))
      BY <2>2, IdRefPast
    <2> QED BY <2>2, <2>3, PastFrom
  <1>3. ASSUME NEW kind \in NodeKinds
        PROVE  Past(r, taken(kind)) /\ Follows(taken(kind), taken(kind))
    BY AsPast, FollowsItself DEF Past, Continues, Wellformed
  <1>4. /\ "Group" \in NodeKinds /\ "New" \in NodeKinds /\ "Literal" \in NodeKinds
        /\ "Unary" \in NodeKinds /\ "InitializerList" \in NodeKinds /\ "Match" \in NodeKinds
        /\ \A kind \in {"break", "continue", "return", "yield"} : kind \in NodeKinds
    BY DEF NodeKinds
  <1>5. Past(r, Match(functions, r))
    BY <1>3, <1>4, MatchGoesOn, PastThen
  <1>6. t \in {"break", "continue", "return", "yield"} => Past(r, Jump(functions, r, t))
    BY <1>3, <1>4, JumpGoesOn, PastThen
  <1>7. Past(r, NoExpr(r))
    <2>1. Past(r, Take(r))
      BY TakePast
    <2>2. Follows(Take(r), Take(r))
      BY <2>1, FollowsItself DEF Past, Continues, Wellformed
    <2>3. Follows(Take(r), Fail(Take(r), "ExpectingExpr"))
      BY <2>2, FailFollows DEF Errors
    <2> QED BY <2>1, <2>3, PastThen DEF NoExpr
  <1>8. /\ Past(r, Expect(functions.Expr[-10][taken("Group")], ")"))
        /\ Past(r, Expect(Args(functions, Expect(functions.TypeName[taken("New")], "("), ")"), ")"))
        /\ Past(r, Expect(Args(functions, taken("InitializerList"), "}"), "}"))
    <2> DEFINE group(q) == Expect(functions.Expr[-10][q], ")")
               new(q) == Expect(Args(functions, Expect(functions.TypeName[q], "("), ")"), ")")
               list(q) == Expect(Args(functions, q, "}"), "}")
    <2>1. ASSUME NEW q, Follows(q, q)
          PROVE  Follows(q, group(q)) /\ Follows(q, new(q)) /\ Follows(q, list(q))
      BY <2>1, BracketsGoOn
    <2>2. /\ Past(r, taken("Group")) /\ Follows(taken("Group"), taken("Group"))
          /\ Past(r, taken("New")) /\ Follows(taken("New"), taken("New"))
          /\ Past(r, taken("InitializerList"))
          /\ Follows(taken("InitializerList"), taken("InitializerList"))
      BY <1>3, <1>4
    <2> HIDE DEF group, new, list, taken
    <2>3. Past(r, group(taken("Group"))) /\ Past(r, new(taken("New")))
          /\ Past(r, list(taken("InitializerList")))
      BY <2>1, <2>2, PastThen
    <2> QED BY <2>3 DEF group, new, list
  <1>9. Past(r, taken("Literal")) /\ Past(r, taken("Unary"))
    BY <1>3, <1>4
  <1> HIDE DEF taken
  <1> QED BY <1>2, <1>5, <1>6, <1>7, <1>8, <1>9, PrefixUnfolded DEF taken

LEMMA ParseExprPast ==
    ASSUME NEW sub, KeepsExprs(sub), NEW functions, KeepsExprs(functions),
           functions.IdRefEntries = ExprFunctions(sub).IdRefEntries,
           NEW p \in Int, NEW r, Ready(r)
    PROVE  Past(r, Expr(functions, r, p))
  <1> DEFINE b == Begin(r, "Invalid")
             prefix == Prefix(functions, b)
             c == functions.InfixPart[p][prefix]
  <1>1. "Invalid" \in NodeKinds
    BY DEF NodeKinds
  <1>2. Ready(b)
    BY <1>1, BeginReady
  <1>3. Past(b, prefix)
    BY <1>2, PrefixPast
  <1> HIDE DEF b, prefix
  <1>4. Past(b, c)
    <2>1. Follows(prefix, prefix)
      BY <1>3, FollowsItself DEF Past, Continues, Wellformed
    <2>2. Follows(prefix, c)
      BY <2>1, ExprFollows
    <2> QED BY <1>3, <2>2, PastThen
  <1>5. Past(r, Adopt(r, c))
    BY <1>1, <1>4, AdoptPast DEF b
  <1>6. Expr(functions, r, p) = Adopt(r, c)
    BY DEF Expr, Then, Ready, b, prefix
  <1> QED BY <1>5, <1>6

(* The calls of parse_expr are never that deep that its prefix is not      *)
(* reached.                                                                *)
LEMMA ExprPast ==
    ASSUME NEW n \in Nat, NEW p \in Int, NEW r, Ready(r)
    PROVE  Past(r, ExprCalls[n + 3].Expr[p][r])
  <1> DEFINE sub == ExprCalls[n + 1]
             functions == ExprCalls[n + 2]
  <1>1. n + 1 \in Nat /\ n + 2 \in Nat /\ n + 2 = (n + 1) + 1 /\ n + 3 = (n + 2) + 1
    OBVIOUS
  <1>2. KeepsExprs(sub) /\ KeepsExprs(functions)
    BY <1>1, ExprCallsKeep
  <1>3. functions = ExprFunctions(sub) /\ ExprCalls[n + 3] = ExprFunctions(functions)
    BY <1>1, ExprCallsStep
  <1> HIDE DEF sub, functions
  <1>4. Past(r, Expr(functions, r, p))
    BY <1>2, <1>3, ParseExprPast
  <1>5. ExprCalls[n + 3].Expr[p][r] = Expr(functions, r, p)
    <2>1. r \in Parser
      BY DEF Ready, Wellformed
    <2>2. ExprFunctions(functions).Expr[p][r] = Expr(functions, r, p)
      BY <2>1, Zenon DEF ExprFunctions
    <2> QED BY <1>3, <2>2
  <1> QED BY <1>4, <1>5

(* No token of a source is one that a close bracket splits. *)
NoWideTokens(kinds) == \A i \in 1 .. Len(kinds) : kinds[i] \notin Wide

LEMMA NoWideLexed ==
    ASSUME NEW kinds \in Seq(Kinds \ {"end"}), NoWideTokens(kinds)
    PROVE  NoneWide(Lexed(kinds))
  <1>1. Len(Lexed(kinds)) = Len(kinds) + 1 /\ Len(kinds) \in Nat
    BY LexedType
  <1>2. ASSUME NEW i \in 1 .. Len(kinds) + 1
        PROVE  Lexed(kinds)[i].id = IF i = Len(kinds) + 1 THEN "end" ELSE kinds[i]
    BY DEF Lexed
  <1>3. "end" \notin Wide
    BY DEF Wide
  <1> QED BY <1>1, <1>2, <1>3 DEF NoWideTokens, NoneWide

-----------------------------------------------------------------------------
(* Every function comes back.                                              *)

(* What is left to be taken, each half of a token that can be split for    *)
(* itself.                                                                 *)
Rest(r) == Room(r.toks) + 1 - r.at

(* A parser that has come back from r, having followed it, and with no     *)
(* more than n left to be taken where it goes on.                          *)
Comes(r, n, q) ==
    /\ Follows(r, q) /\ Wellformed(r) /\ ComesFrom(r.toks, q.toks)
    /\ q.err # "endless"
    /\ Ok(q) => Rest(q) <= n

LEMMA RestType ==
    ASSUME NEW r, Wellformed(r)
    PROVE  Rest(r) \in Nat /\ Rest(r) + r.at >= Len(r.toks) + 1
  <1>1. r.toks \in Seq(Token) /\ r.at \in Nat \ {0} /\ r.at <= Len(r.toks) + 1
    BY DEF Wellformed, Parser
  <1>2. Cardinality(WideOnes(r.toks)) \in Nat /\ Len(r.toks) \in Nat
    BY <1>1, RoomType
  <1> QED BY <1>1, <1>2 DEF Rest, Room

LEMMA ComesType ==
    ASSUME NEW r, NEW n \in Int, NEW q, Comes(r, n, q)
    PROVE  /\ q \in Parser /\ Wellformed(q) /\ Continues(r, q)
           /\ Rest(q) \in Nat /\ Rest(r) \in Nat /\ Rest(q) <= Rest(r)
  <1>1. q \in Parser /\ Wellformed(r) /\ Continues(r, q)
    BY DEF Comes, Follows
  <1>2. Wellformed(q)
    BY <1>1 DEF Continues
  <1>3. r.toks \in Seq(Token) /\ q.toks \in Seq(Token)
    BY <1>1, <1>2 DEF Wellformed, Parser
  <1>4. Room(q.toks) <= Room(r.toks) /\ r.at <= q.at
    BY <1>1 DEF Comes, ComesFrom, Continues
  <1>5. r.at \in Nat /\ q.at \in Nat
    BY <1>1, <1>2 DEF Wellformed, Parser
  <1>6. Rest(q) <= Rest(r)
    <2>1. Room(r.toks) \in Nat /\ Room(q.toks) \in Nat
      BY <1>3, RoomType
    <2> QED BY <1>4, <1>5, <2>1 DEF Rest
  <1> QED BY <1>1, <1>2, <1>6, RestType

LEMMA ComesItself ==
    ASSUME NEW r, Wellformed(r), r.err # "endless", NEW n \in Int, Ok(r) => Rest(r) <= n
    PROVE  Comes(r, n, r)
  <1>1. r \in Parser /\ r.toks \in Seq(Token)
    BY DEF Wellformed, Parser
  <1> QED BY <1>1, FollowsItself, ComesFromItself DEF Comes

LEMMA ComesHere ==
    ASSUME NEW r, NEW n \in Int, NEW q, Comes(r, n, q)
    PROVE  Comes(q, n, q)
  BY ComesType, ComesItself DEF Comes

LEMMA ComesLess ==
    ASSUME NEW r, NEW n \in Int, NEW q, Comes(r, n, q), NEW k \in Int, n <= k
    PROVE  Comes(r, k, q)
  <1>1. Rest(q) \in Nat
    BY ComesType
  <1> QED BY <1>1 DEF Comes

(* From one parser to the next. *)
LEMMA ComesOn ==
    ASSUME NEW r, NEW n \in Int, NEW q, Comes(r, n, q), NEW k \in Int, NEW s, Comes(q, k, s)
    PROVE  Comes(r, k, s)
  <1>1. Follows(r, s)
    BY FollowsTransitive DEF Comes
  <1>2. r.toks \in Seq(Token) /\ q.toks \in Seq(Token) /\ s.toks \in Seq(Token)
    <2>1. r \in Parser /\ q \in Parser /\ s \in Parser
      BY DEF Comes, Follows
    <2> QED BY <2>1 DEF Parser
  <1>3. ComesFrom(r.toks, s.toks)
    BY <1>2, ComesFromTransitive DEF Comes
  <1> QED BY <1>1, <1>3 DEF Comes

(* An operation that leaves the tokens as they are. *)
LEMMA ComesSame ==
    ASSUME NEW r, NEW n \in Int, NEW q, Comes(r, n, q), NEW s, Follows(q, s),
           s.toks = q.toks, s.err # "endless", NEW d \in {0, 1},
           Ok(s) => Ok(q) /\ q.at + d <= s.at
    PROVE  Comes(r, n - d, s)
  <1>1. Wellformed(q) /\ Wellformed(s)
    BY ComesType DEF Follows, Continues
  <1>2. q.toks \in Seq(Token) /\ q.at \in Nat /\ s.at \in Nat /\ Room(q.toks) \in Nat
    BY <1>1, RoomType DEF Wellformed, Parser
  <1>3. ComesFrom(q.toks, s.toks)
    BY <1>2, ComesFromItself
  <1>4. Ok(s) => Rest(q) <= n
    BY DEF Comes
  <1>5. Ok(s) => Rest(s) <= n - d
    BY <1>2, <1>4 DEF Rest
  <1>6. Comes(q, n - d, s)
    BY <1>1, <1>3, <1>5 DEF Comes
  <1>7. n - d \in Int
    OBVIOUS
  <1> QED BY <1>6, <1>7, ComesOn

LEMMA FailComes ==
    ASSUME NEW r, NEW n \in Int, NEW q, Comes(r, n, q), NEW e \in Errors, NEW k \in Int
    PROVE  Comes(r, k, Fail(q, e))
  <1> DEFINE s == Fail(q, e)
  <1>1. q \in Parser /\ Follows(q, q) /\ e \notin {"none", "endless"} /\ q.err # "endless"
    BY ComesType, FollowsItself DEF Errors, Comes
  <1>2. Follows(q, s)
    BY <1>1, FailFollows
  <1>3. s.toks = q.toks /\ s.err # "endless" /\ ~ Ok(s)
    BY <1>1 DEF Fail, Ok, Parser
  <1> HIDE DEF s
  <1>4. Comes(r, n - 0, s)
    BY <1>2, <1>3, ComesSame
  <1>5. Comes(r, k, s)
    BY <1>3, <1>4 DEF Comes
  <1> QED BY <1>5 DEF s

LEMMA ReportComes ==
    ASSUME NEW r, NEW n \in Int, NEW q, Comes(r, n, q), NEW e \in Errors
    PROVE  Comes(r, n, Report(q, e))
  <1> DEFINE s == Report(q, e)
  <1>1. q \in Parser /\ Follows(q, q) /\ q.err # "endless" /\ q.at \in Nat
    BY ComesType, FollowsItself DEF Comes, Parser
  <1>2. Follows(q, s)
    BY <1>1, ReportFollows
  <1>3. s.toks = q.toks /\ s.err = q.err /\ s.at = q.at
    BY <1>1 DEF Report, Parser
  <1> HIDE DEF s
  <1>4. Comes(r, n - 0, s)
    BY <1>1, <1>2, <1>3, ComesSame DEF Ok
  <1> QED BY <1>4 DEF s

LEMMA AsComes ==
    ASSUME NEW r, NEW n \in Int, NEW q, Comes(r, n, q), NEW kind \in NodeKinds
    PROVE  Comes(r, n, As(q, kind))
  <1> DEFINE s == As(q, kind)
  <1>1. q \in Parser /\ Follows(q, q) /\ q.err # "endless" /\ q.at \in Nat
    BY ComesType, FollowsItself DEF Comes, Parser
  <1>2. Follows(q, s)
    BY <1>1, AsFollows
  <1>3. s.toks = q.toks /\ s.err = q.err /\ s.at = q.at
    BY <1>1 DEF As, Parser
  <1> HIDE DEF s
  <1>4. Comes(r, n - 0, s)
    BY <1>1, <1>2, <1>3, ComesSame DEF Ok
  <1> QED BY <1>4 DEF s

LEMMA WrapComes ==
    ASSUME NEW r, NEW n \in Int, NEW q, Comes(r, n, q), NEW kind \in NodeKinds
    PROVE  Comes(r, n, Wrap(q, kind))
  <1> DEFINE s == Wrap(q, kind)
             kids == << [child |-> Len(q.nodes) + 1] >>
             nodes == Append(q.nodes, Filled(q))
  <1>1. q \in Parser /\ Follows(q, q) /\ q.err # "endless" /\ q.at \in Nat
    BY ComesType, FollowsItself DEF Comes, Parser
  <1>2. Follows(q, s)
    BY <1>1, WrapFollows
  <1>3. s = IF Ok(q) THEN [q EXCEPT !.node = kind, !.kids = kids, !.nodes = nodes] ELSE q
    BY DEF Wrap
  <1> HIDE DEF s, kids, nodes
  <1>4. s.toks = q.toks /\ s.err = q.err /\ s.at = q.at
    BY <1>1, <1>3 DEF Parser
  <1>5. Comes(r, n - 0, s)
    BY <1>1, <1>2, <1>4, ComesSame DEF Ok
  <1> QED BY <1>5 DEF s

LEMMA ToNextTokenComes ==
    ASSUME NEW r, NEW n \in Int, NEW q, Comes(r, n, q)
    PROVE  Comes(r, n, ToNextToken(q))
  <1> DEFINE s == ToNextToken(q)
             after == SkipTo(q, Len(q.toks) + 1)
             next == SkipTo(q, Solid(q))
  <1>1. q \in Parser /\ Wellformed(q) /\ Follows(q, q) /\ q.err # "endless" /\ q.at \in Nat
    BY ComesType, FollowsItself DEF Comes, Parser
  <1>2. Follows(q, s)
    BY <1>1, ToNextTokenFollows
  <1>3. next.toks = q.toks /\ next.err = q.err /\ after.toks = q.toks /\ after.err = q.err
        /\ Fail(after, "ExpectingMoreTokens").toks = q.toks
        /\ Fail(after, "ExpectingMoreTokens").err \in {q.err, "ExpectingMoreTokens"}
        /\ ~ Ok(Fail(after, "ExpectingMoreTokens"))
    BY <1>1 DEF SkipTo, Parser, Fail, Ok
  <1>4. s = IF ~ Ok(q) THEN q
            ELSE IF Solid(q) = 0 THEN Fail(after, "ExpectingMoreTokens") ELSE next
    BY DEF ToNextToken
  <1> HIDE DEF s, after, next
  <1>5. s.toks = q.toks /\ s.err # "endless" /\ (Ok(s) => Ok(q))
    BY <1>1, <1>3, <1>4
  <1>6. q.at <= s.at
    BY <1>1, <1>2 DEF Follows, Continues
  <1>7. Comes(r, n - 0, s)
    BY <1>1, <1>2, <1>5, <1>6, ComesSame
  <1> QED BY <1>7 DEF s

LEMMA CollectComes ==
    ASSUME NEW r, NEW n \in Int, NEW q, Comes(r, n, q)
    PROVE  Comes(r, n - 1, Collect(q))
  <1> DEFINE s == Collect(q)
             kids == Append(q.kids, q.toks[q.at])
             more == [q EXCEPT !.kids = kids, !.at = q.at + 1]
             failed == Fail(q, "ExpectingMoreTokens")
  <1>1. q \in Parser /\ Follows(q, q) /\ q.err # "endless" /\ q.at \in Nat
    BY ComesType, FollowsItself DEF Comes, Parser
  <1>2. Follows(q, s)
    BY <1>1, CollectFollows
  <1>3. s = IF ~ Ok(q) THEN q ELSE IF q.at > Len(q.toks) THEN failed ELSE more
    BY DEF Collect
  <1> HIDE DEF s, kids
  <1>4. /\ more.toks = q.toks /\ more.err = q.err /\ more.at = q.at + 1
        /\ failed.toks = q.toks /\ failed.err \in {q.err, "ExpectingMoreTokens"} /\ ~ Ok(failed)
    BY <1>1 DEF Parser, Fail, Ok
  <1> HIDE DEF more, failed
  <1>5. s.toks = q.toks /\ s.err # "endless" /\ (Ok(s) => Ok(q) /\ q.at + 1 <= s.at)
    BY <1>1, <1>3, <1>4
  <1>6. Comes(r, n - 1, s)
    BY <1>2, <1>5, ComesSame
  <1> QED BY <1>6 DEF s

LEMMA TakeComes ==
    ASSUME NEW r, NEW n \in Int, NEW q, Comes(r, n, q)
    PROVE  Comes(r, n - 1, Take(q)) /\ Comes(r, n, Take(q))
  <1>1. Comes(r, n - 1, Take(q))
    BY ToNextTokenComes, CollectComes DEF Take
  <1> QED BY <1>1, ComesLess

LEMMA OptionalComes ==
    ASSUME NEW r, NEW n \in Int, NEW q, Comes(r, n, q), NEW kinds
    PROVE  Comes(r, n, Optional(q, kinds))
  BY TakeComes DEF Optional

LEMMA OptionalsCome ==
    ASSUME NEW r, NEW n \in Int, NEW q, Comes(r, n, q), NEW first, NEW second, NEW third
    PROVE  Comes(r, n, Optionals(q, first, second, third))
  BY OptionalComes DEF Optionals

LEMMA ExpectComes ==
    ASSUME NEW r, NEW n \in Int, NEW q, Comes(r, n, q), NEW kind
    PROVE  Comes(r, n - 1, Expect(q, kind)) /\ Comes(r, n, Expect(q, kind))
  <1> DEFINE s == ToNextToken(q)
  <1>1. Comes(r, n, s)
    BY ToNextTokenComes
  <1>2. Expect(q, kind) = IF Ok(s) THEN IF Peek(s) = kind THEN Collect(s)
                                        ELSE Fail(s, "ExpectingSingleToken")
                          ELSE s
    BY DEF Expect, Then
  <1>3. n - 1 \in Int
    OBVIOUS
  <1>4. Comes(r, n - 1, Collect(s)) /\ Comes(r, n - 1, Fail(s, "ExpectingSingleToken"))
    BY <1>1, <1>3, CollectComes, FailComes DEF Errors
  <1>5. ~ Ok(s) => Comes(r, n - 1, s)
    BY <1>1 DEF Comes
  <1>6. Comes(r, n - 1, Expect(q, kind))
    BY <1>2, <1>4, <1>5
  <1> QED BY <1>3, <1>6, ComesLess

LEMMA SplitComes ==
    ASSUME NEW r, NEW n \in Int, NEW q, Comes(r, n, q), NEW double \in Wide, NEW single \in Halves
    PROVE  Comes(r, n, Split(q, double, single))
  <1>1. q \in Parser /\ Wellformed(q) /\ Follows(q, q) /\ q.err # "endless"
        /\ q.at \in Nat \ {0} /\ q.toks \in Seq(Token) /\ Comes(q, n, q)
    BY ComesType, FollowsItself, ComesHere DEF Comes, Parser
  <1> DEFINE p == Solid(q)
             first == [q.toks[p] EXCEPT !.id = single, !.width = 1]
             second == [id |-> single, from |-> first.from + 1, width |-> 0]
             cut == [q.toks EXCEPT ![p] = first]
             toks == InsertAt(cut, q.at + 1, second)
             s == [q EXCEPT !.toks = toks]
  <1> SUFFICES ASSUME Ok(q), p # 0, Peek(q) = double
               PROVE  Comes(r, n, Split(q, double, single))
    BY DEF Split
  <1>2. p \in q.at .. Len(q.toks) /\ p \in 1 .. Len(q.toks) /\ q.toks[p].id = double
        /\ Len(q.toks) \in Nat
    BY <1>1, SolidNext
  <1>3. single \in Kinds \ {"end"}
    <2>1. ">" \in Kinds \ {"end"} /\ "]" \in Kinds \ {"end"}
      BY DEF Kinds
    <2> QED BY <2>1 DEF Halves
  <1>4. first \in Token /\ first.id = single
    <2>1. q.toks[p] \in Token
      BY <1>1, <1>2, ElementOfSeq
    <2> QED BY <1>3, <2>1 DEF Token
  <1> HIDE DEF first
  <1>5. second \in Token /\ second.id = single
    BY <1>3, <1>4 DEF Token
  <1> HIDE DEF second
  <1>6. cut \in Seq(Token) /\ Len(cut) = Len(q.toks) /\ cut[p] = first
        /\ \A j \in 1 .. Len(q.toks) : j # p => cut[j] = q.toks[j]
    <2> HIDE DEF p
    <2> QED BY <1>1, <1>2, <1>4
  <1>7. q.at + 1 \in 1 .. Len(q.toks) + 1
    BY <1>1, <1>2
  <1> HIDE DEF cut
  <1>8. toks \in Seq(Token) /\ InsertedAt(toks, cut, q.at + 1, second)
    <2>1. q.at + 1 \in 1 .. Len(cut) + 1
      BY <1>6, <1>7
    <2>2. InsertedAt(toks, cut, q.at + 1, second)
      BY <1>5, <1>6, <2>1, InsertAtType, Zenon
    <2> HIDE DEF toks
    <2> QED BY <2>2 DEF InsertedAt
  <1>9. Split(q, double, single) = s
    BY Zenon DEF Split, toks, cut, first, second, p
  <1> HIDE DEF toks, p
  <1>10. ComesFrom(q.toks, toks)
    BY <1>1, <1>2, <1>4, <1>5, <1>6, <1>7, <1>8, SplitRoom
  <1>11. s.toks = toks /\ s.err = q.err /\ s.at = q.at
    BY <1>1, <1>8 DEF Parser
  <1>12. Follows(q, s)
    BY <1>1, <1>3, <1>9, SplitFollows
  <1> HIDE DEF s
  <1>13. Rest(s) <= n
    <2>1. Rest(q) <= n
      BY DEF Comes
    <2>2. Room(s.toks) \in Nat /\ Room(q.toks) \in Nat /\ Room(s.toks) <= Room(q.toks)
      BY <1>1, <1>8, <1>10, <1>11, RoomType DEF ComesFrom
    <2> QED BY <1>1, <1>11, <2>1, <2>2 DEF Rest
  <1>14. Comes(q, n, s)
    BY <1>1, <1>10, <1>11, <1>12, <1>13 DEF Comes
  <1> QED BY <1>9, <1>14, ComesOn

LEMMA SplitsCome ==
    ASSUME NEW r, NEW n \in Int, NEW q, Comes(r, n, q)
    PROVE  Comes(r, n, SplitShr(q)) /\ Comes(r, n, SplitRDBrackets(q))
  <1>1. ">>" \in Wide /\ ">" \in Halves /\ "]]" \in Wide /\ "]" \in Halves
    BY DEF Halves, Wide
  <1> QED BY <1>1, SplitComes DEF SplitShr, SplitRDBrackets

LEMMA SeparatedComes ==
    ASSUME NEW r, NEW n \in Int, NEW q, Comes(r, n, q)
    PROVE  Comes(r, n - 1, Separated(q))
  <1>1. Comes(r, n, Report(q, "ExpectingSingleToken"))
    BY ReportComes DEF Errors
  <1> QED BY <1>1, TakeComes DEF Separated

(* An error that is noted: the parser goes on with no more left than it    *)
(* had before.                                                             *)
LEMMA NotedComes ==
    ASSUME NEW r, NEW n \in Int, NEW q, Comes(r, n, q), NEW k \in Int, NEW s, Comes(q, k, s)
    PROVE  Ok(q) => Comes(r, n, Noted(s))
  <1> SUFFICES ASSUME Ok(q) PROVE Comes(r, n, Noted(s))
    OBVIOUS
  <1> DEFINE t == Noted(s)
             more == Append(s.errors, s.err)
  <1>1. s \in Parser /\ Follows(s, s) /\ Rest(s) \in Nat /\ Rest(q) \in Nat /\ Rest(s) <= Rest(q)
    BY ComesType, FollowsItself DEF Comes
  <1>2. Follows(q, t)
    BY NotedFollows DEF Comes
  <1>3. t = IF s.err \in {"none", "endless"} THEN s ELSE [s EXCEPT !.errors = more, !.err = "none"]
    BY DEF Noted
  <1> HIDE DEF t, more
  <1>4. t.toks = s.toks /\ t.at = s.at /\ t.err # "endless"
    BY <1>1, <1>3 DEF Parser, Comes
  <1>5. Rest(t) <= n
    <2>1. Rest(t) = Rest(s) /\ Rest(q) <= n
      BY <1>4 DEF Rest, Comes
    <2> QED BY <1>1, <2>1
  <1>6. Comes(q, n, t)
    BY <1>2, <1>4, <1>5 DEF Comes
  <1>7. Comes(r, n, t)
    BY <1>6, ComesOn
  <1> QED BY <1>7 DEF t

LEMMA BeginComes ==
    ASSUME NEW r, NEW n \in Int, NEW q, Comes(r, n, q), NEW kind \in NodeKinds
    PROVE  Comes(Begin(q, kind), n, Begin(q, kind))
  <1> DEFINE b == Begin(q, kind)
  <1>1. q \in Parser /\ Wellformed(q) /\ q.err # "endless"
    BY ComesType DEF Comes
  <1>2. Wellformed(b)
    <2>1. Continues(b, b)
      BY <1>1, ContinuesReflexive, BeginWellformed
    <2> QED BY <2>1 DEF Continues
  <1>3. b.toks = q.toks /\ b.at = q.at /\ b.err = q.err
    BY <1>1 DEF Begin, Parser
  <1> HIDE DEF b
  <1>4. Rest(b) = Rest(q) /\ (Ok(b) => Ok(q))
    BY <1>3 DEF Rest, Ok
  <1>5. Comes(b, n, b)
    BY <1>1, <1>2, <1>3, <1>4, ComesItself DEF Comes
  <1> QED BY <1>5 DEF b

LEMMA AdoptComes ==
    ASSUME NEW r, NEW n \in Int, NEW q, Comes(r, n, q), NEW kind \in NodeKinds,
           NEW k \in Int, NEW c, Comes(Begin(q, kind), k, c)
    PROVE  Comes(r, k, Adopt(q, c))
  <1> DEFINE s == Adopt(q, c)
             b == Begin(q, kind)
             kids == Append(q.kids, [child |-> Len(c.nodes) + 1])
             nodes == Append(c.nodes, Filled(c))
  <1>1. q \in Parser /\ c \in Parser /\ q.err # "endless" /\ c.err # "endless"
    BY ComesType DEF Comes
  <1>2. Follows(r, q) /\ Follows(b, c)
    BY DEF Comes
  <1>3. Follows(q, s)
    BY <1>1, <1>2, FollowsItself, AdoptFollows
  <1>4. b.toks = q.toks
    BY <1>1 DEF Begin, Parser
  <1>5. s = IF Ok(q) THEN [c EXCEPT !.node = q.node, !.kids = kids, !.nodes = nodes] ELSE q
    BY DEF Adopt
  <1>6. ComesFrom(q.toks, c.toks)
    BY <1>4 DEF Comes
  <1> HIDE DEF s, b, kids, nodes
  <1>7. CASE ~ Ok(q)
    <2>1. Comes(r, k, q)
      BY <1>7 DEF Comes
    <2> QED BY <1>5, <1>7, <2>1 DEF s
  <1>8. CASE Ok(q)
    <2>1. s.toks = c.toks /\ s.at = c.at /\ s.err = c.err
      BY <1>1, <1>5, <1>8 DEF Parser
    <2>2. Rest(s) = Rest(c) /\ (Ok(s) => Ok(c))
      BY <2>1 DEF Rest, Ok
    <2>3. Ok(s) => Rest(s) <= k
      BY <2>2 DEF Comes, b
    <2>4. Wellformed(q)
      BY ComesType
    <2>5. Comes(q, k, s)
      BY <1>1, <1>3, <1>6, <2>1, <2>3, <2>4 DEF Comes
    <2>6. Comes(r, k, s)
      BY <2>5, ComesOn
    <2> QED BY <2>6 DEF s
  <1> QED BY <1>7, <1>8

(* The functions that are called, when calls are made up to depth m.  One  *)
(* of rank k comes back if k calls and five for each token that is left    *)
(* are within that depth: a function that it calls before it has taken a   *)
(* token has a lower rank, one that it calls after it a rank that is at    *)
(* most four higher.                                                       *)
Halting(f, k, m) ==
    \A n \in Int : \A q : Comes(q, n, q) /\ 5 * n + k <= m => Comes(q, n, f[q])
HaltsExprs(sub, m) ==
    /\ \A p \in Int : Halting(sub.InfixPart[p], 1, m) /\ Halting(sub.Expr[p], 2, m)
    /\ \A d \in BOOLEAN : Halting(sub.IdRefEntries[d], 1, m)
    /\ Halting(sub.TypeSuffix, 1, m) /\ Halting(sub.TypeName, 2, m)
    /\ \A t \in Terminals : Halting(sub.ArgList[t], 3, m)
    /\ Halting(sub.SubscriptList, 3, m) /\ Halting(sub.GenericArgs, 3, m)
    /\ Halting(sub.MatchCases, 3, m)

LEMMA CallComes ==
    ASSUME NEW f, NEW k \in Int, NEW m \in Int, Halting(f, k, m),
           NEW r, NEW n \in Int, NEW q, Comes(r, n, q), 5 * n + k <= m
    PROVE  Comes(r, n, f[q])
  <1>1. Comes(q, n, q)
    BY ComesHere
  <1>2. Comes(q, n, f[q])
    BY <1>1 DEF Halting
  <1> QED BY <1>2, ComesOn

LEMMA ExprComes ==
    ASSUME NEW sub, NEW m \in Int, HaltsExprs(sub, m), NEW r, NEW n \in Int, NEW q, Comes(r, n, q),
           NEW p \in Int
    PROVE  /\ 5 * n + 1 <= m => Comes(r, n, sub.InfixPart[p][q])
           /\ 5 * n + 2 <= m => Comes(r, n, sub.Expr[p][q])
  <1>1. Halting(sub.InfixPart[p], 1, m) /\ Halting(sub.Expr[p], 2, m)
    BY DEF HaltsExprs
  <1>2. 5 * n + 1 <= m => Comes(r, n, sub.InfixPart[p][q])
    BY <1>1, CallComes
  <1>3. 5 * n + 2 <= m => Comes(r, n, sub.Expr[p][q])
    BY <1>1, CallComes
  <1> QED BY <1>2, <1>3

LEMMA NamesCome ==
    ASSUME NEW sub, NEW m \in Int, HaltsExprs(sub, m), NEW r, NEW n \in Int, NEW q, Comes(r, n, q)
    PROVE  /\ 5 * n + 1 <= m => /\ \A d \in BOOLEAN : Comes(r, n, sub.IdRefEntries[d][q])
                                /\ Comes(r, n, sub.TypeSuffix[q])
           /\ 5 * n + 2 <= m => Comes(r, n, sub.TypeName[q])
  <1>1. /\ \A d \in BOOLEAN : Halting(sub.IdRefEntries[d], 1, m)
        /\ Halting(sub.TypeSuffix, 1, m) /\ Halting(sub.TypeName, 2, m)
    BY DEF HaltsExprs
  <1>2. ASSUME NEW d \in BOOLEAN, 5 * n + 1 <= m PROVE Comes(r, n, sub.IdRefEntries[d][q])
    BY <1>1, <1>2, CallComes
  <1>3. 5 * n + 1 <= m => Comes(r, n, sub.TypeSuffix[q])
    BY <1>1, CallComes
  <1>4. 5 * n + 2 <= m => Comes(r, n, sub.TypeName[q])
    BY <1>1, CallComes
  <1> QED BY <1>2, <1>3, <1>4

LEMMA ListsCome ==
    ASSUME NEW sub, NEW m \in Int, HaltsExprs(sub, m), NEW r, NEW n \in Int, NEW q, Comes(r, n, q),
           5 * n + 3 <= m
    PROVE  /\ \A t \in Terminals : Comes(r, n, sub.ArgList[t][q])
           /\ Comes(r, n, sub.SubscriptList[q])
           /\ Comes(r, n, sub.GenericArgs[q])
           /\ Comes(r, n, sub.MatchCases[q])
  <1>1. ASSUME NEW f, Halting(f, 3, m) PROVE Comes(r, n, f[q])
    BY <1>1, CallComes
  <1> QED BY <1>1 DEF HaltsExprs

(* Arguments. *)
LEMMA ArgListComes ==
    ASSUME NEW sub, NEW m \in Int, HaltsExprs(sub, m), NEW r, NEW n \in Int, NEW q, Comes(r, n, q),
           5 * n + 3 <= m + 1, NEW t \in Terminals
    PROVE  Comes(r, n, ArgList(sub, q, t))
  <1> DEFINE e == sub.Expr[0][q]
             x == Separated(e)
             k == n - 1
  <1>1. 0 \in Int /\ 5 * n + 2 <= m /\ k \in Int /\ k <= n /\ 5 * k + 3 <= m
    OBVIOUS
  <1>2. Comes(r, n, e)
    BY <1>1, ExprComes
  <1> HIDE DEF e
  <1>3. Comes(r, k, x)
    BY <1>2, SeparatedComes
  <1> HIDE DEF k, x
  <1>4. Comes(r, k, sub.ArgList[t][x])
    BY <1>1, <1>3, ListsCome
  <1>5. Comes(r, n, sub.ArgList[t][x])
    BY <1>1, <1>4, ComesLess
  <1> QED BY <1>2, <1>5 DEF ArgList, Then, x, e

LEMMA ArgsCome ==
    ASSUME NEW sub, NEW m \in Int, HaltsExprs(sub, m), NEW r, NEW n \in Int, NEW q, Comes(r, n, q),
           5 * n + 3 <= m, NEW t \in Terminals
    PROVE  Comes(r, n, Args(sub, q, t))
  <1> DEFINE a == Begin(q, "Args")
  <1>1. "Args" \in NodeKinds
    BY DEF NodeKinds
  <1>2. Comes(a, n, a) /\ Comes(a, n, sub.ArgList[t][a])
    BY <1>1, BeginComes, ListsCome
  <1> QED BY <1>1, <1>2, AdoptComes DEF Args

LEMMA SubscriptListComes ==
    ASSUME NEW sub, NEW m \in Int, HaltsExprs(sub, m), NEW r, NEW n \in Int, NEW q, Comes(r, n, q),
           5 * n + 3 <= m + 1
    PROVE  Comes(r, n, SubscriptList(sub, q))
  <1> DEFINE x == sub.Expr[0][q]
             e == SplitRDBrackets(x)
             y == Separated(e)
             k == n - 1
  <1>1. 0 \in Int /\ 5 * n + 2 <= m /\ k \in Int /\ k <= n /\ 5 * k + 3 <= m
    OBVIOUS
  <1>2. Comes(r, n, x)
    BY <1>1, ExprComes
  <1> HIDE DEF x
  <1>3. Comes(r, n, e)
    BY <1>2, SplitsCome
  <1> HIDE DEF e
  <1>4. Comes(r, k, y)
    BY <1>3, SeparatedComes
  <1> HIDE DEF k, y
  <1>5. Comes(r, k, sub.SubscriptList[y])
    BY <1>1, <1>4, ListsCome
  <1>6. Comes(r, n, sub.SubscriptList[y])
    BY <1>1, <1>5, ComesLess
  <1> QED BY <1>3, <1>6 DEF SubscriptList, Then, x, e, y

LEMMA SubscriptArgsCome ==
    ASSUME NEW sub, NEW m \in Int, HaltsExprs(sub, m), NEW r, NEW n \in Int, NEW q, Comes(r, n, q),
           5 * n + 3 <= m
    PROVE  Comes(r, n, SubscriptArgs(sub, q))
  <1> DEFINE a == Begin(q, "Args")
  <1>1. "Args" \in NodeKinds
    BY DEF NodeKinds
  <1>2. Comes(a, n, sub.SubscriptList[SplitRDBrackets(a)])
    BY <1>1, BeginComes, SplitsCome, ListsCome
  <1> QED BY <1>1, <1>2, AdoptComes DEF SubscriptArgs

(* References and type names. *)
LEMMA GenericArgsCome ==
    ASSUME NEW sub, NEW m \in Int, HaltsExprs(sub, m), NEW r, NEW n \in Int, NEW q, Comes(r, n, q),
           5 * n + 3 <= m + 1
    PROVE  Comes(r, n, GenericArgs(sub, q))
  <1> DEFINE b == Begin(q, "Unset")
             t == Adopt(q, sub.TypeName[b])
             x == Take(t)
             k == n - 1
  <1>1. "Unset" \in NodeKinds /\ 5 * n + 2 <= m /\ k \in Int /\ k <= n /\ 5 * k + 3 <= m
    BY DEF NodeKinds
  <1>2. Comes(b, n, sub.TypeName[b])
    BY <1>1, BeginComes, NamesCome
  <1>3. Comes(r, n, t)
    BY <1>1, <1>2, AdoptComes
  <1> HIDE DEF t
  <1>4. Comes(r, k, x)
    BY <1>3, TakeComes
  <1> HIDE DEF k, x
  <1>5. Comes(r, k, sub.GenericArgs[x])
    BY <1>1, <1>4, ListsCome
  <1>6. Comes(r, n, sub.GenericArgs[x])
    BY <1>1, <1>5, ComesLess
  <1> QED BY <1>3, <1>6 DEF GenericArgs, Then, x, t

LEMMA IdRefEntryComes ==
    ASSUME NEW sub, NEW m \in Int, HaltsExprs(sub, m), NEW r, NEW n \in Int, NEW q, Comes(r, n, q),
           5 * n <= m, NEW d
    PROVE  Comes(r, n - 1, IdRefEntry(sub, q, d))
  <1> DEFINE name == Expect(q, "id")
             o == OpenGenericArgs(name)
             more == Expect(SplitShr(sub.GenericArgs[o]), ">")
  <1>1. Comes(r, n - 1, name)
    BY ExpectComes
  <1>2. Comes(r, n - 1, Take(name)) /\ n - 1 \in Int
    BY <1>1, TakeComes
  <1>3. Comes(r, n - 1, o)
    BY <1>2, ExpectComes DEF OpenGenericArgs
  <1>4. Comes(r, n - 1, more)
    <2>1. Comes(r, n - 1, sub.GenericArgs[o])
      BY <1>2, <1>3, ListsCome
    <2>2. Comes(r, n - 1, SplitShr(sub.GenericArgs[o]))
      BY <1>2, <2>1, SplitsCome
    <2> QED BY <1>2, <2>2, ExpectComes
  <1> QED BY <1>1, <1>4 DEF IdRefEntry, Then

LEMMA IdRefEntriesCome ==
    ASSUME NEW sub, NEW m \in Int, HaltsExprs(sub, m), NEW r, NEW n \in Int, NEW q, Comes(r, n, q),
           5 * n + 1 <= m + 1, NEW d \in BOOLEAN
    PROVE  Comes(r, n, IdRefEntries(sub, q, d))
  <1> DEFINE b == Begin(q, "IdRefEntry")
             e == Adopt(q, IdRefEntry(sub, b, d))
             more == sub.IdRefEntries[d][Take(e)]
  <1>1. "IdRefEntry" \in NodeKinds /\ n - 1 \in Int
    BY DEF NodeKinds
  <1>2. Comes(b, n - 1, IdRefEntry(sub, b, d))
    BY <1>1, BeginComes, IdRefEntryComes
  <1>3. Comes(r, n - 1, e)
    BY <1>1, <1>2, AdoptComes
  <1>4. Comes(r, n - 1, more)
    <2> HIDE DEF e
    <2>1. Comes(r, n - 1, Take(e))
      BY <1>1, <1>3, TakeComes
    <2>2. 5 * (n - 1) + 1 <= m
      OBVIOUS
    <2> QED BY <1>1, <2>1, <2>2, NamesCome
  <1>5. Comes(r, n, e) /\ Comes(r, n, more)
    BY <1>1, <1>3, <1>4, ComesLess
  <1> QED BY <1>5 DEF IdRefEntries, Then

LEMMA IdRefHeadComes ==
    ASSUME NEW sub, NEW m \in Int, HaltsExprs(sub, m), NEW r, NEW n \in Int, NEW q, Comes(r, n, q),
           5 * n + 1 <= m, NEW d \in BOOLEAN
    PROVE  Comes(r, n, IdRefHead(sub, q, d))
  <1> DEFINE self == Peek(q) \in {"this", "super"}
             h == IF self \/ Peek(q) = "::" THEN Take(q) ELSE q
  <1>1. Comes(r, n, h)
    BY TakeComes
  <1>2. Comes(r, n, sub.IdRefEntries[d][h]) /\ Comes(r, n, sub.IdRefEntries[d][Take(h)])
    BY <1>1, TakeComes, NamesCome
  <1> HIDE DEF self
  <1> QED BY <1>1, <1>2 DEF IdRefHead, Then, self

LEMMA IdRefComes ==
    ASSUME NEW sub, NEW m \in Int, HaltsExprs(sub, m), NEW r, NEW n \in Int, NEW q, Comes(r, n, q),
           5 * n + 1 <= m, NEW d \in BOOLEAN
    PROVE  Comes(r, n, IdRef(sub, q, d))
  <1>1. "IdRef" \in NodeKinds
    BY DEF NodeKinds
  <1>2. Comes(Begin(q, "IdRef"), n, IdRefHead(sub, Begin(q, "IdRef"), d))
    BY <1>1, BeginComes, IdRefHeadComes
  <1> QED BY <1>1, <1>2, AdoptComes DEF IdRef

LEMMA TypeBaseComes ==
    ASSUME NEW sub, NEW m \in Int, HaltsExprs(sub, m), NEW r, NEW n \in Int, NEW q, Comes(r, n, q),
           5 * n + 1 <= m
    PROVE  Comes(r, n, TypeBase(sub, q))
  <1>1. Comes(r, n, IdRef(sub, As(q, "CustomTypeName"), FALSE))
    <2>1. "CustomTypeName" \in NodeKinds
      BY DEF NodeKinds
    <2> QED BY <2>1, AsComes, IdRefComes
  <1>2. Comes(r, n, Take(q)) /\ Comes(r, n, Fail(q, "UnexpectedToken"))
    BY TakeComes, FailComes DEF Errors
  <1> QED BY <1>1, <1>2 DEF TypeBase

LEMMA TypeModifiersCome ==
    ASSUME NEW r, NEW n \in Int, NEW q, Comes(r, n, q)
    PROVE  Comes(r, n, TypeModifiers(q))
  BY OptionalComes, OptionalsCome DEF TypeModifiers

LEMMA TypeSuffixComes ==
    ASSUME NEW sub, NEW m \in Int, HaltsExprs(sub, m), NEW r, NEW n \in Int, NEW q, Comes(r, n, q),
           5 * n + 1 <= m + 1
    PROVE  Comes(r, n, TypeSuffix(sub, q))
  <1> DEFINE t == TypeModifiers(q)
             w == Wrap(t, "ArrayTypeName")
             x == Expect(Take(w), "]")
  <1>1. n - 1 \in Int /\ 5 * (n - 1) + 1 <= m /\ n - 1 <= n
    OBVIOUS
  <1>2. Comes(r, n, t)
    BY TypeModifiersCome
  <1>3. Comes(r, n, w)
    BY <1>2, WrapComes DEF NodeKinds
  <1>4. Comes(r, n - 1, x)
    BY <1>1, <1>3, TakeComes, ExpectComes
  <1> HIDE DEF x
  <1>5. Comes(r, n - 1, sub.TypeSuffix[x])
    BY <1>1, <1>4, NamesCome
  <1>6. Comes(r, n, sub.TypeSuffix[x])
    BY <1>1, <1>5, ComesLess
  <1> QED BY <1>2, <1>6 DEF TypeSuffix, Then, x

LEMMA TypeNameComes ==
    ASSUME NEW sub, NEW m \in Int, HaltsExprs(sub, m), NEW r, NEW n \in Int, NEW q, Comes(r, n, q),
           5 * n + 2 <= m + 1
    PROVE  Comes(r, n, TypeName(sub, q))
  <1> DEFINE b == Begin(q, "TypeName")
             base == TypeBase(sub, b)
             named == Optional(base, {"object"})
             suffix == sub.TypeSuffix[named]
             full == Optionals(suffix, {"ref"}, {"readonly"}, {"local"})
  <1>1. "TypeName" \in NodeKinds /\ 5 * n + 1 <= m
    BY DEF NodeKinds
  <1>2. Comes(b, n, base)
    BY <1>1, BeginComes, TypeBaseComes
  <1> HIDE DEF base
  <1>3. Comes(b, n, named)
    BY <1>2, OptionalComes
  <1> HIDE DEF named
  <1>4. Comes(b, n, suffix)
    BY <1>1, <1>3, NamesCome
  <1> HIDE DEF suffix
  <1>5. Comes(b, n, full)
    BY <1>4, OptionalsCome
  <1> HIDE DEF full
  <1>6. Comes(r, n, Adopt(q, full))
    BY <1>1, <1>5, AdoptComes
  <1> QED BY <1>6 DEF TypeName, base, named, suffix, full

(* The match expression. *)
LEMMA MatchCaseComes ==
    ASSUME NEW sub, NEW m \in Int, HaltsExprs(sub, m), NEW r, NEW n \in Int, NEW q, Comes(r, n, q),
           5 * n + 2 <= m
    PROVE  Comes(r, n, MatchCase(sub, q))
  <1> DEFINE label == Try(q, LAMBDA s : Label(sub, s))
             colon == Try(label, LAMBDA s : Expect(s, ":"))
  <1>1. 0 \in Int
    OBVIOUS
  <1>2. ASSUME NEW p, Comes(r, n, p)
        PROVE  /\ Comes(p, n, Label(sub, p)) /\ Comes(p, n, Expect(p, ":"))
               /\ Comes(p, n, sub.Expr[0][p])
    <2>1. Comes(p, n, p)
      BY <1>2, ComesHere
    <2>2. Comes(p, n, sub.Expr[0][p]) /\ Comes(p, n, Expect(p, ":"))
      BY <1>1, <2>1, ExprComes, ExpectComes
    <2>3. Comes(p, n, Expect(p, "default"))
      BY <2>1, ExpectComes
    <2> QED BY <2>2, <2>3 DEF Label
  <1>3. Comes(r, n, label)
    BY <1>2, NotedComes DEF Try
  <1> HIDE DEF label
  <1>4. Comes(r, n, colon)
    BY <1>2, <1>3, NotedComes DEF Try
  <1> HIDE DEF colon
  <1>5. Comes(r, n, Try(colon, LAMBDA s : sub.Expr[0][s]))
    BY <1>2, <1>4, NotedComes DEF Try
  <1> QED BY <1>5 DEF MatchCase, colon, label

LEMMA MatchCasesCome ==
    ASSUME NEW sub, NEW m \in Int, HaltsExprs(sub, m), NEW r, NEW n \in Int, NEW q, Comes(r, n, q),
           5 * n + 3 <= m + 1
    PROVE  Comes(r, n, MatchCases(sub, q))
  <1> DEFINE b == Begin(q, "MatchCase")
             c == Adopt(q, MatchCase(sub, b))
             x == Separated(c)
             more == sub.MatchCases[x]
  <1>1. "MatchCase" \in NodeKinds /\ 5 * n + 2 <= m /\ n - 1 \in Int /\ 5 * (n - 1) + 3 <= m
        /\ n - 1 <= n
    BY DEF NodeKinds
  <1>2. Comes(b, n, MatchCase(sub, b))
    BY <1>1, BeginComes, MatchCaseComes
  <1>3. Comes(r, n, c)
    BY <1>1, <1>2, AdoptComes
  <1> HIDE DEF c
  <1>4. Comes(r, n - 1, x)
    BY <1>3, SeparatedComes
  <1> HIDE DEF x
  <1>5. Comes(r, n - 1, more)
    BY <1>1, <1>4, ListsCome
  <1>6. Comes(r, n, more)
    BY <1>1, <1>5, ComesLess
  <1> QED BY <1>3, <1>6 DEF MatchCases, Then, c, x

LEMMA MatchComes ==
    ASSUME NEW sub, NEW m \in Int, HaltsExprs(sub, m), NEW r, NEW n \in Int, NEW q, Comes(r, n, q),
           5 * n <= m + 1
    PROVE  Comes(r, n, Match(sub, q))
  <1> DEFINE k == n - 1
             first == Take(As(q, "Match"))
             open == Try(first, LAMBDA s : Expect(s, "("))
             value == Try(open, LAMBDA s : sub.Expr[0][s])
             close == Try(value, LAMBDA s : Expect(s, ")"))
             type == MatchType(sub, close)
             brace == Try(type, LAMBDA s : Expect(s, "{"))
             cases == sub.MatchCases[brace]
             end == Try(cases, LAMBDA s : Expect(s, "}"))
  <1>1. k \in Int /\ k <= n /\ 5 * k + 3 <= m /\ 5 * k + 2 <= m /\ 0 \in Int
    OBVIOUS
  <1>2. Comes(r, k, first)
    BY AsComes, TakeComes DEF NodeKinds
  <1> HIDE DEF k, first
  <1>3. ASSUME NEW p, Comes(r, k, p)
        PROVE  /\ \A kind : Comes(p, k, Expect(p, kind))
               /\ Comes(p, k, sub.Expr[0][p])
    <2>1. Comes(p, k, p)
      BY <1>1, <1>3, ComesHere
    <2> QED BY <1>1, <2>1, ExprComes, ExpectComes
  <1>4. Comes(r, k, open)
    BY <1>1, <1>2, <1>3, NotedComes DEF Try
  <1> HIDE DEF open
  <1>5. Comes(r, k, value)
    BY <1>1, <1>3, <1>4, NotedComes DEF Try
  <1> HIDE DEF value
  <1>6. Comes(r, k, close)
    BY <1>1, <1>3, <1>5, NotedComes DEF Try
  <1> HIDE DEF close
  <1>7. Comes(r, k, type)
    <2>1. Comes(r, k, Take(close))
      BY <1>1, <1>6, TakeComes
    <2>2. Comes(r, k, sub.TypeName[Take(close)])
      BY <1>1, <2>1, NamesCome
    <2> QED BY <1>6, <2>2 DEF MatchType
  <1> HIDE DEF type
  <1>8. Comes(r, k, brace)
    BY <1>1, <1>3, <1>7, NotedComes DEF Try
  <1> HIDE DEF brace
  <1>9. Comes(r, k, cases)
    BY <1>1, <1>8, ListsCome
  <1> HIDE DEF cases
  <1>10. Comes(r, k, end)
    BY <1>1, <1>3, <1>9, NotedComes DEF Try
  <1> HIDE DEF end
  <1>11. Comes(r, n, end)
    BY <1>1, <1>10, ComesLess
  <1> QED BY <1>11 DEF Match, first, open, value, close, type, brace, cases, end

(* The parts of an expression. *)
LEMMA TakenComes ==
    ASSUME NEW r, NEW n \in Int, NEW q, Comes(r, n, q), NEW kind \in NodeKinds
    PROVE  Comes(r, n - 1, Take(As(q, kind)))
  BY AsComes, TakeComes

LEMMA BracketsCome ==
    ASSUME NEW sub, NEW m \in Int, HaltsExprs(sub, m), NEW r, NEW n \in Int, NEW q, Comes(r, n, q),
           5 * n + 3 <= m
    PROVE  /\ Comes(r, n, Expect(sub.Expr[-10][q], ")"))
           /\ Comes(r, n, Expect(Args(sub, Expect(sub.TypeName[q], "("), ")"), ")"))
           /\ \A t \in Terminals : Comes(r, n, Expect(Args(sub, q, t), t))
  <1>1. -10 \in Int /\ ")" \in Terminals /\ 5 * n + 2 <= m
    BY DEF Terminals
  <1>2. Comes(r, n, Expect(sub.Expr[-10][q], ")"))
    <2>1. Comes(r, n, sub.Expr[-10][q])
      BY <1>1, ExprComes
    <2> QED BY <2>1, ExpectComes
  <1>3. ASSUME NEW p, Comes(r, n, p), NEW t \in Terminals
        PROVE  Comes(r, n, Expect(Args(sub, p, t), t))
    <2>1. Comes(r, n, Args(sub, p, t))
      BY <1>3, ArgsCome
    <2> QED BY <2>1, ExpectComes
  <1>4. Comes(r, n, Expect(sub.TypeName[q], "("))
    <2>1. Comes(r, n, sub.TypeName[q])
      BY <1>1, NamesCome
    <2> QED BY <2>1, ExpectComes
  <1> QED BY <1>1, <1>2, <1>3, <1>4

LEMMA JumpComes ==
    ASSUME NEW sub, NEW m \in Int, HaltsExprs(sub, m), NEW r, NEW n \in Int, NEW q, Comes(r, n, q),
           5 * n <= m, NEW t \in {"break", "continue", "return", "yield"}
    PROVE  Comes(r, n, Jump(sub, q, t))
  <1> DEFINE k == n - 1
             j == Take(As(q, t))
             args == Expect(Args(sub, Take(j), ")"), ")")
             value == sub.Expr[0][j]
  <1>1. k \in Int /\ k <= n /\ 5 * k + 3 <= m /\ 5 * k + 2 <= m /\ 0 \in Int /\ ")" \in Terminals
    BY DEF Terminals
  <1>2. Comes(r, k, j)
    <2>1. t \in NodeKinds
      BY DEF NodeKinds
    <2> QED BY <2>1, TakenComes
  <1> HIDE DEF k, j
  <1>3. Comes(r, k, args)
    <2>1. Comes(r, k, Take(j))
      BY <1>1, <1>2, TakeComes
    <2> QED BY <1>1, <2>1, BracketsCome
  <1>4. Comes(r, k, value)
    BY <1>1, <1>2, ExprComes
  <1>5. Comes(r, n, j) /\ Comes(r, n, args) /\ Comes(r, n, value)
    BY <1>1, <1>2, <1>3, <1>4, ComesLess
  <1> HIDE DEF args, value
  <1>6. Jump(sub, q, t) \in {j, args, value}
    <2>1. Jump(sub, q, t) = IF Ok(j) THEN CASE t = "continue" /\ Peek(j) = "(" -> args
                              [] t = "yield" \/ (t = "return" /\ Peek(j) # ";") -> value
                              [] OTHER -> j
                          ELSE j
      BY Zenon DEF Jump, Then, j, args, value
    <2> QED BY <2>1
  <1> QED BY <1>5, <1>6

LEMMA PrefixComes ==
    ASSUME NEW sub, NEW m \in Int, HaltsExprs(sub, m), NEW r, NEW n \in Int, NEW q, Comes(r, n, q),
           5 * n + 1 <= m
    PROVE  Comes(r, n, Prefix(sub, q))
  <1> DEFINE k == n - 1
             taken(kind) == Take(As(q, kind))
  <1>1. k \in Int /\ k <= n /\ 5 * k + 3 <= m /\ 5 * n <= m /\ 5 * n <= m + 1
    OBVIOUS
  <1>2. ASSUME NEW kind \in NodeKinds PROVE Comes(r, k, taken(kind))
    BY TakenComes
  <1> HIDE DEF k
  <1>3. ASSUME NEW s, Comes(r, k, s) PROVE Comes(r, n, s)
    BY <1>1, <1>3, ComesLess
  <1>4. Comes(r, n, IdRef(sub, As(q, "IdRefExpr"), TRUE))
    <2>1. "IdRefExpr" \in NodeKinds
      BY DEF NodeKinds
    <2> QED BY <2>1, AsComes, IdRefComes
  <1>5. /\ Comes(r, k, taken("Group")) /\ Comes(r, k, taken("New")) /\ Comes(r, k, taken("Literal"))
        /\ Comes(r, k, taken("Unary")) /\ Comes(r, k, taken("InitializerList"))
    <2>1. /\ "Group" \in NodeKinds /\ "New" \in NodeKinds /\ "Literal" \in NodeKinds
          /\ "Unary" \in NodeKinds /\ "InitializerList" \in NodeKinds
      BY DEF NodeKinds
    <2> HIDE DEF taken
    <2> QED BY <1>2, <2>1
  <1>6. Comes(r, n, Match(sub, q)) /\ Comes(r, n, NoExpr(q))
    BY <1>1, MatchComes, TakeComes, FailComes DEF NoExpr, Errors
  <1>7. Peek(q) \in {"break", "continue", "return", "yield"} => Comes(r, n, Jump(sub, q, Peek(q)))
    BY <1>1, JumpComes
  <1> HIDE DEF taken
  <1>8. /\ Comes(r, n, Expect(sub.Expr[-10][taken("Group")], ")"))
        /\ Comes(r, n, Expect(Args(sub, Expect(sub.TypeName[taken("New")], "("), ")"), ")"))
        /\ Comes(r, n, Expect(Args(sub, taken("InitializerList"), "}"), "}"))
    <2>1. "}" \in Terminals
      BY DEF Terminals
    <2> QED BY <1>1, <1>3, <1>5, <2>1, BracketsCome
  <1>9. Comes(r, n, taken("Literal")) /\ Comes(r, n, taken("Unary"))
    BY <1>3, <1>5
  <1> QED BY <1>4, <1>6, <1>7, <1>8, <1>9, PrefixUnfolded DEF taken

LEMMA OperandComes ==
    ASSUME NEW sub, NEW m \in Int, HaltsExprs(sub, m), NEW r, NEW n \in Int, NEW q, Comes(r, n, q),
           5 * n + 3 <= m, NEW op \in Infixes
    PROVE  Comes(r, n, Operand(sub, q, op))
  <1>0. 5 * n + 1 <= m /\ 5 * n + 2 <= m /\ 10 \in Int /\ ")" \in Terminals
    BY DEF Terminals
  <1>1. Comes(r, n, Expect(Args(sub, q, ")"), ")"))
    BY <1>0, BracketsCome
  <1>2. Comes(r, n, Expect(SubscriptArgs(sub, q), "]"))
    BY SubscriptArgsCome, ExpectComes
  <1>3. Comes(r, n, IdRef(sub, q, TRUE)) /\ Comes(r, n, sub.TypeName[q])
    BY <1>0, IdRefComes, NamesCome
  <1>4. Comes(r, n, sub.Expr[10][Expect(sub.Expr[10][q], ":")])
    <2>1. Comes(r, n, sub.Expr[10][q])
      BY <1>0, ExprComes
    <2>2. Comes(r, n, Expect(sub.Expr[10][q], ":"))
      BY <2>1, ExpectComes
    <2> QED BY <1>0, <2>2, ExprComes
  <1>5. Comes(r, n, sub.Expr[OperandLevel(op)][q])
    <2>1. OperandLevel(op) \in Int
      BY LevelType DEF OperandLevel
    <2> QED BY <1>0, <2>1, ExprComes
  <1> QED BY <1>1, <1>2, <1>3, <1>4, <1>5 DEF Operand

LEMMA InfixPartComes ==
    ASSUME NEW sub, NEW m \in Int, HaltsExprs(sub, m), NEW r, NEW n \in Int, NEW q, Comes(r, n, q),
           5 * n + 1 <= m + 1, NEW p \in Int
    PROVE  Comes(r, n, InfixPart(sub, q, p))
  <1> DEFINE k == n - 1
             op == Peek(q)
             w == Take(Wrap(q, Operation(op)))
             o == Operand(sub, w, op)
             more == sub.InfixPart[p][o]
  <1> SUFFICES ASSUME op \in Infixes PROVE Comes(r, n, more)
    BY DEF InfixPart
  <1>1. k \in Int /\ k <= n /\ 5 * k + 3 <= m /\ 5 * k + 1 <= m
    OBVIOUS
  <1>2. Comes(r, k, w)
    BY LevelType, WrapComes, TakeComes
  <1> HIDE DEF k, w
  <1>3. Comes(r, k, o)
    BY <1>1, <1>2, OperandComes
  <1> HIDE DEF o
  <1>4. Comes(r, k, more)
    BY <1>1, <1>3, ExprComes
  <1> QED BY <1>1, <1>4, ComesLess

LEMMA ParseExprComes ==
    ASSUME NEW sub, NEW m \in Int, HaltsExprs(sub, m), NEW r, NEW n \in Int, NEW q, Comes(r, n, q),
           5 * n + 2 <= m + 1, NEW p \in Int
    PROVE  Comes(r, n, Expr(sub, q, p))
  <1> DEFINE b == Begin(q, "Invalid")
             prefix == Prefix(sub, b)
             c == sub.InfixPart[p][prefix]
  <1>1. "Invalid" \in NodeKinds /\ 5 * n + 1 <= m
    BY DEF NodeKinds
  <1>2. Comes(b, n, prefix)
    BY <1>1, BeginComes, PrefixComes
  <1> HIDE DEF prefix
  <1>3. Comes(b, n, c)
    BY <1>1, <1>2, ExprComes
  <1>4. Comes(r, n, Adopt(q, c))
    BY <1>1, <1>3, AdoptComes
  <1> QED BY <1>4 DEF Expr, Then, prefix

-----------------------------------------------------------------------------
(* All functions come back, by induction on the depth of calls.            *)
LEMMA NoReturnHalts ==
    ASSUME NEW k \in Nat \ {0}
    PROVE  Halting(NoReturn, k, 0)
  <1> SUFFICES ASSUME NEW n \in Int, NEW q, Comes(q, n, q), 5 * n + k <= 0
               PROVE  Comes(q, n, NoReturn[q])
    BY DEF Halting
  <1>1. q \in Parser /\ Rest(q) \in Nat
    BY ComesType
  <1>2. ~ Ok(q)
    <2>1. n < 0
      OBVIOUS
    <2> QED BY <1>1, <2>1 DEF Comes
  <1>3. NoReturn[q] = q
    BY <1>1, <1>2 DEF NoReturn, Fail
  <1> QED BY <1>3

LEMMA NoExprFunctionsHalt == HaltsExprs(NoExprFunctions, 0)
  <1> DEFINE f == NoReturn
  <1>1. Halting(f, 1, 0) /\ Halting(f, 2, 0) /\ Halting(f, 3, 0)
    BY NoReturnHalts
  <1>2. NoExprFunctions =
          [Expr |-> [p \in Int |-> f], InfixPart |-> [p \in Int |-> f],
           ArgList |-> [t \in Terminals |-> f], SubscriptList |-> f,
           GenericArgs |-> f, IdRefEntries |-> [d \in BOOLEAN |-> f],
           TypeSuffix |-> f, TypeName |-> f, MatchCases |-> f]
    BY DEF NoExprFunctions
  <1> HIDE DEF f
  <1> QED BY <1>1, <1>2 DEF HaltsExprs

LEMMA HaltingBy ==
    ASSUME NEW f, NEW k, NEW m,
           \A n \in Int : \A q \in Parser : Comes(q, n, q) /\ 5 * n + k <= m => Comes(q, n, f[q])
    PROVE  Halting(f, k, m)
  BY ComesType DEF Halting

LEMMA ExprFunctionsHalt ==
    ASSUME NEW sub, NEW m \in Int, HaltsExprs(sub, m)
    PROVE  HaltsExprs(ExprFunctions(sub), m + 1)
  <1> DEFINE expr(p) == [r \in Parser |-> Expr(sub, r, p)]
             infix(p) == [r \in Parser |-> InfixPart(sub, r, p)]
             argList(t) == [r \in Parser |-> ArgList(sub, r, t)]
             subscripts == [r \in Parser |-> SubscriptList(sub, r)]
             generics == [r \in Parser |-> GenericArgs(sub, r)]
             entries(d) == [r \in Parser |-> IdRefEntries(sub, r, d)]
             suffix == [r \in Parser |-> TypeSuffix(sub, r)]
             name == [r \in Parser |-> TypeName(sub, r)]
             cases == [r \in Parser |-> MatchCases(sub, r)]
  <1>1. ASSUME NEW p \in Int PROVE Halting(expr(p), 2, m + 1)
    BY ParseExprComes, HaltingBy
  <1>2. ASSUME NEW p \in Int PROVE Halting(infix(p), 1, m + 1)
    BY InfixPartComes, HaltingBy
  <1>3. ASSUME NEW t \in Terminals PROVE Halting(argList(t), 3, m + 1)
    BY ArgListComes, HaltingBy
  <1>4. Halting(subscripts, 3, m + 1)
    BY SubscriptListComes, HaltingBy
  <1>5. Halting(generics, 3, m + 1)
    BY GenericArgsCome, HaltingBy
  <1>6. ASSUME NEW d \in BOOLEAN PROVE Halting(entries(d), 1, m + 1)
    BY IdRefEntriesCome, HaltingBy
  <1>7. Halting(suffix, 1, m + 1)
    BY TypeSuffixComes, HaltingBy
  <1>8. Halting(name, 2, m + 1)
    BY TypeNameComes, HaltingBy
  <1>9. Halting(cases, 3, m + 1)
    BY MatchCasesCome, HaltingBy
  <1>10. ExprFunctions(sub) =
           [Expr |-> [p \in Int |-> expr(p)], InfixPart |-> [p \in Int |-> infix(p)],
            ArgList |-> [t \in Terminals |-> argList(t)], SubscriptList |-> subscripts,
            GenericArgs |-> generics, IdRefEntries |-> [d \in BOOLEAN |-> entries(d)],
            TypeSuffix |-> suffix, TypeName |-> name, MatchCases |-> cases]
    BY Zenon DEF ExprFunctions
  <1> HIDE DEF expr, infix, argList, subscripts, generics, entries, suffix, name, cases
  <1> QED BY <1>1, <1>2, <1>3, <1>4, <1>5, <1>6, <1>7, <1>8, <1>9, <1>10 DEF HaltsExprs

LEMMA ExprCallsHalt ==
    ASSUME NEW m \in Nat
    PROVE  HaltsExprs(ExprCalls[m], m)
  <1> DEFINE T == {n \in Nat : HaltsExprs(ExprCalls[n], n)}
  <1>1. 0 \in T
    BY ExprCallsStep, NoExprFunctionsHalt
  <1>2. ASSUME NEW n \in Nat, n \in T PROVE n + 1 \in T
    <2>1. HaltsExprs(ExprFunctions(ExprCalls[n]), n + 1)
      BY <1>2, ExprFunctionsHalt
    <2> QED BY <2>1, ExprCallsStep
  <1> HIDE DEF T
  <1>3. Nat \subseteq T
    BY <1>1, <1>2, Induction
  <1> QED BY <1>3 DEF T

(* What a parser starts with is within the bound on the depth of calls.    *)
LEMMA UnparsedRest ==
    ASSUME NEW kinds \in Seq(Kinds \ {"end"}), NEW root \in NodeKinds
    PROVE  LET r == Unparsed(kinds, root)
           IN  /\ Comes(r, Rest(r), r) /\ Rest(r) \in Nat
               /\ MaxDepth(kinds) \in Nat /\ 5 * Rest(r) + 5 <= MaxDepth(kinds)
  <1> DEFINE r == Unparsed(kinds, root)
  <1>1. Wellformed(r)
    BY UnparsedWellformed
  <1>2. r.toks = Lexed(kinds) /\ r.at = 1 /\ r.err = "none"
    BY DEF Unparsed
  <1> HIDE DEF r
  <1>3. Rest(r) \in Nat
    BY <1>1, RestType
  <1>4. Comes(r, Rest(r), r)
    BY <1>1, <1>2, <1>3, ComesItself
  <1>5. r.toks \in Seq(Token) /\ Len(r.toks) = Len(kinds) + 1 /\ Len(kinds) \in Nat
    BY <1>2, LexedType
  <1>6. Cardinality(WideOnes(r.toks)) \in 0 .. Len(kinds) + 1
    BY <1>5, RoomType
  <1>7. Rest(r) <= 2 * Len(kinds) + 2
    BY <1>2, <1>5, <1>6 DEF Rest, Room
  <1>8. MaxDepth(kinds) = 10 * (Len(kinds) + 2)
    BY DEF MaxDepth
  <1>9. MaxDepth(kinds) \in Nat /\ 5 * Rest(r) + 5 <= MaxDepth(kinds)
    BY <1>3, <1>5, <1>7, <1>8
  <1> QED BY <1>3, <1>4, <1>9 DEF r
=============================================================================
