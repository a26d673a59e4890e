----------------------------- MODULE ExprParser -----------------------------
(***************************************************************************)
(* parse_expr on a growing input.  An input is extended only if the parser *)
(* has read all of it: what it does on a longer input that it stops inside *)
(* of is what it has done.                                                 *)
(***************************************************************************)
EXTENDS Expressions

(* A language is a set of phrases, sequences of token kinds by which an     *)
(* input grows, and the bound on an input's length.                        *)
CONSTANT Languages

ASSUME LanguagesAssumption ==
    \A l \in Languages : l.phrases \subseteq Seq(Kinds \ {"end"}) /\ l.length \in Nat

VARIABLES language,  \* the language of the input
          input,     \* the kinds of the tokens typed so far
          parsed     \* the parser after parse_expr of that input

vars == <<language, input, parsed>>

-----------------------------------------------------------------------------

Parse(kinds) == ExprCalls[MaxDepth(kinds)].Expr[0][Unparsed(kinds, "Statement")]

Init ==
    /\ language \in Languages
    /\ input = <<>>
    /\ parsed = Parse(input)

Type(p) ==
    /\ Peek(parsed) = "end"
    /\ Len(input) + Len(p) <= language.length
    /\ input' = input \o p
    /\ parsed' = Parse(input')
    /\ UNCHANGED language

Next == \E p \in language.phrases : Type(p)

Spec == Init /\ [][Next]_vars

-----------------------------------------------------------------------------
(* What the properties say of the tree *)

Accepted == Ok(parsed) /\ parsed.errors = <<>>

Structural == {"Statement", "Args", "TypeName", "CustomTypeName", "ArrayTypeName", "Unset",
               "IdRef", "IdRefEntry", "MatchCase"}
IsExpr(nodes, k) == ~ IsToken(k) /\ nodes[k.child].node \notin Structural

(* The children of a node that are no trivia. *)
PartsUpTo(kids) ==
    LET p[i \in 0 .. Len(kids)] ==
            IF i = 0 THEN <<>>
            ELSE IF IsToken(kids[i]) /\ kids[i].id \in Trivia THEN p[i - 1]
            ELSE Append(p[i - 1], kids[i])
    IN p
PartsOf(kids) == PartsUpTo(kids)[Len(kids)]
Parts(n) == PartsOf(n.kids)

(* A node that is one of nodes, or is being filled, and that begins with    *)
(* an expression and an operator.                                          *)
IsInfix(nodes, n) == /\ n.node \notin Structural
                     /\ Len(Parts(n)) > 1
                     /\ IsExpr(nodes, Parts(n)[1]) /\ IsToken(Parts(n)[2])
InfixOf(n) == Parts(n)[2].id
Left(n) == Parts(n)[1]
Right(n) == Parts(n)[Len(Parts(n))]

-----------------------------------------------------------------------------

(* What the variables hold; the end's token stays the last one, whatever is *)
(* split.                                                                  *)
TypeOK ==
    /\ language \in Languages
    /\ input \in Seq(Kinds) /\ Len(input) <= language.length
    /\ parsed.at \in 1 .. Len(parsed.toks) + 1
    /\ \A i \in DOMAIN parsed.toks : parsed.toks[i].id = "end" <=> i = Len(parsed.toks)

(* Nothing the parser passes is lost, doubled or moved, trivia and the     *)
(* tokens of failed constructs included: the leaves of the tree are the    *)
(* tokens before idx_current_token, in their order.                        *)
Lossless == Leaves(parsed) = SubSeq(parsed.toks, 1, parsed.at - 1)

(* parse_expr takes a token whenever there is one: the loops that call it  *)
(* again after an error come to an end.                                    *)
Advances == \E i \in DOMAIN Leaves(parsed) : Leaves(parsed)[i].id \notin Trivia

(* parse_expr comes back, whatever is in the input: its loops and the      *)
(* functions that call each other take a token before they come round      *)
(* again, those that note an error and go on included.                     *)
Halts == parsed.err # "endless"

(* The operators nest by their levels, also where the parser gave up: an   *)
(* operand of an operator binds tighter than it or, on the side to which   *)
(* the operator associates, as tight.  Assignments and "?:" associate to   *)
(* the right, the others to the left; after "as" only a type can follow,   *)
(* so a cast may be the left operand of anything.                          *)
RightAssociative == Assignment \cup {"?"}
Tighter(nodes, k, op, orEqual) ==
    ~ IsToken(k) /\ IsInfix(nodes, nodes[k.child]) =>
        LET inner == Level(InfixOf(nodes[k.child]))
        IN inner > Level(op) \/ (orEqual /\ inner = Level(op))
Nests(nodes, n) == IsInfix(nodes, n) =>
    LET op == InfixOf(n)
    IN /\ \/ Tighter(nodes, Left(n), op, op \notin RightAssociative)
          \/ InfixOf(nodes[Left(n).child]) = "as"
       /\ op \in Binary \cup {"?"} => Tighter(nodes, Right(n), op, op \in RightAssociative)
WellNested == \A n \in Nodes(parsed) : Nests(parsed.nodes, n)

(* An input that is accepted without an error has every bracket closed in  *)
(* the construct that opened it, and a separator between any two           *)
(* expressions and between any two separators an expression.               *)
Opening == {"(", "[", "{", "<"}
Closing == {")", "]", "}", ">"}
TokensIn(n, kinds) == {i \in DOMAIN n.kids : IsToken(n.kids[i]) /\ n.kids[i].id \in kinds}
Paired(n) ==
    n.node \in Binary \/ Cardinality(TokensIn(n, Opening)) = Cardinality(TokensIn(n, Closing))
Apart(n) == \A i \in 1 .. Len(Parts(n)) - 1 :
    LET a == Parts(n)[i]
        b == Parts(n)[i + 1]
    IN ~ (IsExpr(parsed.nodes, a) /\ IsExpr(parsed.nodes, b)) /\ ~ (IsToken(a) /\ IsToken(b) /\ a.id = "," /\ b.id = ",")
NoErrorLost == Accepted => \A n \in Nodes(parsed) : Paired(n) /\ Apart(n)

(* For operands joined by binary operators the tree is the one a reader    *)
(* expects: the weakest operator splits the input, of several as weak the  *)
(* first one if it is an assignment, otherwise the last.                   *)
Flat == /\ Len(input) % 2 = 1
        /\ \A i \in DOMAIN input : IF i % 2 = 1 THEN input[i] = "id" ELSE input[i] \in Binary
Bracketed ==
    LET b[span \in (1 .. Len(input)) \X (1 .. Len(input))] ==
            LET ops == {i \in span[1] .. span[2] : i % 2 = 0}
                weakest == {i \in ops : \A j \in ops : Level(input[i]) <= Level(input[j])}
                root == CHOOSE i \in weakest :
                           \A j \in weakest : IF input[i] \in Assignment THEN i <= j ELSE j <= i
            IN IF ops = {} THEN "id"
               ELSE <<b[<<span[1], root - 1>>], input[root], b[<<root + 1, span[2]>>]>>
    IN b[<<1, Len(input)>>]
Shape(k) ==
    LET shape[i \in DOMAIN parsed.nodes] ==
            LET n == parsed.nodes[i]
            IN IF IsInfix(parsed.nodes, n) THEN <<shape[Left(n).child], InfixOf(n), shape[Right(n).child]>>
               ELSE "id"
    IN shape[k.child]
Canonical == Flat => Accepted /\ Peek(parsed) = "end" /\ Shape(parsed.kids[1]) = Bracketed

(* What the comments of GreenNodeBinaryExprOp say: the operation of a node *)
(* is the one its operator denotes.                                        *)
OperatorsKept == \A n \in Nodes(parsed) :
    IsInfix(parsed.nodes, n) /\ InfixOf(n) \in Binary => n.node = InfixOf(n)

(* The tokens of an expression that is accepted cover its source, as       *)
(* main() asserts of the tree: no text is lost when a token is split.      *)
WidthKept ==
    Accepted /\ Peek(parsed) = "end" => TotalWidth(parsed.toks) = WidthOf(input)
=============================================================================
