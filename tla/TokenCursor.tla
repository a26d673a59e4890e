---------------------------- MODULE TokenCursor ----------------------------
(***************************************************************************)
(* The token cursor of Parser (slkc/ast/parser/parser.cc): how the parsing *)
(* functions look at, collect and split the tokens of token_list, and how  *)
(* their errors travel.                                                    *)
(*                                                                         *)
(* A parsing function is an operator from parser to parser.  The record of *)
(* a parser is                                                             *)
(*   toks    token_list                                                    *)
(*   at      idx_current_token                                             *)
(*   errors  syntax_errors, their kinds                                    *)
(*   err     the error the function is co_returning, or "none"; "endless"  *)
(*           when it does not return                                       *)
(*   node    kind of the green node being filled                           *)
(*   kids    its children: tokens, and the places of nodes                  *)
(*   nodes   the nodes that are filled, each after its children             *)
(* Every operator below leaves a parser with an error as it is, so that a  *)
(* composition of them ends where SLKC_CO_RETURN_IF_PARSE_ERROR ends it.   *)
(*                                                                         *)
(* A token keeps the offset at which its text starts and the width of its  *)
(* source_text.  Allocations do not fail here.                             *)
(***************************************************************************)
EXTENDS Integers, Sequences, SequencesExt

Trivia == {"newline", "space", "comment"}
Wide == {">>", "]]"}

(* The kinds of tokens, by their text: those the parser tells apart, the   *)
(* names and literals of all kinds and the end.                            *)
Kinds ==
    Trivia \cup Wide \cup
    {"end", "id", "literal", "(", ")", "[", "]", "{", "}", ",", ";", ":", "::", ".", "...", "->",
     "?", "!", "~", "+", "-", "*", "/", "%", "&", "|", "^", "<<", "<", ">", "<=", ">=", "<=>",
     "==", "!=", "===", "!==", "&&", "||", "=", "+=", "-=", "*=", "/=", "%=", "&=", "|=", "^=",
     "<<=", ">>=", "as", "async", "break", "case", "class", "const", "continue", "default",
     "delete", "do", "enum", "except", "false", "final", "fn", "for", "i32", "if", "import",
     "interface", "let", "local", "match", "module", "multi", "mut", "native", "new", "null",
     "object", "operator", "override", "private", "protected", "public", "readonly", "ref",
     "restrict", "return", "static", "struct", "super", "switch", "synchronized", "this",
     "trait", "true", "union", "var", "virtual", "void", "while", "yield"}

(* The kinds of green nodes, those of expressions and statements by their  *)
(* operators and keywords.                                                 *)
NodeKinds ==
    {"Module", "Statement", "Unset", "Args", "IdRef", "IdRefEntry", "TypeName", "CustomTypeName",
     "ArrayTypeName", "Invalid", "IdRefExpr", "HeadedIdRef", "Group", "New", "Literal",
     "InitializerList", "Unary", "Match", "MatchCase", "Call", "Subscript", "Cast", "Ternary",
     "break", "continue", "return", "yield", "*", "/", "%", "-", "<=>", "<", ">", "<=", ">=",
     "==", "!=", "&", "|", "^", "&&", "||", "=", "+=", "-=", "*=", "/=", "%=", "&=", "|=", "^=",
     "<<=", ">>=", "Stmt", "ExprStmt", "SwitchCase", "VarBinding", "VarBindings", "if", "while",
     "do", "for", "let", "var", "switch", "{", "Var", "FnDef", "FnDecl", "OperatorName",
     "GenericParam", "InheritanceSlot", "ImplItem", "ClassDef", "InterfaceDef", "TraitDef",
     "StructDef", "ConstEnumDef", "ScopedEnumDef", "UnknownEnumDecl", "ConstAndScopedEnumItem",
     "UnionEnumCase"}

(* The kinds of syntax errors. *)
Errors == {"ExpectingMoreTokens", "ExpectingSingleToken", "ExpectingExpr", "UnexpectedToken"}

Token == [id : Kinds, from : Nat, width : Nat]
Child == Token \cup [child : Nat]
GreenNode == [node : NodeKinds, kids : Seq(Child)]
Parser == [toks : Seq(Token), at : Nat \ {0}, errors : Seq(Errors),
           err : Errors \cup {"none", "endless"},
           node : NodeKinds, kids : Seq(Child), nodes : Seq(GreenNode)]

(* The lexer's tokens stand side by side, the last is the end's.  Widths   *)
(* gives the width of the text up to each of them.                         *)
Width(kind) == IF kind \in Wide THEN 2 ELSE 1
Widths(kinds) ==
    LET w[i \in 0 .. Len(kinds)] == IF i = 0 THEN 0 ELSE w[i - 1] + Width(kinds[i]) IN w
WidthOf(kinds) == Widths(kinds)[Len(kinds)]
Lexed(kinds) ==
    [i \in 1 .. Len(kinds) + 1 |->
        IF i = Len(kinds) + 1 THEN [id |-> "end", from |-> WidthOf(kinds), width |-> 0]
        ELSE [id |-> kinds[i], from |-> Widths(kinds)[i - 1], width |-> Width(kinds[i])]]

(* The width of the text of tokens. *)
TokenWidths(tokens) ==
    LET w[i \in 0 .. Len(tokens)] == IF i = 0 THEN 0 ELSE w[i - 1] + tokens[i].width IN w
TotalWidth(tokens) == TokenWidths(tokens)[Len(tokens)]

(* The parser before its first step. *)
Unparsed(kinds, root) ==
    [toks |-> Lexed(kinds), at |-> 1, errors |-> <<>>, err |-> "none",
     node |-> root, kids |-> <<>>, nodes |-> <<>>]

(* A bound on the depth of calls, beyond what any of these tokens need that *)
(* the parser comes back from: a token is at most two after it is split,   *)
(* and at most five calls are made inside each other without taking one.   *)
MaxDepth(kinds) == 10 * (Len(kinds) + 2)

IsToken(x) == "id" \in DOMAIN x

(* The leaves of the children kids, where leaves has those of the nodes    *)
(* that they refer to; the leaves of each of the nodes; and of the tree    *)
(* that a parser has so far.                                               *)
LeavesUnder(leaves, k) == IF IsToken(k) THEN <<k>> ELSE leaves[k.child]
LeavesUpTo(leaves, kids) ==
    LET l[i \in 0 .. Len(kids)] ==
            IF i = 0 THEN <<>> ELSE l[i - 1] \o LeavesUnder(leaves, kids[i])
    IN l
LeavesOf(leaves, kids) == LeavesUpTo(leaves, kids)[Len(kids)]
WithLeavesOf(leaves, n) == Append(leaves, LeavesOf(leaves, n.kids))
NodeLeavesUpTo(nodes) ==
    LET l[i \in 0 .. Len(nodes)] ==
            IF i = 0 THEN <<>> ELSE WithLeavesOf(l[i - 1], nodes[i])
    IN l
NodeLeaves(nodes) == NodeLeavesUpTo(nodes)[Len(nodes)]
Leaves(r) == LeavesOf(NodeLeaves(r.nodes), r.kids)

(* All nodes, the one that is being filled included. *)
Filled(r) == [node |-> r.node, kids |-> r.kids]
Nodes(r) == {r.nodes[i] : i \in DOMAIN r.nodes} \cup {Filled(r)}

Ok(r) == r.err = "none"
Fail(r, e) == IF Ok(r) THEN [r EXCEPT !.err = e] ELSE r
Report(r, e) == IF Ok(r) THEN [r EXCEPT !.errors = Append(@, e)] ELSE r

(* What the C++ text does with the parser after an operation: one that     *)
(* asks more than one question of the outcome is written with Then.        *)
Then(r, Step(_)) == IF Ok(r) THEN Step(r) ELSE r

(* SLKC_PUSH_IF_PARSE_ERROR: the error of an operation, if it has one, is  *)
(* noted and the parser goes on, unless it has not come back at all.       *)
Noted(s) ==
    IF s.err \in {"none", "endless"} THEN s
    ELSE [s EXCEPT !.errors = Append(@, s.err), !.err = "none"]
Try(r, Step(_)) == IF Ok(r) THEN Noted(Step(r)) ELSE r

(* A turn of a loop, from r to s.  What a turn does depends on the tokens   *)
(* from idx_current_token on only: after one that takes none, the next     *)
(* ones take none either.                                                  *)
Turn(r, s) == IF s.at = r.at THEN [s EXCEPT !.err = "endless"] ELSE s

(* A node of its own, and its return to the node it is a child of: the     *)
(* placeholder in the parent is replaced on the error paths as well.       *)
Begin(r, kind) == [r EXCEPT !.node = kind, !.kids = <<>>]
Adopt(r, c) ==
    IF Ok(r)
    THEN [c EXCEPT !.node = r.node,
                   !.kids = Append(r.kids, [child |-> Len(c.nodes) + 1]),
                   !.nodes = Append(@, Filled(c))]
    ELSE r
As(r, kind) == IF Ok(r) THEN [r EXCEPT !.node = kind] ELSE r

(* The node so far becomes the first child of a node that takes its place. *)
Wrap(r, kind) ==
    IF Ok(r)
    THEN [r EXCEPT !.node = kind,
                   !.kids = << [child |-> Len(r.nodes) + 1] >>,
                   !.nodes = Append(@, Filled(r))]
    ELSE r

-----------------------------------------------------------------------------

(* Where the next token that is no trivia is, 0 when there is none. *)
Solid(r) ==
    LET S == {i \in r.at .. Len(r.toks) : r.toks[i].id \notin Trivia}
    IN IF S = {} THEN 0 ELSE CHOOSE i \in S : \A j \in S : i <= j

(* peek_token: the last token of the list when there is none. *)
Peek(r) == r.toks[IF Solid(r) = 0 THEN Len(r.toks) ELSE Solid(r)].id

(* Mutant of Take: the trivia in front of the token is passed over, not   *)
(* collected; the token itself is.                                         *)
TakeWithoutTrivia(r) ==
    IF ~ Ok(r) THEN r
    ELSE IF Solid(r) = 0 THEN Fail(r, "ExpectingMoreTokens")
    ELSE [r EXCEPT !.kids = Append(@, r.toks[Solid(r)]), !.at = Solid(r) + 1]

(* to_next_token: collects the trivia in front of the next token. *)
SkipTo(r, next) == [r EXCEPT !.kids = @ \o SubSeq(r.toks, r.at, next - 1), !.at = next]
ToNextToken(r) ==
    IF ~ Ok(r) THEN r
    ELSE IF Solid(r) = 0 THEN Fail(SkipTo(r, Len(r.toks) + 1), "ExpectingMoreTokens")
    ELSE SkipTo(r, Solid(r))

(* Mutant of Collect: the cursor is moved once more. *)
CollectAndAdvance(r) ==
    IF ~ Ok(r) THEN r
    ELSE IF r.at > Len(r.toks) THEN Fail(r, "ExpectingMoreTokens")
    ELSE [r EXCEPT !.kids = Append(@, r.toks[r.at]), !.at = @ + 2]

(* collect_token *)
Collect(r) ==
    IF ~ Ok(r) THEN r
    ELSE IF r.at > Len(r.toks) THEN Fail(r, "ExpectingMoreTokens")
    ELSE [r EXCEPT !.kids = Append(@, r.toks[r.at]), !.at = @ + 1]

(* collect_and_next_token, and with a guard on its kind *)
Take(r) == Collect(ToNextToken(r))
Optional(r, kinds) == IF Ok(r) /\ Peek(r) \in kinds THEN Take(r) ELSE r
Optionals(r, first, second, third) == Optional(Optional(Optional(r, first), second), third)

(* A part that a token of the given kind introduces. *)
After(r, kind, Part(_)) == IF Ok(r) /\ Peek(r) = kind THEN Part(Take(r)) ELSE r

(* Mutant of Expect: a missing token is not an error. *)
ExpectSilently(r, kind) == Optional(r, {kind})

(* collect_and_expect_token *)
Expect(r, kind) ==
    Then(ToNextToken(r), LAMBDA s :
        IF Peek(s) = kind THEN Collect(s) ELSE Fail(s, "ExpectingSingleToken"))

(* split_shr_op_token and split_rdbrackets_token.  The first half's text   *)
(* is cut before the second half's is taken from it, and the second half   *)
(* goes behind idx_current_token, wherever the token that is split is.     *)
Split(r, double, single) ==
    IF Ok(r) /\ Solid(r) # 0 /\ Peek(r) = double
    THEN LET p == Solid(r)
             first == [r.toks[p] EXCEPT !.id = single, !.width = 1]
             second == [id |-> single, from |-> first.from + 1, width |-> 0]
         IN [r EXCEPT !.toks = InsertAt([@ EXCEPT ![p] = first], r.at + 1, second)]
    ELSE r
SplitShr(r) == Split(r, ">>", ">")
SplitRDBrackets(r) == Split(r, "]]", "]")
=============================================================================
