---------------------------- MODULE Expressions ----------------------------
(***************************************************************************)
(* parse_expr (slkc/ast/parser/expr.cc) and the functions it calls for     *)
(* arguments, type names and identifier references (parser.cc).  Each is   *)
(* translated whole, one operator for each, with the error paths of its    *)
(* C++ text; that they are coroutines does not matter here (Coroutines).   *)
(*                                                                         *)
(* The functions call each other, and a turn of a loop is a call as well:  *)
(* sub holds the functions that are called, one call deeper, by their      *)
(* names.                                                                  *)
(***************************************************************************)
EXTENDS TokenCursor

(* Operators and their levels.  An infix operator is taken when the level  *)
(* asked for is not above its own.                                         *)

Product == {"*", "/", "%"}
Sum == {"+", "-"}
Shift == {"<<", ">>"}
Relation == {">", ">=", "<", "<="}
Equality == {"==", "!=", "===", "!=="}
Assignment == {"=", "+=", "-=", "*=", "/=", "%=", "&=", "|=", "^=", "<<=", ">>="}
Binary == Product \cup Sum \cup Shift \cup {"<=>"} \cup Relation \cup Equality
          \cup {"&", "^", "|", "&&", "||"} \cup Assignment
Infixes == Binary \cup {"(", "[", ".", "as", "?"}

Level(op) ==
    CASE op \in {"(", "[", "."} -> 140
      [] op = "as" -> 130
      [] op \in Product -> 120
      [] op \in Sum -> 110
      [] op \in Shift -> 100
      [] op = "<=>" -> 90
      [] op \in Relation -> 80
      [] op \in Equality -> 70
      [] op = "&" -> 60
      [] op = "^" -> 50
      [] op = "|" -> 40
      [] op = "&&" -> 30
      [] op = "||" -> 20
      [] op = "?" -> 10
      [] op \in Assignment -> 1

(* Mutants of OperandLevel: all binary operators associate to the right;   *)
(* the assignments associate to the left.                                  *)
OperandLevelOwn(op) == IF op \in Assignment THEN 0 ELSE Level(op)
OperandLevelAbove(op) == Level(op) + 1

(* The level asked for the right operand. *)
OperandLevel(op) == IF op \in Assignment THEN 0 ELSE Level(op) + 1

(* The expression kind, or the binary operator, given to the node. *)
Operation(op) ==
    CASE op = "(" -> "Call"
      [] op = "[" -> "Subscript"
      [] op = "." -> "HeadedIdRef"
      [] op = "as" -> "Cast"
      [] op = "?" -> "Ternary"
      [] op \in {"+", "<<", ">>"} -> "*"
      [] op = "===" -> "=="
      [] op = "!==" -> "!="
      [] OTHER -> op

Unary == {"...", "-", "+", "~", "!"}
Builtin == {"i32", "void", "object"}
Literals == {"literal", "true", "false", "null"}

-----------------------------------------------------------------------------

(* Mutant of Separated: the missing separator is not reported. *)
SeparatedSilently(r) == Take(r)

(* Mutant of Separated: what is no separator is reported and left there.  *)
SeparatedInPlace(r) == IF Peek(r) = "," THEN Take(r) ELSE Report(r, "ExpectingSingleToken")

(* Whatever stands between two arguments is taken as the separator. *)
Separated(r) == Take(IF Peek(r) = "," THEN r ELSE Report(r, "ExpectingSingleToken"))

(* parse_args and parse_subscript_args fill a node of their own. *)
Terminals == {")", "}"}
ArgList(sub, r, terminal) == Then(sub.Expr[0][r], LAMBDA e :
    IF Peek(e) = terminal THEN e ELSE sub.ArgList[terminal][Separated(e)])
Args(sub, r, terminal) ==
    LET a == Begin(r, "Args")
    IN Adopt(r, IF Peek(a) = terminal THEN a ELSE sub.ArgList[terminal][a])

SubscriptList(sub, r) == Then(SplitRDBrackets(sub.Expr[0][r]), LAMBDA e :
    IF Peek(e) = "]" THEN e ELSE sub.SubscriptList[Separated(e)])
SubscriptArgs(sub, r) == Adopt(r, sub.SubscriptList[SplitRDBrackets(Begin(r, "Args"))])

(* parse_id_ref_entry; after a name in an expression, type arguments are   *)
(* introduced by "::".                                                     *)
GenericArgs(sub, r) == Then(Adopt(r, sub.TypeName[Begin(r, "Unset")]), LAMBDA t :
    IF Peek(t) = "," THEN sub.GenericArgs[Take(t)] ELSE t)
OpenGenericArgs(r) == IF Peek(r) = "::" THEN Expect(Take(r), "<") ELSE Take(r)
IdRefEntry(sub, r, distinguished) == Then(Expect(r, "id"), LAMBDA n :
    IF Peek(n) = "::" \/ (Peek(n) = "<" /\ ~ distinguished)
    THEN Expect(SplitShr(sub.GenericArgs[OpenGenericArgs(n)]), ">")
    ELSE n)

(* parse_id_ref *)
IdRefEntries(sub, r, distinguished) ==
    Then(Adopt(r, IdRefEntry(sub, Begin(r, "IdRefEntry"), distinguished)), LAMBDA e :
        IF Peek(e) = "." THEN sub.IdRefEntries[distinguished][Take(e)] ELSE e)
IdRefHead(sub, r, distinguished) ==
    LET self == Peek(r) \in {"this", "super"}
    IN Then(IF self \/ Peek(r) = "::" THEN Take(r) ELSE r, LAMBDA h :
           IF self /\ Peek(h) # "." THEN h
           ELSE sub.IdRefEntries[distinguished][IF self THEN Take(h) ELSE h])
IdRef(sub, r, distinguished) == Adopt(r, IdRefHead(sub, Begin(r, "IdRef"), distinguished))

(* parse_type_name *)
TypeBase(sub, r) ==
    CASE Peek(r) \in Builtin -> Take(r)
      [] Peek(r) = "id" -> IdRef(sub, As(r, "CustomTypeName"), FALSE)
      [] OTHER -> Fail(r, "UnexpectedToken")
TypeModifiers(r) ==
    Optional(Optional(Optionals(r, {"const", "mut"}, {"final"}, {"local"}),
                      {"restrict", "multi", "synchronized"}), {"?", "!"})
TypeSuffix(sub, r) == Then(TypeModifiers(r), LAMBDA m :
    IF Peek(m) = "[" THEN sub.TypeSuffix[Expect(Take(Wrap(m, "ArrayTypeName")), "]")] ELSE m)
TypeName(sub, r) ==
    LET named == Optional(TypeBase(sub, Begin(r, "TypeName")), {"object"})
    IN Adopt(r, Optionals(sub.TypeSuffix[named], {"ref"}, {"readonly"}, {"local"}))

(* The match expression, which notes most of its errors and goes on. *)
Label(sub, r) == IF Peek(r) = "default" THEN Expect(r, "default") ELSE sub.Expr[0][r]
MatchCase(sub, r) ==
    LET colon == Try(Try(r, LAMBDA s : Label(sub, s)), LAMBDA s : Expect(s, ":"))
    IN Try(colon, LAMBDA s : sub.Expr[0][s])
MatchCases(sub, r) == Then(r, LAMBDA s :
    Then(Adopt(s, MatchCase(sub, Begin(s, "MatchCase"))), LAMBDA c :
        IF Peek(c) = "}" THEN c ELSE sub.MatchCases[Separated(c)]))
MatchType(sub, r) == IF Peek(r) = "->" THEN sub.TypeName[Take(r)] ELSE r
Match(sub, r) ==
    LET open == Try(Take(As(r, "Match")), LAMBDA s : Expect(s, "("))
        value == Try(open, LAMBDA s : sub.Expr[0][s])
        close == Try(value, LAMBDA s : Expect(s, ")"))
        cases == sub.MatchCases[Try(MatchType(sub, close), LAMBDA s : Expect(s, "{"))]
    IN Try(cases, LAMBDA s : Expect(s, "}"))

(* Mutant of NoExpr: the token is left where it is. *)
NoExprWithoutTaking(r) == Fail(r, "ExpectingExpr")

NoExpr(r) == Fail(Take(r), "ExpectingExpr")

(* Expressions that leave the place where they are. *)
Jump(sub, r, t) == Then(Take(As(r, t)), LAMBDA j :
    CASE t = "continue" /\ Peek(j) = "(" -> Expect(Args(sub, Take(j), ")"), ")")
      [] t = "yield" \/ (t = "return" /\ Peek(j) # ";") -> sub.Expr[0][j]
      [] OTHER -> j)

(* The first part of parse_expr: what an expression begins with. *)
Prefix(sub, r) ==
    LET t == Peek(r)
        taken(kind) == Take(As(r, kind))
    IN CASE t \in {"this", "::", "id"} -> IdRef(sub, As(r, "IdRefExpr"), TRUE)
         [] t = "(" -> Expect(sub.Expr[-10][taken("Group")], ")")
         [] t = "new" ->
              Expect(Args(sub, Expect(sub.TypeName[taken("New")], "("), ")"), ")")
         [] t \in Literals -> taken("Literal")
         [] t = "{" -> Expect(Args(sub, taken("InitializerList"), "}"), "}")
         [] t \in Unary -> taken("Unary")
         [] t = "match" -> Match(sub, r)
         [] t \in {"break", "continue", "return", "yield"} -> Jump(sub, r, t)
         [] OTHER -> NoExpr(r)

(* What follows an infix operator. *)
Operand(sub, r, op) ==
    CASE op = "(" -> Expect(Args(sub, r, ")"), ")")
      [] op = "[" -> Expect(SubscriptArgs(sub, r), "]")
      [] op = "." -> IdRef(sub, r, TRUE)
      [] op = "as" -> sub.TypeName[r]
      [] op = "?" -> sub.Expr[10][Expect(sub.Expr[10][r], ":")]
      [] OTHER -> sub.Expr[OperandLevel(op)][r]

(* The second part of parse_expr: the expression so far becomes the first  *)
(* child of the next operator's.                                           *)
InfixPart(sub, r, precedence) ==
    LET op == Peek(r)
    IN IF Ok(r) /\ op \in Infixes /\ precedence <= Level(op)
       THEN sub.InfixPart[precedence][Operand(sub, Take(Wrap(r, Operation(op))), op)]
       ELSE r

Expr(sub, r, precedence) == Then(r, LAMBDA s :
    Adopt(s, sub.InfixPart[precedence][Prefix(sub, Begin(s, "Invalid"))]))

-----------------------------------------------------------------------------

(* The functions and loops, over those that they call. *)
ExprFunctions(sub) ==
    [Expr |-> [p \in Int |-> [r \in Parser |-> Expr(sub, r, p)]],
     InfixPart |-> [p \in Int |-> [r \in Parser |-> InfixPart(sub, r, p)]],
     ArgList |-> [t \in Terminals |-> [r \in Parser |-> ArgList(sub, r, t)]],
     SubscriptList |-> [r \in Parser |-> SubscriptList(sub, r)],
     GenericArgs |-> [r \in Parser |-> GenericArgs(sub, r)],
     IdRefEntries |-> [d \in BOOLEAN |-> [r \in Parser |-> IdRefEntries(sub, r, d)]],
     TypeSuffix |-> [r \in Parser |-> TypeSuffix(sub, r)],
     TypeName |-> [r \in Parser |-> TypeName(sub, r)],
     MatchCases |-> [r \in Parser |-> MatchCases(sub, r)]]

(* Calls beyond the bound on their depth do not come back. *)
NoReturn == [r \in Parser |-> Fail(r, "endless")]
NoExprFunctions ==
    [Expr |-> [p \in Int |-> NoReturn], InfixPart |-> [p \in Int |-> NoReturn],
     ArgList |-> [t \in Terminals |-> NoReturn], SubscriptList |-> NoReturn,
     GenericArgs |-> NoReturn, IdRefEntries |-> [d \in BOOLEAN |-> NoReturn],
     TypeSuffix |-> NoReturn, TypeName |-> NoReturn, MatchCases |-> NoReturn]

(* The functions with calls up to a depth. *)
ExprCalls[depth \in Nat] ==
    IF depth = 0 THEN NoExprFunctions ELSE ExprFunctions(ExprCalls[depth - 1])
=============================================================================
