----------------------------- MODULE Statements -----------------------------
(***************************************************************************)
(* parse_stmt and the variable bindings (slkc/ast/parser/stmt.cc).  No     *)
(* caller asks for mutable bindings (allow_mutability).                    *)
(***************************************************************************)
EXTENDS Expressions

VarBinding(sub, r) ==
    LET typed == After(Expect(Begin(r, "VarBinding"), "id"), ":", LAMBDA s : sub.TypeName[s])
    IN Adopt(r, After(typed, "=", LAMBDA s : sub.Expr[0][s]))

(* One or more expressions or bindings, with commas between them. *)
ListParts == {"Expr", "VarBinding"}
Part(sub, part, r) == IF part = "Expr" THEN sub.Expr[0][r] ELSE VarBinding(sub, r)
PartList(sub, r, part) == Then(Part(sub, part, r), LAMBDA p :
    IF Peek(p) = "," THEN sub.PartList[part][Take(p)] ELSE p)
VarBindings(sub, r) == Adopt(r, sub.PartList["VarBinding"][Begin(r, "VarBindings")])

(* Mutant of Condition: the closing parenthesis may be missing. *)
ConditionUnclosed(sub, r) == Optional(sub.Expr[0][Expect(r, "(")], {")"})

Condition(sub, r) == Expect(sub.Expr[0][Expect(r, "(")], ")")

Block(sub, r) == Then(r, LAMBDA s : IF Peek(s) = "}" THEN s ELSE sub.Block[sub.Stmt[s]])

(* A case that is neither "case" nor "default" is reported and ends the    *)
(* loop; its node stays, without a child.                                  *)
CaseLabel(sub, r) == IF Peek(r) = "case" THEN Condition(sub, Take(r)) ELSE Take(r)
SwitchCases(sub, r) == Then(r, LAMBDA s :
    IF Peek(s) \notin {"case", "default"}
    THEN Report(Adopt(s, Begin(s, "SwitchCase")), "UnexpectedToken")
    ELSE Then(Adopt(s, sub.Stmt[CaseLabel(sub, Begin(s, "SwitchCase"))]), LAMBDA c :
             IF Peek(c) = "}" THEN c ELSE sub.SwitchCases[c]))

(* The for statement notes every error and goes on with its next part. *)
TryExpr(sub, r) == Try(r, LAMBDA s : sub.Expr[0][s])
TryToken(r, kind) == Try(r, LAMBDA s : Expect(s, kind))
ForSteps(sub, r) == Then(TryExpr(sub, r), LAMBDA e :
    IF Peek(e) = "," THEN sub.ForSteps[Try(e, Take)] ELSE e)
For(sub, r) ==
    LET open == TryToken(Try(r, Take), "(")
        bindings == TryToken(Try(open, LAMBDA s : VarBindings(sub, s)), ";")
        condition == TryToken(TryExpr(sub, bindings), ";")
        steps == Then(condition, LAMBDA s : IF Peek(s) = ")" THEN s ELSE sub.ForSteps[s])
    IN Try(TryToken(steps, ")"), LAMBDA s : sub.Stmt[s])

(* A statement that starts with a keyword, which has been collected. *)
KeywordStmt(sub, r, keyword) ==
    CASE keyword \in {"if", "while"} -> sub.Stmt[Condition(sub, r)]
      [] keyword = "do" -> Expect(Condition(sub, sub.Stmt[r]), ";")
      [] keyword \in {"let", "var"} -> Expect(VarBindings(sub, r), ";")
      [] keyword = "switch" ->
           Expect(sub.SwitchCases[Expect(Condition(sub, r), "{")], "}")
      [] keyword = "{" -> Expect(sub.Block[r], "}")

StmtBody(sub, r, first) ==
    CASE first \in {"if", "while", "do", "let", "var", "switch", "{"} ->
           KeywordStmt(sub, Take(As(r, first)), first)
      [] first = "for" -> For(sub, As(r, first))
      [] OTHER -> Expect(sub.PartList["Expr"][As(r, "ExprStmt")], ";")
Stmt(sub, r) == Adopt(r, StmtBody(sub, Begin(r, "Stmt"), Peek(r)))
=============================================================================
