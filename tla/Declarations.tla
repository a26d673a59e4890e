---------------------------- MODULE Declarations ----------------------------
(***************************************************************************)
(* The parser of programs (slkc/ast/parser/parser.cc, from                 *)
(* parse_generic_param on): functions, types, enumerations, imports, and   *)
(* the loops that go on after the error of a member or of a statement.     *)
(***************************************************************************)
EXTENDS Statements

-----------------------------------------------------------------------------
(* Parameters and bases *)

InheritanceSlot(sub, r) ==
    IF Peek(r) = "("
    THEN Adopt(r, Expect(sub.TypeName[Take(Begin(r, "InheritanceSlot"))], ")"))
    ELSE r

(* The list has the same kind of node as its items. *)
ImplItem(sub, r) == Adopt(r, sub.TypeName[Optional(Begin(r, "ImplItem"), {"trait"})])
ImplItems(sub, r) == Then(ImplItem(sub, r), LAMBDA i :
    IF Peek(i) = "+" THEN sub.ImplItems[Take(i)] ELSE i)
ImplList(sub, r) ==
    IF Peek(r) = ":" THEN Adopt(r, sub.ImplItems[Take(Begin(r, "ImplItem"))]) ELSE r

GenericParam(sub, r) ==
    LET named == Expect(Begin(r, "GenericParam"), "id")
    IN Adopt(r, ImplList(sub, InheritanceSlot(sub, named)))
GenericParamList(sub, r) == Then(GenericParam(sub, r), LAMBDA p :
    IF Peek(p) = "," THEN sub.GenericParamList[Take(p)] ELSE p)
GenericParams(sub, r) ==
    IF Peek(r) = "<" THEN Expect(sub.GenericParamList[Take(r)], ">") ELSE r

-----------------------------------------------------------------------------
(* Functions *)

Overloadable == (Binary \ {"=", "===", "!=="}) \cup {"~", "!", "new", "delete"}
OperatorName(r) ==
    LET name == Begin(r, "OperatorName")
    IN Adopt(r, CASE Peek(r) \in Overloadable -> Take(name)
                  [] Peek(r) = "(" -> Expect(Take(name), ")")
                  [] Peek(r) = "[" -> Expect(Take(name), "]")
                  [] OTHER -> Report(name, "UnexpectedToken"))

Param(sub, r) == IF Peek(r) = "..." THEN Take(r) ELSE VarBinding(sub, r)
ParamList(sub, r) == Then(Param(sub, r), LAMBDA p :
    IF Peek(p) = "," THEN sub.ParamList[Take(p)] ELSE p)
Params(sub, r) == Then(Expect(r, "("), LAMBDA s :
    Expect(IF Peek(s) = ")" THEN s
           ELSE Adopt(s, sub.ParamList[Begin(s, "VarBindings")]), ")"))

(* Mutant of FnBody: the end of the input is left to the statements. *)
FnBodyUpToBrace(sub, r) == Then(r, LAMBDA s :
    IF Peek(s) = "}" THEN s ELSE sub.FnBody[Turn(s, Noted(sub.Stmt[s]))])

FnBody(sub, r) == Then(r, LAMBDA s :
    IF Peek(s) = "}" THEN s
    ELSE IF Peek(s) = "end" THEN Fail(s, "ExpectingMoreTokens")
    ELSE sub.FnBody[Turn(s, Noted(sub.Stmt[s]))])

FnName(r) ==
    IF Peek(r) = "operator" THEN OperatorName(Take(r)) ELSE Expect(Take(r), "id")
Fn(sub, r) ==
    LET signature == Params(sub, GenericParams(sub, FnName(As(r, "FnDef"))))
        qualified == Optionals(signature, {"const"}, {"restrict"}, {"virtual"})
        overriding == After(qualified, "override", LAMBDA s :
                          After(s, "(", LAMBDA t : Expect(sub.TypeName[t], ")")))
    IN Then(After(overriding, "->", LAMBDA s : sub.TypeName[s]), LAMBDA s :
           CASE Peek(s) = "{" -> Expect(sub.FnBody[Take(s)], "}")
             [] Peek(s) = ";" -> As(Take(s), "FnDecl")
             [] OTHER -> Report(s, "UnexpectedToken"))

-----------------------------------------------------------------------------
(* Classes, interfaces, traits, exceptions and structs *)

DefinitionOf == [class |-> "ClassDef", except |-> "ClassDef", interface |-> "InterfaceDef",
                 trait |-> "TraitDef", struct |-> "StructDef"]

(* What is not the closing brace is a member. *)
Members(sub, r) == Then(r, LAMBDA s :
    IF Peek(s) = "}" THEN s ELSE sub.Members[Turn(s, Noted(sub.ProgramStmt[s]))])

Definition(sub, r, keyword) ==
    LET named == Expect(Take(As(r, DefinitionOf[keyword])), "id")
        slot(s) == IF keyword \in {"class", "except"} THEN InheritanceSlot(sub, s) ELSE s
        impls(s) == IF keyword = "except" THEN s ELSE ImplList(sub, s)
    IN Expect(sub.Members[Expect(impls(slot(GenericParams(sub, named))), "{")], "}")

-----------------------------------------------------------------------------
(* Enumerations; a comma may follow the last item *)

EnumParts == {"EnumItem", "UnionCase"}
EnumItem(sub, r) ==
    Adopt(r, After(Expect(Begin(r, "ConstAndScopedEnumItem"), "id"), "=",
                   LAMBDA s : sub.Expr[0][s]))
UnionCase(sub, r) ==
    LET named == Expect(Expect(Begin(r, "UnionEnumCase"), "case"), "id")
    IN Adopt(r, Expect(VarBindings(sub, Expect(named, "(")), ")"))
EnumItems(sub, r, item) == Then(r, LAMBDA s :
    IF Peek(s) = "}" THEN s
    ELSE Then(IF item = "EnumItem" THEN EnumItem(sub, s) ELSE UnionCase(sub, s), LAMBDA i :
             IF Peek(i) = "," THEN sub.EnumItems[item][Take(i)] ELSE i))

(* A union is given the kind of a scoped enumeration. *)
EnumDef(sub, r, item) ==
    LET head == InheritanceSlot(sub, GenericParams(sub, Expect(r, "id")))
    IN Expect(sub.EnumItems[item][Expect(head, "{")], "}")
Enum(sub, r) ==
    CASE Peek(r) = "const" -> EnumDef(sub, Take(As(r, "ConstEnumDef")), "EnumItem")
      [] Peek(r) = "id" -> EnumDef(sub, As(r, "ScopedEnumDef"), "EnumItem")
      [] Peek(r) = "union" -> EnumDef(sub, Take(As(r, "ScopedEnumDef")), "UnionCase")
      [] OTHER -> Fail(r, "UnexpectedToken")

-----------------------------------------------------------------------------
(* Members of modules and of types *)

Access == {"public", "private", "protected"}

Member(sub, r, first) ==
    CASE first \in {"fn", "async", "operator"} -> Fn(sub, r)
      [] first \in DOMAIN DefinitionOf -> Definition(sub, r, first)
      [] first \in {"var", "let"} -> Expect(VarBindings(sub, Take(As(r, "Var"))), ";")
      [] first = "enum" -> Then(Take(As(r, "UnknownEnumDecl")), LAMBDA e : Enum(sub, e))
      [] first = "import" -> Expect(IdRef(sub, Take(r), FALSE), ";")
      [] OTHER -> Fail(Take(r), "UnexpectedToken")

ProgramStmt(sub, r) ==
    Adopt(r, Then(Optionals(Begin(r, "Unset"), Access, {"native"}, {"static"}),
                  LAMBDA m : Member(sub, m, Peek(m))))

(* parse_program: an error in the module's name is noted, except that its  *)
(* semicolon, a token of the name's node, is missing.                      *)
ModuleName(sub, r) ==
    Adopt(r, Expect(Noted(IdRefHead(sub, Begin(r, "IdRef"), FALSE)), ";"))

(* Mutant of ProgramStmts: the first error of a member ends the program. *)
ProgramStmtsUpToError(sub, r) == Then(r, LAMBDA s :
    IF Peek(s) = "end" THEN s ELSE sub.ProgramStmts[Turn(s, sub.ProgramStmt[s])])

ProgramStmts(sub, r) == Then(r, LAMBDA s :
    IF Peek(s) = "end" THEN s ELSE sub.ProgramStmts[Turn(s, Noted(sub.ProgramStmt[s]))])
Program(sub, r) ==
    ToNextToken(sub.ProgramStmts[After(r, "module", LAMBDA s : ModuleName(sub, s))])

-----------------------------------------------------------------------------

(* The functions and loops, over those that they call. *)
ProgramFunctions(sub) ==
    LET e == ExprFunctions(sub)
    IN [Expr |-> e.Expr, InfixPart |-> e.InfixPart, ArgList |-> e.ArgList,
        SubscriptList |-> e.SubscriptList, GenericArgs |-> e.GenericArgs,
        IdRefEntries |-> e.IdRefEntries, TypeSuffix |-> e.TypeSuffix,
        TypeName |-> e.TypeName, MatchCases |-> e.MatchCases,
        PartList |-> [p \in ListParts |-> [r \in Parser |-> PartList(sub, r, p)]],
        Block |-> [r \in Parser |-> Block(sub, r)],
        SwitchCases |-> [r \in Parser |-> SwitchCases(sub, r)],
        ForSteps |-> [r \in Parser |-> ForSteps(sub, r)],
        Stmt |-> [r \in Parser |-> Stmt(sub, r)],
        ImplItems |-> [r \in Parser |-> ImplItems(sub, r)],
        GenericParamList |-> [r \in Parser |-> GenericParamList(sub, r)],
        ParamList |-> [r \in Parser |-> ParamList(sub, r)],
        FnBody |-> [r \in Parser |-> FnBody(sub, r)],
        Members |-> [r \in Parser |-> Members(sub, r)],
        EnumItems |-> [i \in EnumParts |-> [r \in Parser |-> EnumItems(sub, r, i)]],
        ProgramStmt |-> [r \in Parser |-> ProgramStmt(sub, r)],
        ProgramStmts |-> [r \in Parser |-> ProgramStmts(sub, r)]]

(* Calls beyond the bound on their depth do not come back. *)
NoProgramFunctions ==
    LET e == NoExprFunctions
    IN [Expr |-> e.Expr, InfixPart |-> e.InfixPart, ArgList |-> e.ArgList,
        SubscriptList |-> e.SubscriptList, GenericArgs |-> e.GenericArgs,
        IdRefEntries |-> e.IdRefEntries, TypeSuffix |-> e.TypeSuffix,
        TypeName |-> e.TypeName, MatchCases |-> e.MatchCases,
        PartList |-> [p \in ListParts |-> NoReturn], Block |-> NoReturn,
        SwitchCases |-> NoReturn, ForSteps |-> NoReturn, Stmt |-> NoReturn,
        ImplItems |-> NoReturn, GenericParamList |-> NoReturn, ParamList |-> NoReturn,
        FnBody |-> NoReturn, Members |-> NoReturn, EnumItems |-> [i \in EnumParts |-> NoReturn],
        ProgramStmt |-> NoReturn, ProgramStmts |-> NoReturn]

(* The functions with calls up to a depth. *)
ProgramCalls[depth \in Nat] ==
    IF depth = 0 THEN NoProgramFunctions ELSE ProgramFunctions(ProgramCalls[depth - 1])

(* Parser::parse *)
Parse(kinds) == Program(ProgramCalls[MaxDepth(kinds)], Unparsed(kinds, "Module"))
=============================================================================
