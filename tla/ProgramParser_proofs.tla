------------------------ MODULE ProgramParser_proofs ------------------------
(***************************************************************************)
(* Theorems about Parser::parse on every source of every language, and     *)
(* that the functions of Statements and Declarations keep what those of    *)
(* Expressions keep (Follows).                                             *)
(***************************************************************************)
EXTENDS ProgramParser, Expressions_proofs

(* The functions that are called. *)
KeepsProgram(sub) ==
    /\ KeepsExprs(sub)
    /\ sub.PartList \in [ListParts -> Keeping]
    /\ sub.Block \in Keeping
    /\ sub.SwitchCases \in Keeping
    /\ sub.ForSteps \in Keeping
    /\ sub.Stmt \in Keeping
    /\ sub.ImplItems \in Keeping
    /\ sub.GenericParamList \in Keeping
    /\ sub.ParamList \in Keeping
    /\ sub.FnBody \in Keeping
    /\ sub.Members \in Keeping
    /\ sub.EnumItems \in [EnumParts -> Keeping]
    /\ sub.ProgramStmt \in Keeping
    /\ sub.ProgramStmts \in Keeping

LEMMA ExprsFollow ==
    ASSUME NEW sub, KeepsProgram(sub), NEW r, NEW q, Follows(r, q)
    PROVE  KeepsExprs(sub) /\ Follows(r, sub.Expr[0][q]) /\ Follows(r, sub.TypeName[q])
  <1>1. KeepsExprs(sub)
    BY DEF KeepsProgram
  <1>2. 0 \in Int
    OBVIOUS
  <1> QED BY <1>1, <1>2, ExprFollows, ListsFollow

LEMMA StmtsFollow ==
    ASSUME NEW sub, KeepsProgram(sub), NEW r, NEW q, Follows(r, q)
    PROVE  /\ \A part \in ListParts : Follows(r, sub.PartList[part][q])
           /\ Follows(r, sub.Block[q])
           /\ Follows(r, sub.SwitchCases[q])
           /\ Follows(r, sub.ForSteps[q])
           /\ Follows(r, sub.Stmt[q])
  BY CallFollows DEF KeepsProgram

LEMMA DeclarationsFollow ==
    ASSUME NEW sub, KeepsProgram(sub), NEW r, NEW q, Follows(r, q)
    PROVE  /\ Follows(r, sub.ImplItems[q])
           /\ Follows(r, sub.GenericParamList[q])
           /\ Follows(r, sub.ParamList[q])
           /\ Follows(r, sub.FnBody[q])
           /\ Follows(r, sub.Members[q])
           /\ \A item \in EnumParts : Follows(r, sub.EnumItems[item][q])
           /\ Follows(r, sub.ProgramStmt[q])
           /\ Follows(r, sub.ProgramStmts[q])
  BY CallFollows DEF KeepsProgram

-----------------------------------------------------------------------------
(* Statements *)

LEMMA VarBindingFollows ==
    ASSUME NEW sub, KeepsProgram(sub), NEW r, NEW q, Follows(r, q)
    PROVE  Follows(r, VarBinding(sub, q))
  <1> DEFINE b == Begin(q, "VarBinding")
             named == Expect(b, "id")
             typed == After(named, ":", LAMBDA s : sub.TypeName[s])
             full == After(typed, "=", LAMBDA s : sub.Expr[0][s])
  <1>1. "VarBinding" \in NodeKinds
    BY DEF NodeKinds
  <1>2. Follows(b, named)
    BY <1>1, BeginFollows, ExpectFollows
  <1> HIDE DEF named
  <1>3. Follows(b, typed)
    BY <1>2, TakeFollows, ExprsFollow DEF After
  <1> HIDE DEF typed
  <1>4. Follows(b, full)
    BY <1>3, TakeFollows, ExprsFollow DEF After
  <1>5. Follows(r, Adopt(q, full))
    BY <1>1, <1>4, AdoptFollows
  <1> QED BY <1>5 DEF VarBinding, typed, named

LEMMA PartListFollows ==
    ASSUME NEW sub, KeepsProgram(sub), NEW r, NEW q, Follows(r, q), NEW part \in ListParts
    PROVE  Follows(r, PartList(sub, q, part))
  <1> DEFINE p == Part(sub, part, q)
  <1>1. Follows(r, p)
    BY ExprsFollow, VarBindingFollows DEF Part
  <1> HIDE DEF p
  <1>2. Follows(r, sub.PartList[part][Take(p)])
    BY <1>1, TakeFollows, StmtsFollow
  <1> QED BY <1>1, <1>2 DEF PartList, Then, p

LEMMA VarBindingsFollows ==
    ASSUME NEW sub, KeepsProgram(sub), NEW r, NEW q, Follows(r, q)
    PROVE  Follows(r, VarBindings(sub, q))
  <1> DEFINE b == Begin(q, "VarBindings")
  <1>1. "VarBindings" \in NodeKinds /\ "VarBinding" \in ListParts
    BY DEF NodeKinds, ListParts
  <1>2. Follows(b, sub.PartList["VarBinding"][b])
    BY <1>1, BeginFollows, StmtsFollow
  <1> QED BY <1>1, <1>2, AdoptFollows DEF VarBindings

LEMMA ConditionFollows ==
    ASSUME NEW sub, KeepsProgram(sub), NEW r, NEW q, Follows(r, q)
    PROVE  Follows(r, Condition(sub, q))
  BY ExpectFollows, ExprsFollow DEF Condition

LEMMA BlockFollows ==
    ASSUME NEW sub, KeepsProgram(sub), NEW r, NEW q, Follows(r, q)
    PROVE  Follows(r, Block(sub, q))
  <1>1. Follows(r, sub.Block[sub.Stmt[q]])
    BY StmtsFollow
  <1> QED BY <1>1 DEF Block, Then

LEMMA SwitchCasesFollows ==
    ASSUME NEW sub, KeepsProgram(sub), NEW r, NEW q, Follows(r, q)
    PROVE  Follows(r, SwitchCases(sub, q))
  <1> DEFINE b == Begin(q, "SwitchCase")
             c == Adopt(q, sub.Stmt[CaseLabel(sub, b)])
             none == Report(Adopt(q, b), "UnexpectedToken")
  <1>1. "SwitchCase" \in NodeKinds /\ "UnexpectedToken" \in Errors
    BY DEF NodeKinds, Errors
  <1>2. Follows(b, b)
    BY <1>1, BeginFollows
  <1>3. Follows(b, CaseLabel(sub, b))
    BY <1>2, TakeFollows, ConditionFollows DEF CaseLabel
  <1>4. Follows(b, sub.Stmt[CaseLabel(sub, b)])
    BY <1>3, StmtsFollow
  <1>5. Follows(r, c)
    BY <1>1, <1>4, AdoptFollows
  <1>6. Follows(r, none)
    BY <1>1, <1>2, AdoptFollows, ReportFollows
  <1> HIDE DEF c, none
  <1>7. Follows(r, sub.SwitchCases[c])
    BY <1>5, StmtsFollow
  <1> QED BY <1>5, <1>6, <1>7 DEF SwitchCases, Then, c, none

LEMMA TriesFollow ==
    ASSUME NEW sub, KeepsProgram(sub), NEW r, NEW q, Follows(r, q), NEW kind
    PROVE  /\ Follows(r, TryExpr(sub, q))
           /\ Follows(r, TryToken(q, kind))
           /\ Follows(r, Try(q, Take))
  <1>1. Follows(r, TryExpr(sub, q))
    BY ExprsFollow, NotedFollows DEF TryExpr, Try
  <1>2. Follows(r, TryToken(q, kind))
    BY ExpectFollows, NotedFollows DEF TryToken, Try
  <1>3. Follows(r, Try(q, Take))
    BY TakeFollows, NotedFollows DEF Try
  <1> QED BY <1>1, <1>2, <1>3

LEMMA ForStepsFollows ==
    ASSUME NEW sub, KeepsProgram(sub), NEW r, NEW q, Follows(r, q)
    PROVE  Follows(r, ForSteps(sub, q))
  <1> DEFINE e == TryExpr(sub, q)
             t == Try(e, Take)
  <1>1. Follows(r, e)
    BY TriesFollow
  <1> HIDE DEF e
  <1>2. Follows(r, t)
    BY <1>1, TriesFollow
  <1> HIDE DEF t
  <1>3. Follows(r, sub.ForSteps[t])
    BY <1>2, StmtsFollow
  <1> QED BY <1>1, <1>3 DEF ForSteps, Then, e, t

(* For, from where it has taken its keyword. *)
LEMMA ForGoesOn ==
    ASSUME NEW sub, KeepsProgram(sub), NEW r, NEW q, Follows(r, Try(q, Take))
    PROVE  Follows(r, For(sub, q))
  <1> DEFINE keyword == Try(q, Take)
             open == TryToken(keyword, "(")
             bound == Try(open, LAMBDA s : VarBindings(sub, s))
             bindings == TryToken(bound, ";")
             expr == TryExpr(sub, bindings)
             condition == TryToken(expr, ";")
             steps == Then(condition, LAMBDA s : IF Peek(s) = ")" THEN s ELSE sub.ForSteps[s])
             close == TryToken(steps, ")")
  <1>1. Follows(r, keyword)
    OBVIOUS
  <1> HIDE DEF keyword
  <1>2. Follows(r, open)
    BY <1>1, TriesFollow
  <1> HIDE DEF open
  <1>3. Follows(r, bound)
    BY <1>2, VarBindingsFollows, NotedFollows DEF Try
  <1> HIDE DEF bound
  <1>4. Follows(r, bindings)
    BY <1>3, TriesFollow
  <1> HIDE DEF bindings
  <1>5. Follows(r, expr)
    BY <1>4, TriesFollow
  <1> HIDE DEF expr
  <1>6. Follows(r, condition)
    BY <1>5, TriesFollow
  <1> HIDE DEF condition
  <1>7. Follows(r, steps)
    BY <1>6, StmtsFollow DEF Then
  <1> HIDE DEF steps
  <1>8. Follows(r, close)
    BY <1>7, TriesFollow
  <1> HIDE DEF close
  <1>9. Follows(r, Try(close, LAMBDA s : sub.Stmt[s]))
    BY <1>8, StmtsFollow, NotedFollows DEF Try
  <1> QED BY <1>9 DEF For, close, steps, condition, expr, bindings, bound, open, keyword

LEMMA ForFollows ==
    ASSUME NEW sub, KeepsProgram(sub), NEW r, NEW q, Follows(r, q)
    PROVE  Follows(r, For(sub, q))
  BY TriesFollow, ForGoesOn

LEMMA KeywordStmtFollows ==
    ASSUME NEW sub, KeepsProgram(sub), NEW r, NEW q, Follows(r, q),
           NEW keyword \in {"if", "while", "do", "let", "var", "switch", "{"}
    PROVE  Follows(r, KeywordStmt(sub, q, keyword))
  <1>1. Follows(r, sub.Stmt[Condition(sub, q)])
    BY ConditionFollows, StmtsFollow
  <1>2. Follows(r, Expect(Condition(sub, sub.Stmt[q]), ";"))
    BY StmtsFollow, ConditionFollows, ExpectFollows
  <1>3. Follows(r, Expect(VarBindings(sub, q), ";"))
    BY VarBindingsFollows, ExpectFollows
  <1>4. Follows(r, Expect(sub.SwitchCases[Expect(Condition(sub, q), "{")], "}"))
    BY ConditionFollows, ExpectFollows, StmtsFollow
  <1>5. Follows(r, Expect(sub.Block[q], "}"))
    BY StmtsFollow, ExpectFollows
  <1> QED BY <1>1, <1>2, <1>3, <1>4, <1>5 DEF KeywordStmt

LEMMA StmtFollows ==
    ASSUME NEW sub, KeepsProgram(sub), NEW r, NEW q, Follows(r, q)
    PROVE  Follows(r, Stmt(sub, q))
  <1> DEFINE b == Begin(q, "Stmt")
             first == Peek(q)
             body == StmtBody(sub, b, first)
  <1>1. "Stmt" \in NodeKinds /\ "ExprStmt" \in NodeKinds /\ "Expr" \in ListParts
        /\ \A k \in {"if", "while", "do", "let", "var", "switch", "{", "for"} : k \in NodeKinds
    BY DEF NodeKinds, ListParts
  <1>2. Follows(b, b)
    BY <1>1, BeginFollows
  <1> HIDE DEF b, first
  <1>3. ASSUME NEW k \in {"if", "while", "do", "let", "var", "switch", "{"}
        PROVE  Follows(b, KeywordStmt(sub, Take(As(b, k)), k))
    BY <1>1, <1>2, AsFollows, TakeFollows, KeywordStmtFollows
  <1>4. first = "for" => Follows(b, For(sub, As(b, first)))
    BY <1>1, <1>2, AsFollows, ForFollows
  <1>5. Follows(b, Expect(sub.PartList["Expr"][As(b, "ExprStmt")], ";"))
    BY <1>1, <1>2, AsFollows, StmtsFollow, ExpectFollows
  <1>6. Follows(b, body)
    BY <1>3, <1>4, <1>5 DEF StmtBody
  <1> HIDE DEF body
  <1>7. Follows(r, Adopt(q, body))
    BY <1>1, <1>6, AdoptFollows DEF b
  <1> QED BY <1>7 DEF Stmt, body, b, first

-----------------------------------------------------------------------------
(* Parameters and bases *)

LEMMA InheritanceSlotFollows ==
    ASSUME NEW sub, KeepsProgram(sub), NEW r, NEW q, Follows(r, q)
    PROVE  Follows(r, InheritanceSlot(sub, q))
  <1> DEFINE b == Begin(q, "InheritanceSlot")
  <1>1. "InheritanceSlot" \in NodeKinds
    BY DEF NodeKinds
  <1>2. Follows(b, Expect(sub.TypeName[Take(b)], ")"))
    BY <1>1, BeginFollows, TakeFollows, ExprsFollow, ExpectFollows
  <1> QED BY <1>1, <1>2, AdoptFollows DEF InheritanceSlot

LEMMA ImplItemsFollows ==
    ASSUME NEW sub, KeepsProgram(sub), NEW r, NEW q, Follows(r, q)
    PROVE  Follows(r, ImplItems(sub, q))
  <1> DEFINE b == Begin(q, "ImplItem")
             i == ImplItem(sub, q)
  <1>1. "ImplItem" \in NodeKinds
    BY DEF NodeKinds
  <1>2. Follows(b, sub.TypeName[Optional(b, {"trait"})])
    BY <1>1, BeginFollows, OptionalFollows, ExprsFollow
  <1>3. Follows(r, i)
    BY <1>1, <1>2, AdoptFollows DEF ImplItem
  <1> HIDE DEF i
  <1>4. Follows(r, sub.ImplItems[Take(i)])
    BY <1>3, TakeFollows, DeclarationsFollow
  <1> QED BY <1>3, <1>4 DEF ImplItems, Then, i

LEMMA ImplListFollows ==
    ASSUME NEW sub, KeepsProgram(sub), NEW r, NEW q, Follows(r, q)
    PROVE  Follows(r, ImplList(sub, q))
  <1> DEFINE b == Begin(q, "ImplItem")
  <1>1. "ImplItem" \in NodeKinds
    BY DEF NodeKinds
  <1>2. Follows(b, sub.ImplItems[Take(b)])
    BY <1>1, BeginFollows, TakeFollows, DeclarationsFollow
  <1> QED BY <1>1, <1>2, AdoptFollows DEF ImplList

LEMMA GenericParamListFollows ==
    ASSUME NEW sub, KeepsProgram(sub), NEW r, NEW q, Follows(r, q)
    PROVE  Follows(r, GenericParamList(sub, q))
  <1> DEFINE b == Begin(q, "GenericParam")
             named == Expect(b, "id")
             p == GenericParam(sub, q)
  <1>1. "GenericParam" \in NodeKinds
    BY DEF NodeKinds
  <1>2. Follows(b, named)
    BY <1>1, BeginFollows, ExpectFollows
  <1>3. Follows(b, ImplList(sub, InheritanceSlot(sub, named)))
    BY <1>2, InheritanceSlotFollows, ImplListFollows
  <1>4. Follows(r, p)
    BY <1>1, <1>3, AdoptFollows DEF GenericParam
  <1> HIDE DEF p
  <1>5. Follows(r, sub.GenericParamList[Take(p)])
    BY <1>4, TakeFollows, DeclarationsFollow
  <1> QED BY <1>4, <1>5 DEF GenericParamList, Then, p

LEMMA GenericParamsFollows ==
    ASSUME NEW sub, KeepsProgram(sub), NEW r, NEW q, Follows(r, q)
    PROVE  Follows(r, GenericParams(sub, q))
  <1>1. Follows(r, Expect(sub.GenericParamList[Take(q)], ">"))
    BY TakeFollows, DeclarationsFollow, ExpectFollows
  <1> QED BY <1>1 DEF GenericParams

-----------------------------------------------------------------------------
(* Functions *)

LEMMA OperatorNameFollows ==
    ASSUME NEW r, NEW q, Follows(r, q)
    PROVE  Follows(r, OperatorName(q))
  <1> DEFINE b == Begin(q, "OperatorName")
             name == CASE Peek(q) \in Overloadable -> Take(b)
                       [] Peek(q) = "(" -> Expect(Take(b), ")")
                       [] Peek(q) = "[" -> Expect(Take(b), "]")
                       [] OTHER -> Report(b, "UnexpectedToken")
  <1>1. "OperatorName" \in NodeKinds /\ "UnexpectedToken" \in Errors
    BY DEF NodeKinds, Errors
  <1>2. Follows(b, b)
    BY <1>1, BeginFollows
  <1> HIDE DEF b
  <1>3. Follows(b, Take(b)) /\ Follows(b, Expect(Take(b), ")"))
        /\ Follows(b, Expect(Take(b), "]")) /\ Follows(b, Report(b, "UnexpectedToken"))
    BY <1>1, <1>2, TakeFollows, ExpectFollows, ReportFollows
  <1>4. Follows(b, name)
    BY <1>3
  <1> HIDE DEF name
  <1>5. Follows(r, Adopt(q, name))
    BY <1>1, <1>4, AdoptFollows DEF b
  <1> QED BY <1>5, Zenon DEF OperatorName, name, b

LEMMA ParamListFollows ==
    ASSUME NEW sub, KeepsProgram(sub), NEW r, NEW q, Follows(r, q)
    PROVE  Follows(r, ParamList(sub, q))
  <1> DEFINE p == Param(sub, q)
  <1>1. Follows(r, p)
    BY TakeFollows, VarBindingFollows DEF Param
  <1> HIDE DEF p
  <1>2. Follows(r, sub.ParamList[Take(p)])
    BY <1>1, TakeFollows, DeclarationsFollow
  <1> QED BY <1>1, <1>2 DEF ParamList, Then, p

LEMMA ParamsFollows ==
    ASSUME NEW sub, KeepsProgram(sub), NEW r, NEW q, Follows(r, q)
    PROVE  Follows(r, Params(sub, q))
  <1> DEFINE s == Expect(q, "(")
             b == Begin(s, "VarBindings")
             list == Adopt(s, sub.ParamList[b])
  <1>1. "VarBindings" \in NodeKinds
    BY DEF NodeKinds
  <1>2. Follows(r, s)
    BY ExpectFollows
  <1> HIDE DEF s
  <1>3. Follows(b, sub.ParamList[b])
    BY <1>1, <1>2, BeginFollows, DeclarationsFollow
  <1>4. Follows(r, list)
    BY <1>1, <1>2, <1>3, AdoptFollows
  <1> HIDE DEF list
  <1>5. Follows(r, Expect(s, ")")) /\ Follows(r, Expect(list, ")"))
    BY <1>2, <1>4, ExpectFollows
  <1> QED BY <1>2, <1>5 DEF Params, Then, s, b, list

LEMMA FnBodyFollows ==
    ASSUME NEW sub, KeepsProgram(sub), NEW r, NEW q, Follows(r, q)
    PROVE  Follows(r, FnBody(sub, q))
  <1>1. Follows(r, Turn(q, Noted(sub.Stmt[q])))
    BY StmtsFollow, NotedFollows, TurnFollows
  <1>2. Follows(r, sub.FnBody[Turn(q, Noted(sub.Stmt[q]))])
    BY <1>1, DeclarationsFollow
  <1>3. Follows(r, Fail(q, "ExpectingMoreTokens"))
    BY FailFollows DEF Errors
  <1> QED BY <1>2, <1>3 DEF FnBody, Then

(* A function, from where its first token has been taken. *)
LEMMA FnGoesOn ==
    ASSUME NEW sub, KeepsProgram(sub), NEW r, NEW q, Follows(r, Take(As(q, "FnDef")))
    PROVE  Follows(r, Fn(sub, q))
  <1> DEFINE named == FnName(As(q, "FnDef"))
             signature == Params(sub, GenericParams(sub, named))
             qualified == Optionals(signature, {"const"}, {"restrict"}, {"virtual"})
             overriding == After(qualified, "override", LAMBDA s :
                               After(s, "(", LAMBDA t : Expect(sub.TypeName[t], ")")))
             typed == After(overriding, "->", LAMBDA s : sub.TypeName[s])
  <1>1. "FnDef" \in NodeKinds /\ "FnDecl" \in NodeKinds /\ "UnexpectedToken" \in Errors
    BY DEF NodeKinds, Errors
  <1>2. Follows(r, named)
    BY OperatorNameFollows, ExpectFollows DEF FnName
  <1> HIDE DEF named
  <1>3. Follows(r, signature)
    BY <1>2, GenericParamsFollows, ParamsFollows
  <1> HIDE DEF signature
  <1>4. Follows(r, qualified)
    BY <1>3, OptionalsFollows
  <1> HIDE DEF qualified
  <1>5. Follows(r, Take(qualified))
    BY <1>4, TakeFollows
  <1>6. Follows(r, Expect(sub.TypeName[Take(Take(qualified))], ")"))
    BY <1>5, TakeFollows, ExprsFollow, ExpectFollows
  <1>7. Follows(r, overriding)
    BY <1>4, <1>5, <1>6 DEF After
  <1> HIDE DEF overriding
  <1>8. Follows(r, typed)
    BY <1>7, TakeFollows, ExprsFollow DEF After
  <1> HIDE DEF typed
  <1>9. Follows(r, Expect(sub.FnBody[Take(typed)], "}"))
    BY <1>8, TakeFollows, DeclarationsFollow, ExpectFollows
  <1>10. Follows(r, As(Take(typed), "FnDecl")) /\ Follows(r, Report(typed, "UnexpectedToken"))
    BY <1>1, <1>8, TakeFollows, AsFollows, ReportFollows
  <1> DEFINE done == Then(typed, LAMBDA s :
                         CASE Peek(s) = "{" -> Expect(sub.FnBody[Take(s)], "}")
                           [] Peek(s) = ";" -> As(Take(s), "FnDecl")
                           [] OTHER -> Report(s, "UnexpectedToken"))
  <1>11. Follows(r, done)
    BY <1>8, <1>9, <1>10 DEF Then
  <1> HIDE DEF done
  <1> QED BY <1>11, Zenon DEF Fn, done, typed, overriding, qualified, signature, named

LEMMA FnFollows ==
    ASSUME NEW sub, KeepsProgram(sub), NEW r, NEW q, Follows(r, q)
    PROVE  Follows(r, Fn(sub, q))
  <1>1. "FnDef" \in NodeKinds
    BY DEF NodeKinds
  <1>2. Follows(r, Take(As(q, "FnDef")))
    BY <1>1, AsFollows, TakeFollows
  <1> QED BY <1>2, FnGoesOn

-----------------------------------------------------------------------------
(* Types and enumerations *)

LEMMA MembersFollows ==
    ASSUME NEW sub, KeepsProgram(sub), NEW r, NEW q, Follows(r, q)
    PROVE  Follows(r, Members(sub, q))
  <1>1. Follows(r, Turn(q, Noted(sub.ProgramStmt[q])))
    BY DeclarationsFollow, NotedFollows, TurnFollows
  <1>2. Follows(r, sub.Members[Turn(q, Noted(sub.ProgramStmt[q]))])
    BY <1>1, DeclarationsFollow
  <1> QED BY <1>2 DEF Members, Then

LEMMA DefinitionOfType ==
    ASSUME NEW keyword \in DOMAIN DefinitionOf
    PROVE  DefinitionOf[keyword] \in NodeKinds
  <1>1. keyword \in {"class", "except", "interface", "trait", "struct"}
    BY DEF DefinitionOf
  <1>2. DefinitionOf[keyword] \in {"ClassDef", "InterfaceDef", "TraitDef", "StructDef"}
    BY <1>1 DEF DefinitionOf
  <1>3. {"ClassDef", "InterfaceDef", "TraitDef", "StructDef"} \subseteq NodeKinds
    BY DEF NodeKinds
  <1> QED BY <1>2, <1>3

(* A type, from where its keyword has been taken. *)
LEMMA DefinitionGoesOn ==
    ASSUME NEW sub, KeepsProgram(sub), NEW keyword \in DOMAIN DefinitionOf,
           NEW r, NEW q, Follows(r, Take(As(q, DefinitionOf[keyword])))
    PROVE  Follows(r, Definition(sub, q, keyword))
  <1> DEFINE named == Expect(Take(As(q, DefinitionOf[keyword])), "id")
             params == GenericParams(sub, named)
             slot == IF keyword \in {"class", "except"} THEN InheritanceSlot(sub, params) ELSE params
             impls == IF keyword = "except" THEN slot ELSE ImplList(sub, slot)
  <1>1. Follows(r, named)
    BY ExpectFollows
  <1> HIDE DEF named
  <1>2. Follows(r, params)
    BY <1>1, GenericParamsFollows
  <1> HIDE DEF params
  <1>3. Follows(r, slot)
    BY <1>2, InheritanceSlotFollows
  <1> HIDE DEF slot
  <1>4. Follows(r, impls)
    BY <1>3, ImplListFollows
  <1> HIDE DEF impls
  <1>5. Follows(r, Expect(sub.Members[Expect(impls, "{")], "}"))
    BY <1>4, ExpectFollows, DeclarationsFollow
  <1> QED BY <1>5, Zenon DEF Definition, impls, slot, params, named

LEMMA DefinitionFollows ==
    ASSUME NEW sub, KeepsProgram(sub), NEW r, NEW q, Follows(r, q),
           NEW keyword \in DOMAIN DefinitionOf
    PROVE  Follows(r, Definition(sub, q, keyword))
  <1>1. DefinitionOf[keyword] \in NodeKinds
    BY DefinitionOfType
  <1>2. Follows(r, Take(As(q, DefinitionOf[keyword])))
    BY <1>1, AsFollows, TakeFollows
  <1> QED BY <1>2, DefinitionGoesOn

LEMMA EnumItemsFollows ==
    ASSUME NEW sub, KeepsProgram(sub), NEW r, NEW q, Follows(r, q), NEW item \in EnumParts
    PROVE  Follows(r, EnumItems(sub, q, item))
  <1>1. "ConstAndScopedEnumItem" \in NodeKinds /\ "UnionEnumCase" \in NodeKinds
    BY DEF NodeKinds
  <1>2. Follows(r, EnumItem(sub, q))
    <2> DEFINE b == Begin(q, "ConstAndScopedEnumItem")
               named == Expect(b, "id")
               full == After(named, "=", LAMBDA s : sub.Expr[0][s])
    <2>1. Follows(b, named)
      BY <1>1, BeginFollows, ExpectFollows
    <2> HIDE DEF named
    <2>2. Follows(b, full)
      BY <2>1, TakeFollows, ExprsFollow DEF After
    <2>3. Follows(r, Adopt(q, full))
      BY <1>1, <2>2, AdoptFollows
    <2> QED BY <2>3 DEF EnumItem, named
  <1>3. Follows(r, UnionCase(sub, q))
    <2> DEFINE b == Begin(q, "UnionEnumCase")
               named == Expect(Expect(b, "case"), "id")
               full == Expect(VarBindings(sub, Expect(named, "(")), ")")
    <2>1. Follows(b, named)
      BY <1>1, BeginFollows, ExpectFollows
    <2> HIDE DEF named
    <2>2. Follows(b, full)
      BY <2>1, ExpectFollows, VarBindingsFollows
    <2>3. Follows(r, Adopt(q, full))
      BY <1>1, <2>2, AdoptFollows
    <2> QED BY <2>3 DEF UnionCase, named
  <1> DEFINE i == IF item = "EnumItem" THEN EnumItem(sub, q) ELSE UnionCase(sub, q)
  <1>4. Follows(r, i)
    BY <1>2, <1>3
  <1> HIDE DEF i
  <1>5. Follows(r, sub.EnumItems[item][Take(i)])
    BY <1>4, TakeFollows, DeclarationsFollow
  <1> QED BY <1>4, <1>5 DEF EnumItems, Then, i

LEMMA EnumDefFollows ==
    ASSUME NEW sub, KeepsProgram(sub), NEW r, NEW q, Follows(r, q), NEW item \in EnumParts
    PROVE  Follows(r, EnumDef(sub, q, item))
  <1> DEFINE head == InheritanceSlot(sub, GenericParams(sub, Expect(q, "id")))
  <1>1. Follows(r, head)
    BY ExpectFollows, GenericParamsFollows, InheritanceSlotFollows
  <1> HIDE DEF head
  <1>2. Follows(r, Expect(sub.EnumItems[item][Expect(head, "{")], "}"))
    BY <1>1, ExpectFollows, DeclarationsFollow
  <1> QED BY <1>2 DEF EnumDef, head

LEMMA EnumFollows ==
    ASSUME NEW sub, KeepsProgram(sub), NEW r, NEW q, Follows(r, q)
    PROVE  Follows(r, Enum(sub, q))
  <1>1. /\ "ConstEnumDef" \in NodeKinds /\ "ScopedEnumDef" \in NodeKinds
        /\ "EnumItem" \in EnumParts /\ "UnionCase" \in EnumParts /\ "UnexpectedToken" \in Errors
    BY DEF NodeKinds, EnumParts, Errors
  <1>2. Follows(r, EnumDef(sub, Take(As(q, "ConstEnumDef")), "EnumItem"))
    BY <1>1, AsFollows, TakeFollows, EnumDefFollows
  <1>3. Follows(r, EnumDef(sub, As(q, "ScopedEnumDef"), "EnumItem"))
    BY <1>1, AsFollows, EnumDefFollows
  <1>4. Follows(r, EnumDef(sub, Take(As(q, "ScopedEnumDef")), "UnionCase"))
    BY <1>1, AsFollows, TakeFollows, EnumDefFollows
  <1>5. Follows(r, Fail(q, "UnexpectedToken"))
    BY <1>1, FailFollows
  <1> QED BY <1>2, <1>3, <1>4, <1>5 DEF Enum

-----------------------------------------------------------------------------
(* Members and programs *)

LEMMA MemberFollows ==
    ASSUME NEW sub, KeepsProgram(sub), NEW r, NEW q, Follows(r, q), NEW first
    PROVE  Follows(r, Member(sub, q, first))
  <1>1. "Var" \in NodeKinds /\ "UnknownEnumDecl" \in NodeKinds /\ "UnexpectedToken" \in Errors
        /\ FALSE \in BOOLEAN
    BY DEF NodeKinds, Errors
  <1>2. Follows(r, Fn(sub, q))
    BY FnFollows
  <1>3. first \in DOMAIN DefinitionOf => Follows(r, Definition(sub, q, first))
    BY DefinitionFollows
  <1>4. Follows(r, Expect(VarBindings(sub, Take(As(q, "Var"))), ";"))
    BY <1>1, AsFollows, TakeFollows, VarBindingsFollows, ExpectFollows
  <1> DEFINE enum == Then(Take(As(q, "UnknownEnumDecl")), LAMBDA e : Enum(sub, e))
  <1>5. Follows(r, enum)
    <2> DEFINE e == Take(As(q, "UnknownEnumDecl"))
    <2>1. Follows(r, e)
      BY <1>1, AsFollows, TakeFollows
    <2> HIDE DEF e
    <2>2. Follows(r, Enum(sub, e))
      BY <2>1, EnumFollows
    <2> QED BY <2>1, <2>2 DEF Then, e
  <1>6. Follows(r, Expect(IdRef(sub, Take(q), FALSE), ";"))
    BY <1>1, TakeFollows, ExprsFollow, IdRefFollows, ExpectFollows
  <1>7. Follows(r, Fail(Take(q), "UnexpectedToken"))
    BY <1>1, TakeFollows, FailFollows
  <1> HIDE DEF enum
  <1> QED BY <1>2, <1>3, <1>4, <1>5, <1>6, <1>7 DEF Member, enum

LEMMA ProgramStmtFollows ==
    ASSUME NEW sub, KeepsProgram(sub), NEW r, NEW q, Follows(r, q)
    PROVE  Follows(r, ProgramStmt(sub, q))
  <1> DEFINE b == Begin(q, "Unset")
             m == Optionals(b, Access, {"native"}, {"static"})
             member == Then(m, LAMBDA s : Member(sub, s, Peek(s)))
  <1>1. "Unset" \in NodeKinds
    BY DEF NodeKinds
  <1>2. Follows(b, m)
    BY <1>1, BeginFollows, OptionalsFollows
  <1> HIDE DEF m
  <1>3. Follows(b, member)
    BY <1>2, MemberFollows DEF Then
  <1> HIDE DEF member
  <1>4. Follows(r, Adopt(q, member))
    BY <1>1, <1>3, AdoptFollows
  <1> QED BY <1>4, Zenon DEF ProgramStmt, member, m

LEMMA ModuleNameFollows ==
    ASSUME NEW sub, KeepsProgram(sub), NEW r, NEW q, Follows(r, q)
    PROVE  Follows(r, ModuleName(sub, q))
  <1> DEFINE b == Begin(q, "IdRef")
  <1>1. "IdRef" \in NodeKinds /\ FALSE \in BOOLEAN
    BY DEF NodeKinds
  <1>2. Follows(b, IdRefHead(sub, b, FALSE))
    BY <1>1, BeginFollows, ExprsFollow, IdRefHeadFollows
  <1>3. Follows(b, Expect(Noted(IdRefHead(sub, b, FALSE)), ";"))
    BY <1>2, NotedFollows, ExpectFollows
  <1> QED BY <1>1, <1>3, AdoptFollows DEF ModuleName

LEMMA ProgramStmtsFollows ==
    ASSUME NEW sub, KeepsProgram(sub), NEW r, NEW q, Follows(r, q)
    PROVE  Follows(r, ProgramStmts(sub, q))
  <1>1. Follows(r, Turn(q, Noted(sub.ProgramStmt[q])))
    BY DeclarationsFollow, NotedFollows, TurnFollows
  <1>2. Follows(r, sub.ProgramStmts[Turn(q, Noted(sub.ProgramStmt[q]))])
    BY <1>1, DeclarationsFollow
  <1> QED BY <1>2 DEF ProgramStmts, Then

LEMMA ProgramFollows ==
    ASSUME NEW sub, KeepsProgram(sub), NEW r, NEW q, Follows(r, q)
    PROVE  Follows(r, Program(sub, q))
  <1> DEFINE head == After(q, "module", LAMBDA s : ModuleName(sub, s))
  <1>1. Follows(r, head)
    BY TakeFollows, ModuleNameFollows DEF After
  <1> HIDE DEF head
  <1>2. Follows(r, ToNextToken(sub.ProgramStmts[head]))
    BY <1>1, DeclarationsFollow, ToNextTokenFollows
  <1> QED BY <1>2 DEF Program, head

-----------------------------------------------------------------------------
(* All functions keep it, by induction on the depth of calls. *)

ProgramRecords ==
    [Expr : [Int -> Keeping], InfixPart : [Int -> Keeping], ArgList : [Terminals -> Keeping],
     SubscriptList : Keeping, GenericArgs : Keeping, IdRefEntries : [BOOLEAN -> Keeping],
     TypeSuffix : Keeping, TypeName : Keeping, MatchCases : Keeping,
     PartList : [ListParts -> Keeping], Block : Keeping, SwitchCases : Keeping,
     ForSteps : Keeping, Stmt : Keeping, ImplItems : Keeping, GenericParamList : Keeping,
     ParamList : Keeping, FnBody : Keeping, Members : Keeping,
     EnumItems : [EnumParts -> Keeping], ProgramStmt : Keeping, ProgramStmts : Keeping]

LEMMA ProgramRecordsKeep ==
    ASSUME NEW sub \in ProgramRecords
    PROVE  KeepsProgram(sub)
  <1>1. KeepsExprs(sub)
    BY DEF ProgramRecords, KeepsExprs
  <1> QED BY <1>1 DEF ProgramRecords, KeepsProgram

LEMMA NoProgramFunctionsKeep == NoProgramFunctions \in ProgramRecords
  <1> DEFINE f == NoReturn
             e == NoExprFunctions
  <1>1. f \in Keeping
    BY NoReturnKeeps
  <1>2. KeepsExprs(e)
    BY NoExprFunctionsKeep, ExprRecordsKeep
  <1>3. NoProgramFunctions =
          [Expr |-> e.Expr, InfixPart |-> e.InfixPart, ArgList |-> e.ArgList,
           SubscriptList |-> e.SubscriptList, GenericArgs |-> e.GenericArgs,
           IdRefEntries |-> e.IdRefEntries, TypeSuffix |-> e.TypeSuffix,
           TypeName |-> e.TypeName, MatchCases |-> e.MatchCases,
           PartList |-> [p \in ListParts |-> f], Block |-> f, SwitchCases |-> f,
           ForSteps |-> f, Stmt |-> f, ImplItems |-> f, GenericParamList |-> f, ParamList |-> f,
           FnBody |-> f, Members |-> f, EnumItems |-> [i \in EnumParts |-> f],
           ProgramStmt |-> f, ProgramStmts |-> f]
    BY Zenon DEF NoProgramFunctions
  <1> HIDE DEF f, e
  <1> QED BY <1>1, <1>2, <1>3 DEF ProgramRecords, KeepsExprs

LEMMA ProgramFunctionsKeep ==
    ASSUME NEW sub, KeepsProgram(sub)
    PROVE  ProgramFunctions(sub) \in ProgramRecords
  <1> DEFINE e == ExprFunctions(sub)
             partList(p) == [r \in Parser |-> PartList(sub, r, p)]
             block == [r \in Parser |-> Block(sub, r)]
             switchCases == [r \in Parser |-> SwitchCases(sub, r)]
             forSteps == [r \in Parser |-> ForSteps(sub, r)]
             stmt == [r \in Parser |-> Stmt(sub, r)]
             implItems == [r \in Parser |-> ImplItems(sub, r)]
             paramList == [r \in Parser |-> ParamList(sub, r)]
             generics == [r \in Parser |-> GenericParamList(sub, r)]
             fnBody == [r \in Parser |-> FnBody(sub, r)]
             members == [r \in Parser |-> Members(sub, r)]
             enumItems(i) == [r \in Parser |-> EnumItems(sub, r, i)]
             programStmt == [r \in Parser |-> ProgramStmt(sub, r)]
             programStmts == [r \in Parser |-> ProgramStmts(sub, r)]
  <1>1. KeepsExprs(e)
    BY ExprFunctionsKeep, ExprRecordsKeep DEF KeepsProgram
  <1>2. ASSUME NEW p \in ListParts PROVE partList(p) \in Keeping
    <2>1. \A q \in Parser : Follows(q, partList(p)[q])
      BY FollowsItself, PartListFollows
    <2> QED BY <2>1, KeepingBy
  <1>3. block \in Keeping
    <2>1. \A q \in Parser : Follows(q, block[q])
      BY FollowsItself, BlockFollows
    <2> QED BY <2>1, KeepingBy
  <1>4. switchCases \in Keeping
    <2>1. \A q \in Parser : Follows(q, switchCases[q])
      BY FollowsItself, SwitchCasesFollows
    <2> QED BY <2>1, KeepingBy
  <1>5. forSteps \in Keeping
    <2>1. \A q \in Parser : Follows(q, forSteps[q])
      BY FollowsItself, ForStepsFollows
    <2> QED BY <2>1, KeepingBy
  <1>6. stmt \in Keeping
    <2>1. \A q \in Parser : Follows(q, stmt[q])
      BY FollowsItself, StmtFollows
    <2> QED BY <2>1, KeepingBy
  <1>7. implItems \in Keeping
    <2>1. \A q \in Parser : Follows(q, implItems[q])
      BY FollowsItself, ImplItemsFollows
    <2> QED BY <2>1, KeepingBy
  <1>8. paramList \in Keeping
    <2>1. \A q \in Parser : Follows(q, paramList[q])
      BY FollowsItself, ParamListFollows
    <2> QED BY <2>1, KeepingBy
  <1>9. generics \in Keeping
    <2>1. \A q \in Parser : Follows(q, generics[q])
      BY FollowsItself, GenericParamListFollows
    <2> QED BY <2>1, KeepingBy
  <1>10. fnBody \in Keeping
    <2>1. \A q \in Parser : Follows(q, fnBody[q])
      BY FollowsItself, FnBodyFollows
    <2> QED BY <2>1, KeepingBy
  <1>11. members \in Keeping
    <2>1. \A q \in Parser : Follows(q, members[q])
      BY FollowsItself, MembersFollows
    <2> QED BY <2>1, KeepingBy
  <1>12. ASSUME NEW i \in EnumParts PROVE enumItems(i) \in Keeping
    <2>1. \A q \in Parser : Follows(q, enumItems(i)[q])
      BY FollowsItself, EnumItemsFollows
    <2> QED BY <2>1, KeepingBy
  <1>13. programStmt \in Keeping
    <2>1. \A q \in Parser : Follows(q, programStmt[q])
      BY FollowsItself, ProgramStmtFollows
    <2> QED BY <2>1, KeepingBy
  <1>14. programStmts \in Keeping
    <2>1. \A q \in Parser : Follows(q, programStmts[q])
      BY FollowsItself, ProgramStmtsFollows
    <2> QED BY <2>1, KeepingBy
  <1>15. ProgramFunctions(sub) =
           [Expr |-> e.Expr, InfixPart |-> e.InfixPart, ArgList |-> e.ArgList,
            SubscriptList |-> e.SubscriptList, GenericArgs |-> e.GenericArgs,
            IdRefEntries |-> e.IdRefEntries, TypeSuffix |-> e.TypeSuffix,
            TypeName |-> e.TypeName, MatchCases |-> e.MatchCases,
            PartList |-> [p \in ListParts |-> partList(p)], Block |-> block,
            SwitchCases |-> switchCases, ForSteps |-> forSteps, Stmt |-> stmt,
            ImplItems |-> implItems, GenericParamList |-> generics, ParamList |-> paramList,
            FnBody |-> fnBody, Members |-> members,
            EnumItems |-> [i \in EnumParts |-> enumItems(i)],
            ProgramStmt |-> programStmt, ProgramStmts |-> programStmts]
    BY Zenon DEF ProgramFunctions
  <1> HIDE DEF e, partList, block, switchCases, forSteps, stmt, implItems, paramList, generics,
               fnBody, members, enumItems, programStmt, programStmts
  <1>16. [p \in ListParts |-> partList(p)] \in [ListParts -> Keeping]
         /\ [i \in EnumParts |-> enumItems(i)] \in [EnumParts -> Keeping]
    BY <1>2, <1>12
  <1> QED BY <1>1, <1>3, <1>4, <1>5, <1>6, <1>7, <1>8, <1>9, <1>10, <1>11, <1>13, <1>14, <1>15,
             <1>16 DEF ProgramRecords, KeepsExprs

(* The calls up to a depth, unfolded. *)
LEMMA ProgramCallsStep ==
    /\ ProgramCalls[0] = NoProgramFunctions
    /\ \A n \in Nat : ProgramCalls[n + 1] = ProgramFunctions(ProgramCalls[n])
    /\ \A n \in Nat : ProgramCalls[n] \in ProgramRecords
  <1> DEFINE S == ProgramRecords
             none == NoProgramFunctions
             to(s) == ProgramFunctions(s)
             step == [n \in Nat |-> [s \in S |-> to(s)]]
  <1>1. none \in S
    BY NoProgramFunctionsKeep
  <1>2. ASSUME NEW s \in S PROVE to(s) \in S
    BY ProgramRecordsKeep, ProgramFunctionsKeep
  <1> HIDE DEF S, none, to
  <1>3. step \in Steps(S)
    BY <1>2 DEF Steps
  <1>4. ASSUME NEW n \in Nat, NEW s \in S PROVE step[n][s] = to(s)
    OBVIOUS
  <1> HIDE DEF step
  <1>5. PICK f : Recurs(f, S, none, step)
    BY <1>1, <1>3, Recursion
  <1>6. f \in [Nat -> S] /\ f[0] = none /\ \A n \in Nat : f[n + 1] = to(f[n])
    BY <1>4, <1>5 DEF Recurs
  <1>7. ASSUME NEW n \in Nat PROVE f[n] = IF n = 0 THEN none ELSE to(f[n - 1])
    <2>1. n # 0 => n - 1 \in Nat /\ (n - 1) + 1 = n
      OBVIOUS
    <2> QED BY <1>6, <2>1
  <1>8. f = [n \in Nat |-> IF n = 0 THEN none ELSE to(f[n - 1])]
    BY <1>6, <1>7
  <1> DEFINE C == ProgramCalls
  <1>9. C = [n \in Nat |-> IF n = 0 THEN none ELSE to(C[n - 1])]
    BY <1>8 DEF ProgramCalls, none, to
  <1> HIDE DEF C
  <1>10. C[0] = none /\ \A n \in Nat : C[n + 1] = to(C[n])
    BY <1>9
  <1> DEFINE T == {n \in Nat : C[n] \in S}
  <1>11. 0 \in T /\ \A n \in Nat : n \in T => n + 1 \in T
    BY <1>1, <1>2, <1>10
  <1> HIDE DEF T
  <1>12. Nat \subseteq T
    BY <1>11, Induction
  <1>13. \A n \in Nat : C[n] \in S
    BY <1>12 DEF T
  <1> QED BY <1>10, <1>13 DEF C, S, none, to

LEMMA ProgramCallsKeep ==
    ASSUME NEW n \in Nat
    PROVE  KeepsProgram(ProgramCalls[n])
  BY ProgramCallsStep, ProgramRecordsKeep

-----------------------------------------------------------------------------
(* The errors with which parse can end.                                    *)

(* The loops note their errors. *)
Going(r) == r.err \in {"none", "endless"}

LEMMA TurnGoes ==
    ASSUME NEW q, NEW s \in Parser
    PROVE  Going(Turn(q, Noted(s)))
  <1>1. Noted(s) \in Parser /\ Going(Noted(s))
    <2>1. Follows(s, Noted(s))
      BY FollowsItself, NotedFollows
    <2>2. Going(Noted(s))
      BY DEF Going, Noted, Parser
    <2> QED BY <2>1, <2>2 DEF Follows
  <1> DEFINE t == Noted(s)
  <1> HIDE DEF t
  <1>2. t \in Parser /\ Going(t) => Going(Turn(q, t))
    BY DEF Going, Turn, Parser
  <1> QED BY <1>1, <1>2 DEF t

(* The loop over the declarations of a program ends at the source's end.   *)
AtEnd(t) == Going(t) /\ (Ok(t) => Peek(t) = "end")

LEMMA ProgramStmtsEnd ==
    ASSUME NEW n \in Nat, NEW r \in Parser
    PROVE  /\ Going(r) => AtEnd(ProgramCalls[n].ProgramStmts[r])
           /\ ~ Ok(r) => ProgramCalls[n].ProgramStmts[r] = r
  <1> DEFINE P(f) == \A q \in Parser : (Going(q) => AtEnd(f[q])) /\ (~ Ok(q) => f[q] = q)
             T == {k \in Nat : P(ProgramCalls[k].ProgramStmts)}
  <1>1. 0 \in T
    <2>1. ProgramCalls[0].ProgramStmts = NoReturn
      BY ProgramCallsStep DEF NoProgramFunctions
    <2>2. ASSUME NEW q \in Parser
          PROVE  (Going(q) => AtEnd(NoReturn[q])) /\ (~ Ok(q) => NoReturn[q] = q)
      <3>1. NoReturn[q] = IF Ok(q) THEN [q EXCEPT !.err = "endless"] ELSE q
        BY DEF NoReturn, Fail
      <3> QED BY <3>1 DEF Going, AtEnd, Ok, Parser
    <2> QED BY <2>1, <2>2
  <1>2. ASSUME NEW k \in Nat, k \in T PROVE k + 1 \in T
    <2> DEFINE sub == ProgramCalls[k]
               f == ProgramCalls[k + 1].ProgramStmts
    <2>1. KeepsProgram(sub) /\ P(sub.ProgramStmts)
      BY <1>2, ProgramCallsKeep
    <2>2. ASSUME NEW q \in Parser PROVE f[q] = ProgramStmts(sub, q)
      <3>1. ProgramCalls[k + 1] = ProgramFunctions(sub)
        BY ProgramCallsStep
      <3>2. ProgramFunctions(sub).ProgramStmts[q] = ProgramStmts(sub, q)
        BY Zenon DEF ProgramFunctions
      <3> QED BY <3>1, <3>2
    <2>3. ASSUME NEW q \in Parser
          PROVE  (Going(q) => AtEnd(f[q])) /\ (~ Ok(q) => f[q] = q)
      <3> DEFINE s == sub.ProgramStmt[q]
                 t == Turn(q, Noted(s))
      <3>1. Follows(q, s) /\ Follows(q, t)
        BY <2>1, FollowsItself, DeclarationsFollow, NotedFollows, TurnFollows
      <3>2. t \in Parser /\ Going(t)
        BY <3>1, TurnGoes DEF Follows
      <3> HIDE DEF s, t
      <3>3. AtEnd(sub.ProgramStmts[t])
        BY <2>1, <3>2
      <3>4. f[q] = IF Ok(q) THEN IF Peek(q) = "end" THEN q ELSE sub.ProgramStmts[t] ELSE q
        BY <2>2 DEF ProgramStmts, Then, t, s
      <3> HIDE DEF sub, f
      <3>5. CASE ~ Ok(q)
        BY <3>4, <3>5 DEF AtEnd
      <3>6. CASE Ok(q) /\ Peek(q) = "end"
        BY <3>4, <3>6 DEF AtEnd
      <3>7. CASE Ok(q) /\ Peek(q) # "end"
        BY <3>3, <3>4, <3>7
      <3> QED BY <3>5, <3>6, <3>7, Zenon
    <2> QED BY <2>3
  <1> HIDE DEF T
  <1>3. n \in T
    BY <1>1, <1>2, Induction
  <1> QED BY <1>3 DEF T

(* How an operation ends that notes the errors of what it calls: with more *)
(* tokens expected only when there are none.                               *)
Ends(r) ==
    /\ r.err \in {"none", "endless", "ExpectingMoreTokens", "ExpectingSingleToken"}
    /\ r.err = "ExpectingMoreTokens" => r.at = Len(r.toks) + 1

(* to_next_token, where it stops. *)
LEMMA ToNextTokenEnds ==
    ASSUME NEW r, Wellformed(r), Ok(r)
    PROVE  LET s == ToNextToken(r)
           IN /\ s.toks = r.toks
              /\ \/ /\ Ok(s) /\ Solid(r) # 0 /\ s.at = Solid(r)
                 \/ s.err = "ExpectingMoreTokens" /\ Solid(r) = 0 /\ s.at = Len(r.toks) + 1
  <1> DEFINE q(next) == SkipTo(r, next)
  <1>1. r \in Parser
    BY DEF Wellformed
  <1>2. ASSUME NEW next
        PROVE  q(next).toks = r.toks /\ q(next).at = next /\ q(next).err = r.err
    BY <1>1 DEF SkipTo, Parser
  <1>3. CASE Solid(r) = 0
    <2> DEFINE t == q(Len(r.toks) + 1)
    <2>1. ToNextToken(r) = Fail(t, "ExpectingMoreTokens")
      BY <1>3 DEF ToNextToken
    <2>2. t \in Parser
      <3>1. Len(r.toks) + 1 \in Nat \ {0} /\ Len(r.toks) + 1 <= Len(r.toks) + 1
        BY <1>1 DEF Parser
      <3> QED BY <1>1, <3>1, SkipToType
    <2>3. t.toks = r.toks /\ t.at = Len(r.toks) + 1 /\ Ok(t)
      BY <1>2 DEF Ok
    <2> HIDE DEF t
    <2>4. /\ Fail(t, "ExpectingMoreTokens").toks = t.toks
          /\ Fail(t, "ExpectingMoreTokens").at = t.at
          /\ Fail(t, "ExpectingMoreTokens").err = "ExpectingMoreTokens"
      BY <2>2, <2>3 DEF Fail, Parser
    <2> QED BY <1>3, <2>1, <2>3, <2>4
  <1>4. CASE Solid(r) # 0
    <2>1. ToNextToken(r) = q(Solid(r))
      BY <1>4 DEF ToNextToken
    <2> HIDE DEF q
    <2> QED BY <1>2, <1>4, <2>1 DEF Ok
  <1> QED BY <1>3, <1>4

LEMMA ExpectEnds ==
    ASSUME NEW r, Wellformed(r), Going(r), NEW kind
    PROVE  Ends(Expect(r, kind))
  <1> DEFINE s == ToNextToken(r)
  <1>1. CASE ~ Ok(r)
    <2>1. s = r
      BY <1>1 DEF ToNextToken
    <2>2. Expect(r, kind) = r
      BY <1>1, <2>1 DEF Expect, Then
    <2> QED BY <1>1, <2>2 DEF Going, Ends, Ok
  <1>2. CASE Ok(r)
    <2>1. /\ s.toks = r.toks
          /\ \/ /\ Ok(s) /\ Solid(r) # 0 /\ s.at = Solid(r)
             \/ s.err = "ExpectingMoreTokens" /\ Solid(r) = 0 /\ s.at = Len(r.toks) + 1
      BY <1>2, ToNextTokenEnds
    <2>2. Wellformed(s)
      BY ContinuesReflexive, ToNextTokenContinues DEF Continues
    <2>3. Expect(r, kind) = IF Ok(s) THEN IF Peek(s) = kind THEN Collect(s)
                                          ELSE Fail(s, "ExpectingSingleToken")
                            ELSE s
      BY DEF Expect, Then
    <2> HIDE DEF s
    <2>4. CASE ~ Ok(s)
      BY <2>1, <2>3, <2>4 DEF Ends
    <2>5. CASE Ok(s)
      <3>1. s.at <= Len(s.toks) /\ s.at \in Nat /\ Len(s.toks) \in Nat /\ s \in Parser
        <4>1. Solid(r) \in r.at .. Len(r.toks)
          BY <2>1, <2>5, SolidNext DEF Ok
        <4> QED BY <2>1, <2>2, <2>5, <4>1 DEF Ok, Wellformed, Parser
      <3>2. Collect(s).err = "none"
        <4> DEFINE kids == Append(s.kids, s.toks[s.at])
        <4>1. Collect(s) = [s EXCEPT !.kids = kids, !.at = s.at + 1]
          BY <2>5, <3>1 DEF Collect
        <4> HIDE DEF kids
        <4> QED BY <2>5, <3>1, <4>1 DEF Ok, Parser
      <3>3. Fail(s, "ExpectingSingleToken").err = "ExpectingSingleToken"
        BY <2>5, <3>1 DEF Fail, Parser
      <3> QED BY <2>3, <2>5, <3>2, <3>3 DEF Ends
    <2> QED BY <2>4, <2>5
  <1> QED BY <1>1, <1>2

LEMMA TakeOk ==
    ASSUME NEW r, Ready(r)
    PROVE  Ok(Take(r))
  <1> DEFINE s == ToNextToken(r)
             kids == Append(s.kids, s.toks[s.at])
  <1>1. Wellformed(r) /\ Ok(r) /\ Solid(r) # 0
    BY DEF Ready
  <1>2. s.toks = r.toks /\ Ok(s) /\ s.at = Solid(r)
    BY <1>1, ToNextTokenEnds
  <1>3. Wellformed(s)
    BY <1>1, ContinuesReflexive, ToNextTokenContinues DEF Continues
  <1>4. s.at \in r.at .. Len(r.toks)
    BY <1>1, <1>2, SolidNext
  <1> HIDE DEF s
  <1>5. ~ (s.at > Len(s.toks)) /\ s \in Parser
    BY <1>1, <1>2, <1>3, <1>4 DEF Wellformed, Parser
  <1>6. Collect(s) = [s EXCEPT !.kids = kids, !.at = s.at + 1]
    BY <1>2, <1>5 DEF Collect
  <1> HIDE DEF kids
  <1>7. Ok(Collect(s))
    BY <1>2, <1>5, <1>6 DEF Ok, Parser
  <1> QED BY <1>7 DEF Take, s

(* The header of a module, if there is one.                                *)
LEMMA HeaderEnds ==
    ASSUME NEW sub, KeepsProgram(sub), NEW r, Ready(r)
    PROVE  Ends(ModuleName(sub, Take(r))) /\ Wellformed(ModuleName(sub, Take(r)))
  <1> DEFINE t == Take(r)
             b == Begin(t, "IdRef")
             name == Noted(IdRefHead(sub, b, FALSE))
             full == Expect(name, ";")
             m == ModuleName(sub, t)
  <1>1. Wellformed(r) /\ Ok(r)
    BY DEF Ready
  <1>2. Wellformed(t) /\ Ok(t) /\ t \in Parser
    BY <1>1, ContinuesReflexive, TakeContinues, TakeOk DEF Continues, Wellformed
  <1>3. "IdRef" \in NodeKinds /\ FALSE \in BOOLEAN
    BY DEF NodeKinds
  <1> HIDE DEF t
  <1>4. Follows(t, t) /\ Follows(b, b)
    BY <1>2, <1>3, FollowsItself, BeginFollows
  <1>5. Wellformed(b)
    <2>1. Continues(b, b)
      BY <1>2, <1>3, ContinuesReflexive, BeginWellformed
    <2> QED BY <2>1 DEF Continues
  <1>6. Follows(b, IdRefHead(sub, b, FALSE))
    BY <1>3, <1>4, ExprsFollow, IdRefHeadFollows
  <1>7. Going(name) /\ Wellformed(name)
    <2>1. Going(name)
      <3>1. IdRefHead(sub, b, FALSE) \in Parser
        BY <1>6 DEF Follows
      <3> DEFINE h == IdRefHead(sub, b, FALSE)
      <3> HIDE DEF h
      <3>2. h \in Parser => Going(Noted(h))
        BY DEF Going, Noted, Parser
      <3> QED BY <3>1, <3>2 DEF h
    <2>2. Follows(b, name)
      BY <1>6, NotedFollows
    <2>3. Continues(b, name)
      BY <1>5, <2>2 DEF Follows
    <2> QED BY <2>1, <2>3 DEF Continues
  <1> HIDE DEF b, name
  <1>8. Ends(full) /\ Wellformed(full)
    <2>1. Continues(name, full)
      BY <1>7, ContinuesReflexive, ExpectContinues
    <2> QED BY <1>7, <2>1, ExpectEnds DEF Continues
  <1> HIDE DEF full
  <1>9. m = Adopt(t, full)
    BY Zenon DEF ModuleName, full, name, b
  <1>10. Ends(m)
    <2>1. m.err = full.err /\ m.at = full.at /\ m.toks = full.toks
      BY <1>2, <1>8, <1>9 DEF Adopt, Wellformed, Parser
    <2> QED BY <1>8, <2>1 DEF Ends
  <1>11. Wellformed(m)
    <2>1. Follows(t, m)
      BY <1>4, ModuleNameFollows
    <2> QED BY <1>2, <2>1 DEF Follows, Continues
  <1> HIDE DEF m
  <1>12. Ends(m) /\ Wellformed(m)
    BY <1>10, <1>11
  <1> QED BY <1>12 DEF m, t

(* A program is read to its end, or to the end of a header that lacks its  *)
(* semicolon.                                                              *)
LEMMA ProgramEnds ==
    ASSUME NEW n \in Nat, NEW r, Ready(r)
    PROVE  LET p == Program(ProgramCalls[n], r)
           IN /\ p.err \in {"none", "endless", "ExpectingMoreTokens", "ExpectingSingleToken"}
              /\ p.err \in {"none", "ExpectingMoreTokens"} => p.at \in {Len(p.toks), Len(p.toks) + 1}
              /\ p.err = "ExpectingSingleToken" => Peek(r) = "module"
  <1> DEFINE sub == ProgramCalls[n]
             head == After(r, "module", LAMBDA s : ModuleName(sub, s))
             t == sub.ProgramStmts[head]
             p == ToNextToken(t)
  <1>1. KeepsProgram(sub)
    BY ProgramCallsKeep
  <1>2. Ends(head) /\ Wellformed(head) /\ (Peek(r) # "module" => Ok(head)) /\ head \in Parser
    <2> DEFINE m == ModuleName(sub, Take(r))
    <2>1. Ends(m) /\ Wellformed(m)
      <3> HIDE DEF sub
      <3> QED BY <1>1, HeaderEnds
    <2>2. head = IF Peek(r) = "module" THEN m ELSE r
      BY DEF After, Ready
    <2>3. Ends(r) /\ Wellformed(r) /\ Ok(r)
      BY DEF Ends, Ok, Ready
    <2> HIDE DEF head, m
    <2>4. Ends(head) /\ Wellformed(head) /\ (Peek(r) # "module" => Ok(head))
      BY <2>1, <2>2, <2>3
    <2> QED BY <2>4 DEF Wellformed
  <1>3. Program(sub, r) = p
    BY DEF Program
  <1> HIDE DEF head
  <1>4. Wellformed(t)
    <2>1. Follows(head, t)
      BY <1>1, <1>2, FollowsItself, DeclarationsFollow
    <2>2. Continues(head, t)
      BY <1>2, <2>1 DEF Follows
    <2> QED BY <2>2 DEF Continues
  <1>5. CASE Going(head)
    <2>1. AtEnd(t)
      BY <1>2, <1>5, ProgramStmtsEnd
    <2> HIDE DEF t
    <2>2. CASE ~ Ok(t)
      <3>1. p = t /\ t.err = "endless"
        BY <2>1, <2>2 DEF ToNextToken, AtEnd, Going, Ok
      <3> HIDE DEF sub
      <3> QED BY <3>1, <1>3 DEF sub
    <2>3. CASE Ok(t)
      <3>1. /\ p.toks = t.toks
            /\ \/ /\ Ok(p) /\ Solid(t) # 0 /\ p.at = Solid(t)
               \/ p.err = "ExpectingMoreTokens" /\ Solid(t) = 0 /\ p.at = Len(t.toks) + 1
        BY <1>4, <2>3, ToNextTokenEnds
      <3>2. Solid(t) # 0 => Solid(t) = Len(t.toks)
        <4> SUFFICES ASSUME Solid(t) # 0 PROVE Solid(t) = Len(t.toks)
          OBVIOUS
        <4>1. Solid(t) \in t.at .. Len(t.toks) /\ t.toks[Solid(t)].id = "end"
          BY <1>4, <2>1, <2>3, SolidNext DEF AtEnd
        <4>2. Solid(t) \in 1 .. Len(t.toks)
          BY <1>4, <4>1 DEF Wellformed, Parser
        <4> QED BY <1>4, <4>1, <4>2 DEF Wellformed
      <3> HIDE DEF sub, p
      <3> QED BY <3>1, <3>2, <1>3 DEF sub, Ok
    <2> QED BY <2>2, <2>3
  <1>6. CASE ~ Going(head)
    <2>1. ~ Ok(head)
      BY <1>6 DEF Going, Ok
    <2>2. t = head
      BY <1>2, <2>1, ProgramStmtsEnd
    <2>3. p = head
      BY <2>1, <2>2 DEF ToNextToken
    <2> HIDE DEF sub, p
    <2> QED BY <1>2, <1>3, <1>6, <2>1, <2>3 DEF Ends, Going, sub
  <1> QED BY <1>5, <1>6

(* A parser that parse leaves has gone on from the one before its first    *)
(* step.                                                                   *)
LEMMA ParseFollows ==
    ASSUME NEW kinds \in Seq(Kinds \ {"end"})
    PROVE  LET start == Unparsed(kinds, "Module")
           IN /\ Ready(start) /\ start.at = 1 /\ Leaves(start) = <<>>
              /\ Follows(start, Parse(kinds)) /\ Continues(start, Parse(kinds))
  <1> DEFINE start == Unparsed(kinds, "Module")
             sub == ProgramCalls[MaxDepth(kinds)]
  <1>1. "Module" \in NodeKinds
    BY DEF NodeKinds
  <1>2. Wellformed(start) /\ start.at = 1 /\ Ok(start) /\ Leaves(start) = <<>>
    BY <1>1, UnparsedWellformed
  <1>3. MaxDepth(kinds) \in Nat
    BY DEF MaxDepth
  <1>4. KeepsProgram(sub)
    BY <1>3, ProgramCallsKeep
  <1> HIDE DEF start, sub
  <1>5. Ready(start)
    <2>1. Len(start.toks) \in Nat \ {0}
      BY <1>2, WellformedType
    <2>2. Solid(start) # 0
      BY <1>2, <2>1, SolidNext
    <2> QED BY <1>2, <2>2 DEF Ready
  <1>6. Follows(start, Program(sub, start))
    BY <1>2, <1>4, FollowsItself, ProgramFollows DEF Wellformed
  <1>7. Continues(start, Program(sub, start))
    BY <1>2, <1>6 DEF Follows
  <1> QED BY <1>2, <1>5, <1>6, <1>7 DEF start, sub, Parse

-----------------------------------------------------------------------------
(* Every function comes back, but those for types: with less left to take  *)
(* or of a lower rank (Halting), a call is within the depth of calls.      *)

(* A statement takes a token. *)
HaltingTaking(f, k, m) ==
    \A n \in Int : \A q : Comes(q, n, q) /\ 5 * n + k <= m => Comes(q, n - 1, f[q])

(* A member may be a type, and the loop over a type's members does not     *)
(* look for the end of the source.                                         *)
TypeFree(toks) == \A i \in 1 .. Len(toks) : toks[i].id \notin DOMAIN DefinitionOf
HaltingTypeFree(f, k, m) ==
    \A n \in Int : \A q :
        Comes(q, n, q) /\ TypeFree(q.toks) /\ 5 * n + k <= m => Comes(q, n, f[q])

HaltsProgram(sub, m) ==
    /\ HaltsExprs(sub, m)
    /\ \A part \in ListParts : Halting(sub.PartList[part], 3, m)
    /\ Halting(sub.SwitchCases, 3, m)
    /\ Halting(sub.ForSteps, 3, m)
    /\ Halting(sub.ImplItems, 3, m)
    /\ HaltingTaking(sub.Stmt, 4, m)
    /\ Halting(sub.Block, 5, m)
    /\ Halting(sub.FnBody, 5, m)
    /\ Halting(sub.GenericParamList, 1, m)
    /\ Halting(sub.ParamList, 1, m)
    /\ \A item \in EnumParts : Halting(sub.EnumItems[item], 1, m)
    /\ HaltingTypeFree(sub.ProgramStmt, 1, m)
    /\ HaltingTypeFree(sub.ProgramStmts, 2, m)

LEMMA ExprOrTypeComes ==
    ASSUME NEW sub, NEW m \in Int, HaltsProgram(sub, m),
           NEW r, NEW n \in Int, NEW q, Comes(r, n, q), 5 * n + 2 <= m
    PROVE  Comes(r, n, sub.Expr[0][q]) /\ Comes(r, n, sub.TypeName[q])
  <1>1. HaltsExprs(sub, m) /\ 0 \in Int
    BY DEF HaltsProgram
  <1> QED BY <1>1, ExprComes, NamesCome

LEMMA StmtPartsCome ==
    ASSUME NEW sub, NEW m \in Int, HaltsProgram(sub, m),
           NEW r, NEW n \in Int, NEW q, Comes(r, n, q), 5 * n + 3 <= m
    PROVE  /\ \A part \in ListParts : Comes(r, n, sub.PartList[part][q])
           /\ Comes(r, n, sub.SwitchCases[q])
           /\ Comes(r, n, sub.ForSteps[q])
           /\ Comes(r, n, sub.ImplItems[q])
  <1>1. ASSUME NEW f, Halting(f, 3, m) PROVE Comes(r, n, f[q])
    BY <1>1, CallComes
  <1> QED BY <1>1 DEF HaltsProgram

LEMMA SubStmtComes ==
    ASSUME NEW sub, NEW m \in Int, HaltsProgram(sub, m),
           NEW r, NEW n \in Int, NEW q, Comes(r, n, q), 5 * n + 4 <= m
    PROVE  Comes(r, n - 1, sub.Stmt[q]) /\ Comes(r, n, sub.Stmt[q])
  <1>1. Comes(q, n, q)
    BY ComesHere
  <1>2. Comes(q, n - 1, sub.Stmt[q])
    BY <1>1 DEF HaltsProgram, HaltingTaking
  <1>3. n - 1 \in Int /\ n - 1 <= n
    OBVIOUS
  <1>4. Comes(r, n - 1, sub.Stmt[q])
    BY <1>2, <1>3, ComesOn
  <1> QED BY <1>3, <1>4, ComesLess

LEMMA BodiesCome ==
    ASSUME NEW sub, NEW m \in Int, HaltsProgram(sub, m),
           NEW r, NEW n \in Int, NEW q, Comes(r, n, q), 5 * n + 5 <= m
    PROVE  Comes(r, n, sub.Block[q]) /\ Comes(r, n, sub.FnBody[q])
  <1>1. Halting(sub.Block, 5, m) /\ Halting(sub.FnBody, 5, m)
    BY DEF HaltsProgram
  <1> QED BY <1>1, CallComes

LEMMA ItemsCome ==
    ASSUME NEW sub, NEW m \in Int, HaltsProgram(sub, m),
           NEW r, NEW n \in Int, NEW q, Comes(r, n, q), 5 * n + 1 <= m
    PROVE  /\ Comes(r, n, sub.GenericParamList[q])
           /\ Comes(r, n, sub.ParamList[q])
           /\ \A item \in EnumParts : Comes(r, n, sub.EnumItems[item][q])
  <1>1. ASSUME NEW f, Halting(f, 1, m) PROVE Comes(r, n, f[q])
    BY <1>1, CallComes
  <1> QED BY <1>1 DEF HaltsProgram

(* Statements. *)
LEMMA VarBindingComes ==
    ASSUME NEW sub, NEW m \in Int, HaltsProgram(sub, m),
           NEW r, NEW n \in Int, NEW q, Comes(r, n, q), 5 * n <= m + 3
    PROVE  Comes(r, n, VarBinding(sub, q))
  <1> DEFINE k == n - 1
             b == Begin(q, "VarBinding")
             named == Expect(b, "id")
             typed == After(named, ":", LAMBDA s : sub.TypeName[s])
             full == After(typed, "=", LAMBDA s : sub.Expr[0][s])
  <1>1. "VarBinding" \in NodeKinds /\ k \in Int /\ k <= n /\ 5 * k + 2 <= m
    BY DEF NodeKinds
  <1>2. Comes(b, k, named)
    BY <1>1, BeginComes, ExpectComes
  <1> HIDE DEF k, named
  <1>3. Comes(b, k, typed)
    <2>1. Comes(b, k, Take(named))
      BY <1>1, <1>2, TakeComes
    <2>2. Comes(b, k, sub.TypeName[Take(named)])
      BY <1>1, <2>1, ExprOrTypeComes
    <2> QED BY <1>2, <2>2 DEF After
  <1> HIDE DEF typed
  <1>4. Comes(b, k, full)
    <2>1. Comes(b, k, Take(typed))
      BY <1>1, <1>3, TakeComes
    <2>2. Comes(b, k, sub.Expr[0][Take(typed)])
      BY <1>1, <2>1, ExprOrTypeComes
    <2> QED BY <1>3, <2>2 DEF After
  <1> HIDE DEF full
  <1>5. Comes(r, k, Adopt(q, full))
    BY <1>1, <1>4, AdoptComes
  <1>6. Comes(r, n, Adopt(q, full))
    BY <1>1, <1>5, ComesLess
  <1> QED BY <1>6 DEF VarBinding, full, typed, named

LEMMA PartListComes ==
    ASSUME NEW sub, NEW m \in Int, HaltsProgram(sub, m),
           NEW r, NEW n \in Int, NEW q, Comes(r, n, q), 5 * n + 3 <= m + 1, NEW part \in ListParts
    PROVE  Comes(r, n, PartList(sub, q, part))
  <1> DEFINE k == n - 1
             p == Part(sub, part, q)
             t == Take(p)
  <1>1. k \in Int /\ k <= n /\ 5 * k + 3 <= m /\ 5 * n + 2 <= m /\ 5 * n <= m + 3
    OBVIOUS
  <1>2. Comes(r, n, p)
    BY <1>1, ExprOrTypeComes, VarBindingComes DEF Part
  <1> HIDE DEF p
  <1>3. Comes(r, k, t)
    BY <1>2, TakeComes
  <1> HIDE DEF k, t
  <1>4. Comes(r, k, sub.PartList[part][t])
    BY <1>1, <1>3, StmtPartsCome
  <1>5. Comes(r, n, sub.PartList[part][t])
    BY <1>1, <1>4, ComesLess
  <1> QED BY <1>2, <1>5 DEF PartList, Then, p, t

LEMMA VarBindingsCome ==
    ASSUME NEW sub, NEW m \in Int, HaltsProgram(sub, m),
           NEW r, NEW n \in Int, NEW q, Comes(r, n, q), 5 * n + 3 <= m
    PROVE  Comes(r, n, VarBindings(sub, q))
  <1> DEFINE b == Begin(q, "VarBindings")
  <1>1. "VarBindings" \in NodeKinds /\ "VarBinding" \in ListParts
    BY DEF NodeKinds, ListParts
  <1>2. Comes(b, n, b)
    BY <1>1, BeginComes
  <1>3. Comes(b, n, sub.PartList["VarBinding"][b])
    BY <1>1, <1>2, StmtPartsCome
  <1> QED BY <1>1, <1>3, AdoptComes DEF VarBindings

LEMMA ConditionComes ==
    ASSUME NEW sub, NEW m \in Int, HaltsProgram(sub, m),
           NEW r, NEW n \in Int, NEW q, Comes(r, n, q), 5 * n + 2 <= m
    PROVE  Comes(r, n, Condition(sub, q))
  <1>1. Comes(r, n, sub.Expr[0][Expect(q, "(")])
    BY ExpectComes, ExprOrTypeComes
  <1> QED BY <1>1, ExpectComes DEF Condition

LEMMA BlockComes ==
    ASSUME NEW sub, NEW m \in Int, HaltsProgram(sub, m),
           NEW r, NEW n \in Int, NEW q, Comes(r, n, q), 5 * n + 5 <= m + 1
    PROVE  Comes(r, n, Block(sub, q))
  <1> DEFINE k == n - 1
             s == sub.Stmt[q]
  <1>1. k \in Int /\ k <= n /\ 5 * k + 5 <= m /\ 5 * n + 4 <= m
    OBVIOUS
  <1>2. Comes(r, k, s)
    BY <1>1, SubStmtComes
  <1> HIDE DEF k, s
  <1>3. Comes(r, k, sub.Block[s])
    BY <1>1, <1>2, BodiesCome
  <1>4. Comes(r, n, sub.Block[s])
    BY <1>1, <1>3, ComesLess
  <1> QED BY <1>4 DEF Block, Then, s

LEMMA SwitchCasesCome ==
    ASSUME NEW sub, NEW m \in Int, HaltsProgram(sub, m),
           NEW r, NEW n \in Int, NEW q, Comes(r, n, q), 5 * n + 3 <= m + 1
    PROVE  Comes(r, n, SwitchCases(sub, q))
  <1> DEFINE k == n - 1
             b == Begin(q, "SwitchCase")
             label == CaseLabel(sub, b)
             c == Adopt(q, sub.Stmt[label])
             none == Report(Adopt(q, b), "UnexpectedToken")
  <1>1. /\ "SwitchCase" \in NodeKinds /\ "UnexpectedToken" \in Errors
        /\ k \in Int /\ k <= n /\ 5 * k + 4 <= m /\ 5 * k + 3 <= m /\ 5 * k + 2 <= m
    BY DEF NodeKinds, Errors
  <1>2. Comes(b, n, b)
    BY <1>1, BeginComes
  <1>3. Comes(b, k, label)
    <2>1. Comes(b, k, Take(b))
      BY <1>2, TakeComes
    <2> HIDE DEF k
    <2>2. Comes(b, k, Condition(sub, Take(b)))
      BY <1>1, <2>1, ConditionComes
    <2> QED BY <2>1, <2>2 DEF CaseLabel
  <1> HIDE DEF k, label
  <1>4. Comes(b, k, sub.Stmt[label])
    BY <1>1, <1>3, SubStmtComes
  <1>5. Comes(r, k, c)
    BY <1>1, <1>4, AdoptComes
  <1>6. Comes(r, n, none)
    <2>1. Comes(r, n, Adopt(q, b))
      BY <1>1, <1>2, AdoptComes
    <2> QED BY <1>1, <2>1, ReportComes
  <1> HIDE DEF b, c, none
  <1>7. Comes(r, k, sub.SwitchCases[c])
    BY <1>1, <1>5, StmtPartsCome
  <1>8. Comes(r, n, c) /\ Comes(r, n, sub.SwitchCases[c])
    BY <1>1, <1>5, <1>7, ComesLess
  <1> QED BY <1>6, <1>8 DEF SwitchCases, Then, c, none, label, b

(* A token that is known to be there is taken, whatever is noted.          *)
LEMMA PeekReady ==
    ASSUME NEW r, Wellformed(r), Ok(r), Peek(r) # "end"
    PROVE  Ready(r)
  <1> DEFINE n == Len(r.toks)
  <1>1. n \in 1 .. n
    <2>1. n \in Nat /\ r.toks # <<>>
      BY DEF Wellformed, Parser
    <2> QED BY <2>1, WellformedType
  <1>2. r.toks[n].id = "end"
    BY <1>1 DEF Wellformed
  <1>3. Solid(r) = 0 => Peek(r) = "end"
    BY <1>2 DEF Peek
  <1> QED BY <1>3 DEF Ready

LEMMA TryTakeComes ==
    ASSUME NEW r, NEW n \in Int, NEW q, Comes(r, n, q), Ok(q) => Peek(q) # "end"
    PROVE  Comes(r, n - 1, Try(q, Take))
  <1> DEFINE t == Take(q)
  <1>1. Comes(r, n - 1, t) /\ Wellformed(q)
    BY TakeComes, ComesType
  <1>2. Ok(q) => Ok(t)
    BY <1>1, PeekReady, TakeOk
  <1>3. ~ Ok(q) => Comes(r, n - 1, q)
    BY DEF Comes
  <1>4. Try(q, Take) = IF Ok(q) THEN IF t.err \in {"none", "endless"} THEN t ELSE Noted(t) ELSE q
    BY DEF Try, Noted
  <1> HIDE DEF t
  <1> QED BY <1>1, <1>2, <1>3, <1>4 DEF Ok

LEMMA TriesCome ==
    ASSUME NEW sub, NEW m \in Int, HaltsProgram(sub, m),
           NEW r, NEW n \in Int, NEW q, Comes(r, n, q), NEW kind
    PROVE  /\ 5 * n + 2 <= m => Comes(r, n, TryExpr(sub, q))
           /\ Comes(r, n, TryToken(q, kind))
  <1>1. Comes(q, n, q)
    BY ComesHere
  <1>2. 5 * n + 2 <= m => Comes(r, n, TryExpr(sub, q))
    <2>1. 5 * n + 2 <= m => Comes(q, n, sub.Expr[0][q])
      BY <1>1, ExprOrTypeComes
    <2> QED BY <2>1, NotedComes DEF TryExpr, Try
  <1>3. Comes(r, n, TryToken(q, kind))
    <2>1. Comes(q, n, Expect(q, kind))
      BY <1>1, ExpectComes
    <2> QED BY <2>1, NotedComes DEF TryToken, Try
  <1> QED BY <1>2, <1>3

LEMMA ForStepsComes ==
    ASSUME NEW sub, NEW m \in Int, HaltsProgram(sub, m),
           NEW r, NEW n \in Int, NEW q, Comes(r, n, q), 5 * n + 3 <= m + 1
    PROVE  Comes(r, n, ForSteps(sub, q))
  <1> DEFINE k == n - 1
             e == TryExpr(sub, q)
             t == Try(e, Take)
  <1>1. k \in Int /\ k <= n /\ 5 * k + 3 <= m /\ 5 * n + 2 <= m
    OBVIOUS
  <1>2. Comes(r, n, e)
    BY <1>1, TriesCome
  <1> HIDE DEF e
  <1>3. Peek(e) = "," => Comes(r, k, t)
    BY <1>2, TryTakeComes
  <1> HIDE DEF k, t
  <1>4. Peek(e) = "," => Comes(r, k, sub.ForSteps[t])
    BY <1>1, <1>3, StmtPartsCome
  <1>5. Peek(e) = "," => Comes(r, n, sub.ForSteps[t])
    BY <1>1, <1>4, ComesLess
  <1> QED BY <1>2, <1>5 DEF ForSteps, Then, e, t

LEMMA ForComes ==
    ASSUME NEW sub, NEW m \in Int, HaltsProgram(sub, m),
           NEW r, NEW n \in Int, NEW q, Comes(r, n, q), Ok(q) => Peek(q) # "end", 5 * n <= m + 1
    PROVE  Comes(r, n - 1, For(sub, q))
  <1> DEFINE k == n - 1
             keyword == Try(q, Take)
             open == TryToken(keyword, "(")
             bound == Try(open, LAMBDA s : VarBindings(sub, s))
             bindings == TryToken(bound, ";")
             expr == TryExpr(sub, bindings)
             condition == TryToken(expr, ";")
             steps == Then(condition, LAMBDA s : IF Peek(s) = ")" THEN s ELSE sub.ForSteps[s])
             close == TryToken(steps, ")")
             done == Try(close, LAMBDA s : sub.Stmt[s])
  <1>1. k \in Int /\ 5 * k + 2 <= m /\ 5 * k + 3 <= m /\ 5 * k + 4 <= m
    OBVIOUS
  <1>2. Comes(r, k, keyword)
    BY TryTakeComes
  <1> HIDE DEF k, keyword
  <1>3. Comes(r, k, open)
    BY <1>1, <1>2, TriesCome
  <1> HIDE DEF open
  <1>4. Comes(r, k, bound)
    <2>1. Comes(open, k, open)
      BY <1>1, <1>3, ComesHere
    <2>2. Comes(open, k, VarBindings(sub, open))
      BY <1>1, <2>1, VarBindingsCome
    <2> QED BY <1>1, <1>3, <2>2, NotedComes DEF Try
  <1> HIDE DEF bound
  <1>5. Comes(r, k, bindings)
    BY <1>1, <1>4, TriesCome
  <1> HIDE DEF bindings
  <1>6. Comes(r, k, expr)
    BY <1>1, <1>5, TriesCome
  <1> HIDE DEF expr
  <1>7. Comes(r, k, condition)
    BY <1>1, <1>6, TriesCome
  <1> HIDE DEF condition
  <1>8. Comes(r, k, steps)
    <2>1. Comes(r, k, sub.ForSteps[condition])
      BY <1>1, <1>7, StmtPartsCome
    <2> QED BY <1>7, <2>1 DEF Then
  <1> HIDE DEF steps
  <1>9. Comes(r, k, close)
    BY <1>1, <1>8, TriesCome
  <1> HIDE DEF close
  <1>10. Comes(r, k, done)
    <2>1. Comes(close, k, close)
      BY <1>1, <1>9, ComesHere
    <2>2. Comes(close, k, sub.Stmt[close])
      BY <1>1, <2>1, SubStmtComes
    <2> QED BY <1>1, <1>9, <2>2, NotedComes DEF Try
  <1>11. For(sub, q) = done
    BY DEF For, close, steps, condition, expr, bindings, bound, open, keyword
  <1> HIDE DEF done
  <1> QED BY <1>10, <1>11 DEF k

LEMMA KeywordStmtComes ==
    ASSUME NEW sub, NEW m \in Int, HaltsProgram(sub, m),
           NEW r, NEW n \in Int, NEW q, Comes(r, n, q), 5 * n + 5 <= m
    PROVE  \A keyword \in {"if", "while", "do", "let", "var", "switch", "{"} :
               Comes(r, n, KeywordStmt(sub, q, keyword))
  <1> DEFINE condition == Condition(sub, q)
             body == sub.Stmt[q]
             bindings == VarBindings(sub, q)
             block == sub.Block[q]
             open == Expect(condition, "{")
             cases == sub.SwitchCases[open]
             check == Condition(sub, body)
  <1>1. 5 * n + 2 <= m /\ 5 * n + 3 <= m /\ 5 * n + 4 <= m
    OBVIOUS
  <1>2. Comes(r, n, condition) /\ Comes(r, n, body) /\ Comes(r, n, bindings) /\ Comes(r, n, block)
    BY <1>1, ConditionComes, SubStmtComes, VarBindingsCome, BodiesCome
  <1> HIDE DEF condition, body, bindings, block
  <1>3. Comes(r, n, open)
    BY <1>2, ExpectComes
  <1> HIDE DEF open
  <1>4. Comes(r, n, cases)
    BY <1>1, <1>3, StmtPartsCome
  <1> HIDE DEF cases
  <1>5. Comes(r, n, check)
    BY <1>1, <1>2, ConditionComes
  <1> HIDE DEF check
  <1>6. /\ Comes(r, n, sub.Stmt[condition]) /\ Comes(r, n, Expect(check, ";"))
        /\ Comes(r, n, Expect(bindings, ";")) /\ Comes(r, n, Expect(cases, "}"))
        /\ Comes(r, n, Expect(block, "}"))
    BY <1>1, <1>2, <1>4, <1>5, SubStmtComes, ExpectComes
  <1> QED BY <1>6 DEF KeywordStmt, check, cases, open, block, bindings, body, condition

LEMMA StmtComes ==
    ASSUME NEW sub, NEW m \in Int, HaltsProgram(sub, m),
           NEW r, NEW n \in Int, NEW q, Comes(r, n, q), 5 * n + 4 <= m + 1
    PROVE  Comes(r, n - 1, Stmt(sub, q))
  <1> DEFINE k == n - 1
             b == Begin(q, "Stmt")
             first == Peek(q)
             body == StmtBody(sub, b, first)
  <1>1. /\ "Stmt" \in NodeKinds /\ "ExprStmt" \in NodeKinds /\ "Expr" \in ListParts
        /\ \A w \in {"if", "while", "do", "let", "var", "switch", "{", "for"} : w \in NodeKinds
    BY DEF NodeKinds, ListParts
  <1>2. k \in Int /\ 5 * k + 5 <= m /\ 5 * n + 3 <= m /\ 5 * n <= m + 1
    OBVIOUS
  <1>3. Comes(b, n, b)
    BY <1>1, BeginComes
  <1>4. Peek(b) = first /\ (Ok(b) => Peek(As(b, "for")) = first)
    <2>1. q \in Parser
      BY ComesType
    <2>2. b.toks = q.toks /\ b.at = q.at /\ b \in Parser
      BY <1>3, <2>1, ComesType DEF Begin, Parser
    <2> HIDE DEF b
    <2>3. Peek(b) = Peek(q)
      BY <2>2 DEF Peek, Solid
    <2> DEFINE f == As(b, "for")
    <2>4. f.toks = b.toks /\ f.at = b.at
      BY <2>2 DEF As, Parser
    <2> HIDE DEF f
    <2>5. Peek(f) = Peek(b)
      BY <2>4 DEF Peek, Solid
    <2> QED BY <2>3, <2>5 DEF f
  <1> HIDE DEF b, first
  <1>5. ASSUME NEW w \in {"if", "while", "do", "let", "var", "switch", "{"}
        PROVE  Comes(b, k, KeywordStmt(sub, Take(As(b, w)), w))
    <2>1. Comes(b, k, Take(As(b, w)))
      BY <1>1, <1>3, TakenComes
    <2> HIDE DEF k
    <2> QED BY <1>2, <2>1, KeywordStmtComes
  <1>6. first = "for" => Comes(b, k, For(sub, As(b, "for")))
    <2> DEFINE f == As(b, "for")
    <2>1. Comes(b, n, f)
      BY <1>1, <1>3, AsComes
    <2>2. Ok(f) => Ok(b)
      <3>1. b \in Parser
        BY <1>3, ComesType
      <3> QED BY <3>1 DEF As, Ok, Parser
    <2>3. first = "for" => (Ok(f) => Peek(f) # "end")
      BY <1>4, <2>2
    <2> HIDE DEF f
    <2>4. first = "for" => Comes(b, n - 1, For(sub, f))
      BY <1>2, <2>1, <2>3, ForComes
    <2> QED BY <2>4 DEF f
  <1>7. Comes(b, k, Expect(sub.PartList["Expr"][As(b, "ExprStmt")], ";"))
    <2>1. Comes(b, n, As(b, "ExprStmt"))
      BY <1>1, <1>3, AsComes
    <2>2. Comes(b, n, sub.PartList["Expr"][As(b, "ExprStmt")])
      BY <1>1, <1>2, <2>1, StmtPartsCome
    <2> QED BY <2>2, ExpectComes
  <1> HIDE DEF k
  <1>8. Comes(b, k, body)
    BY <1>5, <1>6, <1>7 DEF StmtBody
  <1> HIDE DEF body
  <1>9. Comes(r, k, Adopt(q, body))
    BY <1>1, <1>2, <1>8, AdoptComes DEF b
  <1> QED BY <1>9 DEF Stmt, body, b, first, k

(* Parameters, bases and functions. *)
LEMMA InheritanceSlotComes ==
    ASSUME NEW sub, NEW m \in Int, HaltsProgram(sub, m),
           NEW r, NEW n \in Int, NEW q, Comes(r, n, q), 5 * n + 2 <= m
    PROVE  Comes(r, n, InheritanceSlot(sub, q))
  <1> DEFINE b == Begin(q, "InheritanceSlot")
             t == Take(b)
  <1>1. "InheritanceSlot" \in NodeKinds
    BY DEF NodeKinds
  <1>2. Comes(b, n, t)
    BY <1>1, BeginComes, TakeComes
  <1> HIDE DEF t
  <1>3. Comes(b, n, Expect(sub.TypeName[t], ")"))
    BY <1>2, ExprOrTypeComes, ExpectComes
  <1>4. Comes(r, n, Adopt(q, Expect(sub.TypeName[t], ")")))
    BY <1>1, <1>3, AdoptComes
  <1> QED BY <1>4 DEF InheritanceSlot, t

LEMMA ImplItemsCome ==
    ASSUME NEW sub, NEW m \in Int, HaltsProgram(sub, m),
           NEW r, NEW n \in Int, NEW q, Comes(r, n, q), 5 * n + 3 <= m + 1
    PROVE  Comes(r, n, ImplItems(sub, q))
  <1> DEFINE k == n - 1
             b == Begin(q, "ImplItem")
             o == Optional(b, {"trait"})
             i == ImplItem(sub, q)
             t == Take(i)
  <1>1. "ImplItem" \in NodeKinds /\ k \in Int /\ k <= n /\ 5 * k + 3 <= m /\ 5 * n + 2 <= m
    BY DEF NodeKinds
  <1>2. Comes(b, n, o)
    BY <1>1, BeginComes, OptionalComes
  <1> HIDE DEF o
  <1>3. Comes(b, n, sub.TypeName[o])
    BY <1>1, <1>2, ExprOrTypeComes
  <1>4. Comes(r, n, i)
    <2>1. Comes(r, n, Adopt(q, sub.TypeName[o]))
      BY <1>1, <1>3, AdoptComes
    <2> QED BY <2>1 DEF ImplItem, o
  <1> HIDE DEF i
  <1>5. Comes(r, k, t)
    BY <1>4, TakeComes
  <1> HIDE DEF k, t
  <1>6. Comes(r, k, sub.ImplItems[t])
    BY <1>1, <1>5, StmtPartsCome
  <1>7. Comes(r, n, sub.ImplItems[t])
    BY <1>1, <1>6, ComesLess
  <1> QED BY <1>4, <1>7 DEF ImplItems, Then, t, i

LEMMA ImplListComes ==
    ASSUME NEW sub, NEW m \in Int, HaltsProgram(sub, m),
           NEW r, NEW n \in Int, NEW q, Comes(r, n, q), 5 * n + 3 <= m
    PROVE  Comes(r, n, ImplList(sub, q))
  <1> DEFINE b == Begin(q, "ImplItem")
             t == Take(b)
  <1>1. "ImplItem" \in NodeKinds
    BY DEF NodeKinds
  <1>2. Comes(b, n, t)
    BY <1>1, BeginComes, TakeComes
  <1> HIDE DEF t
  <1>3. Comes(b, n, sub.ImplItems[t])
    BY <1>2, StmtPartsCome
  <1>4. Comes(r, n, Adopt(q, sub.ImplItems[t]))
    BY <1>1, <1>3, AdoptComes
  <1> QED BY <1>4 DEF ImplList, t

LEMMA GenericParamListComes ==
    ASSUME NEW sub, NEW m \in Int, HaltsProgram(sub, m),
           NEW r, NEW n \in Int, NEW q, Comes(r, n, q), 5 * n + 1 <= m + 1
    PROVE  Comes(r, n, GenericParamList(sub, q))
  <1> DEFINE k == n - 1
             b == Begin(q, "GenericParam")
             named == Expect(b, "id")
             slot == InheritanceSlot(sub, named)
             impls == ImplList(sub, slot)
             p == GenericParam(sub, q)
             t == Take(p)
  <1>1. /\ "GenericParam" \in NodeKinds
        /\ k \in Int /\ k <= n /\ 5 * k + 3 <= m /\ 5 * k + 2 <= m /\ 5 * k + 1 <= m
    BY DEF NodeKinds
  <1>2. Comes(b, k, named)
    BY <1>1, BeginComes, ExpectComes
  <1> HIDE DEF k, named
  <1>3. Comes(b, k, slot)
    BY <1>1, <1>2, InheritanceSlotComes
  <1> HIDE DEF slot
  <1>4. Comes(b, k, impls)
    BY <1>1, <1>3, ImplListComes
  <1> HIDE DEF impls
  <1>5. Comes(r, k, p)
    <2>1. Comes(r, k, Adopt(q, impls))
      BY <1>1, <1>4, AdoptComes
    <2> QED BY <2>1 DEF GenericParam, impls, slot, named
  <1> HIDE DEF p
  <1>6. Comes(r, k, t)
    BY <1>1, <1>5, TakeComes
  <1> HIDE DEF t
  <1>7. Comes(r, k, sub.GenericParamList[t])
    BY <1>1, <1>6, ItemsCome
  <1>8. Comes(r, n, p) /\ Comes(r, n, sub.GenericParamList[t])
    BY <1>1, <1>5, <1>7, ComesLess
  <1> QED BY <1>8 DEF GenericParamList, Then, t, p

LEMMA GenericParamsCome ==
    ASSUME NEW sub, NEW m \in Int, HaltsProgram(sub, m),
           NEW r, NEW n \in Int, NEW q, Comes(r, n, q), 5 * n + 1 <= m
    PROVE  Comes(r, n, GenericParams(sub, q))
  <1>1. Comes(r, n, Expect(sub.GenericParamList[Take(q)], ">"))
    <2>1. Comes(r, n, sub.GenericParamList[Take(q)])
      BY TakeComes, ItemsCome
    <2> QED BY <2>1, ExpectComes
  <1> QED BY <1>1 DEF GenericParams

LEMMA OperatorNameComes ==
    ASSUME NEW r, NEW n \in Int, NEW q, Comes(r, n, q)
    PROVE  Comes(r, n, OperatorName(q))
  <1> DEFINE b == Begin(q, "OperatorName")
             name == CASE Peek(q) \in Overloadable -> Take(b)
                       [] Peek(q) = "(" -> Expect(Take(b), ")")
                       [] Peek(q) = "[" -> Expect(Take(b), "]")
                       [] OTHER -> Report(b, "UnexpectedToken")
  <1>1. "OperatorName" \in NodeKinds /\ "UnexpectedToken" \in Errors
    BY DEF NodeKinds, Errors
  <1>2. Comes(b, n, b)
    BY <1>1, BeginComes
  <1> HIDE DEF b
  <1>3. Comes(b, n, Take(b)) /\ Comes(b, n, Expect(Take(b), ")"))
        /\ Comes(b, n, Expect(Take(b), "]")) /\ Comes(b, n, Report(b, "UnexpectedToken"))
    BY <1>1, <1>2, TakeComes, ExpectComes, ReportComes
  <1>4. Comes(b, n, name)
    BY <1>3
  <1> HIDE DEF name
  <1>5. Comes(r, n, Adopt(q, name))
    BY <1>1, <1>4, AdoptComes DEF b
  <1> QED BY <1>5, Zenon DEF OperatorName, name, b

LEMMA ParamListComes ==
    ASSUME NEW sub, NEW m \in Int, HaltsProgram(sub, m),
           NEW r, NEW n \in Int, NEW q, Comes(r, n, q), 5 * n + 1 <= m + 1
    PROVE  Comes(r, n, ParamList(sub, q))
  <1> DEFINE k == n - 1
             p == Param(sub, q)
             t == Take(p)
  <1>1. k \in Int /\ k <= n /\ 5 * k + 1 <= m /\ 5 * n <= m + 3
    OBVIOUS
  <1>2. Comes(r, n, p)
    BY <1>1, TakeComes, VarBindingComes DEF Param
  <1> HIDE DEF p
  <1>3. Comes(r, k, t)
    BY <1>2, TakeComes
  <1> HIDE DEF k, t
  <1>4. Comes(r, k, sub.ParamList[t])
    BY <1>1, <1>3, ItemsCome
  <1>5. Comes(r, n, sub.ParamList[t])
    BY <1>1, <1>4, ComesLess
  <1> QED BY <1>2, <1>5 DEF ParamList, Then, p, t

LEMMA ParamsCome ==
    ASSUME NEW sub, NEW m \in Int, HaltsProgram(sub, m),
           NEW r, NEW n \in Int, NEW q, Comes(r, n, q), 5 * n + 1 <= m
    PROVE  Comes(r, n, Params(sub, q))
  <1> DEFINE s == Expect(q, "(")
             b == Begin(s, "VarBindings")
             list == Adopt(s, sub.ParamList[b])
  <1>1. "VarBindings" \in NodeKinds
    BY DEF NodeKinds
  <1>2. Comes(r, n, s)
    BY ExpectComes
  <1> HIDE DEF s
  <1>3. Comes(b, n, sub.ParamList[b])
    BY <1>1, <1>2, BeginComes, ItemsCome
  <1>4. Comes(r, n, list)
    BY <1>1, <1>2, <1>3, AdoptComes
  <1> HIDE DEF list
  <1>5. Comes(r, n, Expect(s, ")")) /\ Comes(r, n, Expect(list, ")"))
    BY <1>2, <1>4, ExpectComes
  <1> QED BY <1>2, <1>5 DEF Params, Then, s, b, list

LEMMA FnComes ==
    ASSUME NEW sub, NEW m \in Int, HaltsProgram(sub, m),
           NEW r, NEW n \in Int, NEW q, Comes(r, n, q), 5 * n <= m
    PROVE  Comes(r, n, Fn(sub, q))
  <1> DEFINE k == n - 1
             start == As(q, "FnDef")
             named == FnName(start)
             generic == GenericParams(sub, named)
             signature == Params(sub, generic)
             qualified == Optionals(signature, {"const"}, {"restrict"}, {"virtual"})
             overriding == After(qualified, "override", LAMBDA s :
                               After(s, "(", LAMBDA t : Expect(sub.TypeName[t], ")")))
             typed == After(overriding, "->", LAMBDA s : sub.TypeName[s])
             done == Then(typed, LAMBDA s :
                         CASE Peek(s) = "{" -> Expect(sub.FnBody[Take(s)], "}")
                           [] Peek(s) = ";" -> As(Take(s), "FnDecl")
                           [] OTHER -> Report(s, "UnexpectedToken"))
  <1>1. /\ "FnDef" \in NodeKinds /\ "FnDecl" \in NodeKinds /\ "UnexpectedToken" \in Errors
        /\ k \in Int /\ k <= n /\ 5 * k + 5 <= m /\ 5 * k + 2 <= m /\ 5 * k + 1 <= m
    BY DEF NodeKinds, Errors
  <1>2. Comes(r, k, named)
    <2>1. Comes(r, n, start)
      BY <1>1, AsComes
    <2> HIDE DEF start
    <2>2. Comes(r, k, Take(start))
      BY <2>1, TakeComes
    <2> HIDE DEF k
    <2>3. Comes(r, k, Expect(Take(start), "id")) /\ Comes(r, k, OperatorName(Take(start)))
      BY <1>1, <2>2, ExpectComes, OperatorNameComes
    <2> QED BY <2>3 DEF FnName
  <1> HIDE DEF k, named
  <1>3. Comes(r, k, generic)
    BY <1>1, <1>2, GenericParamsCome
  <1> HIDE DEF generic
  <1>4. Comes(r, k, signature)
    BY <1>1, <1>3, ParamsCome
  <1> HIDE DEF signature
  <1>5. Comes(r, k, qualified)
    BY <1>1, <1>4, OptionalsCome
  <1> HIDE DEF qualified
  <1>6. Comes(r, k, overriding)
    <2>1. Comes(r, k, Take(qualified))
      BY <1>1, <1>5, TakeComes
    <2>2. Comes(r, k, Take(Take(qualified)))
      BY <1>1, <2>1, TakeComes
    <2>3. Comes(r, k, sub.TypeName[Take(Take(qualified))])
      BY <1>1, <2>2, ExprOrTypeComes
    <2>4. Comes(r, k, Expect(sub.TypeName[Take(Take(qualified))], ")"))
      BY <1>1, <2>3, ExpectComes
    <2> QED BY <1>5, <2>1, <2>4 DEF After
  <1> HIDE DEF overriding
  <1>7. Comes(r, k, typed)
    <2>1. Comes(r, k, Take(overriding))
      BY <1>1, <1>6, TakeComes
    <2>2. Comes(r, k, sub.TypeName[Take(overriding)])
      BY <1>1, <2>1, ExprOrTypeComes
    <2> QED BY <1>6, <2>2 DEF After
  <1> HIDE DEF typed
  <1>8. Comes(r, k, Take(typed))
    BY <1>1, <1>7, TakeComes
  <1>9. Comes(r, k, Expect(sub.FnBody[Take(typed)], "}"))
    <2>1. Comes(r, k, sub.FnBody[Take(typed)])
      BY <1>1, <1>8, BodiesCome
    <2> QED BY <1>1, <2>1, ExpectComes
  <1>10. Comes(r, k, As(Take(typed), "FnDecl")) /\ Comes(r, k, Report(typed, "UnexpectedToken"))
    BY <1>1, <1>7, <1>8, AsComes, ReportComes
  <1>11. Comes(r, k, done)
    BY <1>7, <1>9, <1>10 DEF Then
  <1> HIDE DEF done
  <1>12. Comes(r, n, done)
    BY <1>1, <1>11, ComesLess
  <1> QED BY <1>12, Zenon DEF Fn, done, typed, overriding, qualified, signature, generic, named,
                              start

(* Enumerations. *)
LEMMA EnumItemComes ==
    ASSUME NEW sub, NEW m \in Int, HaltsProgram(sub, m),
           NEW r, NEW n \in Int, NEW q, Comes(r, n, q), 5 * n <= m
    PROVE  Comes(r, n, EnumItem(sub, q))
  <1> DEFINE k == n - 1
             b == Begin(q, "ConstAndScopedEnumItem")
             named == Expect(b, "id")
             full == After(named, "=", LAMBDA s : sub.Expr[0][s])
  <1>1. "ConstAndScopedEnumItem" \in NodeKinds /\ k \in Int /\ k <= n /\ 5 * k + 2 <= m
    BY DEF NodeKinds
  <1>2. Comes(b, k, named)
    BY <1>1, BeginComes, ExpectComes
  <1> HIDE DEF k, named
  <1>3. Comes(b, k, full)
    <2>1. Comes(b, k, Take(named))
      BY <1>1, <1>2, TakeComes
    <2>2. Comes(b, k, sub.Expr[0][Take(named)])
      BY <1>1, <2>1, ExprOrTypeComes
    <2> QED BY <1>2, <2>2 DEF After
  <1> HIDE DEF full
  <1>4. Comes(r, k, Adopt(q, full))
    BY <1>1, <1>3, AdoptComes
  <1>5. Comes(r, n, Adopt(q, full))
    BY <1>1, <1>4, ComesLess
  <1> QED BY <1>5 DEF EnumItem, full, named

LEMMA UnionCaseComes ==
    ASSUME NEW sub, NEW m \in Int, HaltsProgram(sub, m),
           NEW r, NEW n \in Int, NEW q, Comes(r, n, q), 5 * n <= m
    PROVE  Comes(r, n, UnionCase(sub, q))
  <1> DEFINE k == n - 1
             b == Begin(q, "UnionEnumCase")
             keyword == Expect(b, "case")
             named == Expect(keyword, "id")
             open == Expect(named, "(")
             bindings == VarBindings(sub, open)
             full == Expect(bindings, ")")
  <1>1. "UnionEnumCase" \in NodeKinds /\ k \in Int /\ k <= n /\ 5 * k + 3 <= m
    BY DEF NodeKinds
  <1>2. Comes(b, k, keyword)
    BY <1>1, BeginComes, ExpectComes
  <1> HIDE DEF k, keyword
  <1>3. Comes(b, k, named)
    BY <1>1, <1>2, ExpectComes
  <1> HIDE DEF named
  <1>4. Comes(b, k, open)
    BY <1>1, <1>3, ExpectComes
  <1> HIDE DEF open
  <1>5. Comes(b, k, bindings)
    BY <1>1, <1>4, VarBindingsCome
  <1> HIDE DEF bindings
  <1>6. Comes(b, k, full)
    BY <1>1, <1>5, ExpectComes
  <1> HIDE DEF full
  <1>7. Comes(r, k, Adopt(q, full))
    BY <1>1, <1>6, AdoptComes
  <1>8. Comes(r, n, Adopt(q, full))
    BY <1>1, <1>7, ComesLess
  <1> QED BY <1>8 DEF UnionCase, full, bindings, open, named, keyword

LEMMA EnumItemsCome ==
    ASSUME NEW sub, NEW m \in Int, HaltsProgram(sub, m),
           NEW r, NEW n \in Int, NEW q, Comes(r, n, q), 5 * n + 1 <= m + 1, NEW item \in EnumParts
    PROVE  Comes(r, n, EnumItems(sub, q, item))
  <1> DEFINE k == n - 1
             i == IF item = "EnumItem" THEN EnumItem(sub, q) ELSE UnionCase(sub, q)
             t == Take(i)
  <1>1. k \in Int /\ k <= n /\ 5 * k + 1 <= m /\ 5 * n <= m
    OBVIOUS
  <1>2. Comes(r, n, i)
    BY <1>1, EnumItemComes, UnionCaseComes
  <1> HIDE DEF i
  <1>3. Comes(r, k, t)
    BY <1>2, TakeComes
  <1> HIDE DEF k, t
  <1>4. Comes(r, k, sub.EnumItems[item][t])
    BY <1>1, <1>3, ItemsCome
  <1>5. Comes(r, n, sub.EnumItems[item][t])
    BY <1>1, <1>4, ComesLess
  <1> QED BY <1>2, <1>5 DEF EnumItems, Then, i, t

LEMMA EnumDefComes ==
    ASSUME NEW sub, NEW m \in Int, HaltsProgram(sub, m),
           NEW r, NEW n \in Int, NEW q, Comes(r, n, q), 5 * n + 2 <= m, NEW item \in EnumParts
    PROVE  Comes(r, n, EnumDef(sub, q, item))
  <1> DEFINE named == Expect(q, "id")
             generic == GenericParams(sub, named)
             head == InheritanceSlot(sub, generic)
             open == Expect(head, "{")
             items == sub.EnumItems[item][open]
  <1>1. 5 * n + 1 <= m
    OBVIOUS
  <1>2. Comes(r, n, named)
    BY ExpectComes
  <1> HIDE DEF named
  <1>3. Comes(r, n, generic)
    BY <1>1, <1>2, GenericParamsCome
  <1> HIDE DEF generic
  <1>4. Comes(r, n, head)
    BY <1>3, InheritanceSlotComes
  <1> HIDE DEF head
  <1>5. Comes(r, n, open)
    BY <1>4, ExpectComes
  <1> HIDE DEF open
  <1>6. Comes(r, n, items)
    BY <1>1, <1>5, ItemsCome
  <1> HIDE DEF items
  <1>7. Comes(r, n, Expect(items, "}"))
    BY <1>6, ExpectComes
  <1> QED BY <1>7 DEF EnumDef, items, open, head, generic, named

LEMMA EnumComes ==
    ASSUME NEW sub, NEW m \in Int, HaltsProgram(sub, m),
           NEW r, NEW n \in Int, NEW q, Comes(r, n, q), 5 * n + 2 <= m
    PROVE  Comes(r, n, Enum(sub, q))
  <1>1. /\ "ConstEnumDef" \in NodeKinds /\ "ScopedEnumDef" \in NodeKinds
        /\ "EnumItem" \in EnumParts /\ "UnionCase" \in EnumParts /\ "UnexpectedToken" \in Errors
    BY DEF NodeKinds, EnumParts, Errors
  <1>2. Comes(r, n, EnumDef(sub, Take(As(q, "ConstEnumDef")), "EnumItem"))
    <2>1. Comes(r, n, Take(As(q, "ConstEnumDef")))
      BY <1>1, AsComes, TakeComes
    <2> QED BY <1>1, <2>1, EnumDefComes
  <1>3. Comes(r, n, As(q, "ScopedEnumDef")) /\ Comes(r, n, Take(As(q, "ScopedEnumDef")))
    BY <1>1, AsComes, TakeComes
  <1>4. /\ Comes(r, n, EnumDef(sub, As(q, "ScopedEnumDef"), "EnumItem"))
        /\ Comes(r, n, EnumDef(sub, Take(As(q, "ScopedEnumDef")), "UnionCase"))
    BY <1>1, <1>3, EnumDefComes
  <1>5. Comes(r, n, Fail(q, "UnexpectedToken"))
    BY <1>1, FailComes
  <1> QED BY <1>2, <1>4, <1>5 DEF Enum

-----------------------------------------------------------------------------
(* The loops that go on after errors: each turn takes a token, as there is *)
(* one and each statement and each member begins by taking it.             *)

LEMMA ProgramExprPast ==
    ASSUME NEW n \in Nat, NEW p \in Int, NEW r, Ready(r)
    PROVE  Past(r, ProgramCalls[n + 2].Expr[p][r])
  <1> DEFINE sub == ProgramCalls[n]
             functions == ProgramCalls[n + 1]
  <1>1. n + 1 \in Nat /\ n + 2 = (n + 1) + 1
    OBVIOUS
  <1>2. KeepsExprs(sub) /\ KeepsExprs(functions)
    BY <1>1, ProgramCallsKeep DEF KeepsProgram
  <1>3. functions = ProgramFunctions(sub) /\ ProgramCalls[n + 2] = ProgramFunctions(functions)
    BY <1>1, ProgramCallsStep
  <1> HIDE DEF sub, functions
  <1>4. functions.IdRefEntries = ExprFunctions(sub).IdRefEntries
    <2>1. ProgramFunctions(sub).IdRefEntries = ExprFunctions(sub).IdRefEntries
      BY Zenon DEF ProgramFunctions
    <2> QED BY <1>3, <2>1
  <1>5. Past(r, Expr(functions, r, p))
    BY <1>2, <1>4, ParseExprPast
  <1>6. r \in Parser
    BY DEF Ready, Wellformed
  <1>7. ProgramFunctions(functions).Expr[p][r] = Expr(functions, r, p)
    <2>1. ProgramFunctions(functions).Expr = ExprFunctions(functions).Expr
      BY Zenon DEF ProgramFunctions
    <2>2. ExprFunctions(functions).Expr[p][r] = Expr(functions, r, p)
      BY <1>6, Zenon DEF ExprFunctions
    <2> QED BY <2>1, <2>2
  <1> QED BY <1>3, <1>5, <1>7

LEMMA ExprListPast ==
    ASSUME NEW n \in Nat, NEW r, Ready(r)
    PROVE  Past(r, ProgramCalls[n + 3].PartList["Expr"][r])
  <1> DEFINE sub == ProgramCalls[n + 2]
             e == sub.Expr[0][r]
             list == ProgramCalls[n + 3].PartList["Expr"][r]
  <1>1. n + 2 \in Nat /\ n + 3 = (n + 2) + 1 /\ 0 \in Int /\ "Expr" \in ListParts
    BY DEF ListParts
  <1>2. r \in Parser
    BY DEF Ready, Wellformed
  <1>3. KeepsProgram(sub)
    BY <1>1, ProgramCallsKeep
  <1>4. list = PartList(sub, r, "Expr")
    <2>1. ProgramCalls[n + 3] = ProgramFunctions(sub)
      BY <1>1, ProgramCallsStep
    <2>2. ProgramFunctions(sub).PartList["Expr"][r] = PartList(sub, r, "Expr")
      BY <1>1, <1>2, Zenon DEF ProgramFunctions
    <2> QED BY <2>1, <2>2
  <1>5. Past(r, e)
    BY <1>1, ProgramExprPast
  <1> HIDE DEF sub, list
  <1>6. Follows(e, e)
    BY <1>5, FollowsItself DEF Past, Continues, Wellformed
  <1>7. Follows(e, sub.PartList["Expr"][Take(e)])
    BY <1>1, <1>3, <1>6, TakeFollows, StmtsFollow
  <1>8. Past(r, sub.PartList["Expr"][Take(e)])
    BY <1>5, <1>7, PastThen
  <1>9. Part(sub, "Expr", r) = e
    BY DEF Part
  <1> HIDE DEF e
  <1>10. Past(r, list)
    BY <1>4, <1>5, <1>8, <1>9 DEF PartList, Then
  <1> QED BY <1>10 DEF list

LEMMA StmtPast ==
    ASSUME NEW n \in Nat, NEW r, Ready(r)
    PROVE  Past(r, ProgramCalls[n + 4].Stmt[r])
  <1> DEFINE sub == ProgramCalls[n + 3]
             b == Begin(r, "Stmt")
             first == Peek(r)
             body == StmtBody(sub, b, first)
             stmt == ProgramCalls[n + 4].Stmt[r]
  <1>1. /\ "Stmt" \in NodeKinds /\ "ExprStmt" \in NodeKinds
        /\ \A w \in {"if", "while", "do", "let", "var", "switch", "{", "for"} : w \in NodeKinds
    BY DEF NodeKinds
  <1>2. n + 3 \in Nat /\ n + 4 = (n + 3) + 1
    OBVIOUS
  <1>3. KeepsProgram(sub)
    BY <1>2, ProgramCallsKeep
  <1>4. stmt = Adopt(r, body)
    <2>1. ProgramCalls[n + 4] = ProgramFunctions(sub)
      BY <1>2, ProgramCallsStep
    <2>2. r \in Parser
      BY DEF Ready, Wellformed
    <2>3. ProgramFunctions(sub).Stmt[r] = Stmt(sub, r)
      BY <2>2, Zenon DEF ProgramFunctions
    <2> QED BY <2>1, <2>3 DEF Stmt
  <1>5. Ready(b)
    BY <1>1, BeginReady
  <1> HIDE DEF b, first, stmt
  <1>6. Past(b, Expect(sub.PartList["Expr"][As(b, "ExprStmt")], ";"))
    <2> DEFINE s == As(b, "ExprStmt")
               list == sub.PartList["Expr"][s]
    <2>1. Ready(s) /\ Continues(b, s)
      BY <1>1, <1>5, AsReady
    <2> HIDE DEF s
    <2>2. Past(s, list)
      BY <2>1, ExprListPast
    <2> HIDE DEF list
    <2>3. Past(b, list)
      BY <2>1, <2>2, PastFrom
    <2>4. Follows(list, Expect(list, ";"))
      BY <2>3, FollowsItself, ExpectFollows DEF Past, Continues, Wellformed
    <2>5. Past(b, Expect(list, ";"))
      BY <2>3, <2>4, PastThen
    <2> QED BY <2>5 DEF list, s
  <1> HIDE DEF sub
  <1>7. ASSUME NEW w \in {"if", "while", "do", "let", "var", "switch", "{"}
        PROVE  Past(b, KeywordStmt(sub, Take(As(b, w)), w))
    <2> DEFINE t == Take(As(b, w))
    <2>1. Past(b, t)
      BY <1>1, <1>5, AsPast
    <2> HIDE DEF t
    <2>2. Follows(t, KeywordStmt(sub, t, w))
      BY <1>3, <2>1, FollowsItself, KeywordStmtFollows DEF Past, Continues, Wellformed
    <2>3. Past(b, KeywordStmt(sub, t, w))
      BY <2>1, <2>2, PastThen
    <2> QED BY <2>3 DEF t
  <1>8. Past(b, For(sub, As(b, "for")))
    <2> DEFINE s == As(b, "for")
               t == Try(s, Take)
    <2>1. Ready(s) /\ Past(b, Take(s))
      BY <1>1, <1>5, AsReady, AsPast
    <2> HIDE DEF s
    <2>2. t = Take(s)
      <3>1. Ok(s) /\ Ok(Take(s))
        BY <2>1, TakeOk DEF Ready
      <3>2. t = IF Take(s).err \in {"none", "endless"} THEN Take(s) ELSE Noted(Take(s))
        BY <3>1 DEF Try, Noted
      <3> QED BY <3>1, <3>2 DEF Ok
    <2>3. Past(b, t)
      BY <2>1, <2>2
    <2>4. Follows(t, t)
      BY <2>3, FollowsItself DEF Past, Continues, Wellformed
    <2>5. Follows(t, For(sub, s))
      BY <1>3, <2>4, ForGoesOn
    <2> HIDE DEF t
    <2>6. Past(b, For(sub, s))
      BY <2>3, <2>5, PastThen
    <2> QED BY <2>6 DEF s
  <1>9. Past(b, body)
    BY <1>6, <1>7, <1>8 DEF StmtBody
  <1> HIDE DEF body
  <1>10. Past(r, Adopt(r, body))
    BY <1>1, <1>9, AdoptPast DEF b
  <1> QED BY <1>4, <1>10 DEF stmt

LEMMA OptionalPast ==
    ASSUME NEW r, NEW q, q = r \/ Past(r, q), Ready(r), NEW kinds
    PROVE  LET s == Optional(q, kinds) IN s = r \/ Past(r, s)
  <1> DEFINE s == Optional(q, kinds)
  <1>1. CASE q = r
    BY <1>1, TakePast DEF Optional
  <1>2. CASE Past(r, q)
    <2>1. Follows(q, s)
      BY <1>2, FollowsItself, OptionalFollows DEF Past, Continues, Wellformed
    <2> QED BY <1>2, <2>1, PastThen
  <1> QED BY <1>1, <1>2

LEMMA MemberPast ==
    ASSUME NEW sub, KeepsProgram(sub), NEW r, Ready(r), NEW first
    PROVE  Past(r, Member(sub, r, first))
  <1>1. /\ "Var" \in NodeKinds /\ "UnknownEnumDecl" \in NodeKinds /\ "FnDef" \in NodeKinds
        /\ "UnexpectedToken" \in Errors /\ FALSE \in BOOLEAN
    BY DEF NodeKinds, Errors
  <1>2. ASSUME NEW kind \in NodeKinds
        PROVE  LET t == Take(As(r, kind)) IN Past(r, t) /\ Follows(t, t)
    BY AsPast, FollowsItself DEF Past, Continues, Wellformed
  <1>3. Past(r, Fn(sub, r))
    <2>1. Follows(Take(As(r, "FnDef")), Fn(sub, r))
      BY <1>1, <1>2, FnGoesOn
    <2> QED BY <1>1, <1>2, <2>1, PastThen
  <1>4. first \in DOMAIN DefinitionOf => Past(r, Definition(sub, r, first))
    <2> SUFFICES ASSUME first \in DOMAIN DefinitionOf PROVE Past(r, Definition(sub, r, first))
      OBVIOUS
    <2> DEFINE kind == DefinitionOf[first]
    <2>1. kind \in NodeKinds
      BY DefinitionOfType
    <2>2. Past(r, Take(As(r, kind))) /\ Follows(Take(As(r, kind)), Take(As(r, kind)))
      BY <1>2, <2>1
    <2>3. Follows(Take(As(r, kind)), Definition(sub, r, first))
      BY <2>2, DefinitionGoesOn
    <2> QED BY <2>2, <2>3, PastThen
  <1>5. Past(r, Expect(VarBindings(sub, Take(As(r, "Var"))), ";"))
    <2> DEFINE t == Take(As(r, "Var"))
    <2>1. Past(r, t) /\ Follows(t, t)
      BY <1>1, <1>2
    <2> HIDE DEF t
    <2>2. Follows(t, Expect(VarBindings(sub, t), ";"))
      BY <2>1, VarBindingsFollows, ExpectFollows
    <2>3. Past(r, Expect(VarBindings(sub, t), ";"))
      BY <2>1, <2>2, PastThen
    <2> QED BY <2>3 DEF t
  <1> DEFINE enum == Then(Take(As(r, "UnknownEnumDecl")), LAMBDA e : Enum(sub, e))
  <1>6. Past(r, enum)
    <2> DEFINE t == Take(As(r, "UnknownEnumDecl"))
    <2>1. Past(r, t) /\ Follows(t, t)
      BY <1>1, <1>2
    <2> HIDE DEF t
    <2>2. Follows(t, Enum(sub, t))
      BY <2>1, EnumFollows
    <2>3. Past(r, Enum(sub, t))
      BY <2>1, <2>2, PastThen
    <2> QED BY <2>1, <2>3 DEF Then, t
  <1>7. Past(r, Expect(IdRef(sub, Take(r), FALSE), ";")) /\ Past(r, Fail(Take(r), "UnexpectedToken"))
    <2> DEFINE t == Take(r)
    <2>1. Past(r, t)
      BY TakePast
    <2> HIDE DEF t
    <2>2. Follows(t, t)
      BY <2>1, FollowsItself DEF Past, Continues, Wellformed
    <2>3. Follows(t, Expect(IdRef(sub, t, FALSE), ";")) /\ Follows(t, Fail(t, "UnexpectedToken"))
      BY <1>1, <2>2, ExprsFollow, IdRefFollows, ExpectFollows, FailFollows
    <2>4. Past(r, Expect(IdRef(sub, t, FALSE), ";")) /\ Past(r, Fail(t, "UnexpectedToken"))
      BY <2>1, <2>3, PastThen
    <2> QED BY <2>4 DEF t
  <1> HIDE DEF enum
  <1> QED BY <1>3, <1>4, <1>5, <1>6, <1>7 DEF Member, enum

LEMMA ProgramStmtPast ==
    ASSUME NEW n \in Nat, NEW r, Ready(r)
    PROVE  Past(r, ProgramCalls[n + 1].ProgramStmt[r])
  <1> DEFINE sub == ProgramCalls[n]
             b == Begin(r, "Unset")
             access == Optional(b, Access)
             native == Optional(access, {"native"})
             m == Optional(native, {"static"})
             member == Then(m, LAMBDA s : Member(sub, s, Peek(s)))
             stmt == ProgramCalls[n + 1].ProgramStmt[r]
  <1>1. "Unset" \in NodeKinds
    BY DEF NodeKinds
  <1>2. KeepsProgram(sub)
    BY ProgramCallsKeep
  <1>3. stmt = Adopt(r, member)
    <2>1. ProgramCalls[n + 1] = ProgramFunctions(sub)
      BY ProgramCallsStep
    <2>2. r \in Parser
      BY DEF Ready, Wellformed
    <2>3. ProgramFunctions(sub).ProgramStmt[r] = ProgramStmt(sub, r)
      BY <2>2, Zenon DEF ProgramFunctions
    <2> HIDE DEF sub
    <2>4. ProgramStmt(sub, r) = Adopt(r, member)
      BY Zenon DEF ProgramStmt, Optionals, member, m, native, access, b
    <2> QED BY <2>1, <2>3, <2>4 DEF sub
  <1> HIDE DEF sub, stmt
  <1>4. Ready(b)
    BY <1>1, BeginReady
  <1> HIDE DEF b
  <1>5. access = b \/ Past(b, access)
    BY <1>4, OptionalPast
  <1> HIDE DEF access
  <1>6. native = b \/ Past(b, native)
    BY <1>4, <1>5, OptionalPast
  <1> HIDE DEF native
  <1>7. m = b \/ Past(b, m)
    BY <1>4, <1>6, OptionalPast
  <1> HIDE DEF m
  <1>8. Past(b, member)
    <2>1. CASE m = b
      <3>1. Past(b, Member(sub, b, Peek(b)))
        BY <1>2, <1>4, MemberPast
      <3>2. member = Member(sub, b, Peek(b))
        BY <1>4, <2>1 DEF Then, Ready
      <3> QED BY <3>1, <3>2
    <2>2. CASE Past(b, m)
      <3>1. Follows(m, m)
        BY <2>2, FollowsItself DEF Past, Continues, Wellformed
      <3>2. Follows(m, member)
        BY <1>2, <3>1, MemberFollows DEF Then
      <3> HIDE DEF member
      <3> QED BY <2>2, <3>2, PastThen
    <2> QED BY <1>7, <2>1, <2>2
  <1> HIDE DEF member
  <1>9. Past(r, Adopt(r, member))
    BY <1>1, <1>8, AdoptPast DEF b
  <1> QED BY <1>3, <1>9 DEF stmt

(* A turn that took a token: it is not endless, and leaves less.           *)
LEMMA TurnComes ==
    ASSUME NEW r, NEW n \in Int, NEW q, Comes(r, n, q), Ok(q),
           NEW k \in Int, NEW s, Comes(q, k, s), Past(q, s)
    PROVE  Comes(r, n - 1, Turn(q, Noted(s)))
  <1> DEFINE t == Noted(s)
             more == Append(s.errors, s.err)
  <1>1. Comes(q, n, q) /\ Wellformed(q) /\ Wellformed(s)
    BY ComesHere, ComesType
  <1>2. Comes(q, n, t)
    BY <1>1, NotedComes
  <1>3. q.at \in Nat /\ s.at \in Nat /\ s \in Parser
    BY <1>1 DEF Wellformed, Parser
  <1>4. t.at = s.at
    <2>1. t = IF s.err \in {"none", "endless"} THEN s ELSE [s EXCEPT !.errors = more, !.err = "none"]
      BY DEF Noted
    <2> HIDE DEF t, more
    <2> QED BY <1>3, <2>1 DEF Parser
  <1>5. q.at + 1 <= s.at
    <2>1. PICK i \in q.at .. s.at - 1 : s.toks[i].id \notin Trivia
      BY DEF Past
    <2> QED BY <1>3, <2>1
  <1> HIDE DEF t
  <1>6. Turn(q, t) = t
    BY <1>3, <1>4, <1>5 DEF Turn
  <1>7. Rest(t) <= n - 1
    <2>1. Wellformed(t) /\ Room(t.toks) <= Room(q.toks) /\ Rest(q) <= n
      BY <1>2, ComesType DEF Comes, ComesFrom
    <2>2. Room(t.toks) \in Nat /\ Room(q.toks) \in Nat
      <3>1. t.toks \in Seq(Token) /\ q.toks \in Seq(Token)
        BY <1>1, <2>1 DEF Wellformed, Parser
      <3> QED BY <3>1, RoomType
    <2> QED BY <1>3, <1>4, <1>5, <2>1, <2>2 DEF Rest
  <1>8. Comes(q, n - 1, t) /\ n - 1 \in Int
    BY <1>2, <1>7 DEF Comes
  <1> QED BY <1>6, <1>8, ComesOn DEF t

(* What begins by taking a token, once the depth of calls is k at least.   *)
Advancing(f, k, m) == m >= k => \A q : Ready(q) => Past(q, f[q])

LEMMA CallsAdvance ==
    ASSUME NEW m \in Nat
    PROVE  Advancing(ProgramCalls[m].Stmt, 4, m) /\ Advancing(ProgramCalls[m].ProgramStmt, 1, m)
  <1>1. ASSUME m >= 4, NEW q, Ready(q) PROVE Past(q, ProgramCalls[m].Stmt[q])
    <2>1. m - 4 \in Nat /\ (m - 4) + 4 = m
      BY <1>1
    <2>2. Past(q, ProgramCalls[(m - 4) + 4].Stmt[q])
      BY <1>1, <2>1, StmtPast
    <2> QED BY <2>1, <2>2
  <1>2. ASSUME m >= 1, NEW q, Ready(q) PROVE Past(q, ProgramCalls[m].ProgramStmt[q])
    <2>1. m - 1 \in Nat /\ (m - 1) + 1 = m
      BY <1>2
    <2>2. Past(q, ProgramCalls[(m - 1) + 1].ProgramStmt[q])
      BY <1>2, <2>1, ProgramStmtPast
    <2> QED BY <2>1, <2>2
  <1> QED BY <1>1, <1>2 DEF Advancing

LEMMA ReadyRest ==
    ASSUME NEW r, Ready(r)
    PROVE  Rest(r) \in Nat \ {0}
  <1>1. Wellformed(r) /\ Solid(r) \in r.at .. Len(r.toks)
    BY SolidNext DEF Ready
  <1>2. Rest(r) \in Nat /\ Rest(r) + r.at >= Len(r.toks) + 1
    BY <1>1, RestType
  <1>3. r.at \in Nat /\ Len(r.toks) \in Nat
    BY <1>1 DEF Wellformed, Parser
  <1> QED BY <1>1, <1>2, <1>3

LEMMA FnBodyComes ==
    ASSUME NEW sub, NEW m \in Int, HaltsProgram(sub, m), Advancing(sub.Stmt, 4, m),
           NEW r, NEW n \in Int, NEW q, Comes(r, n, q), 5 * n + 5 <= m + 1
    PROVE  Comes(r, n, FnBody(sub, q))
  <1> DEFINE k == n - 1
             s == sub.Stmt[q]
             t == Turn(q, Noted(s))
             more == sub.FnBody[t]
             failed == Fail(q, "ExpectingMoreTokens")
  <1>1. k \in Int /\ k <= n /\ 5 * k + 5 <= m /\ 5 * n + 4 <= m /\ "ExpectingMoreTokens" \in Errors
    BY DEF Errors
  <1>2. Comes(r, n, failed)
    BY <1>1, FailComes
  <1>3. ASSUME Ok(q), Peek(q) # "end" PROVE Comes(r, n, more)
    <2>1. Ready(q)
      BY <1>3, ComesType, PeekReady
    <2>2. m >= 4
      <3>1. Rest(q) \in Nat \ {0} /\ Rest(q) <= n
        BY <1>3, <2>1, ReadyRest DEF Comes
      <3> QED BY <1>1, <3>1
    <2>3. Past(q, s)
      BY <2>1, <2>2 DEF Advancing
    <2>4. Comes(q, n, s)
      BY <1>1, ComesHere, SubStmtComes
    <2>5. Comes(r, k, t)
      BY <1>3, <2>3, <2>4, TurnComes
    <2> HIDE DEF k, t
    <2>6. Comes(r, k, more)
      BY <1>1, <2>5, BodiesCome
    <2> QED BY <1>1, <2>6, ComesLess
  <1> HIDE DEF more, failed
  <1>4. FnBody(sub, q) = IF Ok(q) THEN IF Peek(q) = "}" THEN q
                                       ELSE IF Peek(q) = "end" THEN failed ELSE more
                         ELSE q
    BY Zenon DEF FnBody, Then, more, failed
  <1> QED BY <1>2, <1>3, <1>4

(* Members and programs without types. *)
LEMMA PeekTypeFree ==
    ASSUME NEW r, Wellformed(r), TypeFree(r.toks)
    PROVE  Peek(r) \notin DOMAIN DefinitionOf
  <1> DEFINE i == IF Solid(r) = 0 THEN Len(r.toks) ELSE Solid(r)
  <1>1. r.at \in Nat \ {0} /\ Len(r.toks) \in Nat \ {0}
    BY WellformedType DEF Wellformed, Parser
  <1>2. i \in 1 .. Len(r.toks)
    BY <1>1, SolidNext
  <1> HIDE DEF i
  <1>3. r.toks[i].id \notin DOMAIN DefinitionOf
    BY <1>2 DEF TypeFree
  <1> QED BY <1>3 DEF Peek, i

LEMMA TypeFreeComes ==
    ASSUME NEW r, NEW n, NEW q, Comes(r, n, q), TypeFree(r.toks)
    PROVE  TypeFree(q.toks)
  <1>1. ASSUME NEW k \in Halves PROVE k \notin DOMAIN DefinitionOf
    BY DEF Halves, DefinitionOf
  <1> QED BY <1>1 DEF Comes, ComesFrom, TypeFree

LEMMA MemberComes ==
    ASSUME NEW sub, NEW m \in Int, HaltsProgram(sub, m),
           NEW r, NEW n \in Int, NEW q, Comes(r, n, q), 5 * n <= m,
           NEW first, first \notin DOMAIN DefinitionOf
    PROVE  Comes(r, n, Member(sub, q, first))
  <1> DEFINE k == n - 1
             taken(kind) == Take(As(q, kind))
             enum == Then(taken("UnknownEnumDecl"), LAMBDA e : Enum(sub, e))
             t == Take(q)
  <1>1. /\ "Var" \in NodeKinds /\ "UnknownEnumDecl" \in NodeKinds /\ "UnexpectedToken" \in Errors
        /\ FALSE \in BOOLEAN /\ k \in Int /\ k <= n
        /\ 5 * k + 3 <= m /\ 5 * k + 2 <= m /\ 5 * k + 1 <= m
    BY DEF NodeKinds, Errors
  <1>2. ASSUME NEW kind \in NodeKinds PROVE Comes(r, k, taken(kind))
    BY TakenComes
  <1>3. Comes(r, k, t)
    BY TakeComes
  <1>4. Comes(r, n, Fn(sub, q))
    BY FnComes
  <1> HIDE DEF k, taken, t
  <1>5. Comes(r, k, Expect(VarBindings(sub, taken("Var")), ";"))
    <2>1. Comes(r, k, VarBindings(sub, taken("Var")))
      BY <1>1, <1>2, VarBindingsCome
    <2> QED BY <1>1, <2>1, ExpectComes
  <1>6. Comes(r, k, enum)
    <2>1. Comes(r, k, taken("UnknownEnumDecl"))
      BY <1>1, <1>2
    <2>2. Comes(r, k, Enum(sub, taken("UnknownEnumDecl")))
      BY <1>1, <2>1, EnumComes
    <2> QED BY <2>1, <2>2 DEF Then
  <1>7. Comes(r, k, Expect(IdRef(sub, t, FALSE), ";"))
    <2>1. HaltsExprs(sub, m)
      BY DEF HaltsProgram
    <2>2. Comes(r, k, IdRef(sub, t, FALSE))
      BY <1>1, <1>3, <2>1, IdRefComes
    <2> QED BY <1>1, <2>2, ExpectComes
  <1>8. Comes(r, k, Fail(t, "UnexpectedToken"))
    BY <1>1, <1>3, FailComes
  <1> HIDE DEF enum
  <1>9. /\ Comes(r, n, Expect(VarBindings(sub, taken("Var")), ";")) /\ Comes(r, n, enum)
        /\ Comes(r, n, Expect(IdRef(sub, t, FALSE), ";"))
        /\ Comes(r, n, Fail(t, "UnexpectedToken"))
    BY <1>1, <1>5, <1>6, <1>7, <1>8, ComesLess
  <1> QED BY <1>4, <1>9 DEF Member, enum, taken, t

LEMMA ProgramStmtComes ==
    ASSUME NEW sub, NEW m \in Int, HaltsProgram(sub, m),
           NEW r, NEW n \in Int, NEW q, Comes(r, n, q), TypeFree(q.toks), 5 * n + 1 <= m + 1
    PROVE  Comes(r, n, ProgramStmt(sub, q))
  <1> DEFINE b == Begin(q, "Unset")
             s == Optionals(b, Access, {"native"}, {"static"})
             member == Then(s, LAMBDA p : Member(sub, p, Peek(p)))
  <1>1. "Unset" \in NodeKinds /\ 5 * n <= m
    BY DEF NodeKinds
  <1>2. b.toks = q.toks
    <2>1. q \in Parser
      BY ComesType
    <2> QED BY <2>1 DEF Begin, Parser
  <1>3. Comes(b, n, s)
    BY <1>1, BeginComes, OptionalsCome
  <1>4. TypeFree(s.toks)
    <2> HIDE DEF b, s
    <2> QED BY <1>2, <1>3, TypeFreeComes
  <1> HIDE DEF s
  <1>5. Comes(b, n, member)
    <2>1. Peek(s) \notin DOMAIN DefinitionOf
      BY <1>3, <1>4, ComesType, PeekTypeFree
    <2>2. Comes(b, n, Member(sub, s, Peek(s)))
      BY <1>1, <1>3, <2>1, MemberComes
    <2> QED BY <1>3, <2>2 DEF Then
  <1> HIDE DEF member
  <1>6. Comes(r, n, Adopt(q, member))
    BY <1>1, <1>5, AdoptComes
  <1> QED BY <1>6, Zenon DEF ProgramStmt, member, s

LEMMA ProgramStmtsCome ==
    ASSUME NEW sub, NEW m \in Int, HaltsProgram(sub, m), Advancing(sub.ProgramStmt, 1, m),
           NEW r, NEW n \in Int, NEW q, Comes(r, n, q), TypeFree(q.toks), 5 * n + 2 <= m + 1
    PROVE  Comes(r, n, ProgramStmts(sub, q))
  <1> DEFINE k == n - 1
             s == sub.ProgramStmt[q]
             t == Turn(q, Noted(s))
             more == sub.ProgramStmts[t]
  <1>1. k \in Int /\ k <= n /\ 5 * k + 2 <= m /\ 5 * n + 1 <= m
    OBVIOUS
  <1>2. ASSUME Ok(q), Peek(q) # "end" PROVE Comes(r, n, more)
    <2>1. Ready(q)
      BY <1>2, ComesType, PeekReady
    <2>2. m >= 1
      <3>1. Rest(q) \in Nat \ {0} /\ Rest(q) <= n
        BY <1>2, <2>1, ReadyRest DEF Comes
      <3> QED BY <1>1, <3>1
    <2>3. Past(q, s)
      BY <2>1, <2>2 DEF Advancing
    <2>4. Comes(q, n, s)
      <3>1. Comes(q, n, q)
        BY ComesHere
      <3> QED BY <1>1, <3>1 DEF HaltsProgram, HaltingTypeFree
    <2>5. Comes(r, k, t) /\ Comes(q, k, t)
      <3>1. Comes(q, n, q)
        BY ComesHere
      <3> QED BY <1>2, <2>3, <2>4, <3>1, TurnComes
    <2> HIDE DEF k, t
    <2>6. TypeFree(t.toks)
      BY <2>5, TypeFreeComes
    <2>7. Comes(t, k, more)
      <3>1. Comes(t, k, t)
        BY <1>1, <2>5, ComesHere
      <3> QED BY <1>1, <2>6, <3>1 DEF HaltsProgram, HaltingTypeFree
    <2> HIDE DEF more
    <2>8. Comes(r, k, more)
      BY <1>1, <2>5, <2>7, ComesOn
    <2> QED BY <1>1, <2>8, ComesLess
  <1> HIDE DEF more
  <1>3. ProgramStmts(sub, q) = IF Ok(q) THEN IF Peek(q) = "end" THEN q ELSE more ELSE q
    BY Zenon DEF ProgramStmts, Then, more
  <1> QED BY <1>2, <1>3

LEMMA ModuleNameComes ==
    ASSUME NEW sub, NEW m \in Int, HaltsProgram(sub, m),
           NEW r, NEW n \in Int, NEW q, Comes(r, n, q), 5 * n + 1 <= m
    PROVE  Comes(r, n, ModuleName(sub, q))
  <1> DEFINE b == Begin(q, "IdRef")
             h == IdRefHead(sub, b, FALSE)
             name == Noted(h)
  <1>1. "IdRef" \in NodeKinds /\ FALSE \in BOOLEAN /\ HaltsExprs(sub, m)
    BY DEF NodeKinds, HaltsProgram
  <1>2. Comes(b, n, b)
    BY <1>1, BeginComes
  <1>3. Comes(b, n, h)
    BY <1>1, <1>2, IdRefHeadComes
  <1>4. Ok(b) => Comes(b, n, name)
    BY <1>2, <1>3, NotedComes
  <1>5. Ok(q) => Comes(r, n, Adopt(q, Expect(name, ";")))
    <2>1. Ok(q) => Ok(b)
      <3>1. q \in Parser
        BY ComesType
      <3> QED BY <3>1 DEF Ok, Begin, Parser
    <2> HIDE DEF name
    <2>2. Ok(q) => Comes(b, n, Expect(name, ";"))
      BY <1>4, <2>1, ExpectComes
    <2> QED BY <1>1, <2>2, AdoptComes
  <1>6. ~ Ok(q) => Adopt(q, Expect(name, ";")) = q
    BY DEF Adopt
  <1> HIDE DEF name
  <1>7. Comes(r, n, Adopt(q, Expect(name, ";")))
    BY <1>5, <1>6
  <1> QED BY <1>7 DEF ModuleName, name, h, b

LEMMA ProgramComes ==
    ASSUME NEW sub, NEW m \in Int, HaltsProgram(sub, m),
           NEW n \in Int, NEW q, Comes(q, n, q), TypeFree(q.toks), 5 * n + 2 <= m
    PROVE  Comes(q, n, Program(sub, q))
  <1> DEFINE head == After(q, "module", LAMBDA s : ModuleName(sub, s))
             p == sub.ProgramStmts[head]
  <1>1. 5 * n + 1 <= m
    OBVIOUS
  <1>2. Comes(q, n, head)
    <2>1. Comes(q, n, Take(q))
      BY TakeComes
    <2>2. Comes(q, n, ModuleName(sub, Take(q)))
      BY <1>1, <2>1, ModuleNameComes
    <2> QED BY <2>2 DEF After
  <1> HIDE DEF head
  <1>3. TypeFree(head.toks) /\ Comes(head, n, head)
    BY <1>2, TypeFreeComes, ComesHere
  <1>4. Comes(head, n, p)
    BY <1>3 DEF HaltsProgram, HaltingTypeFree
  <1> HIDE DEF p
  <1>5. Comes(q, n, p)
    BY <1>2, <1>4, ComesOn
  <1>6. Comes(q, n, ToNextToken(p))
    BY <1>5, ToNextTokenComes
  <1> QED BY <1>6 DEF Program, p, head

(* All functions, by induction on the depth of calls. *)
LEMMA NoProgramFunctionsHalt == HaltsProgram(NoProgramFunctions, 0)
  <1> DEFINE f == NoReturn
             e == NoExprFunctions
  <1>1. Halting(f, 1, 0) /\ Halting(f, 2, 0) /\ Halting(f, 3, 0) /\ Halting(f, 4, 0)
        /\ Halting(f, 5, 0)
    BY NoReturnHalts
  <1>2. HaltsExprs(e, 0)
    BY NoExprFunctionsHalt
  <1>3. NoProgramFunctions =
          [Expr |-> e.Expr, InfixPart |-> e.InfixPart, ArgList |-> e.ArgList,
           SubscriptList |-> e.SubscriptList, GenericArgs |-> e.GenericArgs,
           IdRefEntries |-> e.IdRefEntries, TypeSuffix |-> e.TypeSuffix,
           TypeName |-> e.TypeName, MatchCases |-> e.MatchCases,
           PartList |-> [p \in ListParts |-> f], Block |-> f, SwitchCases |-> f,
           ForSteps |-> f, Stmt |-> f, ImplItems |-> f, GenericParamList |-> f, ParamList |-> f,
           FnBody |-> f, Members |-> f, EnumItems |-> [i \in EnumParts |-> f],
           ProgramStmt |-> f, ProgramStmts |-> f]
    BY Zenon DEF NoProgramFunctions
  <1>4. HaltingTaking(f, 4, 0)
    <2> SUFFICES ASSUME NEW n \in Int, NEW q, Comes(q, n, q), 5 * n + 4 <= 0
                 PROVE  Comes(q, n - 1, f[q])
      BY DEF HaltingTaking
    <2>1. Comes(q, n, f[q])
      BY <1>1 DEF Halting
    <2>2. Rest(f[q]) \in Nat
      BY <2>1, ComesType
    <2>3. ~ Ok(f[q])
      <3>1. n < 0
        OBVIOUS
      <3> HIDE DEF f
      <3> QED BY <2>1, <2>2, <3>1 DEF Comes
    <2> HIDE DEF f
    <2> QED BY <2>1, <2>3 DEF Comes
  <1>5. HaltingTypeFree(f, 1, 0) /\ HaltingTypeFree(f, 2, 0)
    <2> HIDE DEF f
    <2> QED BY <1>1 DEF Halting, HaltingTypeFree
  <1> HIDE DEF f, e
  <1>6. HaltsExprs(NoProgramFunctions, 0)
    BY <1>2, <1>3 DEF HaltsExprs
  <1> QED BY <1>1, <1>3, <1>4, <1>5, <1>6 DEF HaltsProgram

LEMMA ProgramFunctionsHalt ==
    ASSUME NEW sub, NEW m \in Int, HaltsProgram(sub, m),
           Advancing(sub.Stmt, 4, m), Advancing(sub.ProgramStmt, 1, m)
    PROVE  HaltsProgram(ProgramFunctions(sub), m + 1)
  <1> DEFINE e == ExprFunctions(sub)
             partList(p) == [r \in Parser |-> PartList(sub, r, p)]
             block == [r \in Parser |-> Block(sub, r)]
             switchCases == [r \in Parser |-> SwitchCases(sub, r)]
             forSteps == [r \in Parser |-> ForSteps(sub, r)]
             stmt == [r \in Parser |-> Stmt(sub, r)]
             implItems == [r \in Parser |-> ImplItems(sub, r)]
             paramList == [r \in Parser |-> ParamList(sub, r)]
             generics == [r \in Parser |-> GenericParamList(sub, r)]
             fnBody == [r \in Parser |-> FnBody(sub, r)]
             members == [r \in Parser |-> Members(sub, r)]
             enumItems(i) == [r \in Parser |-> EnumItems(sub, r, i)]
             programStmt == [r \in Parser |-> ProgramStmt(sub, r)]
             programStmts == [r \in Parser |-> ProgramStmts(sub, r)]
  <1>1. HaltsExprs(e, m + 1)
    BY ExprFunctionsHalt DEF HaltsProgram
  <1>2. ASSUME NEW p \in ListParts PROVE Halting(partList(p), 3, m + 1)
    BY PartListComes, HaltingBy
  <1>3. Halting(block, 5, m + 1)
    BY BlockComes, HaltingBy
  <1>4. Halting(switchCases, 3, m + 1)
    BY SwitchCasesCome, HaltingBy
  <1>5. Halting(forSteps, 3, m + 1)
    BY ForStepsComes, HaltingBy
  <1>6. HaltingTaking(stmt, 4, m + 1)
    <2>1. ASSUME NEW n \in Int, NEW q, Comes(q, n, q), 5 * n + 4 <= m + 1
          PROVE  Comes(q, n - 1, stmt[q])
      <3>1. q \in Parser
        BY <2>1, ComesType
      <3>2. Comes(q, n - 1, Stmt(sub, q))
        BY <2>1, StmtComes
      <3> QED BY <3>1, <3>2
    <2> HIDE DEF stmt
    <2> QED BY <2>1 DEF HaltingTaking
  <1>7. Halting(implItems, 3, m + 1)
    BY ImplItemsCome, HaltingBy
  <1>8. Halting(paramList, 1, m + 1)
    BY ParamListComes, HaltingBy
  <1>9. Halting(generics, 1, m + 1)
    BY GenericParamListComes, HaltingBy
  <1>10. Halting(fnBody, 5, m + 1)
    BY FnBodyComes, HaltingBy
  <1>11. ASSUME NEW i \in EnumParts PROVE Halting(enumItems(i), 1, m + 1)
    BY EnumItemsCome, HaltingBy
  <1>12. HaltingTypeFree(programStmt, 1, m + 1)
    <2>1. ASSUME NEW n \in Int, NEW q, Comes(q, n, q), TypeFree(q.toks), 5 * n + 1 <= m + 1
          PROVE  Comes(q, n, programStmt[q])
      <3>1. q \in Parser
        BY <2>1, ComesType
      <3>2. Comes(q, n, ProgramStmt(sub, q))
        BY <2>1, ProgramStmtComes
      <3> QED BY <3>1, <3>2
    <2> HIDE DEF programStmt
    <2> QED BY <2>1 DEF HaltingTypeFree
  <1>13. HaltingTypeFree(programStmts, 2, m + 1)
    <2>1. ASSUME NEW n \in Int, NEW q, Comes(q, n, q), TypeFree(q.toks), 5 * n + 2 <= m + 1
          PROVE  Comes(q, n, programStmts[q])
      <3>1. q \in Parser
        BY <2>1, ComesType
      <3>2. Comes(q, n, ProgramStmts(sub, q))
        BY <2>1, ProgramStmtsCome
      <3> QED BY <3>1, <3>2
    <2> HIDE DEF programStmts
    <2> QED BY <2>1 DEF HaltingTypeFree
  <1>14. ProgramFunctions(sub) =
           [Expr |-> e.Expr, InfixPart |-> e.InfixPart, ArgList |-> e.ArgList,
            SubscriptList |-> e.SubscriptList, GenericArgs |-> e.GenericArgs,
            IdRefEntries |-> e.IdRefEntries, TypeSuffix |-> e.TypeSuffix,
            TypeName |-> e.TypeName, MatchCases |-> e.MatchCases,
            PartList |-> [p \in ListParts |-> partList(p)], Block |-> block,
            SwitchCases |-> switchCases, ForSteps |-> forSteps, Stmt |-> stmt,
            ImplItems |-> implItems, GenericParamList |-> generics, ParamList |-> paramList,
            FnBody |-> fnBody, Members |-> members,
            EnumItems |-> [i \in EnumParts |-> enumItems(i)],
            ProgramStmt |-> programStmt, ProgramStmts |-> programStmts]
    BY Zenon DEF ProgramFunctions
  <1> HIDE DEF e, partList, block, switchCases, forSteps, stmt, implItems, paramList, generics,
               fnBody, members, enumItems, programStmt, programStmts
  <1>15. HaltsExprs(ProgramFunctions(sub), m + 1)
    BY <1>1, <1>14 DEF HaltsExprs
  <1> QED BY <1>2, <1>3, <1>4, <1>5, <1>6, <1>7, <1>8, <1>9, <1>10, <1>11, <1>12, <1>13, <1>14,
             <1>15 DEF HaltsProgram

LEMMA ProgramCallsHalt ==
    ASSUME NEW m \in Nat
    PROVE  HaltsProgram(ProgramCalls[m], m)
  <1> DEFINE T == {n \in Nat : HaltsProgram(ProgramCalls[n], n)}
  <1>1. 0 \in T
    BY ProgramCallsStep, NoProgramFunctionsHalt
  <1>2. ASSUME NEW n \in Nat, n \in T PROVE n + 1 \in T
    <2>1. HaltsProgram(ProgramFunctions(ProgramCalls[n]), n + 1)
      BY <1>2, CallsAdvance, ProgramFunctionsHalt
    <2> QED BY <2>1, ProgramCallsStep
  <1> HIDE DEF T
  <1>3. Nat \subseteq T
    BY <1>1, <1>2, Induction
  <1> QED BY <1>3 DEF T

LEMMA LexedKinds ==
    ASSUME NEW kinds \in Seq(Kinds \ {"end"}), NEW i \in 1 .. Len(Lexed(kinds))
    PROVE  \/ Lexed(kinds)[i].id = "end"
           \/ i \in 1 .. Len(kinds) /\ Lexed(kinds)[i].id = kinds[i]
  <1>1. /\ Len(Lexed(kinds)) = Len(kinds) + 1 /\ Len(kinds) \in Nat
        /\ \A j \in 1 .. Len(kinds) + 1 : Lexed(kinds)[j].id = "end" <=> j = Len(kinds) + 1
    BY LexedType
  <1>2. i \in 1 .. Len(kinds) + 1
    BY <1>1
  <1>3. CASE i = Len(kinds) + 1
    BY <1>1, <1>2, <1>3
  <1>4. CASE i # Len(kinds) + 1
    <2>1. i \in 1 .. Len(kinds)
      BY <1>1, <1>2, <1>4
    <2>2. Lexed(kinds)[i] = [id |-> kinds[i], from |-> Widths(kinds)[i - 1], width |-> Width(kinds[i])]
      BY <1>2, <1>4 DEF Lexed
    <2> QED BY <2>1, <2>2
  <1> QED BY <1>3, <1>4

LEMMA ParseHalts ==
    ASSUME NEW kinds \in Seq(Kinds \ {"end"}),
           \A i \in 1 .. Len(kinds) : kinds[i] \notin DOMAIN DefinitionOf
    PROVE  Parse(kinds).err # "endless"
  <1> DEFINE start == Unparsed(kinds, "Module")
             m == MaxDepth(kinds)
             n == Rest(start)
             sub == ProgramCalls[m]
  <1>1. "Module" \in NodeKinds
    BY DEF NodeKinds
  <1>2. Comes(start, n, start) /\ n \in Nat /\ m \in Nat /\ 5 * n + 5 <= m
    BY <1>1, UnparsedRest
  <1>3. TypeFree(start.toks)
    <2>1. start.toks = Lexed(kinds)
      BY DEF Unparsed
    <2>2. "end" \notin DOMAIN DefinitionOf
      BY DEF DefinitionOf
    <2>3. TypeFree(Lexed(kinds))
      BY <2>2, LexedKinds DEF TypeFree
    <2> QED BY <2>1, <2>3
  <1>4. HaltsProgram(sub, m)
    BY <1>2, ProgramCallsHalt
  <1>5. Parse(kinds) = Program(sub, start)
    BY Zenon DEF Parse, sub, start, m
  <1>6. m \in Int /\ n \in Int /\ 5 * n + 2 <= m
    BY <1>2
  <1> HIDE DEF start, m, n, sub
  <1>7. Comes(start, n, Program(sub, start))
    BY <1>2, <1>3, <1>4, <1>6, ProgramComes
  <1> QED BY <1>5, <1>7 DEF Comes

-----------------------------------------------------------------------------
(* The inductive invariant: parsed is what parse makes of the source.      *)

Typed ==
    /\ language \in Languages
    /\ source \in Seq(Kinds \ {"end"})
    /\ Len(source) <= language.length
    /\ parsed = Parse(source)

LEMMA TypedInit == Init => Typed
  <1> SUFFICES ASSUME Init PROVE Typed
    OBVIOUS
  <1>1. language \in Languages /\ language.length \in Nat
    BY LanguagesAssumption DEF Init
  <1>2. source = <<>> /\ parsed = Parse(source)
    BY DEF Init
  <1>3. source \in Seq(Kinds \ {"end"}) /\ Len(source) = 0
    BY <1>2
  <1> QED BY <1>1, <1>2, <1>3 DEF Typed

LEMMA TypedStep == Typed /\ [Next]_vars => Typed'
  <1> SUFFICES ASSUME Typed, [Next]_vars PROVE Typed'
    OBVIOUS
  <1>1. CASE UNCHANGED vars
    BY <1>1 DEF Typed, vars
  <1>2. ASSUME NEW p \in language.phrases, Type(p) PROVE Typed'
    <2>1. p \in Seq(Kinds \ {"end"})
      BY LanguagesAssumption DEF Typed
    <2>2. source' = source \o p /\ language' = language /\ parsed' = Parse(source')
          /\ Len(source) + Len(p) <= language.length
      BY <1>2 DEF Type
    <2>3. source' \in Seq(Kinds \ {"end"}) /\ Len(source') = Len(source) + Len(p)
      BY <2>1, <2>2, ConcatProperties DEF Typed
    <2> QED BY <2>2, <2>3 DEF Typed
  <1> QED BY <1>1, <1>2 DEF Next

(* parsed is always what parse makes of the source. *)
THEOREM ProgramsTyped == Spec => []Typed
  BY TypedInit, TypedStep, PTL DEF Spec

-----------------------------------------------------------------------------

(* What ProgramEnds says of parse itself. *)
LEMMA ParseEnds ==
    ASSUME NEW kinds \in Seq(Kinds \ {"end"})
    PROVE  LET p == Parse(kinds)
           IN /\ p.err \in {"none", "endless", "ExpectingMoreTokens", "ExpectingSingleToken"}
              /\ p.err \in {"none", "ExpectingMoreTokens"} => p.at \in {Len(p.toks), Len(p.toks) + 1}
              /\ p.err = "ExpectingSingleToken" => Peek(Unparsed(kinds, "Module")) = "module"
  <1> DEFINE start == Unparsed(kinds, "Module")
             n == MaxDepth(kinds)
  <1>1. n \in Nat
    BY DEF MaxDepth
  <1>2. Ready(start)
    BY ParseFollows
  <1>3. Parse(kinds) = Program(ProgramCalls[n], start)
    BY Zenon DEF Parse, start, n
  <1> HIDE DEF start, n
  <1>4. LET p == Program(ProgramCalls[n], start)
        IN /\ p.err \in {"none", "endless", "ExpectingMoreTokens", "ExpectingSingleToken"}
           /\ p.err \in {"none", "ExpectingMoreTokens"} => p.at \in {Len(p.toks), Len(p.toks) + 1}
           /\ p.err = "ExpectingSingleToken" => Peek(start) = "module"
    BY <1>1, <1>2, ProgramEnds
  <1> QED BY <1>3, <1>4 DEF start

LEMMA TypedTypeOK == Typed => TypeOK
  <1> SUFFICES ASSUME Typed PROVE TypeOK
    OBVIOUS
  <1>1. Wellformed(parsed)
    BY ParseFollows DEF Typed, Continues
  <1>2. Len(parsed.toks) \in Nat /\ DOMAIN parsed.toks = 1 .. Len(parsed.toks)
    BY <1>1 DEF Wellformed, Parser
  <1>3. parsed.at \in 1 .. Len(parsed.toks) + 1
    BY <1>1, <1>2 DEF Wellformed, Parser
  <1>4. \A i \in DOMAIN parsed.toks : parsed.toks[i].id = "end" <=> i = Len(parsed.toks)
    BY <1>1, <1>2 DEF Wellformed
  <1>5. source \in Seq(Kinds)
    BY DEF Typed
  <1>6. parsed.err \in {"none", "endless", "ExpectingMoreTokens", "ExpectingSingleToken"}
    BY ParseEnds DEF Typed
  <1> QED BY <1>3, <1>4, <1>5, <1>6 DEF Typed, TypeOK

(* Whatever stands in a source, parse keeps idx_current_token inside the   *)
(* list and the end's token last, and the only errors it returns are that  *)
(* the source or the header of the module ended too soon: those of every   *)
(* declaration, statement and expression are noted on the way.             *)
THEOREM ProgramsTypeOK == Spec => []TypeOK
  BY ProgramsTyped, TypedTypeOK, PTL

-----------------------------------------------------------------------------

(* The leaves of the tree are the tokens the parser passed; and it passed  *)
(* all but the end's, if it did not stop at a module's header.             *)
ReadWhole ==
    /\ Leaves(parsed) = SubSeq(parsed.toks, 1, parsed.at - 1)
    /\ parsed.err \in {"none", "ExpectingMoreTokens"} => parsed.at >= Len(parsed.toks)
    /\ parsed.err = "ExpectingSingleToken" => Peek(Unparsed(source, "Module")) = "module"

LEMMA TypedReadWhole == Typed => ReadWhole
  <1> SUFFICES ASSUME Typed PROVE ReadWhole
    OBVIOUS
  <1> DEFINE start == Unparsed(source, "Module")
             passed == SubSeq(parsed.toks, 1, parsed.at - 1)
  <1>1. Continues(start, parsed) /\ Leaves(start) = <<>> /\ start.at = 1
    BY ParseFollows DEF Typed
  <1>2. Leaves(parsed) = <<>> \o passed
    BY <1>1 DEF Continues
  <1>3. Wellformed(parsed)
    BY <1>1 DEF Continues
  <1>4. passed \in Seq(Token)
    BY <1>3, PassedType DEF Wellformed, Parser
  <1>5. Leaves(parsed) = passed
    BY <1>2, <1>4, ConcatEmptySeq
  <1>6. Len(parsed.toks) \in Nat
    BY <1>3 DEF Wellformed, Parser
  <1>7. /\ parsed.err \in {"none", "ExpectingMoreTokens"}
              => parsed.at \in {Len(parsed.toks), Len(parsed.toks) + 1}
        /\ parsed.err = "ExpectingSingleToken" => Peek(start) = "module"
    BY ParseEnds DEF Typed
  <1> HIDE DEF passed, start
  <1>8. parsed.err \in {"none", "ExpectingMoreTokens"} => parsed.at >= Len(parsed.toks)
    BY <1>6, <1>7
  <1> QED BY <1>5, <1>7, <1>8 DEF ReadWhole, passed, start

(* No error makes parse lose, double or move a token, nor leave one unread *)
(* at the end: every token of the list becomes a leaf, in order, with the  *)
(* one exception of a module whose header lacks its semicolon.             *)
THEOREM ProgramsReadWhole == Spec => []ReadWhole
  BY ProgramsTyped, TypedReadWhole, PTL

LEMMA TypedCovers ==
    Typed /\ NoWideTokens(source) /\ parsed.err # "ExpectingSingleToken" => CoversSource
  <1> SUFFICES ASSUME Typed, NoWideTokens(source), parsed.err # "ExpectingSingleToken",
                      parsed.err # "endless"
               PROVE  TotalWidth(Leaves(parsed)) = WidthOf(source)
    BY DEF CoversSource
  <1>1. source \in Seq(Kinds \ {"end"}) /\ Len(source) \in Nat
    BY DEF Typed
  <1>2. parsed.toks = Lexed(source)
    <2>1. NoneWide(Lexed(source))
      BY <1>1, NoWideLexed
    <2>2. Unparsed(source, "Module").toks = Lexed(source)
      BY DEF Unparsed
    <2>3. Follows(Unparsed(source, "Module"), parsed)
      BY ParseFollows DEF Typed
    <2> QED BY <2>1, <2>2, <2>3 DEF Follows
  <1>3. Len(parsed.toks) = Len(source) + 1
    BY <1>1, <1>2, LexedType
  <1>4. parsed.at \in {Len(parsed.toks), Len(parsed.toks) + 1}
    BY <1>1, ParseEnds DEF Typed
  <1>5. parsed.at - 1 \in {Len(source), Len(source) + 1}
    BY <1>1, <1>3, <1>4
  <1>6. Leaves(parsed) = SubSeq(Lexed(source), 1, parsed.at - 1)
    BY <1>2, TypedReadWhole DEF ReadWhole
  <1> QED BY <1>1, <1>5, <1>6, LexedWidth

(* The text of the tree is as long as the file, as main() asserts after    *)
(* parsing, for every source, right or wrong, without `>>` and `]]` whose  *)
(* module header, if it has one, ends with its semicolon.                  *)
THEOREM ProgramsCover ==
    Spec => [](NoWideTokens(source) /\ parsed.err # "ExpectingSingleToken" => CoversSource)
  <1>1. Typed => (NoWideTokens(source) /\ parsed.err # "ExpectingSingleToken" => CoversSource)
    BY TypedCovers
  <1> QED BY <1>1, ProgramsTyped, PTL

LEMMA TypedHalts == Typed => HaltsOutsideTypes
  <1> SUFFICES ASSUME Typed, \A i \in DOMAIN source : source[i] \notin DOMAIN DefinitionOf
               PROVE  parsed.err # "endless"
    BY DEF HaltsOutsideTypes
  <1>1. source \in Seq(Kinds \ {"end"}) /\ DOMAIN source = 1 .. Len(source)
    BY DEF Typed
  <1>2. Parse(source).err # "endless"
    BY <1>1, ParseHalts
  <1> QED BY <1>2 DEF Typed

(* parse comes back from every source without types, right or wrong and of *)
(* any length: none of the loops that go on after the errors of statements *)
(* and declarations turns in place, and calls nest no deeper than ten for  *)
(* each token.  The loops over the members of a type do turn in place.     *)
THEOREM ProgramsHalt == Spec => []HaltsOutsideTypes
  BY ProgramsTyped, TypedHalts, PTL
=============================================================================
