------------------------------ MODULE Lowering ------------------------------
(***************************************************************************)
(* The lowering of a parsed program to its syntax tree                     *)
(* (slkc/comp/rg2ast.cc): what each kind of green node becomes, from its   *)
(* children as RedNodeChildIndices classifies them.  Allocations do not    *)
(* fail here, so no error is returned.                                     *)
(***************************************************************************)
EXTENDS Declarations, RedTree, AstNodes

CONSTANT Bits  \* width of a 32-bit word in an instance; a 64-bit word has twice as many

ASSUME BitsAssumption == Bits \in Nat \ {0}

-----------------------------------------------------------------------------
(* _parse_int.  The text of a literal is given by its characters, each as  *)
(* its distance from '0'; the lexer leaves no sign in it.  The excess of a *)
(* value over its word is cut off; it is reported if the value was too     *)
(* large to be multiplied once more, in base 16 as if to be multiplied by  *)
(* ten.  Only in base 16 are characters that are no digits left out.  What *)
(* exceeds a signed word is undefined behaviour in C++; it is taken to be  *)
(* cut off as well, and no property asks for the value then.               *)

WordBits(kind) == IF kind = "U64" THEN 2 * Bits ELSE Bits
MaxValue(kind) == 2 ^ (IF kind = "I32" THEN WordBits(kind) - 1 ELSE WordBits(kind)) - 1
Wrapped(kind, n) ==
    LET w == n % 2 ^ WordBits(kind)
    IN IF w > MaxValue(kind) THEN w - 2 ^ WordBits(kind) ELSE w

Radix == [Decimal |-> 10, Hexadecimal |-> 16, Octal |-> 8, Binary |-> 2]
Limit(lit) == MaxValue(lit.kind) \div (IF lit.base = "Hexadecimal" THEN 10 ELSE Radix[lit.base])
Digit(base, c) ==
    CASE base # "Hexadecimal" \/ c \in 0 .. 9 -> c
      [] c \in 17 .. 22 -> c - 7    \* 'A' .. 'F'
      [] c \in 49 .. 54 -> c - 39   \* 'a' .. 'f'
      [] OTHER -> 0

(* Mutant of ParseInt: the value is checked after the multiplication. *)
ParseIntCheckedLate(lit) ==
    FoldLeft(LAMBDA r, c :
        LET data == Wrapped(lit.kind, r.data * Radix[lit.base] + Digit(lit.base, c))
        IN [data |-> data, overflow |-> r.overflow \/ Limit(lit) < data],
        [data |-> 0, overflow |-> FALSE], lit.text)

ParseInt(lit) ==
    FoldLeft(LAMBDA r, c :
        [data |-> Wrapped(lit.kind, r.data * Radix[lit.base] + Digit(lit.base, c)),
         overflow |-> r.overflow \/ Limit(lit) < r.data],
        [data |-> 0, overflow |-> FALSE], lit.text)

-----------------------------------------------------------------------------
(* The children of a node: for each, the kind that it is classified by and *)
(* what it is lowered to.  A child that is taken though it is missing, an  *)
(* expression or a statement of no kind, and a kind that has no case here  *)
(* end in undefined behaviour or in std::terminate().                      *)

Mark == [id |-> "crash", class |-> "crash", own |-> <<>>, kids |-> <<>>, place |-> <<>>]
Crash == [Mark EXCEPT !.own = <<Mark>>, !.kids = <<Mark>>]

All(c, kind) ==
    LET s == SelectSeq(c, LAMBDA e : e.kind = kind) IN Each(LAMBDA e : e.is, s)
Has(c, kind) == All(c, kind) # <<>>
Nth(c, kind, n) == IF n <= Len(All(c, kind)) THEN All(c, kind)[n] ELSE Crash
First(c, kind) == Nth(c, kind, 1)
Maybe(c, kind) == IF Has(c, kind) THEN First(c, kind) ELSE NoNode
TokensOf(c, kinds) == LET s == SelectSeq(c, LAMBDA e : e.kind \in kinds)
                      IN [i \in DOMAIN s |-> s[i].is]

StmtKinds == {"if", "while", "do", "let", "var", "switch", "{", "for", "ExprStmt", "Stmt"}
TypeNameKinds == {"TypeName", "CustomTypeName", "ArrayTypeName"}
ExprKinds ==
    Binary \cup {"Group", "New", "Literal", "InitializerList", "Unary", "Match", "Call",
                 "Subscript", "HeadedIdRef", "Cast", "Ternary", "IdRefExpr", "Invalid",
                 "break", "continue", "return", "yield"}
Kind(x) ==
    CASE IsToken(x) -> x.id
      [] ~ IsToken(x) /\ x.node \in ExprKinds -> "Expr"
      [] ~ IsToken(x) /\ x.node \in StmtKinds -> "Stmt"
      [] ~ IsToken(x) /\ x.node \in TypeNameKinds -> "TypeName"
      [] OTHER -> x.node

-----------------------------------------------------------------------------
(* Names and types *)

LowerIdRefEntry(c) == AstIdRefEntry(First(c, "id"), All(c, "TypeName"))
LowerIdRef(c) == OwnedIdRef(All(c, "IdRefEntry"))

Nullability(c) ==
    IF Has(c, "?") THEN TokensOf(c, {"?"}) ELSE TokensOf(c, {"!"})
TypeFlags(c) == TokensOf(c, {"const"}) \o TokensOf(c, {"final"}) \o Nullability(c)
LowerTypeName(kind, c) ==
    CASE kind = "CustomTypeName" -> CustomTypeNameNode(First(c, "IdRef"), TypeFlags(c))
      [] kind = "ArrayTypeName" -> ArrayTypeNameNode(First(c, "TypeName"), TypeFlags(c))
      [] \E b \in Builtin : Has(c, b) ->
           BuiltinTypeNameNode(First(c, CHOOSE b \in Builtin : Has(c, b)), TypeFlags(c))
      [] OTHER -> Crash

(* No binding has a "var" of its own (is_var_binding). *)
LowerVarBinding(c) == BindingEntry(First(c, "id"), Maybe(c, "TypeName"), Maybe(c, "Expr"))
LowerVarBindings(c) == Joined(All(c, "VarBinding"))

-----------------------------------------------------------------------------
(* Expressions *)

LowerIntLiteral(c, lit) ==
    LET t == First(c, "literal")
        value == [id |-> t.id, from |-> t.from, parsed |-> ParseInt(lit)]
    IN IF lit.kind = "I32" THEN SignedLiteralExprNode(value) ELSE UnsignedLiteralExprNode(value)

LowerLiteral(c, lit) ==
    CASE Has(c, "literal") /\ lit.kind \in {"I32", "U32", "U64"} -> LowerIntLiteral(c, lit)
      [] Has(c, "literal") /\ lit.kind = "F32" -> F32LiteralExprNode(First(c, "literal"))
      [] Has(c, "literal") /\ lit.kind = "F64" -> F64LiteralExprNode(First(c, "literal"))
      [] Has(c, "literal") /\ lit.kind = "String" -> StringLiteralExprNode(First(c, "literal"))
      [] Has(c, "null") -> NullLiteralExprNode
      [] OTHER -> BoolLiteralExprNode(IF Has(c, "true") THEN First(c, "true")
                                                        ELSE First(c, "false"))

LowerUnary(c) == UnaryExprNode(First(c, "Expr"))

(* Mutants of LowerBinary: the right operand is taken for both; the        *)
(* operands change places.                                                 *)
LowerBinaryRightTwice(op, c) ==
    BinaryExprNode([id |-> op], Nth(c, "Expr", 2), Nth(c, "Expr", 2))

LowerBinarySwapped(op, c) ==
    BinaryExprNode([id |-> op], Nth(c, "Expr", 2), Nth(c, "Expr", 1))

LowerBinary(op, c) == BinaryExprNode([id |-> op], Nth(c, "Expr", 1), Nth(c, "Expr", 2))
LowerTernary(c) == TernaryExprNode(Nth(c, "Expr", 1), Nth(c, "Expr", 2), Nth(c, "Expr", 3))
LowerIdRefExpr(c) == IdRefExprNode(First(c, "IdRef"))
LowerHeadedIdRef(c) == HeadedIdRefExprNode(First(c, "Expr"), First(c, "IdRef"))

(* The arguments, lowered where they stand, are the node's. *)
LowerArgs(c) == Piece(<<>>, All(c, "Expr"))
LowerInitializerList(c) == InitializerListExprNode(First(c, "Args").kids)
LowerCall(c) == CallExprNode(First(c, "Expr"), First(c, "Args").kids)
LowerSubscript(c) == SubscriptExprNode(First(c, "Expr"), First(c, "Args").kids)
LowerNew(c) == NewExprNode(First(c, "TypeName"), First(c, "Args").kids)
LowerCast(c) == CastExprNode(First(c, "Expr"), First(c, "TypeName"))

(* The value of the default branch is not lowered. *)
LowerMatchCase(c) ==
    IF Has(c, "default") THEN MatchExprBranch(NoNode, NoNode)
    ELSE MatchExprBranch(Nth(c, "Expr", 1), Nth(c, "Expr", 2))
LowerMatch(c) ==
    MatchExprNode(First(c, "Expr"), Maybe(c, "TypeName"), All(c, "MatchCase"))

(* Mutant of LowerContinue: the arguments are taken for granted. *)
LowerContinueWithArgs(c) == ContinueExprNode(First(c, "Args").kids)

LowerContinue(c) == ContinueExprNode(IF Has(c, "Args") THEN First(c, "Args").kids ELSE <<>>)
LowerReturn(c) == ReturnExprNode(Maybe(c, "Expr"))
LowerYield(c) == YieldExprNode(First(c, "Expr"))
LowerGroup(c) == GroupExprNode(First(c, "Expr"))

-----------------------------------------------------------------------------
(* Statements *)

LowerIf(c) ==
    IfStmtNode(First(c, "Expr"), First(c, "Stmt"),
               IF Len(All(c, "Stmt")) > 1 THEN Nth(c, "Stmt", 2) ELSE NoNode)
LowerFor(c) ==
    ForStmtNode(First(c, "VarBindings"), First(c, "Expr"),
                SubSeq(All(c, "Expr"), 2, Len(All(c, "Expr"))), First(c, "Stmt"))
LowerWhile(c) == WhileStmtNode(First(c, "Expr"), First(c, "Stmt"))
LowerDoWhile(c) == DoWhileStmtNode(First(c, "Expr"), First(c, "Stmt"))
LowerExprStmt(c) == ExprStmtNode(All(c, "Expr"))
LowerLocalVar(c) == VarDefStmtNode(First(c, "VarBindings"))
LowerBlock(c) == BlockStmtNode(All(c, "Stmt"))
LowerSwitchCase(c) ==
    SwitchStmtBranch(IF Has(c, "default") THEN NoNode ELSE First(c, "Expr"), First(c, "Stmt"))
LowerSwitch(c) == SwitchStmtNode(First(c, "Expr"), All(c, "SwitchCase"))

-----------------------------------------------------------------------------
(* Members *)

MemberKinds ==
    {"FnDecl", "FnDef", "ClassDef", "InterfaceDef", "TraitDef", "StructDef", "ConstEnumDef",
     "ScopedEnumDef", "UnionEnumDef", "ExceptDef", "AttributeDef", "ConstAndScopedEnumItem",
     "UnionEnumCase"}

(* Mutant of LowerMembers: imports and variables are passed over alike. *)
LowerMembersPastVar(c) ==
    LET m == SelectSeq(c, LAMBDA e : e.kind \in MemberKinds) IN [i \in DOMAIN m |-> m[i].is]

(* The bindings of a variable are looked for among the children of the     *)
(* type or module it is a member of, where the parser puts none: the       *)
(* function returns, without this variable and all that follows.           *)
LowerMembers(c) ==
    LET vars == {i \in DOMAIN c : c[i].kind = "Var"}
        m == SelectSeq(SubSeq(c, 1, IF vars = {} THEN Len(c)
                                    ELSE (CHOOSE i \in vars : \A j \in vars : i <= j) - 1),
                       LAMBDA e : e.kind \in MemberKinds)
    IN [i \in DOMAIN m |-> m[i].is]

LowerInheritanceSlot(c) == First(c, "TypeName")
LowerImplItem(c) ==
    IF Has(c, "ImplItem") THEN Joined(All(c, "ImplItem"))
    ELSE Piece(<<>>, <<First(c, "TypeName")>>)
LowerImplList(c) == IF Has(c, "ImplItem") THEN First(c, "ImplItem").kids ELSE <<>>

LowerModule(c) == ModuleNode(Scope(LowerMembers(c), NoNode, <<>>, NoNode))
LowerClass(c) ==
    ClassNode(<<First(c, "id")>> \o TokensOf(c, {"final"}),
              Scope(LowerMembers(c), Maybe(c, "InheritanceSlot"), LowerImplList(c), NoNode))
LowerTypeDef(kind, c) ==
    LET scope == Scope(LowerMembers(c), NoNode, LowerImplList(c), NoNode)
    IN CASE kind = "InterfaceDef" -> InterfaceNode(First(c, "id"), scope)
         [] kind = "TraitDef" -> TraitNode(First(c, "id"), scope)
         [] kind = "StructDef" -> StructNode(First(c, "id"), scope)
LowerExcept(c) ==
    ExceptNode(First(c, "id"),
               Scope(LowerMembers(c), Maybe(c, "InheritanceSlot"), <<>>, NoNode))
LowerEnum(kind, c) ==
    LET scope == Scope(LowerMembers(c), NoNode, <<>>, Maybe(c, "InheritanceSlot"))
    IN CASE kind = "ConstEnumDef" -> ConstEnumNode(First(c, "id"), scope)
         [] kind = "ScopedEnumDef" -> ScopedEnumNode(First(c, "id"), scope)
         [] kind = "UnionEnumDef" -> UnionEnumNode(First(c, "id"), scope)
LowerAttribute(c) ==
    AttributeNode(IF Has(c, "id") THEN <<First(c, "id")>> ELSE <<>>,
                  Scope(LowerMembers(c), NoNode, <<>>, NoNode))
LowerEnumItem(c) == EnumItemNode(First(c, "id"), Maybe(c, "Expr"))
LowerUnionEnumCase(c) == UnionEnumItemNode(First(c, "id"))

(* The name of an operator is its first token, white space included; it is *)
(* not set when there is none.                                             *)
LowerOperatorName(c) == IF c = <<>> THEN [id |-> "unnamed"] ELSE Head(c).is
FnKind(c) ==
    IF Has(c, "async") THEN TokensOf(c, {"async"}) ELSE TokensOf(c, {"operator"})
Overriding(c) == Has(c, "override") /\ Len(All(c, "(")) > 1
ReturnType(c) ==
    LET i == IF Overriding(c) THEN 2 ELSE 1
    IN IF Len(All(c, "TypeName")) >= i THEN Nth(c, "TypeName", i) ELSE NoNode
LowerFn(kind, c) ==
    LET name == IF Has(c, "id") THEN First(c, "id") ELSE First(c, "OperatorName")
        overloading == FnOverloadingNode(
            FnKind(c) \o TokensOf(c, {"const", "virtual", "override"}),
            IF Has(c, "VarBindings") THEN First(c, "VarBindings") ELSE Joined(<<>>),
            ReturnType(c),
            IF Overriding(c) THEN Maybe(c, "TypeName") ELSE NoNode,
            IF kind = "FnDef" THEN BlockStmtNode(All(c, "Stmt")) ELSE NoNode)
    IN FnNode(name, <<overloading>>)

-----------------------------------------------------------------------------
(* _do_lower_rg_node_to_ast_node and its companions: the children of a     *)
(* node are lowered where its case asks for them; that the others are      *)
(* lowered here too is of no effect.  A break or a continue without a      *)
(* value, and what is like them, take nothing from their children.         *)

LowerStmt(kind, c) ==
    CASE kind = "if" -> LowerIf(c)
      [] kind = "for" -> LowerFor(c)
      [] kind = "while" -> LowerWhile(c)
      [] kind = "do" -> LowerDoWhile(c)
      [] kind = "ExprStmt" -> LowerExprStmt(c)
      [] kind \in {"let", "var"} -> LowerLocalVar(c)
      [] kind = "{" -> LowerBlock(c)
      [] kind = "switch" -> LowerSwitch(c)
      [] OTHER -> Crash

LowerExpr(kind, c, lit) ==
    CASE kind \in Binary -> LowerBinary(kind, c)
      [] kind = "Literal" -> LowerLiteral(c, lit)
      [] kind = "Unary" -> LowerUnary(c)
      [] kind = "Ternary" -> LowerTernary(c)
      [] kind = "IdRefExpr" -> LowerIdRefExpr(c)
      [] kind = "HeadedIdRef" -> LowerHeadedIdRef(c)
      [] kind = "InitializerList" -> LowerInitializerList(c)
      [] kind = "Call" -> LowerCall(c)
      [] kind = "Subscript" -> LowerSubscript(c)
      [] kind = "New" -> LowerNew(c)
      [] kind = "Cast" -> LowerCast(c)
      [] kind = "Match" -> LowerMatch(c)
      [] kind = "break" -> BreakExprNode
      [] kind = "continue" -> LowerContinue(c)
      [] kind = "return" -> LowerReturn(c)
      [] kind = "yield" -> LowerYield(c)
      [] kind = "Group" -> LowerGroup(c)
      [] OTHER -> Crash

LowerMember(kind, c) ==
    CASE kind = "ClassDef" -> LowerClass(c)
      [] kind \in {"FnDef", "FnDecl"} -> LowerFn(kind, c)
      [] kind \in {"InterfaceDef", "TraitDef", "StructDef"} -> LowerTypeDef(kind, c)
      [] kind = "ExceptDef" -> LowerExcept(c)
      [] kind \in {"ConstEnumDef", "ScopedEnumDef", "UnionEnumDef"} -> LowerEnum(kind, c)
      [] kind = "ConstAndScopedEnumItem" -> LowerEnumItem(c)
      [] kind = "UnionEnumCase" -> LowerUnionEnumCase(c)
      [] kind = "AttributeDef" -> LowerAttribute(c)
      [] kind = "Module" -> LowerModule(c)

(* Nodes that are no nodes of the syntax tree. *)
LowerPart(kind, c) ==
    CASE kind = "IdRef" -> LowerIdRef(c)
      [] kind = "IdRefEntry" -> LowerIdRefEntry(c)
      [] kind = "VarBindings" -> LowerVarBindings(c)
      [] kind = "VarBinding" -> LowerVarBinding(c)
      [] kind = "Args" -> LowerArgs(c)
      [] kind = "MatchCase" -> LowerMatchCase(c)
      [] kind = "SwitchCase" -> LowerSwitchCase(c)
      [] kind = "InheritanceSlot" -> LowerInheritanceSlot(c)
      [] kind = "ImplItem" -> LowerImplItem(c)
      [] kind = "OperatorName" -> LowerOperatorName(c)
      [] OTHER -> Crash

LowerNode(kind, c, lit) ==
    CASE kind \in ExprKinds -> LowerExpr(kind, c, lit)
      [] kind \in StmtKinds -> LowerStmt(kind, c)
      [] kind \in TypeNameKinds -> LowerTypeName(kind, c)
      [] kind \in MemberKinds \cup {"Module"} -> LowerMember(kind, c)
      [] OTHER -> LowerPart(kind, c)

RECURSIVE Placed(_, _), Lower(_, _)
Placed(n, place) ==
    IF "place" \in DOMAIN n /\ n.place = Nowhere
    THEN [n EXCEPT !.place = place, !.kids = Each(LAMBDA k : Placed(k, place), n.kids)]
    ELSE n

Lower(red, lit) ==
    IF IsToken(red.green) THEN red.green
    ELSE LET children == Each(LAMBDA r : [kind |-> Kind(r.green), is |-> Lower(r, lit)],
                              red.children)
         IN Placed(LowerNode(red.green.node, children, lit), red.place)
=============================================================================
