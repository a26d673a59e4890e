------------------------------ MODULE AstNodes ------------------------------
(***************************************************************************)
(* The classes of syntax tree nodes (slkc/ast/nodedefs) that a program is  *)
(* lowered to, each with what its constructor sets and what its do_dump    *)
(* writes and pushes.                                                      *)
(*                                                                         *)
(* A node is a record of                                                   *)
(*   class   its C++ class                                                 *)
(*   own     what it keeps itself: the tokens of its names, its operator   *)
(*           and its flags, and the value of a literal                     *)
(*   kids    the nodes its do_dump pushes, in that order                   *)
(*   place   the place of the red node it is made for, by which it is told *)
(*           from nodes of its class that look the same                    *)
(* A handle that was never set is NoNode.  Some members are pushed only    *)
(* if they are set (Guarded), the others whatever they are.  Parts of a    *)
(* node that are no nodes themselves, bindings, branches and entries of    *)
(* an identifier reference, are pieces of its own and its kids.            *)
(* Where the tokens stood (the sti_ members) is left out: it is not set.   *)
(***************************************************************************)
EXTENDS Integers, Sequences, SequencesExt

Nowhere == <<-1>>
Node(class, own, kids) == [class |-> class, own |-> own, kids |-> kids, place |-> Nowhere]
NoNode == Node("none", <<>>, <<>>)
Guarded(n) == IF n = NoNode THEN <<>> ELSE <<n>>

Piece(own, kids) == [own |-> own, kids |-> kids]
Kids(pieces) == FlattenSeq([i \in DOMAIN pieces |-> pieces[i].kids])
Joined(pieces) ==
    Piece(FlattenSeq([i \in DOMAIN pieces |-> pieces[i].own]), Kids(pieces))

-----------------------------------------------------------------------------
(* Identifier references and type names *)

AstIdRefEntry(name, generic_args) == Piece(<<name>>, generic_args)
OwnedIdRef(entries) == Joined(entries)

TypeNameNode(class, flags, kids) == Node(class, flags, kids)
BuiltinTypeNameNode(name, flags) == TypeNameNode("BuiltinTypeName", <<name>> \o flags, <<>>)
CustomTypeNameNode(referred_name, flags) ==
    TypeNameNode("CustomTypeName", referred_name.own \o flags, referred_name.kids)
ArrayTypeNameNode(element_type, flags) == TypeNameNode("ArrayTypeName", flags, <<element_type>>)

-----------------------------------------------------------------------------
(* Expressions *)

ExprNode(class, own, kids) == Node(class, own, kids)

UnaryExprNode(operand) == ExprNode("Unary", <<>>, <<operand>>)
BinaryExprNode(binary_op, lhs, rhs) == ExprNode("Binary", <<binary_op>>, <<lhs, rhs>>)
TernaryExprNode(condition, true_branch, false_branch) ==
    ExprNode("Ternary", <<>>, <<condition, true_branch, false_branch>>)
IdRefExprNode(id_ref) == ExprNode("IdRef", id_ref.own, id_ref.kids)
HeadedIdRefExprNode(head_expr, id_ref) ==
    ExprNode("HeadedIdRef", id_ref.own, <<head_expr>> \o id_ref.kids)

SignedLiteralExprNode(literal) == ExprNode("SignedLiteral", <<literal>>, <<>>)
UnsignedLiteralExprNode(literal) == ExprNode("UnsignedLiteral", <<literal>>, <<>>)
F32LiteralExprNode(literal) == ExprNode("F32Literal", <<literal>>, <<>>)
F64LiteralExprNode(literal) == ExprNode("F64Literal", <<literal>>, <<>>)
StringLiteralExprNode(literal) == ExprNode("StringLiteral", <<literal>>, <<>>)
BoolLiteralExprNode(literal) == ExprNode("BoolLiteral", <<literal>>, <<>>)
NullLiteralExprNode == ExprNode("NullLiteral", <<>>, <<>>)

InitializerListExprNode(elements) == ExprNode("InitializerList", <<>>, elements)
CallExprNode(target, args) == ExprNode("Call", <<>>, <<target>> \o args)
SubscriptExprNode(target, args) == ExprNode("Subscript", <<>>, <<target>> \o args)
NewExprNode(target_type, args) == ExprNode("New", <<>>, <<target_type>> \o args)
CastExprNode(operand, target_type) == ExprNode("Cast", <<>>, <<operand, target_type>>)

MatchExprBranch(pattern, result_value) == Piece(<<>>, Guarded(pattern) \o Guarded(result_value))
MatchExprNode(condition, return_type, branches) ==
    ExprNode("Match", <<>>, Guarded(condition) \o Guarded(return_type) \o Kids(branches))

BreakExprNode == ExprNode("Break", <<>>, <<>>)
ContinueExprNode(continue_values) == ExprNode("Continue", <<>>, continue_values)
ReturnExprNode(return_value) == ExprNode("Return", <<>>, Guarded(return_value))
YieldExprNode(return_value) == ExprNode("Yield", <<>>, <<return_value>>)
GroupExprNode(operand) == ExprNode("Group", <<>>, <<operand>>)

-----------------------------------------------------------------------------
(* Statements; a list of bindings is the piece they are joined to *)

ExprStmtNode(inner_exprs) == Node("ExprStmt", <<>>, inner_exprs)
BindingEntry(name, type, initial_value) ==
    Piece(<<name>>, Guarded(type) \o Guarded(initial_value))
VarDefStmtNode(bindings) == Node("VarDefStmt", bindings.own, bindings.kids)
ForStmtNode(loop_vars, condition_expr, step_exprs, body) ==
    Node("ForStmt", loop_vars.own,
         loop_vars.kids \o <<condition_expr>> \o step_exprs \o <<body>>)
WhileStmtNode(condition_expr, body) == Node("WhileStmt", <<>>, <<condition_expr, body>>)
DoWhileStmtNode(condition_expr, body) == Node("DoWhileStmt", <<>>, <<condition_expr, body>>)
IfStmtNode(condition, true_branch, false_branch) ==
    Node("IfStmt", <<>>, <<condition, true_branch>> \o Guarded(false_branch))
SwitchStmtBranch(pattern, body) == Piece(<<>>, Guarded(pattern) \o Guarded(body))
SwitchStmtNode(condition, branches) == Node("SwitchStmt", <<>>, <<condition>> \o Kids(branches))
BlockStmtNode(inner_stmts) == Node("BlockStmt", <<>>, inner_stmts)

-----------------------------------------------------------------------------
(* Members.  A name that is not set is dumped as an empty string.  The     *)
(* lowering puts no imports and no generic parameters into a scope.        *)

Scope(members, inherited_type, implemented_types, underlying_type) ==
    members \o Guarded(inherited_type) \o implemented_types \o Guarded(underlying_type)
MemberNode(class, own, scope) == Node(class, own, scope)

ModuleNode(scope) == MemberNode("Module", <<>>, scope)
ClassNode(own, scope) == MemberNode("Class", own, scope)
InterfaceNode(name, scope) == MemberNode("Interface", <<name>>, scope)
TraitNode(name, scope) == MemberNode("Trait", <<name>>, scope)
StructNode(name, scope) == MemberNode("Struct", <<name>>, scope)
ExceptNode(name, scope) == MemberNode("Except", <<name>>, scope)
ConstEnumNode(name, scope) == MemberNode("ConstEnum", <<name>>, scope)
ScopedEnumNode(name, scope) == MemberNode("ScopedEnum", <<name>>, scope)
UnionEnumNode(name, scope) == MemberNode("UnionEnum", <<name>>, scope)
AttributeNode(own, scope) == MemberNode("Attribute", own, scope)

EnumItemNode(name, specified_value) ==
    MemberNode("EnumItem", <<name>>, Guarded(specified_value))
UnionEnumItemNode(name) == MemberNode("UnionEnumItem", <<name>>, <<>>)

FnOverloadingNode(flags, params, return_type, overriden_type, body) ==
    MemberNode("FnOverloading", params.own \o flags,
               params.kids \o Guarded(return_type) \o Guarded(overriden_type) \o Guarded(body))
FnNode(name, overloadings) == MemberNode("Fn", <<name>>, overloadings)
=============================================================================
