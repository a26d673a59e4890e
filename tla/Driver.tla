------------------------------- MODULE Driver -------------------------------
(***************************************************************************)
(* main() (slkc/main.cc) on a source that is typed first: the file is      *)
(* read, parsed, lowered and dumped, one after the other.  Errors of the   *)
(* parser are printed, and the tree is lowered and dumped all the same.    *)
(***************************************************************************)
EXTENDS Lowering, AstDump

(* A language says what a source is written of, one phrase after the other *)
(* (slots, a set of phrases for each place), and what its literals may be. *)
(* A source may end anywhere.                                              *)
CONSTANT Languages

ASSUME LanguagesAssumption ==
    \A l \in Languages : l.slots \in Seq(SUBSET Seq(Kinds \ {"end"}))

VARIABLES language,  \* the language of the source
          literal,   \* the literals in the source
          typed,     \* the number of phrases typed so far
          source,    \* the kinds of the tokens of the source
          stage,     \* how far main() has come, or how it ended
          parsed,    \* the parser after parse
          ast        \* the root node, once there is one

driverVars == <<language, literal, typed, source, stage, parsed, ast>>
vars == <<driverVars, dumpVars>>

-----------------------------------------------------------------------------
(* The nodes of a syntax tree as the registry has them: each once, however *)
(* many refer to it.                                                       *)

RECURSIVE NodesFrom(_)
NodesFrom(n) == FoldLeft(LAMBDA s, k : s \o NodesFrom(k), <<n>>, n.kids)
Identity(n) == <<n.class, n.place>>
Registered(root) ==
    FoldLeft(LAMBDA s, n : IF \E i \in DOMAIN s : Identity(s[i]) = Identity(n)
                           THEN s ELSE Append(s, n),
             <<>>, NodesFrom(root))
IndexIn(nodes, n) ==
    IF n.class = "none" THEN INVALID_AST_NODE_INDEX
    ELSE CHOOSE i \in DOMAIN nodes : Identity(nodes[i]) = Identity(n)
Pushes(nodes) == Each(LAMBDA n : Each(LAMBDA k : IndexIn(nodes, k), n.kids), nodes)

IsMark(x) == "id" \in DOMAIN x /\ x.id = "crash"
Crashed(root) ==
    \E n \in Range(NodesFrom(root)) :
        n.class = "crash" \/ \E i \in DOMAIN n.own : IsMark(n.own[i])

-----------------------------------------------------------------------------

Init ==
    /\ language \in Languages
    /\ literal \in language.literals
    /\ typed = 0 /\ source = <<>>
    /\ stage = "typing"
    /\ parsed = Unparsed(<<>>, "Module")
    /\ ast = NoNode
    /\ DumpInit

Type(p) ==
    /\ stage = "typing"
    /\ typed' = typed + 1
    /\ source' = source \o p
    /\ UNCHANGED <<language, literal, stage, parsed, ast, dumpVars>>

(* The file is read, lexed and parsed.  An empty file is an error; what    *)
(* the parser reports is not, but the width of its tree must be the file's *)
(* size.                                                                   *)
Run ==
    /\ stage = "typing"
    /\ parsed' = Parse(source)
    /\ stage' = CASE source = <<>> -> "EIO"
                  [] source # <<>> /\ parsed'.err = "endless" -> "hung"
                  [] source # <<>> /\ parsed'.err # "endless"
                       /\ TextWidth(Measured(Tree(parsed'))) # WidthOf(source) -> "aborted"
                  [] OTHER -> "parsed"
    /\ UNCHANGED <<language, literal, typed, source, ast, dumpVars>>

(* lower_rg_node_to_ast_node *)
LowerTree ==
    /\ stage = "parsed"
    /\ ast' = Lower(RedRoot(Measured(Tree(parsed))), literal)
    /\ stage' = IF Crashed(ast') THEN "crashed" ELSE "lowered"
    /\ UNCHANGED <<language, literal, typed, source, parsed, dumpVars>>

(* deep_dump_ast_node *)
Dump ==
    /\ stage = "lowered"
    /\ LET nodes == Registered(ast) IN BeginDump(Pushes(nodes), IndexIn(nodes, ast))
    /\ stage' = "dumping"
    /\ UNCHANGED <<language, literal, typed, source, parsed, ast>>

DumpTree == DumpStep /\ UNCHANGED driverVars

Exit ==
    /\ stage = "dumping" /\ dump \in {"done", "failed"}
    /\ stage' = IF dump = "done" THEN "exited" ELSE "crashed"
    /\ UNCHANGED <<language, literal, typed, source, parsed, ast, dumpVars>>

Ended == stage \in {"EIO", "hung", "aborted", "crashed", "exited"}

Dumping == DumpTree \/ Exit
Next ==
    \/ typed < Len(language.slots) /\ \E p \in language.slots[typed + 1] : Type(p)
    \/ Run
    \/ LowerTree
    \/ Dump
    \/ Dumping

(* The loop of the dump goes on by itself. *)
Spec == Init /\ [][Next]_vars /\ WF_vars(Dumping)

-----------------------------------------------------------------------------
(* What the properties say of the trees *)

Accepted == Ok(parsed) /\ parsed.errors = <<>>
SplitTokens == {i \in DOMAIN parsed.toks : parsed.toks[i].id \in {">", "]"}}
               \cap {i \in DOMAIN parsed.toks : parsed.toks[i].width = 0}

(* The tokens that say what a program is about: a name or a value each. *)
IsName(x) == "id" \in DOMAIN x /\ x.id \in {"id", "literal", "true", "false"}
NamesIn(s) == SelectSeq(s, IsName)

(* The names in a green tree that are to come out of the lowering; what is *)
(* skipped has no place in the syntax tree: a module's name and its        *)
(* imports, generic parameters and arguments, the enumerations of no kind, *)
(* the bindings of a union's case, the value of a default branch, and from *)
(* the first variable of a type or of a module on, its members.            *)
Skipped(n) == ~ IsToken(n) /\ n.node \in {"Unset", "UnknownEnumDecl", "GenericParam"}
HasDefault(n) == \E i \in DOMAIN n.kids : IsToken(n.kids[i]) /\ n.kids[i].id = "default"
VarsOf(n) == {i \in DOMAIN n.kids : ~ IsToken(n.kids[i]) /\ n.kids[i].node = "Var"}
LoweredKids(n) ==
    SelectSeq(IF VarsOf(n) = {} THEN n.kids ELSE SubSeq(n.kids, 1, Min(VarsOf(n)) - 1),
              LAMBDA k :
                  /\ ~ Skipped(k)
                  /\ n.node = "Module" => IsToken(k) \/ k.node # "IdRef"
                  /\ n.node = "UnionEnumCase" => IsToken(k))
RECURSIVE GreenNames(_)
GreenNames(n) ==
    IF IsToken(n) THEN NamesIn(<<n>>)
    ELSE IF n.node = "MatchCase" /\ HasDefault(n) THEN <<>>
    ELSE FoldLeft(LAMBDA s, k : s \o GreenNames(k), <<>>, LoweredKids(n))

RECURSIVE AstNames(_)
AstNames(n) == FoldLeft(LAMBDA s, k : s \o AstNames(k), NamesIn(n.own), n.kids)
Places(names) == [i \in DOMAIN names |-> names[i].from]

-----------------------------------------------------------------------------

(* What the variables hold. *)
TypeOK ==
    /\ language \in Languages /\ literal \in language.literals
    /\ typed \in 0 .. Len(language.slots) /\ source \in Seq(Kinds)
    /\ stage \in {"typing", "parsed", "lowered", "dumping",
                  "EIO", "hung", "aborted", "crashed", "exited"}
    /\ stage \in {"lowered", "dumping", "exited"} => ast.class = "Module" /\ ast.place = <<>>
    /\ dump \in {"none", "running", "done", "failed"}
    /\ dump # "none" => DOMAIN children \subseteq AstNodeIndex

(* A program that is accepted is lowered and dumped: the child that a case *)
(* of the lowering takes without looking is there, each kind of node has   *)
(* its case, and no assertion fails.  Two constructs are excepted, as the  *)
(* parser accepts what is none: an operator without an operand, and a      *)
(* token that is split, whose text is cut.                                 *)
LowersAccepted ==
    Accepted /\ stage \in {"aborted", "crashed"} =>
        SplitTokens # {} \/ \E n \in Nodes(parsed) : n.node = "Unary"

(* The red nodes know where their text is: at every token the offset, the  *)
(* sum of the widths on the way to it, is where the token stands in the    *)
(* file.  What is looked up by offset is what is there.                    *)
RECURSIVE RedTokens(_)
RedTokens(red) ==
    IF IsToken(red.green) THEN {red}
    ELSE UNION {RedTokens(red.children[i]) : i \in DOMAIN red.children}
RedOffsets ==
    stage = "parsed" =>
        \A t \in RedTokens(RedRoot(Measured(Tree(parsed)))) : t.offset = t.green.from

(* The lowering loses and doubles no name and no value: each that the      *)
(* source has, unless it is in what is skipped, is in the syntax tree, at  *)
(* one place.                                                              *)
NamesKept ==
    stage = "lowered" =>
        LET places == Places(AstNames(ast))
        IN /\ IsInjective(places)
           /\ Range(places) = Range(Places(GreenNames(Tree(parsed))))

(* The lowering changes no order: operands, arguments, branches, bindings  *)
(* and statements come in the syntax tree as in the text.  The nodes that  *)
(* dump their parts in another order are excepted.                         *)
Reordered(n) ==
    \/ n.class \in {"DoWhileStmt", "Class", "Interface", "Trait", "Struct",
                    "ConstEnum", "ScopedEnum"}
    \/ n.class = "FnOverloading" /\ \E i \in DOMAIN n.own : n.own[i].id = "override"
NamesInOrder ==
    stage = "lowered" => \A n \in Range(NodesFrom(ast)) : Reordered(n) \/
        \A i, j \in DOMAIN n.kids : i < j =>
            \A a \in Range(Places(AstNames(n.kids[i]))), b \in Range(Places(AstNames(n.kids[j]))) :
                a < b

(* The value of a literal of digits only is the one that they denote, and  *)
(* nothing is reported, if it fits its word.  If it does not, but does     *)
(* without its last digit, that is reported, unless only the last digit is *)
(* too large; in base 16 some of these are not reported.  Left out are      *)
(* binary literals and those with a suffix, whose letters are read as       *)
(* digits: 0b1 is 101 and 1u is 79.                                         *)
PlainText(lit) ==
    CASE lit.base = "Hexadecimal" -> SubSeq(lit.text, 3, Len(lit.text))
      [] OTHER -> lit.text
Value(base, digits) == FoldLeft(LAMBDA v, c : v * Radix[base] + Digit(base, c), 0, digits)
IsPlain(lit) ==
    /\ lit.kind = "I32" /\ lit.base # "Binary"
    /\ \A i \in DOMAIN PlainText(lit) :
          PlainText(lit)[i] \in 0 .. 9 \/ (lit.base = "Hexadecimal" /\ PlainText(lit)[i] \in 17 .. 54)
Literals32 == {n \in Range(NodesFrom(ast)) : n.class = "SignedLiteral"}
PlainNumerals ==
    stage = "lowered" /\ IsPlain(literal) =>
        LET digits == PlainText(literal)
            value == Value(literal.base, digits)
            front == Value(literal.base, SubSeq(digits, 1, Len(digits) - 1))
        IN \A n \in Literals32 :
              /\ value <= MaxValue("I32") => n.own[1].parsed = [data |-> value, overflow |-> FALSE]
              /\ literal.base # "Hexadecimal" /\ front <= MaxValue("I32")
                    /\ front > MaxValue("I32") \div Radix[literal.base]
                    => n.own[1].parsed.overflow

(* Every dump is one of a tree, whatever was parsed: it goes as it is      *)
(* specified, from a node whose dump reaches each node at one place.       *)
Dumps == DumpSpec

(* A dump comes to an end: its loop takes no level that it does not finish, *)
(* and none that is not pushed by one before.                              *)
Answers == stage = "dumping" ~> Ended
=============================================================================
