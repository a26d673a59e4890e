--------------------------- MODULE ProgramParser ---------------------------
(***************************************************************************)
(* Parser::parse on a growing source.  A source is extended whatever the   *)
(* parser made of it, within its bounds: programs are written with errors  *)
(* in them, and the parser is to go on after them.                         *)
(***************************************************************************)
EXTENDS Declarations

(* A language is a set of phrases, sequences of token kinds by which a     *)
(* source grows, the bound on a source's length, and the bound on the      *)
(* errors of a source that is extended.                                    *)
CONSTANT Languages

ASSUME LanguagesAssumption ==
    \A l \in Languages :
        l.phrases \subseteq Seq(Kinds \ {"end"}) /\ l.length \in Nat /\ l.errors \in Nat

VARIABLES language,  \* the language of the source
          source,    \* the kinds of the tokens typed so far
          parsed     \* the parser after parse of that source

vars == <<language, source, parsed>>

-----------------------------------------------------------------------------

Init ==
    /\ language \in Languages
    /\ source = <<>>
    /\ parsed = Parse(source)

Type(p) ==
    /\ Len(parsed.errors) <= language.errors
    /\ Len(source) + Len(p) <= language.length
    /\ source' = source \o p
    /\ parsed' = Parse(source')
    /\ UNCHANGED language

Next == \E p \in language.phrases : Type(p)

Spec == Init /\ [][Next]_vars

-----------------------------------------------------------------------------

Accepted == Ok(parsed) /\ parsed.errors = <<>>

(* What the variables hold; parse returns no other error than these, since  *)
(* the errors of declarations are noted.                                   *)
TypeOK ==
    /\ language \in Languages
    /\ source \in Seq(Kinds) /\ Len(source) <= language.length
    /\ parsed.at \in 1 .. Len(parsed.toks) + 1
    /\ \A i \in DOMAIN parsed.toks : parsed.toks[i].id = "end" <=> i = Len(parsed.toks)
    /\ parsed.err \in {"none", "endless", "ExpectingMoreTokens", "ExpectingSingleToken"}

(* What main() asserts after parsing, for right and wrong programs: the    *)
(* text of the tree is as long as the file.  No error makes the parser     *)
(* stop before the end or pass a token without collecting it.              *)
CoversSource == parsed.err # "endless" => TotalWidth(Leaves(parsed)) = WidthOf(source)

(* The parser comes back, whatever stands in the source: the loops that go *)
(* on after an error get further each time, at the end of the source too.  *)
Halts == parsed.err # "endless"

(* The same of all loops but those over the members of a type: whatever    *)
(* error a statement or an item ends with, the next turn has less to read. *)
HaltsOutsideTypes ==
    parsed.err = "endless" => \E i \in DOMAIN source : source[i] \in DOMAIN DefinitionOf

(* What follows a program without errors leaves its declarations as they   *)
(* are: a declaration ends with a token of its own, and nothing that comes *)
(* after that token changes what it is.                                    *)
Declared == SelectSeq(parsed.kids, LAMBDA k : ~ IsToken(k))
Settled ==
    [][Accepted => IsPrefix(Declared, Declared') /\ IsPrefix(parsed.nodes, parsed'.nodes)]_vars

(* In a program without errors every bracket is closed, and in the node    *)
(* that collected the opening one: the nesting of the tree is that of the  *)
(* brackets in the text.                                                   *)
Opening == {"(", "[", "{"}
Closing == {")", "]", "}"}
Depth(s, k) == Cardinality({i \in 1 .. k : s[i].id \in Opening})
               - Cardinality({i \in 1 .. k : s[i].id \in Closing})
Partner(s, o) == CHOOSE c \in o .. Len(s) :
    /\ Depth(s, c) = Depth(s, o) - 1
    /\ \A i \in o .. c - 1 : Depth(s, i) >= Depth(s, o)
BracketsOf(n) == SelectSeq(n.kids, LAMBDA k : IsToken(k) /\ k.id \in Opening \cup Closing)
BracketsNest ==
    Accepted => \A n \in Nodes(parsed) :
        LET b == BracketsOf(n)
            s == parsed.toks
        IN /\ Depth(s, Len(s)) = 0
           /\ Len(b) % 2 = 0
           /\ \A i \in DOMAIN b : i % 2 = 1 =>
                 b[i].id \in Opening /\ b[i + 1] = s[Partner(s, CHOOSE o \in DOMAIN s : s[o] = b[i])]
=============================================================================
