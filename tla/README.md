# TLA+ models of slkc

slkc is a compiler front end in C++20: it reads a module, parses it into a
lossless tree ("green tree"), and lowers the tree to syntax nodes that it dumps.
This directory holds specifications of its parts in TLA+, the TLC instances
that check them, and proofs that TLAPS checks. `PROJECT.json` says for every
definition which lines of the source it stands for, and lists the runs, the
mutants (a plausible mistake per property that a run must find), the hazards,
the findings and the theorems.

    tlc -config MCNodeRegistry.cfg MCNodeRegistry        # a run
    tlapm NodeRegistry_proofs.tla                        # a proof

## 1. Inventory

The program is single threaded and is one pipeline (`main.cc`): options,
`Global`, `Lexer::lex`, `Parser::parse`, text widths, errors, red tree, lowering,
dump. What is hard in it is not concurrency of threads but the machinery that
keeps it from recursing and from owning memory by plain pointers: coroutines
driven by a list, counted handles with deferred destruction, a cursor that
must put every token into the tree whatever goes wrong, and allocations that
may fail at every step.

| Component | State | Operations | What makes it correct |
|---|---|---|---|
| Node registries and handles (`global.*`, `ast/utils.h`, `ast/rgtree.h`) | map index → entry (object, three counters), list of dead objects, start of the index search; `_node_index` in each object; an index in each handle | make a node, copy, move, pin, drop handles; clear the list; `~Global` | counters equal handles; no handle outlives its entry; no index is lost; shutdown finds nothing |
| Coroutine schedulers (`ast/parser/parser.*`, `comp/env.*`, `ast/rgtree.*`) | `task_list`, the frames, the result in each promise | `co_await`, `co_return`, `resume()` | the list is the chain of calls; a caller goes on after its callee; `resume()` ends, with the root done or an error |
| Token cursor (`ast/parser/parser.*`) | `token_list`, `idx_current_token`, `syntax_errors` | peek, collect, expect, split | every token passed is in the tree, once and in order |
| Expression, type and identifier parser (`expr.cc`, `parser.cc`) | the node being filled | one coroutine per construct | nesting by precedence; errors reach the list; progress |
| Statement and program parser (`stmt.cc`, `parser.cc`) | the same | the same, and the loops that go on after an error | progress in every loop, the tree covers the source |
| Lexer (`lexer.in.cpp`) | offset, condition of the scanner, context stack | `lex` | the tokens stand side by side and cover the source |
| Green tree (`rgtree.*`) | children, `text_width` | compute widths, search an offset, hash, difference | width = sum over the leaves; a difference turns one tree into the other |
| Red tree (`rgtree.*`) | parent, index in the parent, offset | child and parent on demand | offset and path agree with the green tree |
| Lowering (`comp/rg2ast.cc`) | a node per construct, error list | one case per kind | literals keep their value or are reported; every child is lowered once |
| Scopes (`nodedefs/scope.cc`), identifier resolution (`comp/idref.cc`) | members, imports, generic parameters, each with an index by name | add, find, remove, set parent | list and index agree, after failures too |
| Duplication and dump work lists (`global.cc`) | a list of postponed nodes | duplicate, shallow and deep dump | every postponed node is done once, and the loop ends |
| Generic cache (`global.cc`, `nodedefs/member.cc`) | node → arguments → instance | register, find, remove | an entry lives as long as its node |
| Shared strings (`global.cc`) | set of counted strings | register, unregister | one entry per text, gone with its last reference |
| Type definitions (`comp/type.cc`) | terms | compare, intern | the order is total |
| Command line (`main.cc`) | options | match | sizes are what the option says |
| AST node classes (`nodedefs/`) | members | construct, duplicate, dump | (members copied one by one) |

Interactions. Every tree and syntax node is reached through the handles of the
registry. The parser's functions are coroutines on its scheduler, and fill green
nodes from the token cursor; lowering is coroutines on a second scheduler that
read the red tree; the tree algorithms use a third. `~MemberNode` calls the
generic cache while the registry clears its list, so a destructor runs in the
middle of somebody else's copy of a handle.

Hard behaviours, with their lines, are the `hazards` of `PROJECT.json`:
deferred destruction and index reuse, a push that fails between two pushes,
errors noted on one path and returned on another, loops that must make
progress at the end of the input, and tokens that are split after the fact.

## 2. Modules

| Module | Role |
|---|---|
| `NodeRegistry` | the registry, its handles, the deferred clear, the index search |
| `NodeLifetime` | what users of the registry rely on, without indices and counters |
| `NodeRegistry_proofs` | types, counters, entries, handles and the index search of `NodeRegistry`, proved |
| `NodeRegistry_shutdown` | proofs that `~Global` does not abort and that `NodeRegistry` implements `NodeLifetime` |
| `Coroutines` | the three schedulers |
| `CallStack` | nested calls, what coroutines implement |
| `Coroutines_proofs` | theorems about the task list of `Coroutines`, and that it implements `CallStack` |
| `TokenCursor` | peeking, collecting and splitting tokens, propagation of errors |
| `Expressions` | `parse_expr` and all it calls |
| `ExprParser` | expressions on a growing input, and what is true of their trees |
| `TokenCursor_proofs` | lemmas: recursive functions, leaves of a tree, what each cursor operation keeps |
| `Expressions_proofs` | lemmas: what each parsing function of `Expressions` keeps, at any depth of calls |
| `ExprParser_proofs` | theorems about `ExprParser` |
| `Statements` | `parse_stmt`, variable bindings |
| `Declarations` | functions, types, enumerations, members, `parse_program` |
| `ProgramParser` | programs on a growing source, and what is true of their trees |
| `ProgramParser_proofs` | what each function for statements and declarations keeps, where a program ends, theorems about `ProgramParser` |
| `RedTree` | text widths of a green tree, the red tree on it |
| `AstNodes` | the classes of syntax nodes: what each keeps and what its `do_dump` pushes |
| `Lowering` | every case of the lowering, `_parse_int` |
| `AstDump` | the dump with its list of pushed nodes, and what a dump is asked for |
| `AstDump_proofs` | theorems about `AstDump` |
| `Driver` | `main()`: a source is typed, parsed, measured, lowered and dumped |
| `MC...` | instances for TLC |

    NodeLifetime <-implements- NodeRegistry        CallStack <-implements- Coroutines
    TokenCursor <- Expressions <- Statements <- Declarations <- ProgramParser
                        ^                            ^
                    ExprParser        RedTree, AstNodes, Declarations <- Lowering
                                                  Lowering, AstDump <- Driver

### NodeRegistry

One step is one member function of a handle, since nothing runs in between,
except where the code loops: the clear of the list (`TakeList`, `StartDealloc`,
`DestroyField`, `FinishDealloc`) and the search for an index (`ProbeNext`).
While `pc = "clear"` the operation that started it is kept in `src`, `dst` and
`want`, as the C++ caller's frame keeps it. Slots are the handles outside nodes
(`Locals`) and the members of nodes (`Nodes \X Fields`). `status` follows an
object from its construction to its destruction; `lost` is a history variable
that says which indices a failed insertion consumed.

Two conditions restrict what a client does. `Accessible`: a handle inside a
node can be used only through a pin of the node. `StoringKeepsTrees`: strong
handles form trees, because a node knows its parent by a raw index. Moved-from
handles are not copied. These are how the code under `src/` uses the handles;
without the second, reference counting would leak cycles and `~Global` abort.

### Coroutines

A step is one `co_await` (the awaited frame is created, the two pushes are
tried), one `co_return`, or one turn of the loop in `resume()`. `failing`, chosen
at the start among the sets of `Failures`, names the allocations that may
fail: the push of the awaiting handle, the push of the awaited one, the awaited
frame itself. `Destroyed` is the end of the
co_await expression: the coroutine object held in the awaiting frame goes, and
its frame with the coroutine object in it.

### TokenCursor, Expressions, Statements, Declarations

A parsing function is an operator from a parser record to a parser record, and
operators compose as the C++ statements follow each other; an operator leaves a
parser that has an error as it is, which is what `SLKC_CO_RETURN_IF_...` does.
Because the parser is a function of its input, the state machine is the growing
input: `Next` appends a phrase of the `language` chosen at the start, `parsed` is what the parser makes of it. An
expression is extended only when the parser has read all of it, as its behaviour
on anything longer would be the same; a program is extended whatever the parser
made of it, up to a number of errors. The tree keeps its tokens, so that
statements about lost, doubled or misplaced tokens can be made.

The tree is a table, `nodes`: a node enters it when it is complete, behind its
children, which it names by their places. The functions call each other, and a turn
of a loop is a call too: each operator takes `sub`, a record of the functions it may
call. `ExprCalls[depth]` and `ProgramCalls[depth]` tie the knot: the functions whose
calls nest up to a depth, over those of the depth before. A call beyond `MaxDepth`
ends with the error "endless". `MaxDepth` allows ten nested calls for each token, and
is not met: this is proved (`AlwaysHalts`, `ProgramsHalt`), so that the bound takes
nothing away from what the other theorems say.

`Then(r, Step)` is the next C++ statement when it asks more than one question of
the state; `Try` and `Noted` are `SLKC_PUSH_IF_PARSE_ERROR` and its hand-written
copies: the error goes to `errors`, and the parser goes on. The
five functions for classes, interfaces, traits, exceptions and structs differ in
their kind and in which bases they accept, and are one operator, `Definition`, as
the three for enumerations are `EnumDef`.

`Turn` is how a model that computes a parse can say that the code does not
return: each turn of a loop over members or statements depends only on the
tokens from the cursor on, so a turn that leaves the cursor where it was is
repeated for ever. The parser's error is then "endless", which no operator
takes back.

### RedTree, AstNodes, Lowering

A green node is the record that the parser's modules build; `Measured` gives every
node its `text_width`, and `RedRoot` the red tree with parent, index and offset.
In the code red children are made when they are asked for; nothing depends on
when, so all are made at once. `path` is the way from the root by indices.

`Lower` takes a red node, classifies its children by kind as
`RedNodeChildIndices` does (`All`, `First`, `Nth`, `Maybe`), and applies the case
of the node's kind, an operator named after it (`LowerIf`, `LowerCall`, ...).
A case that takes the first of an empty span has undefined behaviour, a kind
without a case ends in `std::terminate()`: both give `Crash`, a mark which
`Crashed` finds in the tree. What the code keeps of a construct is kept here,
and no more; in particular

- an identifier reference keeps its entries: a leading `this`, `super` or `::` and
  the generic arguments of an expression's reference are lost, as are the
  difference of `let` and `var`, a module's name and imports, generic parameters,
  the bindings of a union's case and the value of a default branch of `match`;
- the first variable in a type or module ends the lowering of its members, because
  its bindings are looked for among the children of the node around it
  (`rg2ast.cc:504`). The code behind that return is never reached;
- a unary node never has an operand: the parser leaves the operator's expression
  out of it, and the lowering of `-a` crashes.

`ParseInt` is `_parse_int` digit by digit on words of `Bits` (or twice as many)
bits, with the test for overflow where it stands.

### AstDump, Driver

`AstDump` is the loop of `deep_dump_ast_node`: the list that is swapped out is the
`level`, a step dumps one node of it, and `push_task` fails where its assertions
do. `DumpSpec` says what a dump is asked for (`IsTree`) and how it goes.

`Driver` is `main()` from the text of the file on. A source is typed phrase by
phrase, each from the set of its slot in a `language`, and may end anywhere. `Run`
is reading, lexing, parsing, measuring and the assertion on the width; the source
is that of a file, so what the parser reports is printed and the tree lowered all
the same, as in the code. The possible ends are `EIO` (an empty file), `hung`
(finding 5), `aborted` (the assertion on the width), `crashed` (the lowering or
the dump) and `exited`. The registry gives every node an index: `Registered` lists
each node once, by its class and the place of its red node, and `Pushes` turns the
handles that are dumped into indices, unset ones into `INVALID_AST_NODE_INDEX`.
So a node referred to from two places would be one index pushed twice.

## 3. Runs

Each run answers one question; `PROJECT.json` gives the properties of each.

| Run | Question | Bounds and result |
|---|---|---|
| `registry` | do counters, entries and handles agree, whatever is done? | 3 nodes, 3 outside handles, one stored handle per node, 12 indices, 1 failed insertion; holds |
| `registry_calls` | does every call return, and is this `NodeLifetime`? | the same with 2 outside handles and no failed insertion; holds |
| `registry_full` | what happens when indices run out? | 4 nodes, 4 handles, 4 indices, 1 failed insertion; holds |
| `coroutines` | are coroutines calls, does `resume()` return, can a stale handle be resumed when anything may fail? | 4 frames; nothing may fail, or the second push and the frame, or anything; holds, the return under fairness |
| `coroutines_terminate` | does `resume()` avoid its own `std::terminate()`? | 3 frames, the first push may fail; **violated** |
| `expressions` | is nothing lost, misnested or silently accepted? does every call take a token, and return? is the tree the canonical one? | 14 token kinds, 6 tokens; 16 phrases with keywords, 7 tokens; 10 operators, 5 operands; tokens that are split, 10 tokens; `match` with two cases, 13 tokens; 268 000 states; holds |
| `operator_comments` | does a node's operation denote its operator? | 2 operands; **violated** |
| `token_width` | does the tree cover the source when tokens are split? | 8 tokens with `]]` and `>>`; **violated** |
| `programs` | does the tree cover the source and do loops end, whatever errors there are? are accepted brackets nested as in the text, and finished declarations left alone by what follows? | four languages of 8 to 12 phrases: bodies of functions (11 tokens), statements with parts (18), declarations (9), enumerations (10); 2 errors; holds |
| `driver` | is an accepted program lowered without a missing child, and dumped whole? are offsets right? does any name get lost, doubled or moved? do literals keep their value? | 14 languages of up to 11 slots, 8-bit words, 100 indices; 82 000 states; holds |
| `module_header` | does the tree cover the source when the header is wrong? | 5 tokens; **violated** |
| `open_class` | does the loop over members end? | 5 tokens; **violated** |

Why the bounds are enough. Three nodes give a chain whose destruction lists a
node while the clear runs, twice; three outside handles are the source, the
target and the pin that gives access to a field; 12 indices are more than the
search visits, so that it never reaches the half of the range where it spins,
while `registry_full` has exactly as many indices as nodes. Four frames are a
chain of three calls with a frame to spare that is reused after its end. Six
tokens hold two operators with three operands, a bracketed pair and an error in
any place of them; five operands are two operators on each side of a third. Ten tokens hold
two subscripts or type arguments one inside the other, closed by one token, and thirteen a `match`
with two cases. The width is lost with one split token. A program of eleven tokens is a function
with two nested statements and an error in any place; eighteen are a function
with a `switch` or `for` and its body; nine are a class with a function in it, or
three declarations. The bound on errors cuts sources whose remainder would be
parsed as single unexpected tokens. In the longer sources the phrases are such
that each of the statements and declarations named occurs in an accepted source.

The driver's languages have, between them, every construct, each of its optional
parts present and absent, and errors that leave parts out; three chained operators
give each way two of them nest under a third. Numerals of four digits pass the
limit of an 8-bit word by one digit and by two, at each of the last places. 100
indices are more than the nodes of any of these programs (`TypeOK`).

Symmetry is used in the two registry runs that check only invariants. Deadlock
is not checked in `registry_full`, where the index search can be stuck on a taken
index (a hazard), nor for the parser and the driver, whose input is bounded and
which end.

Fairness. `NodeRegistry!FairSpec`: a call that has begun goes on, and nothing
makes the program begin one. `Coroutines!FairSpec`: `resume()` is called and keeps
turning; a body that is resumed infinitely often returns at some time (strong
fairness of its `Return`), because each `co_await` of a body consumes input.
That a body consumes input is checked, and proved, for the expression parser by `Advances`,
and for the loops above it by `HaltsOutsideTypes`, with the exception of
finding 5. `Driver!Spec`: the loop of the dump goes on by itself; nothing makes the
source end.

`LowersAccepted` excepts programs with a unary operator and with a split token,
which do crash and abort; `NamesKept` the losses listed above; `NamesInOrder` the
nodes whose `do_dump` has an order of its own; `PlainNumerals` the hexadecimal
literals whose overflow the code does not see, and the binary and the unsigned ones, which
the code gets wrong: `_parse_int` reads the whole text of the token, so that
the `b` of the prefix counts as the digit 50 and the `u` of the suffix as 69 (`0b1`
is 101, `1u` is 79; `rg2ast.cc:73, 173, 194`), and in base 16 a suffix as a digit 0. Each is one of the code's facts, and
is named in the property's comment.

### Findings

1. `coroutines_terminate`: `await_suspend` answers a failed push of the awaiting
   handle with an error in the awaited promise, which nobody can read any more;
   the list is empty and `resume()` terminates the program (`parser.cc:23`;
   `env.cc:28` and `rgtree.cc:404` likewise) instead of reporting out of memory.
2. `operator_comments`: `+`, `<<` and `>>` make nodes with the operation `Mul`, `===`
   with `Eq` and `!==` with `Neq` (`expr.cc:444, 482, 501, 653, 672`), against the
   comments of the enumeration (`rgtree.h:270-298`).
3. `token_width`: `split_rdbrackets_token` cuts the text of the token to one
   character and takes `substr(1)` of the rest, so `a[b[c]]` is accepted with a
   tree one character short of the file, against the assertion in `main.cc:916`.
4. `module_header`: when the module's name is not followed by a semicolon
   `parse_program` returns (`parser.cc:1347`) and the rest of the file is in no
   node; `main` asserts the width of the tree after errors too (`main.cc:916`).
5. `open_class`: at the end of the source the loop over the members of a class,
   interface, trait, exception or struct notes one error after the other until
   memory runs out (`parser.cc:939, 969, 999, 1029, 1059`); the loop over a
   function's statements looks for the end (`parser.cc:894`), and `parse_program`
   means to parse on after errors (`parser.cc:1353`).

The run `programs` therefore excepts the loops over members from
`HaltsOutsideTypes` and an endless parse from `CoversSource`, and its headers have
their semicolon.

## 4. Proofs

All proofs are for every value of the constants, under the named assumptions of
the modules: finitely many slots (`NodesAssumption`), handles inside and outside
nodes are different things (`SlotsAssumption`), natural bounds
(`IndexAssumption`), the null handle is no frame (`FramesAssumption`), the index of
an unset handle is that of no node.

**NodeRegistry** (`NodeRegistry_proofs`): `TypeCorrect`, `CountingCorrect`
(`CountsMatch`), `RegistryCorrect` (`RegistryMatches`), `HandlesSafe`
(`NoDangling`). None of the last three is inductive alone: that a drop removes
the entry exactly when no handle is left needs that counters are the numbers of
handles; that counting a new handle hits an existing entry needs that the
source of a running copy survives the clear; and that a destroyed field hits an
existing entry needs that fields hold strong handles. The invariant is

    IInv == TypeOK /\ RegistryMatches /\ CountsMatch
            /\ Unmapped /\ FieldsAreRefs /\ Control

where `Unmapped` says that an index without an entry has no count and no handle,
`FieldsAreRefs` that fields hold only "ref" handles, and `Control` ties `src`,
`dst` and `want` to `pc`. Lemmas state what `Drop` does to the counters and the
entries once, and every action cites them.

Three further theorems rest on that invariant:

- `NoIndexForgotten` (`NoIndexLeak`, in the same module). The strengthening is
  `Searching`: a search that has left its start found the start taken, so that
  `++_min_free_ast_node_index` never passes over a free index.
- `ShutdownCompletes` (`NeverAborts`, in `NodeRegistry_shutdown`). The invariant is

      SInv == Trees /\ Referred /\ Unbuilt /\ Indexed
              /\ Closing /\ Storing /\ NeverAborts

  `Trees` says that every nonempty set of nodes has one that no node of the set holds;
  when the clear of the shutdown is over, an entry that was left would have a
  handle (`Referred`), the handle would be in a live node (`Closing`), and the live
  nodes would be a set in which each is held by another. That storing keeps
  `Trees` rests on the guard `StoringKeepsTrees` of the handle operations (a node
  refers to its parent by index, never by handle), which a copy carries
  through its clear (`Storing`).
- `RegistryImplementsLifetime` (`ImplementsLifetime`, in `NodeRegistry_shutdown`). Each step of
  a handle or of the clear is one step of `NodeLifetime` or none. The bridge
  is that an object is registered exactly as long as some handle points to it
  (`LiveIsHeld`), which follows from `CountsMatch`, `RegistryMatches` and `Referred`.

**Coroutines** (`Coroutines_proofs`): `CoroutinesTyped`, and, under
`NoAwaiterFailure == "awaiter" \notin failing`, `ListCorrect`, `NoFrameDangles`,
`NoTermination` and `CalleesFirst`. The assumption is what the first finding is
about. The invariant is

    IInv  == TypeOK /\ (NoAwaiterFailure => Sound)
    Sound == Fresh /\ (Live => Shape) /\ NeverTerminates

`Shape` says that the chain (the list, and the running frame) begins with the
root, has no frame twice, that each of its frames awaits the next, that only the
last may be one that has just returned or was refused, and that frames outside
the chain are free or were awaited by one of it. A destroyed frame is
then never in the chain, and the list is empty only when the root has returned.

`CoroutinesImplementCalls` (`ImplementsCalls`) rests on the same invariant: the chain is the call stack, less the null handle of a frame that could
not be allocated; `co_await` pushes on it, a return leaves a frame with its
answer on top, and the step that resumes the caller pops it. The refinement
mapping shows an empty stack where the push of an awaiting frame may fail, the
case that the first finding is about, so that nothing is claimed of it.

**AstDump** (`AstDump_proofs`): `NodesDumpedOnce` (`DumpedOnce`) and
`WholeTreeDumped` (`DumpedAll`), for trees of any size. The argument is that of a
queue: what was dumped, what is left of the level and what waits in the list,
one after the other, is a sequence without repetition of exactly the pushed nodes
(`Lists`); every pushed node but the root is referred to by a dumped one (`Referred`),
so that in a tree nothing that a node pushes was pushed before; and all that a dumped
node refers to is pushed (`Complete`). When both lists are empty the three make the
pushed nodes the dumped ones. The theorems are about `DumpSpec`; that the driver's
dumps are of this specification, which says that the lowering of any source gives
a tree, is what TLC checks as `Dumps`.

**The parser** (`TokenCursor_proofs`, `Expressions_proofs`, `ExprParser_proofs`):
`AlwaysTypeOK` (`TypeOK`), `AlwaysLossless` (`Lossless`) and `AlwaysAdvances`
(`Advances`), for inputs of any length over any set of phrases. The state machine's
invariant, `Typed`, only says that `parsed` is what `parse_expr` makes of the input;
the work is to show what a parse keeps. `Continues(r, s)` relates a parser and
what an operation makes of it: both are well formed (the cursor is inside the list,
the end's token is its last and only there, children stand before their parents), what was
behind the cursor has not changed, and the leaves of the tree have become longer
by exactly the tokens passed. `Follows(r, s)` adds that an error, noted or
returned, is not forgotten and that the list of tokens changes only where a token is
split. Every cursor operation keeps `Follows`, those that split, wrap
and adopt nodes included; every parsing function keeps it if the functions in `sub`
do (`Keeps...`); so, by induction on the depth of calls, all functions do
(`ExprCallsKeep`). `Past` is the same with a token that is no trivia between
the two; each first part of an expression takes one.

`AlwaysWellNested` (`WellNested`) is about the tree that is built. It cannot be
shown of the expression alone: an operator's left operand is whatever the loop has made
so far, and its right one whatever a call at another level returns. `Sound` says that
every node that is filled nests. `Grows(q, s)` is the contract of a function that fills
the node it is given: that node keeps its kind, its parts (the children that are
no trivia) only become more, and `Sound` is kept. A call of `parse_expr` at a level
adds at most one part, whose operator is of that level or above, and stops in front of
no operator that would still be part of it (`ExprGrows`); its loop finds and leaves a
node that nests and that the next operator may have as its left operand (`Loops`,
`Looped`). `RightLevelFacts` is where the level passed for the right operand
(`expr.cc:379` and its like) is used: what such a call returns is tight enough for
the operator, and what it stops in front of is weak enough to have it as left
operand. That nesting is a matter of a node and those before it (`NestsStable`) lets
every later step keep it. `NestsExprs` is the whole contract, kept by all functions
at any depth (`ExprCallsNest`).

`AlwaysHalts` (`Halts`) says that `parse_expr` returns on every input, which for a
recursive-descent parser that adds tokens to its own list is not obvious.
The measure is the room that is left, `Rest`: the tokens from the cursor on, each
counted as many times as it can be split. A split takes a token of two halves and
leaves one half, so the room becomes less with every token taken (`Comes`).
A function that is called with room `n`, `m` calls before the bound, comes back
if `5n + k <= m`, where `k` is its rank, from 1 to 5 (`Halting`). A function calls one of
a lower rank before it has taken a token and any of them after it, when the room
has gone down and each rank fits again. The turns of a loop are calls, and a turn that goes on has
taken its operator, its comma or its bracket. `HaltsExprs` is the contract for all the functions,
kept at any depth (`ExprCallsHalt`), and an input of `n` tokens has room for what
`MaxDepth` grants (`UnparsedRest`).

`AlwaysNoErrorLost` (`NoErrorLost`) says that an input is accepted only if nothing is
missing in its tree. `Follows` has that no error is forgotten: a parser is `Clean`
afterwards only if it was before. What remains is that each place where a token or an operand can
be missing says so, and that is an invariant of the node that is filled:
`Tidy(r, q, kinds, b, last)` says that, if the parser is still clean, this node is of
a kind in `kinds`, has `b` more opening brackets than closing ones and ends with a part of
a class in `last`, and that no finished node misses anything (`AllTidy`). A node may be
closed only with `b = 0` (`TidyWhole`). A token that is expected is taken or makes the
parser not clean (`ExpectTidy`), and so does a missing comma (`SeparatedTidy`).
`Adding(f, class)` is the contract of the functions that are called: each adds parts of
which the last is of that class, and one that adds an expression is called only where none
stands before. `TidiesExprs` is the contract of all, kept at any depth (`ExprCallsTidy`).
The operators `<` and `>` are the brackets of generic arguments too, so the balance is not
asked of the nodes of binary operators.

The induction principle, the unfolding of recursive functions (`Recursion`,
`BoundedRecursion`) and what a recursive function computes (`LeavesStep`,
`ExprCallsStep`, ...) are proved in `TokenCursor_proofs` from the least element of a
set of numbers, as the library's induction theorems cannot be instantiated here.

`PlainWidthKept` (`WidthKept`) says that the tokens an accepted expression leaves
cover its input if the input has no `>>` and no `]]`: then `Follows` leaves the
list as the lexer made it, whose widths add up to the text (`LexedWidth`). For inputs
with such tokens it is false, which is one of the findings.

**Programs** (`ProgramParser_proofs`): `ProgramsTypeOK` (`TypeOK`),
`ProgramsReadWhole` and `ProgramsCover` (`CoversSource`), for sources of any length,
right and wrong. Every function for statements and declarations keeps `Follows` if
those it calls do, and so do all of them at any depth (`ProgramCallsKeep`). What is
added is where `parse_program` ends (`ProgramEnds`): its loop notes the error of
every statement, so it leaves only at the end's token, or as one of the loops
that the models stop (`endless`); after it `to_next_token` moves the cursor to the
end's token, or behind it. Only the header of a module is parsed outside the loop, and
its missing semicolon is the one error that is returned early. So each token before
the end's is a leaf, once and in order, and the tree is as wide as the text.
`ProgramsCover` therefore has two conditions: no `>>` or `]]` (as above), and no
`ExpectingSingleToken`, which `ProgramsReadWhole` shows only a source that begins
with `module` can return; that `CoversSource` fails there is another finding.

`ProgramsHalt` (`HaltsOutsideTypes`) says that `parse_program` returns for every source
without the keyword of a type. The measure is that of `AlwaysHalts`, and
`HaltsProgram` adds the functions for statements and declarations to the contract. What
is new are the loops over statements, which note an error and try again: the code
that a statement's failure has to have taken a token is in none of their conditions. It
follows from what each function does before it can fail: the expression statement's
expression takes a token whether or not an expression begins with it, and every other one
is chosen by a keyword that it takes (the lemmas called `...Past`), so that a turn of the loop
never leaves the cursor in place (`TurnComes`). The condition on the source is needed:
the loops over the members of a type do stay in place, which is a finding (`Halts`).
So `endless`, which the other theorems about programs allow as an outcome, is met with types only.

Only model-checked: liveness under fairness (`CallsReturn`, `Returns`, `Answers`),
which is outside the prover's reach; that the driver's dumps are those of `DumpSpec`
(`Dumps`); the rest of what is said of the parser's trees (`Canonical`,
`BracketsNest`, `Settled`), `CoversSource` where a token is
split, and the lowering, whose operators are recursive.

## 5. Not modelled, and why

The components with status `not_modelled` in `PROJECT.json`:

- the lexer: a scanner that re2c generates from regular expressions;
- the difference of green trees: its call in `main.cc` is in a comment, as is the
  dump of the green tree;
- the generic cache, duplication, identifier resolution and the order on type
  definitions: nothing in the pipeline calls them at this commit;
- shared strings: texts are abstract in the parser's models, so their counts have
  no user there;
- enumerations of errors and macros, which have no behaviour.

Within the modelled ones: the text of tokens and messages; source positions (a
token's offset stands for them); failing allocations in the parser, the lowering
and the dump (their error paths are those of any other error, and the
schedulers' are in `Coroutines`); duplication's `map_ast_node(nullptr)` and `remap`;
scopes beyond their members; the search in the green tree by offset; the
code for member variables behind its early return (`rg2ast.cc:506-531, 603-619`);
the options of the command line and the writing of JSON.

## 6. Plan

Done: registry, coroutines, the whole parser, widths and red tree, lowering,
dump, their composition in `Driver`, and the proofs of section 4. Left, in this
order:

1. `Scope`, with failing insertions and guards (`scope.cc:110`), once the lowering
   fills generic parameters and imports.
2. Duplication with the registry (`map_ast_node(nullptr)`, `remap`, the loop in
   `global.cc:244`), and `GenericCache` on it: index reuse and `~MemberNode`.
3. `SharedStrings`, `TreeDiff`, `Lexer`.

Proofs left: `BracketsNest` and `Canonical`.
