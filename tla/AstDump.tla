------------------------------ MODULE AstDump ------------------------------
(***************************************************************************)
(* The dump of a syntax tree: Global::deep_dump_ast_node (slkc/global.cc)  *)
(* and AstNodeDumpContext::push_task (slkc/ast/astnode.cc).  A node is     *)
(* dumped by its do_dump, which pushes the nodes it refers to; they are    *)
(* dumped after all those pushed before them, a level at a time.  A node   *)
(* that is pushed twice, and a handle that is not set, end the program     *)
(* (assert).  Allocations do not fail here.                                *)
(***************************************************************************)
EXTENDS Sequences, Functions

CONSTANTS AstNodeIndex,            \* the indices of nodes
          INVALID_AST_NODE_INDEX   \* the index of a handle that is not set

ASSUME IndexAssumption == INVALID_AST_NODE_INDEX \notin AstNodeIndex

VARIABLES children,      \* for each node, what its do_dump pushes
          dump_root,     \* the node the dump was asked for
          task_list,     \* the nodes that have been pushed since the level was taken
          level,         \* what is left of the level
          dumped_nodes,  \* the nodes that have been pushed
          dumped,        \* the nodes that have been dumped
          dump           \* "none", "running", "done" or "failed"

dumpVars == <<children, dump_root, task_list, level, dumped_nodes, dumped, dump>>

-----------------------------------------------------------------------------

DumpInit ==
    /\ children = <<>>
    /\ dump_root = INVALID_AST_NODE_INDEX
    /\ task_list = <<>> /\ level = <<>>
    /\ dumped_nodes = {} /\ dumped = <<>>
    /\ dump = "none"

(* push_task, of one node after the other *)
Pushable(srcs) ==
    /\ Range(srcs) \cap (dumped_nodes \cup {INVALID_AST_NODE_INDEX}) = {}
    /\ IsInjective(srcs)

BeginDump(tree, root) ==
    /\ dump = "none"
    /\ children' = tree
    /\ dump_root' = root
    /\ task_list' = <<root>>
    /\ dumped_nodes' = {root}
    /\ dump' = "running"
    /\ UNCHANGED <<level, dumped>>

(* Mutants of TakeLevel: the list that was taken is not cleared; a list of *)
(* one node is taken for the end.                                          *)
TakeLevelKeepingList ==
    /\ dump = "running"
    /\ level = <<>> /\ task_list # <<>>
    /\ level' = task_list
    /\ UNCHANGED <<children, dump_root, task_list, dumped_nodes, dumped, dump>>

TakeLevelOfMany ==
    /\ dump = "running"
    /\ level = <<>> /\ Len(task_list) > 1
    /\ level' = task_list
    /\ task_list' = <<>>
    /\ UNCHANGED <<children, dump_root, dumped_nodes, dumped, dump>>

TakeLevel ==
    /\ dump = "running"
    /\ level = <<>> /\ task_list # <<>>
    /\ level' = task_list
    /\ task_list' = <<>>
    /\ UNCHANGED <<children, dump_root, dumped_nodes, dumped, dump>>

(* Mutant of DumpNode: its nodes replace those that are waiting. *)
DumpNodeReplacing ==
    /\ dump = "running"
    /\ level # <<>>
    /\ LET srcs == children[Head(level)]
       IN /\ task_list' = srcs
          /\ dumped_nodes' = dumped_nodes \cup Range(srcs)
          /\ dump' = IF Pushable(srcs) THEN "running" ELSE "failed"
    /\ level' = Tail(level)
    /\ dumped' = Append(dumped, Head(level))
    /\ UNCHANGED <<children, dump_root>>

(* The do_dump of a node; what the lists hold when it fails is of no use. *)
DumpNode ==
    /\ dump = "running"
    /\ level # <<>>
    /\ LET srcs == children[Head(level)]
       IN /\ task_list' = task_list \o srcs
          /\ dumped_nodes' = dumped_nodes \cup Range(srcs)
          /\ dump' = IF Pushable(srcs) THEN "running" ELSE "failed"
    /\ level' = Tail(level)
    /\ dumped' = Append(dumped, Head(level))
    /\ UNCHANGED <<children, dump_root>>

EndDump ==
    /\ dump = "running"
    /\ level = <<>> /\ task_list = <<>>
    /\ dump' = "done"
    /\ UNCHANGED <<children, dump_root, task_list, level, dumped_nodes, dumped>>

DumpStep == TakeLevel \/ DumpNode \/ EndDump

-----------------------------------------------------------------------------
(* What a dump is asked for: all that is pushed are nodes, and no node is  *)
(* referred to from two places, the root from none.                        *)

IsTree(tree, root) ==
    /\ DOMAIN tree \subseteq AstNodeIndex
    /\ root \in DOMAIN tree
    /\ \A n \in DOMAIN tree :
          /\ tree[n] \in Seq(DOMAIN tree)
          /\ IsInjective(tree[n])
          /\ root \notin Range(tree[n])
    /\ \A m, n \in DOMAIN tree : m # n => Range(tree[m]) \cap Range(tree[n]) = {}

DumpNext ==
    \/ \E root \in AstNodeIndex : BeginDump(children', root) /\ IsTree(children', root)
    \/ DumpStep

DumpSpec == DumpInit /\ [][DumpNext]_dumpVars

-----------------------------------------------------------------------------

(* No assertion of push_task fails, and no node is dumped twice: the JSON  *)
(* object of a node is filled once.                                        *)
DumpedOnce == dump # "failed" /\ IsInjective(dumped)

(* When the dump is over, the root has been dumped and, with every node,   *)
(* all that it refers to.                                                  *)
DumpedAll ==
    dump = "done" =>
        /\ dump_root \in Range(dumped)
        /\ \A n \in Range(dumped) : Range(children[n]) \subseteq Range(dumped)
=============================================================================
