---------------------------- MODULE NodeRegistry ----------------------------
(***************************************************************************)
(* The node registry of Global (slkc/global.h, slkc/global.cc) and the     *)
(* three handle classes over it: AstNodePtr ("ref"), AstNodeWeakPtr        *)
(* ("weak") and AstNodePin ("pin") of slkc/ast/utils.h.  The green node    *)
(* registry and its handles (slkc/ast/rgtree.h) are the same program.      *)
(*                                                                         *)
(* A node object lives at an address of Nodes.  The registry maps an index *)
(* to the object and counts the handles on the index.  When the last       *)
(* handle goes, the entry is removed at once and the object is put on a    *)
(* list; the list is emptied by the NEXT operation that takes a reference, *)
(* and destroying an object releases the handles stored in it.             *)
(*                                                                         *)
(* The program is single threaded, so an operation that calls no clear is  *)
(* one step; clearing the list and searching an index are loops, and each  *)
(* turn of a loop is a step.  The list is a set here: the objects on it    *)
(* are destroyed in any order, the program's among them.                   *)
(***************************************************************************)
EXTENDS Integers, FiniteSets

CONSTANTS Nodes,    \* addresses at which node objects are constructed
          Locals,   \* handles outside every node: variables, parameters, temporaries
          Fields,   \* the handles (AstNodePtr members) stored in a node object
          MaxIndex, \* largest value of the index type, and INVALID_AST_NODE_INDEX
          MaxLost,  \* bound: index losses by failed insertions that TLC explores
          NoNode,   \* no registry entry
          NoSlot    \* no handle takes part in the running operation

Slots == Locals \cup (Nodes \X Fields)
Index == 0 .. MaxIndex - 1
Kinds == {"ref", "weak", "pin"}

ASSUME NodesAssumption == IsFiniteSet(Slots) /\ NoNode \notin Nodes
ASSUME SlotsAssumption == Locals \cap (Nodes \X Fields) = {} /\ NoSlot \notin Slots
ASSUME IndexAssumption == MaxIndex \in Nat /\ MaxLost \in Nat

VARIABLES
    pc,         \* what the program is doing: "idle", "clear", "alloc", "closed", "abort"
    in_memory,  \* registry: index -> object of the entry, NoNode when there is none
    count,      \* registry: index -> kind -> counter of the entry
    min_free,   \* _min_free_ast_node_index
    status,     \* object -> "none", "new", "live", "listed", "batch", "dying"
    index,      \* object -> its _node_index
    handle,     \* slot -> the handle in it
    probe,      \* i of _alloc_ast_node_index
    src,        \* the handle copied by the running operation
    dst,        \* the handle built by the running operation
    want,       \* what that handle will hold
    lost        \* history: indices below min_free that a failed insertion consumed

vars == <<pc, in_memory, count, min_free, status, index, handle, probe, src, dst, want, lost>>
registry == <<in_memory, count, status>>
call == <<src, dst, want>>

-----------------------------------------------------------------------------

Null == [kind |-> "null", index |-> MaxIndex]
Handle == [kind : Kinds, index : Index] \cup {Null}
NoCount == [k \in Kinds |-> 0]

Mapped(i) == in_memory[i] # NoNode
In(st) == {n \in Nodes : status[n] = st}

(* Only a pin gives access to an object, and so to the handles stored in it. *)
Accessible(s) ==
    \/ s \in Locals
    \/ \E n \in Nodes, f \in Fields, l \in Locals :
          /\ s = <<n, f>>
          /\ status[n] = "live"
          /\ handle[l] = [kind |-> "pin", index |-> index[n]]

(* Strong handles form trees: a node refers to its parent by a raw index,  *)
(* never by a handle, so what is stored in n never leads back to n.        *)
Owns(m, n) == \E f \in Fields :
    /\ handle[<<m, f>>] # Null
    /\ in_memory[handle[<<m, f>>].index] = n
LeadsTo(m, n) == \A S \in SUBSET Nodes :
    m \in S /\ (\A p \in S, q \in Nodes : Owns(p, q) => q \in S) => n \in S
StoringKeepsTrees(s, h) ==
    \A n \in Nodes, f \in Fields :
        s = <<n, f>> => ~ LeadsTo(in_memory[h.index], n)

(* Fields hold AstNodePtr; a variable keeps its type. *)
Fits(s, k) == /\ s \notin Locals => k = "ref"
              /\ handle[s].kind \in {"null", k}

-----------------------------------------------------------------------------

Init ==
    /\ pc = "idle"
    /\ in_memory = [i \in Index |-> NoNode]
    /\ count = [i \in Index |-> NoCount]
    /\ min_free = 0
    /\ status = [n \in Nodes |-> "none"]
    /\ index = [n \in Nodes |-> MaxIndex]
    /\ handle = [s \in Slots |-> Null]
    /\ probe = 0
    /\ src = NoSlot /\ dst = NoSlot /\ want = Null
    /\ lost = {}

(* Mutant of Drop: the other counters of the entry are not looked at. *)
DropOnOwnCount(h) ==
    IF h = Null
    THEN UNCHANGED registry
    ELSE LET left == [count[h.index] EXCEPT ![h.kind] = @ - 1]
             last == left[h.kind] = 0
         IN /\ count' = [count EXCEPT ![h.index] = left]
            /\ in_memory' = IF last THEN [in_memory EXCEPT ![h.index] = NoNode] ELSE in_memory
            /\ status' = IF last THEN [status EXCEPT ![in_memory[h.index]] = "listed"] ELSE status

(* unref_ast_node, unref_ast_node_weak and unpin_ast_node: the entry goes  *)
(* with its last count, the object waits on the list.                      *)
Drop(h) ==
    IF h = Null
    THEN UNCHANGED registry
    ELSE LET left == [count[h.index] EXCEPT ![h.kind] = @ - 1]
             last == left = NoCount
         IN /\ count' = [count EXCEPT ![h.index] = left]
            /\ in_memory' = IF last THEN [in_memory EXCEPT ![h.index] = NoNode] ELSE in_memory
            /\ status' = IF last THEN [status EXCEPT ![in_memory[h.index]] = "listed"] ELSE status

(* A handle's destructor. *)
Release(s) ==
    /\ pc = "idle"
    /\ Accessible(s)
    /\ handle[s] # Null
    /\ Drop(handle[s])
    /\ handle' = [handle EXCEPT ![s] = Null]
    /\ UNCHANGED <<pc, min_free, index, probe, call, lost>>

(* Mutants of Move: the source keeps its index; the target is not reset. *)
MoveKeepingSource(s, d) ==
    /\ pc = "idle"
    /\ s # d /\ Accessible(s) /\ Accessible(d)
    /\ handle[s] # Null
    /\ Fits(d, handle[s].kind)
    /\ StoringKeepsTrees(d, handle[s])
    /\ Drop(handle[d])
    /\ handle' = [handle EXCEPT ![d] = handle[s]]
    /\ UNCHANGED <<pc, min_free, index, probe, call, lost>>
MoveWithoutReset(s, d) ==
    /\ pc = "idle"
    /\ s # d /\ Accessible(s) /\ Accessible(d)
    /\ handle[s] # Null
    /\ Fits(d, handle[s].kind)
    /\ StoringKeepsTrees(d, handle[s])
    /\ handle' = [handle EXCEPT ![d] = handle[s], ![s] = Null]
    /\ UNCHANGED <<pc, registry, min_free, index, probe, call, lost>>

(* Move assignment: the target lets go, then takes the source's count over. *)
Move(s, d) ==
    /\ pc = "idle"
    /\ s # d /\ Accessible(s) /\ Accessible(d)
    /\ handle[s] # Null
    /\ Fits(d, handle[s].kind)
    /\ StoringKeepsTrees(d, handle[s])
    /\ Drop(handle[d])
    /\ handle' = [handle EXCEPT ![d] = handle[s], ![s] = Null]
    /\ UNCHANGED <<pc, min_free, index, probe, call, lost>>

(* pin_ast_node: AstNodePtr::pin and the copy constructor of AstNodePin. *)
Pin(s, d) ==
    /\ pc = "idle"
    /\ Accessible(s) /\ d \in Locals
    /\ handle[s].kind \in {"ref", "pin"}
    /\ handle[d] = Null
    /\ count' = [count EXCEPT ![handle[s].index]["pin"] = @ + 1]
    /\ handle' = [handle EXCEPT ![d] = [kind |-> "pin", index |-> handle[s].index]]
    /\ UNCHANGED <<pc, in_memory, min_free, status, index, probe, call, lost>>

(* ref_ast_node and ref_ast_node_weak first clear the list.  The handle    *)
(* that is copied stays where it is meanwhile; one that is assigned over   *)
(* has let go before.                                                      *)
Copy(s, d, k) ==
    /\ pc = "idle"
    /\ s # d /\ Accessible(s) /\ Accessible(d)
    /\ <<handle[s].kind, k>> \in
          {<<"pin", "ref">>, <<"ref", "ref">>, <<"ref", "weak">>, <<"weak", "weak">>}
    /\ handle[d] = Null \/ handle[s].kind = k
    /\ Fits(d, k)
    /\ StoringKeepsTrees(d, handle[s])
    /\ Drop(handle[d])
    /\ handle' = [handle EXCEPT ![d] = Null]
    /\ src' = s /\ dst' = d
    /\ want' = [kind |-> k, index |-> handle[s].index]
    /\ pc' = "clear"
    /\ UNCHANGED <<min_free, index, probe, lost>>

(* ~Global, when every handle outside the nodes is gone. *)
Shutdown ==
    /\ pc = "idle"
    /\ \A l \in Locals : handle[l] = Null
    /\ pc' = "clear"
    /\ UNCHANGED <<registry, min_free, index, handle, probe, call, lost>>

-----------------------------------------------------------------------------
(* _clear_zero_ref_ast_node_registry_list *)

TakeList ==
    /\ pc = "clear"
    /\ In("batch") = {} /\ In("dying") = {} /\ In("listed") # {}
    /\ status' = [n \in Nodes |-> IF status[n] = "listed" THEN "batch" ELSE status[n]]
    /\ UNCHANGED <<pc, in_memory, count, min_free, index, handle, probe, call, lost>>

(* Mutant of StartDealloc: the search's start stays where it is. *)
StartDeallocKeepingMinFree(n) ==
    /\ pc = "clear"
    /\ status[n] = "batch" /\ In("dying") = {}
    /\ status' = [status EXCEPT ![n] = "dying"]
    /\ UNCHANGED <<pc, in_memory, count, min_free, index, handle, probe, call, lost>>

(* The index becomes available, then dealloc() runs the destructor. *)
StartDealloc(n) ==
    /\ pc = "clear"
    /\ status[n] = "batch" /\ In("dying") = {}
    /\ min_free' = IF index[n] < min_free THEN index[n] ELSE min_free
    /\ lost' = {i \in lost : i < min_free'}
    /\ status' = [status EXCEPT ![n] = "dying"]
    /\ UNCHANGED <<pc, in_memory, count, index, handle, probe, call>>

(* Mutant of DestroyField: the destructor forgets to give the count back. *)
DestroyFieldWithoutUnref(n, f) ==
    /\ pc = "clear" /\ status[n] = "dying"
    /\ handle[<<n, f>>] # Null
    /\ handle' = [handle EXCEPT ![<<n, f>>] = Null]
    /\ UNCHANGED <<pc, registry, min_free, index, probe, call, lost>>

DestroyField(n, f) ==
    /\ pc = "clear" /\ status[n] = "dying"
    /\ handle[<<n, f>>] # Null
    /\ Drop(handle[<<n, f>>])
    /\ handle' = [handle EXCEPT ![<<n, f>>] = Null]
    /\ UNCHANGED <<pc, min_free, index, probe, call, lost>>

(* Mutants of FinishDealloc: the object stays on the list; the memory goes *)
(* before the handles stored in it.                                        *)
FinishDeallocKeepingListed(n) ==
    /\ pc = "clear" /\ status[n] = "dying"
    /\ \A f \in Fields : handle[<<n, f>>] = Null
    /\ status' = [status EXCEPT ![n] = "listed"]
    /\ UNCHANGED <<pc, in_memory, count, min_free, index, handle, probe, call, lost>>
FinishDeallocBeforeFields(n) ==
    /\ pc = "clear" /\ status[n] = "dying"
    /\ status' = [status EXCEPT ![n] = "none"]
    /\ index' = [index EXCEPT ![n] = MaxIndex]
    /\ UNCHANGED <<pc, in_memory, count, min_free, handle, probe, call, lost>>

FinishDealloc(n) ==
    /\ pc = "clear" /\ status[n] = "dying"
    /\ \A f \in Fields : handle[<<n, f>>] = Null
    /\ status' = [status EXCEPT ![n] = "none"]
    /\ index' = [index EXCEPT ![n] = MaxIndex]
    /\ UNCHANGED <<pc, in_memory, count, min_free, handle, probe, call, lost>>

Cleared == pc = "clear" /\ In("listed") = {} /\ In("batch") = {} /\ In("dying") = {}

(* ref_ast_node after the clear: ++at(index).ref_count *)
FinishCopy ==
    /\ Cleared /\ dst # NoSlot
    /\ count' = [count EXCEPT ![want.index][want.kind] = @ + 1]
    /\ handle' = [handle EXCEPT ![dst] = want]
    /\ src' = NoSlot /\ dst' = NoSlot /\ want' = Null
    /\ pc' = "idle"
    /\ UNCHANGED <<in_memory, min_free, status, index, probe, lost>>

(* ~Global after the clear: std::terminate() unless the registry is empty *)
FinishShutdown ==
    /\ Cleared /\ dst = NoSlot
    /\ pc' = IF \A i \in Index : ~ Mapped(i) THEN "closed" ELSE "abort"
    /\ UNCHANGED <<registry, min_free, index, handle, probe, call, lost>>

Clear ==
    \/ TakeList
    \/ \E n \in Nodes : StartDealloc(n) \/ FinishDealloc(n)
    \/ \E n \in Nodes, f \in Fields : DestroyField(n, f)
    \/ FinishCopy
    \/ FinishShutdown

-----------------------------------------------------------------------------
(* make_ast_node: construct, _alloc_ast_node_index, map_ast_node, pin *)

Make(n, d) ==
    /\ pc = "idle"
    /\ status[n] = "none"
    /\ d \in Locals /\ handle[d] = Null
    /\ status' = [status EXCEPT ![n] = "new"]
    /\ dst' = d
    /\ probe' = min_free
    /\ pc' = "alloc"
    /\ UNCHANGED <<in_memory, count, min_free, index, handle, src, want, lost>>

(* The slot at i is taken: go on behind the largest index below the limit. *)
(* From half of the range on the loop has no way to advance.               *)
ProbeNext ==
    /\ pc = "alloc" /\ probe < MaxIndex
    /\ Mapped(probe)
    /\ probe < MaxIndex \div 2
    /\ \E j \in Index :
          /\ Mapped(j) /\ j <= MaxIndex - probe
          /\ \A k \in Index : Mapped(k) /\ k <= MaxIndex - probe => k <= j
          /\ probe' = j + 1
    /\ UNCHANGED <<pc, registry, min_free, index, handle, call, lost>>

Found == pc = "alloc" /\ probe < MaxIndex /\ ~ Mapped(probe)

(* Mutant of MapNode: set_node_index is not called. *)
MapNodeWithoutIndex(n) ==
    /\ Found /\ status[n] = "new"
    /\ min_free' = min_free + 1
    /\ in_memory' = [in_memory EXCEPT ![probe] = n]
    /\ count' = [count EXCEPT ![probe] = [NoCount EXCEPT !["pin"] = 1]]
    /\ status' = [status EXCEPT ![n] = "live"]
    /\ handle' = [handle EXCEPT ![dst] = [kind |-> "pin", index |-> probe]]
    /\ dst' = NoSlot
    /\ pc' = "idle"
    /\ UNCHANGED <<index, probe, src, want, lost>>

MapNode(n) ==
    /\ Found /\ status[n] = "new"
    /\ min_free' = min_free + 1
    /\ in_memory' = [in_memory EXCEPT ![probe] = n]
    /\ count' = [count EXCEPT ![probe] = [NoCount EXCEPT !["pin"] = 1]]
    /\ index' = [index EXCEPT ![n] = probe]
    /\ status' = [status EXCEPT ![n] = "live"]
    /\ handle' = [handle EXCEPT ![dst] = [kind |-> "pin", index |-> probe]]
    /\ dst' = NoSlot
    /\ pc' = "idle"
    /\ UNCHANGED <<probe, src, want, lost>>

(* The map cannot grow: the index stays consumed, the object is destroyed. *)
MapFails(n) ==
    /\ Found /\ status[n] = "new"
    /\ Cardinality(lost) < MaxLost
    /\ min_free' = min_free + 1
    /\ lost' = IF probe = min_free THEN lost \cup {probe} ELSE lost
    /\ status' = [status EXCEPT ![n] = "none"]
    /\ dst' = NoSlot
    /\ pc' = "idle"
    /\ UNCHANGED <<in_memory, count, index, handle, probe, src, want>>

(* No slot: INVALID_AST_NODE_INDEX, the object is destroyed. *)
NoIndex(n) ==
    /\ pc = "alloc" /\ probe = MaxIndex /\ status[n] = "new"
    /\ status' = [status EXCEPT ![n] = "none"]
    /\ dst' = NoSlot
    /\ pc' = "idle"
    /\ UNCHANGED <<in_memory, count, min_free, index, handle, probe, src, want, lost>>

Alloc == ProbeNext \/ \E n \in Nodes : MapNode(n) \/ MapFails(n) \/ NoIndex(n)

-----------------------------------------------------------------------------

Terminated == pc \in {"closed", "abort"} /\ UNCHANGED vars

Next ==
    \/ \E s \in Slots : Release(s)
    \/ \E s, d \in Slots : Move(s, d) \/ Pin(s, d) \/ \E k \in Kinds : Copy(s, d, k)
    \/ \E n \in Nodes, d \in Locals : Make(n, d)
    \/ Shutdown
    \/ Clear
    \/ Alloc
    \/ Terminated

Spec == Init /\ [][Next]_vars

(* The calls run to their end; nothing obliges the program to make one. *)
FairSpec == Spec /\ WF_vars(Clear) /\ WF_vars(Alloc)

-----------------------------------------------------------------------------

TypeOK ==
    /\ pc \in {"idle", "clear", "alloc", "closed", "abort"}
    /\ in_memory \in [Index -> Nodes \cup {NoNode}]
    /\ count \in [Index -> [Kinds -> Nat]]
    /\ min_free \in Nat
    /\ status \in [Nodes -> {"none", "new", "live", "listed", "batch", "dying"}]
    /\ index \in [Nodes -> Index \cup {MaxIndex}]
    /\ handle \in [Slots -> Handle]
    /\ probe \in Nat
    /\ src \in Slots \cup {NoSlot} /\ dst \in Slots \cup {NoSlot}
    /\ want \in Handle
    /\ lost \in SUBSET Nat

(* The entries of the registry and the live objects correspond one to one: *)
(* map_ast_node gives no index twice, and an entry never outlives, nor is  *)
(* outlived by, the registered state of its object.                        *)
RegistryMatches ==
    \A i \in Index, n \in Nodes :
        in_memory[i] = n <=> status[n] = "live" /\ index[n] = i

(* A counter of an entry is the number of handles of that kind on it,      *)
(* whatever was copied, moved, assigned, stored or destroyed before.       *)
Holders(i, k) == {s \in Slots : handle[s] = [kind |-> k, index |-> i]}
CountsMatch ==
    \A i \in Index, k \in Kinds : count[i][k] = Cardinality(Holders(i, k))

(* No handle designates a removed entry, in the middle of a clear either,  *)
(* nor does the handle a running copy is about to build: at(index) of the  *)
(* registry is never evaluated on a missing key.                           *)
NoDangling ==
    /\ \A s \in Slots : handle[s] # Null => Mapped(handle[s].index)
    /\ want # Null => Mapped(want.index)

(* An index below the search's start is in use, or belongs to an object    *)
(* still to be destroyed (which gives it back), or was consumed by a       *)
(* failed insertion: the search misses no other free index.                *)
NoIndexLeak ==
    \A i \in Index : i < min_free =>
        \/ Mapped(i)
        \/ \E n \in Nodes : index[n] = i /\ status[n] \in {"listed", "batch"}
        \/ i \in lost

(* ~Global finds the registry empty: once the program's own handles are    *)
(* gone, clearing the list brings down whole trees and leaves no entry.    *)
NeverAborts == pc # "abort"

(* Every call returns: the clear ends although destroying objects lists    *)
(* further ones, and the search for an index finds one.                    *)
CallsReturn == pc \in {"clear", "alloc"} ~> pc \in {"idle", "closed"}

(* The registry implements NodeLifetime: an object is condemned exactly    *)
(* when its last handle goes, though the code decides by counters kept     *)
(* under an index that may be given again while the object is still there. *)
Points == [s \in Slots |-> IF handle[s] = Null THEN NoNode ELSE in_memory[handle[s].index]]
StageOf(st) ==
    IF st = "none" THEN "none"
    ELSE IF st = "new" THEN "fresh"
    ELSE IF st = "live" THEN "held" ELSE "condemned"
Stage == [n \in Nodes |-> StageOf(status[n])]
OwnFields == [n \in Nodes |-> {n} \X Fields]
Lifetime == INSTANCE NodeLifetime WITH
    stage <- Stage, points <- Points, Own <- OwnFields
ImplementsLifetime == Lifetime!Spec
=============================================================================
