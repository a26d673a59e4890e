------------------------ MODULE NodeRegistry_proofs ------------------------
(***************************************************************************)
(* Type correctness and the reference counting theorem of NodeRegistry,    *)
(* and that its search for a free index misses none, for every number of   *)
(* nodes, handles and indices.                                             *)
(***************************************************************************)
EXTENDS NodeRegistry, FiniteSetTheorems, TLAPS

-----------------------------------------------------------------------------
(* How many slots of a handle assignment h hold the handle x, and how that *)
(* number changes with one slot.                                           *)

Cnt(h, x) == Cardinality({s \in Slots : h[s] = x})

LEMMA CntIsNat ==
    ASSUME NEW h, NEW x
    PROVE  Cnt(h, x) \in Nat
  <1>1. IsFiniteSet({s \in Slots : h[s] = x})
    BY NodesAssumption, FS_Subset
  <1> QED BY <1>1, FS_CardinalityType DEF Cnt

LEMMA CntPositive ==
    ASSUME NEW h, NEW x, NEW s \in Slots, h[s] = x
    PROVE  Cnt(h, x) > 0
  <1> DEFINE H == {t \in Slots : h[t] = x}
  <1>1. IsFiniteSet(H)
    BY NodesAssumption, FS_Subset
  <1>2. H # {}
    OBVIOUS
  <1>3. Cardinality(H) # 0
    BY <1>1, <1>2, FS_EmptySet
  <1> QED BY <1>3, CntIsNat DEF Cnt

(* A slot that neither held x nor gets x leaves the number alone. *)
LEMMA CntSame ==
    ASSUME NEW h, NEW x, NEW s \in Slots, NEW v, DOMAIN h = Slots, h = [t \in Slots |-> h[t]],
           h[s] # x, v # x
    PROVE  Cnt([h EXCEPT ![s] = v], x) = Cnt(h, x)
  <1> DEFINE g == [h EXCEPT ![s] = v]
  <1>1. \A t \in Slots : g[t] = IF t = s THEN v ELSE h[t]
    OBVIOUS
  <1>2. {t \in Slots : g[t] = x} = {t \in Slots : h[t] = x}
    BY <1>1
  <1> QED BY <1>2 DEF Cnt

LEMMA CntAdd ==
    ASSUME NEW h, NEW x, NEW s \in Slots, DOMAIN h = Slots, h = [t \in Slots |-> h[t]], h[s] # x
    PROVE  Cnt([h EXCEPT ![s] = x], x) = Cnt(h, x) + 1
  <1> DEFINE g == [h EXCEPT ![s] = x]
             H == {t \in Slots : h[t] = x}
  <1>1. \A t \in Slots : g[t] = IF t = s THEN x ELSE h[t]
    OBVIOUS
  <1>2. {t \in Slots : g[t] = x} = H \cup {s}
    BY <1>1
  <1>3. IsFiniteSet(H)
    BY NodesAssumption, FS_Subset
  <1>4. s \notin H
    OBVIOUS
  <1>5. Cardinality(H \cup {s}) = Cardinality(H) + 1
    BY <1>3, <1>4, FS_AddElement
  <1> QED BY <1>2, <1>5 DEF Cnt

LEMMA CntDel ==
    ASSUME NEW h, NEW s \in Slots, NEW v, DOMAIN h = Slots, h = [t \in Slots |-> h[t]], h[s] # v
    PROVE  Cnt([h EXCEPT ![s] = v], h[s]) = Cnt(h, h[s]) - 1
  <1> DEFINE g == [h EXCEPT ![s] = v]
             H == {t \in Slots : h[t] = h[s]}
  <1>1. \A t \in Slots : g[t] = IF t = s THEN v ELSE h[t]
    OBVIOUS
  <1>2. {t \in Slots : g[t] = h[s]} = H \ {s}
    BY <1>1
  <1>3. IsFiniteSet(H)
    BY NodesAssumption, FS_Subset
  <1>4. s \in H
    OBVIOUS
  <1>5. Cardinality(H \ {s}) = Cardinality(H) - 1
    <2> HIDE DEF H
    <2> QED BY <1>3, <1>4, FS_RemoveElement, Zenon
  <1> QED BY <1>2, <1>5 DEF Cnt

-----------------------------------------------------------------------------
(* The inductive invariant.  Type correctness alone is not inductive: that *)
(* a decremented counter stays a natural number needs the counters to be   *)
(* the numbers of handles.  That in turn needs the operation under way to  *)
(* have a source handle that no step of the clear releases.                *)

(* An index without an entry has no counts. *)
Unmapped == \A i \in Index : ~ Mapped(i) => count[i] = NoCount

FieldsAreRefs ==
    \A n \in Nodes, f \in Fields : handle[<<n, f>>].kind \in {"ref", "null"}

Control ==
    /\ pc \in {"idle", "closed", "abort"} => dst = NoSlot /\ want = Null
    /\ pc = "alloc" => dst \in Locals /\ handle[dst] = Null /\ want = Null
    /\ pc = "clear" /\ dst = NoSlot => want = Null
    /\ pc = "clear" /\ dst # NoSlot =>
          /\ src \in Slots /\ Accessible(src)
          /\ handle[src] # Null
          /\ want = [kind |-> want.kind, index |-> handle[src].index]
          /\ want.kind \in {"ref", "weak"}
          /\ dst \notin Locals => want.kind = "ref"
          /\ handle[dst] = Null

IInv == /\ TypeOK
        /\ RegistryMatches
        /\ CountsMatch
        /\ Unmapped
        /\ FieldsAreRefs
        /\ Control

Assignments == [Slots -> Handle]
Counted(c, h) == \A i \in Index, k \in Kinds : c[i][k] = Cnt(h, [kind |-> k, index |-> i])

LEMMA CountsMatchCounted == CountsMatch <=> Counted(count, handle)
  BY DEF CountsMatch, Counted, Holders, Cnt

LEMMA HandleCases ==
    ASSUME NEW x \in Handle
    PROVE  x = Null \/ (x # Null /\ x.kind \in Kinds /\ x.index \in Index /\ x = [kind |-> x.kind, index |-> x.index])
  BY DEF Handle, Null, Kinds

LEMMA PutHandle ==
    ASSUME NEW h \in Assignments, NEW s \in Slots, h[s] = Null,
           NEW x \in Handle, NEW y \in Handle, y # Null
    PROVE  Cnt([h EXCEPT ![s] = x], y) = IF x = y THEN Cnt(h, y) + 1 ELSE Cnt(h, y)
  <1>1. DOMAIN h = Slots /\ h = [t \in Slots |-> h[t]] /\ h[s] # y
    BY DEF Assignments
  <1>2. CASE x = y
    BY <1>1, <1>2, CntAdd
  <1>3. CASE x # y
    BY <1>1, <1>3, CntSame
  <1> QED BY <1>2, <1>3

LEMMA TakeHandle ==
    ASSUME NEW h \in Assignments, NEW s \in Slots, NEW y \in Handle, y # Null
    PROVE  Cnt([h EXCEPT ![s] = Null], y) = IF h[s] = y THEN Cnt(h, y) - 1 ELSE Cnt(h, y)
  <1>1. DOMAIN h = Slots /\ h = [t \in Slots |-> h[t]]
    BY DEF Assignments
  <1>2. CASE h[s] = y
    BY <1>1, <1>2, CntDel
  <1>3. CASE h[s] # y
    BY <1>1, <1>3, CntSame
  <1> QED BY <1>2, <1>3

(* Every handle of a counted assignment designates an entry. *)
LEMMA HandleIsMapped ==
    ASSUME TypeOK, Unmapped, NEW h \in Assignments, Counted(count, h), NEW s \in Slots, h[s] # Null
    PROVE  Mapped(h[s].index) /\ count[h[s].index][h[s].kind] > 0
  <1> DEFINE x == h[s]
  <1>1. x \in Handle /\ x.kind \in Kinds /\ x.index \in Index /\ x = [kind |-> x.kind, index |-> x.index]
    BY HandleCases DEF Assignments
  <1>2. Cnt(h, x) > 0
    BY CntPositive
  <1>3. count[x.index][x.kind] = Cnt(h, x)
    BY <1>1 DEF Counted
  <1>4. count[x.index] # NoCount
    BY <1>1, <1>2, <1>3, CntIsNat DEF NoCount
  <1> QED BY <1>1, <1>2, <1>3, <1>4 DEF Unmapped

(* unref_ast_node keeps the registry exact: what it counts afterwards are  *)
(* the handles without the one that goes, an entry that still has a handle *)
(* stays, and only the object of a removed entry changes its status.       *)
LEMMA DropKeepsRegistry ==
    ASSUME TypeOK, RegistryMatches, Unmapped, Counted(count, handle),
           NEW s \in Slots, Drop(handle[s]), index' = index
    PROVE  /\ in_memory' \in [Index -> Nodes \cup {NoNode}]
           /\ count' \in [Index -> [Kinds -> Nat]]
           /\ status' \in [Nodes -> {"none", "new", "live", "listed", "batch", "dying"}]
           /\ RegistryMatches'
           /\ Unmapped'
           /\ Counted(count', [handle EXCEPT ![s] = Null])
           /\ \A i \in Index : count'[i] # NoCount => in_memory'[i] = in_memory[i]
           /\ \A n \in Nodes : status[n] # "live" => status'[n] = status[n]
  <1> DEFINE x == handle[s]
             g == [handle EXCEPT ![s] = Null]
  <1>0. /\ handle \in Assignments
        /\ in_memory \in [Index -> Nodes \cup {NoNode}]
        /\ count \in [Index -> [Kinds -> Nat]]
        /\ status \in [Nodes -> {"none", "new", "live", "listed", "batch", "dying"}]
    BY DEF TypeOK, Assignments
  <1>1. CASE x = Null
    <2>1. UNCHANGED registry
      BY <1>1 DEF Drop
    <2>2. g = handle
      BY <1>0, <1>1 DEF Assignments
    <2> QED BY <1>0, <2>1, <2>2 DEF registry, RegistryMatches, Unmapped, Mapped
  <1>2. CASE x # Null
    <2> DEFINE left == [count[x.index] EXCEPT ![x.kind] = @ - 1]
               last == left = NoCount
               m == in_memory[x.index]
    <2>1. x \in Handle /\ x.kind \in Kinds /\ x.index \in Index /\ x = [kind |-> x.kind, index |-> x.index]
      BY <1>0, <1>2, HandleCases DEF Assignments
    <2>2. Mapped(x.index) /\ count[x.index][x.kind] > 0
      BY <1>0, <1>2, HandleIsMapped
    <2>3. m \in Nodes /\ m # NoNode
      BY <1>0, <2>1, <2>2, NodesAssumption DEF Mapped
    <2>4. left \in [Kinds -> Nat] /\ \A k \in Kinds : left[k] = IF k = x.kind THEN count[x.index][k] - 1 ELSE count[x.index][k]
      BY <1>0, <2>1, <2>2
    <2>5. /\ count' = [count EXCEPT ![x.index] = left]
          /\ in_memory' = IF last THEN [in_memory EXCEPT ![x.index] = NoNode] ELSE in_memory
          /\ status' = IF last THEN [status EXCEPT ![m] = "listed"] ELSE status
      BY <1>2 DEF Drop
    <2>6. status[m] = "live" /\ index[m] = x.index
      BY <2>1, <2>3 DEF RegistryMatches
    <2> HIDE DEF left, m, x
    <2>7. /\ in_memory' \in [Index -> Nodes \cup {NoNode}]
          /\ count' \in [Index -> [Kinds -> Nat]]
          /\ status' \in [Nodes -> {"none", "new", "live", "listed", "batch", "dying"}]
      BY <1>0, <2>4, <2>5
    <2>8. RegistryMatches'
      <3> SUFFICES ASSUME NEW i \in Index, NEW n \in Nodes
                   PROVE  in_memory'[i] = n <=> status'[n] = "live" /\ index[n] = i
        BY DEF RegistryMatches
      <3>1. in_memory[i] = n <=> status[n] = "live" /\ index[n] = i
        BY DEF RegistryMatches
      <3>2. CASE ~ last
        BY <2>5, <3>1, <3>2
      <3>3. CASE last /\ i = x.index
        <4>1. in_memory'[i] = NoNode
          BY <1>0, <2>5, <3>3
        <4>2. index[n] = i /\ status[n] = "live" => n = m
          BY <3>1, <3>3 DEF m
        <4>3. status'[m] = "listed" /\ (n # m => status'[n] = status[n])
          BY <1>0, <2>3, <2>5, <3>3
        <4> QED BY <4>1, <4>2, <4>3, NodesAssumption
      <3>4. CASE last /\ i # x.index
        <4>1. in_memory'[i] = in_memory[i]
          BY <1>0, <2>1, <2>5, <3>4
        <4>2. index[n] = i => n # m
          BY <2>6, <3>4
        <4>3. n # m => status'[n] = status[n]
          BY <1>0, <2>5, <3>4
        <4>4. in_memory[i] = n => n # m
          BY <3>1, <4>2
        <4> QED BY <3>1, <4>1, <4>2, <4>3, <4>4
      <3> QED BY <3>2, <3>3, <3>4
    <2>9. \A i \in Index : i # x.index => count'[i] = count[i] /\ in_memory'[i] = in_memory[i]
      BY <1>0, <2>1, <2>5
    <2>10. count'[x.index] = left
      BY <1>0, <2>1, <2>5
    <2>11. Unmapped'
      <3>1. in_memory'[x.index] = NoNode => last
        BY <2>2, <2>5 DEF Mapped
      <3>2. \A i \in Index : i # x.index /\ in_memory'[i] = NoNode => count'[i] = NoCount
        BY <2>9 DEF Unmapped, Mapped
      <3> QED BY <2>10, <3>1, <3>2 DEF Unmapped, Mapped
    <2>12. Counted(count', g)
      <3> SUFFICES ASSUME NEW i \in Index, NEW k \in Kinds
                   PROVE  count'[i][k] = Cnt(g, [kind |-> k, index |-> i])
        BY DEF Counted
      <3> DEFINE y == [kind |-> k, index |-> i]
      <3>1. y \in Handle /\ y # Null
        BY DEF Handle, Null, Kinds
      <3>2. Cnt(g, y) = IF x = y THEN Cnt(handle, y) - 1 ELSE Cnt(handle, y)
        BY <1>0, <3>1, TakeHandle DEF x
      <3>3. count[i][k] = Cnt(handle, y)
        BY DEF Counted
      <3>4. x = y <=> i = x.index /\ k = x.kind
        BY <2>1
      <3> HIDE DEF y, g
      <3>5. count'[i][k] = IF i = x.index /\ k = x.kind THEN count[i][k] - 1 ELSE count[i][k]
        BY <2>4, <2>9, <2>10
      <3> QED BY <3>2, <3>3, <3>4, <3>5 DEF y
    <2>13. \A i \in Index : count'[i] # NoCount => in_memory'[i] = in_memory[i]
      BY <2>5, <2>9, <2>10
    <2>14. \A n \in Nodes : status[n] # "live" => status'[n] = status[n]
      BY <1>0, <2>5, <2>6
    <2> QED BY <2>7, <2>8, <2>11, <2>12, <2>13, <2>14
  <1> QED BY <1>1, <1>2

-----------------------------------------------------------------------------
(* One lemma per step of the program. *)

(* Letting a handle go that is no pin takes no object out of reach. *)
LEMMA AccessibleStays ==
    ASSUME TypeOK, RegistryMatches, Unmapped, Counted(count, handle),
           NEW d \in Slots, handle[d].kind # "pin", Drop(handle[d]),
           handle' = [handle EXCEPT ![d] = Null], index' = index,
           NEW q, Accessible(q)
    PROVE  Accessible(q)'
  <1>1. CASE q \in Locals
    BY <1>1 DEF Accessible
  <1>2. CASE q \notin Locals
    <2>1. PICK n \in Nodes, f \in Fields, l \in Locals :
            q = <<n, f>> /\ status[n] = "live" /\ handle[l] = [kind |-> "pin", index |-> index[n]]
      BY <1>2 DEF Accessible
    <2> DEFINE i == index[n]
    <2>2. l \in Slots /\ l # d /\ handle \in Assignments
      BY <2>1 DEF Slots, TypeOK, Assignments
    <2>3. handle'[l] = [kind |-> "pin", index |-> i]
      BY <2>1, <2>2 DEF Assignments
    <2>4. i \in Index
      <3>1. handle[l] \in Handle /\ handle[l] # Null
        BY <2>1, <2>2 DEF Assignments, Null
      <3> QED BY <2>1, <3>1, HandleCases
    <2>5. /\ RegistryMatches'
          /\ Counted(count', handle')
          /\ \A j \in Index : count'[j] # NoCount => in_memory'[j] = in_memory[j]
      BY DropKeepsRegistry
    <2>6. count'[i]["pin"] > 0
      <3>1. Cnt(handle', [kind |-> "pin", index |-> i]) > 0
        BY <2>2, <2>3, CntPositive
      <3> QED BY <2>4, <2>5, <3>1 DEF Counted, Kinds
    <2>7. in_memory'[i] = n
      BY <2>1, <2>4, <2>5, <2>6 DEF NoCount, Kinds, RegistryMatches
    <2>8. status'[n] = "live" /\ index'[n] = i
      BY <2>4, <2>5, <2>7 DEF RegistryMatches
    <2> QED BY <2>1, <2>3, <2>8 DEF Accessible
  <1> QED BY <1>1, <1>2

LEMMA ReleaseKeepsIInv ==
    ASSUME IInv, NEW s \in Slots, Release(s)
    PROVE  IInv'
  <1> USE DEF IInv, call
  <1>1. handle \in Assignments /\ Counted(count, handle)
    BY CountsMatchCounted DEF TypeOK, Assignments
  <1>2. /\ in_memory' \in [Index -> Nodes \cup {NoNode}]
        /\ count' \in [Index -> [Kinds -> Nat]]
        /\ status' \in [Nodes -> {"none", "new", "live", "listed", "batch", "dying"}]
        /\ RegistryMatches'
        /\ Unmapped'
        /\ Counted(count', handle')
    BY <1>1, DropKeepsRegistry DEF Release
  <1>3. CountsMatch'
    BY <1>2 DEF CountsMatch, Counted, Holders, Cnt
  <1>4. handle' \in [Slots -> Handle]
    BY <1>1 DEF Release, Assignments, Handle
  <1>5. TypeOK'
    BY <1>2, <1>4 DEF TypeOK, Release
  <1>6. FieldsAreRefs'
    BY <1>1 DEF FieldsAreRefs, Release, Slots, Assignments, Null
  <1>7. Control'
    BY DEF Control, Release
  <1> QED BY <1>2, <1>3, <1>5, <1>6, <1>7

LEMMA MoveKeepsIInv ==
    ASSUME IInv, NEW s \in Slots, NEW d \in Slots, Move(s, d)
    PROVE  IInv'
  <1> USE DEF IInv, call
  <1> DEFINE x == handle[s]
             g == [handle EXCEPT ![d] = Null]
             h == [g EXCEPT ![d] = x]
  <1>1. handle \in Assignments /\ Counted(count, handle) /\ x \in Handle /\ x # Null /\ s # d
    BY CountsMatchCounted DEF TypeOK, Assignments, Move
  <1>2. /\ in_memory' \in [Index -> Nodes \cup {NoNode}]
        /\ count' \in [Index -> [Kinds -> Nat]]
        /\ status' \in [Nodes -> {"none", "new", "live", "listed", "batch", "dying"}]
        /\ RegistryMatches'
        /\ Unmapped'
        /\ Counted(count', g)
    BY <1>1, DropKeepsRegistry DEF Move
  <1>3. g \in Assignments /\ h \in Assignments /\ g[d] = Null /\ h[s] = x
    BY <1>1 DEF Assignments, Handle
  <1>4. handle' = [h EXCEPT ![s] = Null]
    BY <1>1 DEF Move, Assignments
  <1>5. handle' \in [Slots -> Handle]
    BY <1>3, <1>4 DEF Assignments, Handle
  <1>6. Counted(count', handle')
    <2> SUFFICES ASSUME NEW i \in Index, NEW k \in Kinds
                 PROVE  count'[i][k] = Cnt(handle', [kind |-> k, index |-> i])
      BY DEF Counted
    <2> DEFINE y == [kind |-> k, index |-> i]
    <2>1. y \in Handle /\ y # Null
      BY DEF Handle, Null, Kinds
    <2> HIDE DEF g, h, x, y
    <2>2. Cnt(h, y) = IF x = y THEN Cnt(g, y) + 1 ELSE Cnt(g, y)
      BY <1>1, <1>3, <2>1, PutHandle DEF h
    <2>3. Cnt(handle', y) = IF x = y THEN Cnt(h, y) - 1 ELSE Cnt(h, y)
      BY <1>3, <1>4, <2>1, TakeHandle
    <2>4. count'[i][k] = Cnt(g, y)
      BY <1>2 DEF Counted, y
    <2>5. Cnt(g, y) \in Nat
      BY CntIsNat
    <2>6. Cnt(handle', y) = Cnt(g, y)
      BY <2>2, <2>3, <2>5
    <2> QED BY <2>4, <2>6 DEF y
  <1>7. CountsMatch'
    BY <1>6 DEF CountsMatch, Counted, Holders, Cnt
  <1>8. TypeOK'
    BY <1>2, <1>5 DEF TypeOK, Move
  <1>9. FieldsAreRefs'
    <2> SUFFICES ASSUME NEW n \in Nodes, NEW f \in Fields
                 PROVE  handle'[<<n, f>>].kind \in {"ref", "null"}
      BY DEF FieldsAreRefs
    <2>1. <<n, f>> \in Slots /\ <<n, f>> \notin Locals
      BY SlotsAssumption DEF Slots
    <2>2. handle[<<n, f>>].kind \in {"ref", "null"}
      BY DEF FieldsAreRefs
    <2>3. d \notin Locals => x.kind = "ref"
      BY DEF Move, Fits
    <2>4. handle'[<<n, f>>] \in {Null, x, handle[<<n, f>>]} /\ (handle'[<<n, f>>] = x => d = <<n, f>> \/ handle[<<n, f>>] = x)
      BY <1>1, <2>1 DEF Move, Assignments
    <2> QED BY <2>1, <2>2, <2>3, <2>4 DEF Null
  <1>10. Control'
    BY DEF Control, Move
  <1> QED BY <1>2, <1>7, <1>8, <1>9, <1>10

(* One more handle x in an empty slot, and one more in its counter: the    *)
(* second half of pin_ast_node, of a copy and of make_ast_node.            *)
LEMMA PutKeepsCounts ==
    ASSUME TypeOK, Counted(count, handle), NEW s \in Slots, handle[s] = Null,
           NEW x \in Handle, x # Null,
           count' = [count EXCEPT ![x.index][x.kind] = @ + 1],
           handle' = [handle EXCEPT ![s] = x]
    PROVE  /\ count' \in [Index -> [Kinds -> Nat]]
           /\ handle' \in [Slots -> Handle]
           /\ Counted(count', handle')
           /\ \A i \in Index : i # x.index => count'[i] = count[i]
  <1>1. handle \in Assignments /\ count \in [Index -> [Kinds -> Nat]]
    BY DEF TypeOK, Assignments
  <1>2. x.kind \in Kinds /\ x.index \in Index /\ x = [kind |-> x.kind, index |-> x.index]
    BY HandleCases
  <1>3. /\ count' \in [Index -> [Kinds -> Nat]]
        /\ \A i \in Index, k \in Kinds :
              count'[i][k] = IF i = x.index /\ k = x.kind THEN count[i][k] + 1 ELSE count[i][k]
        /\ \A i \in Index : i # x.index => count'[i] = count[i]
    BY <1>1, <1>2
  <1>4. Counted(count', handle')
    <2> SUFFICES ASSUME NEW i \in Index, NEW k \in Kinds
                 PROVE  count'[i][k] = Cnt(handle', [kind |-> k, index |-> i])
      BY DEF Counted
    <2> DEFINE y == [kind |-> k, index |-> i]
    <2>1. y \in Handle /\ y # Null
      BY DEF Handle, Null, Kinds
    <2>2. x = y <=> i = x.index /\ k = x.kind
      BY <1>2
    <2> HIDE DEF y
    <2>3. Cnt(handle', y) = IF x = y THEN Cnt(handle, y) + 1 ELSE Cnt(handle, y)
      BY <1>1, <2>1, PutHandle
    <2>4. count[i][k] = Cnt(handle, y)
      BY DEF Counted, y
    <2> QED BY <1>3, <2>2, <2>3, <2>4 DEF y
  <1> QED BY <1>1, <1>3, <1>4 DEF Assignments

LEMMA PinKeepsIInv ==
    ASSUME IInv, NEW s \in Slots, NEW d \in Slots, Pin(s, d)
    PROVE  IInv'
  <1> USE DEF IInv, call
  <1> DEFINE x == [kind |-> "pin", index |-> handle[s].index]
  <1>1. handle \in Assignments /\ Counted(count, handle)
    BY CountsMatchCounted DEF TypeOK, Assignments
  <1>2. handle[s] # Null /\ handle[s].index \in Index
    BY <1>1, HandleCases DEF Pin, Null, Assignments
  <1>3. x \in Handle /\ x # Null
    BY <1>2 DEF Handle, Kinds, Null
  <1>4. /\ count' \in [Index -> [Kinds -> Nat]]
        /\ handle' \in [Slots -> Handle]
        /\ Counted(count', handle')
        /\ \A i \in Index : i # handle[s].index => count'[i] = count[i]
    BY <1>1, <1>3, PutKeepsCounts DEF Pin
  <1>5. CountsMatch'
    BY <1>4 DEF CountsMatch, Counted, Holders, Cnt
  <1>6. Mapped(handle[s].index)
    BY <1>1, <1>2, HandleIsMapped
  <1>7. Unmapped'
    BY <1>4, <1>6 DEF Unmapped, Mapped, Pin
  <1>8. TypeOK' /\ RegistryMatches'
    BY <1>4 DEF TypeOK, Pin, RegistryMatches
  <1>9. FieldsAreRefs'
    <2>1. \A n \in Nodes, f \in Fields : <<n, f>> \in Slots /\ <<n, f>> # d
      BY SlotsAssumption DEF Slots, Pin
    <2> QED BY <1>1, <2>1 DEF FieldsAreRefs, Pin, Assignments
  <1>10. Control'
    BY DEF Control, Pin
  <1> QED BY <1>5, <1>7, <1>8, <1>9, <1>10

LEMMA CopyKeepsIInv ==
    ASSUME IInv, NEW s \in Slots, NEW d \in Slots, NEW k \in Kinds, Copy(s, d, k)
    PROVE  IInv'
  <1> USE DEF IInv
  <1>1. handle \in Assignments /\ Counted(count, handle) /\ s # d /\ handle[s] # Null
    BY CountsMatchCounted DEF TypeOK, Assignments, Copy, Null
  <1>2. /\ in_memory' \in [Index -> Nodes \cup {NoNode}]
        /\ count' \in [Index -> [Kinds -> Nat]]
        /\ status' \in [Nodes -> {"none", "new", "live", "listed", "batch", "dying"}]
        /\ RegistryMatches'
        /\ Unmapped'
        /\ Counted(count', handle')
    BY <1>1, DropKeepsRegistry DEF Copy
  <1>3. CountsMatch'
    BY <1>2 DEF CountsMatch, Counted, Holders, Cnt
  <1>4. handle' \in [Slots -> Handle] /\ handle'[s] = handle[s] /\ handle'[d] = Null
    BY <1>1 DEF Copy, Assignments, Handle
  <1>5. k \in {"ref", "weak"} /\ handle[s].index \in Index /\ want' = [kind |-> k, index |-> handle[s].index]
    BY <1>1, HandleCases DEF Copy, Assignments
  <1>6. want' \in Handle
    BY <1>5 DEF Handle
  <1>7. TypeOK'
    BY <1>2, <1>4, <1>6 DEF TypeOK, Copy
  <1>8. FieldsAreRefs'
    BY <1>1 DEF FieldsAreRefs, Copy, Slots, Assignments, Null
  <1>9. handle[d].kind # "pin"
    BY <1>5 DEF Copy, Fits
  <1>10. Accessible(s)'
    BY <1>1, <1>9, AccessibleStays DEF Copy
  <1>11. Control'
    BY <1>1, <1>4, <1>5, <1>10, SlotsAssumption DEF Control, Copy, Fits
  <1> QED BY <1>2, <1>3, <1>7, <1>8, <1>11

LEMMA ShutdownKeepsIInv ==
    ASSUME IInv, Shutdown
    PROVE  IInv'
  BY DEF IInv, Shutdown, registry, call, TypeOK, RegistryMatches, CountsMatch, Holders,
         Unmapped, Mapped, FieldsAreRefs, Control

LEMMA TakeListKeepsIInv ==
    ASSUME IInv, TakeList
    PROVE  IInv'
  <1> USE DEF IInv, TakeList, call
  <1>1. TypeOK' /\ CountsMatch' /\ Unmapped' /\ FieldsAreRefs'
    BY DEF TypeOK, CountsMatch, Holders, Unmapped, Mapped, FieldsAreRefs
  <1>2. \A n \in Nodes : status'[n] = "live" <=> status[n] = "live"
    BY DEF TypeOK
  <1>3. RegistryMatches'
    BY <1>2 DEF RegistryMatches
  <1>4. Control'
    BY <1>2 DEF Control, Accessible
  <1> QED BY <1>1, <1>3, <1>4

LEMMA StartDeallocKeepsIInv ==
    ASSUME IInv, NEW n \in Nodes, StartDealloc(n)
    PROVE  IInv'
  <1> USE DEF IInv, StartDealloc, call
  <1>1. CountsMatch' /\ Unmapped' /\ FieldsAreRefs'
    BY DEF CountsMatch, Holders, Unmapped, Mapped, FieldsAreRefs
  <1>2. TypeOK'
    <2>1. min_free' \in Nat
      BY IndexAssumption DEF TypeOK, Index
    <2>2. lost' \in SUBSET Nat
      BY DEF TypeOK
    <2>3. status' \in [Nodes -> {"none", "new", "live", "listed", "batch", "dying"}]
      BY DEF TypeOK
    <2> QED BY <2>1, <2>2, <2>3 DEF TypeOK
  <1>3. \A m \in Nodes : status'[m] = "live" <=> status[m] = "live"
    BY DEF TypeOK
  <1>4. RegistryMatches'
    BY <1>3 DEF RegistryMatches
  <1>5. Control'
    BY <1>3 DEF Control, Accessible
  <1> QED BY <1>1, <1>2, <1>4, <1>5

LEMMA DestroyFieldKeepsIInv ==
    ASSUME IInv, NEW n \in Nodes, NEW f \in Fields, DestroyField(n, f)
    PROVE  IInv'
  <1> USE DEF IInv, call
  <1> DEFINE d == <<n, f>>
  <1>1. handle \in Assignments /\ Counted(count, handle) /\ d \in Slots /\ d \notin Locals
    BY CountsMatchCounted, SlotsAssumption DEF TypeOK, Assignments, Slots
  <1>2. /\ in_memory' \in [Index -> Nodes \cup {NoNode}]
        /\ count' \in [Index -> [Kinds -> Nat]]
        /\ status' \in [Nodes -> {"none", "new", "live", "listed", "batch", "dying"}]
        /\ RegistryMatches'
        /\ Unmapped'
        /\ Counted(count', handle')
    BY <1>1, DropKeepsRegistry DEF DestroyField
  <1>3. CountsMatch'
    BY <1>2 DEF CountsMatch, Counted, Holders, Cnt
  <1>4. handle' \in [Slots -> Handle]
    BY <1>1 DEF DestroyField, Assignments, Handle
  <1>5. TypeOK'
    BY <1>2, <1>4 DEF TypeOK, DestroyField
  <1>6. FieldsAreRefs'
    BY <1>1 DEF FieldsAreRefs, DestroyField, Slots, Assignments, Null
  <1>7. Control'
    <2>1. CASE dst = NoSlot
      BY <2>1 DEF Control, DestroyField
    <2>2. CASE dst # NoSlot
      <3> PICK q : q = src
        OBVIOUS
      <3>1. /\ q \in Slots /\ Accessible(q) /\ handle[q] # Null
            /\ want = [kind |-> want.kind, index |-> handle[q].index]
            /\ want.kind \in {"ref", "weak"}
            /\ dst \notin Locals => want.kind = "ref"
            /\ handle[dst] = Null
        BY <2>2 DEF Control, DestroyField
      <3>2. pc' = "clear" /\ dst' = dst /\ src' = q /\ want' = want
        BY DEF DestroyField
      <3>3. handle[d].kind # "pin"
        BY DEF FieldsAreRefs
      <3>4. Accessible(q)'
        BY <1>1, <3>1, <3>3, AccessibleStays DEF DestroyField
      <3>5. q # d
        <4>1. CASE q \in Locals
          BY <1>1, <4>1
        <4>2. CASE q \notin Locals
          <5>1. PICK m \in Nodes, e \in Fields : q = <<m, e>> /\ status[m] = "live"
            BY <3>1, <4>2 DEF Accessible
          <5>2. m # n
            BY <5>1 DEF DestroyField
          <5> QED BY <5>1, <5>2
        <4> QED BY <4>1, <4>2
      <3>6. handle'[q] = handle[q] /\ handle'[dst] = Null
        <4>1. dst \in Slots
          BY <2>2 DEF TypeOK
        <4> QED BY <1>1, <3>1, <3>5, <4>1 DEF DestroyField, Assignments
      <3>7. Accessible(src)'
        BY <3>2, <3>4
      <3>8. /\ src' \in Slots /\ handle'[src'] # Null
            /\ want' = [kind |-> want'.kind, index |-> handle'[src'].index]
            /\ want'.kind \in {"ref", "weak"}
            /\ dst' \notin Locals => want'.kind = "ref"
            /\ handle'[dst'] = Null
        BY <3>1, <3>2, <3>6
      <3> QED BY <2>2, <3>2, <3>7, <3>8 DEF Control
    <2> QED BY <2>1, <2>2
  <1> QED BY <1>2, <1>3, <1>5, <1>6, <1>7

LEMMA FinishDeallocKeepsIInv ==
    ASSUME IInv, NEW n \in Nodes, FinishDealloc(n)
    PROVE  IInv'
  <1> USE DEF IInv, FinishDealloc, call
  <1>1. TypeOK' /\ CountsMatch' /\ Unmapped' /\ FieldsAreRefs'
    BY DEF TypeOK, CountsMatch, Holders, Unmapped, Mapped, FieldsAreRefs
  <1>2. \A m \in Nodes : /\ status'[m] = "live" <=> status[m] = "live"
                         /\ status[m] = "live" => index'[m] = index[m]
    BY DEF TypeOK
  <1>3. RegistryMatches'
    BY <1>2 DEF RegistryMatches
  <1>4. ASSUME NEW q, Accessible(q)
        PROVE  Accessible(q)'
    <2>1. CASE q \in Locals
      BY <2>1 DEF Accessible
    <2>2. CASE q \notin Locals
      <3>1. PICK m \in Nodes, f \in Fields, l \in Locals :
              q = <<m, f>> /\ status[m] = "live" /\ handle[l] = [kind |-> "pin", index |-> index[m]]
        BY <1>4, <2>2 DEF Accessible
      <3>2. status'[m] = "live" /\ index'[m] = index[m] /\ handle' = handle
        BY <1>2, <3>1
      <3> QED BY <3>1, <3>2 DEF Accessible
    <2> QED BY <2>1, <2>2
  <1>5. Control'
    <2> PICK q : q = src
      OBVIOUS
    <2>1. Accessible(q) => Accessible(q)'
      BY <1>4
    <2>2. src' = q
      OBVIOUS
    <2> QED BY <2>1, <2>2 DEF Control
  <1> QED BY <1>1, <1>3, <1>5

LEMMA FinishCopyKeepsIInv ==
    ASSUME IInv, FinishCopy
    PROVE  IInv'
  <1> USE DEF IInv
  <1>0. pc = "clear" /\ dst \in Slots
    BY DEF FinishCopy, Cleared, TypeOK
  <1>1. /\ handle \in Assignments /\ Counted(count, handle)
        /\ src \in Slots /\ handle[src] # Null
        /\ want = [kind |-> want.kind, index |-> handle[src].index]
        /\ want.kind \in {"ref", "weak"}
        /\ dst \notin Locals => want.kind = "ref"
        /\ handle[dst] = Null
    BY CountsMatchCounted DEF TypeOK, Assignments, FinishCopy, Cleared, Control
  <1>2. want \in Handle /\ want # Null /\ want.index = handle[src].index
    BY <1>1 DEF TypeOK, Null
  <1>3. /\ count' \in [Index -> [Kinds -> Nat]]
        /\ handle' \in [Slots -> Handle]
        /\ Counted(count', handle')
        /\ \A i \in Index : i # want.index => count'[i] = count[i]
    BY <1>0, <1>1, <1>2, PutKeepsCounts DEF FinishCopy
  <1>4. CountsMatch'
    BY <1>3 DEF CountsMatch, Counted, Holders, Cnt
  <1>5. Mapped(want.index)
    BY <1>1, <1>2, HandleIsMapped
  <1>6. Unmapped'
    BY <1>3, <1>5 DEF Unmapped, Mapped, FinishCopy
  <1>7. TypeOK' /\ RegistryMatches'
    BY <1>3 DEF TypeOK, FinishCopy, RegistryMatches, Handle
  <1>8. FieldsAreRefs'
    <2> SUFFICES ASSUME NEW n \in Nodes, NEW f \in Fields
                 PROVE  handle'[<<n, f>>].kind \in {"ref", "null"}
      BY DEF FieldsAreRefs
    <2>1. <<n, f>> \in Slots /\ <<n, f>> \notin Locals
      BY SlotsAssumption DEF Slots
    <2>2. CASE <<n, f>> = dst
      BY <1>1, <2>1, <2>2 DEF FinishCopy, Assignments
    <2>3. CASE <<n, f>> # dst
      BY <1>1, <2>1, <2>3 DEF FinishCopy, Assignments, FieldsAreRefs
    <2> QED BY <2>2, <2>3
  <1>9. Control'
    BY DEF FinishCopy, Control
  <1> QED BY <1>4, <1>6, <1>7, <1>8, <1>9

LEMMA FinishShutdownKeepsIInv ==
    ASSUME IInv, FinishShutdown
    PROVE  IInv'
  <1> USE DEF IInv, FinishShutdown, registry, call
  <1>1. TypeOK' /\ RegistryMatches' /\ CountsMatch' /\ Unmapped' /\ FieldsAreRefs'
    BY DEF TypeOK, RegistryMatches, CountsMatch, Holders, Unmapped, Mapped, FieldsAreRefs
  <1>2. Control'
    BY DEF Control, Cleared
  <1> QED BY <1>1, <1>2

LEMMA MakeKeepsIInv ==
    ASSUME IInv, NEW n \in Nodes, NEW d \in Locals, Make(n, d)
    PROVE  IInv'
  <1> USE DEF IInv, Make
  <1>1. TypeOK' /\ CountsMatch' /\ Unmapped' /\ FieldsAreRefs'
    BY DEF TypeOK, CountsMatch, Holders, Unmapped, Mapped, FieldsAreRefs, Slots
  <1>2. \A m \in Nodes : status'[m] = "live" <=> status[m] = "live"
    BY DEF TypeOK
  <1>3. RegistryMatches'
    BY <1>2 DEF RegistryMatches
  <1>4. Control'
    BY DEF Control
  <1> QED BY <1>1, <1>3, <1>4

LEMMA ProbeNextKeepsIInv ==
    ASSUME IInv, ProbeNext
    PROVE  IInv'
  <1> USE DEF IInv, ProbeNext, registry, call
  <1>1. TypeOK'
    BY IndexAssumption DEF TypeOK, Index
  <1>2. RegistryMatches' /\ CountsMatch' /\ Unmapped' /\ FieldsAreRefs'
    BY DEF RegistryMatches, CountsMatch, Holders, Unmapped, Mapped, FieldsAreRefs
  <1>3. Control'
    BY DEF Control
  <1> QED BY <1>1, <1>2, <1>3

LEMMA MapNodeKeepsIInv ==
    ASSUME IInv, NEW n \in Nodes, MapNode(n)
    PROVE  IInv'
  <1> USE DEF IInv
  <1> DEFINE x == [kind |-> "pin", index |-> probe]
  <1>1. handle \in Assignments /\ Counted(count, handle)
    BY CountsMatchCounted DEF TypeOK, Assignments
  <1>2. probe \in Index /\ in_memory[probe] = NoNode /\ count[probe] = NoCount
    BY IndexAssumption DEF MapNode, Found, TypeOK, Index, Unmapped, Mapped
  <1>3. dst \in Locals /\ dst \in Slots /\ handle[dst] = Null
    BY DEF Control, MapNode, Found, Slots
  <1>4. x \in Handle /\ x # Null /\ x.kind = "pin" /\ x.index = probe
    BY <1>2 DEF Handle, Kinds, Null
  <1>5. count' = [count EXCEPT ![x.index][x.kind] = @ + 1] /\ handle' = [handle EXCEPT ![dst] = x]
    <2>1. [NoCount EXCEPT !["pin"] = 1] = [count[probe] EXCEPT !["pin"] = @ + 1]
      BY <1>2 DEF NoCount, Kinds
    <2> QED BY <1>2, <2>1 DEF MapNode, TypeOK
  <1>6. /\ count' \in [Index -> [Kinds -> Nat]]
        /\ handle' \in [Slots -> Handle]
        /\ Counted(count', handle')
        /\ \A i \in Index : i # probe => count'[i] = count[i]
    BY <1>1, <1>3, <1>4, <1>5, PutKeepsCounts
  <1>7. CountsMatch'
    BY <1>6 DEF CountsMatch, Counted, Holders, Cnt
  <1>8. \A i \in Index : in_memory'[i] = IF i = probe THEN n ELSE in_memory[i]
    BY DEF MapNode, TypeOK
  <1>9. Unmapped'
    BY <1>6, <1>8, NodesAssumption DEF Unmapped, Mapped
  <1>10. TypeOK'
    BY <1>2, <1>6 DEF TypeOK, MapNode, Handle
  <1>11. RegistryMatches'
    <2>1. \A m \in Nodes : m # n => status'[m] = status[m] /\ index'[m] = index[m]
      BY DEF MapNode, TypeOK
    <2>2. status'[n] = "live" /\ index'[n] = probe /\ status[n] = "new"
      BY DEF MapNode, TypeOK
    <2>3. \A i \in Index : in_memory[i] # n
      BY <2>2 DEF RegistryMatches
    <2> SUFFICES ASSUME NEW i \in Index, NEW m \in Nodes
                 PROVE  in_memory'[i] = m <=> status'[m] = "live" /\ index'[m] = i
      BY DEF RegistryMatches
    <2>4. in_memory[i] = m <=> status[m] = "live" /\ index[m] = i
      BY DEF RegistryMatches
    <2>5. CASE m = n
      BY <1>8, <2>2, <2>3, <2>5
    <2>6. CASE m # n
      <3>1. in_memory[probe] # m
        BY <1>2, NodesAssumption
      <3>2. CASE i = probe
        BY <1>8, <2>1, <2>4, <2>6, <3>1, <3>2
      <3>3. CASE i # probe
        BY <1>8, <2>1, <2>4, <2>6, <3>3
      <3> QED BY <3>2, <3>3
    <2> QED BY <2>5, <2>6
  <1>12. FieldsAreRefs'
    <2>1. \A m \in Nodes, f \in Fields : <<m, f>> \in Slots /\ <<m, f>> # dst
      BY <1>3, SlotsAssumption DEF Slots
    <2> QED BY <1>1, <2>1 DEF FieldsAreRefs, MapNode, Assignments
  <1>13. Control'
    BY DEF Control, MapNode, Found
  <1> QED BY <1>7, <1>9, <1>10, <1>11, <1>12, <1>13

LEMMA MapFailsKeepsIInv ==
    ASSUME IInv, NEW n \in Nodes, MapFails(n) \/ NoIndex(n)
    PROVE  IInv'
  <1> USE DEF IInv
  <1>0. /\ pc = "alloc" /\ pc' = "idle" /\ dst' = NoSlot /\ status[n] = "new"
        /\ status' = [status EXCEPT ![n] = "none"]
        /\ UNCHANGED <<in_memory, count, index, handle, probe, src, want>>
    BY DEF MapFails, NoIndex, Found
  <1>1. CountsMatch' /\ Unmapped' /\ FieldsAreRefs'
    BY <1>0 DEF CountsMatch, Holders, Unmapped, Mapped, FieldsAreRefs
  <1>2. min_free' \in Nat /\ lost' \in SUBSET Nat
    <2>1. min_free \in Nat /\ lost \in SUBSET Nat /\ probe \in Nat
      BY DEF TypeOK
    <2>2. CASE MapFails(n)
      BY <2>1, <2>2 DEF MapFails
    <2>3. CASE NoIndex(n)
      BY <2>1, <2>3 DEF NoIndex
    <2> QED BY <2>2, <2>3
  <1>3. TypeOK'
    BY <1>0, <1>2 DEF TypeOK
  <1>4. \A m \in Nodes : status'[m] = "live" <=> status[m] = "live"
    BY <1>0 DEF TypeOK
  <1>5. RegistryMatches'
    BY <1>0, <1>4 DEF RegistryMatches
  <1>6. Control'
    BY <1>0 DEF Control
  <1> QED BY <1>1, <1>3, <1>5, <1>6

-----------------------------------------------------------------------------

LEMMA InitIInv == Init => IInv
  <1> SUFFICES ASSUME Init PROVE IInv
    OBVIOUS
  <1>1. TypeOK /\ RegistryMatches /\ Unmapped /\ Control
    BY NodesAssumption, IndexAssumption
    DEF Init, TypeOK, RegistryMatches, Unmapped, Control, Mapped, NoCount, Handle
  <1>2. FieldsAreRefs
    BY DEF Init, FieldsAreRefs, Slots, Null
  <1>3. CountsMatch
    <2> SUFFICES ASSUME NEW i \in Index, NEW k \in Kinds
                 PROVE  count[i][k] = Cardinality(Holders(i, k))
      BY DEF CountsMatch
    <2>1. Holders(i, k) = {}
      BY DEF Init, Holders, Null, Kinds
    <2>2. count[i][k] = 0
      BY DEF Init, NoCount
    <2> QED BY <2>1, <2>2, FS_EmptySet
  <1> QED BY <1>1, <1>2, <1>3 DEF IInv

LEMMA NextIInv == IInv /\ [Next]_vars => IInv'
  <1> SUFFICES ASSUME IInv, [Next]_vars PROVE IInv'
    OBVIOUS
  <1>1. ASSUME NEW s \in Slots, Release(s) PROVE IInv'
    BY <1>1, ReleaseKeepsIInv
  <1>2. ASSUME NEW s \in Slots, NEW d \in Slots, Move(s, d) PROVE IInv'
    BY <1>2, MoveKeepsIInv
  <1>3. ASSUME NEW s \in Slots, NEW d \in Slots, Pin(s, d) PROVE IInv'
    BY <1>3, PinKeepsIInv
  <1>4. ASSUME NEW s \in Slots, NEW d \in Slots, NEW k \in Kinds, Copy(s, d, k) PROVE IInv'
    BY <1>4, CopyKeepsIInv
  <1>5. ASSUME NEW n \in Nodes, NEW d \in Locals, Make(n, d) PROVE IInv'
    BY <1>5, MakeKeepsIInv
  <1>6. CASE Shutdown
    BY <1>6, ShutdownKeepsIInv
  <1>7. CASE Clear
    <2>1. CASE TakeList
      BY <2>1, TakeListKeepsIInv
    <2>2. ASSUME NEW n \in Nodes, StartDealloc(n) \/ FinishDealloc(n) PROVE IInv'
      BY <2>2, StartDeallocKeepsIInv, FinishDeallocKeepsIInv
    <2>3. ASSUME NEW n \in Nodes, NEW f \in Fields, DestroyField(n, f) PROVE IInv'
      BY <2>3, DestroyFieldKeepsIInv
    <2>4. CASE FinishCopy
      BY <2>4, FinishCopyKeepsIInv
    <2>5. CASE FinishShutdown
      BY <2>5, FinishShutdownKeepsIInv
    <2> QED BY <1>7, <2>1, <2>2, <2>3, <2>4, <2>5 DEF Clear
  <1>8. CASE Alloc
    <2>1. CASE ProbeNext
      BY <2>1, ProbeNextKeepsIInv
    <2>2. ASSUME NEW n \in Nodes, MapNode(n) PROVE IInv'
      BY <2>2, MapNodeKeepsIInv
    <2>3. ASSUME NEW n \in Nodes, MapFails(n) \/ NoIndex(n) PROVE IInv'
      BY <2>3, MapFailsKeepsIInv
    <2> QED BY <1>8, <2>1, <2>2, <2>3 DEF Alloc
  <1>9. CASE UNCHANGED vars
    <2> USE <1>9 DEF vars, IInv
    <2>1. TypeOK' /\ RegistryMatches' /\ Unmapped' /\ FieldsAreRefs'
      BY DEF TypeOK, RegistryMatches, Unmapped, Mapped, FieldsAreRefs
    <2>2. CountsMatch' /\ Control'
      BY DEF CountsMatch, Holders, Control, Accessible
    <2> QED BY <2>1, <2>2
  <1> HIDE DEF IInv
  <1> QED BY <1>1, <1>2, <1>3, <1>4, <1>5, <1>6, <1>7, <1>8, <1>9, Zenon DEF Next, Terminated

LEMMA IInvNoDangling == IInv => NoDangling
  <1> SUFFICES ASSUME IInv PROVE NoDangling
    OBVIOUS
  <1>1. TypeOK /\ Unmapped /\ handle \in Assignments /\ Counted(count, handle)
    BY CountsMatchCounted DEF IInv, TypeOK, Assignments
  <1>2. \A s \in Slots : handle[s] # Null => Mapped(handle[s].index)
    BY <1>1, HandleIsMapped
  <1>3. want # Null => Mapped(want.index)
    <2> SUFFICES ASSUME want # Null PROVE Mapped(want.index)
      OBVIOUS
    <2>1. pc = "clear" /\ dst # NoSlot
      BY DEF IInv, Control, TypeOK
    <2>2. src \in Slots /\ handle[src] # Null /\ want = [kind |-> want.kind, index |-> handle[src].index]
      BY <2>1 DEF IInv, Control
    <2> QED BY <1>2, <2>2
  <1> QED BY <1>2, <1>3 DEF NoDangling

LEMMA SpecIInv == Spec => []IInv
  BY InitIInv, NextIInv, PTL DEF Spec

(* The registry keeps its types: no counter goes below zero, no index      *)
(* leaves the range.                                                       *)
THEOREM TypeCorrect == Spec => []TypeOK
  <1>1. IInv => TypeOK
    BY DEF IInv
  <1> QED BY <1>1, SpecIInv, PTL

(* The counters of every entry are the numbers of handles on it.           *)
THEOREM CountingCorrect == Spec => []CountsMatch
  <1>1. IInv => CountsMatch
    BY DEF IInv
  <1> QED BY <1>1, SpecIInv, PTL

(* Entries and live objects correspond one to one.                         *)
THEOREM RegistryCorrect == Spec => []RegistryMatches
  <1>1. IInv => RegistryMatches
    BY DEF IInv
  <1> QED BY <1>1, SpecIInv, PTL

(* No handle, and no copy in progress, ever designates a removed entry.    *)
THEOREM HandlesSafe == Spec => []NoDangling
  BY IInvNoDangling, SpecIInv, PTL

-----------------------------------------------------------------------------
(* The search for a free index begins where nothing below is free: no      *)
(* index is lost to the registry, but those of failed insertions.          *)

(* Why an index below the search's start is not to be searched. *)
Waits(n) == status[n] \in {"listed", "batch"}
Spoken(i) == Mapped(i) \/ (\E n \in Nodes : index[n] = i /\ Waits(n)) \/ i \in lost

(* A search that has left its start found the start taken. *)
Searching == pc = "alloc" => probe = min_free \/ (min_free \in Index /\ Mapped(min_free))

LInv == NoIndexLeak /\ Searching

LEMMA LeakSpoken == NoIndexLeak <=> \A i \in Index : i < min_free => Spoken(i)
  BY DEF NoIndexLeak, Spoken, Waits

(* An entry that goes leaves its object on the list, with its index. *)
LEMMA DropSpoken ==
    ASSUME IInv, NEW s \in Slots, Drop(handle[s]), index' = index, lost' = lost,
           NEW i \in Index, Spoken(i)
    PROVE  Spoken(i)'
  <1> DEFINE x == handle[s]
  <1>1. TypeOK /\ RegistryMatches /\ Unmapped /\ handle \in Assignments /\ Counted(count, handle)
    BY CountsMatchCounted DEF IInv, TypeOK, Assignments
  <1>2. CASE x = Null
    BY <1>2 DEF Drop, registry, Spoken, Mapped, Waits
  <1>3. CASE x # Null
    <2>1. x.index \in Index /\ Mapped(x.index)
      BY <1>1, <1>3, HandleIsMapped, HandleCases DEF Assignments
    <2>2. PICK m \in Nodes : m = in_memory[x.index] /\ status[m] = "live" /\ index[m] = x.index
      BY <1>1, <2>1 DEF TypeOK, Mapped, RegistryMatches
    <2>3. \/ in_memory' = in_memory /\ status' = status
          \/ /\ in_memory' = [in_memory EXCEPT ![x.index] = NoNode]
             /\ status' = [status EXCEPT ![m] = "listed"]
      BY <1>3, <2>2 DEF Drop
    <2> HIDE DEF x
    <2>4. \A n \in Nodes : Waits(n) => Waits(n)'
      BY <1>1, <2>2, <2>3 DEF Waits, TypeOK
    <2>5. Mapped(i) => Mapped(i)' \/ (index[m] = i /\ Waits(m)')
      BY <1>1, <2>1, <2>2, <2>3 DEF Mapped, Waits, TypeOK
    <2> QED BY <2>2, <2>4, <2>5 DEF Spoken
  <1> QED BY <1>2, <1>3

LEMMA DropKeepsLInv ==
    ASSUME IInv, LInv, NEW s \in Slots, Drop(handle[s]), index' = index, lost' = lost,
           min_free' = min_free, pc' # "alloc"
    PROVE  LInv'
  <1>1. ASSUME NEW i \in Index, i < min_free'
        PROVE  Spoken(i)'
    BY <1>1, DropSpoken, LeakSpoken DEF LInv
  <1>2. NoIndexLeak'
    BY <1>1 DEF NoIndexLeak, Spoken, Waits
  <1> QED BY <1>2 DEF LInv, Searching

(* The steps that change neither entries nor what waits. *)
LEMMA QuietKeepsLInv ==
    ASSUME LInv, in_memory' = in_memory, min_free' = min_free, lost' = lost,
           \A n \in Nodes : Waits(n) => Waits(n)' /\ index'[n] = index[n],
           pc' = "alloc" => (pc = "alloc" /\ probe' = probe) \/ probe' = min_free
    PROVE  LInv'
  <1>1. ASSUME NEW i \in Index, i < min_free'
        PROVE  Spoken(i)'
    BY <1>1, LeakSpoken DEF LInv, Spoken, Mapped
  <1>2. NoIndexLeak'
    BY <1>1 DEF NoIndexLeak, Spoken, Waits
  <1> QED BY <1>2 DEF LInv, Searching, Mapped

LEMMA StartDeallocKeepsLInv ==
    ASSUME IInv, LInv, NEW n \in Nodes, StartDealloc(n)
    PROVE  LInv'
  <1>1. /\ min_free \in Nat /\ MaxIndex \in Nat /\ index[n] \in 0 .. MaxIndex
        /\ status \in [Nodes -> {"none", "new", "live", "listed", "batch", "dying"}]
    BY IndexAssumption DEF IInv, TypeOK, Index
  <1>2. /\ min_free' = IF index[n] < min_free THEN index[n] ELSE min_free
        /\ lost' = {i \in lost : i < min_free'}
        /\ status' = [status EXCEPT ![n] = "dying"]
        /\ in_memory' = in_memory /\ index' = index /\ pc' = "clear"
    BY DEF StartDealloc
  <1>3. ASSUME NEW i \in Index, i < min_free'
        PROVE  Spoken(i)'
    <2>1. i \in Nat /\ i < min_free /\ i # index[n]
      BY <1>1, <1>2, <1>3 DEF Index
    <2>2. Spoken(i)
      BY <2>1, LeakSpoken DEF LInv
    <2>3. \A m \in Nodes : m # n /\ Waits(m) => Waits(m)'
      BY <1>1, <1>2 DEF Waits
    <2> QED BY <1>2, <1>3, <2>1, <2>2, <2>3 DEF Spoken, Mapped
  <1>4. NoIndexLeak'
    BY <1>3 DEF NoIndexLeak, Spoken, Waits
  <1> QED BY <1>2, <1>4 DEF LInv, Searching

LEMMA ProbeNextKeepsLInv ==
    ASSUME IInv, LInv, ProbeNext
    PROVE  LInv'
  <1>1. probe \in Index
    BY IndexAssumption DEF ProbeNext, IInv, TypeOK, Index
  <1>2. min_free \in Index /\ Mapped(min_free)
    BY <1>1 DEF LInv, Searching, ProbeNext
  <1>3. UNCHANGED <<in_memory, status, min_free, index, lost>>
    BY DEF ProbeNext, registry
  <1>4. NoIndexLeak'
    BY <1>3 DEF LInv, NoIndexLeak, Mapped
  <1> QED BY <1>2, <1>3, <1>4 DEF LInv, Searching, Mapped

(* The start goes up by one: it is taken now, or was already, or is lost.  *)
LEMMA FoundKeepsLInv ==
    ASSUME IInv, LInv, NEW n \in Nodes, MapNode(n) \/ MapFails(n)
    PROVE  LInv'
  <1>1. /\ probe \in Index /\ min_free \in Nat /\ lost \in SUBSET Nat
        /\ in_memory \in [Index -> Nodes \cup {NoNode}]
        /\ status \in [Nodes -> {"none", "new", "live", "listed", "batch", "dying"}]
        /\ index \in [Nodes -> Index \cup {MaxIndex}]
    BY IndexAssumption DEF MapNode, MapFails, Found, IInv, TypeOK, Index
  <1>2. pc = "alloc" /\ pc' = "idle" /\ min_free' = min_free + 1 /\ status[n] = "new"
    BY DEF MapNode, MapFails, Found
  <1>3. \A m \in Nodes : Waits(m) => Waits(m)' /\ index'[m] = index[m]
    BY <1>1, <1>2 DEF MapNode, MapFails, Waits
  <1>4. \A i \in Index : Mapped(i) => Mapped(i)'
    BY <1>1, NodesAssumption DEF MapNode, MapFails, Mapped
  <1>5. \A i \in Index : Spoken(i) => Spoken(i)'
    <2>1. lost \subseteq lost'
      BY DEF MapNode, MapFails
    <2> QED BY <1>3, <1>4, <2>1 DEF Spoken
  <1>6. \A i \in Index : i = min_free => Spoken(i)'
    <2>1. CASE probe = min_free
      BY <1>1, <2>1, NodesAssumption DEF MapNode, MapFails, Spoken, Mapped
    <2>2. CASE probe # min_free
      BY <1>2, <1>4, <2>2 DEF LInv, Searching, Spoken
    <2> QED BY <2>1, <2>2
  <1>7. ASSUME NEW i \in Index, i < min_free'
        PROVE  Spoken(i)'
    <2>1. i \in Nat /\ (i < min_free \/ i = min_free)
      BY <1>1, <1>2, <1>7 DEF Index
    <2> QED BY <1>5, <1>6, <2>1, LeakSpoken DEF LInv
  <1>8. NoIndexLeak'
    BY <1>7 DEF NoIndexLeak, Spoken, Waits
  <1> QED BY <1>2, <1>8 DEF LInv, Searching

LEMMA NextLInv == IInv /\ LInv /\ [Next]_vars => LInv'
  <1> SUFFICES ASSUME IInv, LInv, [Next]_vars PROVE LInv'
    OBVIOUS
  <1>0. /\ handle \in Assignments
        /\ status \in [Nodes -> {"none", "new", "live", "listed", "batch", "dying"}]
        /\ index \in [Nodes -> Index \cup {MaxIndex}]
    BY DEF IInv, TypeOK, Assignments
  <1>1. ASSUME NEW s \in Slots, Release(s) PROVE LInv'
    BY <1>1, DropKeepsLInv DEF Release
  <1>2. ASSUME NEW s \in Slots, NEW d \in Slots, Move(s, d) PROVE LInv'
    BY <1>2, DropKeepsLInv DEF Move
  <1>3. ASSUME NEW s \in Slots, NEW d \in Slots, NEW k \in Kinds, Copy(s, d, k) PROVE LInv'
    BY <1>3, DropKeepsLInv DEF Copy
  <1>4. ASSUME NEW n \in Nodes, NEW f \in Fields, DestroyField(n, f) PROVE LInv'
    <2>1. <<n, f>> \in Slots
      BY DEF Slots
    <2> QED BY <1>4, <2>1, DropKeepsLInv DEF DestroyField
  <1>5. ASSUME NEW s \in Slots, NEW d \in Slots, Pin(s, d) PROVE LInv'
    BY <1>5, QuietKeepsLInv DEF Pin, Waits
  <1>6. ASSUME NEW n \in Nodes, NEW d \in Locals, Make(n, d) PROVE LInv'
    <2>1. \A m \in Nodes : Waits(m) => Waits(m)' /\ index'[m] = index[m]
      BY <1>0, <1>6 DEF Make, Waits
    <2> QED BY <1>6, <2>1, QuietKeepsLInv DEF Make
  <1>7. CASE Shutdown \/ FinishShutdown
    <2>1. pc' # "alloc" /\ UNCHANGED <<in_memory, min_free, status, index, lost>>
      BY <1>7 DEF Shutdown, FinishShutdown, registry
    <2> QED BY <2>1, QuietKeepsLInv DEF Waits
  <1>8. CASE TakeList
    <2>1. \A m \in Nodes : Waits(m) => Waits(m)' /\ index'[m] = index[m]
      BY <1>0, <1>8 DEF TakeList, Waits
    <2> QED BY <1>8, <2>1, QuietKeepsLInv DEF TakeList
  <1>9. ASSUME NEW n \in Nodes, StartDealloc(n) PROVE LInv'
    BY <1>9, StartDeallocKeepsLInv
  <1>10. ASSUME NEW n \in Nodes, FinishDealloc(n) PROVE LInv'
    <2>1. \A m \in Nodes : Waits(m) => Waits(m)' /\ index'[m] = index[m]
      BY <1>0, <1>10 DEF FinishDealloc, Waits
    <2> QED BY <1>10, <2>1, QuietKeepsLInv DEF FinishDealloc
  <1>11. CASE FinishCopy
    BY <1>11, QuietKeepsLInv DEF FinishCopy, Waits
  <1>12. CASE ProbeNext
    BY <1>12, ProbeNextKeepsLInv
  <1>13. ASSUME NEW n \in Nodes, MapNode(n) \/ MapFails(n) PROVE LInv'
    BY <1>13, FoundKeepsLInv
  <1>14. ASSUME NEW n \in Nodes, NoIndex(n) PROVE LInv'
    <2>1. \A m \in Nodes : Waits(m) => Waits(m)' /\ index'[m] = index[m]
      BY <1>0, <1>14 DEF NoIndex, Waits
    <2> QED BY <1>14, <2>1, QuietKeepsLInv DEF NoIndex
  <1>15. CASE UNCHANGED vars
    BY <1>15, QuietKeepsLInv DEF vars, Waits
  <1> QED BY <1>1, <1>2, <1>3, <1>4, <1>5, <1>6, <1>7, <1>8, <1>9, <1>10, <1>11, <1>12, <1>13,
             <1>14, <1>15, Zenon DEF Next, Clear, Alloc, Terminated

(* No index below the search's start is free and forgotten: it is in use,  *)
(* or comes back with an object that waits for its end, or was consumed by *)
(* an insertion that failed.                                               *)
THEOREM NoIndexForgotten == Spec => []NoIndexLeak
  <1>1. Init => LInv
    <2>1. Init => \A i \in Index : ~ i < min_free
      BY IndexAssumption DEF Init, Index
    <2> QED BY <2>1 DEF Init, LInv, NoIndexLeak, Searching
  <1>2. LInv => NoIndexLeak
    BY DEF LInv
  <1> QED BY <1>1, <1>2, InitIInv, NextIInv, NextLInv, PTL DEF Spec

=============================================================================
