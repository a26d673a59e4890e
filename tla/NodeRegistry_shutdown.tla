------------------------ MODULE NodeRegistry_shutdown ------------------------
(***************************************************************************)
(* ~Global does not abort: when the program's own handles are gone, the    *)
(* clear brings down all that is left.  What could stay are nodes that     *)
(* hold each other; there are none, since whatever set of nodes is taken,  *)
(* some node of it is held by none of the set.  And the registry           *)
(* implements NodeLifetime.                                                *)
(***************************************************************************)
EXTENDS NodeRegistry_proofs

Trees == \A S \in SUBSET Nodes : S # {} => \E n \in S : \A m \in S : ~ Owns(m, n)

(* An entry has a handle; only objects that were registered hold any.      *)
Referred == \A i \in Index : Mapped(i) => count[i] # NoCount
Unbuilt == \A n \in Nodes, f \in Fields : status[n] \in {"none", "new"} => handle[<<n, f>>] = Null
Indexed == \A n \in Nodes : status[n] = "live" => index[n] \in Index

(* A clear of the shutdown has no handle outside nodes; the place that a   *)
(* copy is made for stays within reach, and storing there makes no cycle.  *)
Closing == pc = "clear" /\ dst = NoSlot => \A l \in Locals : handle[l] = Null
Storing == pc = "clear" /\ dst # NoSlot => Accessible(dst) /\ StoringKeepsTrees(dst, want)

Objects == Trees /\ Referred /\ Unbuilt /\ Indexed
SInv == Objects /\ Closing /\ Storing /\ NeverAborts

Shrinks == \A m, n \in Nodes : Owns(m, n)' => Owns(m, n)

-----------------------------------------------------------------------------
(* What a step does to who holds whom *)

LEMMA TreesShrink ==
    ASSUME Trees, Shrinks
    PROVE  Trees'
  BY DEF Trees, Shrinks

LEMMA LeadsToShrinks ==
    ASSUME Shrinks, NEW m \in Nodes, NEW n \in Nodes, ~ LeadsTo(m, n)
    PROVE  ~ LeadsTo(m, n)'
  BY DEF LeadsTo, Shrinks

(* One more pair: a set without a node that none of it holds would be one  *)
(* without the nodes that the new one leads to, before.                    *)
LEMMA TreesGrow ==
    ASSUME Trees, NEW p \in Nodes, NEW q \in Nodes, ~ LeadsTo(q, p),
           \A m, n \in Nodes : Owns(m, n)' => Owns(m, n) \/ (m = p /\ n = q)
    PROVE  Trees'
  <1> SUFFICES ASSUME NEW S \in SUBSET Nodes, S # {}, \A n \in S : \E m \in S : Owns(m, n)'
               PROVE  FALSE
    BY DEF Trees
  <1>1. PICK C \in SUBSET Nodes :
            q \in C /\ (\A a \in C, b \in Nodes : Owns(a, b) => b \in C) /\ p \notin C
    BY DEF LeadsTo
  <1>2. PICK n \in S : \A m \in S : ~ Owns(m, n)
    BY DEF Trees
  <1>3. Owns(p, q)' /\ p \in S /\ n = q
    BY <1>2
  <1>4. PICK r \in S \ C : \A m \in S \ C : ~ Owns(m, r)
    <2>1. S \ C \in SUBSET Nodes /\ S \ C # {}
      BY <1>1, <1>3
    <2> QED BY <2>1 DEF Trees
  <1>5. PICK m \in S : Owns(m, r)'
    BY <1>4
  <1>6. Owns(m, r)
    BY <1>1, <1>4, <1>5
  <1> QED BY <1>1, <1>4, <1>6

(* A handle goes. *)
LEMMA DropShrinks ==
    ASSUME IInv, NEW s \in Slots, Drop(handle[s]), handle' = [handle EXCEPT ![s] = Null]
    PROVE  Shrinks
  <1>1. /\ handle \in Assignments /\ in_memory \in [Index -> Nodes \cup {NoNode}]
        /\ NoNode \notin Nodes
    BY NodesAssumption DEF IInv, TypeOK, Assignments
  <1>2. \A i \in Index : in_memory'[i] \in {in_memory[i], NoNode}
    BY <1>1 DEF Drop, registry
  <1> SUFFICES ASSUME NEW m \in Nodes, NEW n \in Nodes, Owns(m, n)'
               PROVE  Owns(m, n)
    BY DEF Shrinks
  <1>3. PICK f \in Fields : /\ handle'[<<m, f>>] # Null
                            /\ in_memory'[handle'[<<m, f>>].index] = n
    BY DEF Owns
  <1>4. <<m, f>> \in Slots
    BY DEF Slots
  <1>5. handle'[<<m, f>>] = handle[<<m, f>>] /\ handle[<<m, f>>].index \in Index
    BY <1>1, <1>3, <1>4, HandleCases DEF Assignments
  <1> QED BY <1>1, <1>2, <1>3, <1>5 DEF Owns

LEMMA DropObjects ==
    ASSUME IInv, Objects, NEW s \in Slots, Drop(handle[s]), index' = index,
           handle' = [handle EXCEPT ![s] = Null]
    PROVE  Objects' /\ Shrinks
  <1> DEFINE x == handle[s]
  <1>1. /\ handle \in Assignments /\ in_memory \in [Index -> Nodes \cup {NoNode}]
        /\ count \in [Index -> [Kinds -> Nat]]
        /\ status \in [Nodes -> {"none", "new", "live", "listed", "batch", "dying"}]
    BY DEF IInv, TypeOK, Assignments
  <1>2. x \in Handle
    BY <1>1 DEF Assignments
  <1>3. Trees' /\ Shrinks
    BY DropShrinks, TreesShrink DEF Objects
  <1>4. Referred'
    <2>1. CASE x = Null
      BY <2>1 DEF Drop, registry, Objects, Referred, Mapped
    <2>2. CASE x # Null
      <3>1. x.index \in Index
        BY <1>2, <2>2, HandleCases
      <3> DEFINE left == [count[x.index] EXCEPT ![x.kind] = @ - 1]
      <3>2. /\ count' = [count EXCEPT ![x.index] = left]
            /\ in_memory' = IF left = NoCount THEN [in_memory EXCEPT ![x.index] = NoNode]
                            ELSE in_memory
        BY <2>2 DEF Drop
      <3> HIDE DEF left, x
      <3> QED BY <1>1, <3>1, <3>2 DEF Objects, Referred, Mapped
    <2> QED BY <2>1, <2>2
  <1>5. \A n \in Nodes : \/ status'[n] = status[n]
                         \/ status'[n] = "listed"
    BY <1>1 DEF Drop, registry
  <1>6. Unbuilt'
    <2> SUFFICES ASSUME NEW n \in Nodes, NEW f \in Fields, status'[n] \in {"none", "new"}
                 PROVE  handle'[<<n, f>>] = Null
      BY DEF Unbuilt
    <2>1. handle[<<n, f>>] = Null /\ <<n, f>> \in Slots
      BY <1>5 DEF Objects, Unbuilt, Slots
    <2> QED BY <1>1, <2>1 DEF Assignments
  <1>7. Indexed'
    BY <1>5 DEF Objects, Indexed
  <1> QED BY <1>3, <1>4, <1>6, <1>7 DEF Objects

(* Objects that are neither built nor reached, and entries that stay. *)
LEMMA ObjectsStay ==
    ASSUME Objects, in_memory' = in_memory, count' = count, handle' = handle,
           \A n \in Nodes :
              /\ status'[n] \in {"none", "new"} =>
                    status[n] \in {"none", "new"} \/ \A f \in Fields : handle[<<n, f>>] = Null
              /\ status'[n] = "live" => status[n] = "live" /\ index'[n] = index[n]
    PROVE  Objects' /\ Shrinks
  <1>1. Shrinks
    BY DEF Shrinks, Owns
  <1>2. Trees'
    BY <1>1, TreesShrink DEF Objects
  <1>3. Referred' /\ Unbuilt' /\ Indexed'
    BY DEF Objects, Referred, Unbuilt, Indexed, Mapped
  <1> QED BY <1>1, <1>2, <1>3 DEF Objects

LEMMA AccessibleIsLive ==
    ASSUME NEW n \in Nodes, NEW f \in Fields, Accessible(<<n, f>>)
    PROVE  status[n] = "live"
  <1>1. <<n, f>> \notin Locals
    BY SlotsAssumption
  <1>2. PICK m \in Nodes, e \in Fields : <<n, f>> = <<m, e>> /\ status[m] = "live"
    BY <1>1 DEF Accessible
  <1> QED BY <1>2

(* One more handle x is counted and put in s, which has none. *)
LEMMA PutObjects ==
    ASSUME IInv, Objects, NEW s \in Slots, Accessible(s), NEW x \in Handle, x # Null, Mapped(x.index),
           StoringKeepsTrees(s, x),
           count' = [count EXCEPT ![x.index][x.kind] = @ + 1],
           handle' = [handle EXCEPT ![s] = x],
           in_memory' = in_memory, status' = status, index' = index
    PROVE  Objects'
  <1>1. /\ handle \in Assignments /\ count \in [Index -> [Kinds -> Nat]]
        /\ x.index \in Index /\ x.kind \in Kinds
        /\ in_memory \in [Index -> Nodes \cup {NoNode}]
    BY HandleCases DEF IInv, TypeOK, Assignments
  <1>2. PICK q \in Nodes : q = in_memory[x.index]
    BY <1>1 DEF Mapped
  <1>3. ASSUME NEW m \in Nodes, NEW n \in Nodes, Owns(m, n)', ~ Owns(m, n)
        PROVE  n = q /\ \E f \in Fields : s = <<m, f>>
    <2>1. PICK f \in Fields : handle'[<<m, f>>] # Null /\ in_memory[handle'[<<m, f>>].index] = n
      BY <1>3 DEF Owns
    <2>2. <<m, f>> \in Slots
      BY DEF Slots
    <2>3. s = <<m, f>>
      BY <1>1, <1>3, <2>1, <2>2 DEF Owns, Assignments
    <2> QED BY <1>1, <1>2, <2>1, <2>2, <2>3 DEF Assignments
  <1>4. Trees'
    <2>1. CASE s \in Locals
      <3>1. \A m \in Nodes, f \in Fields : s # <<m, f>>
        BY <2>1, SlotsAssumption
      <3>2. Shrinks
        BY <1>3, <3>1 DEF Shrinks
      <3> QED BY <3>2, TreesShrink DEF Objects
    <2>2. CASE s \notin Locals
      <3>1. PICK p \in Nodes, f \in Fields : s = <<p, f>>
        BY <2>2 DEF Slots
      <3>2. ~ LeadsTo(q, p)
        BY <1>2, <3>1 DEF StoringKeepsTrees
      <3>3. \A m, n \in Nodes : Owns(m, n)' => Owns(m, n) \/ (m = p /\ n = q)
        BY <1>3, <3>1
      <3> QED BY <3>2, <3>3, TreesGrow DEF Objects
    <2> QED BY <2>1, <2>2
  <1>5. Referred'
    <2>1. \A i \in Index : count[i] # NoCount => count'[i] # NoCount
      <3>1. count'[x.index][x.kind] = count[x.index][x.kind] + 1 /\ count[x.index][x.kind] \in Nat
        BY <1>1
      <3>2. count'[x.index] # NoCount
        BY <1>1, <3>1 DEF NoCount
      <3>3. \A i \in Index : i # x.index => count'[i] = count[i]
        BY <1>1
      <3> QED BY <3>2, <3>3
    <2> QED BY <2>1 DEF Objects, Referred, Mapped
  <1>6. Unbuilt'
    <2> SUFFICES ASSUME NEW n \in Nodes, NEW f \in Fields, status[n] \in {"none", "new"}
                 PROVE  handle'[<<n, f>>] = Null
      BY DEF Unbuilt
    <2>1. <<n, f>> \in Slots /\ <<n, f>> \notin Locals /\ handle[<<n, f>>] = Null
      BY SlotsAssumption DEF Slots, Objects, Unbuilt
    <2>2. s # <<n, f>>
      BY AccessibleIsLive
    <2> QED BY <1>1, <2>1, <2>2 DEF Assignments
  <1>7. Indexed'
    BY DEF Objects, Indexed
  <1> QED BY <1>4, <1>5, <1>6, <1>7 DEF Objects

(* The target lets its handle go and takes that of the source. *)
LEMMA MoveObjects ==
    ASSUME IInv, Objects, NEW s \in Slots, NEW d \in Slots, Move(s, d)
    PROVE  Objects'
  <1> DEFINE x == handle[s]
  <1>1. /\ handle \in Assignments /\ in_memory \in [Index -> Nodes \cup {NoNode}]
        /\ count \in [Index -> [Kinds -> Nat]]
        /\ status \in [Nodes -> {"none", "new", "live", "listed", "batch", "dying"}]
        /\ NoNode \notin Nodes
    BY NodesAssumption DEF IInv, TypeOK, Assignments
  <1>2. /\ s # d /\ x # Null /\ Drop(handle[d]) /\ index' = index
        /\ handle' = [handle EXCEPT ![d] = x, ![s] = Null]
        /\ Accessible(d) /\ StoringKeepsTrees(d, x)
    BY DEF Move
  <1>3. x \in Handle /\ x.index \in Index /\ handle[d] \in Handle
    BY <1>1, <1>2, HandleCases DEF Assignments
  <1>4. PICK q \in Nodes : q = in_memory[x.index]
    BY <1>1, <1>2, <1>3, IInvNoDangling DEF NoDangling, Mapped
  <1>5. \A i \in Index : in_memory'[i] \in {in_memory[i], NoNode}
    BY <1>1 DEF Drop, registry, Move
  <1>6. ASSUME NEW m \in Nodes, NEW n \in Nodes, Owns(m, n)', ~ Owns(m, n)
        PROVE  n = q /\ \E f \in Fields : d = <<m, f>>
    <2>1. PICK f \in Fields : handle'[<<m, f>>] # Null /\ in_memory'[handle'[<<m, f>>].index] = n
      BY <1>6 DEF Owns
    <2>2. <<m, f>> \in Slots
      BY DEF Slots
    <2>3. \/ <<m, f>> = d /\ handle'[<<m, f>>] = x
          \/ <<m, f>> # d /\ handle'[<<m, f>>] = handle[<<m, f>>]
      BY <1>1, <1>2, <2>1, <2>2 DEF Assignments
    <2>4. handle'[<<m, f>>].index \in Index
      BY <1>1, <1>3, <2>1, <2>2, <2>3, HandleCases DEF Assignments
    <2>5. in_memory[handle'[<<m, f>>].index] = n
      BY <1>1, <1>5, <2>1, <2>4
    <2>6. <<m, f>> = d
      BY <1>6, <2>1, <2>3, <2>5 DEF Owns
    <2> QED BY <1>4, <2>3, <2>5, <2>6
  <1>7. Trees'
    <2>1. CASE d \in Locals
      <3>1. \A m \in Nodes, f \in Fields : d # <<m, f>>
        BY <2>1, SlotsAssumption
      <3>2. Shrinks
        BY <1>6, <3>1 DEF Shrinks
      <3> QED BY <3>2, TreesShrink DEF Objects
    <2>2. CASE d \notin Locals
      <3>1. PICK p \in Nodes, f \in Fields : d = <<p, f>>
        BY <2>2 DEF Slots
      <3>2. ~ LeadsTo(q, p)
        BY <1>2, <1>4, <3>1 DEF StoringKeepsTrees
      <3>3. \A m, n \in Nodes : Owns(m, n)' => Owns(m, n) \/ (m = p /\ n = q)
        BY <1>6, <3>1
      <3> QED BY <3>2, <3>3, TreesGrow DEF Objects
    <2> QED BY <2>1, <2>2
  <1>8. Referred'
    <2> DEFINE y == handle[d]
    <2>1. CASE y = Null
      BY <1>2, <2>1 DEF Drop, registry, Objects, Referred, Mapped
    <2>2. CASE y # Null
      <3>1. y.index \in Index
        BY <1>3, <2>2, HandleCases
      <3> DEFINE left == [count[y.index] EXCEPT ![y.kind] = @ - 1]
      <3>2. /\ count' = [count EXCEPT ![y.index] = left]
            /\ in_memory' = IF left = NoCount THEN [in_memory EXCEPT ![y.index] = NoNode]
                            ELSE in_memory
        BY <1>2, <2>2 DEF Drop
      <3> HIDE DEF left, y
      <3> QED BY <1>1, <3>1, <3>2 DEF Objects, Referred, Mapped
    <2> QED BY <2>1, <2>2
  <1>9. \A n \in Nodes : status'[n] = status[n] \/ status'[n] = "listed"
    BY <1>1, <1>2 DEF Drop, registry
  <1>10. Unbuilt'
    <2> SUFFICES ASSUME NEW n \in Nodes, NEW f \in Fields, status'[n] \in {"none", "new"}
                 PROVE  handle'[<<n, f>>] = Null
      BY DEF Unbuilt
    <2>1. <<n, f>> \in Slots /\ <<n, f>> \notin Locals /\ handle[<<n, f>>] = Null
      BY <1>9, SlotsAssumption DEF Slots, Objects, Unbuilt
    <2>2. status[n] # "live"
      BY <1>9
    <2>3. d # <<n, f>>
      BY <1>2, <2>2, AccessibleIsLive
    <2> QED BY <1>1, <1>2, <2>1, <2>3 DEF Assignments
  <1>11. Indexed'
    BY <1>2, <1>9 DEF Objects, Indexed
  <1> QED BY <1>7, <1>8, <1>10, <1>11 DEF Objects

(* A new entry is not one that a handle was on before. *)
LEMMA MapNodeObjects ==
    ASSUME IInv, Objects, NEW n \in Nodes, MapNode(n)
    PROVE  Objects'
  <1>1. /\ handle \in Assignments /\ in_memory \in [Index -> Nodes \cup {NoNode}]
        /\ count \in [Index -> [Kinds -> Nat]]
        /\ status \in [Nodes -> {"none", "new", "live", "listed", "batch", "dying"}]
        /\ index \in [Nodes -> Index \cup {MaxIndex}]
        /\ probe \in Index /\ dst \in Locals /\ ~ Mapped(probe)
    BY IndexAssumption DEF IInv, TypeOK, Control, MapNode, Found, Index, Assignments
  <1>2. /\ in_memory' = [in_memory EXCEPT ![probe] = n]
        /\ count' = [count EXCEPT ![probe] = [NoCount EXCEPT !["pin"] = 1]]
        /\ index' = [index EXCEPT ![n] = probe]
        /\ status' = [status EXCEPT ![n] = "live"]
        /\ handle' = [handle EXCEPT ![dst] = [kind |-> "pin", index |-> probe]]
    BY DEF MapNode
  <1>3. \A m \in Nodes, f \in Fields : handle'[<<m, f>>] = handle[<<m, f>>]
    BY <1>1, <1>2, SlotsAssumption DEF Slots, Assignments
  <1>4. Shrinks
    <2> SUFFICES ASSUME NEW a \in Nodes, NEW b \in Nodes, Owns(a, b)'
                 PROVE  Owns(a, b)
      BY DEF Shrinks
    <2>1. PICK f \in Fields : handle[<<a, f>>] # Null /\ in_memory'[handle[<<a, f>>].index] = b
      BY <1>3 DEF Owns
    <2>2. <<a, f>> \in Slots
      BY DEF Slots
    <2>3. Mapped(handle[<<a, f>>].index) /\ handle[<<a, f>>].index \in Index
      BY <1>1, <2>1, <2>2, IInvNoDangling, HandleCases DEF NoDangling, Assignments
    <2> QED BY <1>1, <1>2, <2>1, <2>3 DEF Owns
  <1>5. Trees'
    BY <1>4, TreesShrink DEF Objects
  <1>6. Referred'
    <2>1. [NoCount EXCEPT !["pin"] = 1] # NoCount
      BY DEF NoCount, Kinds
    <2> QED BY <1>1, <1>2, <2>1 DEF Objects, Referred, Mapped
  <1>7. Unbuilt' /\ Indexed'
    BY <1>1, <1>2, <1>3 DEF Objects, Unbuilt, Indexed
  <1> QED BY <1>5, <1>6, <1>7 DEF Objects

-----------------------------------------------------------------------------
(* The clear that a copy waits for *)

(* While handles go and none comes, what the copy was allowed to do stays  *)
(* allowed.                                                                *)
LEMMA StoringStays ==
    ASSUME IInv, IInv', Shrinks, StoringKeepsTrees(dst, want),
           pc = "clear", dst # NoSlot, dst' = dst, want' = want,
           \A i \in Index : in_memory'[i] \in {in_memory[i], NoNode}
    PROVE  StoringKeepsTrees(dst, want)'
  <1>1. PICK h \in Handle : h = want /\ h # Null
    BY DEF IInv, TypeOK, Control, Null
  <1>2. h.index \in Index /\ Mapped(h.index) /\ Mapped(h.index)'
    <2>1. NoDangling /\ NoDangling'
      BY IInvNoDangling, PTL
    <2> QED BY <1>1, <2>1, HandleCases DEF NoDangling
  <1>3. PICK q \in Nodes : q = in_memory[h.index] /\ in_memory'[h.index] = q
    BY <1>2 DEF IInv, TypeOK, Mapped
  <1>4. ASSUME NEW n \in Nodes, NEW f \in Fields, dst = <<n, f>>
        PROVE  ~ LeadsTo(q, n)'
    BY <1>1, <1>3, <1>4, LeadsToShrinks DEF StoringKeepsTrees
  <1> QED BY <1>1, <1>3, <1>4 DEF StoringKeepsTrees

LEMMA AccessibleUnchanged ==
    ASSUME NEW q, Accessible(q), handle' = handle,
           \A n \in Nodes : status[n] = "live" => status'[n] = "live" /\ index'[n] = index[n]
    PROVE  Accessible(q)'
  BY DEF Accessible

(* A turn of the clear that destroys no handle. *)
LEMMA TurnKeepsSInv ==
    ASSUME IInv, IInv', SInv, pc = "clear", pc' = "clear",
           UNCHANGED <<in_memory, count, handle, dst, want>>,
           \A n \in Nodes :
              /\ status'[n] \in {"none", "new"} =>
                    status[n] \in {"none", "new"} \/ \A f \in Fields : handle[<<n, f>>] = Null
              /\ status'[n] = "live" <=> status[n] = "live"
              /\ status[n] = "live" => index'[n] = index[n]
    PROVE  SInv'
  <1>1. Objects' /\ Shrinks
    BY ObjectsStay DEF SInv
  <1>2. Storing'
    <2> SUFFICES ASSUME dst # NoSlot
                 PROVE  Accessible(dst)' /\ StoringKeepsTrees(dst, want)'
      BY DEF Storing
    <2>1. Accessible(dst) /\ StoringKeepsTrees(dst, want)
      BY DEF SInv, Storing
    <2> PICK d : d = dst
      OBVIOUS
    <2>2. Accessible(d)'
      BY <2>1, AccessibleUnchanged
    <2>3. StoringKeepsTrees(dst, want)'
      BY <1>1, <2>1, StoringStays
    <2> QED BY <2>2, <2>3
  <1>3. Closing' /\ NeverAborts'
    BY DEF SInv, Closing, NeverAborts
  <1> QED BY <1>1, <1>2, <1>3 DEF SInv

LEMMA DestroyFieldKeepsSInv ==
    ASSUME IInv, IInv', SInv, NEW n \in Nodes, NEW f \in Fields, DestroyField(n, f)
    PROVE  SInv'
  <1>1. /\ pc = "clear" /\ pc' = "clear" /\ dst' = dst /\ want' = want
        /\ Drop(handle[<<n, f>>]) /\ index' = index
        /\ handle' = [handle EXCEPT ![<<n, f>>] = Null]
        /\ <<n, f>> \in Slots /\ <<n, f>> \notin Locals
    BY SlotsAssumption DEF DestroyField, call, Slots
  <1>2. Objects' /\ Shrinks
    BY <1>1, DropObjects DEF SInv
  <1>3. /\ TypeOK /\ RegistryMatches /\ Unmapped /\ Counted(count, handle)
        /\ handle \in Assignments /\ in_memory \in [Index -> Nodes \cup {NoNode}]
    BY CountsMatchCounted DEF IInv, TypeOK, Assignments
  <1>4. Storing'
    <2> SUFFICES ASSUME dst # NoSlot
                 PROVE  Accessible(dst)' /\ StoringKeepsTrees(dst, want)'
      BY <1>1 DEF Storing
    <2>1. Accessible(dst) /\ StoringKeepsTrees(dst, want)
      BY <1>1 DEF SInv, Storing
    <2> PICK d : d = dst
      OBVIOUS
    <2>2. handle[<<n, f>>].kind # "pin"
      BY DEF IInv, FieldsAreRefs
    <2>3. Accessible(d)'
      BY <1>1, <1>3, <2>1, <2>2, AccessibleStays
    <2>4. \A i \in Index : in_memory'[i] \in {in_memory[i], NoNode}
      BY <1>1, <1>3 DEF Drop, registry
    <2>5. StoringKeepsTrees(dst, want)'
      BY <1>1, <1>2, <2>1, <2>4, StoringStays
    <2> QED BY <1>1, <2>3, <2>5
  <1>5. Closing'
    <2>1. \A l \in Locals : handle[l] = Null => handle'[l] = Null
      BY <1>1, <1>3 DEF Slots, Assignments
    <2> QED BY <1>1, <2>1 DEF SInv, Closing
  <1> QED BY <1>1, <1>2, <1>4, <1>5 DEF SInv, NeverAborts

(* The clear begins. *)
LEMMA CopyKeepsSInv ==
    ASSUME IInv, IInv', SInv, NEW s \in Slots, NEW d \in Slots, NEW k \in Kinds, Copy(s, d, k)
    PROVE  SInv'
  <1>1. /\ pc' = "clear" /\ dst' = d /\ want' = [kind |-> k, index |-> handle[s].index]
        /\ Drop(handle[d]) /\ index' = index
        /\ handle' = [handle EXCEPT ![d] = Null]
        /\ Accessible(d) /\ StoringKeepsTrees(d, handle[s])
        /\ handle[d].kind # "pin" /\ d # NoSlot /\ handle[s] # Null
    <2>1. handle[s].kind \in {"pin", "ref", "weak"} /\ k \in {"ref", "weak"}
      BY DEF Copy
    <2>2. handle[s] # Null
      BY <2>1 DEF Null
    <2>3. handle[d].kind # "pin"
      BY <2>1 DEF Copy, Fits
    <2>4. d # NoSlot
      BY SlotsAssumption
    <2> QED BY <2>2, <2>3, <2>4 DEF Copy
  <1>2. Objects' /\ Shrinks
    BY <1>1, DropObjects DEF SInv
  <1>3. /\ TypeOK /\ RegistryMatches /\ Unmapped /\ Counted(count, handle)
        /\ handle \in Assignments /\ in_memory \in [Index -> Nodes \cup {NoNode}]
    BY CountsMatchCounted DEF IInv, TypeOK, Assignments
  <1>4. Accessible(d)'
    BY <1>1, <1>3, AccessibleStays
  <1>5. StoringKeepsTrees(d, want)'
    <2>1. PICK i \in Index : i = handle[s].index
      BY <1>1, <1>3, HandleCases DEF Assignments
    <2>2. Mapped(i) /\ want' # Null /\ want'.index = i
      BY <1>1, <2>1, IInvNoDangling, IndexAssumption DEF NoDangling, Null, Kinds
    <2>3. Mapped(i)'
      <3>1. NoDangling'
        BY IInvNoDangling, PTL
      <3> QED BY <2>2, <3>1 DEF NoDangling
    <2>4. PICK q \in Nodes : q = in_memory[i] /\ in_memory'[i] = q
      <3>1. in_memory'[i] \in {in_memory[i], NoNode}
        BY <1>1, <1>3 DEF Drop, registry
      <3> QED BY <1>3, <2>2, <2>3, <3>1 DEF Mapped
    <2>5. ASSUME NEW n \in Nodes, NEW f \in Fields, d = <<n, f>>
          PROVE  ~ LeadsTo(q, n)'
      BY <1>1, <1>2, <2>1, <2>4, <2>5, LeadsToShrinks DEF StoringKeepsTrees
    <2> QED BY <2>2, <2>4, <2>5 DEF StoringKeepsTrees
  <1>6. Storing'
    BY <1>1, <1>4, <1>5 DEF Storing
  <1> QED BY <1>1, <1>2, <1>6 DEF SInv, Closing, NeverAborts

-----------------------------------------------------------------------------

(* When the clear of the shutdown is over there is no entry: the objects   *)
(* of entries would be a set in which each is held by one of the set.      *)
LEMMA NothingIsLeft ==
    ASSUME IInv, SInv, Cleared, dst = NoSlot
    PROVE  \A i \in Index : ~ Mapped(i)
  <1> DEFINE S == {n \in Nodes : status[n] = "live"}
  <1>1. /\ handle \in Assignments /\ Counted(count, handle) /\ RegistryMatches
        /\ in_memory \in [Index -> Nodes \cup {NoNode}] /\ count \in [Index -> [Kinds -> Nat]]
        /\ status \in [Nodes -> {"none", "new", "live", "listed", "batch", "dying"}]
    BY CountsMatchCounted DEF IInv, TypeOK, Assignments
  <1>2. ASSUME NEW n \in S
        PROVE  \E m \in S : Owns(m, n)
    <2>1. PICK i \in Index : i = index[n] /\ in_memory[i] = n /\ Mapped(i)
      BY <1>1, NodesAssumption DEF SInv, Objects, Indexed, RegistryMatches, Mapped
    <2>2. PICK k \in Kinds : count[i][k] # 0
      BY <1>1, <2>1 DEF SInv, Objects, Referred, NoCount
    <2>3. PICK s \in Slots : handle[s] = [kind |-> k, index |-> i]
      <3>1. Cnt(handle, [kind |-> k, index |-> i]) # 0
        BY <1>1, <2>2 DEF Counted
      <3>2. {s \in Slots : handle[s] = [kind |-> k, index |-> i]} # {}
        BY <3>1, FS_EmptySet DEF Cnt
      <3> QED BY <3>2
    <2>4. handle[s] # Null
      BY <2>3 DEF Null, Kinds
    <2>5. PICK m \in Nodes, f \in Fields : s = <<m, f>>
      BY <2>4 DEF SInv, Closing, Cleared, Slots
    <2>6. status[m] \notin {"none", "new"}
      BY <2>4, <2>5 DEF SInv, Objects, Unbuilt
    <2>7. m \in S
      BY <1>1, <2>6 DEF Cleared, In
    <2>8. Owns(m, n)
      BY <2>1, <2>3, <2>4, <2>5 DEF Owns
    <2> QED BY <2>7, <2>8
  <1>3. S = {}
    BY <1>2 DEF SInv, Objects, Trees
  <1> QED BY <1>1, <1>3 DEF RegistryMatches, Mapped

LEMMA NextSInv == IInv /\ IInv' /\ SInv /\ [Next]_vars => SInv'
  <1> SUFFICES ASSUME IInv, IInv', SInv, [Next]_vars PROVE SInv'
    OBVIOUS
  <1>0. /\ status \in [Nodes -> {"none", "new", "live", "listed", "batch", "dying"}]
        /\ index \in [Nodes -> Index \cup {MaxIndex}] /\ handle \in Assignments
    BY DEF IInv, TypeOK, Assignments
  <1>1. ASSUME NEW s \in Slots, Release(s) PROVE SInv'
    <2>1. Objects'
      BY <1>1, DropObjects DEF Release, SInv
    <2> QED BY <1>1, <2>1 DEF Release, SInv, Closing, Storing, NeverAborts
  <1>2. ASSUME NEW s \in Slots, NEW d \in Slots, Move(s, d) PROVE SInv'
    <2>1. Objects'
      BY <1>2, MoveObjects DEF SInv
    <2> QED BY <1>2, <2>1 DEF Move, SInv, Closing, Storing, NeverAborts
  <1>3. ASSUME NEW s \in Slots, NEW d \in Slots, Pin(s, d) PROVE SInv'
    <2> DEFINE x == [kind |-> "pin", index |-> handle[s].index]
    <2>1. handle[s] # Null /\ handle[s] \in Handle
      BY <1>0, <1>3 DEF Pin, Null, Assignments
    <2>2. handle[s].index \in Index /\ Mapped(handle[s].index)
      BY <2>1, HandleCases, IInvNoDangling DEF NoDangling
    <2>3. x \in Handle /\ x # Null /\ x.index = handle[s].index /\ x.kind = "pin"
      BY <2>2 DEF Handle, Null, Kinds
    <2>4. Accessible(d) /\ StoringKeepsTrees(d, x)
      BY <1>3, SlotsAssumption DEF Pin, Accessible, StoringKeepsTrees
    <2>5. /\ count' = [count EXCEPT ![x.index][x.kind] = @ + 1]
          /\ handle' = [handle EXCEPT ![d] = x]
          /\ in_memory' = in_memory /\ status' = status /\ index' = index
      BY <1>3 DEF Pin
    <2> HIDE DEF x
    <2>6. Objects'
      BY <2>2, <2>3, <2>4, <2>5, PutObjects DEF SInv
    <2> QED BY <1>3, <2>6 DEF Pin, SInv, Closing, Storing, NeverAborts
  <1>4. ASSUME NEW s \in Slots, NEW d \in Slots, NEW k \in Kinds, Copy(s, d, k) PROVE SInv'
    BY <1>4, CopyKeepsSInv
  <1>5. ASSUME NEW n \in Nodes, NEW d \in Locals, Make(n, d) PROVE SInv'
    <2>1. Objects'
      BY <1>0, <1>5, ObjectsStay DEF Make, SInv
    <2> QED BY <1>5, <2>1 DEF Make, SInv, Closing, Storing, NeverAborts
  <1>6. CASE Shutdown
    <2>1. Objects'
      BY <1>6, ObjectsStay DEF Shutdown, registry, SInv
    <2>2. dst = NoSlot
      BY <1>6 DEF Shutdown, IInv, Control
    <2> QED BY <1>6, <2>1, <2>2 DEF Shutdown, call, SInv, Closing, Storing, NeverAborts
  <1>7. CASE TakeList
    <2>1. \A n \in Nodes : /\ status'[n] \in {"none", "new"} => status[n] \in {"none", "new"}
                           /\ status'[n] = "live" <=> status[n] = "live"
      BY <1>0, <1>7 DEF TakeList
    <2> QED BY <1>7, <2>1, TurnKeepsSInv DEF TakeList, call
  <1>8. ASSUME NEW n \in Nodes, StartDealloc(n) PROVE SInv'
    <2>1. \A m \in Nodes : /\ status'[m] \in {"none", "new"} => status[m] \in {"none", "new"}
                           /\ status'[m] = "live" <=> status[m] = "live"
      BY <1>0, <1>8 DEF StartDealloc
    <2> QED BY <1>8, <2>1, TurnKeepsSInv DEF StartDealloc, call
  <1>9. ASSUME NEW n \in Nodes, FinishDealloc(n) PROVE SInv'
    <2>1. \A m \in Nodes :
              /\ status'[m] \in {"none", "new"} =>
                    status[m] \in {"none", "new"} \/ \A f \in Fields : handle[<<m, f>>] = Null
              /\ status'[m] = "live" <=> status[m] = "live"
              /\ status[m] = "live" => index'[m] = index[m]
      BY <1>0, <1>9 DEF FinishDealloc
    <2> QED BY <1>9, <2>1, TurnKeepsSInv DEF FinishDealloc, call
  <1>10. ASSUME NEW n \in Nodes, NEW f \in Fields, DestroyField(n, f) PROVE SInv'
    BY <1>10, DestroyFieldKeepsSInv
  <1>11. CASE FinishCopy
    <2>1. /\ dst \in Slots /\ Accessible(dst) /\ StoringKeepsTrees(dst, want)
          /\ want \in Handle /\ want # Null
      BY <1>11 DEF FinishCopy, Cleared, SInv, Storing, IInv, TypeOK, Control, Null
    <2>2. Mapped(want.index)
      BY <2>1, IInvNoDangling DEF NoDangling
    <2>3. Objects'
      BY <1>11, <2>1, <2>2, PutObjects DEF FinishCopy, SInv
    <2> QED BY <1>11, <2>3 DEF FinishCopy, SInv, Closing, Storing, NeverAborts
  <1>12. CASE FinishShutdown
    <2>1. Objects'
      BY <1>12, ObjectsStay DEF FinishShutdown, registry, SInv
    <2>2. \A i \in Index : ~ Mapped(i)
      BY <1>12, NothingIsLeft DEF FinishShutdown
    <2> QED BY <1>12, <2>1, <2>2 DEF FinishShutdown, SInv, Closing, Storing, NeverAborts
  <1>13. CASE ProbeNext
    <2>1. Objects'
      BY <1>13, ObjectsStay DEF ProbeNext, registry, SInv
    <2> QED BY <1>13, <2>1 DEF ProbeNext, SInv, Closing, Storing, NeverAborts
  <1>14. ASSUME NEW n \in Nodes, MapNode(n) PROVE SInv'
    <2>1. Objects'
      BY <1>14, MapNodeObjects DEF SInv
    <2> QED BY <1>14, <2>1 DEF MapNode, SInv, Closing, Storing, NeverAborts
  <1>15. ASSUME NEW n \in Nodes, MapFails(n) \/ NoIndex(n) PROVE SInv'
    <2>1. Objects'
      BY <1>0, <1>15, ObjectsStay DEF MapFails, NoIndex, SInv
    <2> QED BY <1>15, <2>1 DEF MapFails, NoIndex, SInv, Closing, Storing, NeverAborts
  <1>16. CASE UNCHANGED vars
    <2>1. Objects'
      BY <1>16, ObjectsStay DEF vars, SInv
    <2> QED BY <1>16, <2>1
            DEF vars, SInv, Closing, Storing, NeverAborts, Accessible, StoringKeepsTrees, LeadsTo, Owns
  <1> QED BY <1>1, <1>2, <1>3, <1>4, <1>5, <1>6, <1>7, <1>8, <1>9, <1>10, <1>11, <1>12, <1>13,
             <1>14, <1>15, <1>16, Zenon DEF Next, Clear, Alloc, Terminated

LEMMA InitSInv == Init => SInv
  <1> SUFFICES ASSUME Init PROVE SInv
    OBVIOUS
  <1>1. \A m, n \in Nodes : ~ Owns(m, n)
    BY DEF Init, Owns, Slots
  <1>2. Objects
    BY <1>1 DEF Init, Objects, Trees, Referred, Unbuilt, Indexed, Mapped, Slots
  <1> QED BY <1>2 DEF Init, SInv, Closing, Storing, NeverAborts

(* ~Global finds the registry empty: clearing the list brings down whole   *)
(* trees, and no entry is left when the program's own handles are gone.    *)
THEOREM ShutdownCompletes == Spec => []NeverAborts
  <1>1. SInv => NeverAborts
    BY DEF SInv
  <1> QED BY <1>1, InitIInv, NextIInv, InitSInv, NextSInv, PTL DEF Spec

-----------------------------------------------------------------------------
(* The registry implements NodeLifetime: counters kept under an index that *)
(* is given again do what handles on objects would do.                     *)

(* An object is registered as long as a handle points to it. *)
LEMMA LiveIsHeld == IInv /\ SInv => \A n \in Nodes : status[n] = "live" <=> Lifetime!Held(n)
  <1> SUFFICES ASSUME IInv, SInv, NEW n \in Nodes
               PROVE  status[n] = "live" <=> \E s \in Slots : Points[s] = n
    BY DEF Lifetime!Held
  <1>1. /\ handle \in Assignments /\ Counted(count, handle) /\ RegistryMatches
        /\ count \in [Index -> [Kinds -> Nat]] /\ NoNode \notin Nodes
    BY CountsMatchCounted, NodesAssumption DEF IInv, TypeOK, Assignments
  <1>2. ASSUME NEW s \in Slots, Points[s] = n PROVE status[n] = "live"
    <2>1. handle[s] # Null /\ in_memory[handle[s].index] = n
      BY <1>1, <1>2 DEF Points
    <2>2. handle[s].index \in Index
      BY <1>1, <2>1, HandleCases DEF Assignments
    <2> QED BY <1>1, <2>1, <2>2 DEF RegistryMatches
  <1>3. ASSUME status[n] = "live" PROVE \E s \in Slots : Points[s] = n
    <2>1. PICK i \in Index : i = index[n]
      BY <1>3 DEF SInv, Objects, Indexed
    <2>2. in_memory[i] = n /\ Mapped(i)
      BY <1>1, <1>3, <2>1 DEF RegistryMatches, Mapped
    <2>3. PICK k \in Kinds : count[i][k] # 0
      <3>1. count[i] # NoCount
        BY <2>1, <2>2 DEF SInv, Objects, Referred
      <3> QED BY <1>1, <3>1 DEF NoCount
    <2>4. PICK s \in Slots : handle[s] = [kind |-> k, index |-> i]
      <3>1. Cnt(handle, [kind |-> k, index |-> i]) # 0
        BY <1>1, <2>3 DEF Counted
      <3> QED BY <3>1, FS_EmptySet DEF Cnt
    <2>5. handle[s] # Null /\ handle[s].index = i
      BY <2>4 DEF Null, Kinds
    <2> QED BY <2>2, <2>5 DEF Points
  <1> QED BY <1>2, <1>3

LEMMA PointsDomain ==
    /\ DOMAIN Points = Slots /\ Points = [s \in Slots |-> Points[s]]
    /\ DOMAIN Points' = Slots /\ Points' = [s \in Slots |-> Points'[s]]
  BY DEF Points

(* What a handle that nothing touches points to does not change. *)
LEMMA PointsStay ==
    ASSUME IInv, IInv', NEW s \in Slots, handle'[s] = handle[s],
           \A i \in Index : Mapped(i) => in_memory'[i] \in {in_memory[i], NoNode}
    PROVE  Points'[s] = Points[s]
  <1>1. handle \in Assignments
    BY DEF IInv, TypeOK, Assignments
  <1>2. NoDangling /\ NoDangling'
    <2>1. NoDangling'
      BY IInvNoDangling, PTL
    <2> QED BY <2>1, IInvNoDangling
  <1>3. CASE handle[s] = Null
    BY <1>3 DEF Points
  <1>4. CASE handle[s] # Null
    <2>1. PICK i \in Index : i = handle[s].index
      BY <1>1, <1>4, HandleCases DEF Assignments
    <2>2. Mapped(i) /\ Mapped(i)'
      BY <1>2, <1>4, <2>1 DEF NoDangling
    <2>3. in_memory'[i] = in_memory[i]
      BY <2>2 DEF Mapped
    <2> QED BY <1>4, <2>1, <2>3 DEF Points
  <1> QED BY <1>3, <1>4

(* A handle designates a registered object. *)
LEMMA PointsLive ==
    ASSUME IInv, NEW s \in Slots, handle[s] # Null
    PROVE  /\ Points[s] = in_memory[handle[s].index]
           /\ Points[s] \in Nodes /\ Points[s] # NoNode
           /\ status[Points[s]] = "live"
  <1>1. handle \in Assignments /\ RegistryMatches /\ in_memory \in [Index -> Nodes \cup {NoNode}]
    BY DEF IInv, TypeOK, Assignments
  <1>2. handle[s].index \in Index /\ Mapped(handle[s].index)
    BY <1>1, HandleCases, IInvNoDangling DEF Assignments, NoDangling
  <1> QED BY <1>1, <1>2 DEF Points, Mapped, RegistryMatches

(* The step of Drop: what is listed is what has lost its last handle. *)
LEMMA DropStage ==
    ASSUME IInv, NEW s \in Slots, Drop(handle[s])
    PROVE  /\ \A i \in Index : in_memory'[i] \in {in_memory[i], NoNode}
           /\ \A n \in Nodes : status'[n] = status[n] \/ (status[n] = "live" /\ status'[n] = "listed")
           /\ DOMAIN status' = Nodes
  <1>1. /\ status \in [Nodes -> {"none", "new", "live", "listed", "batch", "dying"}]
        /\ in_memory \in [Index -> Nodes \cup {NoNode}]
    BY DEF IInv, TypeOK
  <1>2. CASE handle[s] = Null
    BY <1>1, <1>2 DEF Drop, registry
  <1>3. CASE handle[s] # Null
    <2>1. PICK m \in Nodes : m = in_memory[handle[s].index] /\ status[m] = "live"
      BY <1>3, PointsLive
    <2>2. status' \in {status, [status EXCEPT ![m] = "listed"]}
      BY <1>3, <2>1 DEF Drop
    <2>3. in_memory' \in {in_memory, [in_memory EXCEPT ![handle[s].index] = NoNode]}
      BY <1>3 DEF Drop
    <2> QED BY <1>1, <2>1, <2>2, <2>3
  <1> QED BY <1>2, <1>3

LEMMA Condemns ==
    ASSUME IInv, SInv, IInv', SInv',
           \A n \in Nodes : status'[n] = status[n] \/ (status[n] = "live" /\ status'[n] = "listed")
    PROVE  Lifetime!Condemn
  <1>1. \A n \in Nodes : status[n] = "live" <=> Lifetime!Held(n)
    BY LiveIsHeld
  <1>2. (\A n \in Nodes : status[n] = "live" <=> Lifetime!Held(n))'
    BY LiveIsHeld, PTL
  <1>3. \A n \in Nodes : status'[n] = "live" <=> Lifetime!Held(n)'
    BY <1>2
  <1>4. ASSUME NEW n \in Nodes
        PROVE  Stage'[n] = IF Stage[n] = "held" /\ ~ Lifetime!Held(n)' THEN "condemned" ELSE Stage[n]
    <2>1. status'[n] = "live" <=> Lifetime!Held(n)'
      BY <1>3
    <2>2. Stage[n] = StageOf(status[n]) /\ Stage'[n] = StageOf(status'[n])
      BY DEF Stage
    <2>3. status'[n] = status[n] \/ (status[n] = "live" /\ status'[n] = "listed")
      OBVIOUS
    <2> QED BY <2>1, <2>2, <2>3 DEF StageOf
  <1> QED BY <1>4 DEF Lifetime!Condemn, Stage

-----------------------------------------------------------------------------
(* The steps of handles *)

LEMMA Untouched ==
    ASSUME IInv, IInv', status' = status, handle' = handle,
           \A i \in Index : Mapped(i) => in_memory'[i] \in {in_memory[i], NoNode}
    PROVE  UNCHANGED Lifetime!vars
  <1>1. \A s \in Slots : Points'[s] = Points[s]
    BY PointsStay
  <1>2. Points' = Points
    BY <1>1 DEF Points
  <1> QED BY <1>2 DEF Stage, Lifetime!vars

LEMMA LetsGo ==
    ASSUME IInv, SInv, IInv', SInv', NEW s \in Slots, handle[s] # Null,
           Drop(handle[s]), handle' = [handle EXCEPT ![s] = Null]
    PROVE  Lifetime!LetGo(s)
  <1>1. handle \in Assignments
    BY DEF IInv, TypeOK, Assignments
  <1>2. \A t \in Slots : t # s => Points'[t] = Points[t]
    BY <1>1, DropStage, PointsStay DEF Assignments
  <1>3. Points'[s] = NoNode
    BY <1>1 DEF Points, Assignments
  <1>4. Points' = [Points EXCEPT ![s] = NoNode]
    BY <1>2, <1>3, PointsDomain
  <1>5. Lifetime!Condemn
    BY DropStage, Condemns
  <1> QED BY <1>4, <1>5, PointsLive DEF Lifetime!LetGo

(* A drop of nothing, or of a handle. *)
LEMMA DropsHandle ==
    ASSUME IInv, SInv, IInv', SInv', NEW s \in Slots,
           Drop(handle[s]), handle' = [handle EXCEPT ![s] = Null]
    PROVE  Lifetime!LetGo(s) \/ UNCHANGED Lifetime!vars
  <1>1. CASE handle[s] # Null
    BY <1>1, LetsGo
  <1>2. CASE handle[s] = Null
    <2>1. handle' = handle
      BY <1>2 DEF IInv, TypeOK
    <2>2. status' = status /\ in_memory' = in_memory
      BY <1>2 DEF Drop, registry
    <2> QED BY <2>1, <2>2, Untouched
  <1> QED BY <1>1, <1>2

LEMMA MoveTransfers ==
    ASSUME IInv, SInv, IInv', SInv', NEW s \in Slots, NEW d \in Slots, Move(s, d)
    PROVE  Lifetime!Transfer(s, d)
  <1>1. /\ handle \in Assignments /\ s # d /\ handle[s] # Null
        /\ Drop(handle[d]) /\ handle' = [handle EXCEPT ![d] = handle[s], ![s] = Null]
    BY DEF Move, IInv, TypeOK, Assignments
  <1>2. \A i \in Index : in_memory'[i] \in {in_memory[i], NoNode}
    BY <1>1, DropStage
  <1>3. \A t \in Slots : t # s /\ t # d => Points'[t] = Points[t]
    BY <1>1, <1>2, PointsStay DEF Assignments
  <1>4. Points'[s] = NoNode
    BY <1>1 DEF Points, Assignments
  <1>5. Points'[d] = Points[s]
    <2>1. handle'[d] = handle[s]
      BY <1>1 DEF Assignments
    <2>2. NoDangling'
      BY IInvNoDangling, PTL
    <2>3. PICK i \in Index : i = handle[s].index
      BY <1>1, HandleCases DEF Assignments
    <2>4. in_memory'[i] # NoNode
      BY <1>1, <2>1, <2>2, <2>3 DEF NoDangling, Mapped
    <2>5. in_memory'[i] = in_memory[i]
      BY <1>2, <2>4
    <2> QED BY <1>1, <2>1, <2>3, <2>5 DEF Points
  <1>6. Points' = [Points EXCEPT ![d] = Points[s], ![s] = NoNode]
    BY <1>1, <1>3, <1>4, <1>5, PointsDomain
  <1>7. Lifetime!Condemn
    BY <1>1, DropStage, Condemns
  <1> QED BY <1>1, <1>6, <1>7, PointsLive DEF Lifetime!Transfer

(* One more handle on an object that has some. *)
LEMMA PutShares ==
    ASSUME IInv, IInv', NEW d \in Slots, NEW x \in Handle, x # Null, Mapped(x.index),
           handle[d] = Null, handle' = [handle EXCEPT ![d] = x],
           in_memory' = in_memory, status' = status
    PROVE  \E n \in Nodes : Lifetime!Share(d, n)
  <1>1. /\ handle \in Assignments /\ in_memory \in [Index -> Nodes \cup {NoNode}]
        /\ RegistryMatches /\ x.index \in Index
    BY HandleCases DEF IInv, TypeOK, Assignments
  <1>2. PICK n \in Nodes : n = in_memory[x.index] /\ status[n] = "live"
    BY <1>1 DEF Mapped, RegistryMatches
  <1>3. \A t \in Slots : t # d => Points'[t] = Points[t]
    BY <1>1, PointsStay DEF Assignments
  <1>4. Points'[d] = n
    BY <1>1, <1>2 DEF Points, Assignments
  <1>5. Points' = [Points EXCEPT ![d] = n] /\ Points[d] = NoNode
    <2>1. Points[d] = NoNode
      BY DEF Points
    <2> QED BY <1>3, <1>4, <2>1, PointsDomain
  <1>6. Stage' = Stage /\ Stage[n] = "held"
    BY <1>2 DEF Stage, StageOf
  <1> QED BY <1>5, <1>6 DEF Lifetime!Share

LEMMA PinShares ==
    ASSUME IInv, IInv', NEW s \in Slots, NEW d \in Slots, Pin(s, d)
    PROVE  \E n \in Nodes : Lifetime!Share(d, n)
  <1>1. handle[s] # Null
    BY DEF Pin, Null
  <1>2. handle \in Assignments /\ handle[s].index \in Index /\ Mapped(handle[s].index)
    BY <1>1, HandleCases, IInvNoDangling DEF IInv, TypeOK, Assignments, NoDangling
  <1>3. PICK x \in Handle : x = [kind |-> "pin", index |-> handle[s].index]
    BY <1>2 DEF Handle, Kinds
  <1>4. x # Null /\ x.index = handle[s].index
    BY <1>3 DEF Null
  <1>5. handle' = [handle EXCEPT ![d] = x] /\ handle[d] = Null /\ in_memory' = in_memory /\ status' = status
    BY <1>3 DEF Pin
  <1> QED BY <1>2, <1>4, <1>5, PutShares

LEMMA FinishCopyShares ==
    ASSUME IInv, IInv', FinishCopy
    PROVE  \E n \in Nodes : Lifetime!Share(dst, n)
  <1>1. dst \in Slots /\ handle[dst] = Null /\ want \in Handle /\ want # Null
    BY DEF FinishCopy, Cleared, IInv, TypeOK, Control, Null
  <1>2. Mapped(want.index)
    BY <1>1, IInvNoDangling DEF NoDangling
  <1> QED BY <1>1, <1>2, PutShares DEF FinishCopy

-----------------------------------------------------------------------------
(* The steps of objects *)

LEMMA MapNodeHandsOut ==
    ASSUME IInv, IInv', NEW n \in Nodes, MapNode(n)
    PROVE  Lifetime!HandOut(n, dst)
  <1>1. /\ handle \in Assignments /\ in_memory \in [Index -> Nodes \cup {NoNode}]
        /\ status \in [Nodes -> {"none", "new", "live", "listed", "batch", "dying"}]
        /\ dst \in Slots /\ handle[dst] = Null
    BY DEF IInv, TypeOK, Assignments, Control, MapNode, Found, Slots
  <1>2. /\ probe \in Index /\ ~ Mapped(probe)
        /\ in_memory' = [in_memory EXCEPT ![probe] = n]
        /\ handle' = [handle EXCEPT ![dst] = [kind |-> "pin", index |-> probe]]
        /\ status[n] = "new" /\ status' = [status EXCEPT ![n] = "live"]
    BY DEF MapNode, Found, Index, IInv, TypeOK
  <1>3. \A i \in Index : Mapped(i) => in_memory'[i] \in {in_memory[i], NoNode}
    BY <1>1, <1>2 DEF Mapped
  <1>4. \A t \in Slots : t # dst => Points'[t] = Points[t]
    BY <1>1, <1>2, <1>3, PointsStay DEF Assignments
  <1>5. Points'[dst] = n
    BY <1>1, <1>2 DEF Points, Assignments, Null
  <1>6. Points' = [Points EXCEPT ![dst] = n] /\ Points[dst] = NoNode
    <2>1. Points[dst] = NoNode
      BY <1>1 DEF Points
    <2> QED BY <1>1, <1>4, <1>5, <2>1, PointsDomain
  <1>7. Stage' = [Stage EXCEPT ![n] = "held"] /\ Stage[n] = "fresh"
    BY <1>1, <1>2 DEF Stage, StageOf
  <1> QED BY <1>6, <1>7 DEF Lifetime!HandOut

(* Where handles and entries stay, the objects' status is all that changes. *)
LEMMA PointsUnchanged ==
    ASSUME handle' = handle, in_memory' = in_memory
    PROVE  Points' = Points
  BY DEF Points

LEMMA MakeConstructs ==
    ASSUME IInv, NEW n \in Nodes, NEW d \in Locals, Make(n, d)
    PROVE  Lifetime!Construct(n)
  <1>1. Points' = Points
    BY PointsUnchanged DEF Make
  <1>2. Stage[n] = "none" /\ Stage' = [Stage EXCEPT ![n] = "fresh"]
    BY DEF Make, Stage, StageOf, IInv, TypeOK
  <1> QED BY <1>1, <1>2 DEF Lifetime!Construct

LEMMA FailureAbandons ==
    ASSUME IInv, NEW n \in Nodes, MapFails(n) \/ NoIndex(n)
    PROVE  Lifetime!Abandon(n)
  <1>1. Points' = Points
    BY PointsUnchanged DEF MapFails, NoIndex
  <1>2. Stage[n] = "fresh" /\ Stage' = [Stage EXCEPT ![n] = "none"]
    BY DEF MapFails, NoIndex, Stage, StageOf, IInv, TypeOK
  <1> QED BY <1>1, <1>2 DEF Lifetime!Abandon

LEMMA FinishDeallocDestroys ==
    ASSUME IInv, NEW n \in Nodes, FinishDealloc(n)
    PROVE  Lifetime!Destroy(n)
  <1>1. Points' = Points
    BY PointsUnchanged DEF FinishDealloc
  <1>2. Stage[n] = "condemned" /\ Stage' = [Stage EXCEPT ![n] = "none"]
    BY DEF FinishDealloc, Stage, StageOf, IInv, TypeOK
  <1>3. \A s \in OwnFields[n] : Points[s] = NoNode
    BY DEF FinishDealloc, OwnFields, Points, Slots
  <1> QED BY <1>1, <1>2, <1>3 DEF Lifetime!Destroy

(* A condemned object waits, first on the list, then in a batch. *)
LEMMA WaitingStutters ==
    ASSUME IInv, TakeList \/ \E n \in Nodes : StartDealloc(n)
    PROVE  UNCHANGED Lifetime!vars
  <1>1. Points' = Points
    BY PointsUnchanged DEF TakeList, StartDealloc
  <1>2. Stage' = Stage
    BY DEF TakeList, StartDealloc, Stage, StageOf, IInv, TypeOK
  <1> QED BY <1>1, <1>2 DEF Lifetime!vars

-----------------------------------------------------------------------------

LEMMA InitLifetime ==
    ASSUME Init
    PROVE  Lifetime!Init
  BY DEF Init, Lifetime!Init, Stage, StageOf, Points

LEMMA NextLifetime ==
    IInv /\ IInv' /\ SInv /\ SInv' /\ [Next]_vars => [Lifetime!Next]_(Lifetime!vars)
  <1> SUFFICES ASSUME IInv, IInv', SInv, SInv', [Next]_vars
               PROVE  Lifetime!Next \/ UNCHANGED Lifetime!vars
    OBVIOUS
  <1> DEFINE Implements == Lifetime!Next \/ UNCHANGED Lifetime!vars
  <1>1. ASSUME NEW s \in Slots, Release(s) PROVE Implements
    BY <1>1, LetsGo DEF Release, Lifetime!Next
  <1>2. ASSUME NEW s \in Slots, NEW d \in Slots, Move(s, d) PROVE Implements
    BY <1>2, MoveTransfers DEF Lifetime!Next
  <1>3. ASSUME NEW s \in Slots, NEW d \in Slots, Pin(s, d) PROVE Implements
    BY <1>3, PinShares DEF Lifetime!Next
  <1>4. ASSUME NEW s \in Slots, NEW d \in Slots, NEW k \in Kinds, Copy(s, d, k) PROVE Implements
    BY <1>4, DropsHandle DEF Copy, Lifetime!Next
  <1>5. ASSUME NEW n \in Nodes, NEW d \in Locals, Make(n, d) PROVE Implements
    BY <1>5, MakeConstructs DEF Lifetime!Next
  <1>6. CASE Shutdown \/ FinishShutdown \/ ProbeNext \/ UNCHANGED vars
    <2>1. status' = status /\ handle' = handle /\ in_memory' = in_memory
      BY <1>6 DEF Shutdown, FinishShutdown, ProbeNext, vars, registry
    <2> QED BY <2>1, Untouched
  <1>7. CASE TakeList \/ \E n \in Nodes : StartDealloc(n)
    BY <1>7, WaitingStutters
  <1>8. ASSUME NEW n \in Nodes, FinishDealloc(n) PROVE Implements
    BY <1>8, FinishDeallocDestroys DEF Lifetime!Next
  <1>9. ASSUME NEW n \in Nodes, NEW f \in Fields, DestroyField(n, f) PROVE Implements
    <2>1. <<n, f>> \in Slots
      BY DEF Slots
    <2> QED BY <1>9, <2>1, LetsGo DEF DestroyField, Lifetime!Next
  <1>10. CASE FinishCopy
    <2>1. dst \in Slots
      BY <1>10 DEF FinishCopy, IInv, TypeOK
    <2> QED BY <1>10, <2>1, FinishCopyShares DEF Lifetime!Next
  <1>11. ASSUME NEW n \in Nodes, MapNode(n) PROVE Implements
    <2>1. dst \in Slots
      BY <1>11 DEF MapNode, Found, IInv, Control, Slots
    <2> QED BY <1>11, <2>1, MapNodeHandsOut DEF Lifetime!Next
  <1>12. ASSUME NEW n \in Nodes, MapFails(n) \/ NoIndex(n) PROVE Implements
    BY <1>12, FailureAbandons DEF Lifetime!Next
  <1> QED BY <1>1, <1>2, <1>3, <1>4, <1>5, <1>6, <1>7, <1>8, <1>9, <1>10, <1>11, <1>12, Zenon
          DEF Next, Clear, Alloc, Terminated

(* What users of the nodes rely on, without indices, counters or lists: an *)
(* object stays while a handle points to it, is condemned by the step that *)
(* takes the last one away, and is destroyed after the handles stored in it. *)
THEOREM RegistryImplementsLifetime == Spec => ImplementsLifetime
  <1>1. Init => Lifetime!Init
    BY InitLifetime
  <1> QED BY <1>1, InitIInv, NextIInv, InitSInv, NextSInv, NextLifetime, PTL
          DEF Spec, ImplementsLifetime, Lifetime!Spec

=============================================================================
