--------------------------- MODULE AstDump_proofs ---------------------------
(***************************************************************************)
(* Theorems about AstDump, for every tree.  What has been dumped, what is  *)
(* left of the level and what waits for the next one are, one after the    *)
(* other, one sequence of nodes that only grows: the order of the dump.    *)
(* The inductive invariant says that it holds each node once, and that a   *)
(* node in it is the root or is referred to by a node dumped before.       *)
(***************************************************************************)
EXTENDS AstDump, SequenceTheorems, TLAPS

Nodes == DOMAIN children
Order == (dumped \o level) \o task_list

Idle == dump = "none" => dumped = <<>> /\ level = <<>> /\ task_list = <<>>
Lists == /\ dumped \in Seq(Nodes) /\ level \in Seq(Nodes) /\ task_list \in Seq(Nodes)
         /\ IsInjective(Order)
         /\ Range(Order) = dumped_nodes
Referred == \A n \in dumped_nodes :
                n = dump_root \/ \E m \in Range(dumped) : n \in Range(children[m])
Complete == /\ dump_root \in dumped_nodes
            /\ \A m \in Range(dumped) : Range(children[m]) \subseteq dumped_nodes
Over == dump = "done" => level = <<>> /\ task_list = <<>>

DumpInv ==
    /\ dump \in {"none", "running", "done"}
    /\ Idle /\ Over
    /\ dump # "none" => IsTree(children, dump_root) /\ Lists /\ Referred /\ Complete

-----------------------------------------------------------------------------

(* A sequence of members of S, as a function. *)
LEMMA RangeFacts ==
    ASSUME NEW S, NEW s \in Seq(S)
    PROVE  /\ Len(s) \in Nat /\ DOMAIN s = 1 .. Len(s)
           /\ Range(s) \subseteq S
           /\ \A i \in 1 .. Len(s) : s[i] \in Range(s)
           /\ \A x \in Range(s) : \E i \in 1 .. Len(s) : x = s[i]
  BY LenProperties, RangeOfSeq DEF Range

(* The concatenation of two sequences without common and repeated members  *)
(* repeats none.                                                           *)
LEMMA ConcatInjective ==
    ASSUME NEW S, NEW s \in Seq(S), NEW t \in Seq(S),
           IsInjective(s), IsInjective(t), Range(s) \cap Range(t) = {}
    PROVE  IsInjective(s \o t)
<1> DEFINE st == s \o t
<1>1. /\ st \in Seq(S) /\ Len(st) = Len(s) + Len(t)
      /\ \A i \in 1 .. Len(s) + Len(t) : st[i] = IF i <= Len(s) THEN s[i] ELSE t[i - Len(s)]
  BY ConcatProperties
<1>2. /\ Len(s) \in Nat /\ DOMAIN s = 1 .. Len(s) /\ Len(t) \in Nat /\ DOMAIN t = 1 .. Len(t)
      /\ DOMAIN st = 1 .. Len(s) + Len(t)
  BY <1>1, RangeFacts
<1> HIDE DEF st
<1>3. SUFFICES ASSUME NEW a \in 1 .. Len(s) + Len(t), NEW b \in 1 .. Len(s) + Len(t),
                      st[a] = st[b]
               PROVE  a = b
  BY <1>2 DEF IsInjective, st
<1>4. CASE a <= Len(s) /\ b <= Len(s)
  BY <1>1, <1>2, <1>3, <1>4 DEF IsInjective
<1>5. CASE a > Len(s) /\ b > Len(s)
  <2>1. a - Len(s) \in 1 .. Len(t) /\ b - Len(s) \in 1 .. Len(t)
    BY <1>2, <1>5
  <2>2. t[a - Len(s)] = t[b - Len(s)]
    BY <1>1, <1>2, <1>3, <1>5
  <2>3. a - Len(s) = b - Len(s)
    BY <1>2, <2>1, <2>2 DEF IsInjective
  <2> QED
    BY <1>2, <2>3
<1>6. ASSUME NEW i \in 1 .. Len(s), NEW j \in 1 .. Len(t)
      PROVE  s[i] # t[j]
  BY RangeFacts
<1>7. CASE a <= Len(s) /\ b > Len(s)
  <2>1. b - Len(s) \in 1 .. Len(t) /\ a \in 1 .. Len(s)
    BY <1>2, <1>7
  <2> QED
    BY <1>1, <1>2, <1>3, <1>6, <1>7, <2>1
<1>8. CASE a > Len(s) /\ b <= Len(s)
  <2>1. a - Len(s) \in 1 .. Len(t) /\ b \in 1 .. Len(s)
    BY <1>2, <1>8
  <2> QED
    BY <1>1, <1>2, <1>3, <1>6, <1>8, <2>1
<1> QED
  BY <1>2, <1>4, <1>5, <1>7, <1>8

(* What comes first in a concatenation that repeats no member repeats none. *)
LEMMA PrefixInjective ==
    ASSUME NEW S, NEW s \in Seq(S), NEW t \in Seq(S), IsInjective(s \o t)
    PROVE  IsInjective(s)
<1>1. /\ Len(s) \in Nat /\ Len(t) \in Nat /\ DOMAIN s = 1 .. Len(s)
      /\ DOMAIN (s \o t) = 1 .. Len(s) + Len(t)
      /\ \A i \in 1 .. Len(s) : (s \o t)[i] = s[i] /\ i \in 1 .. Len(s) + Len(t)
  BY ConcatProperties, RangeFacts
<1> QED
  BY <1>1 DEF IsInjective

(* A node that goes from the level to the dumped ones keeps its place. *)
LEMMA MoveHead ==
    ASSUME NEW S, NEW s \in Seq(S), NEW t \in Seq(S), t # <<>>
    PROVE  /\ Head(t) \in S /\ Tail(t) \in Seq(S) /\ Append(s, Head(t)) \in Seq(S)
           /\ Append(s, Head(t)) \o Tail(t) = s \o t
<1>1. /\ Head(t) \in S /\ Tail(t) \in Seq(S) /\ Append(s, Head(t)) \in Seq(S)
      /\ Len(Tail(t)) = Len(t) - 1 /\ Len(Append(s, Head(t))) = Len(s) + 1
      /\ \A i \in 1 .. Len(Tail(t)) : Tail(t)[i] = t[i + 1]
      /\ \A i \in 1 .. Len(s) : Append(s, Head(t))[i] = s[i]
      /\ Append(s, Head(t))[Len(s) + 1] = Head(t)
  BY HeadTailProperties, AppendProperties
<1>2. Len(s) \in Nat /\ Len(t) \in Nat /\ Len(t) > 0 /\ Head(t) = t[1]
  BY EmptySeq, LenProperties
<1> DEFINE u == Append(s, Head(t))
           v == Tail(t)
<1>3. /\ u \o v \in Seq(S) /\ s \o t \in Seq(S)
      /\ Len(u \o v) = Len(s) + Len(t) /\ Len(s \o t) = Len(s) + Len(t)
  <2>1. u \o v \in Seq(S) /\ s \o t \in Seq(S)
        /\ Len(u \o v) = Len(u) + Len(v) /\ Len(s \o t) = Len(s) + Len(t)
    BY <1>1, ConcatProperties
  <2> QED
    BY <1>1, <1>2, <2>1
<1>4. ASSUME NEW i \in 1 .. Len(s) + Len(t)
      PROVE  (u \o v)[i] = (s \o t)[i]
  <2>1. /\ (s \o t)[i] = IF i <= Len(s) THEN s[i] ELSE t[i - Len(s)]
        /\ (u \o v)[i] = IF i <= Len(u) THEN u[i] ELSE v[i - Len(u)]
    <3>1. i \in 1 .. Len(u) + Len(v)
      BY <1>1, <1>2
    <3> QED
      BY <1>1, <3>1, ConcatProperties
  <2>2. CASE i <= Len(s)
    BY <1>1, <1>2, <2>1, <2>2
  <2>3. CASE i = Len(s) + 1
    BY <1>1, <1>2, <2>1, <2>3
  <2>4. CASE i > Len(s) + 1
    <3>1. i - Len(u) \in 1 .. Len(v) /\ i - Len(u) + 1 = i - Len(s)
      BY <1>1, <1>2, <2>4
    <3> QED
      BY <1>1, <1>2, <2>1, <2>4, <3>1
  <2> QED
    BY <1>2, <2>2, <2>3, <2>4
<1>5. u \o v = s \o t
  BY <1>3, <1>4, SeqEqual
<1> QED
  BY <1>1, <1>5

(* The members of an extended sequence. *)
LEMMA AppendRange ==
    ASSUME NEW S, NEW s \in Seq(S), NEW e \in S
    PROVE  Range(Append(s, e)) = Range(s) \cup {e}
<1> DEFINE single == <<e>>
<1>1. Append(s, e) = s \o single
  BY AppendIsConcat
<1>2. single \in Seq(S) /\ Range(single) = {e}
  BY DEF Range
<1> HIDE DEF single
<1>3. Range(s \o single) = Range(s) \cup Range(single)
  BY <1>2, RangeConcatenation
<1> QED
  BY <1>1, <1>2, <1>3

-----------------------------------------------------------------------------

LEMMA InitDump == DumpInit => DumpInv
  BY DEF DumpInit, DumpInv, Idle, Over

LEMMA BeginDumpPreserves ==
    ASSUME DumpInv, NEW root \in AstNodeIndex, BeginDump(children', root), IsTree(children', root)
    PROVE  DumpInv'
<1>1. /\ dumped' = <<>> /\ level' = <<>> /\ task_list' = <<root>> /\ dumped_nodes' = {root}
      /\ dump_root' = root /\ dump' = "running"
  BY DEF BeginDump, DumpInv, Idle
<1>2. root \in Nodes'
  BY DEF IsTree, Nodes
<1>3. Order' = <<root>>
  <2>1. <<root>> \in Seq({root})
    BY <1>2
  <2>2. <<>> \o <<>> = <<>> /\ <<>> \o <<root>> = <<root>>
    BY <2>1, ConcatEmptySeq, EmptySeq
  <2> QED
    BY <1>1, <2>2 DEF Order
<1>4. Lists'
  <2>1. <<>> \in Seq(Nodes') /\ <<root>> \in Seq(Nodes')
    BY <1>2
  <2>2. IsInjective(<<root>>) /\ Range(<<root>>) = {root}
    BY DEF IsInjective, Range
  <2> QED
    BY <1>1, <1>3, <2>1, <2>2 DEF Lists
<1>5. Referred' /\ Complete'
  <2>1. Range(dumped') = {}
    BY <1>1 DEF Range
  <2> QED
    BY <1>1, <2>1 DEF Referred, Complete
<1> QED
  BY <1>1, <1>4, <1>5 DEF DumpInv, Idle, Over

LEMMA TakeLevelPreserves ==
    ASSUME DumpInv, TakeLevel
    PROVE  DumpInv'
<1>1. /\ dump = "running" /\ dump' = "running" /\ level = <<>> /\ level' = task_list /\ task_list' = <<>>
      /\ UNCHANGED <<children, dump_root, dumped_nodes, dumped>>
  BY DEF TakeLevel
<1>2. Lists /\ Referred /\ Complete /\ IsTree(children, dump_root)
  BY <1>1 DEF DumpInv
<1>3. Order' = Order
  <2>1. dumped \in Seq(Nodes) /\ task_list \in Seq(Nodes)
    BY <1>2 DEF Lists
  <2>2. dumped \o <<>> = dumped
    BY <2>1, ConcatEmptySeq
  <2>3. dumped \o task_list \in Seq(Nodes)
    BY <2>1, ConcatProperties
  <2>4. (dumped \o task_list) \o <<>> = dumped \o task_list
    BY <2>3, ConcatEmptySeq
  <2> QED
    BY <1>1, <2>2, <2>4 DEF Order
<1>4. Lists'
  BY <1>1, <1>2, <1>3, EmptySeq DEF Lists, Nodes
<1> QED
  BY <1>1, <1>2, <1>4 DEF DumpInv, Idle, Over, Referred, Complete

(* The node that is dumped pushes none that has been pushed: the root is   *)
(* referred to from nowhere, and the others from nodes dumped before it.   *)
LEMMA HeadPushable ==
    ASSUME DumpInv, dump = "running", level # <<>>
    PROVE  /\ Head(level) \in Nodes /\ Head(level) \notin Range(dumped)
           /\ children[Head(level)] \in Seq(Nodes)
           /\ Range(children[Head(level)]) \cap dumped_nodes = {}
           /\ Pushable(children[Head(level)])
<1> DEFINE h == Head(level)
           srcs == children[h]
<1>1. Lists /\ Referred /\ Complete /\ IsTree(children, dump_root)
  BY DEF DumpInv
<1>2. /\ h \in Nodes /\ Tail(level) \in Seq(Nodes) /\ Append(dumped, h) \in Seq(Nodes)
      /\ Append(dumped, h) \o Tail(level) = dumped \o level
  BY <1>1, MoveHead DEF Lists
<1>3. IsInjective(Append(dumped, h))
  <2>1. dumped \o level \in Seq(Nodes)
    BY <1>1, ConcatProperties DEF Lists
  <2>2. IsInjective(dumped \o level)
    BY <1>1, <2>1, PrefixInjective DEF Lists, Order
  <2> QED
    BY <1>2, <2>2, PrefixInjective
<1>4. h \notin Range(dumped)
  <2>1. /\ Len(dumped) \in Nat
        /\ Append(dumped, h)[Len(dumped) + 1] = h
        /\ \A i \in 1 .. Len(dumped) : Append(dumped, h)[i] = dumped[i]
        /\ DOMAIN Append(dumped, h) = 1 .. Len(dumped) + 1
    BY <1>1, <1>2, AppendProperties, RangeFacts DEF Lists
  <2>2. SUFFICES ASSUME NEW i \in 1 .. Len(dumped), h = dumped[i] PROVE FALSE
    BY <1>1, RangeFacts DEF Lists
  <2>3. i = Len(dumped) + 1
    BY <1>3, <2>1, <2>2 DEF IsInjective
  <2> QED
    BY <2>1, <2>2, <2>3
<1>5. srcs \in Seq(Nodes) /\ IsInjective(srcs) /\ dump_root \notin Range(srcs)
  BY <1>1, <1>2 DEF IsTree, Nodes
<1>6. Range(srcs) \cap dumped_nodes = {}
  <2>1. SUFFICES ASSUME NEW n \in Range(srcs), n \in dumped_nodes PROVE FALSE
    OBVIOUS
  <2>2. PICK m \in Range(dumped) : n \in Range(children[m])
    BY <1>1, <1>5, <2>1 DEF Referred
  <2>3. m \in Nodes /\ m # h
    BY <1>1, <1>4, <2>2, RangeFacts DEF Lists
  <2> QED
    BY <1>1, <1>2, <2>1, <2>2, <2>3 DEF IsTree, Nodes
<1>7. INVALID_AST_NODE_INDEX \notin Range(srcs)
  BY <1>1, <1>5, RangeFacts, IndexAssumption DEF IsTree, Nodes
<1> QED
  BY <1>2, <1>4, <1>5, <1>6, <1>7 DEF Pushable

LEMMA DumpNodePreserves ==
    ASSUME DumpInv, DumpNode
    PROVE  DumpInv'
<1> DEFINE h == Head(level)
           srcs == children[h]
<1>1. /\ dump = "running" /\ level # <<>>
      /\ task_list' = task_list \o srcs /\ dumped_nodes' = dumped_nodes \cup Range(srcs)
      /\ dump' = IF Pushable(srcs) THEN "running" ELSE "failed"
      /\ level' = Tail(level) /\ dumped' = Append(dumped, h)
      /\ UNCHANGED <<children, dump_root>>
  BY DEF DumpNode
<1>2. Lists /\ Referred /\ Complete /\ IsTree(children, dump_root)
  BY <1>1 DEF DumpInv
<1>3. /\ h \in Nodes /\ h \notin Range(dumped) /\ srcs \in Seq(Nodes)
      /\ Range(srcs) \cap dumped_nodes = {} /\ dump' = "running"
  BY <1>1, HeadPushable
<1>4. /\ Append(dumped, h) \in Seq(Nodes) /\ Tail(level) \in Seq(Nodes)
      /\ Append(dumped, h) \o Tail(level) = dumped \o level
  BY <1>1, <1>2, MoveHead DEF Lists
<1>5. dumped \o level \in Seq(Nodes) /\ Order \in Seq(Nodes)
  <2>1. dumped \o level \in Seq(Nodes)
    BY <1>2, ConcatProperties DEF Lists
  <2> QED
    BY <1>2, <2>1, ConcatProperties DEF Lists, Order
<1>6. Order' = Order \o srcs
  <2>1. (dumped \o level) \o (task_list \o srcs) = ((dumped \o level) \o task_list) \o srcs
    <3>1. \A s, u, v \in Seq(Nodes) : s \o (u \o v) = (s \o u) \o v
      BY ConcatAssociative
    <3>2. task_list \in Seq(Nodes)
      BY <1>2 DEF Lists
    <3> QED
      BY <1>3, <1>5, <3>1, <3>2, Zenon
  <2> QED
    BY <1>1, <1>4, <1>5, <2>1 DEF Order
<1>7. IsInjective(srcs)
  BY <1>2, <1>3 DEF IsTree, Nodes
<1>8. Lists'
  <2>1. IsInjective(Order \o srcs)
    BY <1>2, <1>3, <1>5, <1>7, ConcatInjective DEF Lists
  <2>2. Range(Order \o srcs) = Range(Order) \cup Range(srcs)
    BY <1>3, <1>5, RangeConcatenation
  <2>3. task_list \o srcs \in Seq(Nodes)
    BY <1>2, <1>3, ConcatProperties DEF Lists
  <2> QED
    BY <1>1, <1>2, <1>4, <1>6, <2>1, <2>2, <2>3 DEF Lists, Nodes
<1>9. Range(dumped') = Range(dumped) \cup {h}
  BY <1>1, <1>2, <1>3, AppendRange DEF Lists
<1>10. Referred' /\ Complete'
  BY <1>1, <1>2, <1>9 DEF Referred, Complete
<1> QED
  BY <1>1, <1>2, <1>3, <1>8, <1>10 DEF DumpInv, Idle, Over

LEMMA EndDumpPreserves ==
    ASSUME DumpInv, EndDump
    PROVE  DumpInv'
  BY DEF EndDump, DumpInv, Idle, Over, Lists, Order, Nodes, Referred, Complete

LEMMA StepPreserves == DumpInv /\ [DumpNext]_dumpVars => DumpInv'
<1> SUFFICES ASSUME DumpInv, [DumpNext]_dumpVars PROVE DumpInv'
  OBVIOUS
<1>1. CASE \E root \in AstNodeIndex : BeginDump(children', root) /\ IsTree(children', root)
  BY <1>1, BeginDumpPreserves
<1>2. CASE TakeLevel
  BY <1>2, TakeLevelPreserves
<1>3. CASE DumpNode
  BY <1>3, DumpNodePreserves
<1>4. CASE EndDump
  BY <1>4, EndDumpPreserves
<1>5. CASE UNCHANGED dumpVars
  BY <1>5 DEF dumpVars, DumpInv, Idle, Over, Lists, Order, Nodes, Referred, Complete
<1> QED
  BY <1>1, <1>2, <1>3, <1>4, <1>5 DEF DumpNext, DumpStep

LEMMA Invariant == DumpSpec => []DumpInv
  BY InitDump, StepPreserves, PTL DEF DumpSpec

(* No assertion of push_task fails, and no node is dumped twice, whatever  *)
(* the tree, its size and the order in which its nodes refer to others.    *)
THEOREM NodesDumpedOnce == DumpSpec => []DumpedOnce
<1>1. DumpInv => DumpedOnce
  <2> SUFFICES ASSUME DumpInv PROVE DumpedOnce
    OBVIOUS
  <2>1. CASE dump = "none"
    BY <2>1 DEF DumpInv, Idle, DumpedOnce, IsInjective
  <2>2. CASE dump # "none"
    <3>1. Lists
      BY <2>2 DEF DumpInv
    <3>2. dumped \o level \in Seq(Nodes)
      BY <3>1, ConcatProperties DEF Lists
    <3>3. IsInjective(dumped \o level)
      BY <3>1, <3>2, PrefixInjective DEF Lists, Order
    <3>4. IsInjective(dumped)
      BY <3>1, <3>3, PrefixInjective DEF Lists
    <3> QED
      BY <3>4 DEF DumpedOnce, DumpInv
  <2> QED
    BY <2>1, <2>2
<1> QED
  BY Invariant, <1>1, PTL

(* A dump that is over has left nothing out. *)
THEOREM WholeTreeDumped == DumpSpec => []DumpedAll
<1>1. DumpInv => DumpedAll
  <2> SUFFICES ASSUME DumpInv, dump = "done" PROVE DumpedAll
    BY DEF DumpedAll
  <2>1. Lists /\ Complete /\ level = <<>> /\ task_list = <<>>
    BY DEF DumpInv, Over
  <2>2. Order = dumped
    BY <2>1, ConcatEmptySeq DEF Lists, Order
  <2>3. Range(dumped) = dumped_nodes
    BY <2>1, <2>2 DEF Lists
  <2> QED
    BY <2>1, <2>3 DEF Complete, DumpedAll
<1> QED
  BY Invariant, <1>1, PTL
=============================================================================
