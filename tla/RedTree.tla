------------------------------ MODULE RedTree ------------------------------
(***************************************************************************)
(* The tree that the lowering walks (slkc/ast/rgtree.cc): green nodes with *)
(* the widths of their text, and the red nodes over them, which know where *)
(* their text begins and whose child they are (place, the parent_index of  *)
(* a red node and of the nodes it is in).  A red node's children are built *)
(* in their order, each from the one before it.                            *)
(***************************************************************************)
EXTENDS TokenCursor

(* The sequence of what Op makes of the elements of s. *)
Each(Op(_), s) == FoldLeft(LAMBDA r, e : Append(r, Op(e)), <<>>, s)

RECURSIVE TreeOf(_, _), Measured(_), Red(_, _, _)

(* The green tree that a parser has filled, each node with its children. *)
TreeOf(nodes, n) ==
    [node |-> n.node,
     kids |-> Each(LAMBDA k : IF IsToken(k) THEN k ELSE TreeOf(nodes, nodes[k.child]), n.kids)]
Tree(r) == TreeOf(r.nodes, Filled(r))

TextWidth(x) == IF IsToken(x) THEN x.width ELSE x.text_width

(* compute_green_node_text_width_deep, forced: no width is kept. *)
Measured(x) ==
    IF IsToken(x) THEN x
    ELSE LET kids == Each(Measured, x.kids)
         IN [node |-> x.node, kids |-> kids,
             text_width |-> FoldLeft(LAMBDA w, k : w + TextWidth(k), 0, kids)]

(* Mutant of ChildOffset: the width is added to the parent's offset. *)
ChildOffsetFromParent(offset, before) ==
    IF before = <<>> THEN offset ELSE offset + TextWidth(Last(before).green)

(* build_child, with the parent's offset and the children built before *)
ChildOffset(offset, before) ==
    IF before = <<>> THEN offset ELSE Last(before).offset + TextWidth(Last(before).green)

(* build_children, in all nodes of a tree *)
Red(x, offset, place) ==
    [green |-> x, offset |-> offset, place |-> place,
     children |-> IF IsToken(x) THEN <<>>
                  ELSE FoldLeft(LAMBDA s, k :
                           Append(s, Red(k, ChildOffset(offset, s), Append(place, Len(s)))),
                           <<>>, x.kids)]

(* Mutant of RedRoot: the root is a child. *)
RedRootAsChild(tree) == Red(tree, 0, <<0>>)

(* build_red_root_node *)
RedRoot(tree) == Red(tree, 0, <<>>)
=============================================================================
