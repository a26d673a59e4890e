---------------------------- MODULE NodeLifetime ----------------------------
(***************************************************************************)
(* What the node registry promises its users, without indices, counters or *)
(* lists: an object that has been handed out stays as long as some handle  *)
(* points to it, is condemned by the step that takes its last handle away, *)
(* never gets a handle again, and is destroyed only after the handles      *)
(* stored in it.  NodeRegistry implements this specification.              *)
(***************************************************************************)
CONSTANTS Nodes,   \* node objects
          Slots,   \* places that hold a handle
          Own,     \* object -> the slots stored inside it
          NoNode

VARIABLES stage,   \* object -> "none", "fresh", "held", "condemned"
          points   \* slot -> the object its handle designates, or NoNode

vars == <<stage, points>>

Init == /\ stage = [n \in Nodes |-> "none"]
        /\ points = [s \in Slots |-> NoNode]

Held(n) == \E s \in Slots : points[s] = n

(* Objects that lose their last handle in this step are condemned by it. *)
Condemn == stage' = [n \in Nodes |-> IF stage[n] = "held" /\ ~ Held(n)'
                                     THEN "condemned" ELSE stage[n]]

Construct(n) == /\ stage[n] = "none"
                /\ stage' = [stage EXCEPT ![n] = "fresh"]
                /\ UNCHANGED points

Abandon(n) == /\ stage[n] = "fresh"
              /\ stage' = [stage EXCEPT ![n] = "none"]
              /\ UNCHANGED points

HandOut(n, s) == /\ stage[n] = "fresh" /\ points[s] = NoNode
                 /\ stage' = [stage EXCEPT ![n] = "held"]
                 /\ points' = [points EXCEPT ![s] = n]

Share(s, n) == /\ stage[n] = "held" /\ points[s] = NoNode
               /\ points' = [points EXCEPT ![s] = n]
               /\ UNCHANGED stage

LetGo(s) == /\ points[s] # NoNode
            /\ points' = [points EXCEPT ![s] = NoNode]
            /\ Condemn

Transfer(s, d) == /\ s # d /\ points[s] # NoNode
                  /\ points' = [points EXCEPT ![d] = points[s], ![s] = NoNode]
                  /\ Condemn

Destroy(n) == /\ stage[n] = "condemned"
              /\ \A s \in Own[n] : points[s] = NoNode
              /\ stage' = [stage EXCEPT ![n] = "none"]
              /\ UNCHANGED points

Next == \/ \E n \in Nodes : Construct(n) \/ Abandon(n) \/ Destroy(n)
        \/ \E s \in Slots : LetGo(s) \/ \E n \in Nodes : HandOut(n, s) \/ Share(s, n)
        \/ \E s, d \in Slots : Transfer(s, d)

Spec == Init /\ [][Next]_vars
=============================================================================
