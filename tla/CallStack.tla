----------------------------- MODULE CallStack -----------------------------
(***************************************************************************)
(* What the coroutines of slkc promise the functions written with them:    *)
(* "co_await f(...)" is a call.  The callee runs at once, on top of its    *)
(* caller; the caller goes on only when the callee has answered, and what  *)
(* it is given is the callee's answer.  Coroutines implements this.        *)
(***************************************************************************)
EXTENDS Naturals, Sequences

CONSTANT Frames   \* activations of functions

VARIABLES stack,  \* the active calls, innermost last
          stage,  \* frame -> "idle", "active", or its answer: "ok" or "error"
          seen    \* the answer that the last caller to go on was given

vars == <<stack, stage, seen>>

Answers == {"ok", "error"}
NoAnswer == \A f \in Frames : stage[f] \notin Answers

Init == /\ stack = <<>>
        /\ stage = [f \in Frames |-> "idle"]
        /\ seen = "nothing"

Call(f) == /\ NoAnswer /\ stage[f] = "idle"
           /\ stack' = Append(stack, f)
           /\ stage' = [stage EXCEPT ![f] = "active"]
           /\ UNCHANGED seen

(* A call that cannot be made answers with an error. *)
Refuse(f) == /\ NoAnswer /\ stage[f] = "idle" /\ stack # <<>>
             /\ stage' = [stage EXCEPT ![f] = "error"]
             /\ UNCHANGED <<stack, seen>>

Return(a) == /\ NoAnswer /\ stack # <<>>
             /\ stack' = SubSeq(stack, 1, Len(stack) - 1)
             /\ stage' = [stage EXCEPT ![stack[Len(stack)]] = a]
             /\ UNCHANGED seen

GoOn(f) == /\ stage[f] \in Answers /\ stack # <<>>
           /\ seen' = stage[f]
           /\ stage' = [stage EXCEPT ![f] = "idle"]
           /\ UNCHANGED stack

Next == \/ \E f \in Frames : Call(f) \/ Refuse(f) \/ GoOn(f)
        \/ \E a \in Answers : Return(a)

Spec == Init /\ [][Next]_vars
=============================================================================
