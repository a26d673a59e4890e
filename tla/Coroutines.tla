----------------------------- MODULE Coroutines -----------------------------
(***************************************************************************)
(* The coroutines by which slkc avoids deep recursion: ParseCoroutine      *)
(* (slkc/ast/parser/parser.h, parser.cc), and the same program a second    *)
(* and a third time as CompilationCoroutine (slkc/comp/env.h, env.cc) and  *)
(* GreenNodeDerecursedFnCoroutine (slkc/ast/rgtree.h, rgtree.cc).          *)
(*                                                                         *)
(* A co_await pushes the handle of the awaiting frame and then the one of  *)
(* the awaited frame on task_list; resume() of the root coroutine takes    *)
(* handles from the end of the list until it is empty.  The array may fail *)
(* to grow and a frame may fail to be allocated: failing says which of     *)
(* these happen in the behaviour at hand.                                  *)
(*                                                                         *)
(* A step of a body is one co_await or one co_return; what a body does in  *)
(* between does not concern the scheduler.                                 *)
(***************************************************************************)
EXTENDS Naturals, Sequences

CONSTANTS Frames,    \* memory for coroutine frames
          NoFrame,   \* the null handle
          Failures   \* sets of allocations that may fail: "awaiter", "callee", "frame"

ASSUME FramesAssumption == NoFrame \notin Frames
ASSUME FailuresAssumption == Failures \subseteq SUBSET {"awaiter", "callee", "frame"}

VARIABLES
    failing,    \* the allocations that may fail
    pc,         \* "start", "run" (a body runs), "loop" (in resume()), "exit"
    root,       \* the frame resume() was called on
    cur,        \* the frame whose body runs
    task_list,  \* handles, the next to be resumed last
    stage,      \* frame -> "free", "suspended" (not begun), "running", "awaiting", "done"
    callee,     \* frame -> the frame of its co_await expression
    result,     \* frame -> its promise's result: "none" or "error"
    seen,       \* what the last await_resume returned
    outcome     \* of resume(): "ok", "error", or "terminate" or "crash"

vars == <<failing, pc, root, cur, task_list, stage, callee, result, seen, outcome>>

Handles == Frames \cup {NoFrame}
Top(s) == s[Len(s)]
Pop(s) == SubSeq(s, 1, Len(s) - 1)

-----------------------------------------------------------------------------

Init ==
    /\ failing \in Failures
    /\ pc = "start"
    /\ root = NoFrame /\ cur = NoFrame
    /\ task_list = <<>>
    /\ stage = [f \in Frames |-> "free"]
    /\ callee = [f \in Frames |-> NoFrame]
    /\ result = [f \in Frames |-> "none"]
    /\ seen = "nothing"
    /\ outcome = "none"

Start(f) ==
    /\ pc = "start"
    /\ pc' = "run"
    /\ root' = f /\ cur' = f
    /\ stage' = [stage EXCEPT ![f] = "running"]
    /\ UNCHANGED <<failing, task_list, callee, result, seen, outcome>>

(* No memory for the root's frame: resume() answers with the error. *)
StartFails ==
    /\ pc = "start" /\ "frame" \in failing
    /\ pc' = "exit" /\ outcome' = "error"
    /\ UNCHANGED <<failing, root, cur, task_list, stage, callee, result, seen>>

(* The running body creates c and suspends in co_await; res is what the    *)
(* promise of c holds then.                                                *)
Suspend(c, res) ==
    /\ pc = "run"
    /\ stage[c] = "free"
    /\ pc' = "loop" /\ cur' = NoFrame
    /\ stage' = [stage EXCEPT ![cur] = "awaiting", ![c] = "suspended"]
    /\ callee' = [callee EXCEPT ![cur] = c]
    /\ result' = [result EXCEPT ![c] = res]
    /\ UNCHANGED <<failing, root, seen, outcome>>

(* Mutant of Await: the two handles in the other order. *)
AwaitCallerLast(c) ==
    /\ Suspend(c, "none")
    /\ task_list' = Append(Append(task_list, c), cur)

(* await_suspend *)
Await(c) ==
    /\ Suspend(c, "none")
    /\ task_list' = Append(Append(task_list, cur), c)

(* await_suspend: the first push_back fails *)
AwaitNotQueued(c) ==
    /\ "awaiter" \in failing
    /\ Suspend(c, "error")
    /\ UNCHANGED task_list

(* Mutant of AwaitCalleeNotQueued: the awaiting frame's handle is taken    *)
(* back with the failed one.                                               *)
AwaitUndone(c) ==
    /\ "callee" \in failing
    /\ Suspend(c, "error")
    /\ UNCHANGED task_list

(* await_suspend: the second push_back fails *)
AwaitCalleeNotQueued(c) ==
    /\ "callee" \in failing
    /\ Suspend(c, "error")
    /\ task_list' = Append(task_list, cur)

(* No memory for the awaited frame: its handle is null, and is pushed. *)
AwaitNoFrame ==
    /\ "frame" \in failing
    /\ pc = "run"
    /\ pc' = "loop" /\ cur' = NoFrame
    /\ stage' = [stage EXCEPT ![cur] = "awaiting"]
    /\ task_list' = Append(Append(task_list, cur), NoFrame)
    /\ UNCHANGED <<failing, root, callee, result, seen, outcome>>

(* co_return *)
Return(res) ==
    /\ pc = "run"
    /\ pc' = "loop" /\ cur' = NoFrame
    /\ stage' = [stage EXCEPT ![cur] = "done"]
    /\ result' = [result EXCEPT ![cur] = res]
    /\ UNCHANGED <<failing, root, task_list, callee, seen, outcome>>

Body ==
    \/ \E c \in Frames : Await(c) \/ AwaitNotQueued(c) \/ AwaitCalleeNotQueued(c)
    \/ AwaitNoFrame
    \/ \E res \in {"none", "error"} : Return(res)

-----------------------------------------------------------------------------
(* The loop of resume() *)

Answer(f) == IF result[callee[f]] = "error" THEN "error" ELSE "ok"

(* The end of the co_await expression destroys the awaited coroutine, and  *)
(* with it what is stored in its frame: the coroutine that one awaits.     *)
Destroyed(f) == {callee[f]} \cup {callee[g] : g \in {callee[f]} \ {NoFrame}}

Continue(h) ==
    /\ pc' = "run" /\ cur' = h
    /\ stage' = [f \in Frames |-> IF f = h THEN "running"
                                  ELSE IF f \in Destroyed(h) THEN "free" ELSE stage[f]]
    /\ callee' = [f \in Frames |-> IF f \in Destroyed(h) \cup {h} THEN NoFrame ELSE callee[f]]

(* Mutants of Resume: the handle stays on the list; the result of the      *)
(* awaited frame is not looked at; it is passed on as it is.               *)
ResumeKeepingTask(h) ==
    /\ pc = "loop" /\ task_list # <<>> /\ result[root] = "none"
    /\ h = Top(task_list) /\ h # NoFrame
    /\ IF stage[h] = "done"
       THEN UNCHANGED <<pc, cur, stage, callee, seen>>
       ELSE Continue(h) /\ seen' = IF stage[h] = "awaiting" THEN Answer(h) ELSE seen
    /\ UNCHANGED <<failing, root, task_list, result, outcome>>
ResumeWithoutResult(h) ==
    /\ pc = "loop" /\ task_list # <<>> /\ result[root] = "none"
    /\ h = Top(task_list) /\ h # NoFrame
    /\ IF stage[h] = "done"
       THEN UNCHANGED <<pc, cur, stage, callee, seen>>
       ELSE Continue(h) /\ seen' = IF stage[h] = "awaiting" THEN "ok" ELSE seen
    /\ task_list' = Pop(task_list)
    /\ UNCHANGED <<failing, root, result, outcome>>
ResumeWithRawResult(h) ==
    /\ pc = "loop" /\ task_list # <<>> /\ result[root] = "none"
    /\ h = Top(task_list) /\ h # NoFrame
    /\ IF stage[h] = "done"
       THEN UNCHANGED <<pc, cur, stage, callee, seen>>
       ELSE Continue(h) /\ seen' = IF stage[h] = "awaiting" THEN result[callee[h]] ELSE seen
    /\ task_list' = Pop(task_list)
    /\ UNCHANGED <<failing, root, result, outcome>>

(* Take the last handle; its frame goes on unless it is done. *)
Resume(h) ==
    /\ pc = "loop" /\ task_list # <<>> /\ result[root] = "none"
    /\ h = Top(task_list) /\ h # NoFrame
    /\ IF stage[h] = "done"
       THEN UNCHANGED <<pc, cur, stage, callee, seen>>
       ELSE Continue(h) /\ seen' = IF stage[h] = "awaiting" THEN Answer(h) ELSE seen
    /\ task_list' = Pop(task_list)
    /\ UNCHANGED <<failing, root, result, outcome>>

(* h.done() of the null handle *)
ResumeNull ==
    /\ pc = "loop" /\ task_list # <<>> /\ Top(task_list) = NoFrame
    /\ pc' = "exit" /\ outcome' = "crash"
    /\ UNCHANGED <<failing, root, cur, task_list, stage, callee, result, seen>>

Finish ==
    /\ pc = "loop"
    /\ task_list = <<>> \/ result[root] = "error"
    /\ pc' = "exit"
    /\ outcome' = IF result[root] = "error" THEN "error"
                  ELSE IF stage[root] = "done" THEN "ok" ELSE "terminate"
    /\ UNCHANGED <<failing, root, cur, task_list, stage, callee, result, seen>>

Loop == (\E h \in Frames : Resume(h)) \/ ResumeNull \/ Finish

Terminated == pc = "exit" /\ UNCHANGED vars

Next == (\E f \in Frames : Start(f)) \/ StartFails \/ Body \/ Loop \/ Terminated

Spec == Init /\ [][Next]_vars

(* resume() is called and keeps going; a body that is resumed again and    *)
(* again returns at last, as it consumes its input.                        *)
BodyReturns(f) == cur = f /\ \E res \in {"none", "error"} : Return(res)
FairSpec == /\ Spec
            /\ WF_vars(\E f \in Frames : Start(f))
            /\ WF_vars(Loop)
            /\ \A f \in Frames : SF_vars(BodyReturns(f))

-----------------------------------------------------------------------------

TypeOK ==
    /\ failing \in Failures
    /\ pc \in {"start", "run", "loop", "exit"}
    /\ root \in Handles
    /\ cur \in Handles
    /\ task_list \in Seq(Handles)
    /\ stage \in [Frames -> {"free", "suspended", "running", "awaiting", "done"}]
    /\ callee \in [Frames -> Handles]
    /\ result \in [Frames -> {"none", "error"}]
    /\ seen \in {"nothing", "ok", "error"}
    /\ outcome \in {"none", "ok", "error", "terminate", "crash"}

(* The list is the chain of calls from the root to the frame that runs or  *)
(* is to run next: each of its frames awaits the next one.                 *)
Chain == IF pc = "run" THEN Append(task_list, cur) ELSE task_list
ListIsCallChain ==
    /\ Chain # <<>> => Chain[1] = root
    /\ \A i \in 1 .. Len(Chain) - 1 :
          stage[Chain[i]] = "awaiting" /\ callee[Chain[i]] = Chain[i + 1]

(* No handle on the list, and none of a frame still to be resumed, is the  *)
(* handle of a destroyed frame, and no frame is on the list twice.         *)
NoDanglingFrame ==
    /\ \A i \in 1 .. Len(Chain) : Chain[i] # NoFrame => stage[Chain[i]] # "free"
    /\ \A i, j \in 1 .. Len(Chain) : Chain[i] = Chain[j] => i = j

(* An awaiting frame goes on only after the awaited one has returned, or   *)
(* could not be queued and answers with the out-of-memory error; unless    *)
(* awaiting frames themselves are lost.                                    *)
CalleeFirst ==
    [][\A f \in Frames :
          "awaiter" \notin failing /\ stage[f] = "awaiting" /\ stage'[f] = "running" =>
              /\ callee[f] # NoFrame
              /\ stage[callee[f]] = "done" \/ result[callee[f]] = "error"]_vars

(* When the list is empty the root is done: resume() gets to its           *)
(* std::terminate() only where an awaiting frame's handle is lost.         *)
NeverTerminates == "awaiter" \notin failing => outcome # "terminate"

(* A coroutine that runs out of memory answers with an error, as the error *)
(* its promise is given says: resume() does not terminate the program.     *)
OutOfMemoryIsAnError == outcome # "terminate"

(* resume() returns. *)
Returns == <>(pc = "exit")

(* The coroutines implement calls: a refused call is one whose frame could *)
(* not be queued, and a call whose frame could not be allocated is never   *)
(* made.  Where awaiting frames are lost nothing is claimed, which the     *)
(* mapping says by a call stack on which nothing happens.                  *)
HasAnswered(f) == stage[f] = "done" \/ (stage[f] = "suspended" /\ result[f] = "error")
StageOf(f) ==
    IF HasAnswered(f) THEN (IF result[f] = "error" THEN "error" ELSE "ok")
    ELSE IF stage[f] = "free" THEN "idle" ELSE "active"
Reliable == "awaiter" \notin failing
CalledFrames == IF Chain # <<>> /\ Top(Chain) = NoFrame THEN Pop(Chain) ELSE Chain
CallsActive == IF Reliable THEN CalledFrames ELSE <<>>
CallsStage == [f \in Frames |-> IF Reliable THEN StageOf(f) ELSE "idle"]
CallsSeen == IF Reliable THEN seen ELSE "nothing"
Calls == INSTANCE CallStack WITH
    stack <- CallsActive, stage <- CallsStage, seen <- CallsSeen
ImplementsCalls == Calls!Spec
=============================================================================
