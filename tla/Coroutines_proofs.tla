-------------------------- MODULE Coroutines_proofs --------------------------
(***************************************************************************)
(* Theorems about Coroutines, for any set of frames.  The inductive        *)
(* invariant describes the list as a call stack: who awaits whom, what the *)
(* last frame is about to be told, and what became of every other frame.   *)
(* From the same invariant, Coroutines implements CallStack.               *)
(***************************************************************************)
EXTENDS Coroutines, SequenceTheorems, TLAPS

Live == pc \in {"run", "loop"}
Last == Chain[Len(Chain)]

Fresh == pc = "start" =>
    /\ task_list = <<>>
    /\ \A f \in Frames : stage[f] = "free" /\ callee[f] = NoFrame /\ result[f] = "none"
Distinct == \A i, j \in 1 .. Len(Chain) : Chain[i] = Chain[j] => i = j
OnChain == \A i \in 1 .. Len(Chain) : Chain[i] \in Frames =>
    stage[Chain[i]] \in {"suspended", "running", "awaiting"} /\ result[Chain[i]] = "none"
OnlyLastNull == \A i \in 1 .. Len(Chain) : Chain[i] = NoFrame => i = Len(Chain) /\ pc = "loop"
Running == pc = "run" => cur \in Frames /\ stage[cur] = "running" /\ callee[cur] = NoFrame
Answered(f) == /\ callee[f] \in Frames
               /\ \A i \in 1 .. Len(Chain) : Chain[i] # callee[f]
               /\ \/ stage[callee[f]] = "done"
                  \/ stage[callee[f]] = "suspended" /\ result[callee[f]] = "error"
NextUp == pc = "loop" /\ Chain # <<>> /\ Last \in Frames =>
    \/ stage[Last] = "suspended"
    \/ stage[Last] = "awaiting" /\ Answered(Last)
RootDone == pc = "loop" /\ Chain = <<>> => stage[root] = "done"
OffChain == \A f \in Frames : (\A i \in 1 .. Len(Chain) : Chain[i] # f) =>
    \/ stage[f] = "free"
    \/ pc = "loop" /\ Chain = <<>> /\ f = root
    \/ pc = "loop" /\ Chain # <<>> /\ Last \in Frames /\ stage[Last] = "awaiting" /\ callee[Last] = f
NotCalling == \A f \in Frames : stage[f] \in {"free", "suspended", "done"} => callee[f] = NoFrame

Shape == /\ root \in Frames
         /\ ListIsCallChain /\ Distinct /\ OnChain /\ OnlyLastNull
         /\ Running /\ NextUp /\ RootDone /\ OffChain /\ NotCalling

(* The shape is claimed where the awaiting frame's handle can always be    *)
(* queued.                                                                 *)
NoAwaiterFailure == "awaiter" \notin failing
Sound == Fresh /\ (Live => Shape) /\ outcome # "terminate"
IInv == TypeOK /\ (NoAwaiterFailure => Sound)

-----------------------------------------------------------------------------

LEMMA PushFacts ==
    ASSUME NEW s \in Seq(Handles), NEW e \in Handles
    PROVE  /\ Append(s, e) \in Seq(Handles)
           /\ Len(Append(s, e)) = Len(s) + 1
           /\ \A i \in 1 .. Len(s) : Append(s, e)[i] = s[i]
           /\ Append(s, e)[Len(s) + 1] = e
           /\ Append(s, e) # <<>>
           /\ Len(s) \in Nat
  BY AppendProperties, LenProperties

LEMMA PopFacts ==
    ASSUME NEW s \in Seq(Handles), s # <<>>
    PROVE  /\ Pop(s) \in Seq(Handles)
           /\ Top(s) \in Handles
           /\ Len(s) \in Nat /\ Len(s) > 0
           /\ Len(Pop(s)) = Len(s) - 1
           /\ \A i \in 1 .. Len(s) - 1 : Pop(s)[i] = s[i]
           /\ Append(Pop(s), Top(s)) = s
<1>1. Len(s) \in Nat /\ Len(s) > 0
  BY LenProperties, EmptySeq
<1>2. Top(s) \in Handles
  BY <1>1, ElementOfSeq DEF Top
<1>3. Pop(s) \in Seq(Handles) /\ Len(Pop(s)) = Len(s) - 1
      /\ \A i \in 1 .. Len(s) - 1 : Pop(s)[i] = s[i]
  <2>1. \A i \in 1 .. Len(s) - 1 : s[i] \in Handles
    BY <1>1, ElementOfSeq
  <2>2. /\ SubSeq(s, 1, Len(s) - 1) \in Seq(Handles)
        /\ Len(SubSeq(s, 1, Len(s) - 1)) = IF 1 <= Len(s) - 1 THEN Len(s) - 1 - 1 + 1 ELSE 0
        /\ \A i \in 1 .. Len(s) - 1 - 1 + 1 : SubSeq(s, 1, Len(s) - 1)[i] = s[1 + i - 1]
    BY <1>1, <2>1, SubSeqProperties
  <2>3. Len(Pop(s)) = Len(s) - 1
    <3>1. \A n \in Nat : n > 0 => n - 1 - 1 + 1 = n - 1 /\ (~ 1 <= n - 1 => n - 1 = 0)
      OBVIOUS
    <3> QED
      BY <1>1, <2>2, <3>1 DEF Pop
  <2>4. ASSUME NEW i \in 1 .. Len(s) - 1
        PROVE  Pop(s)[i] = s[i]
    <3>1. i \in 1 .. Len(s) - 1 - 1 + 1 /\ 1 + i - 1 = i
      BY <1>1
    <3> QED
      BY <2>2, <3>1 DEF Pop
  <2> QED
    BY <2>2, <2>3, <2>4 DEF Pop
<1>4. Append(Pop(s), Top(s)) = s
  <2>1. /\ Append(Pop(s), Top(s)) \in Seq(Handles)
        /\ Len(Append(Pop(s), Top(s))) = Len(s)
        /\ \A i \in 1 .. Len(s) : Append(Pop(s), Top(s))[i] = s[i]
    <3>1. Len(Append(Pop(s), Top(s))) = Len(s) - 1 + 1
      BY <1>2, <1>3, PushFacts
    <3>2. \A i \in 1 .. Len(s) - 1 : Append(Pop(s), Top(s))[i] = s[i]
      BY <1>1, <1>2, <1>3, PushFacts
    <3>3. Append(Pop(s), Top(s))[Len(s)] = s[Len(s)]
      BY <1>1, <1>2, <1>3, PushFacts DEF Top
    <3> QED
      BY <1>1, <1>2, <1>3, <3>1, <3>2, <3>3, PushFacts
  <2> QED
    BY <2>1, SeqEqual
<1> QED
  BY <1>1, <1>2, <1>3, <1>4

LEMMA ChainIsSeq ==
    ASSUME TypeOK
    PROVE  Chain \in Seq(Handles) /\ Len(Chain) \in Nat
<1>1. CASE pc = "run"
  BY <1>1, PushFacts DEF TypeOK, Chain
<1>2. CASE pc # "run"
  BY <1>2, LenProperties DEF TypeOK, Chain
<1> QED
  BY <1>1, <1>2

(* What happens to the chain in the steps that change it. *)
LEMMA ChainWhenRunning ==
    ASSUME TypeOK, pc = "run", cur \in Frames
    PROVE  /\ Chain \in Seq(Handles) /\ Len(Chain) \in Nat /\ Len(Chain) > 0
           /\ Chain # <<>>
           /\ Chain = Append(task_list, cur)
           /\ Last = cur
           /\ Len(task_list) = Len(Chain) - 1
           /\ \A i \in 1 .. Len(Chain) - 1 : task_list[i] = Chain[i]
<1>1. task_list \in Seq(Handles) /\ cur \in Handles
  BY DEF TypeOK, Handles
<1>2. Chain = Append(task_list, cur)
  BY DEF Chain
<1> QED
  BY <1>1, <1>2, PushFacts DEF Last

(* The chain grows by a handle: a frame that is called, or the null handle. *)
LEMMA Push ==
    ASSUME TypeOK, pc = "run", cur \in Frames, NEW e \in Handles,
           pc' = "loop", task_list' = Append(Append(task_list, cur), e)
    PROVE  /\ Chain' = Append(Chain, e)
           /\ Len(Chain') = Len(Chain) + 1
           /\ \A i \in 1 .. Len(Chain) : Chain'[i] = Chain[i]
           /\ Chain'[Len(Chain')] = e
           /\ Chain' # <<>>
<1>1. Chain' = Append(Chain, e)
  BY DEF Chain
<1> QED
  BY <1>1, ChainIsSeq, PushFacts

-----------------------------------------------------------------------------

(* The types are inductive by themselves. *)
LEMMA TypeStep ==
    ASSUME TypeOK, [Next]_vars
    PROVE  TypeOK'
<1>1. /\ task_list \in Seq(Handles) /\ cur \in Handles /\ NoFrame \in Handles
      /\ Frames \subseteq Handles
  BY DEF TypeOK, Handles
<1>2. ASSUME NEW a \in Handles, NEW b \in Handles
      PROVE  /\ Append(task_list, a) \in Seq(Handles)
             /\ Append(Append(task_list, a), b) \in Seq(Handles)
  BY <1>1, PushFacts
<1>3. ASSUME NEW c \in Frames, NEW res \in {"none", "error"}, Suspend(c, res)
      PROVE  /\ pc' = "loop" /\ cur' \in Handles /\ root' \in Handles
             /\ stage' \in [Frames -> {"free", "suspended", "running", "awaiting", "done"}]
             /\ callee' \in [Frames -> Handles]
             /\ result' \in [Frames -> {"none", "error"}]
             /\ seen' = seen /\ outcome' = outcome /\ failing' = failing
  BY <1>1, <1>3 DEF Suspend, TypeOK
<1>4. CASE \E f \in Frames : Start(f)
  BY <1>1, <1>4 DEF Start, TypeOK
<1>5. CASE StartFails
  BY <1>5 DEF StartFails, TypeOK
<1>6. CASE \E c \in Frames : Await(c)
  BY <1>1, <1>2, <1>3, <1>6 DEF Await, TypeOK
<1>7. CASE \E c \in Frames : AwaitNotQueued(c)
  BY <1>1, <1>3, <1>7 DEF AwaitNotQueued, TypeOK
<1>8. CASE \E c \in Frames : AwaitCalleeNotQueued(c)
  BY <1>1, <1>2, <1>3, <1>8 DEF AwaitCalleeNotQueued, TypeOK
<1>9. CASE AwaitNoFrame
  BY <1>1, <1>2, <1>9 DEF AwaitNoFrame, TypeOK
<1>10. CASE \E res \in {"none", "error"} : Return(res)
  BY <1>1, <1>10 DEF Return, TypeOK
<1>11. CASE \E h \in Frames : Resume(h)
  <2>1. PICK h \in Frames : Resume(h)
    BY <1>11
  <2>2. task_list' \in Seq(Handles)
    BY <1>1, <2>1, PopFacts DEF Resume
  <2>3. CASE stage[h] = "done"
    BY <2>1, <2>2, <2>3 DEF Resume, TypeOK
  <2>4. CASE stage[h] # "done"
    <3>1. Continue(h) /\ seen' \in {seen, "ok", "error"}
      BY <2>1, <2>4 DEF Resume, Answer
    <3>2. stage' \in [Frames -> {"free", "suspended", "running", "awaiting", "done"}]
      BY <3>1 DEF Continue, TypeOK
    <3>3. callee' \in [Frames -> Handles]
      BY <1>1, <3>1 DEF Continue, TypeOK
    <3> QED
      BY <1>1, <2>1, <2>2, <3>1, <3>2, <3>3 DEF Resume, Continue, TypeOK
  <2> QED
    BY <2>3, <2>4
<1>12. CASE ResumeNull
  BY <1>12 DEF ResumeNull, TypeOK
<1>13. CASE Finish
  BY <1>13 DEF Finish, TypeOK
<1>14. CASE UNCHANGED vars
  BY <1>14 DEF vars, TypeOK
<1> QED
  BY <1>4, <1>5, <1>6, <1>7, <1>8, <1>9, <1>10, <1>11, <1>12, <1>13, <1>14
     DEF Next, Body, Loop, Terminated

(* The variables keep their types, whatever fails. *)
THEOREM CoroutinesTyped == Spec => []TypeOK
<1>1. Init => TypeOK
  BY EmptySeq DEF Init, TypeOK, Handles
<1>2. TypeOK /\ [Next]_vars => TypeOK'
  BY TypeStep
<1> QED
  BY <1>1, <1>2, PTL DEF Spec

-----------------------------------------------------------------------------
(* One lemma for each kind of step that goes on running coroutines. *)

LEMMA StartShape ==
    ASSUME TypeOK, Fresh, NEW f \in Frames, Start(f)
    PROVE  Shape'
<1>1. Chain' = Append(<<>>, f) /\ f \in Handles /\ <<>> \in Seq(Handles)
  BY EmptySeq DEF Start, Fresh, Chain, Handles
<1>2. Len(Chain') = 1 /\ Chain'[1] = f /\ Chain' # <<>>
  BY <1>1, PushFacts, EmptySeq
<1>3. /\ root' = f /\ cur' = f /\ pc' = "run" /\ callee' = callee /\ result' = result
      /\ stage' = [stage EXCEPT ![f] = "running"]
      /\ \A g \in Frames : stage[g] = "free" /\ callee[g] = NoFrame /\ result[g] = "none"
  BY DEF Start, Fresh
<1>4. ListIsCallChain' /\ Distinct'
  BY <1>2, <1>3 DEF ListIsCallChain, Distinct
<1>5. OnChain' /\ OnlyLastNull' /\ Running'
  BY <1>2, <1>3, FramesAssumption DEF OnChain, OnlyLastNull, Running, TypeOK
<1>6. NextUp' /\ RootDone'
  BY <1>3 DEF NextUp, RootDone
<1>7. OffChain' /\ NotCalling'
  BY <1>2, <1>3 DEF OffChain, NotCalling, TypeOK
<1> QED
  BY <1>3, <1>4, <1>5, <1>6, <1>7 DEF Shape

(* A call: the callee's handle, or the null handle, is put on the list. *)
LEMMA CallShape ==
    ASSUME TypeOK, pc = "run", Shape, NEW e \in Handles,
           pc' = "loop", root' = root,
           task_list' = Append(Append(task_list, cur), e),
           \/ e \in Frames /\ Suspend(e, "none")
           \/ /\ e = NoFrame /\ callee' = callee /\ result' = result
              /\ stage' = [stage EXCEPT ![cur] = "awaiting"]
    PROVE  Shape'
<1>1. /\ root \in Frames /\ cur \in Frames /\ stage[cur] = "running" /\ callee[cur] = NoFrame
      /\ ListIsCallChain /\ Distinct /\ OnChain /\ OnlyLastNull /\ OffChain /\ NotCalling
  BY DEF Shape, Running
<1>2. /\ Len(Chain) \in Nat /\ Len(Chain) > 0 /\ Chain # <<>>
      /\ Chain[Len(Chain)] = cur
  BY <1>1, ChainWhenRunning DEF Last
<1>3. /\ Len(Chain') = Len(Chain) + 1 /\ Chain' # <<>>
      /\ \A i \in 1 .. Len(Chain) : Chain'[i] = Chain[i]
      /\ Chain'[Len(Chain')] = e
  BY <1>1, Push
<1>4. /\ stage'[cur] = "awaiting" /\ callee'[cur] = e
      /\ \A g \in Frames : g # cur /\ g # e =>
            stage'[g] = stage[g] /\ callee'[g] = callee[g] /\ result'[g] = result[g]
      /\ result'[cur] = result[cur]
      /\ e \in Frames => /\ stage[e] = "free" /\ stage'[e] = "suspended"
                         /\ callee'[e] = NoFrame /\ result'[e] = "none"
  BY <1>1, FramesAssumption DEF Suspend, TypeOK, NotCalling
<1>5. \A i \in 1 .. Len(Chain) : Chain[i] # e /\ Chain[i] \in Frames
  <2>1. Chain \in Seq(Handles)
    BY ChainIsSeq
  <2>2. \A i \in 1 .. Len(Chain) : Chain[i] \in Frames
    BY <1>1, <1>2, <2>1, ElementOfSeq DEF OnlyLastNull, Handles
  <2> QED
    BY <1>1, <1>4, <2>2, FramesAssumption DEF OnChain, Handles
<1>6. \A i \in 1 .. Len(Chain) - 1 : Chain[i] # cur
  BY <1>1, <1>2 DEF Distinct
<1>7. ListIsCallChain'
  <2>1. Chain'[1] = root'
    BY <1>1, <1>2, <1>3 DEF ListIsCallChain
  <2>2. ASSUME NEW i \in 1 .. Len(Chain') - 1
        PROVE  stage'[Chain'[i]] = "awaiting" /\ callee'[Chain'[i]] = Chain'[i + 1]
    <3>1. CASE i = Len(Chain)
      BY <1>2, <1>3, <1>4, <3>1
    <3>2. CASE i # Len(Chain)
      <4>1. i \in 1 .. Len(Chain) - 1 /\ i + 1 \in 1 .. Len(Chain) /\ i \in 1 .. Len(Chain)
        BY <1>2, <1>3, <3>2
      <4> QED
        BY <1>1, <1>3, <1>4, <1>5, <1>6, <4>1 DEF ListIsCallChain
    <3> QED
      BY <3>1, <3>2
  <2> QED
    BY <2>1, <2>2 DEF ListIsCallChain
<1>8. Distinct'
  BY <1>1, <1>2, <1>3, <1>5 DEF Distinct
<1>9. OnChain'
  <2>1. ASSUME NEW i \in 1 .. Len(Chain'), Chain'[i] \in Frames
        PROVE  /\ stage'[Chain'[i]] \in {"suspended", "running", "awaiting"}
               /\ result'[Chain'[i]] = "none"
    <3>1. CASE i = Len(Chain')
      BY <1>3, <1>4, <2>1, <3>1
    <3>2. CASE i # Len(Chain')
      <4>1. i \in 1 .. Len(Chain) /\ Chain'[i] = Chain[i]
        BY <1>2, <1>3, <3>2
      <4> QED
        BY <1>1, <1>4, <1>5, <4>1 DEF OnChain
    <3> QED
      BY <3>1, <3>2
  <2> QED
    BY <2>1 DEF OnChain
<1>10. OnlyLastNull'
  BY <1>2, <1>3, <1>5, FramesAssumption DEF OnlyLastNull
<1>11. Running' /\ NextUp' /\ RootDone'
  BY <1>3, <1>4 DEF Running, NextUp, RootDone, Last
<1>12. OffChain'
  <2>1. ASSUME NEW f \in Frames, \A i \in 1 .. Len(Chain') : Chain'[i] # f
        PROVE  stage'[f] = "free"
    <3>1. f # e /\ \A i \in 1 .. Len(Chain) : Chain[i] # f
      BY <1>2, <1>3, <2>1
    <3>2. f # cur
      BY <1>2, <3>1
    <3>3. stage[f] = "free"
      BY <1>1, <3>1 DEF OffChain
    <3> QED
      BY <1>4, <3>1, <3>2, <3>3
  <2> QED
    BY <2>1 DEF OffChain
<1>13. NotCalling'
  BY <1>1, <1>4 DEF NotCalling
<1> QED
  BY <1>1, <1>7, <1>8, <1>9, <1>10, <1>11, <1>12, <1>13 DEF Shape

(* The awaited frame cannot be queued: the chain stays, its last frame     *)
(* will be told of the error.                                              *)
LEMMA RefusalShape ==
    ASSUME TypeOK, pc = "run", Shape, NEW c \in Frames, AwaitCalleeNotQueued(c)
    PROVE  Shape'
<1>1. /\ root \in Frames /\ cur \in Frames /\ stage[cur] = "running" /\ callee[cur] = NoFrame
      /\ ListIsCallChain /\ Distinct /\ OnChain /\ OnlyLastNull /\ OffChain /\ NotCalling
  BY DEF Shape, Running
<1>2. /\ Len(Chain) \in Nat /\ Len(Chain) > 0 /\ Chain # <<>>
      /\ Chain[Len(Chain)] = cur
  BY <1>1, ChainWhenRunning DEF Last
<1>3. Chain' = Chain /\ pc' = "loop" /\ root' = root
  BY DEF AwaitCalleeNotQueued, Suspend, Chain
<1>4. /\ stage'[cur] = "awaiting" /\ callee'[cur] = c /\ result'[cur] = result[cur]
      /\ c # cur /\ stage[c] = "free"
      /\ stage'[c] = "suspended" /\ callee'[c] = NoFrame /\ result'[c] = "error"
      /\ \A g \in Frames : g # cur /\ g # c =>
            stage'[g] = stage[g] /\ callee'[g] = callee[g] /\ result'[g] = result[g]
  BY <1>1 DEF AwaitCalleeNotQueued, Suspend, TypeOK, NotCalling
<1>5. \A i \in 1 .. Len(Chain) : Chain[i] # c
  BY <1>1, <1>4 DEF OnChain
<1>6. \A i \in 1 .. Len(Chain) - 1 : Chain[i] # cur /\ Chain[i] \in Frames
  <2>1. \A i \in 1 .. Len(Chain) : Chain[i] \in Handles
    BY ChainIsSeq, ElementOfSeq
  <2> QED
    BY <1>1, <1>2, <2>1 DEF Distinct, OnlyLastNull, Handles
<1>7. ListIsCallChain'
  BY <1>1, <1>2, <1>3, <1>4, <1>5, <1>6 DEF ListIsCallChain
<1>8. Distinct' /\ OnlyLastNull' /\ Running' /\ RootDone'
  BY <1>1, <1>2, <1>3 DEF Distinct, OnlyLastNull, Running, RootDone
<1>9. OnChain'
  BY <1>1, <1>3, <1>4, <1>5 DEF OnChain
<1>10. NextUp'
  BY <1>2, <1>3, <1>4, <1>5 DEF NextUp, Last, Answered
<1>11. OffChain'
  BY <1>1, <1>2, <1>3, <1>4 DEF OffChain, Last
<1>12. NotCalling'
  BY <1>1, <1>4 DEF NotCalling
<1> QED
  BY <1>1, <1>3, <1>7, <1>8, <1>9, <1>10, <1>11, <1>12 DEF Shape

(* A return: the frame below on the chain is the one that awaits it. *)
LEMMA ReturnShape ==
    ASSUME TypeOK, pc = "run", Shape, NEW res \in {"none", "error"}, Return(res)
    PROVE  Shape'
<1>1. /\ root \in Frames /\ cur \in Frames /\ stage[cur] = "running" /\ callee[cur] = NoFrame
      /\ ListIsCallChain /\ Distinct /\ OnChain /\ OnlyLastNull /\ OffChain /\ NotCalling
  BY DEF Shape, Running
<1>2. /\ Len(Chain) \in Nat /\ Len(Chain) > 0 /\ Chain # <<>>
      /\ Chain[Len(Chain)] = cur
  BY <1>1, ChainWhenRunning DEF Last
<1>3. /\ Chain' = task_list /\ Len(Chain') = Len(Chain) - 1 /\ Len(Chain') \in Nat
      /\ \A i \in 1 .. Len(Chain') : Chain'[i] = Chain[i]
      /\ Chain' = <<>> <=> Len(Chain') = 0
  <2>1. Chain' = task_list /\ task_list \in Seq(Handles)
    BY DEF Return, Chain, TypeOK
  <2> QED
    BY <1>1, <1>2, <2>1, ChainWhenRunning, EmptySeq, LenProperties
<1>4. pc' = "loop" /\ root' = root /\ callee' = callee
  BY DEF Return
<1>5. /\ stage'[cur] = "done"
      /\ \A g \in Frames : g # cur => stage'[g] = stage[g] /\ result'[g] = result[g]
  BY <1>1 DEF Return, TypeOK
<1>6. \A i \in 1 .. Len(Chain') : Chain'[i] # cur /\ Chain'[i] \in Frames
  <2>1. \A i \in 1 .. Len(Chain) : Chain[i] \in Handles
    BY ChainIsSeq, ElementOfSeq
  <2> QED
    BY <1>1, <1>2, <1>3, <2>1 DEF Distinct, OnlyLastNull, Handles
<1>7. ListIsCallChain'
  BY <1>1, <1>2, <1>3, <1>4, <1>5, <1>6 DEF ListIsCallChain
<1>8. Distinct' /\ OnlyLastNull' /\ Running'
  BY <1>1, <1>2, <1>3, <1>4, <1>6, FramesAssumption DEF Distinct, OnlyLastNull, Running
<1>9. OnChain'
  BY <1>1, <1>2, <1>3, <1>5, <1>6 DEF OnChain
<1>10. Chain' = <<>> => cur = root'
  <2>1. Chain[1] = root
    BY <1>1, <1>2 DEF ListIsCallChain
  <2>2. Chain' = <<>> => Len(Chain) = 1
    BY <1>2, <1>3
  <2> QED
    BY <1>2, <1>4, <2>1, <2>2
<1>11. Chain' # <<>> => stage'[Last'] = "awaiting" /\ callee'[Last'] = cur
  <2>1. SUFFICES ASSUME Chain' # <<>>
                 PROVE  stage'[Chain'[Len(Chain')]] = "awaiting"
                        /\ callee'[Chain'[Len(Chain')]] = cur
    BY DEF Last
  <2>2. /\ Len(Chain) - 1 \in 1 .. Len(Chain') /\ Len(Chain) - 1 \in 1 .. Len(Chain) - 1
        /\ Len(Chain) - 1 + 1 = Len(Chain)
    BY <1>2, <1>3, <2>1
  <2>3. stage[Chain[Len(Chain) - 1]] = "awaiting" /\ callee[Chain[Len(Chain) - 1]] = cur
    BY <1>1, <1>2, <2>2 DEF ListIsCallChain
  <2> QED
    BY <1>3, <1>4, <1>5, <1>6, <2>2, <2>3
<1>12. NextUp'
  BY <1>1, <1>4, <1>5, <1>6, <1>11 DEF NextUp, Answered
<1>13. OffChain'
  <2>1. ASSUME NEW f \in Frames, f # cur, \A i \in 1 .. Len(Chain') : Chain'[i] # f
        PROVE  stage'[f] = "free"
    <3>1. \A i \in 1 .. Len(Chain) : Chain[i] # f
      BY <1>2, <1>3, <2>1
    <3> QED
      BY <1>1, <1>5, <2>1, <3>1 DEF OffChain
  <2>2. \/ Chain' = <<>> /\ cur = root'
        \/ Chain' # <<>> /\ Last' \in Frames /\ stage'[Last'] = "awaiting" /\ callee'[Last'] = cur
    <3>1. Chain' # <<>> => Last' \in Frames
      BY <1>3, <1>6 DEF Last
    <3> QED
      BY <1>10, <1>11, <3>1
  <2> QED
    BY <1>4, <2>1, <2>2 DEF OffChain
<1>14. NotCalling' /\ RootDone'
  BY <1>1, <1>4, <1>5, <1>10 DEF NotCalling, RootDone
<1> QED
  BY <1>1, <1>4, <1>7, <1>8, <1>9, <1>12, <1>13, <1>14 DEF Shape

(* The last frame goes on: it is not done, and what it destroys is what it *)
(* awaited.                                                                *)
LEMMA ResumeFacts ==
    ASSUME TypeOK, pc = "loop", Shape, NEW h \in Frames, Resume(h)
    PROVE  /\ Chain' = Chain /\ Chain # <<>> /\ h = Last
           /\ pc' = "run" /\ cur' = h /\ root' = root /\ result' = result
           /\ stage'[h] = "running" /\ callee'[h] = NoFrame
           /\ \A g \in Frames : g # h /\ g # callee[h] =>
                stage'[g] = stage[g] /\ callee'[g] = callee[g]
           /\ callee[h] \in Frames =>
                /\ stage'[callee[h]] = "free" /\ callee'[callee[h]] = NoFrame
                /\ stage[h] = "awaiting" /\ Answered(h)
           /\ stage[h] = "awaiting" => Answered(h)
           /\ Continue(h)
<1>1. /\ Chain = task_list /\ Chain # <<>> /\ h = Last
      /\ Chain \in Seq(Handles) /\ Len(Chain) \in Nat /\ Len(Chain) > 0
      /\ Append(Pop(Chain), h) = Chain
  <2>1. Chain = task_list /\ Chain # <<>> /\ h = Last /\ h = Top(Chain)
    BY DEF Resume, Chain, Last, Top
  <2> QED
    BY <2>1, ChainIsSeq, PopFacts
<1>2. stage[h] \in {"suspended", "running", "awaiting"}
  BY <1>1 DEF Shape, OnChain, Last
<1>3. Continue(h) /\ task_list' = Pop(Chain) /\ root' = root /\ result' = result
  BY <1>1, <1>2 DEF Resume
<1>4. Chain' = Chain
  BY <1>1, <1>3 DEF Continue, Chain
<1>5. \/ stage[h] = "suspended" /\ callee[h] = NoFrame
      \/ stage[h] = "awaiting" /\ Answered(h)
  BY <1>1, <1>2 DEF Shape, NextUp, NotCalling
<1>6. callee[h] \in Frames => callee[callee[h]] = NoFrame
  BY <1>5, FramesAssumption DEF Shape, Answered, NotCalling
<1>7. \A g \in Frames : g \in Destroyed(h) <=> g = callee[h]
  <2>1. Destroyed(h) \subseteq {callee[h], NoFrame}
    BY <1>5, <1>6 DEF Destroyed, TypeOK, Handles
  <2> QED
    BY <2>1, FramesAssumption DEF Destroyed
<1>8. callee[h] # h
  <2>1. Len(Chain) \in 1 .. Len(Chain) /\ Chain[Len(Chain)] = h
    BY <1>1 DEF Last
  <2> QED
    BY <1>5, <2>1, FramesAssumption DEF Answered
<1>9. /\ pc' = "run" /\ cur' = h
      /\ stage'[h] = "running" /\ callee'[h] = NoFrame
      /\ \A g \in Frames : g # h /\ g # callee[h] =>
                stage'[g] = stage[g] /\ callee'[g] = callee[g]
      /\ callee[h] \in Frames => stage'[callee[h]] = "free" /\ callee'[callee[h]] = NoFrame
  BY <1>3, <1>7, <1>8 DEF Continue
<1>10. callee[h] \in Frames => stage[h] = "awaiting" /\ Answered(h)
  BY <1>5, FramesAssumption
<1> QED
  BY <1>1, <1>3, <1>4, <1>5, <1>9, <1>10

LEMMA ResumeShape ==
    ASSUME TypeOK, pc = "loop", Shape, NEW h \in Frames, Resume(h)
    PROVE  Shape'
<1>1. /\ root \in Frames
      /\ ListIsCallChain /\ Distinct /\ OnChain /\ OnlyLastNull /\ OffChain /\ NotCalling
  BY DEF Shape
<1>2. /\ Len(Chain) \in Nat /\ Len(Chain) > 0 /\ Chain[Len(Chain)] = h
  BY ResumeFacts, ChainIsSeq, EmptySeq, LenProperties DEF Last
<1>3. /\ Chain' = Chain /\ Chain # <<>> /\ h = Last
      /\ pc' = "run" /\ cur' = h /\ root' = root /\ result' = result
      /\ stage'[h] = "running" /\ callee'[h] = NoFrame
      /\ \A g \in Frames : g # h /\ g # callee[h] =>
            stage'[g] = stage[g] /\ callee'[g] = callee[g]
      /\ callee[h] \in Frames => stage'[callee[h]] = "free" /\ callee'[callee[h]] = NoFrame
  BY ResumeFacts
<1>4. \A i \in 1 .. Len(Chain) : Chain[i] \in Frames /\ Chain[i] # callee[h]
  <2>1. \A i \in 1 .. Len(Chain) : Chain[i] \in Handles
    BY ChainIsSeq, ElementOfSeq
  <2>2. \A i \in 1 .. Len(Chain) : Chain[i] \in Frames
    BY <1>1, <1>2, <2>1, FramesAssumption DEF OnlyLastNull, Handles
  <2>3. CASE callee[h] \in Frames
    <3>1. Answered(h)
      BY <2>3, ResumeFacts
    <3> QED
      BY <2>2, <3>1 DEF Answered
  <2>4. CASE callee[h] \notin Frames
    BY <2>2, <2>4
  <2> QED
    BY <2>3, <2>4
<1>5. \A i \in 1 .. Len(Chain) - 1 : Chain[i] # h
  BY <1>1, <1>2 DEF Distinct
<1>6. ListIsCallChain'
  BY <1>1, <1>2, <1>3, <1>4, <1>5 DEF ListIsCallChain
<1>7. OnlyLastNull'
  BY <1>2, <1>3, <1>4, FramesAssumption DEF OnlyLastNull
<1>8. Distinct' /\ Running' /\ RootDone' /\ NextUp'
  BY <1>1, <1>3 DEF Distinct, Running, RootDone, NextUp
<1>9. OnChain'
  BY <1>1, <1>3, <1>4 DEF OnChain
<1>10. OffChain'
  <2>1. ASSUME NEW f \in Frames, \A i \in 1 .. Len(Chain) : Chain[i] # f
        PROVE  stage'[f] = "free"
    <3>1. f # h
      BY <1>2, <2>1
    <3>2. stage[f] = "free" \/ f = callee[h]
      BY <1>1, <1>3, <2>1 DEF OffChain
    <3> QED
      BY <1>3, <3>1, <3>2
  <2> QED
    BY <1>3, <2>1 DEF OffChain
<1>11. NotCalling'
  BY <1>1, <1>3 DEF NotCalling
<1> QED
  BY <1>1, <1>3, <1>6, <1>7, <1>8, <1>9, <1>10, <1>11 DEF Shape

-----------------------------------------------------------------------------

LEMMA FailingStays ==
    ASSUME [Next]_vars
    PROVE  failing' = failing
  BY DEF Next, Start, StartFails, Body, Await, AwaitNotQueued, AwaitCalleeNotQueued, Suspend,
         AwaitNoFrame, Return, Loop, Resume, ResumeNull, Finish, Terminated, vars

LEMMA Inductive == (Init => IInv) /\ (IInv /\ [Next]_vars => IInv')
<1>1. ASSUME Init
      PROVE  IInv
  <2>1. TypeOK
    BY <1>1, EmptySeq DEF Init, TypeOK, Handles
  <2>2. Fresh /\ ~ Live /\ outcome # "terminate"
    BY <1>1 DEF Init, Fresh, Live
  <2> QED
    BY <2>1, <2>2 DEF IInv, Sound
<1>2. ASSUME IInv, [Next]_vars, NoAwaiterFailure'
      PROVE  Sound'
  <2>0. NoAwaiterFailure
    BY <1>2, FailingStays DEF NoAwaiterFailure
  <2>1. TypeOK /\ TypeOK' /\ Fresh /\ (Live => Shape) /\ outcome # "terminate"
    BY <1>2, <2>0, TypeStep DEF IInv, Sound
  <2>2. CASE \E f \in Frames : Start(f)
    <3>1. Shape'
      BY <2>1, <2>2, StartShape
    <3> QED
      BY <2>1, <2>2, <3>1 DEF Sound, Start, Fresh, Live
  <2>3. CASE StartFails
    BY <2>1, <2>3 DEF StartFails, Sound, Fresh, Live
  <2>4. CASE \E c \in Frames : Await(c)
    <3>1. PICK c \in Frames : Await(c)
      BY <2>4
    <3>2. /\ pc = "run" /\ pc' = "loop" /\ root' = root /\ outcome' = outcome
          /\ task_list' = Append(Append(task_list, cur), c)
          /\ Suspend(c, "none") /\ c \in Handles /\ Shape
      BY <2>1, <3>1 DEF Await, Suspend, Handles, Live
    <3>3. Shape'
      BY <2>1, <3>2, CallShape
    <3> QED
      BY <2>1, <3>2, <3>3 DEF Sound, Fresh, Live
  <2>5. CASE \E c \in Frames : AwaitNotQueued(c)
    BY <2>0, <2>5 DEF AwaitNotQueued, NoAwaiterFailure
  <2>6. CASE \E c \in Frames : AwaitCalleeNotQueued(c)
    <3>1. PICK c \in Frames : AwaitCalleeNotQueued(c)
      BY <2>6
    <3>2. pc = "run" /\ pc' = "loop" /\ outcome' = outcome /\ Shape
      BY <2>1, <3>1 DEF AwaitCalleeNotQueued, Suspend, Live
    <3>3. Shape'
      BY <2>1, <3>1, <3>2, RefusalShape
    <3> QED
      BY <2>1, <3>2, <3>3 DEF Sound, Fresh, Live
  <2>7. CASE AwaitNoFrame
    <3>1. /\ pc = "run" /\ pc' = "loop" /\ root' = root /\ outcome' = outcome
          /\ task_list' = Append(Append(task_list, cur), NoFrame)
          /\ callee' = callee /\ result' = result
          /\ stage' = [stage EXCEPT ![cur] = "awaiting"]
          /\ NoFrame \in Handles /\ Shape
      BY <2>1, <2>7 DEF AwaitNoFrame, Handles, Live
    <3>2. Shape'
      BY <2>1, <3>1, CallShape
    <3> QED
      BY <2>1, <3>1, <3>2 DEF Sound, Fresh, Live
  <2>8. CASE \E res \in {"none", "error"} : Return(res)
    <3>1. PICK res \in {"none", "error"} : Return(res)
      BY <2>8
    <3>2. pc = "run" /\ pc' = "loop" /\ outcome' = outcome /\ Shape
      BY <2>1, <3>1 DEF Return, Live
    <3>3. Shape'
      BY <2>1, <3>1, <3>2, ReturnShape
    <3> QED
      BY <2>1, <3>2, <3>3 DEF Sound, Fresh, Live
  <2>9. CASE \E h \in Frames : Resume(h)
    <3>1. PICK h \in Frames : Resume(h)
      BY <2>9
    <3>2. pc = "loop" /\ outcome' = outcome /\ Shape
      BY <2>1, <3>1 DEF Resume, Live
    <3>3. Shape' /\ pc' = "run"
      BY <2>1, <3>1, <3>2, ResumeShape, ResumeFacts
    <3> QED
      BY <2>1, <3>2, <3>3 DEF Sound, Fresh, Live
  <2>10. CASE ResumeNull
    BY <2>1, <2>10 DEF ResumeNull, Sound, Fresh, Live
  <2>11. CASE Finish
    <3>1. Shape
      BY <2>1, <2>11 DEF Finish, Live
    <3>2. task_list = <<>> => stage[root] = "done"
      BY <2>11, <3>1 DEF Finish, Shape, RootDone, Chain
    <3> QED
      BY <2>1, <2>11, <3>2 DEF Finish, Sound, Fresh, Live
  <2>12. CASE UNCHANGED vars
    BY <2>1, <2>12
       DEF vars, Sound, Fresh, Live, Shape, Chain, Last, ListIsCallChain,
           Distinct, OnChain, OnlyLastNull, Running, Answered, NextUp, RootDone, OffChain,
           NotCalling
  <2> QED
    BY <1>2, <2>2, <2>3, <2>4, <2>5, <2>6, <2>7, <2>8, <2>9, <2>10, <2>11, <2>12
       DEF Next, Body, Loop, Terminated
<1> QED
  BY <1>1, <1>2, TypeStep DEF IInv

(* Leaving resume() touches no coroutine, so what Shape says of the list   *)
(* remains.                                                                *)
LEMMA ChainStep ==
    ASSUME NoAwaiterFailure, IInv, [Next]_vars, ListIsCallChain, NoDanglingFrame
    PROVE  ListIsCallChain' /\ NoDanglingFrame'
<1>1. TypeOK' /\ Sound'
  BY Inductive, FailingStays DEF IInv, NoAwaiterFailure
<1>2. CASE pc' \in {"run", "loop"}
  <2>1. Shape' /\ TypeOK'
    BY <1>1, <1>2 DEF Sound, Live
  <2>2. \A i \in 1 .. Len(Chain') : Chain'[i] \in Handles
    <3>1. Chain' \in Seq(Handles)
      <4>1. task_list' \in Seq(Handles) /\ cur' \in Handles
        BY <2>1 DEF TypeOK
      <4> QED
        BY <4>1, PushFacts DEF Chain
    <3> QED
      BY <3>1, ElementOfSeq
  <2> QED
    BY <2>1, <2>2 DEF Shape, Distinct, OnChain, NoDanglingFrame, Handles
<1>3. CASE pc' \notin {"run", "loop"}
  <2>1. Chain' = Chain /\ stage' = stage /\ callee' = callee /\ root' = root
    <3>1. CASE UNCHANGED vars
      BY <3>1 DEF vars, Chain
    <3>2. CASE ~ UNCHANGED vars
      <4>1. StartFails \/ ResumeNull \/ Finish
        BY <1>3, <3>2
           DEF Next, Start, Body, Await, AwaitNotQueued, AwaitCalleeNotQueued, Suspend,
               AwaitNoFrame, Return, Loop, Terminated, Resume, Continue
      <4> QED
        BY <4>1 DEF StartFails, ResumeNull, Finish, Chain
    <3> QED
      BY <3>1, <3>2
  <2> QED
    BY <2>1 DEF ListIsCallChain, NoDanglingFrame
<1> QED
  BY <1>2, <1>3

LEMMA CalleeFirstStep ==
    ASSUME NoAwaiterFailure, IInv, [Next]_vars, NEW f \in Frames,
           stage[f] = "awaiting", stage'[f] = "running"
    PROVE  /\ callee[f] # NoFrame
           /\ stage[callee[f]] = "done" \/ result[callee[f]] = "error"
<1>1. TypeOK /\ Fresh /\ (Live => Shape)
  BY DEF IInv, Sound
<1>2. Resume(f)
  <2>1. ASSUME NEW g \in Frames, Start(g)
        PROVE  FALSE
    BY <1>1, <2>1 DEF Fresh, Start
  <2>2. ASSUME NEW c \in Frames, NEW res, Suspend(c, res)
        PROVE  FALSE
    BY <1>1, <2>2 DEF Suspend, TypeOK
  <2>3. ~ AwaitNoFrame /\ \A res : ~ Return(res)
    BY <1>1 DEF AwaitNoFrame, Return, TypeOK
  <2>4. ~ StartFails /\ ~ ResumeNull /\ ~ Finish /\ ~ UNCHANGED vars
    BY DEF StartFails, ResumeNull, Finish, vars
  <2>5. PICK h \in Frames : Resume(h)
    BY <2>1, <2>2, <2>3, <2>4
       DEF Next, Body, Loop, Await, AwaitNotQueued, AwaitCalleeNotQueued, Terminated
  <2>6. h = f
    BY <1>1, <2>5 DEF Resume, Continue, TypeOK
  <2> QED
    BY <2>5, <2>6
<1>3. pc = "loop" /\ Shape
  BY <1>1, <1>2 DEF Resume, Live
<1>4. Answered(f)
  BY <1>1, <1>2, <1>3, ResumeFacts
<1> QED
  BY <1>4, FramesAssumption DEF Answered

ListFacts == NoAwaiterFailure => ListIsCallChain /\ NoDanglingFrame

LEMMA ListInductive == (Init => ListFacts) /\ (IInv /\ ListFacts /\ [Next]_vars => ListFacts')
<1>1. Init => ListFacts
  <2>1. Init => Chain = <<>> /\ Len(<<>>) = 0
    BY EmptySeq DEF Init, Chain
  <2> QED
    BY <2>1 DEF ListIsCallChain, NoDanglingFrame, ListFacts
<1>2. IInv /\ ListFacts /\ [Next]_vars => ListFacts'
  BY ChainStep, FailingStays DEF ListFacts, NoAwaiterFailure
<1> QED
  BY <1>1, <1>2

(* task_list is the chain of calls from the root to the frame that runs or *)
(* is to run next, whatever fails but the queueing of the awaiting frame.  *)
THEOREM ListCorrect == Spec => [](NoAwaiterFailure => ListIsCallChain)
<1>1. Init => IInv /\ ListFacts
  BY Inductive, ListInductive
<1>2. IInv /\ ListFacts /\ [Next]_vars => IInv' /\ ListFacts'
  BY Inductive, ListInductive
<1>3. ListFacts => (NoAwaiterFailure => ListIsCallChain)
  BY DEF ListFacts
<1> QED
  BY <1>1, <1>2, <1>3, PTL DEF Spec

(* No handle on the list is the handle of a destroyed frame, and none is   *)
(* on it twice, whatever fails but the queueing of the awaiting frame.     *)
THEOREM NoFrameDangles == Spec => [](NoAwaiterFailure => NoDanglingFrame)
<1>1. Init => IInv /\ ListFacts
  BY Inductive, ListInductive
<1>2. IInv /\ ListFacts /\ [Next]_vars => IInv' /\ ListFacts'
  BY Inductive, ListInductive
<1>3. ListFacts => (NoAwaiterFailure => NoDanglingFrame)
  BY DEF ListFacts
<1> QED
  BY <1>1, <1>2, <1>3, PTL DEF Spec

(* resume() does not reach its std::terminate(), unless an awaiting frame  *)
(* is lost.                                                                *)
THEOREM NoTermination == Spec => []NeverTerminates
<1>1. Init => IInv
  BY Inductive
<1>2. IInv /\ [Next]_vars => IInv'
  BY Inductive
<1>3. IInv => NeverTerminates
  BY DEF IInv, Sound, NoAwaiterFailure, NeverTerminates
<1> QED
  BY <1>1, <1>2, <1>3, PTL DEF Spec

(* An awaiting frame goes on only when the awaited one has answered,       *)
(* unless awaiting frames are lost.                                        *)
THEOREM CalleesFirst == Spec => CalleeFirst
<1>1. Init => IInv
  BY Inductive
<1>2. IInv /\ [Next]_vars => IInv'
  BY Inductive
<1>3. IInv /\ [Next]_vars =>
        [\A f \in Frames :
            "awaiter" \notin failing /\ stage[f] = "awaiting" /\ stage'[f] = "running" =>
                /\ callee[f] # NoFrame
                /\ stage[callee[f]] = "done" \/ result[callee[f]] = "error"]_vars
  BY CalleeFirstStep DEF NoAwaiterFailure
<1> QED
  BY <1>1, <1>2, <1>3, PTL DEF Spec, CalleeFirst

-----------------------------------------------------------------------------
(* Coroutines implements CallStack, for any set of frames and whatever may *)
(* fail: every step of the scheduler is a step of a call, or none.         *)

(* What the mapping makes of the variables. *)
LEMMA CalledFramesFacts ==
    ASSUME TypeOK, Shape
    PROVE  /\ pc = "run" => CalledFrames = Chain
           /\ Chain # <<>> /\ Last \in Frames => CalledFrames = Chain
           /\ Chain # <<>> /\ Last = NoFrame => CalledFrames = Pop(Chain)
           /\ Chain = <<>> => CalledFrames = Chain
<1>1. pc = "run" => Chain # <<>> /\ Last = cur /\ cur \in Frames
  BY ChainWhenRunning DEF Shape, Running
<1> QED
  BY <1>1, FramesAssumption DEF CalledFrames, Last, Top

LEMMA FrontOfAppend ==
    ASSUME NEW s \in Seq(Handles), NEW e \in Handles
    PROVE  Pop(Append(s, e)) = s
<1>1. /\ Append(s, e) \in Seq(Handles) /\ Append(s, e) # <<>>
      /\ Len(Append(s, e)) = Len(s) + 1 /\ Len(s) \in Nat
      /\ \A i \in 1 .. Len(s) : Append(s, e)[i] = s[i]
  BY PushFacts
<1>2. /\ Pop(Append(s, e)) \in Seq(Handles)
      /\ Len(Pop(Append(s, e))) = Len(Append(s, e)) - 1
      /\ \A i \in 1 .. Len(Append(s, e)) - 1 : Pop(Append(s, e))[i] = Append(s, e)[i]
  BY <1>1, PopFacts
<1> QED
  BY <1>1, <1>2, SeqEqual

(* No call has been answered while a body runs. *)
LEMMA NothingAnswered ==
    ASSUME TypeOK, Shape, pc = "run", Reliable
    PROVE  Calls!NoAnswer
<1>1. ASSUME NEW f \in Frames
      PROVE  CallsStage[f] \notin {"ok", "error"}
  <2>1. CASE \A i \in 1 .. Len(Chain) : Chain[i] # f
    BY <2>1 DEF Shape, OffChain, CallsStage, StageOf, HasAnswered
  <2>2. CASE \E i \in 1 .. Len(Chain) : Chain[i] = f
    BY <2>2 DEF Shape, OnChain, CallsStage, StageOf, HasAnswered
  <2> QED
    BY <2>1, <2>2
<1> QED
  BY <1>1 DEF Calls!NoAnswer, Calls!Answers

LEMMA InitCalls == Init => Calls!Init
<1> SUFFICES ASSUME Init PROVE Calls!Init
  OBVIOUS
<1>1. Chain = <<>> /\ CalledFrames = <<>>
  BY DEF Init, Chain, CalledFrames
<1>2. CallsActive = <<>> /\ CallsSeen = "nothing"
  BY <1>1 DEF CallsActive, CallsSeen, Init
<1>3. CallsStage = [f \in Frames |-> "idle"]
  BY DEF CallsStage, StageOf, HasAnswered, Init
<1> QED
  BY <1>2, <1>3 DEF Calls!Init

(* Where awaiting frames are lost nothing happens on the call stack. *)
LEMMA UnreliableStutters ==
    ASSUME [Next]_vars, ~ Reliable
    PROVE  UNCHANGED Calls!vars
<1>1. ~ Reliable'
  BY FailingStays DEF Reliable
<1> QED
  BY <1>1 DEF Calls!vars, CallsActive, CallsStage, CallsSeen

LEMMA StartCalls ==
    ASSUME TypeOK, Fresh, Reliable, NEW f \in Frames, Start(f)
    PROVE  Calls!Call(f)
<1>1. /\ Chain = <<>> /\ Chain' = Append(<<>>, f) /\ f \in Handles /\ <<>> \in Seq(Handles)
      /\ Reliable' /\ seen' = seen
  BY EmptySeq DEF Start, Fresh, Chain, Handles, Reliable
<1>2. CalledFrames = <<>> /\ CalledFrames' = Append(<<>>, f)
  <2>1. Chain' # <<>> /\ Top(Chain') = f
    BY <1>1, PushFacts, EmptySeq DEF Top
  <2> QED
    BY <1>1, <2>1, FramesAssumption DEF CalledFrames
<1>3. CallsStage = [g \in Frames |-> "idle"]
  BY DEF CallsStage, StageOf, HasAnswered, Fresh, Start
<1>4. CallsStage' = [CallsStage EXCEPT ![f] = "active"]
  BY <1>1, <1>3 DEF CallsStage, StageOf, HasAnswered, Start, TypeOK, Fresh
<1> QED
  BY <1>1, <1>2, <1>3, <1>4
     DEF Calls!Call, Calls!NoAnswer, Calls!Answers, CallsActive, CallsSeen

(* The frames on the chain while a body runs. *)
LEMMA RunningFacts ==
    ASSUME TypeOK, Shape, pc = "run"
    PROVE  /\ Chain \in Seq(Handles) /\ Chain # <<>> /\ CalledFrames = Chain
           /\ Chain = Append(task_list, cur)
           /\ Len(Chain) \in Nat /\ Chain[Len(Chain)] = cur
           /\ cur \in Frames /\ stage[cur] = "running" /\ callee[cur] = NoFrame
           /\ result[cur] = "none"
<1>1. cur \in Frames /\ stage[cur] = "running" /\ callee[cur] = NoFrame
  BY DEF Shape, Running
<1>2. /\ Chain \in Seq(Handles) /\ Chain # <<>> /\ Chain = Append(task_list, cur)
      /\ Len(Chain) \in Nat /\ Len(Chain) > 0 /\ Chain[Len(Chain)] = cur
  BY <1>1, ChainWhenRunning DEF Last
<1>3. result[cur] = "none"
  <2>1. Len(Chain) \in 1 .. Len(Chain)
    BY <1>2
  <2> QED
    BY <1>1, <1>2, <2>1 DEF Shape, OnChain
<1> QED
  BY <1>1, <1>2, <1>3, CalledFramesFacts

LEMMA AwaitCalls ==
    ASSUME TypeOK, Shape, pc = "run", Reliable, NEW c \in Frames, Await(c)
    PROVE  Calls!Call(c)
<1>1. /\ task_list' = Append(Append(task_list, cur), c) /\ pc' = "loop"
      /\ stage[c] = "free" /\ Reliable' /\ seen' = seen
      /\ stage' = [stage EXCEPT ![cur] = "awaiting", ![c] = "suspended"]
      /\ result' = [result EXCEPT ![c] = "none"]
  BY DEF Await, Suspend, Reliable
<1>2. /\ CalledFrames = Chain /\ cur \in Frames /\ stage[cur] = "running"
      /\ result[cur] = "none"
  BY RunningFacts
<1>3. CalledFrames' = Append(CalledFrames, c)
  <2>1. c \in Handles
    BY DEF Handles
  <2>2. Chain' = Append(Chain, c) /\ Chain' # <<>> /\ Chain'[Len(Chain')] = c
    BY <1>1, <1>2, <2>1, Push
  <2> QED
    BY <1>2, <2>2, FramesAssumption DEF CalledFrames, Top
<1>4. CallsStage[c] = "idle" /\ CallsStage' = [CallsStage EXCEPT ![c] = "active"]
  BY <1>1, <1>2 DEF CallsStage, StageOf, HasAnswered, TypeOK
<1> QED
  BY <1>1, <1>3, <1>4, NothingAnswered DEF Calls!Call, CallsActive, CallsSeen

LEMMA RefusalCalls ==
    ASSUME TypeOK, Shape, pc = "run", Reliable, NEW c \in Frames, AwaitCalleeNotQueued(c)
    PROVE  Calls!Refuse(c)
<1>1. /\ task_list' = Append(task_list, cur) /\ pc' = "loop"
      /\ stage[c] = "free" /\ Reliable' /\ seen' = seen
      /\ stage' = [stage EXCEPT ![cur] = "awaiting", ![c] = "suspended"]
      /\ result' = [result EXCEPT ![c] = "error"]
  BY DEF AwaitCalleeNotQueued, Suspend, Reliable
<1>2. /\ CalledFrames = Chain /\ Chain = Append(task_list, cur) /\ Chain # <<>>
      /\ Chain[Len(Chain)] = cur /\ cur \in Frames /\ stage[cur] = "running"
      /\ result[cur] = "none"
  BY RunningFacts
<1>3. CalledFrames' = CalledFrames
  BY <1>1, <1>2, FramesAssumption DEF CalledFrames, Chain, Top
<1>4. CallsStage[c] = "idle" /\ CallsStage' = [CallsStage EXCEPT ![c] = "error"]
  BY <1>1, <1>2 DEF CallsStage, StageOf, HasAnswered, TypeOK
<1> QED
  BY <1>1, <1>2, <1>3, <1>4, NothingAnswered DEF Calls!Refuse, CallsActive, CallsSeen

(* The awaited frame has no memory: nothing is called. *)
LEMMA NoFrameStutters ==
    ASSUME TypeOK, Shape, pc = "run", Reliable, AwaitNoFrame
    PROVE  UNCHANGED Calls!vars
<1>1. /\ task_list' = Append(Append(task_list, cur), NoFrame) /\ pc' = "loop"
      /\ Reliable' /\ seen' = seen /\ result' = result
      /\ stage' = [stage EXCEPT ![cur] = "awaiting"]
  BY DEF AwaitNoFrame, Reliable
<1>2. /\ CalledFrames = Chain /\ Chain \in Seq(Handles) /\ cur \in Frames
      /\ stage[cur] = "running" /\ Len(Chain) \in Nat
  BY RunningFacts
<1>3. CalledFrames' = CalledFrames
  <2>1. NoFrame \in Handles
    BY DEF Handles
  <2>2. /\ Chain' = Append(Chain, NoFrame) /\ Chain' # <<>> /\ Chain'[Len(Chain')] = NoFrame
    BY <1>1, <1>2, <2>1, Push
  <2>3. Pop(Append(Chain, NoFrame)) = Chain
    BY <1>2, <2>1, FrontOfAppend
  <2> QED
    BY <1>2, <2>2, <2>3 DEF CalledFrames, Top
<1>4. CallsStage' = CallsStage
  BY <1>1, <1>2 DEF CallsStage, StageOf, HasAnswered, TypeOK
<1> QED
  BY <1>1, <1>3, <1>4 DEF Calls!vars, CallsActive, CallsSeen

LEMMA ReturnCalls ==
    ASSUME TypeOK, Shape, pc = "run", Reliable, NEW res \in {"none", "error"}, Return(res)
    PROVE  \E a \in Calls!Answers : Calls!Return(a)
<1> DEFINE a == IF res = "error" THEN "error" ELSE "ok"
<1>1. /\ task_list' = task_list /\ pc' = "loop" /\ Reliable' /\ seen' = seen
      /\ stage' = [stage EXCEPT ![cur] = "done"]
      /\ result' = [result EXCEPT ![cur] = res]
  BY DEF Return, Reliable
<1>2. /\ CalledFrames = Chain /\ Chain = Append(task_list, cur) /\ Chain # <<>>
      /\ Chain \in Seq(Handles) /\ Len(Chain) \in Nat
      /\ Chain[Len(Chain)] = cur /\ cur \in Frames
  BY RunningFacts
<1>3. Chain' = task_list /\ task_list \in Seq(Handles) /\ cur \in Handles
  BY <1>1 DEF Chain, TypeOK
<1>4. SubSeq(Chain, 1, Len(Chain) - 1) = task_list
  BY <1>2, <1>3, FrontOfAppend DEF Pop
<1>5. CalledFrames' = task_list
  <2>1. ASSUME task_list # <<>>
        PROVE  task_list[Len(task_list)] # NoFrame
    <3>1. /\ Len(task_list) = Len(Chain) - 1 /\ Len(task_list) \in Nat /\ Len(task_list) > 0
          /\ \A i \in 1 .. Len(task_list) : task_list[i] = Chain[i]
      BY <1>2, <1>3, <2>1, PushFacts, PopFacts
    <3> QED
      BY <1>2, <3>1 DEF Shape, OnlyLastNull
  <2> QED
    BY <1>3, <2>1 DEF CalledFrames, Top
<1>6. CallsStage' = [CallsStage EXCEPT ![cur] = a]
  BY <1>1, <1>2 DEF CallsStage, StageOf, HasAnswered, TypeOK
<1>7. Calls!Return(a)
  BY <1>1, <1>2, <1>4, <1>5, <1>6, NothingAnswered DEF Calls!Return, CallsActive, CallsSeen
<1> QED
  BY <1>7 DEF Calls!Answers

(* A frame that has not begun begins, without a step of the call stack; an *)
(* awaiting one goes on with the answer of the one it awaits.              *)
LEMMA ResumeCalls ==
    ASSUME TypeOK, Shape, pc = "loop", Reliable, NEW h \in Frames, Resume(h)
    PROVE  (\E f \in Frames : Calls!GoOn(f)) \/ UNCHANGED Calls!vars
<1>1. /\ Chain' = Chain /\ Chain # <<>> /\ h = Last /\ result' = result
      /\ stage'[h] = "running"
      /\ \A g \in Frames : g # h /\ g # callee[h] => stage'[g] = stage[g]
      /\ callee[h] \in Frames => stage'[callee[h]] = "free" /\ stage[h] = "awaiting"
      /\ stage[h] = "awaiting" => Answered(h)
  BY ResumeFacts
<1>2. Reliable' /\ seen' = IF stage[h] = "awaiting" THEN Answer(h) ELSE seen
  <2>1. stage[h] # "done"
    BY <1>1 DEF Shape, NextUp
  <2> QED
    BY <2>1 DEF Resume, Reliable
<1>3. CalledFrames = Chain /\ CalledFrames' = Chain
  BY <1>1, CalledFramesFacts, FramesAssumption DEF CalledFrames, Last, Top
<1>4. result[h] = "none" /\ stage[h] \in {"suspended", "awaiting"}
  <2>1. Len(Chain) \in 1 .. Len(Chain) /\ Chain[Len(Chain)] = h
    BY <1>1, ChainIsSeq, EmptySeq, LenProperties DEF Last
  <2> QED
    BY <1>1, <2>1 DEF Shape, OnChain, NextUp
<1>5. CASE stage[h] = "suspended"
  <2>1. callee[h] \notin Frames
    BY <1>1, <1>5
  <2>2. CallsStage' = CallsStage
    BY <1>1, <1>2, <1>4, <1>5, <2>1 DEF CallsStage, StageOf, HasAnswered, TypeOK
  <2> QED
    BY <1>2, <1>3, <1>5, <2>2 DEF Calls!vars, CallsActive, CallsSeen
<1>6. CASE stage[h] = "awaiting"
  <2> DEFINE c == callee[h]
  <2>1. c \in Frames /\ HasAnswered(c)
    BY <1>1, <1>6 DEF Answered, HasAnswered
  <2>2. c # h
    BY <1>6, <2>1 DEF HasAnswered
  <2>3. CallsStage[c] = Answer(h) /\ CallsStage[c] \in {"ok", "error"}
    BY <2>1 DEF CallsStage, StageOf, Answer
  <2>4. CallsStage' = [CallsStage EXCEPT ![c] = "idle"]
    BY <1>1, <1>2, <1>4, <1>6, <2>1, <2>2 DEF CallsStage, StageOf, HasAnswered, TypeOK
  <2>5. Calls!GoOn(c)
    BY <1>1, <1>2, <1>3, <1>6, <2>3, <2>4
       DEF Calls!GoOn, Calls!Answers, CallsActive, CallsSeen
  <2> QED
    BY <2>1, <2>5
<1> QED
  BY <1>4, <1>5, <1>6

(* Leaving resume() leaves the calls as they are. *)
LEMMA ExitStutters ==
    ASSUME TypeOK, Fresh, StartFails \/ ResumeNull \/ Finish \/ UNCHANGED vars
    PROVE  UNCHANGED Calls!vars
<1>1. /\ Chain' = Chain /\ stage' = stage /\ result' = result /\ seen' = seen
      /\ failing' = failing
  BY DEF StartFails, ResumeNull, Finish, vars, Chain
<1> QED
  BY <1>1 DEF Calls!vars, CallsActive, CallsStage, CallsSeen, CalledFrames, StageOf,
              HasAnswered, Reliable

LEMMA StepCalls ==
    ASSUME IInv, [Next]_vars
    PROVE  [Calls!Next]_(Calls!vars)
<1>1. CASE ~ Reliable
  BY <1>1, UnreliableStutters
<1>2. CASE Reliable
  <2>1. TypeOK /\ Fresh /\ (Live => Shape)
    BY <1>2 DEF IInv, Sound, Reliable, NoAwaiterFailure
  <2>2. ASSUME NEW f \in Frames, Start(f)
        PROVE  Calls!Next
    BY <1>2, <2>1, <2>2, StartCalls DEF Calls!Next
  <2>3. CASE Body
    <3>1. pc = "run" /\ Shape
      BY <2>1, <2>3
         DEF Body, Await, AwaitNotQueued, AwaitCalleeNotQueued, Suspend, AwaitNoFrame, Return, Live
    <3>2. ASSUME NEW c \in Frames, Await(c) \/ AwaitNotQueued(c) \/ AwaitCalleeNotQueued(c)
          PROVE  Calls!Next
      <4>1. ~ AwaitNotQueued(c)
        BY <1>2 DEF AwaitNotQueued, Reliable
      <4> QED
        BY <1>2, <2>1, <3>1, <3>2, <4>1, AwaitCalls, RefusalCalls DEF Calls!Next
    <3>3. ASSUME AwaitNoFrame
          PROVE  UNCHANGED Calls!vars
      BY <1>2, <2>1, <3>1, <3>3, NoFrameStutters
    <3>4. ASSUME NEW res \in {"none", "error"}, Return(res)
          PROVE  Calls!Next
      BY <1>2, <2>1, <3>1, <3>4, ReturnCalls DEF Calls!Next
    <3> QED
      BY <2>3, <3>2, <3>3, <3>4 DEF Body
  <2>4. ASSUME NEW h \in Frames, Resume(h)
        PROVE  [Calls!Next]_(Calls!vars)
    <3>1. pc = "loop" /\ Shape
      BY <2>1, <2>4 DEF Resume, Live
    <3>2. (\E f \in Frames : Calls!GoOn(f)) \/ UNCHANGED Calls!vars
      BY <1>2, <2>1, <2>4, <3>1, ResumeCalls
    <3> QED
      BY <3>2 DEF Calls!Next
  <2>5. CASE StartFails \/ ResumeNull \/ Finish \/ UNCHANGED vars
    BY <2>1, <2>5, ExitStutters
  <2> QED
    BY <2>2, <2>3, <2>4, <2>5 DEF Next, Loop, Terminated
<1> QED
  BY <1>1, <1>2

(* co_await is a call, whatever fails but the queueing of awaiting frames: *)
(* the callee runs on top of its caller, which goes on with its answer.    *)
THEOREM CoroutinesImplementCalls == Spec => ImplementsCalls
<1>1. Init => IInv /\ Calls!Init
  BY Inductive, InitCalls
<1>2. IInv /\ [Next]_vars => IInv' /\ [Calls!Next]_(Calls!vars)
  BY Inductive, StepCalls
<1> QED
  BY <1>1, <1>2, PTL DEF Spec, Calls!Spec, ImplementsCalls

=============================================================================
