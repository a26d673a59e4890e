---------------------------- MODULE MCCoroutines ----------------------------
(* Instances of Coroutines for TLC. *)
EXTENDS Coroutines

CONSTANTS f1, f2, f3, f4

MCFrames == {f1, f2, f3}
MCFourFrames == {f1, f2, f3, f4}
(* Nothing fails; the awaited frame may be lost or have no memory; all     *)
(* allocations fail at will.                                               *)
AnyFailures == {{}, {"callee", "frame"}, {"awaiter", "callee", "frame"}}
AwaiterFails == {{"awaiter"}}
=============================================================================
