----------------------------- MODULE MCAccumulator -----------------------------
(* Accumulator with a function call, a message and a reasoning item. *)
EXTENDS Accumulator, TLC

Kinds == "a" :> "function_call" @@ "b" :> "message" @@ "c" :> "reasoning"
=============================================================================
