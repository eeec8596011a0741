------------------------------ MODULE MCAdapters ------------------------------
(* The adapters model-checked: how long a response of each provider is.  A   *)
(* block of Claude takes three events or more, a part of Gemini's one.       *)
EXTENDS Adapters

Frames == [chatcompletions |-> 4, anthropic |-> 10, gemini |-> 4]

(* The max_tokens around which a budget changes, and one beyond all of them. *)
Limits == {1, 1024, 1025, 4096, 4097, 16384, 16385, 24577, 32000}

(* Two turns of Claude's that pause, and nothing else. *)
PausedFrames == [chatcompletions |-> 0, anthropic |-> 8, gemini |-> 0]
=============================================================================
