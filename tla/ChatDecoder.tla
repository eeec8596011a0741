------------------------------ MODULE ChatDecoder ------------------------------
(***************************************************************************)
(* The decoder of the Chat Completions adapter                             *)
(* (src/chatcompletions/response.go).  A tool call's writer is opened once *)
(* its name is known; a call still streaming at the end is left open, so   *)
(* that Incomplete marks it.                                               *)
(***************************************************************************)
EXTENDS AdapterDecoder

(* A member of a chunk: its kind; of a tool call its index, whether the    *)
(* name is in it and whether arguments are, or its id only; a finish reason. *)
ChatFrame(k, i, named, full, stop) == [k |-> k, i |-> i, named |-> named, full |-> full, stop |-> stop]

ChatGoodStops == {"stop", "tool_calls"}
ChatCutStops  == {"length", "content_filter"}
ChatFrames ==
  {ChatFrame(k, 0, FALSE, TRUE, "") : k \in {"reasoning", "text", "refusal", "annotation", "logprobs", "error"}}
  \cup {ChatFrame("tool", i, b[1], b[2], "") : i \in 1..2, b \in BOOLEAN \X BOOLEAN}
  \cup {ChatFrame("finish", 0, FALSE, FALSE, r) : r \in {"stop", "length", "other"}}

(* Mutant: the arguments that came before the name are forgotten. *)
OpenCallEmpty(s) ==
  LET t == Opens(s, "function_call") IN [t EXCEPT !.call = Newest(t), !.buffered = <<>>]

(* openCall: the arguments that came before the name go out with it. *)
OpenCall(s) ==
  LET t == Opens(s, "function_call")
      c == [t EXCEPT !.call = Newest(t), !.buffered = <<>>]
  IN IF s.buffered = <<>> THEN c
     ELSE [Do(c, "arguments", c.call) EXCEPT !.items[c.call].said = s.buffered]

(* endCall: the call, its arguments finished; its writer stays open. *)
FinishedCall(s) ==
  LET t == IF s.call = 0 THEN OpenCall(s) ELSE s
  IN IF t.items[t.call].said = <<>> THEN Do(t, "arguments", t.call) ELSE t

CloseCall(s) ==
  IF s.index = 0 THEN s
  ELSE LET t == FinishedCall(s) IN Do([t EXCEPT !.index = 0, !.call = 0], "close", t.call)

(* Mutant: the call is closed before the response is ended. *)
EndAndCloseCall(s) == CloseCall(s)

EndCall(s) == IF s.index = 0 THEN s ELSE [FinishedCall(s) EXCEPT !.index = 0, !.call = 0]

ChatCloseOpen(s) == IF s.msg = 0 /\ s.reasoning = 0 THEN CloseCall(s) ELSE CloseOpen(s)

ChatMessage(s) == IF s.msg # 0 THEN s ELSE OpenMessage(ChatCloseOpen(s))

(* toolCall, in index order; ids and the rest of a split name do not matter. *)
ToolCall(s, f) ==
  LET a == IF s.index \notin {0, f.i} THEN CloseCall(s) ELSE s
      b == IF a.index = 0 THEN [ChatCloseOpen(a) EXCEPT !.index = f.i] ELSE a
      c == IF f.full THEN [b EXCEPT !.buffered = Append(@, Piece("arguments", Now))] ELSE b
  IN IF s.index # 0 /\ f.i < s.index THEN Fail(s)
     ELSE IF b.call = 0 THEN IF f.named THEN OpenCall(c) ELSE c
     ELSE IF f.full THEN Says(b, "arguments", b.call) ELSE b

(* chunk and delta, one member at a time *)
ChatHears(s, f) ==
  LET r == IF s.reasoning # 0 THEN s ELSE NewReasoning(ChatCloseOpen(s))
      m == ChatMessage(s)
  IN CASE f.k = "reasoning" -> Says(r, "reasoning_text", r.reasoning)
       [] f.k \in {"text", "refusal"}        -> Says(m, f.k, m.msg)
       [] f.k \in {"annotation", "logprobs"} -> Do(m, f.k, m.msg)
       [] f.k = "tool"   -> ToolCall(s, f)
       [] f.k = "finish" -> [s EXCEPT !.stop = f.stop]
       [] OTHER          -> Fail(s)      \* an error frame

(* finish *)
ChatFinishes(s) ==
  LET t == EndCall(s) IN
  CASE s.stop \in ChatGoodStops -> Returns(t, "complete")
    [] s.stop \in ChatCutStops  -> Returns(t, "incomplete")
    [] OTHER                    -> Fail(t)

(* The chunks are read to the end, those after a finish reason included. *)
ChatReads ==
  /\ provider = "chatcompletions"
  /\ \/ /\ Len(heard) < MaxFrames[provider]
        /\ \E f \in ChatFrames : Hear(f, ChatHears(dec, f))
     \/ EndOfStream("ended", ChatFinishes(dec))    \* [DONE] or the end of the body
     \/ EndOfStream("broken", Fail(dec))
=============================================================================
