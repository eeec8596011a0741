----------------------------- MODULE GeminiDecoder -----------------------------
(***************************************************************************)
(* The decoder of the Gemini adapter (src/providers/gemini/response.go). A *)
(* signature on a part that is no thought is carried by a reasoning item   *)
(* just before that part; a call arrives whole.                            *)
(***************************************************************************)
EXTENDS AdapterDecoder, GeminiRequest

(* A part, signed or not, or another member of a chunk. *)
GeminiFrame(k, sig, stop) == [k |-> k, sig |-> sig, stop |-> stop]

GeminiFrames ==
  {GeminiFrame(k, sig, "") : k \in {"text", "thought", "call", "extension", "empty"}, sig \in BOOLEAN}
  \cup {GeminiFrame(k, FALSE, "") : k \in {"logprobs", "grounding", "blocked"}}
  \cup {GeminiFrame("finish", FALSE, r) : r \in {"STOP", "MAX_TOKENS", "OTHER"}}

(* The signature of the part that follows, on the open or a new reasoning. *)
Signed(s) ==
  LET r == OpenReasoning(s) IN CloseOpen([r EXCEPT !.items[r.reasoning].sig = <<Now>>])

(* part; extension *)
GeminiPart(s, f) ==
  LET t == IF f.sig /\ f.k # "thought" THEN Signed(s) ELSE s
      c == Opens(CloseOpen(t), IF f.k = "call" THEN "function_call" ELSE "extension")
      m == OpenMessage(t)
      r == OpenReasoning(t)
  IN CASE f.k = "call"    -> Do(Says(c, "arguments", Newest(c)), "close", Newest(c))
       [] f.k = "thought" -> LET u == Says(r, "summary", r.reasoning) IN
                             IF f.sig THEN [u EXCEPT !.items[r.reasoning].sig = <<Now>>] ELSE u
       [] f.k = "text"    -> Says(m, "text", m.msg)
       [] f.k = "extension" -> [c EXCEPT !.items[Newest(c)].said = <<Piece("raw", Now)>>,
                                         !.items[Newest(c)].sig = IF f.sig THEN <<Now>> ELSE <<>>]
       [] OTHER           -> t

(* finish *)
GeminiFinishes(s, stop) ==
  CASE stop = "STOP"                     -> Returns(s, "complete")
    [] stop \in {"MAX_TOKENS", "SAFETY"} -> Returns(s, "incomplete")
    [] OTHER                             -> Fail(s)

(* chunk; ground *)
GeminiHears(s, f) ==
  LET m == OpenMessage(s) IN
  CASE f.k = "blocked"   -> Returns(s, "incomplete")
    [] f.k = "logprobs"  -> IF s.msg = 0 THEN s ELSE Do(s, "logprobs", s.msg)
    [] f.k = "grounding" -> Do(m, "annotation", m.msg)
    [] f.k = "finish"    -> GeminiFinishes([s EXCEPT !.stop = f.stop], f.stop)
    [] OTHER             -> GeminiPart(s, f)

(* A chunk with a finish or a block reason is the last one read. *)
GeminiReads ==
  /\ provider = "gemini"
  /\ \/ /\ Len(heard) < MaxFrames[provider]
        /\ \E f \in GeminiFrames : Hear(f, GeminiHears(dec, f))
     \/ \E how \in {"ended", "broken"} : EndOfStream(how, Fail(dec))
=============================================================================
