--------------------------- MODULE AnthropicDecoder ---------------------------
(***************************************************************************)
(* The decoder of the Anthropic adapter and its loop over paused turns     *)
(* (src/providers/anthropic/response.go).  Claude streams one content      *)
(* block at a time, each between its start and its stop; a message stays   *)
(* open over consecutive text blocks, and a call or a thinking block until *)
(* the next block starts, so that Incomplete marks what was cut off.       *)
(***************************************************************************)
EXTENDS AdapterDecoder, AnthropicRequest

BlockTypes   == {"text", "tool_use", "thinking", "raw"}
ClaudeGood   == {"end_turn", "tool_use", "stop_sequence", "pause_turn"}
ClaudeCut    == {"max_tokens", "model_context_window_exceeded", "refusal"}

(* An event: a start, delta or stop of a block of a type, its signature or *)
(* a citation; the message_delta with a stop reason, and an explanation.   *)
ClaudeFrame(k, of, stop, full) == [k |-> k, of |-> of, stop |-> stop, full |-> full]

ClaudeFrames ==
  {ClaudeFrame(k, of, "", TRUE) : k \in {"start", "delta", "stop"}, of \in BlockTypes}
  \cup {ClaudeFrame("signature", "thinking", "", TRUE), ClaudeFrame("citation", "text", "", TRUE)}
  \cup {ClaudeFrame("message_delta", "", r, FALSE) : r \in {"end_turn", "max_tokens", "refusal", "pause_turn", "other"}}
  \cup {ClaudeFrame("message_delta", "", "refusal", TRUE)}

(* The block Claude is streaming, "" between blocks. *)
OpenBlock == IF heard = <<>> \/ Last(heard).k \in {"stop", "message_delta"} THEN "" ELSE Last(heard).of

(* Claude keeps to its protocol: one block at a time, then the stop reason; *)
(* no two deltas in a row, which would only make the content longer.        *)
ClaudeMaySend(f) ==
  CASE f.k = "start"         -> OpenBlock = "" /\ dec.stop = ""
    [] f.k = "message_delta" -> OpenBlock = "" /\ dec.stop = ""
    [] f.k = "stop"          -> OpenBlock = f.of
    [] f.k = "delta"         -> OpenBlock = f.of /\ Last(heard).k = "start"
    [] OTHER                 -> OpenBlock = f.of /\ Last(heard).k = "delta"

(* startBlock; a start that carries text is a start and a delta *)
StartBlock(s, of) ==
  LET c == CloseOpen(s)
      t == Opens(c, "function_call")
  IN CASE of = "text"     -> OpenMessage(s)
       [] of = "tool_use" -> [t EXCEPT !.call = Newest(t), !.wrote = FALSE]
       [] of = "thinking" -> NewReasoning(c)
       [] OTHER           -> [c EXCEPT !.raw = <<Piece("raw", Now)>>]

(* delta *)
Delta(s, of) ==
  LET m == OpenMessage(s)
      r == IF s.reasoning # 0 THEN s ELSE NewReasoning(s)
  IN CASE of = "raw"      -> [s EXCEPT !.raw = Append(@, Piece("raw", Now))]
       [] of = "text"     -> Says(m, "text", m.msg)
       [] of = "tool_use" -> Says([s EXCEPT !.wrote = TRUE], "arguments", s.call)
       [] OTHER           -> Says(r, "summary", r.reasoning)

(* blockStop; extension *)
BlockStop(s) ==
  LET x == Opens([s EXCEPT !.raw = <<>>], "extension")
      cited == [n \in 1..s.cites |-> [op |-> "annotation", w |-> s.msg]]
  IN CASE s.call # 0       -> IF s.wrote THEN s ELSE Do([s EXCEPT !.wrote = TRUE], "arguments", s.call)
       [] s.reasoning # 0  -> s
       [] s.raw # <<>>     -> [x EXCEPT !.items[Newest(x)].said = s.raw]
       [] OTHER            -> [s EXCEPT !.cites = 0, !.todo = @ \o cited]

ClaudeHears(s, f) ==
  CASE f.k = "start"     -> StartBlock(s, f.of)
    [] f.k = "delta"     -> Delta(s, f.of)
    [] f.k = "signature" -> [s EXCEPT !.items[s.reasoning].sig = Append(@, Now)]
    [] f.k = "citation"  -> [s EXCEPT !.cites = @ + 1]
    [] f.k = "stop"      -> BlockStop(s)
    [] OTHER             -> [s EXCEPT !.stop = f.stop]

(* finish; `explained`: Claude says why it refuses *)
ClaudeFinishes(s, explained) ==
  LET m == OpenMessage(s) IN
  CASE s.stop \in ClaudeGood -> Returns(s, "complete")
    [] s.stop \in ClaudeCut  ->
         Returns(IF s.stop = "refusal" /\ explained THEN Says(m, "refusal", m.msg) ELSE s, "incomplete")
    [] OTHER                 -> Fail(s)

(* The output of the turn goes back to Claude. *)
Produced(s) == AllBlocks(AnthropicInput(SubSeq(Items(s), s.turnStart + 1, Len(s.items))).turns)

(* Whether the turn that ended is resumed. *)
Resumes == dec.stop = "pause_turn" /\ dec.turn < MaxTurns

(* A call whose arguments are no JSON object cannot go back. *)
MayNotGoBack(s) == \E i \in s.turnStart + 1..Len(s.items) : s.items[i].type = "function_call"

ClaudeResumes ==
  /\ Reading /\ Resumes
  /\ \/ dec' = [dec EXCEPT !.turn = @ + 1, !.stop = "", !.turnStart = Len(dec.items), !.replay = @ \o Produced(dec)]
     \/ MayNotGoBack(dec) /\ dec' = Fail(dec)
  /\ UNCHANGED <<vars, provider, heard, upstream>>

ClaudeReads ==
  /\ provider = "anthropic"
  /\ \/ /\ Len(heard) < MaxFrames[provider]
        /\ \E f \in ClaudeFrames : ClaudeMaySend(f) /\ Hear(f, ClaudeHears(dec, f))
     \/ ClaudeResumes
     \/ ~Resumes /\ EndOfStream("ended", ClaudeFinishes(dec, heard # <<>> /\ Last(heard).full))
     \/ EndOfStream("broken", Fail(dec))
=============================================================================
