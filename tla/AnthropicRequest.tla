--------------------------- MODULE AnthropicRequest ---------------------------
(***************************************************************************)
(* How the Anthropic adapter turns a conversation into Messages API turns  *)
(* and a system prompt (encodeInput, src/providers/anthropic/request.go).  *)
(***************************************************************************)
EXTENDS Transcript

ClaudeForeign == {"gemini", "chatcompletions"}
ClaudeReadable(said) == Without(said, ClaudeForeign)
ClaudeSupported(it, kinds) == \A i \in 1..Len(it.said) : it.said[i].k \in kinds \cup ClaudeForeign

(* Claude takes a thinking block it signed, and one of unknown origin. *)
Replayable(it) == it.sig # <<>> /\ it.by \in {"", "anthropic"}

(* Mutant: the blocks of a user turn stay in input order. *)
InInputOrder(blocks) == blocks

(* Every tool_result of a user turn before its other blocks. *)
ToolResultsFirst(blocks) ==
  LET results == {b \in Range(blocks) : b.k = "tool_result"}
  IN Among(blocks, results) \o Among(blocks, Range(blocks) \ results)

ClaudeLeads(it) == it.type = "message" /\ it.role = "system"

ClaudeAdd(m, role, blocks) == IF blocks = <<>> THEN m ELSE [m EXCEPT !.turns = Join(@, role, blocks)]

ClaudeEncodeMessage(m, it) ==
  LET blocks == BlocksOf(ClaudeReadable(it.said)) IN
  IF ~ClaudeSupported(it, {"text", "refusal", "media", "anthropic"}) THEN [m EXCEPT !.err = TRUE]
  ELSE IF it.role = "system" /\ m.leading
  THEN IF \A i \in 1..Len(blocks) : blocks[i].k = "text"
       THEN [m EXCEPT !.system = @ \o blocks] ELSE [m EXCEPT !.err = TRUE]
  ELSE ClaudeAdd(m, IF it.role = "assistant" THEN "assistant" ELSE "user", blocks)

ClaudeEncodeItem(m, it) ==
  CASE it.type = "message" -> ClaudeEncodeMessage(m, it)
    [] it.type = "function_call" ->
         ClaudeAdd(m, "assistant", <<Block("tool_use", it.id, it.said, <<>>)>>)
    [] it.type = "function_call_output" ->
         IF ClaudeSupported(it, {"text", "media", "anthropic"})
         THEN ClaudeAdd(m, "user", <<Block("tool_result", it.id, ClaudeReadable(it.said), <<>>)>>)
         ELSE [m EXCEPT !.err = TRUE]
    [] it.type = "reasoning" ->
         IF Replayable(it)
         THEN ClaudeAdd(m, "assistant", <<Block("thinking", 0, TextOf(it, "summary", "reasoning_text"), it.sig)>>)
         ELSE m
    [] it.type = "extension" ->
         IF it.by \in ClaudeForeign THEN m
         ELSE IF it.by = "anthropic" THEN ClaudeAdd(m, "assistant", <<Block("extension", 0, it.said, <<>>)>>)
         ELSE [m EXCEPT !.err = TRUE]
    [] OTHER -> [m EXCEPT !.err = TRUE]

ClaudeStart == [turns |-> <<>>, system |-> <<>>, leading |-> TRUE, err |-> FALSE]
ClaudeStep(m, it) ==
  IF m.err THEN m ELSE ClaudeEncodeItem([m EXCEPT !.leading = @ /\ ClaudeLeads(it)], it)

ResultsFirst(turns) ==
  [i \in 1..Len(turns) |->
     IF turns[i].role = "user" THEN Turn("user", ToolResultsFirst(turns[i].blocks)) ELSE turns[i]]

AnthropicInput(items) ==
  LET m[n \in 0..Len(items)] == IF n = 0 THEN ClaudeStart ELSE ClaudeStep(m[n - 1], items[n])
  IN [m[Len(items)] EXCEPT !.turns = ResultsFirst(@)]
=============================================================================
