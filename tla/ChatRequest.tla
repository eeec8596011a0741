------------------------------ MODULE ChatRequest ------------------------------
(***************************************************************************)
(* How the Chat Completions adapter turns a conversation into messages     *)
(* (encodeInput, src/chatcompletions/request.go).  The messages are built  *)
(* item by item; `media` holds the image and file parts of the function    *)
(* outputs whose tool messages are being written.                          *)
(***************************************************************************)
EXTENDS Transcript

ChatForeign == {"anthropic", "gemini"}
ChatReadable(said) == Without(said, ChatForeign)

(* Left out whole: another provider's item, a message of such parts only. *)
LeftOut(it) ==
  \/ it.type = "extension" /\ it.by \in ChatForeign
  \/ it.type = "message" /\ it.said # <<>> /\ ChatReadable(it.said) = <<>>

(* The parts the protocol takes, by where they stand; others are refused. *)
ChatTakes(place) ==
  CASE place = "system"    -> {"text"}
    [] place = "assistant" -> {"text", "refusal"}
    [] OTHER               -> {"text", "media"}
ChatSupported(it, place) == \A i \in 1..Len(it.said) : it.said[i].k \in ChatTakes(place) \cup ChatForeign

(* The media of a run of function outputs follows them in a user message. *)
FlushMedia(m, it) ==
  IF m.media = <<>> \/ it.type = "function_call_output" THEN m
  ELSE [m EXCEPT !.turns = Append(@, Turn("user", m.media)), !.media = <<>>]

(* One assistant message for everything the assistant produced in a row. *)
ChatAssistant(m, blocks) == [m EXCEPT !.turns = Join(@, "assistant", blocks)]

ChatAnswers(m, it) ==
  LET media == Of(it.said, {"media"}) IN
  [m EXCEPT !.turns = Append(@, Turn("tool", <<Block("tool_result", it.id, Of(it.said, {"text"}), <<>>)>>)),
            !.media = @ \o [i \in 1..Len(media) |-> Block("media", it.id, <<media[i]>>, <<>>)]]

ChatEncode(m, it) ==
  LET parts == [i \in 1..Len(ChatReadable(it.said)) |-> Block(ChatReadable(it.said)[i].k, 0, <<ChatReadable(it.said)[i]>>, <<>>)]
      refused == [m EXCEPT !.err = TRUE]
  IN CASE it.type = "message" /\ it.role = "assistant" ->
            IF ChatSupported(it, "assistant") THEN ChatAssistant(m, parts) ELSE refused
       [] it.type = "message" /\ it.role # "assistant" ->
            IF ChatSupported(it, it.role) THEN [m EXCEPT !.turns = Append(@, Turn(it.role, parts))] ELSE refused
       [] it.type = "function_call" ->
            ChatAssistant(m, <<Block("tool_use", it.id, it.said, <<>>)>>)
       [] it.type = "function_call_output" ->
            IF ChatSupported(it, "output") THEN ChatAnswers(m, it) ELSE refused
       [] it.type = "reasoning" ->
            ChatAssistant(m, <<Block("reasoning", 0, TextOf(it, "reasoning_text", "summary"), <<>>)>>)
       [] OTHER -> refused

ChatStart == [turns |-> <<>>, media |-> <<>>, err |-> FALSE]
ChatStep(m, it) == IF m.err \/ LeftOut(it) THEN m ELSE ChatEncode(FlushMedia(m, it), it)

(* The messages of the first items, for each number of them. *)
ChatInput(items) ==
  LET m[n \in 0..Len(items)] == IF n = 0 THEN ChatStart ELSE ChatStep(m[n - 1], items[n])
      all == m[Len(items)]
  IN IF all.err THEN all ELSE FlushMedia(all, CompactionItem)
=============================================================================
