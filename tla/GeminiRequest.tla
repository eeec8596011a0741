----------------------------- MODULE GeminiRequest -----------------------------
(***************************************************************************)
(* How the Gemini adapter turns a conversation into contents and a system  *)
(* instruction (encodeInput, src/providers/gemini/request.go).  `pending`  *)
(* is the thought signature that waits for the next non-thought part of    *)
(* the model turn.                                                         *)
(***************************************************************************)
EXTENDS Transcript

GeminiForeign == {"anthropic", "chatcompletions"}
GeminiReadable(said) == Without(said, GeminiForeign)
GeminiSupported(it, kinds) == \A i \in 1..Len(it.said) : it.said[i].k \in kinds \cup GeminiForeign

Placeholder == <<0>>   \* skip_thought_signature_validator

(* A signature no part came for gets a thought part of its own. *)
FlushSignature(m) ==
  IF m.pending = <<>> THEN m
  ELSE [m EXCEPT !.turns = Join(@, "model", <<Block("thought", 0, <<>>, m.pending)>>), !.pending = <<>>]

(* Mutant: the signature is still pending once a part carries it. *)
GeminiAddAndKeep(m, role, blocks) ==
  IF blocks = <<>> THEN m
  ELSE LET n == IF role # "model" THEN FlushSignature(m) ELSE m
           signs == n.pending # <<>> /\ Head(blocks).k # "thought"
       IN [n EXCEPT !.turns = Join(@, role, IF signs THEN [blocks EXCEPT ![1].sig = n.pending] ELSE blocks)]

GeminiAdd(m, role, blocks) ==
  IF blocks = <<>> THEN m
  ELSE LET held  == m.pending # <<>> /\ Head(blocks).k # "thought"
           signs == held /\ role = "model" /\ Head(blocks).sig = <<>>
           n == IF role # "model" \/ (held /\ ~signs) THEN FlushSignature(m) ELSE m
       IN IF signs
          THEN [n EXCEPT !.turns = Join(@, role, [blocks EXCEPT ![1].sig = m.pending]), !.pending = <<>>]
          ELSE [n EXCEPT !.turns = Join(@, role, blocks)]

GeminiLeads(it) == it.type = "message" /\ it.role = "system"

GeminiEncodeMessage(m, it) ==
  LET blocks == BlocksOf(GeminiReadable(it.said)) IN
  IF \/ ~GeminiSupported(it, {"text", "refusal", "media"})
     \/ it.role = "system" /\ \E i \in 1..Len(blocks) : blocks[i].k # "text"
  THEN [m EXCEPT !.err = TRUE]
  ELSE IF it.role = "system" /\ m.leading THEN [m EXCEPT !.system = @ \o blocks]
  ELSE GeminiAdd(m, IF it.role = "assistant" THEN "model" ELSE "user", blocks)

(* Only a reasoning item this adapter issued goes back. *)
GeminiEncodeReasoning(m, it) ==
  LET text == TextOf(it, "summary", "reasoning_text")
      n == IF text = <<>> THEN m ELSE GeminiAdd(m, "model", <<Block("thought", 0, text, <<>>)>>)
  IN IF it.by # "gemini" THEN m
     ELSE IF it.sig = <<>> THEN n ELSE [FlushSignature(n) EXCEPT !.pending = it.sig]

GeminiEncodeItem(m, it, calls) ==
  CASE it.type = "message"       -> GeminiEncodeMessage(m, it)
    [] it.type = "function_call" -> GeminiAdd(m, "model", <<Block("call", it.id, it.said, <<>>)>>)
    [] it.type = "function_call_output" ->
         IF it.id \in calls /\ GeminiSupported(it, {"text", "media"})
         THEN GeminiAdd(m, "user", <<Block("response", it.id, GeminiReadable(it.said), <<>>)>>)
         ELSE [m EXCEPT !.err = TRUE]
    [] it.type = "reasoning" -> GeminiEncodeReasoning(m, it)
    [] it.type = "extension" ->
         IF it.by \in GeminiForeign THEN m
         ELSE IF it.by = "gemini" THEN GeminiAdd(m, "model", <<Block("extension", 0, it.said, it.sig)>>)
         ELSE [m EXCEPT !.err = TRUE]
    [] OTHER -> [m EXCEPT !.err = TRUE]

GeminiStart == [turns |-> <<>>, system |-> <<>>, pending |-> <<>>, leading |-> TRUE, err |-> FALSE]
GeminiStep(m, it, calls) ==
  IF m.err THEN m ELSE GeminiEncodeItem([m EXCEPT !.leading = @ /\ GeminiLeads(it)], it, calls)

(* The calls that an output may answer, by id. *)
CallsIn(items) == {items[i].id : i \in {j \in 1..Len(items) : items[j].type = "function_call"}}

GeminiInput(items) ==
  LET m[n \in 0..Len(items)] == IF n = 0 THEN GeminiStart ELSE GeminiStep(m[n - 1], items[n], CallsIn(items))
  IN FlushSignature(m[Len(items)])

(* The first call of a model step, where Gemini 3 wants a signature. *)
FirstCall(blocks) == SelectInSeq(blocks, LAMBDA b : b.k = "call")

PlaceholderSignatures(turns) ==
  [i \in 1..Len(turns) |->
     LET bs == turns[i].blocks
         c  == FirstCall(bs)
     IN IF turns[i].role = "model" /\ c # 0 /\ bs[c].sig = <<>>
        THEN Turn("model", [bs EXCEPT ![c].sig = Placeholder]) ELSE turns[i]]
=============================================================================
