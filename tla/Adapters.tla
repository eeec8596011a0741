------------------------------- MODULE Adapters -------------------------------
(***************************************************************************)
(* The three provider adapters at both ends of a conversation.  A provider *)
(* streams a response, which its decoder turns into emitter calls; the     *)
(* response is recorded; the client adds items of its own and of other     *)
(* providers; and the conversation is encoded for the next request, to the *)
(* same provider or another.                                               *)
(***************************************************************************)
EXTENDS ChatDecoder, AnthropicDecoder, GeminiDecoder, ChatRequest, ThinkingSettings, FiniteSets

CONSTANTS
  MaxInput,   \* bound on the items of a conversation
  MaxKept     \* bound on the items of a response the client goes on from

ASSUME InputAssumption == MaxInput \in Nat /\ MaxKept \in Nat

VARIABLES
  phase,      \* "stream", "client", "settings"
  input,      \* Request.Input
  settings    \* the rest of the request

allVars == <<vars, decoderVars, phase, input, settings>>

-----------------------------------------------------------------------------
(* A provider streams. *)
Streaming == ChatReads \/ ClaudeReads \/ GeminiReads \/ EmitterCall \/ EmitterEvent

Stream ==
  /\ phase = "stream"
  /\ Streaming
  /\ UNCHANGED <<phase, input, settings>>

(* The response ended and all of it reached the client. *)
Whole == ~running /\ ended /\ view.terminal

(* Of what was said only the kind is kept, and of a signature whose it is. *)
Kept(it, i) ==
  [it EXCEPT !.said = IF @ = <<>> THEN <<>> ELSE <<Piece(@[1].k, 0)>>,
             !.sig = IF @ = <<>> THEN <<>> ELSE <<i>>]

(* A request that asks for nothing but a model. *)
PlainSettings(p) ==
  IF p = "gemini" THEN {[DefaultSettings EXCEPT !.model = m] : m \in Models} ELSE {DefaultSettings}

(* The response joins the conversation, which may change its provider. *)
Record ==
  /\ phase = "stream" /\ Whole /\ Len(dec.items) <= MaxKept
  /\ phase' = "client"
  /\ input' = [i \in 1..Len(dec.items) |-> Kept(Items(dec)[i], i)]
  /\ provider' \in Providers /\ settings' \in PlainSettings(provider')
  /\ heard' = <<>> /\ upstream' = "open" /\ dec' = NewDecoder
  /\ started' = FALSE /\ ended' = FALSE /\ open' = 0 /\ out' = <<>>      \* a new emitter
  /\ pc' = "idle" /\ call' = NoCall /\ running' = TRUE
  /\ view' = Lifecycle!EmptyView /\ last' = Lifecycle!NoEvent

(* What the client may add at place n of the conversation. *)
CallIds == {input[i].id : i \in {j \in 1..Len(input) : input[j].type = "function_call"}}
Answered == {input[i].id : i \in {j \in 1..Len(input) : input[j].type = "function_call_output"}}
Additions(n) ==
  {MessageItem("user", <<Piece(k, 0)>>) : k \in {"text", "media", "anthropic", "sidecar"}}
  \cup {MessageItem("system", <<Piece(k, 0)>>) : k \in {"text", "media"}}
  \cup {MessageItem("assistant", <<Piece(k, 0)>>) : k \in {"text", "gemini"}}
  \cup {CallItemOf(n, <<Piece("arguments", 0)>>), CompactionItem}
  \cup {OutputItem(id, <<Piece(k, 0)>>) : id \in CallIds \ Answered, k \in {"text", "media", "gemini"}}
  \cup {ReasoningItem(by, <<Piece("summary", 0)>>, sig) : by \in {"", "anthropic", "gemini"}, sig \in {<<>>, <<n>>}}
  \cup {ExtensionItem(by, <<Piece("raw", 0)>>, <<>>) : by \in Slugs}

ClientAdds ==
  /\ phase = "client" /\ Len(input) < MaxInput
  /\ \E it \in Additions(Len(input) + 1) : input' = Append(input, it)
  /\ UNCHANGED <<vars, decoderVars, phase, settings>>

ClientAsks ==
  /\ phase = "client" /\ input = <<>> /\ provider \in {"anthropic", "gemini"}
  /\ phase' = "settings"
  /\ settings' \in Settings
  /\ UNCHANGED <<vars, decoderVars, input>>

Done ==
  /\ \/ phase = "stream" /\ ~running
     \/ phase = "client" /\ Len(input) >= MaxInput
     \/ phase = "settings"
  /\ UNCHANGED allVars

AdaptersInit ==
  /\ InitDecoder /\ provider \in Providers
  /\ phase \in {"stream", "client"} /\ input = <<>>
  /\ settings \in IF phase = "client" THEN PlainSettings(provider) ELSE {DefaultSettings}

AdaptersNext == Stream \/ Record \/ ClientAdds \/ ClientAsks \/ Done

AdaptersSpec == AdaptersInit /\ [][AdaptersNext]_allVars

-----------------------------------------------------------------------------
(* What each provider said, read from its frames alone. *)

(* Consecutive pieces of text, or of thinking, are one. *)
Merge(blocks) ==
  LET Step(bs, b) ==
        IF bs # <<>> /\ Last(bs).k = b.k /\ b.k \in {"text", "thought"} /\ b.sig = <<>>
        THEN [bs EXCEPT ![Len(bs)].said = @ \o b.said]
        ELSE Append(bs, [b EXCEPT !.id = 0])
  IN FoldLeft(Step, <<>>, blocks)

HeardOf(kinds, k) ==
  LET ns == SelectSeq([n \in 1..Len(heard) |-> n], LAMBDA n : heard[n].k \in kinds)
  IN [i \in 1..Len(ns) |-> Piece(k, ns[i])]

(* Chat Completions: the fields of the one message. *)
HeardArguments(i) == SelectSeq(HeardOf({"tool"}, "arguments"), LAMBDA p : heard[p.n].i = i /\ heard[p.n].full)
HeardCalls ==       \* the first frames of the calls
  SelectSeq([n \in 1..Len(heard) |-> n], LAMBDA n :
    heard[n].k = "tool" /\ \A m \in 1..n - 1 : heard[m].i # heard[n].i)
ToolFramesAdjoin ==
  \A m, n \in 1..Len(heard) :
    m < n /\ heard[m].k = "tool" /\ heard[n].k = "tool" /\ heard[m].i = heard[n].i =>
      \A j \in m..n : heard[j].k = "tool" /\ heard[j].i = heard[m].i

Field(blocks, k) == FlattenSeq([i \in 1..Len(blocks) |-> IF blocks[i].k = k THEN blocks[i].said ELSE <<>>])
ChatReplayed ==
  LET turns == ChatInput(Items(dec)).turns
      bs    == AllBlocks(turns)
      calls == SelectSeq(bs, LAMBDA b : b.k = "tool_use")
  IN /\ Len(turns) <= 1
     /\ Field(bs, "reasoning") = HeardOf({"reasoning"}, "reasoning_text")
     /\ Field(bs, "text") = HeardOf({"text"}, "text")
     /\ Field(bs, "refusal") = HeardOf({"refusal"}, "refusal")
     /\ [c \in 1..Len(calls) |-> calls[c].said] =
          [c \in 1..Len(HeardCalls) |-> HeardArguments(heard[HeardCalls[c]].i)]

(* Claude: its blocks, but no empty text and no thinking it did not sign. *)
ClaudeKinds == [text |-> "text", tool_use |-> "tool_use", thinking |-> "thinking", raw |-> "extension"]
PieceOf     == [text |-> "text", tool_use |-> "arguments", thinking |-> "summary", raw |-> "raw"]
ClaudeBlocks ==
  LET Step(bs, n) ==
        LET f == heard[n] IN
        CASE f.k = "start" -> Append(bs, Block(ClaudeKinds[f.of], 0, IF f.of = "raw" THEN <<Piece("raw", n)>> ELSE <<>>, <<>>))
          [] f.k = "delta" -> [bs EXCEPT ![Len(bs)].said = Append(@, Piece(PieceOf[f.of], n))]
          [] f.k = "signature" -> [bs EXCEPT ![Len(bs)].sig = Append(@, n)]
          [] OTHER -> bs
      bs == FoldLeft(Step, <<>>, [n \in 1..Len(heard) |-> n])
      Explanation == IF dec.stop = "refusal" /\ Last(heard).full
                     THEN <<Block("text", 0, <<Piece("refusal", Len(heard) + 1)>>, <<>>)>> ELSE <<>>
  IN Merge(SelectSeq(bs, LAMBDA b : ~(b.k = "text" /\ b.said = <<>>) /\ ~(b.k = "thinking" /\ b.sig = <<>>)) \o Explanation)

ClaudeReplayed == Merge(AllBlocks(AnthropicInput(Items(dec)).turns)) = ClaudeBlocks

(***************************************************************************)
(* What providers/PLAN.md says of a turn that Claude pauses: its output is *)
(* replayed.  After every resumption all that Claude said was sent back.   *)
(* The code replays the items the paused turn began, so a turn that goes   *)
(* on with the message of the turn before loses that text when it pauses.  *)
(***************************************************************************)
JustResumed == dec.turn > 1 /\ Reading /\ dec.stop = "" /\ Last(heard).k = "message_delta"
PausedTurnsAreReplayedWhole == JustResumed => Merge(dec.replay) = ClaudeBlocks

(* Gemini: its parts.  It signs the part after its thoughts, and an empty  *)
(* one only to end with a signature; citations come with the text.         *)
GeminiLayout ==
  \A n \in 1..Len(heard) :
    /\ heard[n].k \in {"thought", "extension"} => ~heard[n].sig
    /\ heard[n].k = "empty" /\ heard[n].sig => \A m \in n+1..Len(heard) : heard[m].k = "finish"
    /\ heard[n].k = "grounding" => n > 1 /\ heard[n - 1].k \in {"text", "logprobs", "grounding"}
    /\ heard[n].k = "logprobs" => n > 1 /\ heard[n - 1].k = "text"
PartOf(n) ==
  LET sig == IF heard[n].sig THEN <<n>> ELSE <<>> IN
  CASE heard[n].k = "text"      -> Block("text", 0, <<Piece("text", n)>>, sig)
    [] heard[n].k = "thought"   -> Block("thought", 0, <<Piece("summary", n)>>, sig)
    [] heard[n].k = "call"      -> Block("call", 0, <<Piece("arguments", n)>>, sig)
    [] heard[n].k = "extension" -> Block("extension", 0, <<Piece("raw", n)>>, sig)
    [] OTHER                    -> Block("thought", 0, <<>>, sig)
GeminiParts ==
  LET ns == SelectSeq([n \in 1..Len(heard) |-> n], LAMBDA n :
              heard[n].k \in {"text", "thought", "call", "extension"} \/ (heard[n].k = "empty" /\ heard[n].sig))
  IN Merge([i \in 1..Len(ns) |-> PartOf(ns[i])])

GeminiReplayed == Merge(AllBlocks(GeminiInput(Items(dec)).turns)) = GeminiParts

-----------------------------------------------------------------------------
(* The state has its type, and the decoder holds at most one writer. *)
AdaptersTypeOK ==
  /\ provider \in Providers /\ upstream \in {"open", "ended", "broken"}
  /\ phase \in {"stream", "client", "settings"}
  /\ \A i \in 1..Len(dec.todo) : dec.todo[i].op \in DecoderOps /\ dec.todo[i].w \in 0..Len(dec.items)
  /\ Cardinality({dec.msg, dec.reasoning, dec.call} \ {0}) <= 1
  /\ \A i \in 1..Len(input) : input[i].type \in ItemTypes /\ input[i].role \in Roles

(***************************************************************************)
(* However the provider's frames fall, and wherever a send fails, what the *)
(* decoder writes it writes to the one item that is open: the emitter      *)
(* never has to refuse a call.                                             *)
(***************************************************************************)
WritesReachTheOpenItem == Due(WriterOps \cup {"close"}) => Writer = open /\ ~out[Writer].closed

(***************************************************************************)
(* A response encoded for the provider it came from is what the provider   *)
(* said: every piece of text, thought, call and signature once, in order,  *)
(* and in the place where the provider had put it.                         *)
(***************************************************************************)
ReplayIsWhatWasHeard ==
  phase = "stream" /\ Whole =>
    CASE provider = "chatcompletions" -> ToolFramesAdjoin => ChatReplayed
      [] provider = "anthropic"       -> ClaudeReplayed
      [] OTHER                        -> GeminiLayout => GeminiReplayed

(***************************************************************************)
(* The response ends as the provider said.  It is completed only on a good *)
(* stop reason and with every item completed; when the provider cut it     *)
(* short it is incomplete, every item completed but the one that was being *)
(* streamed, which is marked; a stream that broke, ended early or reported *)
(* an error ends no response.                                              *)
(***************************************************************************)
GoodStop == dec.stop \in ChatGoodStops \cup ClaudeGood \cup {"STOP"}
StreamedLast ==
  LET n == Len(heard) - 1 IN
  /\ dec.items # <<>>
  /\ IF provider = "gemini" THEN n > 0 /\ heard[n].k \in {"text", "thought", "grounding"}
     ELSE Last(dec.items).type # "extension"
EndsAsTheProviderSaid ==
  phase = "stream" =>
    /\ ended => upstream # "broken" /\ ~dec.err
    /\ Whole /\ last.type = "response.completed" =>
         GoodStop /\ \A i \in 1..Len(out) : out[i].status = "completed"
    /\ Whole /\ last.type = "response.incomplete" =>
         /\ ~GoodStop
         /\ \A i \in 1..Len(out) - 1 : out[i].status = "completed"
         /\ StreamedLast => Last(out).status = "incomplete"

-----------------------------------------------------------------------------
(* What a provider is sent of the conversation. *)
Request ==
  CASE provider = "chatcompletions" -> ChatInput(input)
    [] provider = "anthropic"       -> AnthropicInput(input)
    [] OTHER                        -> GeminiInput(input)

(* Gemini 3 validates signatures, whichever encoding WithThinking fixes.   *)
Validates == provider = "gemini" /\ ThinkingFor(settings.model) = "level"

Sent == IF Validates THEN PlaceholderSignatures(Request.turns) ELSE Request.turns
Alone(it) ==
  CASE provider = "chatcompletions" -> ChatInput(<<it>>).turns
    [] provider = "anthropic"       -> AnthropicInput(<<it>>).turns
    [] OTHER                        -> GeminiInput(<<it>>).turns

UserSide(it) == it.type = "function_call_output" \/ (it.type = "message" /\ it.role # "assistant")
Silent(it)   == it.type # "function_call_output" /\ it.role # "system" /\ Alone(it) = <<>>

(* The answer at j came as soon as the call at i allowed. *)
Prompt(i, j) ==
  LET heardItems == {k \in i..j : ~Silent(input[k])} IN
  /\ \A k, l \in heardItems : k < l /\ UserSide(input[k]) => UserSide(input[l])
  /\ provider = "chatcompletions" =>
       \A k \in heardItems : UserSide(input[k]) => input[k].type = "function_call_output"

Has(t, kinds, id) == \E b \in 1..Len(Sent[t].blocks) : Sent[t].blocks[b].k \in kinds /\ Sent[t].blocks[b].id = id
Calls(t, id)   == Has(t, {"tool_use", "call"}, id)
Answers(t, id) == Has(t, {"tool_result", "response"}, id)

(***************************************************************************)
(* An answer that came as soon as its call allowed is sent where providers *)
(* require it: in the user turn right after the turn that made the call,   *)
(* for Claude before the turn's other blocks; for Chat Completions with no *)
(* message but other answers in between.                                   *)
(***************************************************************************)
AnswersFollowTheirCalls ==
  phase = "client" /\ ~Request.err =>
    /\ \A i, j \in 1..Len(input) :
         /\ i < j /\ input[i].type = "function_call" /\ input[j].type = "function_call_output"
         /\ input[i].id = input[j].id /\ Prompt(i, j)
         => \E t \in 1..Len(Sent), u \in 2..Len(Sent) :
              /\ t < u /\ Calls(t, input[i].id) /\ Answers(u, input[i].id)
              /\ IF provider = "chatcompletions"
                 THEN \A v \in t+1..u : Sent[v].role = "tool" ELSE u = t + 1
    /\ provider = "anthropic" =>
         \A t \in 1..Len(Sent) : \A a, b \in 1..Len(Sent[t].blocks) :
           a < b /\ Sent[t].blocks[b].k = "tool_result" => Sent[t].blocks[a].k = "tool_result"

(***************************************************************************)
(* A signature goes back to the provider that wrote it and to no other,    *)
(* once, in order, be it that of a reasoning item or of a part of Gemini's *)
(* own; an unattributed one goes to Claude only.  For Gemini it is on the  *)
(* call it led.  The first call of every step is signed for a model that   *)
(* validates signatures; to any other the adapter adds none of its own.    *)
(***************************************************************************)
Home == CASE provider = "anthropic" -> {"", "anthropic"} [] provider = "gemini" -> {"gemini"} [] OTHER -> {}
OwnReasoning(it) == it.type = "reasoning" /\ it.by \in Home /\ it.sig # <<>>
OwnPart(it)      == it.type = "extension" /\ it.by = "gemini" /\ provider = "gemini" /\ it.sig # <<>>
GoesBack(it)     == IF OwnReasoning(it) \/ OwnPart(it) THEN <<it.sig>> ELSE <<>>
Owned            == FlattenSeq([i \in 1..Len(input) |-> GoesBack(input[i])])
OwnFiller  == IF Validates THEN {<<>>, Placeholder} ELSE {<<>>}   \* signatures nobody wrote
Shown(sig) == IF sig \in OwnFiller THEN <<>> ELSE <<sig>>
SignaturesOf(blocks) == FlattenSeq([i \in 1..Len(blocks) |-> Shown(blocks[i].sig)])
SignaturesGoHome ==
  phase = "client" /\ ~Request.err =>
    /\ SignaturesOf(AllBlocks(Sent)) = Owned
    /\ provider = "gemini" =>
         /\ \A i \in 1..Len(input) - 1 :
              OwnReasoning(input[i]) /\ input[i + 1].type = "function_call" =>
                \E t \in 1..Len(Sent) : \E b \in 1..Len(Sent[t].blocks) :
                  Sent[t].blocks[b].id = input[i + 1].id /\ Sent[t].blocks[b].sig = input[i].sig
         /\ Validates => \A t \in 1..Len(Sent) :
              FirstCall(Sent[t].blocks) # 0 => Sent[t].blocks[FirstCall(Sent[t].blocks)].sig # <<>>

(***************************************************************************)
(* A request that is accepted is sent in a form its provider takes, and    *)
(* what was asked, an effort, a summary, no thinking, is in it.  Claude    *)
(* never gets thinking together with a setting it refuses it with, nor a   *)
(* budget below its minimum or as large as max_tokens, except that a       *)
(* max_tokens which leaves no room for the minimum of 1024 goes with just  *)
(* that, for the API to refuse.  Gemini never gets both a level and a      *)
(* budget, nor a budget that the model does not take.  Asking either for   *)
(* a higher effort never gets a smaller budget.                            *)
(***************************************************************************)
Ladder == <<"none", "minimal", "low", "medium", "high", "xhigh", "max">>
Asking(r, rung) ==
  [r EXCEPT !.effort = IF Ladder[rung] = "max" THEN "xhigh" ELSE Ladder[rung], !.max = Ladder[rung] = "max"]

(* t(r) is what is sent for the settings r. *)
NeverLess(r, kind, t(_)) ==
  \A low, high \in 1..Len(Ladder) :
    low < high /\ t(Asking(r, low)).kind = kind /\ t(Asking(r, high)).kind = kind =>
      t(Asking(r, low)).budget <= t(Asking(r, high)).budget

ClaudeHonours(r, t) ==
  t.refused \/
    /\ t.kind \in {"enabled", "adaptive"} =>
         ~(r.topK \/ r.temperature = "refused" \/ r.topP = "refused" \/ r.choice \in {"required", "function"})
    /\ t.kind = "enabled" =>
         IF r.maxTokens > 1024 THEN t.budget \in 1024..r.maxTokens - 1 ELSE t.budget = 1024
    /\ ClaudeEffort(r) \notin {"unset", "none"} => t.effort = ClaudeEffort(r) \/ t.kind = "enabled"
    /\ ClaudeEffort(r) = "none" => t.kind \in {"disabled", "between_tools"}
    /\ r.summary /\ ClaudeEffort(r) # "none" => t.kind \in {"enabled", "adaptive"} /\ t.shown
GeminiHonours(r, t) ==
  t.refused \/
    /\ r.effort # "unset" =>
         \/ t.kind = "level" /\ t.effort # "unset" /\ t.budget = 0
         \/ t.kind = "budget" /\ t.effort = "unset" /\ t.budget <= MaxBudget(r.model)
    /\ r.summary => t.shown /\ ~(t.kind = "budget" /\ t.budget = 0)
    /\ r.effort = "none" => t.kind = "budget" /\ t.budget = 0
SettingsAreHonoured ==
  phase = "settings" =>
    IF provider = "anthropic"
    THEN \A e \in ClaudeEncodings :
           /\ ClaudeHonours(settings, ClaudeThinking(settings, e))
           /\ NeverLess(settings, "enabled", LAMBDA r : ClaudeThinking(r, e))
    ELSE \A o \in GeminiOptions :
           /\ GeminiHonours(settings, GeminiThinking(settings, o))
           /\ NeverLess(settings, "budget", LAMBDA r : GeminiThinking(r, o))
=============================================================================
