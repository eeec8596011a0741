---------------------------- MODULE AdapterProofs -----------------------------
(***************************************************************************)
(* What the three provider adapters do with their responses, for every     *)
(* stream of frames and every conversation.  Their decoders are adapters   *)
(* in the sense of Emitter, so that what is proved of the emitter holds of *)
(* the streams they produce.  DInv ties a decoder's plan to what the       *)
(* emitter holds open, from which no write goes to a closed item; EInv     *)
(* adds how a response was ended, from which it ends as the provider said. *)
(***************************************************************************)
EXTENDS DecoderProofs, RequestProofs, FiniteSetTheorems

(* One response of one provider, from its request to the adapter's return. *)
StreamSpec == InitDecoder /\ [][Streaming]_<<vars, decoderVars>>

(* Reading a frame touches the decoder only. *)
LEMMA ReadingKeepsTheEmitter ==
  ASSUME ChatReads \/ ClaudeReads \/ GeminiReads
  PROVE  UNCHANGED vars
<1>1. ASSUME NEW f, NEW s, Hear(f, s) \/ EndOfStream("ended", s) \/ EndOfStream("broken", s)
      PROVE  UNCHANGED vars
  BY <1>1 DEF Hear, EndOfStream
<1>2. CASE ChatReads
  BY <1>1, <1>2 DEF ChatReads
<1>3. CASE ClaudeReads
  BY <1>1, <1>3 DEF ClaudeReads, ClaudeResumes
<1>4. CASE GeminiReads
  BY <1>1, <1>4 DEF GeminiReads
<1> QED BY <1>2, <1>3, <1>4

(* A call of a decoder is a call of Emitter, or sends nothing. *)
LEMMA CallIsAnAdaptersCall ==
  ASSUME EmitterCall
  PROVE  AdapterCall \/ UNCHANGED vars
<1>1. CASE CallOpens
  BY <1>1 DEF CallOpens, AdapterCall
<1>2. CASE CallItem
  BY <1>2 DEF CallItem, AdapterCall, Lifecycle!ItemStatus
<1>3. CASE CallWrites
  <2>1. Writer \in 1..Len(out)
    BY <1>3 DEF CallWrites, Text, Refusal, Annotation, Logprobs, Write, Arguments, Summary,
       ReasoningText, Live
  <2> QED BY <1>3, <2>1 DEF CallWrites, AdapterCall
<1>4. CASE CallCloses
  <2>1. Writer \in 1..Len(out)
    BY <1>4 DEF CallCloses, CloseWriter
  <2> QED BY <1>4, <2>1 DEF CallCloses, AdapterCall
<1>5. CASE CallSendsNothing
  BY <1>5 DEF CallSendsNothing
<1>6. CASE CallEnds \/ CallReturns \/ CallFails
  BY <1>6 DEF CallEnds, CallReturns, CallFails, AdapterCall
<1> QED BY <1>1, <1>2, <1>3, <1>4, <1>5, <1>6 DEF EmitterCall

LEMMA StreamingStep ==
  ASSUME [Streaming]_<<vars, decoderVars>>
  PROVE  [Next]_vars
<1>1. CASE ChatReads \/ ClaudeReads \/ GeminiReads
  BY <1>1, ReadingKeepsTheEmitter
<1>2. CASE EmitterCall
  BY <1>2, CallIsAnAdaptersCall DEF Next
<1>3. CASE EmitterEvent
  BY <1>3 DEF EmitterEvent, Next
<1> QED BY <1>1, <1>2, <1>3 DEF Streaming

(***************************************************************************)
(* The Chat Completions, Anthropic and Gemini decoders drive the emitter   *)
(* as its specification lets an adapter drive it, whatever the provider    *)
(* streams (src/chatcompletions/response.go and                            *)
(* src/providers/*/response.go).                                           *)
(***************************************************************************)
THEOREM DecodersAreAdapters == StreamSpec => Spec
<1>1. InitDecoder => Init
  BY DEF InitDecoder
<1> QED BY <1>1, StreamingStep, PTL DEF StreamSpec, Spec

(***************************************************************************)
(* What a client reads of any provider's response is a stream that         *)
(* streamtest.Validate accepts.                                            *)
(***************************************************************************)
THEOREM DecodersFollowTheLifecycle == StreamSpec => ImplementsLifecycle
BY DecodersAreAdapters, LifecycleImplemented

(***************************************************************************)
(* The terminal event of any provider's response lists its items in their  *)
(* final form.                                                             *)
(***************************************************************************)
THEOREM DecodersEndFinally == StreamSpec => []TerminalStatuses
BY DecodersAreAdapters, TerminalItemsAreFinal

-----------------------------------------------------------------------------
(***************************************************************************)
(* What a request asks of the model's thinking, for every request.         *)
(***************************************************************************)
(* Claude's budget for every effort it may be asked for. *)
LEMMA BudgetFits ==
  ASSUME NEW effort \in {"low", "medium", "high", "xhigh", "max"}, NEW maxTokens \in Nat
  PROVE  IF maxTokens > 1024 THEN Budget(effort, maxTokens) \in 1024..maxTokens - 1
         ELSE Budget(effort, maxTokens) = 1024
<1>1. Budgets[effort] \in Nat /\ Budgets[effort] >= 1024
  BY DEF Budgets
<1> QED BY <1>1 DEF Budget

(* A larger budget asked for is no smaller one sent. *)
LEMMA BudgetGrows ==
  ASSUME NEW x \in {"low", "medium", "high", "xhigh", "max"}, NEW y \in {"low", "medium", "high", "xhigh", "max"},
         Budgets[x] <= Budgets[y], NEW maxTokens \in Nat
  PROVE  Budget(x, maxTokens) <= Budget(y, maxTokens)
<1>1. \A z \in {"low", "medium", "high", "xhigh", "max"} : Budgets[z] \in Nat
  BY DEF Budgets
<1> QED BY <1>1 DEF Budget

LEMMA RefusedIs == Refused.refused
<1>1. \A x : [refused |-> TRUE, kind |-> x, effort |-> x, budget |-> 0, shown |-> FALSE].refused
  OBVIOUS
<1> QED BY <1>1, Zenon DEF Refused

LEMMA SettingsTyped ==
  ASSUME NEW r \in Settings
  PROVE  /\ r.effort \in Efforts /\ r.max \in BOOLEAN /\ r.summary \in BOOLEAN /\ r.maxTokens \in Nat /\ r.model \in Models
<1>1. TokenLimits \cup {DefaultMaxTokens} \subseteq Nat
  BY LimitsAssumption DEF DefaultMaxTokens
<1> QED BY <1>1 DEF Settings

LEMMA ClaudeEfforts ==
  ASSUME NEW r \in Settings
  PROVE  ClaudeEffort(r) \in {"unset", "none", "low", "medium", "high", "xhigh", "max"}
<1>1. CASE r.max
  BY <1>1 DEF ClaudeEffort
<1>2. CASE ~r.max
  <2>1. r.effort \in Efforts
    BY SettingsTyped
  <2> QED BY <1>2, <2>1 DEF ClaudeEffort, Efforts
<1> QED BY <1>1, <1>2

LEMMA ClaudeKeepsTheSettings ==
  ASSUME NEW r \in Settings, NEW e \in ClaudeEncodings
  PROVE  ClaudeHonours(r, ClaudeThinking(r, e))
<1> DEFINE effort == ClaudeEffort(r)
<1>1. effort \in {"unset", "none", "low", "medium", "high", "xhigh", "max"}
  BY ClaudeEfforts
<1>2. Conflicts(r) <=> \/ r.choice \in {"required", "function"} \/ r.temperature = "refused"
                       \/ r.topP = "refused" \/ r.topK
  BY DEF Conflicts
<1>3. ClaudeHonours(r, Refused)
  BY RefusedIs DEF ClaudeHonours
<1>4. CASE effort = "none"
  <2>1. \/ ClaudeThinking(r, e) = Refused
        \/ ClaudeThinking(r, e) = Thinks("between_tools", "unset", 0, FALSE)
        \/ ClaudeThinking(r, e) = Thinks("disabled", "unset", 0, FALSE)
    BY <1>4 DEF ClaudeThinking
  <2>2. ASSUME NEW kind \in {"between_tools", "disabled"}
        PROVE  ClaudeHonours(r, Thinks(kind, "unset", 0, FALSE))
    BY <1>4, Zenon DEF ClaudeHonours, Thinks
  <2> QED BY <1>3, <2>1, <2>2
<1>5. CASE effort = "unset" /\ ~r.summary
  BY <1>5 DEF ClaudeThinking, ClaudeHonours, Thinks, Refused
<1>6. CASE effort # "none" /\ (effort # "unset" \/ r.summary) /\ Conflicts(r)
  <2>1. \/ ClaudeThinking(r, e) = Refused
        \/ ClaudeThinking(r, e) = Thinks("unset", effort, 0, FALSE) /\ ~r.summary
    BY <1>6 DEF ClaudeThinking
  <2>2. ~r.summary => ClaudeHonours(r, Thinks("unset", effort, 0, FALSE))
    BY <1>6, Zenon DEF ClaudeHonours, Thinks
  <2> QED BY <1>3, <2>1, <2>2
<1>7. CASE effort # "none" /\ (effort # "unset" \/ r.summary) /\ ~Conflicts(r)
  <2>1. CASE e = "budget"
    <3>1. PICK x \in {"low", "medium", "high", "xhigh", "max"} :
            x = IF effort = "unset" THEN "high" ELSE effort
      BY <1>1, <1>7
    <3> DEFINE b == Budget(x, r.maxTokens)
    <3>2. IF r.maxTokens > 1024 THEN b \in 1024..r.maxTokens - 1 ELSE b = 1024
      <4>1. r.maxTokens \in Nat
        BY SettingsTyped
      <4> QED BY <4>1, BudgetFits
    <3>3. ClaudeThinking(r, e) = Thinks("enabled", "unset", b, TRUE)
      BY <1>7, <2>1, <3>1 DEF ClaudeThinking
    <3> HIDE DEF b
    <3>4. ClaudeHonours(r, Thinks("enabled", "unset", b, TRUE))
      BY <1>2, <1>7, <3>2, ZenonT(40) DEF ClaudeHonours, Thinks
    <3> QED BY <3>3, <3>4
  <2>2. CASE e # "budget"
    <3>1. ClaudeThinking(r, e) = Thinks("adaptive", effort, 0, r.summary)
      BY <1>7, <2>2 DEF ClaudeThinking
    <3>2. ClaudeHonours(r, Thinks("adaptive", effort, 0, r.summary))
      BY <1>2, <1>7, Zenon DEF ClaudeHonours, Thinks
    <3> QED BY <3>1, <3>2
  <2> QED BY <2>1, <2>2
<1> QED BY <1>4, <1>5, <1>6, <1>7

(* The settings that ask for a rung of the ladder. *)
LEMMA AskingIs ==
  ASSUME NEW r \in Settings, NEW rung \in 1..Len(Ladder)
  PROVE  /\ Len(Ladder) = 7 /\ Asking(r, rung) \in Settings
         /\ Asking(r, rung).maxTokens = r.maxTokens /\ Asking(r, rung).model = r.model
         /\ Asking(r, rung).effort = (IF rung = 7 THEN "xhigh" ELSE Ladder[rung])
         /\ ClaudeEffort(Asking(r, rung)) = (IF rung = 2 THEN "low" ELSE Ladder[rung])
<1>1. Len(Ladder) = 7
  BY DEF Ladder
<1>2. rung \in 1..7
  BY <1>1
<1>3. Ladder[rung] \in Efforts \cup {"max"} /\ (Ladder[rung] = "max" <=> rung = 7)
      /\ (Ladder[rung] = "minimal" <=> rung = 2)
  BY <1>2 DEF Ladder, Efforts
<1>4. PICK effort, m : effort = (IF rung = 7 THEN "xhigh" ELSE Ladder[rung]) /\ m = (rung = 7)
  OBVIOUS
<1>5. effort \in Efforts /\ m \in BOOLEAN
  BY <1>3, <1>4 DEF Efforts
<1>6. Asking(r, rung) = [r EXCEPT !.effort = effort, !.max = m]
  BY <1>3, <1>4 DEF Asking
<1>7. PICK q : q = [r EXCEPT !.effort = effort, !.max = m]
  OBVIOUS
<1>8. q \in Settings /\ q.maxTokens = r.maxTokens /\ q.model = r.model /\ q.effort = effort /\ q.max = m
  BY <1>5, <1>7 DEF Settings
<1>9. ClaudeEffort(q) = (IF rung = 2 THEN "low" ELSE Ladder[rung])
  BY <1>2, <1>3, <1>4, <1>8 DEF ClaudeEffort, Ladder
<1> QED BY <1>1, <1>4, <1>6, <1>7, <1>8, <1>9

(* What Claude is sent for a rung, when it is a budget. *)
LEMMA ClaudeRung ==
  ASSUME NEW r \in Settings, NEW e \in ClaudeEncodings, NEW rung \in 1..Len(Ladder),
         ClaudeThinking(Asking(r, rung), e).kind = "enabled"
  PROVE  LET x == IF rung = 2 THEN "low" ELSE Ladder[rung] IN
         rung \in 2..7 /\ ClaudeThinking(Asking(r, rung), e).budget = Budget(x, r.maxTokens)
<1>1. PICK q \in Settings : q = Asking(r, rung) /\ q.maxTokens = r.maxTokens
                            /\ ClaudeEffort(q) = (IF rung = 2 THEN "low" ELSE Ladder[rung])
  BY AskingIs
<1>2. rung \in 1..7
  BY AskingIs
<1> DEFINE x == IF rung = 2 THEN "low" ELSE Ladder[rung]
<1>3. x # "unset" /\ (x = "none" <=> rung = 1)
  BY <1>2 DEF Ladder
<1>4. PICK b : b = Budget(x, q.maxTokens)
  OBVIOUS
<1> HIDE DEF x
<1>5. Refused.kind = "unset"
  <2>1. \A y : [refused |-> TRUE, kind |-> y, effort |-> y, budget |-> 0, shown |-> FALSE].kind = y
    OBVIOUS
  <2> QED BY <2>1, Zenon DEF Refused
<1>6. ClaudeThinking(q, e) = Thinks("enabled", "unset", b, TRUE) /\ rung # 1
  <2>1. ClaudeEffort(q) = x /\ x # "unset" /\ ClaudeThinking(q, e).kind = "enabled"
    BY <1>1, <1>3 DEF x
  <2>2. x # "none"
    <3> SUFFICES ASSUME x = "none" PROVE FALSE
      OBVIOUS
    <3>1. ClaudeThinking(q, e) = IF e = "always_on" THEN Refused
            ELSE Thinks(IF e = "between_tools" THEN "between_tools" ELSE "disabled", "unset", 0, FALSE)
      BY <2>1 DEF ClaudeThinking
    <3>2. CASE e = "always_on"
      <4>1. ClaudeThinking(q, e) = Refused
        BY <3>1, <3>2, Zenon
      <4> QED BY <4>1, <2>1, <1>5
    <3>3. CASE e # "always_on"
      <4>1. PICK k \in {"between_tools", "disabled"} : ClaudeThinking(q, e) = Thinks(k, "unset", 0, FALSE)
        BY <3>1, <3>3, Zenon
      <4>2. ClaudeThinking(q, e).kind = k
        BY <4>1 DEF Thinks
      <4> QED BY <4>2, <2>1
    <3> QED BY <3>2, <3>3
  <2>3. ~Conflicts(q)
    <3> SUFFICES ASSUME Conflicts(q) PROVE FALSE
      OBVIOUS
    <3>1. ClaudeThinking(q, e) = IF q.summary \/ e = "budget" THEN Refused ELSE Thinks("unset", x, 0, FALSE)
      BY <2>1, <2>2 DEF ClaudeThinking
    <3>2. ClaudeThinking(q, e) = Refused \/ ClaudeThinking(q, e) = Thinks("unset", x, 0, FALSE)
      BY <3>1, Zenon
    <3>3. Thinks("unset", x, 0, FALSE).kind = "unset"
      BY DEF Thinks
    <3>4. ClaudeThinking(q, e).kind = "unset"
      BY <3>2, <3>3, <1>5, Zenon
    <3> QED BY <3>4, <2>1
  <2>4. ClaudeThinking(q, e) = IF e = "budget" THEN Thinks("enabled", "unset", Budget(x, q.maxTokens), TRUE)
                               ELSE Thinks("adaptive", x, 0, q.summary)
    BY <2>1, <2>2, <2>3 DEF ClaudeThinking
  <2>5. e = "budget"
    <3> SUFFICES ASSUME e # "budget" PROVE FALSE
      OBVIOUS
    <3>1. ClaudeThinking(q, e) = Thinks("adaptive", x, 0, q.summary)
      BY <2>4, Zenon
    <3>2. ClaudeThinking(q, e).kind = "adaptive"
      BY <3>1 DEF Thinks
    <3> QED BY <3>2, <2>1
  <2> QED BY <2>2, <2>4, <2>5, <1>3, <1>4
<1>7. ClaudeThinking(q, e).budget = b
  BY <1>6 DEF Thinks
<1>8. rung \in 2..7
  BY <1>2, <1>6
<1> QED BY <1>1, <1>4, <1>7, <1>8 DEF x

LEMMA ClaudeNeverLess ==
  ASSUME NEW r \in Settings, NEW e \in ClaudeEncodings
  PROVE  NeverLess(r, "enabled", LAMBDA q : ClaudeThinking(q, e))
<1> SUFFICES ASSUME NEW low \in 1..Len(Ladder), NEW high \in 1..Len(Ladder), low < high,
                    ClaudeThinking(Asking(r, low), e).kind = "enabled",
                    ClaudeThinking(Asking(r, high), e).kind = "enabled"
             PROVE  ClaudeThinking(Asking(r, low), e).budget <= ClaudeThinking(Asking(r, high), e).budget
  BY DEF NeverLess
<1> DEFINE X(rung) == IF rung = 2 THEN "low" ELSE Ladder[rung]
<1>1. /\ low \in 2..7 /\ ClaudeThinking(Asking(r, low), e).budget = Budget(X(low), r.maxTokens)
      /\ high \in 2..7 /\ ClaudeThinking(Asking(r, high), e).budget = Budget(X(high), r.maxTokens)
  BY ClaudeRung
<1>2. ASSUME NEW rung \in 2..7
      PROVE  /\ X(rung) \in {"low", "medium", "high", "xhigh", "max"}
             /\ rung = 2 => Budgets[X(rung)] = 1024
             /\ rung = 3 => Budgets[X(rung)] = 1024
             /\ rung = 4 => Budgets[X(rung)] = 4096
             /\ rung = 5 => Budgets[X(rung)] = 16384
             /\ rung = 6 => Budgets[X(rung)] = 24576
             /\ rung = 7 => Budgets[X(rung)] = 32000
  BY DEF Ladder, Budgets
<1>3. Budgets[X(low)] <= Budgets[X(high)]
  <2> HIDE DEF X
  <2> QED BY <1>1, <1>2
<1>4. r.maxTokens \in Nat
  BY SettingsTyped
<1>5. PICK x, y \in {"low", "medium", "high", "xhigh", "max"} : x = X(low) /\ y = X(high)
  BY <1>1, <1>2
<1>6. Budget(x, r.maxTokens) <= Budget(y, r.maxTokens)
  BY <1>3, <1>4, <1>5, BudgetGrows
<1> HIDE DEF X
<1> QED BY <1>1, <1>5, <1>6

(* Gemini's budget for every effort it may be asked for. *)
LEMMA GeminiBudgetFits ==
  ASSUME NEW model \in Models, NEW effort \in Efforts \ {"unset"}
  PROVE  /\ GeminiBudget(effort, model) \in 0..MaxBudget(model)
         /\ GeminiBudget(effort, model) = 0 <=> effort = "none"
<1>1. MaxBudget(model) \in {24576, 32768}
  BY DEF MaxBudget
<1>2. CASE effort = "xhigh"
  BY <1>1, <1>2 DEF GeminiBudget
<1>3. CASE effort \in {"none", "minimal", "low", "medium", "high"}
  <2>1. PICK b : b = EffortBudgets[effort]
    OBVIOUS
  <2>2. b \in Nat /\ b <= 24576 /\ (b = 0 <=> effort = "none")
    <3>1. /\ EffortBudgets["none"] = 0 /\ EffortBudgets["minimal"] = 512 /\ EffortBudgets["low"] = 4096
          /\ EffortBudgets["medium"] = 8192 /\ EffortBudgets["high"] = 24576
      BY DEF EffortBudgets
    <3> QED BY <1>3, <2>1, <3>1
  <2>3. GeminiBudget(effort, model) = b
    BY <1>3, <2>1 DEF GeminiBudget
  <2>4. PICK m \in Nat : m = MaxBudget(model) /\ 24576 <= m
    BY <1>1
  <2> QED BY <2>2, <2>3, <2>4
<1> QED BY <1>2, <1>3 DEF Efforts

LEMMA GeminiKeepsTheSettings ==
  ASSUME NEW r \in Settings, NEW o \in GeminiOptions
  PROVE  GeminiHonours(r, GeminiThinking(r, o))
<1>1. r.effort \in Efforts /\ r.model \in Models
  BY SettingsTyped
<1>2. PICK e : e = IF o = "auto" THEN ThinkingFor(r.model) ELSE o
  OBVIOUS
<1>3. CASE r.effort = "unset"
  BY <1>3 DEF GeminiThinking, GeminiHonours, Thinks, Refused
<1>4. CASE r.effort = "none" /\ r.summary
  BY <1>4 DEF GeminiThinking, GeminiHonours, Refused
<1>5. CASE r.effort # "unset" /\ (r.effort = "none" => ~r.summary) /\ (r.effort = "none" \/ e = "budget")
  <2> DEFINE b == GeminiBudget(r.effort, r.model)
  <2>1. GeminiThinking(r, o) = Thinks("budget", "unset", b, r.summary)
    BY <1>2, <1>5 DEF GeminiThinking
  <2>2. (b = 0 <=> r.effort = "none") /\ b <= MaxBudget(r.model)
    BY <1>1, <1>5, GeminiBudgetFits DEF MaxBudget
  <2> HIDE DEF b
  <2>3. GeminiHonours(r, Thinks("budget", "unset", b, r.summary))
    BY <1>5, <2>2, Zenon DEF GeminiHonours, Thinks
  <2> QED BY <2>1, <2>3 DEF b
<1>6. CASE r.effort \notin {"unset", "none"} /\ e # "budget"
  BY <1>2, <1>6 DEF GeminiThinking, GeminiHonours, Thinks, Refused
<1> QED BY <1>3, <1>4, <1>5, <1>6

LEMMA GeminiNeverLess ==
  ASSUME NEW r \in Settings, NEW o \in GeminiOptions
  PROVE  NeverLess(r, "budget", LAMBDA q : GeminiThinking(q, o))
<1> SUFFICES ASSUME NEW low \in 1..Len(Ladder), NEW high \in 1..Len(Ladder), low < high,
                    GeminiThinking(Asking(r, low), o).kind = "budget",
                    GeminiThinking(Asking(r, high), o).kind = "budget"
             PROVE  GeminiThinking(Asking(r, low), o).budget <= GeminiThinking(Asking(r, high), o).budget
  BY DEF NeverLess
<1> DEFINE X(rung) == IF rung = 7 THEN "xhigh" ELSE Ladder[rung]
<1>1. ASSUME NEW rung \in 1..Len(Ladder), GeminiThinking(Asking(r, rung), o).kind = "budget"
      PROVE  rung \in 1..7 /\ GeminiThinking(Asking(r, rung), o).budget = GeminiBudget(X(rung), r.model)
  <2>1. PICK q \in Settings : q = Asking(r, rung) /\ q.effort = X(rung) /\ q.model = r.model
    BY AskingIs
  <2>2. rung \in 1..7
    BY AskingIs
  <2>3. PICK b : b = GeminiBudget(q.effort, q.model)
    OBVIOUS
  <2>4. \A kind, f, c, shown : /\ Thinks(kind, f, c, shown).kind = kind
                               /\ Thinks(kind, f, c, shown).budget = c
    BY DEF Thinks
  <2>5. Refused.kind = "unset"
    <3>1. \A y : [refused |-> TRUE, kind |-> y, effort |-> y, budget |-> 0, shown |-> FALSE].kind = y
      OBVIOUS
    <3> QED BY <3>1, Zenon DEF Refused
  <2>6. GeminiThinking(q, o) = Thinks("budget", "unset", b, q.summary)
    BY <1>1, <2>1, <2>3, <2>4, <2>5 DEF GeminiThinking
  <2> QED BY <2>1, <2>2, <2>3, <2>4, <2>6
<1>2. ASSUME NEW rung \in 1..7
      PROVE  /\ rung = 1 => GeminiBudget(X(rung), r.model) = 0
             /\ rung = 2 => GeminiBudget(X(rung), r.model) = 512
             /\ rung = 3 => GeminiBudget(X(rung), r.model) = 4096
             /\ rung = 4 => GeminiBudget(X(rung), r.model) = 8192
             /\ rung = 5 => GeminiBudget(X(rung), r.model) = 24576
             /\ rung \in 6..7 => GeminiBudget(X(rung), r.model) = MaxBudget(r.model)
  BY DEF Ladder, GeminiBudget, EffortBudgets
<1>3. MaxBudget(r.model) \in {24576, 32768}
  BY DEF MaxBudget
<1>4. /\ low \in 1..7 /\ GeminiThinking(Asking(r, low), o).budget = GeminiBudget(X(low), r.model)
      /\ high \in 1..7 /\ GeminiThinking(Asking(r, high), o).budget = GeminiBudget(X(high), r.model)
  BY <1>1
<1> HIDE DEF X
<1> QED BY <1>2, <1>3, <1>4

(* The request's settings, and who may be asked with them. *)
Asked == settings \in Settings /\ (phase = "settings" => provider \in {"anthropic", "gemini"})

LEMMA PlainIsAsked ==
  ASSUME NEW p
  PROVE  DefaultSettings \in Settings /\ PlainSettings(p) \subseteq Settings
<1>1. DefaultSettings \in Settings
  BY DEF DefaultSettings, Settings, Efforts, Models
<1>2. ASSUME NEW m \in Models
      PROVE  [DefaultSettings EXCEPT !.model = m] \in Settings
  BY <1>1 DEF Settings
<1> QED BY <1>1, <1>2 DEF PlainSettings

LEMMA AskedStep ==
  ASSUME Asked, [AdaptersNext]_allVars
  PROVE  Asked'
<1>1. CASE Stream
  BY <1>1 DEF Stream, Asked
<1>2. CASE Record
  BY <1>2, PlainIsAsked DEF Record, Asked
<1>3. CASE ClientAdds
  BY <1>3 DEF ClientAdds, Asked, decoderVars
<1>4. CASE ClientAsks
  BY <1>4 DEF ClientAsks, Asked, decoderVars
<1>5. CASE UNCHANGED allVars
  BY <1>5 DEF allVars, Asked, decoderVars
<1> QED BY <1>1, <1>2, <1>3, <1>4, <1>5 DEF AdaptersNext, Done

(***************************************************************************)
(* Whatever a request asks of the model's thinking, and whatever token     *)
(* limits requests have, what is accepted of it is sent in a form Claude   *)
(* or Gemini takes, whichever way the model takes it (encodeReasoning of   *)
(* src/providers/anthropic/request.go and src/providers/gemini/request.go).*)
(* Where max_tokens is 1024 or less no budget fits, and Claude is asked    *)
(* for 1024 all the same.                                                  *)
(***************************************************************************)
THEOREM SettingsReachTheProvider == AdaptersSpec => []SettingsAreHonoured
<1>1. AdaptersInit => Asked
  BY PlainIsAsked DEF AdaptersInit, Asked
<1>2. Asked /\ [AdaptersNext]_allVars => Asked'
  BY AskedStep
<1>3. Asked => SettingsAreHonoured
  BY ClaudeKeepsTheSettings, GeminiKeepsTheSettings, ClaudeNeverLess, GeminiNeverLess
     DEF Asked, SettingsAreHonoured
<1> QED BY <1>1, <1>2, <1>3, PTL DEF AdaptersSpec

-----------------------------------------------------------------------------
(***************************************************************************)
(* The invariant of an adapter: while CreateStream runs, the decoder's     *)
(* plan continues what the emitter will have done after the running call,  *)
(* and the decoder holds the writer that the plan leaves open, or is done. *)
(***************************************************************************)
Going == Sound(dec, Held, ItemsSoon) /\ Shape(dec, OpenBlock, LastKind)

DInv ==
  /\ provider \in Providers /\ upstream \in {"open", "ended", "broken"}
  /\ heard \in Seq(Frames) /\ Typed(dec)
  /\ running => Going \/ Finished(dec, Held, ItemsSoon)

(* The end of the response, if it is planned, is the one the provider gave. *)
Verdict ==
  /\ \A j \in 1..Len(dec.todo) :
       /\ dec.todo[j].op = "complete" => upstream # "broken" /\ GoodStop
       /\ dec.todo[j].op = "incomplete" => upstream # "broken" /\ ~GoodStop
  /\ StreamedLast => Marks(dec.todo, Held)

LEMMA SameHeld ==
  ASSUME UNCHANGED vars
  PROVE  /\ Held' = Held /\ ItemsSoon' = ItemsSoon /\ running' = running /\ pc' = pc
         /\ ended' = ended /\ call' = call /\ out' = out
BY DEF vars, emitterVars, Held, ItemsSoon, NeedsClose, N

LEMMA ReadingGoes ==
  ASSUME DInv, Reading
  PROVE  Going /\ dec.todo = <<>> /\ running /\ pc = "idle" /\ upstream = "open"
BY DEF DInv, Reading, Finished

LEMMA UndecidedVerdict ==
  ASSUME NEW s, NEW h, NEW n, Sound(s, h, n), NEW j \in 1..Len(s.todo)
  PROVE  s.todo[j].op \notin Ends
BY EndsLast DEF Sound

LEMMA Undecided ==
  ASSUME NEW h, NEW n, Sound(dec', h, n)
  PROVE  Verdict'
<1>1. \A j \in 1..Len(dec'.todo) : dec'.todo[j].op \notin {"complete", "incomplete"}
  BY UndecidedVerdict DEF Ends
<1> QED BY <1>1 DEF Verdict, Marks

LEMMA StreamedLastIs ==
  ASSUME StreamedLast', provider' = provider, NEW kind,
         provider = "gemini" /\ Len(heard') - 1 > 0 => heard'[Len(heard') - 1].k = kind
  PROVE  Cut(dec', kind)
BY DEF StreamedLast, Cut, StreamedKinds, Last

LEMMA DecidedVerdict ==
  ASSUME NEW n, NEW kind, Decided(dec', Held', n, kind),
         StreamedLast' => Cut(dec', kind),
         upstream' = "broken" => EndsOnlyBy(dec'.todo, "fail")
  PROVE  Verdict'
<1>1. GoodStop' <=> dec'.stop \in GoodStops
  BY DEF GoodStop, GoodStops
<1>2. CASE EndsOnlyBy(dec'.todo, "fail")
  <2>1. \A j \in 1..Len(dec'.todo) : dec'.todo[j].op \notin {"complete", "incomplete"}
    BY <1>2 DEF EndsOnlyBy
  <2> QED BY <2>1 DEF Verdict, Marks
<1>3. CASE EndsOnlyBy(dec'.todo, "complete") /\ dec'.stop \in GoodStops /\ upstream' # "broken"
  <2>1. \A j \in 1..Len(dec'.todo) : dec'.todo[j].op # "incomplete"
    BY <1>3 DEF EndsOnlyBy
  <2> QED BY <1>1, <1>3, <2>1 DEF Verdict, Marks
<1>4. CASE /\ EndsOnlyBy(dec'.todo, "incomplete") /\ dec'.stop \notin GoodStops
           /\ Cut(dec', kind) => Marks(dec'.todo, Held')
           /\ upstream' # "broken"
  <2>1. \A j \in 1..Len(dec'.todo) : dec'.todo[j].op # "complete"
    BY <1>4 DEF EndsOnlyBy
  <2> QED BY <1>1, <1>4, <2>1 DEF Verdict
<1> QED BY <1>2, <1>3, <1>4 DEF Decided

Shaped == Shape(dec, OpenBlock, LastKind)

LEMMA GoesOn ==
  ASSUME DInv, Reading, UNCHANGED vars, provider' = provider,
         heard' \in Seq(Frames), upstream' = upstream, Sound(dec', Held, ItemsSoon), Shaped'
  PROVE  DInv' /\ Verdict'
<1>1. /\ Held' = Held /\ ItemsSoon' = ItemsSoon
      /\ provider \in Providers /\ upstream \in {"open", "ended", "broken"}
  BY SameHeld DEF DInv
<1>2. Typed(dec')
  BY DEF Sound
<1>3. Going'
  BY <1>1 DEF Going, Shaped
<1>4. DInv'
  BY <1>1, <1>2, <1>3 DEF DInv
<1> QED BY <1>4, Undecided

LEMMA Decides ==
  ASSUME DInv, Reading, UNCHANGED vars, provider' = provider,
         heard' \in Seq(Frames), upstream' \in {"open", "ended", "broken"},
         NEW kind, Decided(dec', Held, ItemsSoon, kind),
         provider = "gemini" /\ Len(heard') - 1 > 0 =>
           heard'[Len(heard') - 1].k = kind \/ EndsOnlyBy(dec'.todo, "fail"),
         upstream' = "broken" => EndsOnlyBy(dec'.todo, "fail")
  PROVE  DInv' /\ Verdict'
<1>1. Held' = Held /\ ItemsSoon' = ItemsSoon /\ provider \in Providers
  BY SameHeld DEF DInv
<1>2. Finished(dec', Held', ItemsSoon') /\ Typed(dec')
  BY <1>1 DEF Decided, Finished
<1>3. DInv'
  BY <1>1, <1>2 DEF DInv
<1>4. CASE EndsOnlyBy(dec'.todo, "fail")
  <2>1. \A j \in 1..Len(dec'.todo) : dec'.todo[j].op \notin {"complete", "incomplete"}
    BY <1>4 DEF EndsOnlyBy
  <2> QED BY <1>3, <2>1 DEF Verdict, Marks
<1>5. CASE ~EndsOnlyBy(dec'.todo, "fail")
  <2>1. StreamedLast' => Cut(dec', kind)
    BY <1>5, StreamedLastIs
  <2>2. Decided(dec', Held', ItemsSoon, kind)
    BY <1>1
  <2>3. Verdict'
    BY <2>1, <2>2, DecidedVerdict
  <2> QED BY <1>3, <2>3
<1> QED BY <1>4, <1>5

(* A frame. *)
LEMMA FrameStep ==
  ASSUME DInv, NEW f,
         \/ provider = "chatcompletions" /\ f \in ChatFrames /\ Hear(f, ChatHears(dec, f))
         \/ provider = "anthropic" /\ f \in ClaudeFrames /\ ClaudeMaySend(f) /\ Hear(f, ClaudeHears(dec, f))
         \/ provider = "gemini" /\ f \in GeminiFrames /\ Hear(f, GeminiHears(dec, f))
  PROVE  DInv' /\ Verdict' /\ dec'.err = dec.err
<1>1. /\ Reading /\ UNCHANGED vars /\ provider' = provider /\ heard' = Append(heard, f)
      /\ upstream' = upstream /\ f \in Frames
  BY DEF Hear, Frames
<1>2. /\ Going /\ upstream = "open" /\ provider \in Providers /\ heard \in Seq(Frames)
  BY <1>1, ReadingGoes DEF DInv
<1>3. /\ heard' \in Seq(Frames) /\ dec'.err = dec.err
      /\ \/ Sound(dec', Held, ItemsSoon) /\ Shaped'
         \/ Decided(dec', Held, ItemsSoon, LastKind)
  <2>1. \/ provider = "chatcompletions" /\ f \in ChatFrames /\ dec' = ChatHears(dec, f)
        \/ provider = "anthropic" /\ f \in ClaudeFrames /\ ClaudeMaySend(f) /\ dec' = ClaudeHears(dec, f)
        \/ provider = "gemini" /\ f \in GeminiFrames /\ dec' = GeminiHears(dec, f)
    BY DEF Hear
  <2>2. Sound(dec, Held, ItemsSoon) /\ Shape(dec, OpenBlock, LastKind)
    BY <1>2 DEF Going
  <2> QED BY <1>1, <1>2, <2>1, <2>2, HearsSound DEF Shaped
<1>4. Len(heard') - 1 > 0 => heard'[Len(heard') - 1].k = LastKind
  <2>1. /\ Len(heard') - 1 = Len(heard)
        /\ heard # <<>> => heard'[Len(heard)].k = LastKind
        /\ heard = <<>> => Len(heard) = 0
    BY <1>1, <1>2, LastHeard
  <2> QED BY <2>1
<1>5. PICK kind : kind = LastKind
  OBVIOUS
<1>6. CASE Sound(dec', Held, ItemsSoon) /\ Shaped'
  BY <1>1, <1>3, <1>6, GoesOn
<1>7. CASE Decided(dec', Held, ItemsSoon, kind)
  <2>1. upstream' \in {"open", "ended", "broken"} /\ upstream' # "broken"
    BY <1>1, <1>2
  <2> QED BY <1>1, <1>3, <1>4, <1>5, <1>7, <2>1, Decides
<1> QED BY <1>3, <1>5, <1>6, <1>7

(* The end of the stream, or its loss. *)
LEMMA EndStep ==
  ASSUME DInv, NEW how \in {"ended", "broken"}, NEW explained,
         \/ provider = "chatcompletions" /\ how = "ended" /\ EndOfStream(how, ChatFinishes(dec))
         \/ provider = "anthropic" /\ how = "ended" /\ EndOfStream(how, ClaudeFinishes(dec, explained))
         \/ EndOfStream(how, Fail(dec))
  PROVE  DInv' /\ Verdict' /\ dec'.err = dec.err
<1>1. /\ Reading /\ UNCHANGED vars /\ provider' = provider /\ heard' = heard /\ upstream' = how
  BY DEF EndOfStream
<1>2. /\ Going /\ provider \in Providers /\ heard \in Seq(Frames)
  BY <1>1, ReadingGoes DEF DInv
<1>3. PICK kind : kind = LastKind
  OBVIOUS
<1>4. dec'.err = dec.err /\ Decided(dec', Held, ItemsSoon, kind)
  <2>1. \/ provider = "chatcompletions" /\ dec' = ChatFinishes(dec)
        \/ provider = "anthropic" /\ dec' = ClaudeFinishes(dec, explained)
        \/ dec' = Fail(dec)
    BY DEF EndOfStream
  <2>2. Sound(dec, Held, ItemsSoon) /\ Shape(dec, OpenBlock, LastKind)
    BY <1>2 DEF Going
  <2> QED BY <1>2, <2>1, <2>2, EndsSound
<1>5. how = "broken" \/ provider = "gemini" => EndsOnlyBy(dec'.todo, "fail")
  <2> SUFFICES ASSUME how = "broken" \/ provider = "gemini"
               PROVE  EndsOnlyBy(dec'.todo, "fail")
    OBVIOUS
  <2>1. dec' = Fail(dec)
    BY DEF EndOfStream
  <2> QED BY <1>2, <2>1, FailsSound DEF Failed, Going
<1>6. upstream' \in {"open", "ended", "broken"} /\ heard' \in Seq(Frames)
  BY <1>1, <1>2
<1> QED BY <1>1, <1>4, <1>5, <1>6, Decides

(* A paused turn is resumed. *)
ResumesAs(t) == Reading /\ dec' = t /\ UNCHANGED <<vars, provider, heard, upstream>>

LEMMA ResumedTurn ==
  ASSUME DInv, provider = "anthropic",
         ResumesAs([dec EXCEPT !.turn = @ + 1, !.stop = "", !.turnStart = Len(dec.items), !.replay = @ \o Produced(dec)])
  PROVE  DInv' /\ Verdict' /\ dec'.err = dec.err
<1> DEFINE t == [dec EXCEPT !.turn = @ + 1, !.stop = "", !.turnStart = Len(dec.items), !.replay = @ \o Produced(dec)]
<1>1. /\ Reading /\ UNCHANGED vars /\ provider' = provider /\ dec' = t /\ heard' = heard /\ upstream' = upstream
  BY DEF ResumesAs
<1>a. Going /\ heard \in Seq(Frames)
  BY <1>1, ReadingGoes DEF DInv
<1>2. DOMAIN dec = Fields /\ Sound(dec, Held, ItemsSoon) /\ ClaudeShape(dec, OpenBlock)
  BY <1>a DEF Going, Sound, Typed, Shape
<1>3. DOMAIN t = Fields /\ \A x \in Fields \ {"turn", "stop", "turnStart", "replay"} : t[x] = dec[x]
  BY <1>2 DEF Fields
<1>4. t.stop \notin ClaudeCut
  <2>1. t.stop = ""
    BY <1>2, Zenon DEF Fields
  <2> QED BY <2>1, Zenon DEF ClaudeCut
<1> HIDE DEF t
<1>5. Keeps(dec, dec', {"turn", "stop", "turnStart", "replay"}) /\ dec'.stop \notin ClaudeCut
  BY <1>1, <1>3, <1>4 DEF Keeps
<1>6. Sound(dec', Held, ItemsSoon) /\ ClaudeShape(dec', OpenBlock)
  BY <1>2, <1>5, ResumedSound
<1>7. OpenBlock' = OpenBlock
  BY <1>1 DEF OpenBlock
<1>8. Shaped'
  BY <1>1, <1>6, <1>7 DEF Shape, Shaped
<1>9. dec'.err = dec.err
  BY <1>5, KeptFields
<1>10. heard' \in Seq(Frames)
  BY <1>1, <1>a
<1> QED BY <1>1, <1>6, <1>8, <1>9, <1>10, GoesOn

(* What was said in it cannot be sent back. *)
LEMMA NotResumed ==
  ASSUME DInv, provider = "anthropic", ResumesAs(Fail(dec))
  PROVE  DInv' /\ Verdict' /\ dec'.err = dec.err
<1>1. /\ Reading /\ UNCHANGED vars /\ provider' = provider /\ heard' = heard /\ upstream' = upstream
      /\ dec' = Fail(dec)
  BY DEF ResumesAs
<1>2. Going /\ upstream = "open" /\ heard \in Seq(Frames)
  BY <1>1, ReadingGoes DEF DInv
<1>3. Failed(dec', Held, ItemsSoon) /\ Keeps(dec, dec', {"todo"})
  BY <1>1, <1>2, FailsSound DEF Going
<1>4. dec'.err = dec.err
  BY <1>3, KeptFields
<1>5. PICK kind : Decided(dec', Held, ItemsSoon, kind)
  BY <1>3 DEF Failed, Decided
<1>6. EndsOnlyBy(dec'.todo, "fail")
  BY <1>3 DEF Failed
<1>7. upstream' \in {"open", "ended", "broken"} /\ heard' \in Seq(Frames)
  BY <1>1, <1>2
<1> QED BY <1>1, <1>4, <1>5, <1>6, <1>7, Decides

LEMMA ResumeStep ==
  ASSUME DInv, provider = "anthropic", ClaudeResumes
  PROVE  DInv' /\ Verdict' /\ dec'.err = dec.err
BY ResumedTurn, NotResumed DEF ClaudeResumes, ResumesAs

LEMMA ReadsStep ==
  ASSUME DInv, ChatReads \/ ClaudeReads \/ GeminiReads
  PROVE  /\ UNCHANGED vars /\ provider' = provider /\ Reading
         /\ DInv' /\ Verdict' /\ dec'.err = dec.err
<1>1. UNCHANGED vars /\ provider' = provider /\ Reading
  BY DEF ChatReads, ClaudeReads, GeminiReads, Hear, EndOfStream, ClaudeResumes
<1>2. CASE ChatReads
  <2>1. CASE \E f \in ChatFrames : Hear(f, ChatHears(dec, f))
    <3>1. PICK f \in ChatFrames : Hear(f, ChatHears(dec, f))
      BY <2>1
    <3>2. provider = "chatcompletions"
      BY <1>2 DEF ChatReads
    <3> QED BY <1>1, <3>1, <3>2, FrameStep
  <2>2. CASE EndOfStream("ended", ChatFinishes(dec))
    <3>1. provider = "chatcompletions"
      BY <1>2 DEF ChatReads
    <3> QED BY <1>1, <2>2, <3>1, EndStep
  <2>3. CASE EndOfStream("broken", Fail(dec))
    BY <1>1, <2>3, EndStep
  <2> QED BY <1>2, <2>1, <2>2, <2>3 DEF ChatReads
<1>3. CASE ClaudeReads
  <2> DEFINE explained == heard # <<>> /\ Last(heard).full
  <2>1. provider = "anthropic"
    BY <1>3 DEF ClaudeReads
  <2>2. \/ \E f \in ClaudeFrames : ClaudeMaySend(f) /\ Hear(f, ClaudeHears(dec, f))
        \/ ClaudeResumes
        \/ EndOfStream("ended", ClaudeFinishes(dec, explained))
        \/ EndOfStream("broken", Fail(dec))
    BY <1>3 DEF ClaudeReads
  <2> HIDE DEF explained
  <2>3. CASE \E f \in ClaudeFrames : ClaudeMaySend(f) /\ Hear(f, ClaudeHears(dec, f))
    BY <1>1, <2>1, <2>3, FrameStep
  <2>4. CASE ClaudeResumes
    BY <1>1, <2>1, <2>4, ResumeStep
  <2>5. CASE EndOfStream("ended", ClaudeFinishes(dec, explained))
    BY <1>1, <2>1, <2>5, EndStep
  <2>6. CASE EndOfStream("broken", Fail(dec))
    BY <1>1, <2>6, EndStep
  <2> QED BY <2>2, <2>3, <2>4, <2>5, <2>6
<1>4. CASE GeminiReads
  <2>1. CASE \E f \in GeminiFrames : Hear(f, GeminiHears(dec, f))
    <3>1. provider = "gemini"
      BY <1>4 DEF GeminiReads
    <3> QED BY <1>1, <2>1, <3>1, FrameStep
  <2>2. CASE \E how \in {"ended", "broken"} : EndOfStream(how, Fail(dec))
    BY <1>1, <2>2, EndStep
  <2> QED BY <1>4, <2>1, <2>2 DEF GeminiReads
<1> QED BY <1>1, <1>2, <1>3, <1>4

-----------------------------------------------------------------------------
(* The first planned call is made. *)
Pops(s, t) == Keeps(s, t, {"todo"}) /\ t.todo = Tail(s.todo)

LEMMA CalledPops ==
  ASSUME Typed(dec), Called
  PROVE  Pops(dec, dec') /\ provider' = provider /\ heard' = heard /\ upstream' = upstream
<1>1. DOMAIN dec = Fields /\ dec' = [dec EXCEPT !.todo = Tail(@)]
  BY DEF Typed, Called
<1>2. DOMAIN dec' = Fields /\ dec'.todo = Tail(dec.todo)
  BY <1>1 DEF Fields
<1>3. \A x \in Fields \ {"todo"} : dec'[x] = dec[x]
  BY <1>1
<1> QED BY <1>2, <1>3 DEF Pops, Keeps, Called

LEMMA PoppedTyped ==
  ASSUME NEW s, Typed(s), s.todo # <<>>, NEW t, Pops(s, t)
  PROVE  Typed(t) /\ HeldBy(t) = HeldBy(s) /\ t.items = s.items
<1>1. /\ t.msg = s.msg /\ t.reasoning = s.reasoning /\ t.call = s.call /\ t.items = s.items
      /\ t.buffered = s.buffered /\ t.raw = s.raw /\ t.cites = s.cites /\ DOMAIN t = Fields
  BY KeptFields DEF Pops
<1>2. /\ s.todo \in Seq(PlannedCall) /\ t.todo \in Seq(PlannedCall)
      /\ Len(t.todo) = Len(s.todo) - 1 /\ Len(s.todo) \in Nat
      /\ \A j \in 1..Len(t.todo) : t.todo[j] = s.todo[j + 1]
  BY DEF Typed, Pops
<1>3. ASSUME NEW j \in 1..Len(t.todo)
      PROVE  t.todo[j].w <= Len(t.items)
  <2>1. j + 1 \in 1..Len(s.todo) /\ t.todo[j] = s.todo[j + 1]
    BY <1>2
  <2>2. s.todo[j + 1].w <= Len(s.items)
    BY <2>1 DEF Typed
  <2> QED BY <1>1, <2>1, <2>2
<1>4. OneWriter(t) /\ HeldBy(t) = HeldBy(s)
  BY <1>1 DEF Typed, OneWriter, HeldBy
<1> QED BY <1>1, <1>2, <1>3, <1>4 DEF Typed

LEMMA FinalOfTail ==
  ASSUME NEW todo \in Seq(PlannedCall), todo # <<>>, NEW t, t = Tail(todo)
  PROVE  IF t = <<>> THEN Final(todo) = todo[1] ELSE Final(todo) = Final(t)
<1>1. /\ Len(todo) \in Nat /\ Len(todo) > 0
      /\ t \in Seq(PlannedCall) /\ Len(t) = Len(todo) - 1
      /\ \A j \in 1..Len(t) : t[j] = todo[j + 1]
  OBVIOUS
<1>2. CASE t = <<>>
  <2>1. Len(todo) = 1
    BY <1>1, <1>2
  <2> QED BY <1>2, <2>1 DEF Final
<1>3. CASE t # <<>>
  <2>1. Len(t) \in 1..Len(t) /\ Len(t) + 1 = Len(todo)
    BY <1>1, <1>3
  <2> QED BY <1>1, <1>3, <2>1 DEF Final
<1> QED BY <1>2, <1>3

LEMMA PoppedGoes ==
  ASSUME NEW s, NEW h, NEW n, Sound(s, h, n), s.todo # <<>>, NEW t, Pops(s, t)
  PROVE  /\ s.todo[1].op \notin Ends
         /\ Sound(t, LeavesOpen(s.todo[1]), s.todo[1].w)
<1>1. s.todo \in Seq(PlannedCall) /\ 1 \in 1..Len(s.todo) /\ Planned(s.todo, h, n)
  BY DEF Sound, Typed
<1>2. s.todo[1].op \notin Ends
  BY <1>1, EndsLast DEF Sound
<1>3. Planned(t.todo, LeavesOpen(s.todo[1]), s.todo[1].w)
  BY <1>1, <1>2, PlanTail DEF Pops
<1>4. Typed(t) /\ HeldBy(t) = HeldBy(s) /\ t.items = s.items
  BY PoppedTyped DEF Sound
<1>5. IF t.todo = <<>> THEN Final(s.todo) = s.todo[1] ELSE Final(s.todo) = Final(t.todo)
  BY <1>1, FinalOfTail DEF Pops
<1>6. EndsOpen(t.todo)
  BY <1>5 DEF Sound, EndsOpen
<1>7. /\ Len(t.items) = ItemsThen(t.todo, s.todo[1].w)
      /\ HeldThen(t.todo, LeavesOpen(s.todo[1])) = HeldBy(t)
  BY <1>4, <1>5 DEF Sound, ItemsThen, HeldThen
<1> QED BY <1>2, <1>3, <1>4, <1>6, <1>7 DEF Sound

LEMMA PoppedFinishes ==
  ASSUME NEW s, NEW h, NEW n, Finished(s, h, n), NEW t, Pops(s, t)
  PROVE  /\ s.todo[1].op \notin Ends => Finished(t, LeavesOpen(s.todo[1]), s.todo[1].w)
         /\ s.todo[1].op \in {"complete", "incomplete"} =>
              Len(t.todo) = 1 /\ t.todo[1].op = "return" /\ \A h2, n2 : Finished(t, h2, n2)
         /\ s.todo[1].op = "return" => \A j \in 1..Len(t.todo) : t.todo[j].op = "return"
<1>1. s.todo \in Seq(PlannedCall) /\ Planned(s.todo, h, n) /\ s.todo # <<>>
  BY DEF Finished, Typed
<1>2. IF t.todo = <<>> THEN Final(s.todo) = s.todo[1] ELSE Final(s.todo) = Final(t.todo)
  BY <1>1, FinalOfTail DEF Pops
<1>3. Typed(t)
  BY <1>1, PoppedTyped DEF Finished
<1>4. /\ s.todo[1].op \notin Ends => Planned(t.todo, LeavesOpen(s.todo[1]), s.todo[1].w)
      /\ s.todo[1].op \in Ends => \/ t.todo = <<>>
                                  \/ Len(t.todo) = 1 /\ t.todo[1].op = "return"
  BY <1>1, PlanTail DEF Pops
<1>5. ASSUME s.todo[1].op \notin Ends
      PROVE  Finished(t, LeavesOpen(s.todo[1]), s.todo[1].w)
  BY <1>2, <1>3, <1>4, <1>5 DEF Finished, Ends
<1>6. ASSUME s.todo[1].op \in {"complete", "incomplete"}
      PROVE  Len(t.todo) = 1 /\ t.todo[1].op = "return" /\ \A h2, n2 : Finished(t, h2, n2)
  <2>1. t.todo # <<>>
    BY <1>2, <1>6 DEF Finished
  <2>2. Len(t.todo) = 1 /\ t.todo[1].op = "return" /\ t.todo \in Seq(PlannedCall)
    BY <1>3, <1>4, <1>6, <2>1 DEF Ends, Typed
  <2>3. ASSUME NEW h2, NEW n2
        PROVE  Planned(t.todo, h2, n2)
    BY <2>2 DEF Planned, DueOn, Adds, WriterKinds, WriterOps
  <2> QED BY <1>3, <2>1, <2>2, <2>3 DEF Finished, Final
<1>7. ASSUME s.todo[1].op = "return", NEW j \in 1..Len(t.todo)
      PROVE  t.todo[j].op = "return"
  BY <1>4, <1>7 DEF Ends
<1> QED BY <1>5, <1>6, <1>7

LEMMA PoppedShape ==
  ASSUME NEW s, NEW t, Typed(s), s.todo # <<>>, Pops(s, t), NEW block, NEW kind, Shape(s, block, kind)
  PROVE  Shape(t, block, kind)
<1>1. /\ t.msg = s.msg /\ t.reasoning = s.reasoning /\ t.call = s.call /\ t.items = s.items
      /\ t.raw = s.raw /\ t.cites = s.cites /\ t.stop = s.stop /\ t.index = s.index
  BY KeptFields DEF Pops
<1>2. HeldBy(t) = HeldBy(s)
  BY PoppedTyped
<1>3. ChatShape(s) => ChatShape(t)
  BY <1>1, <1>2 DEF ChatShape, ChatCalls
<1>4. ClaudeShape(s, block) => ClaudeShape(t, block)
  BY <1>1, <1>2 DEF ClaudeShape, Streamed
<1>5. GeminiShape(s, kind) => GeminiShape(t, kind)
  BY <1>1, <1>2 DEF GeminiShape
<1> QED BY <1>3, <1>4, <1>5 DEF Shape

-----------------------------------------------------------------------------
(* What a planned call does to the emitter. *)
LEMMA CallOutcome ==
  ASSUME IInv, pc = "idle", NEW o, DueOn(o, Held, ItemsSoon), o.op \notin Ends,
         \/ \E k \in WriterKinds : o.op = k /\ OpenWriter(k)
         \/ o.op = "extension" /\ EmitItem("completed")
         \/ o.op = "text" /\ Text(o.w)
         \/ o.op = "refusal" /\ Refusal(o.w)
         \/ o.op = "annotation" /\ Annotation(o.w)
         \/ o.op = "logprobs" /\ (Logprobs(o.w) \/ UNCHANGED vars)
         \/ o.op = "arguments" /\ Arguments(o.w)
         \/ o.op = "summary" /\ Summary(o.w)
         \/ o.op = "reasoning_text" /\ ReasoningText(o.w)
         \/ o.op = "close" /\ CloseWriter(o.w)
  PROVE  Held' = LeavesOpen(o) /\ ItemsSoon' = o.w
<1>1. ItemsSoon = N /\ Held = (IF NeedsClose THEN open ELSE 0)
  BY DEF Held, ItemsSoon
<1>2. CASE o.op \in WriterKinds /\ \E k \in WriterKinds : OpenWriter(k)
  <2>1. PICK k \in WriterKinds : Begin("open", k, "in_progress")
    BY <1>2 DEF OpenWriter
  <2>2. Held' = N + 1 /\ ItemsSoon' = N + 1
    BY <2>1, BeginOutcome
  <2>3. o.w = N + 1 /\ LeavesOpen(o) = o.w
    BY <1>1, <1>2 DEF DueOn, Adds, LeavesOpen
  <2> QED BY <2>2, <2>3
<1>3. CASE o.op = "extension" /\ EmitItem("completed")
  <2>1. Begin("item", "other", "completed")
    BY <1>3 DEF EmitItem
  <2>2. Held' = 0 /\ ItemsSoon' = N + 1
    BY <2>1, BeginOutcome
  <2>3. o.w = N + 1 /\ LeavesOpen(o) = 0
    BY <1>1, <1>3 DEF DueOn, Adds, LeavesOpen, WriterKinds, WriterOps
  <2> QED BY <2>2, <2>3
<1>4. ASSUME o.op \in WriterOps \cup {"close"}
      PROVE  o.w = N /\ Held = N /\ open = N /\ N # 0 /\ o.w \in 1..Len(out)
  <2>1. o.w = N /\ Held = N /\ N # 0
    BY <1>1, <1>4 DEF DueOn
  <2>2. open = N
    BY <1>1, <2>1
  <2>3. N = Len(out) /\ N \in Nat
    BY DEF N, IInv, TypeOK
  <2> QED BY <2>1, <2>2, <2>3
<1>5. CASE /\ o.op \in WriterOps
           /\ \/ Text(o.w) \/ Annotation(o.w) \/ Logprobs(o.w) \/ Refusal(o.w)
              \/ Arguments(o.w) \/ Summary(o.w) \/ ReasoningText(o.w)
  <2>1. Held' = open /\ ItemsSoon' = N
    BY <1>4, <1>5, WriteOutcome
  <2>2. LeavesOpen(o) = o.w
    BY <1>5 DEF LeavesOpen
  <2> QED BY <1>4, <1>5, <2>1, <2>2
<1>6. CASE o.op = "close" /\ CloseWriter(o.w)
  <2>1. Held' = 0 /\ ItemsSoon' = N
    BY <1>4, <1>6, CloseOutcome
  <2>2. LeavesOpen(o) = 0
    BY <1>6 DEF LeavesOpen, WriterKinds, WriterOps
  <2> QED BY <1>4, <1>6, <2>1, <2>2
<1>7. CASE o.op = "logprobs" /\ UNCHANGED vars
  <2>1. Held' = Held /\ ItemsSoon' = ItemsSoon
    BY <1>7, SameHeld
  <2>2. LeavesOpen(o) = o.w /\ o.op \in WriterOps
    BY <1>7 DEF LeavesOpen, WriterOps
  <2> QED BY <1>1, <1>4, <2>1, <2>2
<1> QED BY <1>2, <1>3, <1>5, <1>6, <1>7 DEF WriterOps

LEMMA WhatIsDue ==
  ASSUME DInv, NEW ops, Due(ops)
  PROVE  /\ dec.todo # <<>> /\ pc = "idle" /\ running /\ Planned(dec.todo, Held, ItemsSoon)
         /\ dec.todo[1] = Head(dec.todo) /\ dec.todo[1].op \in ops /\ Writer = dec.todo[1].w
         /\ DueOn(dec.todo[1], Held, ItemsSoon)
<1>1. dec.todo # <<>> /\ pc = "idle" /\ running /\ Head(dec.todo).op \in ops
  BY DEF Due
<1>2. Planned(dec.todo, Held, ItemsSoon)
  BY <1>1 DEF DInv, Going, Sound, Finished
<1>3. dec.todo[1] = Head(dec.todo) /\ DueOn(dec.todo[1], Held, ItemsSoon)
  BY <1>1, <1>2, PlanTail
<1> QED BY <1>1, <1>2, <1>3 DEF Writer

(* The calls but the return and the error: the emitter goes on. *)
LEMMA CallMade ==
  ASSUME DInv, IInv, CallOpens \/ CallItem \/ CallWrites \/ CallCloses \/ CallSendsNothing
  PROVE  /\ running /\ pc = "idle" /\ dec.todo # <<>> /\ Called /\ running'
         /\ dec.todo[1].op \notin Ends
         /\ Held' = LeavesOpen(dec.todo[1]) /\ ItemsSoon' = dec.todo[1].w
<1>1. PICK ops : Due(ops) /\ ops \cap Ends = {}
  <2>1. \/ \E k \in WriterKinds : Due({k})
        \/ Due({"extension"}) \/ Due({"text"}) \/ Due({"refusal"}) \/ Due({"annotation"})
        \/ Due({"logprobs"}) \/ Due({"arguments"}) \/ Due({"summary"}) \/ Due({"reasoning_text"})
        \/ Due({"close"})
    BY DEF CallOpens, CallItem, CallWrites, CallCloses, CallSendsNothing
  <2>2. /\ \A k \in WriterKinds : {k} \cap Ends = {}
        /\ {"extension"} \cap Ends = {} /\ {"text"} \cap Ends = {} /\ {"refusal"} \cap Ends = {}
        /\ {"annotation"} \cap Ends = {} /\ {"logprobs"} \cap Ends = {} /\ {"arguments"} \cap Ends = {}
        /\ {"summary"} \cap Ends = {} /\ {"reasoning_text"} \cap Ends = {} /\ {"close"} \cap Ends = {}
    BY DEF WriterKinds, Ends
  <2> QED BY <2>1, <2>2
<1> DEFINE o == dec.todo[1]
<1>2. /\ dec.todo # <<>> /\ pc = "idle" /\ running /\ o = Head(dec.todo) /\ Writer = o.w
      /\ o.op \notin Ends /\ DueOn(o, Held, ItemsSoon)
  BY <1>1, WhatIsDue
<1> HIDE DEF o
<1>3. Called /\ running'
  BY <1>2 DEF CallOpens, CallItem, CallWrites, CallCloses, CallSendsNothing, OpenWriter, EmitItem, Begin,
     Text, Refusal, Annotation, Logprobs, Write, Arguments, Summary, ReasoningText, CloseWriter,
     vars, emitterVars
<1>4. \/ \E k \in WriterKinds : o.op = k /\ OpenWriter(k)
      \/ o.op = "extension" /\ EmitItem("completed")
      \/ o.op = "text" /\ Text(o.w)
      \/ o.op = "refusal" /\ Refusal(o.w)
      \/ o.op = "annotation" /\ Annotation(o.w)
      \/ o.op = "logprobs" /\ (Logprobs(o.w) \/ UNCHANGED vars)
      \/ o.op = "arguments" /\ Arguments(o.w)
      \/ o.op = "summary" /\ Summary(o.w)
      \/ o.op = "reasoning_text" /\ ReasoningText(o.w)
      \/ o.op = "close" /\ CloseWriter(o.w)
  BY <1>2 DEF CallOpens, CallItem, CallWrites, CallCloses, CallSendsNothing, Due
<1>5. Held' = LeavesOpen(o) /\ ItemsSoon' = o.w
  BY <1>2, <1>4, CallOutcome
<1> QED BY <1>2, <1>3, <1>5 DEF o

LEMMA CallKeepsDInv ==
  ASSUME DInv, IInv, EmitterCall
  PROVE  DInv'
<1>1. CASE CallOpens \/ CallItem \/ CallWrites \/ CallCloses \/ CallSendsNothing
  <2>1. /\ running /\ pc = "idle" /\ dec.todo # <<>> /\ Called /\ dec.todo[1].op \notin Ends
        /\ Held' = LeavesOpen(dec.todo[1]) /\ ItemsSoon' = dec.todo[1].w
    BY <1>1, CallMade
  <2>2. Pops(dec, dec') /\ provider' = provider /\ heard' = heard /\ upstream' = upstream
    BY <2>1, CalledPops DEF DInv
  <2>3. Typed(dec')
    BY <2>1, <2>2, PoppedTyped DEF DInv
  <2>4. CASE Going
    <3>1. Sound(dec', Held', ItemsSoon')
      BY <2>1, <2>2, <2>4, PoppedGoes DEF Going
    <3>2. Shape(dec', OpenBlock, LastKind)
      BY <2>1, <2>2, <2>4, PoppedShape DEF Going, DInv
    <3>3. OpenBlock' = OpenBlock /\ LastKind' = LastKind
      BY <2>2 DEF OpenBlock, LastKind
    <3>4. Going'
      BY <2>2, <3>1, <3>2, <3>3 DEF Going, Shape
    <3> QED BY <2>2, <2>3, <3>4 DEF DInv
  <2>5. CASE Finished(dec, Held, ItemsSoon)
    <3>1. Finished(dec', Held', ItemsSoon')
      BY <2>1, <2>2, <2>5, PoppedFinishes
    <3> QED BY <2>2, <2>3, <3>1 DEF DInv
  <2> QED BY <2>1, <2>4, <2>5 DEF DInv
<1>2. CASE CallEnds
  <2>1. PICK op \in {"complete", "incomplete"} : Due({op}) /\ Called
    BY <1>2 DEF CallEnds
  <2>2. dec.todo # <<>> /\ running /\ dec.todo[1].op = op
    BY <2>1, WhatIsDue
  <2>3. Pops(dec, dec') /\ provider' = provider /\ heard' = heard /\ upstream' = upstream
    BY <2>1, CalledPops DEF DInv
  <2>4. Typed(dec')
    BY <2>2, <2>3, PoppedTyped DEF DInv
  <2>5. ~Going
    BY <2>1, <2>2, <2>3, PoppedGoes DEF Going, Ends
  <2>6. Finished(dec', Held', ItemsSoon')
    BY <2>2, <2>3, <2>5, PoppedFinishes DEF DInv
  <2> QED BY <2>3, <2>4, <2>6 DEF DInv
<1>3. CASE CallReturns
  <2>1. Due({"return"}) /\ Called /\ ~running'
    BY <1>3 DEF CallReturns, Return
  <2>2. Pops(dec, dec') /\ provider' = provider /\ heard' = heard /\ upstream' = upstream
    BY <2>1, CalledPops DEF DInv
  <2>3. Typed(dec')
    BY <2>1, <2>2, WhatIsDue, PoppedTyped DEF DInv
  <2> QED BY <2>1, <2>2, <2>3 DEF DInv
<1>4. CASE CallFails
  <2> DEFINE t == [dec EXCEPT !.todo = <<>>, !.err = TRUE]
  <2>1. ~running' /\ provider' = provider /\ heard' = heard /\ upstream' = upstream /\ dec' = t
    BY <1>4 DEF CallFails, Return
  <2>2. DOMAIN dec = Fields
    BY DEF DInv, Typed
  <2>3. DOMAIN t = Fields /\ t.todo = <<>> /\ \A x \in Fields \ {"todo", "err"} : t[x] = dec[x]
    BY <2>2 DEF Fields
  <2> HIDE DEF t
  <2>4. Keeps(dec, dec', {"todo", "err"}) /\ dec'.todo = <<>>
    BY <2>1, <2>3 DEF Keeps
  <2>5. /\ dec'.msg = dec.msg /\ dec'.reasoning = dec.reasoning /\ dec'.call = dec.call /\ dec'.items = dec.items
        /\ dec'.buffered = dec.buffered /\ dec'.raw = dec.raw /\ dec'.cites = dec.cites /\ DOMAIN dec' = Fields
    BY <2>4, KeptFields
  <2>6. Typed(dec')
    BY <2>4, <2>5 DEF DInv, Typed, OneWriter
  <2> QED BY <2>1, <2>6 DEF DInv
<1> QED BY <1>1, <1>2, <1>3, <1>4 DEF EmitterCall

-----------------------------------------------------------------------------
(* A response starts: nothing is open, planned or heard. *)
LEMMA NewDecoderSound ==
  ASSUME NEW s, s = NewDecoder, NEW kind, kind \notin StreamedKinds,
         NEW block, block \notin {"text", "tool_use", "thinking", "raw"}
  PROVE  Sound(s, 0, 0) /\ Shape(s, block, kind)
<1>1. /\ DOMAIN s = Fields /\ s.msg = 0 /\ s.reasoning = 0 /\ s.call = 0 /\ s.items = <<>> /\ s.todo = <<>>
      /\ s.buffered = <<>> /\ s.raw = <<>> /\ s.cites = 0 /\ s.index = 0
  BY DEF NewDecoder, Fields
<1>2. s.stop = ""
  BY Zenon DEF NewDecoder
<1>3. s.stop \notin GoodStops /\ s.stop \notin ClaudeCut
  BY <1>2, Zenon DEF GoodStops, ChatGoodStops, ClaudeGood, ClaudeCut
<1>5. OneWriter(s) /\ HeldBy(s) = 0
  BY <1>1 DEF OneWriter, HeldBy
<1>6. /\ s.todo \in Seq(PlannedCall) /\ Len(s.todo) = 0 /\ s.items \in Seq(Contents) /\ Len(s.items) = 0
      /\ s.buffered \in Pieces /\ s.raw \in Pieces /\ s.cites \in Nat
  BY <1>1 DEF Pieces
<1>7. Typed(s)
  BY <1>1, <1>5, <1>6 DEF Typed
<1>8. Sound(s, 0, 0)
  BY <1>1, <1>5, <1>6, <1>7 DEF Sound, Planned, EndsOpen, ItemsThen, HeldThen
<1>9. ChatShape(s)
  BY <1>1 DEF ChatShape, ChatCalls
<1>10. ClaudeShape(s, block)
  BY <1>1 DEF ClaudeShape, Streamed
<1>11. GeminiShape(s, kind)
  BY <1>3 DEF GeminiShape
<1> QED BY <1>8, <1>9, <1>10, <1>11 DEF Shape

LEMMA InitDInv ==
  ASSUME InitDecoder, provider \in Providers
  PROVE  DInv
<1>1. /\ heard = <<>> /\ upstream = "open" /\ dec = NewDecoder
      /\ pc = "idle" /\ open = 0 /\ out = <<>>
  BY DEF InitDecoder, Init
<1>2. Held = 0 /\ ItemsSoon = 0
  BY <1>1 DEF Held, ItemsSoon, NeedsClose, N
<1>3. LastKind \notin StreamedKinds
  BY <1>1 DEF LastKind, StreamedKinds
<1>4. OpenBlock \notin {"text", "tool_use", "thinking", "raw"}
  <2>1. OpenBlock = ""
    BY <1>1, Zenon DEF OpenBlock
  <2> QED BY <2>1, Zenon
<1>5. Sound(dec, 0, 0) /\ Shape(dec, OpenBlock, LastKind)
  BY <1>1, <1>3, <1>4, NewDecoderSound
<1>6. Typed(dec) /\ heard \in Seq(Frames)
  BY <1>1, <1>5 DEF Sound
<1> QED BY <1>1, <1>2, <1>5, <1>6 DEF DInv, Going

-----------------------------------------------------------------------------
(* Every other step of a response, and of the client. *)
LEMMA EventKeepsDInv ==
  ASSUME DInv, IInv, IInv', EmitterEvent
  PROVE  DInv'
<1>1. EmitterStep /\ dec' = dec /\ provider' = provider /\ heard' = heard /\ upstream' = upstream
  BY DEF EmitterEvent, decoderVars
<1>2. ~running => ~running'
  BY <1>1 DEF IInv, EmitterStep, SendCreated, SendInProgress, SendPartTextDone, SendContentPartDone,
     SendContentPartAdded, SendSummaryTextDone, SendSummaryPartDone, SendSummaryPartAdded,
     SendReasoningDone, SendArgumentsDone, SendDelta, SendItemDone, SendItemAdded,
     SendPlainItemDone, SendTerminal
<1>3. running' => Held' = Held /\ ItemsSoon' = ItemsSoon
  BY <1>1, EventsKeepTheOutcome DEF SameOutcome
<1>4. OpenBlock' = OpenBlock /\ LastKind' = LastKind
  BY <1>1 DEF OpenBlock, LastKind
<1>5. ASSUME running'
      PROVE  Going' \/ Finished(dec', Held', ItemsSoon')
  <2>1. Going => Going'
    BY <1>1, <1>3, <1>4, <1>5 DEF Going, Shape
  <2>2. running
    BY <1>2, <1>5
  <2> QED BY <1>1, <1>3, <1>5, <2>1, <2>2 DEF DInv
<1> QED BY <1>1, <1>5 DEF DInv

-----------------------------------------------------------------------------
(* A response is recorded, and the next one starts. *)
LEMMA StartsAgain ==
  (Init => IInv)' /\ (InitDecoder /\ provider \in Providers => DInv)'
<1>1. Init => IInv
  BY InitIInv
<1>2. InitDecoder /\ provider \in Providers => DInv
  BY InitDInv
<1> QED BY <1>1, <1>2, PTL

LEMMA Recorded ==
  ASSUME Record
  PROVE  IInv' /\ DInv' /\ Init'
<1>1. Init'
  BY DEF Record, Init, Lifecycle!Init
<1>2. InitDecoder' /\ (provider \in Providers)'
  BY <1>1 DEF Record, InitDecoder
<1> QED BY <1>1, <1>2, StartsAgain

LEMMA AdapterStep ==
  ASSUME DInv, IInv, [AdaptersNext]_allVars
  PROVE  DInv' /\ IInv'
<1>1. CASE Stream
  <2>1. CASE ChatReads \/ ClaudeReads \/ GeminiReads
    BY <2>1, ReadsStep, NextStep
  <2>2. CASE EmitterCall
    BY <2>2, CallIsAnAdaptersCall, CallKeepsDInv, NextStep DEF Next
  <2>3. CASE EmitterEvent
    <3>1. IInv'
      BY <2>3, NextStep DEF EmitterEvent, Next
    <3> QED BY <2>3, <3>1, EventKeepsDInv
  <2> QED BY <1>1, <2>1, <2>2, <2>3 DEF Stream, Streaming
<1>2. CASE Record
  BY <1>2, Recorded
<1>3. CASE UNCHANGED <<vars, decoderVars>>
  <2>1. UNCHANGED vars /\ dec' = dec /\ provider' = provider /\ heard' = heard /\ upstream' = upstream
    BY <1>3 DEF decoderVars
  <2>2. IInv'
    BY <2>1, NextStep
  <2>3. Held' = Held /\ ItemsSoon' = ItemsSoon /\ running' = running
    BY <2>1, SameHeld
  <2>4. OpenBlock' = OpenBlock /\ LastKind' = LastKind
    BY <2>1 DEF OpenBlock, LastKind
  <2>5. Going' <=> Going
    BY <2>1, <2>3, <2>4 DEF Going, Shape
  <2> QED BY <2>1, <2>2, <2>3, <2>5 DEF DInv
<1> QED BY <1>1, <1>2, <1>3 DEF AdaptersNext, ClientAdds, ClientAsks, Done, allVars

(***************************************************************************)
(* The invariant of the adapters: whatever a provider streams, in whatever *)
(* order, and however often the conversation goes on, the decoder and the  *)
(* emitter agree on what is open (src/chatcompletions/response.go,         *)
(* src/providers/*/response.go).                                           *)
(***************************************************************************)
THEOREM AdapterInvariance == AdaptersSpec => [](DInv /\ IInv)
<1>1. AdaptersInit => DInv /\ IInv
  BY InitDInv, InitIInv DEF AdaptersInit, InitDecoder
<1>2. (DInv /\ IInv) /\ [AdaptersNext]_allVars => (DInv /\ IInv)'
  BY AdapterStep
<1> QED BY <1>1, <1>2, PTL DEF AdaptersSpec

(***************************************************************************)
(* A decoder never writes to an item that is not open: every delta,        *)
(* annotation and close it is about to make names the item the emitter has *)
(* open, so that the emitter refuses none of them (openMessage, closeOpen  *)
(* and the handlers that call them, in src/chatcompletions/response.go and *)
(* src/providers/*/response.go).                                           *)
(***************************************************************************)
THEOREM WritesReachTheirItem == AdaptersSpec => []WritesReachTheOpenItem
<1>1. DInv => WritesReachTheOpenItem
  <2> SUFFICES ASSUME DInv, Due(WriterOps \cup {"close"})
               PROVE  Writer = open /\ ~out[Writer].closed
    BY DEF WritesReachTheOpenItem
  <2>1. /\ pc = "idle" /\ dec.todo[1].op \in WriterOps \cup {"close"} /\ Writer = dec.todo[1].w
        /\ DueOn(dec.todo[1], Held, ItemsSoon)
    BY WhatIsDue
  <2>2. Writer = Held /\ Held # 0
    BY <2>1 DEF DueOn
  <2>3. NeedsClose /\ Held = open
    BY <2>1, <2>2 DEF Held
  <2> QED BY <2>2, <2>3 DEF NeedsClose
<1> QED BY <1>1, AdapterInvariance, PTL

-----------------------------------------------------------------------------
(* The types, which a conversation recorded and sent again keeps. *)
LEMMA AtMostOne ==
  ASSUME NEW S, S = {} \/ \E x : S = {x}
  PROVE  Cardinality(S) <= 1
<1>1. Cardinality(S) = 0 \/ Cardinality(S) = 1
  BY FS_EmptySet, FS_Singleton
<1> QED BY <1>1

LEMMA HeldOnce ==
  ASSUME NEW s, OneWriter(s)
  PROVE  Cardinality({s.msg, s.reasoning, s.call} \ {0}) <= 1
<1> DEFINE S == {s.msg, s.reasoning, s.call} \ {0}
<1>1. S = {} \/ \E x : S = {x}
  <2>1. CASE HeldBy(s) = 0
    BY <2>1 DEF OneWriter, HeldBy
  <2>2. CASE HeldBy(s) # 0
    <3>1. S = {HeldBy(s)}
      BY <2>2 DEF OneWriter, HeldBy
    <3> QED BY <3>1
  <2> QED BY <2>1, <2>2
<1> HIDE DEF S
<1>2. Cardinality(S) <= 1
  BY <1>1, AtMostOne
<1> QED BY <1>2 DEF S

(* The input is a conversation: its signatures are named after the items   *)
(* that brought them.                                                      *)
InputOK == phase \in {"stream", "client", "settings"} /\ Conversation(input)

LEMMA InitInput ==
  ASSUME AdaptersInit
  PROVE  InputOK
<1>1. input \in Seq({}) /\ phase \in {"stream", "client", "settings"}
  BY DEF AdaptersInit
<1> QED BY <1>1 DEF InputOK, Conversation

LEMMA NoRole ==
  ASSUME NEW role, role \in {"user", "assistant", "system"} \/ role = ""
  PROVE  role \in Roles
BY Zenon DEF Roles

LEMMA KindSaid ==
  ASSUME NEW k \in WordKinds
  PROVE  <<Piece(k, 0)>> \in Seq(Words)
<1>1. PICK p : p = Piece(k, 0)
  OBVIOUS
<1>2. p \in Words
  BY <1>1 DEF Piece, Words
<1>3. <<p>> \in Seq(Words)
  BY <1>2
<1> QED BY <1>1, <1>3

LEMMA ConvEntry ==
  ASSUME NEW type \in ItemTypes, NEW role \in Roles, NEW id \in Nat, NEW said \in Seq(Words), NEW sig, NEW by
  PROVE  /\ Tagged(sig) => Entry(ConvItem(type, role, id, said, sig, by))
         /\ \A i \in Nat \ {0} : Entry(Kept(ConvItem(type, role, id, said, sig, by), i))
<1>1. Tagged(sig) => Entry(ConvItem(type, role, id, said, sig, by))
  BY DEF ConvItem, Entry
<1>2. ASSUME NEW i \in Nat \ {0}
      PROVE  Entry(Kept(ConvItem(type, role, id, said, sig, by), i))
  <2>1. PICK few : few \in Seq(Words) /\ few = IF said = <<>> THEN <<>> ELSE <<Piece(said[1].k, 0)>>
    <3>1. CASE said = <<>>
      BY <3>1, EmptySeq
    <3>2. CASE said # <<>>
      <4>1. said[1] \in Words
        BY <3>2
      <4>2. said[1].k \in WordKinds
        BY <4>1 DEF Words
      <4> QED BY <3>2, <4>2, KindSaid
    <3> QED BY <3>1, <3>2
  <2>2. PICK tag : tag = (IF sig = <<>> THEN <<>> ELSE <<i>>) /\ Tagged(tag)
    BY DEF Tagged
  <2>3. PICK it : it = ConvItem(type, role, id, said, sig, by)
    OBVIOUS
  <2>4. it.said = said /\ it.sig = sig
    BY <2>3 DEF ConvItem
  <2>5. Kept(it, i) = [[it EXCEPT !.said = few] EXCEPT !.sig = tag]
    BY <2>1, <2>2, <2>4 DEF Kept
  <2>6. [it EXCEPT !.said = few] = ConvItem(type, role, id, few, sig, by)
    BY <2>3 DEF ConvItem
  <2>7. [ConvItem(type, role, id, few, sig, by) EXCEPT !.sig = tag] = ConvItem(type, role, id, few, tag, by)
    BY DEF ConvItem
  <2>8. Entry(ConvItem(type, role, id, few, tag, by))
    BY <2>1, <2>2 DEF ConvItem, Entry
  <2> QED BY <2>3, <2>5, <2>6, <2>7, <2>8
<1> QED BY <1>1, <1>2

LEMMA EntriesOf ==
  ASSUME NEW id \in Nat, NEW said \in Seq(Words), NEW sig, NEW by, NEW role \in {"user", "assistant", "system"}, NEW it,
         \/ it = MessageItem(role, said) \/ it = CallItemOf(id, said) \/ it = OutputItem(id, said)
         \/ it = ReasoningItem(by, said, sig) \/ it = ExtensionItem(by, said, sig) \/ it = CompactionItem
  PROVE  (Tagged(sig) => Entry(it)) /\ \A i \in Nat \ {0} : Entry(Kept(it, i))
<1>1. PICK none : none = ""
  OBVIOUS
<1>2. none \in Roles /\ role \in Roles
  BY <1>1, NoRole
<1>3. PICK empty : empty = <<>> /\ Tagged(empty) /\ empty \in Seq(Words)
  BY EmptySeq DEF Tagged
<1>4. PICK zero \in Nat : zero = 0
  OBVIOUS
<1>5. ASSUME NEW type \in ItemTypes, NEW r \in Roles, NEW id2 \in Nat, NEW said2 \in Seq(Words), NEW sig2, NEW by2,
             it = ConvItem(type, r, id2, said2, sig2, by2), Tagged(sig) => Tagged(sig2)
      PROVE  (Tagged(sig) => Entry(it)) /\ \A i \in Nat \ {0} : Entry(Kept(it, i))
  BY <1>5, ConvEntry
<1>6. /\ "message" \in ItemTypes /\ "function_call" \in ItemTypes /\ "function_call_output" \in ItemTypes
      /\ "reasoning" \in ItemTypes /\ "extension" \in ItemTypes /\ "compaction" \in ItemTypes
  BY DEF ItemTypes
<1>7. CASE it = MessageItem(role, said)
  <2>1. it = ConvItem("message", role, zero, said, empty, none)
    BY <1>1, <1>3, <1>4, <1>7, Zenon DEF MessageItem
  <2> QED BY <1>2, <1>3, <1>5, <1>6, <2>1
<1>8. CASE it = CallItemOf(id, said)
  <2>1. it = ConvItem("function_call", none, id, said, empty, none)
    BY <1>1, <1>3, <1>8, Zenon DEF CallItemOf
  <2> QED BY <1>2, <1>3, <1>5, <1>6, <2>1
<1>9. CASE it = OutputItem(id, said)
  <2>1. it = ConvItem("function_call_output", none, id, said, empty, none)
    BY <1>1, <1>3, <1>9, Zenon DEF OutputItem
  <2> QED BY <1>2, <1>3, <1>5, <1>6, <2>1
<1>10. CASE it = ReasoningItem(by, said, sig)
  <2>1. it = ConvItem("reasoning", none, zero, said, sig, by)
    BY <1>1, <1>4, <1>10, Zenon DEF ReasoningItem
  <2> QED BY <1>2, <1>5, <1>6, <2>1
<1>11. CASE it = ExtensionItem(by, said, sig)
  <2>1. it = ConvItem("extension", none, zero, said, sig, by)
    BY <1>1, <1>4, <1>11, Zenon DEF ExtensionItem
  <2> QED BY <1>2, <1>5, <1>6, <2>1
<1>12. CASE it = CompactionItem
  <2>1. it = ConvItem("compaction", none, zero, empty, empty, none)
    BY <1>1, <1>3, <1>4, <1>12, Zenon DEF CompactionItem
  <2> QED BY <1>2, <1>3, <1>5, <1>6, <2>1
<1> QED BY <1>7, <1>8, <1>9, <1>10, <1>11, <1>12

SaidBy(role, kinds)   == {MessageItem(role, <<Piece(k, 0)>>) : k \in kinds}
Thoughts(bys, sigs)   == {ReasoningItem(by, <<Piece("summary", 0)>>, sig) : by \in bys, sig \in sigs}
Outputs(ids)          == {OutputItem(id, <<Piece(k, 0)>>) : id \in ids, k \in {"text", "media", "gemini"}}
Extensions            == {ExtensionItem(by, <<Piece("raw", 0)>>, <<>>) : by \in Slugs}

LEMMA AdditionsAre ==
  ASSUME NEW n
  PROVE  Additions(n) = SaidBy("user", {"text", "media", "anthropic", "sidecar"})
                        \cup SaidBy("system", {"text", "media"}) \cup SaidBy("assistant", {"text", "gemini"})
                        \cup {CallItemOf(n, <<Piece("arguments", 0)>>), CompactionItem}
                        \cup Outputs(CallIds \ Answered)
                        \cup Thoughts({"", "anthropic", "gemini"}, {<<>>, <<n>>}) \cup Extensions
BY DEF Additions, SaidBy, Thoughts, Outputs, Extensions

LEMMA KindsAre ==
  /\ {"text", "media", "anthropic", "sidecar"} \subseteq WordKinds /\ {"text", "media"} \subseteq WordKinds
  /\ {"text", "gemini"} \subseteq WordKinds /\ {"text", "media", "gemini"} \subseteq WordKinds
  /\ "summary" \in WordKinds /\ "raw" \in WordKinds /\ "arguments" \in WordKinds
BY DEF WordKinds, PieceKinds, ContentKinds, Slugs, WriterOps

LEMMA AddedIsEntry ==
  ASSUME InputOK, NEW n \in Nat \ {0}, NEW it \in Additions(n)
  PROVE  Entry(it)
<1>1. PICK empty : empty = <<>> /\ Tagged(empty) /\ empty \in Seq(Words)
  BY EmptySeq DEF Tagged
<1>2. ASSUME NEW role \in {"user", "assistant", "system"}, NEW kinds, kinds \subseteq WordKinds, it \in SaidBy(role, kinds)
      PROVE  Entry(it)
  <2>1. PICK k \in WordKinds : it = MessageItem(role, <<Piece(k, 0)>>)
    BY <1>2 DEF SaidBy
  <2>2. PICK said \in Seq(Words) : said = <<Piece(k, 0)>>
    BY KindSaid
  <2> QED BY <1>1, <2>1, <2>2, EntriesOf
<1>3. ASSUME NEW bys, it \in Thoughts(bys, {<<>>, <<n>>})
      PROVE  Entry(it)
  <2>1. PICK said \in Seq(Words) : said = <<Piece("summary", 0)>>
    BY KindsAre, KindSaid
  <2>2. PICK by \in bys, sig \in {<<>>, <<n>>} : it = ReasoningItem(by, said, sig)
    BY <1>3, <2>1 DEF Thoughts
  <2>3. Tagged(sig)
    BY DEF Tagged
  <2> QED BY <2>2, <2>3, EntriesOf
<1>4. ASSUME it \in Outputs(CallIds \ Answered)
      PROVE  Entry(it)
  <2>1. CallIds \subseteq Nat
    BY ItemsOf, EntryFields DEF CallIds, InputOK
  <2>2. PICK id \in Nat, k \in {"text", "media", "gemini"} : it = OutputItem(id, <<Piece(k, 0)>>)
    BY <1>4, <2>1 DEF Outputs
  <2>3. PICK said \in Seq(Words) : said = <<Piece(k, 0)>>
    BY <2>2, KindsAre, KindSaid
  <2> QED BY <1>1, <2>2, <2>3, EntriesOf
<1>5. ASSUME it \in Extensions
      PROVE  Entry(it)
  <2>1. PICK said \in Seq(Words) : said = <<Piece("raw", 0)>>
    BY KindsAre, KindSaid
  <2>2. \E by : it = ExtensionItem(by, said, empty)
    BY <1>1, <1>5, <2>1 DEF Extensions
  <2> QED BY <1>1, <2>2, EntriesOf
<1>6. ASSUME it \in {CallItemOf(n, <<Piece("arguments", 0)>>), CompactionItem}
      PROVE  Entry(it)
  <2>1. PICK said \in Seq(Words) : said = <<Piece("arguments", 0)>>
    BY KindsAre, KindSaid
  <2>2. it = CallItemOf(n, said) \/ it = CompactionItem
    BY <1>6, <2>1
  <2> QED BY <1>1, <2>2, EntriesOf
<1>7. /\ it \in SaidBy("user", {"text", "media", "anthropic", "sidecar"}) => Entry(it)
      /\ it \in SaidBy("system", {"text", "media"}) => Entry(it)
      /\ it \in SaidBy("assistant", {"text", "gemini"}) => Entry(it)
  BY <1>2, KindsAre
<1> QED BY AdditionsAre, <1>3, <1>4, <1>5, <1>6, <1>7, Zenon

LEMMA RecordedEntries ==
  ASSUME DInv, NEW i \in 1..Len(dec.items)
  PROVE  Entry(Kept(Items(dec)[i], i))
<1>1. PICK c \in Contents : c = dec.items[i]
  BY ElementOfSeq DEF DInv, Typed
<1>2. Items(dec)[i] = ItemOf(c, i) /\ i \in Nat \ {0}
  <2>1. Len(dec.items) \in Nat
    BY LenProperties DEF DInv, Typed
  <2> QED BY <1>1, <2>1 DEF Items
<1>3. PICK said \in Seq(Words) : said = c.said
  <2>1. c.said \in Seq([k: WriterOps \cup {"raw"}, n: Nat])
    BY DEF Contents, Pieces
  <2>2. [k: WriterOps \cup {"raw"}, n: Nat] \subseteq Words
    BY DEF Words, WordKinds, PieceKinds
  <2>3. \A S, T : S \subseteq T => Seq(S) \subseteq Seq(T)
    OBVIOUS
  <2> QED BY <2>1, <2>2, <2>3
<1>4. \/ ItemOf(c, i) = MessageItem("assistant", said)
      \/ ItemOf(c, i) = CallItemOf(i, said)
      \/ \E by, sig : ItemOf(c, i) = ReasoningItem(by, said, sig)
      \/ \E by, sig : ItemOf(c, i) = ExtensionItem(by, said, sig)
  BY <1>3, Zenon DEF ItemOf
<1> QED BY <1>2, <1>4, EntriesOf

LEMMA InputStep ==
  ASSUME InputOK, DInv, [AdaptersNext]_allVars
  PROVE  InputOK'
<1>1. CASE Record
  <2> DEFINE T == {Kept(Items(dec)[i], i) : i \in 1..Len(dec.items)}
  <2>1. Len(dec.items) \in Nat
    BY DEF DInv, Typed
  <2>2. input' \in Seq(T)
    BY <1>1, <2>1, IsASeq DEF Record
  <2>3. \A it \in T : Entry(it)
    BY RecordedEntries
  <2> HIDE DEF T
  <2>4. phase' = "client"
    BY <1>1 DEF Record
  <2> QED BY <2>2, <2>3, <2>4 DEF InputOK, Conversation
<1>2. CASE ClientAdds
  <2>1. PICK it \in Additions(Len(input) + 1) : input' = Append(input, it)
    BY <1>2 DEF ClientAdds
  <2>2. PICK T : input \in Seq(T) /\ \A x \in T : Entry(x)
    BY DEF InputOK, Conversation
  <2>3. Entry(it)
    <3>1. Len(input) + 1 \in Nat \ {0}
      BY <2>2, LenProperties
    <3> QED BY <2>1, <3>1, AddedIsEntry
  <2> DEFINE U == T \cup {it}
  <2>4. input \in Seq(U)
    <3>1. Len(input) \in Nat /\ \A i \in 1..Len(input) : input[i] \in U
      BY <2>2
    <3>2. input = [i \in 1..Len(input) |-> input[i]]
      BY <2>2
    <3> QED BY <3>1, <3>2, IsASeq
  <2>5. input' \in Seq(U) /\ \A x \in U : Entry(x)
    BY <2>1, <2>2, <2>3, <2>4
  <2>6. phase' = phase
    BY <1>2 DEF ClientAdds
  <2> QED BY <2>5, <2>6 DEF InputOK, Conversation
<1>3. CASE Stream \/ ClientAsks \/ UNCHANGED allVars
  BY <1>3 DEF Stream, ClientAsks, allVars, InputOK, Conversation
<1> QED BY <1>1, <1>2, <1>3 DEF AdaptersNext, Done

(***************************************************************************)
(* The decoders have their types: one writer at most is held at a time,    *)
(* and every planned call names an item there is.                          *)
(***************************************************************************)
THEOREM AdaptersTypeCorrect == AdaptersSpec => []AdaptersTypeOK
<1>1. AdaptersInit => InputOK
  BY InitInput
<1>2. InputOK /\ (DInv /\ IInv) /\ [AdaptersNext]_allVars => InputOK'
  BY InputStep
<1>3. InputOK /\ (DInv /\ IInv) => AdaptersTypeOK
  <2> SUFFICES ASSUME InputOK, DInv
               PROVE  AdaptersTypeOK
    OBVIOUS
  <2>1. \A i \in 1..Len(input) : input[i].type \in ItemTypes /\ input[i].role \in Roles
    <3>1. PICK T : input \in Seq(T) /\ \A x \in T : Entry(x)
      BY DEF InputOK, Conversation
    <3> QED BY <3>1, ElementOfSeq DEF Entry
  <2>2. ASSUME NEW i \in 1..Len(dec.todo)
        PROVE  dec.todo[i].op \in DecoderOps /\ dec.todo[i].w \in 0..Len(dec.items)
    <3>1. dec.todo[i] \in PlannedCall /\ dec.todo[i].w <= Len(dec.items) /\ Len(dec.items) \in Nat
      BY ElementOfSeq DEF DInv, Typed
    <3> QED BY <3>1 DEF PlannedCall
  <2>3. Cardinality({dec.msg, dec.reasoning, dec.call} \ {0}) <= 1
    BY HeldOnce DEF DInv, Typed
  <2> QED BY <2>1, <2>2, <2>3 DEF AdaptersTypeOK, DInv, InputOK
<1> QED BY <1>1, <1>2, <1>3, AdapterInvariance, PTL DEF AdaptersSpec

-----------------------------------------------------------------------------
(***************************************************************************)
(* The signatures of a conversation, provider by provider.                 *)
(***************************************************************************)
LEMMA ChatSignatures ==
  ASSUME InputOK, provider = "chatcompletions"
  PROVE  SignaturesGoHome
<1>1. PICK T : input \in Seq(T) /\ \A it \in T : Entry(it)
  BY DEF InputOK, Conversation
<1>2. Sent = ChatInput(input).turns
  BY DEF Sent, Request, Validates
<1>3. SignaturesOf(AllBlocks(Sent)) = <<>>
  BY <1>2, ChatSendsNone DEF Quiet, SignedSoFar, InputOK
<1>4. \A it : GoesBack(it) = <<>>
  BY DEF GoesBack, OwnReasoning, OwnPart, Home
<1>5. Owned = <<>>
  <2> DEFINE f == [it \in T |-> <<>>]
  <2>1. f \in [T -> Seq({})] /\ \A i \in 1..Len(input) : f[input[i]] = <<>> /\ GoesBack(input[i]) = f[input[i]]
    BY <1>1, <1>4, EmptySeq, ElementOfSeq, LenProperties
  <2>2. [i \in 1..Len(input) |-> GoesBack(input[i])] = [i \in 1..Len(input) |-> f[input[i]]]
    BY <2>1, Zenon
  <2> HIDE DEF f
  <2>3. Spread(f, input) = <<>>
    BY <1>1, <2>1, SpreadNothing
  <2> QED BY <2>2, <2>3 DEF Spread, Owned
<1> QED BY <1>3, <1>5 DEF SignaturesGoHome

LEMMA ClaudeSignatures ==
  ASSUME InputOK, provider = "anthropic"
  PROVE  SignaturesGoHome
<1> SUFFICES ASSUME ~Request.err
             PROVE  SignaturesOf(AllBlocks(Sent)) = Owned
  BY DEF SignaturesGoHome
<1>1. Request = AnthropicInput(input) /\ Sent = AnthropicInput(input).turns
  BY DEF Sent, Request, Validates
<1>2. \A it : GoesBack(it) = ClaudeSigned(it)
  <2>1. Home = {"", "anthropic"}
    BY Zenon DEF Home
  <2>2. PICK home : home = {"", "anthropic"}
    OBVIOUS
  <2>3. \A it : Replayable(it) <=> it.sig # <<>> /\ it.by \in home
    BY <2>2, Zenon DEF Replayable
  <2>4. \A it : OwnReasoning(it) <=> it.type = "reasoning" /\ it.by \in home /\ it.sig # <<>>
    BY <2>1, <2>2, Zenon DEF OwnReasoning
  <2>5. \A it : ~OwnPart(it)
    BY DEF OwnPart
  <2> QED BY <2>3, <2>4, <2>5 DEF GoesBack, ClaudeSigned
<1>3. [i \in 1..Len(input) |-> GoesBack(input[i])] = [i \in 1..Len(input) |-> ClaudeSigned(input[i])]
  BY <1>2, Zenon
<1>4. SignaturesOf(AllBlocks(Sent)) = FlattenSeq([i \in 1..Len(input) |-> ClaudeSigned(input[i])])
  BY <1>1, ClaudeSendsItsOwn DEF InputOK
<1> QED BY <1>3, <1>4 DEF Owned

LEMMA GeminiSignatures ==
  ASSUME InputOK, provider = "gemini"
  PROVE  SignaturesGoHome
<1> SUFFICES ASSUME ~Request.err
             PROVE  /\ SignaturesOf(AllBlocks(Sent)) = Owned
                    /\ \A i \in 1..Len(input) - 1 :
                         OwnReasoning(input[i]) /\ input[i + 1].type = "function_call" =>
                           \E t \in 1..Len(Sent) : \E b \in 1..Len(Sent[t].blocks) :
                             Sent[t].blocks[b].id = input[i + 1].id /\ Sent[t].blocks[b].sig = input[i].sig
                    /\ Validates => \A t \in 1..Len(Sent) :
                         FirstCall(Sent[t].blocks) # 0 => Sent[t].blocks[FirstCall(Sent[t].blocks)].sig # <<>>
  BY DEF SignaturesGoHome
<1>1. Request = GeminiInput(input) /\ Conversation(input)
  BY DEF Request, InputOK
<1>2. PICK turns \in Seq(Messages) :
        /\ turns = Request.turns /\ CallsInModel(turns)
        /\ SignaturesOf(AllBlocks(turns)) = FlattenSeq([i \in 1..Len(input) |-> GeminiSigned(input[i])])
        /\ \A i \in 1..Len(input) - 1 :
             Renews(input[i]) /\ input[i + 1].type = "function_call" => Leads(AllBlocks(turns), input[i + 1].id, input[i].sig)
  BY <1>1, GeminiSendsItsOwn
<1>3. Sent = IF Validates THEN PlaceholderSignatures(turns) ELSE turns
  BY <1>2 DEF Sent
<1>4. /\ SignaturesOf(AllBlocks(Sent)) = SignaturesOf(AllBlocks(turns))
      /\ Validates => \A i \in 1..Len(Sent) :
           FirstCall(Sent[i].blocks) # 0 => Sent[i].blocks[FirstCall(Sent[i].blocks)].sig # <<>>
      /\ \A id, sig : Leads(AllBlocks(turns), id, sig) /\ sig # <<>> =>
           \E i \in 1..Len(Sent) : \E b \in 1..Len(Sent[i].blocks) : Sent[i].blocks[b].id = id /\ Sent[i].blocks[b].sig = sig
  <2>1. CASE Validates
    BY <1>2, <1>3, <2>1, PlaceholdersSent
  <2>2. CASE ~Validates
    <3>1. Sent = turns
      BY <1>3, <2>2
    <3> QED BY <2>2, <3>1, LeadsInTurn
  <2> QED BY <2>1, <2>2
<1>5. \A it : GoesBack(it) = GeminiSigned(it) /\ (OwnReasoning(it) <=> Renews(it))
  BY DEF GoesBack, OwnReasoning, OwnPart, Home, GeminiSigned, Renews, OwnExtension
<1>6. [i \in 1..Len(input) |-> GoesBack(input[i])] = [i \in 1..Len(input) |-> GeminiSigned(input[i])]
  BY <1>5, Zenon
<1>7. SignaturesOf(AllBlocks(Sent)) = Owned
  BY <1>2, <1>4, <1>6 DEF Owned
<1>8. ASSUME NEW i \in 1..Len(input) - 1, OwnReasoning(input[i]), input[i + 1].type = "function_call"
      PROVE  \E t \in 1..Len(Sent) : \E b \in 1..Len(Sent[t].blocks) :
               Sent[t].blocks[b].id = input[i + 1].id /\ Sent[t].blocks[b].sig = input[i].sig
  <2>1. Leads(AllBlocks(turns), input[i + 1].id, input[i].sig) /\ input[i].sig # <<>>
    BY <1>2, <1>5, <1>8 DEF Renews
  <2>2. PICK id, sig : id = input[i + 1].id /\ sig = input[i].sig
    OBVIOUS
  <2>3. Leads(AllBlocks(turns), id, sig) /\ sig # <<>>
    BY <2>1, <2>2
  <2>4. \E t \in 1..Len(Sent) : \E b \in 1..Len(Sent[t].blocks) : Sent[t].blocks[b].id = id /\ Sent[t].blocks[b].sig = sig
    BY <1>4, <2>3
  <2> QED BY <2>2, <2>4
<1> QED BY <1>4, <1>7, <1>8

(***************************************************************************)
(* A signature goes back to the provider that wrote it and to no other:    *)
(* whatever the conversation holds, whichever adapters recorded it, and in *)
(* whatever order the client put it together.                              *)
(***************************************************************************)
THEOREM SignaturesReturn == AdaptersSpec => []SignaturesGoHome
<1>1. AdaptersInit => InputOK
  BY InitInput
<1>2. InputOK /\ (DInv /\ IInv) /\ [AdaptersNext]_allVars => InputOK'
  BY InputStep
<1>3. InputOK /\ (DInv /\ IInv) => SignaturesGoHome
  <2> SUFFICES ASSUME InputOK, DInv
               PROVE  SignaturesGoHome
    OBVIOUS
  <2>1. provider = "chatcompletions" \/ provider = "anthropic" \/ provider = "gemini"
    BY DEF DInv, Providers
  <2> QED BY <2>1, ChatSignatures, ClaudeSignatures, GeminiSignatures
<1> QED BY <1>1, <1>2, <1>3, AdapterInvariance, PTL DEF AdaptersSpec

-----------------------------------------------------------------------------
(***************************************************************************)
(* The answers of a conversation, provider by provider.                    *)
(***************************************************************************)
PromptFor(mute, i, j) ==
  \A k, l \in i..j : k < l /\ k \notin mute /\ l \notin mute /\ UserSide(input[k]) => UserSide(input[l])

LEMMA PromptIs ==
  ASSUME NEW i, NEW j, Prompt(i, j), NEW mute, \A k \in i..j : k \in mute <=> Silent(input[k])
  PROVE  /\ PromptFor(mute, i, j)
         /\ provider = "chatcompletions" =>
              \A k \in i..j : k \notin mute /\ UserSide(input[k]) => input[k].type = "function_call_output"
<1>1. PICK heardItems : heardItems = {k \in i..j : ~Silent(input[k])}
  OBVIOUS
<1>2. /\ \A k, l \in heardItems : k < l /\ UserSide(input[k]) => UserSide(input[l])
      /\ provider = "chatcompletions" =>
           \A k \in heardItems : UserSide(input[k]) => input[k].type = "function_call_output"
  BY <1>1 DEF Prompt
<1>3. \A k \in i..j : k \notin mute => k \in heardItems
  BY <1>1
<1> QED BY <1>2, <1>3 DEF PromptFor

LEMMA MetIsSent ==
  ASSUME NEW k, NEW a, NEW id, Len(Sent) \in Nat, Met(Sent, k, a, id),
         k \in {"tool_use", "call"}, a \in {"tool_result", "response"}
  PROVE  \E t \in 1..Len(Sent), u \in 2..Len(Sent) : t < u /\ Calls(t, id) /\ Answers(u, id) /\ u = t + 1
<1>1. PICK t \in 1..Len(Sent) - 1 : Carries(Sent[t].blocks, k, id) /\ Carries(Sent[t + 1].blocks, a, id)
  BY DEF Met
<1>2. t \in 1..Len(Sent) /\ t + 1 \in 2..Len(Sent) /\ t < t + 1
  BY <1>1
<1>3. Calls(t, id) /\ Answers(t + 1, id)
  BY <1>1 DEF Calls, Answers, Has, Carries
<1> QED BY <1>2, <1>3

LEMMA ClaudeReplies ==
  ASSUME InputOK, provider = "anthropic"
  PROVE  AnswersFollowTheirCalls
<1> SUFFICES ASSUME ~Request.err
             PROVE  AnswersFollowTheirCalls
  BY DEF AnswersFollowTheirCalls
<1>1. Request = AnthropicInput(input) /\ Sent = AnthropicInput(input).turns
  BY DEF Sent, Request, Validates
<1>2. \A it : Silent(it) <=> ClaudeMute(it)
  BY DEF Silent, Alone, ClaudeMute
<1>3. /\ \A i, j \in 1..Len(input) :
           /\ i < j /\ input[i].type = "function_call" /\ input[j].type = "function_call_output"
           /\ input[i].id = input[j].id
           /\ \A k, l \in i..j : k < l /\ ~ClaudeMute(input[k]) /\ ~ClaudeMute(input[l]) /\ UserSide(input[k]) => UserSide(input[l])
           => Met(Sent, "tool_use", "tool_result", input[i].id)
      /\ Len(Sent) \in Nat
      /\ \A t \in 1..Len(Sent) : Ordered(Sent[t].blocks)
  BY <1>1, ClaudeAnswersFollow DEF InputOK
<1>4. ASSUME NEW i \in 1..Len(input), NEW j \in 1..Len(input),
             i < j, input[i].type = "function_call", input[j].type = "function_call_output",
             input[i].id = input[j].id, Prompt(i, j)
      PROVE  \E t \in 1..Len(Sent), u \in 2..Len(Sent) :
               t < u /\ Calls(t, input[i].id) /\ Answers(u, input[i].id) /\ u = t + 1
  <2>1. PICK mute : mute = {k \in i..j : ClaudeMute(input[k])}
    OBVIOUS
  <2>2. \A k \in i..j : k \in mute <=> Silent(input[k])
    BY <1>2, <2>1
  <2>3. PromptFor(mute, i, j)
    BY <1>4, <2>2, PromptIs
  <2>4. \A k, l \in i..j : k < l /\ ~ClaudeMute(input[k]) /\ ~ClaudeMute(input[l]) /\ UserSide(input[k]) => UserSide(input[l])
    BY <2>1, <2>3 DEF PromptFor
  <2>5. Met(Sent, "tool_use", "tool_result", input[i].id)
    BY <1>3, <1>4, <2>4
  <2>6. PICK id, ask, answer : id = input[i].id /\ ask = "tool_use" /\ answer = "tool_result"
    OBVIOUS
  <2>7. Met(Sent, ask, answer, id) /\ ask \in {"tool_use", "call"} /\ answer \in {"tool_result", "response"}
    BY <2>5, <2>6
  <2>8. \E t \in 1..Len(Sent), u \in 2..Len(Sent) : t < u /\ Calls(t, id) /\ Answers(u, id) /\ u = t + 1
    BY <1>3, <2>7, MetIsSent
  <2> QED BY <2>6, <2>8
<1>5. \A t \in 1..Len(Sent) : \A a, b \in 1..Len(Sent[t].blocks) :
        a < b /\ Sent[t].blocks[b].k = "tool_result" => Sent[t].blocks[a].k = "tool_result"
  BY <1>3 DEF Ordered
<1> QED BY <1>4, <1>5 DEF AnswersFollowTheirCalls

LEMMA GeminiReplies ==
  ASSUME InputOK, provider = "gemini"
  PROVE  AnswersFollowTheirCalls
<1> SUFFICES ASSUME ~Request.err
             PROVE  AnswersFollowTheirCalls
  BY DEF AnswersFollowTheirCalls
<1>1. Request = GeminiInput(input) /\ Conversation(input)
  BY DEF Request, InputOK
<1>2. \A it : Silent(it) <=> GeminiMute(it)
  BY DEF Silent, Alone, GeminiMute
<1>3. PICK turns \in Seq(Messages) : turns = Request.turns
  BY <1>1, GeminiSendsItsOwn
<1>4. Sent \in {GeminiInput(input).turns, PlaceholderSignatures(GeminiInput(input).turns)}
  BY <1>1, <1>3 DEF Sent
<1>5. Len(Sent) \in Nat
  <2>1. Len(turns) \in Nat /\ Len(PlaceholderSignatures(turns)) = Len(turns)
    BY PlaceholdersKeep
  <2> QED BY <1>1, <1>3, <1>4, <2>1
<1>6. \A i, j \in 1..Len(input) :
        /\ i < j /\ input[i].type = "function_call" /\ input[j].type = "function_call_output"
        /\ input[i].id = input[j].id
        /\ \A k, l \in i..j : k < l /\ ~GeminiMute(input[k]) /\ ~GeminiMute(input[l]) /\ UserSide(input[k]) => UserSide(input[l])
        => Met(Sent, "call", "response", input[i].id)
  BY <1>1, <1>4, GeminiAnswersFollow
<1>7. ASSUME NEW i \in 1..Len(input), NEW j \in 1..Len(input),
             i < j, input[i].type = "function_call", input[j].type = "function_call_output",
             input[i].id = input[j].id, Prompt(i, j)
      PROVE  \E t \in 1..Len(Sent), u \in 2..Len(Sent) :
               t < u /\ Calls(t, input[i].id) /\ Answers(u, input[i].id) /\ u = t + 1
  <2>1. PICK mute : mute = {k \in i..j : GeminiMute(input[k])}
    OBVIOUS
  <2>2. \A k \in i..j : k \in mute <=> Silent(input[k])
    BY <1>2, <2>1
  <2>3. PromptFor(mute, i, j)
    BY <1>7, <2>2, PromptIs
  <2>4. \A k, l \in i..j : k < l /\ ~GeminiMute(input[k]) /\ ~GeminiMute(input[l]) /\ UserSide(input[k]) => UserSide(input[l])
    BY <2>1, <2>3 DEF PromptFor
  <2>5. Met(Sent, "call", "response", input[i].id)
    BY <1>6, <1>7, <2>4
  <2>6. PICK id, ask, answer : id = input[i].id /\ ask = "call" /\ answer = "response"
    OBVIOUS
  <2>7. Met(Sent, ask, answer, id) /\ ask \in {"tool_use", "call"} /\ answer \in {"tool_result", "response"}
    BY <2>5, <2>6
  <2>8. \E t \in 1..Len(Sent), u \in 2..Len(Sent) : t < u /\ Calls(t, id) /\ Answers(u, id) /\ u = t + 1
    BY <1>5, <2>7, MetIsSent
  <2> QED BY <2>6, <2>8
<1> QED BY <1>7 DEF AnswersFollowTheirCalls

LEMMA ChatReplies ==
  ASSUME InputOK, provider = "chatcompletions"
  PROVE  AnswersFollowTheirCalls
<1> SUFFICES ASSUME ~Request.err
             PROVE  AnswersFollowTheirCalls
  BY DEF AnswersFollowTheirCalls
<1>1. Request = ChatInput(input) /\ Sent = ChatInput(input).turns /\ Conversation(input)
  BY DEF Sent, Request, Validates, InputOK
<1>2. \A it : Silent(it) <=> ChatMute(it)
  BY DEF Silent, Alone, ChatMute
<1>3. Len(Sent) \in Nat
  BY <1>1, ChatSendsNone, LenProperties DEF Quiet
<1>4. \A i, j \in 1..Len(input) :
        /\ i < j /\ input[i].type = "function_call" /\ input[j].type = "function_call_output"
        /\ input[i].id = input[j].id
        /\ \A k, l \in i..j : k < l /\ ~ChatMute(input[k]) /\ ~ChatMute(input[l]) /\ UserSide(input[k]) => UserSide(input[l])
        /\ \A k \in i..j : ~ChatMute(input[k]) /\ UserSide(input[k]) => input[k].type = "function_call_output"
        => Replied(Sent, input[i].id)
  BY <1>1, ChatAnswersFollow
<1>5. ASSUME NEW i \in 1..Len(input), NEW j \in 1..Len(input),
             i < j, input[i].type = "function_call", input[j].type = "function_call_output",
             input[i].id = input[j].id, Prompt(i, j)
      PROVE  \E t \in 1..Len(Sent), u \in 2..Len(Sent) :
               /\ t < u /\ Calls(t, input[i].id) /\ Answers(u, input[i].id)
               /\ \A v \in t + 1..u : Sent[v].role = "tool"
  <2>1. PICK mute : mute = {k \in i..j : ChatMute(input[k])}
    OBVIOUS
  <2>2. \A k \in i..j : k \in mute <=> Silent(input[k])
    BY <1>2, <2>1
  <2>3. /\ PromptFor(mute, i, j)
        /\ \A k \in i..j : k \notin mute /\ UserSide(input[k]) => input[k].type = "function_call_output"
    BY <1>5, <2>2, PromptIs
  <2>4. \A k, l \in i..j : k < l /\ ~ChatMute(input[k]) /\ ~ChatMute(input[l]) /\ UserSide(input[k]) => UserSide(input[l])
    BY <2>1, <2>3 DEF PromptFor
  <2>5. \A k \in i..j : ~ChatMute(input[k]) /\ UserSide(input[k]) => input[k].type = "function_call_output"
    BY <2>1, <2>3
  <2>6. Replied(Sent, input[i].id)
    BY <1>4, <1>5, <2>4, <2>5
  <2>7. PICK id : id = input[i].id
    OBVIOUS
  <2>8. PICK t, u \in 1..Len(Sent) : /\ t < u /\ ToolsFrom(Sent, t + 1, u)
                                     /\ Carries(Sent[t].blocks, "tool_use", id) /\ Carries(Sent[u].blocks, "tool_result", id)
    BY <2>6, <2>7 DEF Replied
  <2>9. u \in 2..Len(Sent)
    BY <1>3, <2>8
  <2>10. Calls(t, id) /\ Answers(u, id)
    BY <2>8 DEF Calls, Answers, Has, Carries
  <2> QED BY <2>7, <2>8, <2>9, <2>10 DEF ToolsFrom
<1> QED BY <1>5 DEF AnswersFollowTheirCalls

(***************************************************************************)
(* An answer that came as soon as its call allowed is sent where its       *)
(* provider requires it, whatever else the conversation holds: the         *)
(* encodeInput of src/chatcompletions/request.go and of                    *)
(* src/providers/*/request.go, with toolResultsFirst for Claude.           *)
(***************************************************************************)
THEOREM AnswersReturn == AdaptersSpec => []AnswersFollowTheirCalls
<1>1. AdaptersInit => InputOK
  BY InitInput
<1>2. InputOK /\ (DInv /\ IInv) /\ [AdaptersNext]_allVars => InputOK'
  BY InputStep
<1>3. InputOK /\ (DInv /\ IInv) => AnswersFollowTheirCalls
  <2> SUFFICES ASSUME InputOK, DInv
               PROVE  AnswersFollowTheirCalls
    OBVIOUS
  <2>1. provider = "chatcompletions" \/ provider = "anthropic" \/ provider = "gemini"
    BY DEF DInv, Providers
  <2> QED BY <2>1, ChatReplies, ClaudeReplies, GeminiReplies
<1> QED BY <1>1, <1>2, <1>3, AdapterInvariance, PTL DEF AdaptersSpec

-----------------------------------------------------------------------------
(***************************************************************************)
(* What an event of the emitter does to the statuses of the items: it      *)
(* keeps or promotes them, and an item it adds has that of its call.       *)
(***************************************************************************)
StatusesMove ==
  /\ \A i \in 1..Len(out) :
       /\ out'[i].kind = out[i].kind
       /\ out'[i].status \in {out[i].status, Promoted(out[i].status)}
  /\ \/ Len(out') = Len(out)
     \/ /\ Len(out') = Len(out) + 1 /\ call.op \in {"open", "item"}
        /\ out'[Len(out')].kind = call.kind /\ out'[Len(out')].status = call.status

LEMMA EventMovesStatuses ==
  ASSUME IInv, EmitterStep
  PROVE  StatusesMove /\ running /\ pc # "idle" /\ call' = call
<1>1. pc # "idle" /\ call' = call
  BY DEF EmitterStep, SendCreated, SendInProgress, SendPartTextDone, SendContentPartDone,
     SendContentPartAdded, SendSummaryTextDone, SendSummaryPartDone, SendSummaryPartAdded,
     SendReasoningDone, SendArgumentsDone, SendDelta, SendItemDone, SendItemAdded,
     SendPlainItemDone, SendTerminal
<1>2. running /\ out \in Seq(Item) /\ Len(out) \in Nat
  BY <1>1 DEF IInv, TypeOK
<1>3. SameStatuses => StatusesMove
  BY DEF SameStatuses, StatusesMove
<1>4. CASE \/ SendCreated \/ SendInProgress \/ SendPartTextDone \/ SendContentPartDone
           \/ SendSummaryTextDone \/ SendSummaryPartDone \/ SendReasoningDone \/ SendArgumentsDone
           \/ SendDelta \/ SendTerminal
  <2>1. out' = out
    BY <1>4 DEF SendCreated, SendInProgress, SendPartTextDone, SendContentPartDone,
       SendSummaryTextDone, SendSummaryPartDone, SendReasoningDone, SendArgumentsDone, SendDelta, SendTerminal
  <2> QED BY <1>1, <1>2, <1>3, <2>1 DEF SameStatuses
<1>5. CASE SendContentPartAdded
  <2>1. call.w \in 1..Len(out)
    BY <1>2, <1>5, Basics DEF SendContentPartAdded, IInv, Agree, Working, Using, WriteOps, N
  <2>2. out[call.w] \in Item
    BY <1>2, <2>1, Basics DEF N
  <2>3. PICK part : out' = [out EXCEPT ![call.w] =
                             [out[call.w] EXCEPT !.parts = out[call.w].parts + 1, !.part = part]]
    BY <1>5 DEF SendContentPartAdded
  <2>4. SameStatuses
    BY <2>1, <2>2, <2>3, WriterChanged DEF Item
  <2> QED BY <1>1, <1>2, <1>3, <2>4
<1>6. CASE SendSummaryPartAdded
  <2>1. call.w \in 1..Len(out)
    BY <1>2, <1>6, Basics DEF SendSummaryPartAdded, IInv, Agree, Working, Using, N
  <2>2. out[call.w] \in Item
    BY <1>2, <2>1, Basics DEF N
  <2>3. out' = [out EXCEPT ![call.w] =
                 [out[call.w] EXCEPT !.sums = out[call.w].sums + 1, !.summary = TRUE]]
    BY <1>6 DEF SendSummaryPartAdded
  <2>4. SameStatuses
    BY <2>1, <2>2, <2>3, WriterChanged DEF Item
  <2> QED BY <1>1, <1>2, <1>3, <2>4
<1>7. CASE SendItemDone
  <2> DEFINE w == call.w
             x == [out[w] EXCEPT !.status = Promoted(out[w].status)]
  <2>1. w \in 1..Len(out)
    BY <1>2, <1>7, Basics DEF SendItemDone, IInv, Agree, N
  <2>2. out[w] \in Item /\ out' = [out EXCEPT ![w] = x]
    BY <1>2, <1>7, <2>1, Basics DEF SendItemDone, N
  <2>3. x.kind = out[w].kind /\ x.status = Promoted(out[w].status)
    BY <2>2 DEF Item
  <2> HIDE DEF x, w
  <2>4. Len(out') = Len(out) /\ \A i \in 1..Len(out) : out'[i] = IF i = w THEN x ELSE out[i]
    BY <1>2, <2>1, <2>2
  <2> QED BY <1>1, <1>2, <2>3, <2>4 DEF StatusesMove
<1>8. CASE SendPlainItemDone
  <2> DEFINE w == Len(out)
             x == [out[w] EXCEPT !.status = Promoted(out[w].status), !.closed = TRUE]
  <2>1. w \in 1..Len(out)
    BY <1>2, <1>8, Basics DEF SendPlainItemDone, IInv, Agree, N
  <2>2. out[w] \in Item /\ out' = [out EXCEPT ![w] = x]
    BY <1>2, <1>8, <2>1, Basics DEF SendPlainItemDone, N
  <2>3. x.kind = out[w].kind /\ x.status = Promoted(out[w].status)
    BY <2>2 DEF Item
  <2> HIDE DEF x, w
  <2>4. Len(out') = Len(out) /\ \A i \in 1..Len(out) : out'[i] = IF i = w THEN x ELSE out[i]
    BY <1>2, <2>1, <2>2
  <2> QED BY <1>1, <1>2, <2>3, <2>4 DEF StatusesMove
<1>9. CASE SendItemAdded
  <2> DEFINE x == NewItem(call.kind, call.status)
  <2>1. out' = Append(out, x) /\ call.op \in {"open", "item"}
    BY <1>2, <1>9 DEF SendItemAdded, IInv, Agree
  <2>2. x.kind = call.kind /\ x.status = call.status
    BY DEF NewItem
  <2> HIDE DEF x
  <2>3. /\ Len(out') = Len(out) + 1 /\ out'[Len(out')] = x
        /\ \A i \in 1..Len(out) : out'[i] = out[i]
    BY <1>2, <2>1
  <2> QED BY <1>1, <1>2, <2>1, <2>2, <2>3 DEF StatusesMove
<1> QED BY <1>4, <1>5, <1>6, <1>7, <1>8, <1>9 DEF EmitterStep

(* An operation that closes what is open marks it first if it is Incomplete. *)
LEMMA BeginMarks ==
  ASSUME IInv, NEW op \in BeginOps, NEW kind, NEW status, Begin(op, kind, status)
  PROVE  /\ Len(out') = Len(out)
         /\ \A i \in 1..Len(out) :
              /\ out'[i].kind = out[i].kind
              /\ out'[i].status = IF op = "incomplete" /\ NeedsClose /\ i = N THEN "incomplete" ELSE out[i].status
         /\ NeedsClose => N \in 1..Len(out) /\ out[N].kind \in WriterKinds
<1>1. running /\ out \in Seq(Item) /\ Len(out) \in Nat
  BY DEF Begin, IInv, TypeOK
<1>2. CASE ~NeedsClose
  <2>1. out' = out
    BY <1>2 DEF Begin, Marked
  <2> QED BY <1>2, <2>1
<1>3. CASE NeedsClose
  <2>1. open \in 1..Len(out) /\ open = N /\ out \in Seq(Item) /\ out[N].kind \in WriterKinds
    BY <1>1, <1>3 DEF NeedsClose, IInv, TypeOK, Control, N
  <2>2. out[open] \in Item
    BY <1>1, <2>1, Basics
  <2> DEFINE m == Marked(op)
             x == [m[open] EXCEPT !.closed = TRUE, !.part = NoPart, !.summary = FALSE]
  <2>3. /\ m \in Seq(Item) /\ Len(m) = Len(out) /\ m[N] \in Item
        /\ \A j \in 1..Len(out) : j # N => m[j] = out[j]
        /\ m[N].kind = out[N].kind
    BY <1>1, <1>3, <2>1, <2>2, Basics, MarkedItems
  <2>4. m[N].status = IF op = "incomplete" THEN "incomplete" ELSE out[N].status
    <3>1. CASE op = "incomplete"
      <4>1. m[open] = [out[open] EXCEPT !.status = "incomplete"]
        BY <1>3, <2>1, <3>1 DEF Marked
      <4> QED BY <2>1, <2>2, <3>1, <4>1 DEF Item
    <3>2. CASE op # "incomplete"
      BY <3>2 DEF Marked
    <3> QED BY <3>1, <3>2
  <2>5. out' = [m EXCEPT ![open] = x]
    BY <1>3 DEF Begin, BeginClose, Shut
  <2>6. x.kind = out[N].kind /\ x.status = m[N].status
    BY <2>1, <2>3 DEF Item
  <2> HIDE DEF m, x
  <2>7. Len(out') = Len(out) /\ \A j \in 1..Len(out) : out'[j] = IF j = N THEN x ELSE out[j]
    BY <2>1, <2>3, <2>5
  <2> QED BY <1>3, <2>1, <2>4, <2>6, <2>7
<1> QED BY <1>2, <1>3

LEMMA WriteKeepsStatuses ==
  ASSUME IInv, NEW i \in 1..Len(out),
         \/ Text(i) \/ Annotation(i) \/ Logprobs(i) \/ Refusal(i) \/ Arguments(i)
         \/ Summary(i) \/ ReasoningText(i) \/ CloseWriter(i)
  PROVE  SameStatuses
<1>1. running /\ out[i] \in Item
  <2>1. running
    BY DEF Text, Annotation, Logprobs, Refusal, Write, Arguments, Summary, ReasoningText, CloseWriter, Live
  <2> QED BY <2>1, Basics DEF N
<1>2. CASE out' = out
  BY <1>2 DEF SameStatuses
<1>3. CASE out' # out
  <2>1. PICK x : /\ out' = [out EXCEPT ![i] = x]
                 /\ x.kind = out[i].kind /\ x.status = out[i].status
    BY <1>1, <1>3 DEF Text, Annotation, Logprobs, Refusal, Write, Arguments, Summary,
       ReasoningText, CloseWriter, Shut, Item
  <2> QED BY <2>1, WriterChanged
<1> QED BY <1>2, <1>3

-----------------------------------------------------------------------------
(* Complete or Incomplete was called, and either is under way or is over. *)
EndCalled == call.op \in {"complete", "incomplete"} /\ (pc # "idle" \/ ended)

(* It was called as the provider said, and nothing but the return follows. *)
EndsRight ==
  /\ upstream # "broken" /\ ~dec.err
  /\ call.op = "complete" <=> GoodStop
  /\ \A j \in 1..Len(dec.todo) : dec.todo[j].op = "return"
  /\ running => dec.todo # <<>>
  /\ call.op = "incomplete" /\ StreamedLast => N > 0 /\ out[N].status = "incomplete"

(* An item without a writer is completed; so it is sent. *)
WholeItems ==
  /\ \A i \in 1..Len(out) : out[i].kind \notin WriterKinds => out[i].status = "completed"
  /\ call.op = "item" => call.status = "completed"

(* The event that ended the response. *)
LastIsTheEnd ==
  ended /\ view.terminal =>
    /\ last.type = IF call.op = "complete" THEN "response.completed" ELSE "response.incomplete"
    /\ last.output = Output

EInv ==
  /\ running => ~dec.err /\ Verdict
  /\ EndCalled => EndsRight
  /\ ended => EndCalled
  /\ WholeItems /\ LastIsTheEnd

LEMMA NotEnded ==
  ASSUME EInv, DInv, running, dec.todo = <<>> \/ dec.todo[1].op # "return"
  PROVE  ~EndCalled /\ ~ended
<1>1. dec.todo # <<>> => 1 \in 1..Len(dec.todo)
  BY DEF DInv, Typed
<1> QED BY <1>1 DEF EInv, EndsRight

LEMMA SameItemsSent ==
  ASSUME WholeItems, LastIsTheEnd, UNCHANGED <<out, call, ended, view, last>>
  PROVE  WholeItems' /\ LastIsTheEnd'
BY DEF WholeItems, LastIsTheEnd, Output

LEMMA ReadsKeepsEInv ==
  ASSUME EInv, DInv, ChatReads \/ ClaudeReads \/ GeminiReads
  PROVE  EInv'
<1>1. UNCHANGED vars /\ Reading /\ Verdict' /\ dec'.err = dec.err
  BY ReadsStep
<1>2. UNCHANGED <<out, call, ended, view, last, running, pc>>
  BY <1>1 DEF vars, emitterVars
<1>3. ~EndCalled /\ ~ended
  BY <1>1, NotEnded DEF Reading
<1>4. ~EndCalled' /\ ~ended'
  BY <1>2, <1>3 DEF EndCalled
<1>5. WholeItems' /\ LastIsTheEnd'
  BY <1>2, SameItemsSent DEF EInv
<1> QED BY <1>1, <1>2, <1>4, <1>5 DEF EInv

-----------------------------------------------------------------------------
(* The plan's verdict outlives its first call. *)
LEMMA PoppedVerdict ==
  ASSUME DInv, Verdict, Called, dec.todo # <<>>, Held' = LeavesOpen(dec.todo[1])
  PROVE  Verdict'
<1>1. Pops(dec, dec') /\ provider' = provider /\ heard' = heard /\ upstream' = upstream
  BY CalledPops DEF DInv
<1>2. /\ dec'.stop = dec.stop /\ dec'.items = dec.items /\ dec'.todo = Tail(dec.todo)
      /\ dec.todo \in Seq(PlannedCall)
  BY <1>1, KeptFields DEF Pops, DInv, Typed
<1>3. GoodStop' = GoodStop /\ StreamedLast' = StreamedLast
  BY <1>1, <1>2 DEF GoodStop, StreamedLast
<1>4. /\ Len(dec'.todo) = Len(dec.todo) - 1 /\ Len(dec.todo) \in Nat
      /\ \A j \in 1..Len(dec'.todo) : dec'.todo[j] = dec.todo[j + 1] /\ j + 1 \in 1..Len(dec.todo)
  BY <1>2
<1>5. ASSUME NEW j \in 1..Len(dec'.todo), StreamedLast, dec'.todo[j].op = "incomplete"
      PROVE  (IF j = 1 THEN Held' ELSE LeavesOpen(dec'.todo[j - 1])) # 0
  <2>1. (IF j + 1 = 1 THEN Held ELSE LeavesOpen(dec.todo[j + 1 - 1])) # 0
    BY <1>4, <1>5 DEF Verdict, Marks
  <2>2. LeavesOpen(dec.todo[j]) # 0
    BY <1>4, <2>1
  <2>3. CASE j = 1
    BY <2>2, <2>3
  <2>4. CASE j # 1
    <3>1. j - 1 \in 1..Len(dec'.todo) /\ j - 1 + 1 = j
      BY <1>4, <2>4
    <3>2. dec'.todo[j - 1] = dec.todo[j]
      BY <1>4, <3>1
    <3> QED BY <2>2, <2>4, <3>2
  <2> QED BY <2>3, <2>4
<1>6. StreamedLast' => Marks(dec'.todo, Held')
  BY <1>3, <1>5 DEF Marks
<1> QED BY <1>1, <1>3, <1>4, <1>6 DEF Verdict

(* The calls but the last: items open and close, nothing ends. *)
LEMMA CallKeepsItems ==
  ASSUME IInv, WholeItems, CallOpens \/ CallItem \/ CallWrites \/ CallCloses
  PROVE  WholeItems' /\ call'.op \notin {"complete", "incomplete"} /\ ended' = ended
<1>1. CASE CallOpens
  <2>1. PICK k \in WriterKinds : Begin("open", k, "in_progress")
    BY <1>1 DEF CallOpens, OpenWriter
  <2>2. call'.op = "open" /\ ended' = ended
    BY <2>1 DEF Begin, BeginClose, Call
  <2>3. SameStatuses
    BY <2>1, BeginMarks DEF SameStatuses, BeginOps
  <2> QED BY <2>2, <2>3 DEF WholeItems, SameStatuses
<1>2. CASE CallItem
  <2>1. Begin("item", "other", "completed")
    BY <1>2 DEF CallItem, EmitItem
  <2>2. call'.op = "item" /\ call'.status = "completed" /\ ended' = ended
    BY <2>1 DEF Begin, BeginClose, Call
  <2>3. SameStatuses
    BY <2>1, BeginMarks DEF SameStatuses, BeginOps
  <2> QED BY <2>2, <2>3 DEF WholeItems, SameStatuses
<1>3. CASE CallWrites \/ CallCloses
  <2>1. PICK i \in 1..Len(out) :
          \/ Text(i) \/ Annotation(i) \/ Logprobs(i) \/ Refusal(i) \/ Arguments(i)
          \/ Summary(i) \/ ReasoningText(i) \/ CloseWriter(i)
    BY <1>3 DEF CallWrites, CallCloses, Text, Refusal, Annotation, Logprobs, Write, Arguments, Summary,
       ReasoningText, Live, CloseWriter
  <2>2. SameStatuses
    BY <2>1, WriteKeepsStatuses
  <2>3. call'.op \notin {"complete", "incomplete", "item"} /\ ended' = ended
    BY <2>1 DEF Text, Refusal, Annotation, Logprobs, Write, Arguments, Summary, ReasoningText, CloseWriter, Call
  <2> QED BY <2>2, <2>3 DEF WholeItems, SameStatuses
<1> QED BY <1>1, <1>2, <1>3

LEMMA CallMadeKeepsEInv ==
  ASSUME EInv, DInv, IInv, CallOpens \/ CallItem \/ CallWrites \/ CallCloses \/ CallSendsNothing
  PROVE  EInv'
<1>1. /\ running /\ pc = "idle" /\ dec.todo # <<>> /\ Called /\ running'
      /\ dec.todo[1].op \notin Ends /\ Held' = LeavesOpen(dec.todo[1])
  BY CallMade
<1>2. ~EndCalled /\ ~ended
  BY <1>1, NotEnded DEF Ends
<1>3. Verdict' /\ dec'.err = dec.err
  <2>1. Pops(dec, dec')
    BY <1>1, CalledPops DEF DInv
  <2>2. dec'.err = dec.err
    BY <2>1, KeptFields DEF Pops
  <2> QED BY <1>1, <2>2, PoppedVerdict DEF EInv
<1>4. WholeItems' /\ ~EndCalled' /\ ~ended'
  <2>1. CASE CallOpens \/ CallItem \/ CallWrites \/ CallCloses
    BY <1>2, <2>1, CallKeepsItems DEF EInv, EndCalled
  <2>2. CASE CallSendsNothing
    <3>1. UNCHANGED <<out, call, ended, view, last, running, pc>>
      BY <2>2 DEF CallSendsNothing, vars, emitterVars
    <3> QED BY <1>2, <3>1, SameItemsSent DEF EInv, EndCalled
  <2> QED BY <2>1, <2>2
<1> QED BY <1>1, <1>3, <1>4 DEF EInv, LastIsTheEnd

LEMMA EndCallKeepsEInv ==
  ASSUME EInv, DInv, IInv, CallEnds
  PROVE  EInv'
<1>1. PICK op \in {"complete", "incomplete"} :
        Due({op}) /\ Called /\ Begin(op, "other", "in_progress")
  BY DEF CallEnds, Complete, Incomplete
<1>2. /\ dec.todo # <<>> /\ running /\ pc = "idle" /\ dec.todo[1].op = op
  BY <1>1, WhatIsDue
<1>3. Pops(dec, dec') /\ provider' = provider /\ heard' = heard /\ upstream' = upstream
  BY <1>1, CalledPops DEF DInv
<1>4. ~Going
  BY <1>2, <1>3, PoppedGoes DEF Going, Ends
<1>5. Len(dec'.todo) = 1 /\ dec'.todo[1].op = "return" /\ dec'.todo # <<>>
  <2>1. Len(dec'.todo) = 1 /\ dec'.todo[1].op = "return"
    BY <1>2, <1>3, <1>4, PoppedFinishes DEF DInv
  <2> QED BY <2>1
<1>6. dec'.stop = dec.stop /\ dec'.items = dec.items /\ dec'.err = dec.err
  BY <1>3, KeptFields DEF Pops
<1>7. GoodStop' = GoodStop /\ StreamedLast' = StreamedLast
  BY <1>3, <1>6 DEF GoodStop, StreamedLast
<1>8. /\ ended' = ended /\ ~ended /\ running' = running /\ call'.op = op
  BY <1>1 DEF Begin, BeginClose, Call
<1>9. 1 \in 1..Len(dec.todo)
  BY <1>2 DEF DInv, Typed
<1>10. upstream # "broken" /\ (op = "complete" <=> GoodStop) /\ ~dec.err
  BY <1>2, <1>9 DEF EInv, Verdict
<1>11. op = "incomplete" /\ StreamedLast => NeedsClose
  <2> SUFFICES ASSUME op = "incomplete", StreamedLast
               PROVE  NeedsClose
    OBVIOUS
  <2>1. Held # 0
    BY <1>2, <1>9 DEF EInv, Verdict, Marks
  <2> QED BY <1>2, <2>1 DEF Held
<1>12. /\ Len(out') = Len(out)
       /\ \A i \in 1..Len(out) :
            /\ out'[i].kind = out[i].kind
            /\ out'[i].status = IF op = "incomplete" /\ NeedsClose /\ i = N THEN "incomplete" ELSE out[i].status
       /\ NeedsClose => N \in 1..Len(out) /\ out[N].kind \in WriterKinds
  BY <1>1, BeginMarks DEF BeginOps
<1>13. WholeItems'
  BY <1>8, <1>12 DEF EInv, WholeItems
<1>14. op = "incomplete" /\ StreamedLast => N' > 0 /\ out'[N'].status = "incomplete"
  <2>1. N' = N
    BY <1>12 DEF N
  <2> QED BY <1>11, <1>12, <2>1
<1>15. EndsRight'
  BY <1>3, <1>5, <1>6, <1>7, <1>8, <1>10, <1>14 DEF EndsRight
<1>16. Verdict'
  <2>1. \A j \in 1..Len(dec'.todo) : dec'.todo[j].op = "return"
    BY <1>5
  <2> QED BY <2>1 DEF Verdict, Marks
<1> QED BY <1>2, <1>6, <1>8, <1>10, <1>13, <1>15, <1>16 DEF EInv, LastIsTheEnd

LEMMA ReturnKeepsEInv ==
  ASSUME EInv, DInv, CallReturns \/ CallFails
  PROVE  EInv'
<1>1. /\ ~running' /\ UNCHANGED <<out, call, ended, view, last, pc>>
      /\ provider' = provider /\ heard' = heard /\ upstream' = upstream
  BY DEF CallReturns, CallFails, Return, Called
<1>2. WholeItems' /\ LastIsTheEnd'
  BY <1>1, SameItemsSent DEF EInv
<1>3. EndCalled' = EndCalled /\ ended' = ended
  BY <1>1 DEF EndCalled
<1>4. CASE CallReturns
  <2>1. Due({"return"}) /\ Called
    BY <1>4 DEF CallReturns
  <2>2. Pops(dec, dec') /\ dec.todo # <<>> /\ dec.todo \in Seq(PlannedCall)
    BY <2>1, CalledPops, WhatIsDue DEF DInv, Typed
  <2>3. dec'.stop = dec.stop /\ dec'.items = dec.items /\ dec'.err = dec.err /\ dec'.todo = Tail(dec.todo)
    BY <2>2, KeptFields DEF Pops
  <2>4. GoodStop' = GoodStop /\ StreamedLast' = StreamedLast /\ N' = N
    BY <1>1, <2>3 DEF GoodStop, StreamedLast, N
  <2>5. \A j \in 1..Len(dec'.todo) : dec'.todo[j] = dec.todo[j + 1] /\ j + 1 \in 1..Len(dec.todo)
    BY <2>2, <2>3
  <2>6. EndsRight => EndsRight'
    BY <1>1, <2>3, <2>4, <2>5 DEF EndsRight
  <2> QED BY <1>1, <1>2, <1>3, <2>6 DEF EInv
<1>5. CASE CallFails
  <2>1. Due({"fail"})
    BY <1>5 DEF CallFails
  <2>2. running /\ dec.todo[1].op = "fail"
    BY <2>1, WhatIsDue
  <2>3. ~EndCalled /\ ~ended
    BY <2>2, NotEnded
  <2> QED BY <1>1, <1>2, <1>3, <2>3 DEF EInv
<1> QED BY <1>4, <1>5

-----------------------------------------------------------------------------
(* What the calls and the events leave of EInv. *)
LEMMA EventKeepsItems ==
  ASSUME IInv, WholeItems, EmitterStep
  PROVE  /\ WholeItems'
         /\ call.op \in {"complete", "incomplete"} /\ N > 0 /\ out[N].status = "incomplete"
              => N' > 0 /\ out'[N'].status = "incomplete"
<1>1. StatusesMove /\ running /\ call' = call /\ Len(out) \in Nat
  BY EventMovesStatuses DEF IInv, TypeOK
<1>2. call.op = "open" => call.kind \in WriterKinds
  BY <1>1 DEF IInv, Control
<1>3. /\ Promoted("completed") = "completed"
      /\ Promoted("incomplete") = "incomplete"
  BY DEF Promoted
<1>4. ASSUME NEW i \in 1..Len(out'), out'[i].kind \notin WriterKinds
      PROVE  out'[i].status = "completed"
  <2>1. CASE i \in 1..Len(out)
    BY <1>1, <1>3, <1>4, <2>1 DEF StatusesMove, WholeItems
  <2>2. CASE i \notin 1..Len(out)
    <3>1. i = Len(out')
      BY <1>1, <2>2 DEF StatusesMove
    <3> QED BY <1>1, <1>2, <1>4, <2>2, <3>1 DEF StatusesMove, WholeItems
  <2> QED BY <2>1, <2>2
<1>5. ASSUME call.op \in {"complete", "incomplete"}, N > 0, out[N].status = "incomplete"
      PROVE  N' > 0 /\ out'[N'].status = "incomplete"
  <2>1. N' = N /\ N \in 1..Len(out)
    BY <1>1, <1>5 DEF StatusesMove, N
  <2> QED BY <1>1, <1>3, <1>5, <2>1 DEF StatusesMove
<1> QED BY <1>1, <1>4, <1>5 DEF WholeItems

LEMMA EventKeepsEInv ==
  ASSUME EInv, DInv, IInv, IInv', EmitterEvent
  PROVE  EInv'
<1>1. EmitterStep /\ dec' = dec /\ provider' = provider /\ heard' = heard /\ upstream' = upstream
  BY DEF EmitterEvent, decoderVars
<1>2. running /\ pc # "idle" /\ call' = call /\ ~ended /\ ~view.terminal
  BY <1>1, EventMovesStatuses DEF IInv, Control
<1>3. running' => Held' = Held
  BY <1>1, EventsKeepTheOutcome DEF SameOutcome
<1>4. GoodStop' = GoodStop /\ StreamedLast' = StreamedLast
  BY <1>1 DEF GoodStop, StreamedLast
<1>5. running' => ~dec'.err /\ Verdict'
  BY <1>1, <1>2, <1>3, <1>4 DEF EInv, Verdict
<1>6. EndCalled' => EndCalled
  BY <1>2 DEF EndCalled
<1>7. WholeItems'
  BY <1>1, EventKeepsItems DEF EInv
<1>8. ASSUME EndCalled'
      PROVE  EndsRight'
  <2>1. EndsRight /\ call.op \in {"complete", "incomplete"}
    BY <1>6, <1>8 DEF EInv, EndCalled
  <2>2. call.op = "incomplete" /\ StreamedLast => N' > 0 /\ out'[N'].status = "incomplete"
    BY <1>1, <2>1, EventKeepsItems DEF EInv, EndsRight
  <2> QED BY <1>1, <1>2, <1>4, <2>1, <2>2 DEF EndsRight
<1>9. CASE SendTerminal
  <2>1. call.op \in {"complete", "incomplete"} /\ ended'
    BY <1>2, <1>9 DEF SendTerminal, IInv, Agree
  <2>2. EndCalled'
    BY <1>2, <2>1 DEF EndCalled
  <2>3. LastIsTheEnd'
    <3> DEFINE type == IF call.op = "complete" THEN "response.completed" ELSE "response.incomplete"
               e == Lifecycle!TerminalEvent(type, Output)
    <3>1. Send(e, "idle") /\ out' = out
      BY <1>9 DEF SendTerminal
    <3>2. e.type = type /\ e.output = Output
      BY DEF Lifecycle!TerminalEvent
    <3>3. last' = e \/ view' = view
      BY <3>1 DEF Send
    <3>4. Output' = Output
      BY <3>1 DEF Output
    <3> HIDE DEF e
    <3> QED BY <1>2, <3>2, <3>3, <3>4 DEF LastIsTheEnd
  <2> QED BY <1>5, <1>7, <1>8, <2>2, <2>3 DEF EInv
<1>10. CASE ~SendTerminal
  <2>1. ended' = ended
    BY <1>1, <1>10 DEF EmitterStep, SendCreated, SendInProgress, SendPartTextDone, SendContentPartDone,
     SendContentPartAdded, SendSummaryTextDone, SendSummaryPartDone, SendSummaryPartAdded,
     SendReasoningDone, SendArgumentsDone, SendDelta, SendItemDone, SendItemAdded, SendPlainItemDone
  <2> QED BY <1>2, <1>5, <1>7, <1>8, <2>1 DEF EInv, LastIsTheEnd
<1> QED BY <1>9, <1>10

-----------------------------------------------------------------------------
(* EInv holds when a response starts, and every step keeps it. *)
LEMMA InitEInv ==
  ASSUME InitDecoder, provider \in Providers
  PROVE  EInv
<1>1. DInv /\ running /\ ~ended /\ out = <<>> /\ Len(out) = 0 /\ pc = "idle" /\ dec = NewDecoder /\ call = NoCall
  BY InitDInv DEF InitDecoder, Init
<1>2. call.op = "close"
  BY <1>1 DEF NoCall, Call
<1>3. ~dec.err /\ dec.todo = <<>>
  BY <1>1 DEF NewDecoder
<1>4. Verdict
  BY <1>3 DEF Verdict, Marks
<1> QED BY <1>1, <1>2, <1>3, <1>4 DEF EInv, EndCalled, WholeItems, LastIsTheEnd

LEMMA EndsAgain == (InitDecoder /\ provider \in Providers => EInv)'
<1>1. InitDecoder /\ provider \in Providers => EInv
  BY InitEInv
<1> QED BY <1>1, PTL

LEMMA EndsStep ==
  ASSUME EInv, DInv, IInv, [AdaptersNext]_allVars
  PROVE  EInv'
<1>1. CASE Stream
  <2>1. IInv'
    BY AdapterStep
  <2>2. CASE EmitterCall
    BY <2>2, CallMadeKeepsEInv, EndCallKeepsEInv, ReturnKeepsEInv DEF EmitterCall
  <2> QED BY <1>1, <2>1, <2>2, ReadsKeepsEInv, EventKeepsEInv DEF Stream, Streaming
<1>2. CASE Record
  <2>1. InitDecoder' /\ (provider \in Providers)'
    BY <1>2, Recorded DEF Record, InitDecoder
  <2> QED BY <2>1, EndsAgain
<1>3. CASE UNCHANGED <<vars, decoderVars>>
  <2>1. UNCHANGED <<out, call, ended, view, last, running, pc>> /\ UNCHANGED vars
        /\ dec' = dec /\ provider' = provider /\ heard' = heard /\ upstream' = upstream
    BY <1>3 DEF vars, emitterVars, decoderVars
  <2>2. WholeItems' /\ LastIsTheEnd'
    BY <2>1, SameItemsSent DEF EInv
  <2>3. GoodStop' = GoodStop /\ StreamedLast' = StreamedLast /\ N' = N /\ Held' = Held
    BY <2>1, SameHeld DEF GoodStop, StreamedLast, N
  <2>4. EndCalled' = EndCalled /\ (EndsRight => EndsRight') /\ (Verdict => Verdict')
    BY <2>1, <2>3 DEF EndCalled, EndsRight, Verdict
  <2> QED BY <2>1, <2>2, <2>4 DEF EInv
<1> QED BY <1>1, <1>2, <1>3 DEF AdaptersNext, ClientAdds, ClientAsks, Done, allVars

LEMMA InitTInv ==
  ASSUME Init
  PROVE  TInv
<1>1. out = <<>> /\ call.op = "close" /\ last.type = "none"
  BY DEF Init, Lifecycle!Init, Lifecycle!NoEvent, Lifecycle!ResponseEvent, NoCall, Call
<1> QED BY <1>1 DEF TInv, Statuses, OpensInProgress, TerminalStatuses

LEMMA StatusesAgain == (Init => TInv)'
<1>1. Init => TInv
  BY InitTInv
<1> QED BY <1>1, PTL

LEMMA StatusesHold ==
  ASSUME TInv, IInv, [AdaptersNext]_allVars
  PROVE  TInv'
<1>1. CASE Stream
  <2>1. [Next]_vars
    BY <1>1, CallIsAnAdaptersCall DEF Stream, Streaming, ChatReads, ClaudeReads, GeminiReads, Hear, EndOfStream,
       ClaudeResumes, EmitterEvent, Next
  <2> QED BY <2>1, StatusStep
<1>2. CASE Record
  <2>1. Init'
    BY <1>2, Recorded
  <2> QED BY <2>1, StatusesAgain
<1>3. CASE UNCHANGED vars
  BY <1>3, StatusStep
<1> QED BY <1>1, <1>2, <1>3 DEF AdaptersNext, ClientAdds, ClientAsks, Done, allVars

-----------------------------------------------------------------------------
(* A response that ended with EInv ended right. *)
LEMMA EndIsRight ==
  ASSUME EInv, TInv, IInv
  PROVE  EndsAsTheProviderSaid
<1>1. ended => EndCalled /\ EndsRight
  BY DEF EInv
<1>2. ASSUME ended, view.terminal, NEW i \in 1..Len(out), last.type \in TerminalTypes
      PROVE  \/ out[i].status = "completed"
             \/ last.type = "response.incomplete" /\ out[i].status = "incomplete" /\ i = Len(out)
  <2>1. last.output = Output
    BY <1>2 DEF EInv, LastIsTheEnd
  <2>2. Len(last.output) = Len(out) /\ last.output[i].kind = out[i].kind /\ last.output[i].status = out[i].status
    BY <2>1, <1>2 DEF Output
  <2>3. CASE out[i].kind \in WriterKinds
    BY <1>2, <2>2, <2>3 DEF TInv, TerminalStatuses, TerminalTypes
  <2>4. CASE out[i].kind \notin WriterKinds
    BY <2>4 DEF EInv, WholeItems
  <2> QED BY <2>3, <2>4
<1>3. ASSUME Whole, last.type = "response.completed"
      PROVE  GoodStop /\ \A i \in 1..Len(out) : out[i].status = "completed"
  <2>1. ended /\ view.terminal
    BY <1>3 DEF Whole
  <2>2. call.op = "complete"
    BY <1>3, <2>1 DEF EInv, LastIsTheEnd
  <2> QED BY <1>1, <1>2, <1>3, <2>1, <2>2 DEF EndsRight, TerminalTypes
<1>4. ASSUME Whole, last.type = "response.incomplete"
      PROVE  /\ ~GoodStop
             /\ \A i \in 1..Len(out) - 1 : out[i].status = "completed"
             /\ StreamedLast => Last(out).status = "incomplete"
  <2>1. ended /\ view.terminal
    BY <1>4 DEF Whole
  <2>2. call.op = "incomplete"
    BY <1>1, <1>4, <2>1 DEF EInv, LastIsTheEnd, EndCalled
  <2>3. ~GoodStop /\ (StreamedLast => Last(out).status = "incomplete")
    BY <1>1, <2>1, <2>2 DEF EndsRight, Last, N
  <2>4. ASSUME NEW i \in 1..Len(out) - 1
        PROVE  out[i].status = "completed"
    <3>1. i \in 1..Len(out) /\ i # Len(out)
      BY DEF IInv, TypeOK
    <3> QED BY <1>2, <1>4, <2>1, <3>1 DEF TerminalTypes
  <2> QED BY <2>3, <2>4
<1> QED BY <1>1, <1>3, <1>4 DEF EndsAsTheProviderSaid, EndsRight

(***************************************************************************)
(* A stream that broke or reported an error ends no response.  One that is *)
(* ended is completed only on a good stop reason of its provider, with     *)
(* every item completed, and incomplete only on another, with every item   *)
(* completed but the one that was cut off (finish of                       *)
(* src/chatcompletions/response.go and src/providers/*/response.go, with   *)
(* what Complete and Incomplete of src/emitter.go make of the items).      *)
(***************************************************************************)
THEOREM AdaptersEndAsTheProviderSaid == AdaptersSpec => []EndsAsTheProviderSaid
<1>1. AdaptersInit => EInv /\ TInv
  BY InitEInv, InitTInv DEF AdaptersInit, InitDecoder
<1>2. (EInv /\ TInv) /\ (DInv /\ IInv) /\ [AdaptersNext]_allVars => (EInv /\ TInv)'
  BY EndsStep, StatusesHold
<1>3. (EInv /\ TInv) /\ (DInv /\ IInv) => EndsAsTheProviderSaid
  BY EndIsRight
<1> QED BY <1>1, <1>2, <1>3, AdapterInvariance, PTL DEF AdaptersSpec
===============================================================================
