--------------------------- MODULE ThinkingSettings ---------------------------
(***************************************************************************)
(* How a request's reasoning effort and summary reach Claude and Gemini,   *)
(* whose models take them in different ways and refuse some combinations   *)
(* (encodeReasoning in src/providers/anthropic/request.go and              *)
(* src/providers/gemini/request.go).  Claude's encodings are those of the  *)
(* model's generation, or of the WithThinking option; Gemini's options say *)
(* the encoding, or leave it to the model's name.                          *)
(***************************************************************************)
EXTENDS Naturals

CONSTANT TokenLimits   \* the max_tokens that requests ask for

ASSUME LimitsAssumption == TokenLimits \subseteq Nat

DefaultMaxTokens == 32768

Efforts == {"unset", "none", "minimal", "low", "medium", "high", "xhigh"}

ClaudeEncodings == {"adaptive", "budget", "always_on", "between_tools"}
GeminiOptions   == {"auto", "level", "budget"}

(* Gemini models, one of each generation and of each largest budget. *)
Models == {"gemini-2.5-flash", "gemini-2.5-pro", "gemini-3"}

(* max: the shared effort extension asks for max; top_p below 0.95, a      *)
(* temperature other than 1 are "refused".  Only Gemini's models matter.   *)
Settings ==
  [ effort: Efforts, max: BOOLEAN, summary: BOOLEAN, choice: {"auto", "required", "function"},
    temperature: {"unset", "fine", "refused"}, topP: {"unset", "fine", "refused"}, topK: BOOLEAN,
    maxTokens: TokenLimits \cup {DefaultMaxTokens}, model: Models ]

DefaultSettings ==
  [ effort |-> "unset", max |-> FALSE, summary |-> FALSE, choice |-> "auto", temperature |-> "unset",
    topP |-> "unset", topK |-> FALSE, maxTokens |-> DefaultMaxTokens, model |-> "gemini-3" ]

-----------------------------------------------------------------------------
(* thinkingConflict: something Claude refuses thinking with. *)
Conflicts(r) ==
  r.choice \in {"required", "function"} \/ r.temperature = "refused" \/ r.topP = "refused" \/ r.topK

ClaudeEffort(r) ==
  IF r.max THEN "max" ELSE IF r.effort = "minimal" THEN "low" ELSE r.effort

Budgets == [low |-> 1024, medium |-> 4096, high |-> 16384, xhigh |-> 24576, max |-> 32000]

(* Mutant: a budget of max_tokens itself is let through. *)
BudgetUpToTheLimit(effort, maxTokens) ==
  LET b == Budgets[effort] IN
  IF b <= maxTokens THEN b ELSE IF maxTokens - 1 > 1024 THEN maxTokens - 1 ELSE 1024

(* thinkingBudget: below max_tokens, but never below 1024. *)
Budget(effort, maxTokens) ==
  LET b == Budgets[effort] IN
  IF b < maxTokens THEN b ELSE IF maxTokens - 1 > 1024 THEN maxTokens - 1 ELSE 1024

Thinks(kind, effort, budget, shown) == [refused |-> FALSE, kind |-> kind, effort |-> effort, budget |-> budget, shown |-> shown]
Refused == [refused |-> TRUE, kind |-> "unset", effort |-> "unset", budget |-> 0, shown |-> FALSE]

ClaudeThinking(r, encoding) ==
  LET effort == ClaudeEffort(r) IN
  CASE effort = "none" ->
         IF encoding = "always_on" THEN Refused
         ELSE Thinks(IF encoding = "between_tools" THEN "between_tools" ELSE "disabled", "unset", 0, FALSE)
    [] effort = "unset" /\ ~r.summary -> Thinks("unset", "unset", 0, FALSE)
    [] effort # "none" /\ r.summary /\ Conflicts(r) -> Refused
    [] effort \notin {"unset", "none"} /\ ~r.summary /\ Conflicts(r) ->
         IF encoding = "budget" THEN Refused ELSE Thinks("unset", effort, 0, FALSE)
    [] OTHER ->   \* a summary alone asks for the default effort
         IF encoding = "budget"
         THEN Thinks("enabled", "unset", Budget(IF effort = "unset" THEN "high" ELSE effort, r.maxTokens), TRUE)
         ELSE Thinks("adaptive", effort, 0, r.summary)

-----------------------------------------------------------------------------
(* thinkingFor: the generations up to 2.5 take budgets, the later ones levels. *)
ThinkingFor(model) == IF model = "gemini-3" THEN "level" ELSE "budget"

(* maxBudget: the most a model takes; the lowest of all if it is unknown. *)
MaxBudget(model) == IF model = "gemini-2.5-pro" THEN 32768 ELSE 24576

EffortBudgets == [none |-> 0, minimal |-> 512, low |-> 4096, medium |-> 8192, high |-> 24576]
GeminiBudget(effort, model) == IF effort = "xhigh" THEN MaxBudget(model) ELSE EffortBudgets[effort]

(* The extension is ignored: xhigh is Gemini's highest already.  A summary *)
(* includes the thoughts; effort none has no level and is a budget of 0.   *)
GeminiThinking(r, option) ==
  LET encoding == IF option = "auto" THEN ThinkingFor(r.model) ELSE option IN
  CASE r.effort = "unset" -> Thinks("unset", "unset", 0, r.summary)
    [] r.effort = "none" /\ r.summary -> Refused
    [] (r.effort = "none" /\ ~r.summary) \/ (r.effort \notin {"unset", "none"} /\ encoding = "budget") ->
         Thinks("budget", "unset", GeminiBudget(r.effort, r.model), r.summary)
    [] OTHER -> Thinks("level", IF r.effort = "xhigh" THEN "high" ELSE r.effort, 0, r.summary)
=============================================================================
