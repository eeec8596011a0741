--------------------------- MODULE StreamLifecycle ---------------------------
(***************************************************************************)
(* What a well-formed event stream is: the "Streaming lifecycle" of        *)
(* src/doc.go as streamtest.Validate decides it, event by event.  The      *)
(* producers of streams (Emitter and, through it, the adapters) are shown  *)
(* to implement this specification.                                        *)
(*                                                                         *)
(* `view` is what a validating reader knows after the events so far, the   *)
(* `validator` struct; `last` is the event it read last.  At most one item *)
(* is open and it is the last one added, so only that item has an inner    *)
(* state (the fields from `parts` on).  An item's id is generated unique,  *)
(* so naming an item by id or by output_index is the same thing here.      *)
(* Sequence numbers belong to the sinks and are modelled there.            *)
(***************************************************************************)
EXTENDS Naturals, Sequences

VARIABLES
  view,    \* the validator's state
  last     \* the event read last

lifecycleVars == <<view, last>>

ItemKinds  == {"message", "function_call", "reasoning", "other"}
PartKinds  == {"output_text", "refusal"}
ItemStatus == {"in_progress", "completed", "incomplete"}
NoPart     == "none"

(***************************************************************************)
(* Events.  Deltas, annotations and *.done events name the item by index   *)
(* and, inside a message or a reasoning summary, the part by `sub`.        *)
(***************************************************************************)
ResponseEvent(t)         == [type |-> t]
ItemEvent(t, i, k, s)    == [type |-> t, index |-> i, kind |-> k, status |-> s]
PartEvent(t, i, c, k)    == [type |-> t, index |-> i, sub |-> c, part |-> k]
InItemEvent(t, i)        == [type |-> t, index |-> i]
TerminalEvent(t, output) == [type |-> t, output |-> output]

NoEvent == ResponseEvent("none")

(* TerminalResponse: the events after which nothing may follow. *)
IsTerminal(e) ==
  e.type \in {"response.completed", "response.incomplete", "response.failed"}

EmptyView ==
  [ started  |-> FALSE,   \* response.created read
    terminal |-> FALSE,   \* a terminal event read
    errored  |-> FALSE,   \* an error event read
    items    |-> <<>>,    \* added items: kind, and status once done
    open     |-> FALSE,   \* whether the last of them is open
    parts    |-> 0,       \* content parts of the open message
    part     |-> NoPart,  \* kind of its open part
    kindDone |-> FALSE,   \* output_text.done or refusal.done read for it
    sums     |-> 0,       \* summary parts of the open reasoning item
    summary  |-> FALSE,   \* whether the last of them is open
    sumDone  |-> FALSE,   \* reasoning_summary_text.done read for it
    textOpen |-> FALSE,   \* reasoning or argument text is streaming
    textDone |-> FALSE,   \* reasoning.done read
    argsDone |-> FALSE ]  \* function_call_arguments.done read

-----------------------------------------------------------------------------
(* validator.openItem, openTyped, openPart, openSummary. *)
OpenItem(v, i)     == v.open /\ i = Len(v.items)
OpenTyped(v, i, k) == OpenItem(v, i) /\ v.items[i].kind = k

OpenPart(v, e) ==
  /\ OpenTyped(v, e.index, "message")
  /\ v.part # NoPart
  /\ e.sub = v.parts
  /\ e.part = v.part

OpenSummary(v, e) ==
  /\ OpenTyped(v, e.index, "reasoning")
  /\ v.summary
  /\ e.sub = v.sums

(***************************************************************************)
(* validator.finish: a terminal event other than response.failed needs     *)
(* every item closed and carries exactly the items that were added.  The   *)
(* package documentation adds "in their final form": the form here is the  *)
(* kind and the status the item's output_item.done carried.                *)
(***************************************************************************)
Finish(v, e) == ~v.open /\ e.output = v.items

(* validator.step: the events a stream may carry on with. *)
Legal(v, e) ==
  \/ e.type \in {"response.queued", "response.in_progress", "error", "response.failed"}
  \/ /\ e.type \in {"response.completed", "response.incomplete"}
     /\ Finish(v, e)
  \/ /\ e.type = "output_item.added"
     /\ ~v.open
     /\ e.index = Len(v.items) + 1
  \/ /\ e.type = "output_item.done"
     /\ OpenTyped(v, e.index, e.kind)
     /\ v.part = NoPart
     /\ ~v.summary
     /\ v.textOpen => v.textDone
  \/ /\ e.type = "content_part.added"
     /\ OpenTyped(v, e.index, "message")
     /\ v.part = NoPart
     /\ e.sub = v.parts + 1
  \/ /\ e.type = "content_part.done"
     /\ OpenPart(v, e)
     /\ v.kindDone
  \/ /\ e.type \in {"part.delta", "part.text_done"}
     /\ OpenPart(v, e)
  \/ /\ e.type = "output_text.annotation.added"
     /\ OpenPart(v, e)
     /\ e.part = "output_text"
  \/ /\ e.type \in {"function_call_arguments.delta", "function_call_arguments.done"}
     /\ OpenTyped(v, e.index, "function_call")
     /\ ~v.argsDone
  \/ /\ e.type = "reasoning_summary_part.added"
     /\ OpenTyped(v, e.index, "reasoning")
     /\ ~v.summary
     /\ e.sub = v.sums + 1
  \/ /\ e.type \in {"reasoning_summary_text.delta", "reasoning_summary_text.done"}
     /\ OpenSummary(v, e)
  \/ /\ e.type = "reasoning_summary_part.done"
     /\ OpenSummary(v, e)
     /\ v.sumDone
  \/ /\ e.type = "reasoning.delta"
     /\ OpenTyped(v, e.index, "reasoning")
     /\ ~v.textDone
  \/ /\ e.type = "reasoning.done"
     /\ OpenTyped(v, e.index, "reasoning")

(***************************************************************************)
(* Validate: response.created comes first and only first, nothing follows  *)
(* a terminal event, and only response.failed follows an error event.      *)
(***************************************************************************)
Accepts(v, e) ==
  /\ ~v.terminal
  /\ v.errored => e.type = "response.failed"
  /\ IF v.started THEN Legal(v, e) ELSE e.type = "response.created"

WithStatus(items, i, s) == [items EXCEPT ![i] = [kind |-> items[i].kind, status |-> s]]

(* What validator.step records of an event it accepted. *)
Apply(v, e) ==
  CASE e.type = "response.created" -> [v EXCEPT !.started = TRUE]
    [] IsTerminal(e)               -> [v EXCEPT !.terminal = TRUE]
    [] e.type = "error"            -> [v EXCEPT !.errored = TRUE]
    [] e.type = "output_item.added" ->
         [EmptyView EXCEPT !.started = TRUE, !.open = TRUE,
            !.items = Append(v.items, [kind |-> e.kind, status |-> e.status])]
    [] e.type = "output_item.done" ->
         [v EXCEPT !.open = FALSE, !.items = WithStatus(v.items, e.index, e.status)]
    [] e.type = "content_part.added" ->
         [v EXCEPT !.parts = e.sub, !.part = e.part, !.kindDone = FALSE]
    [] e.type = "content_part.done" -> [v EXCEPT !.part = NoPart]
    [] e.type = "part.text_done"    -> [v EXCEPT !.kindDone = TRUE]
    [] e.type = "reasoning_summary_part.added" ->
         [v EXCEPT !.sums = e.sub, !.summary = TRUE, !.sumDone = FALSE]
    [] e.type = "reasoning_summary_text.done" -> [v EXCEPT !.sumDone = TRUE]
    [] e.type = "reasoning_summary_part.done" -> [v EXCEPT !.summary = FALSE]
    [] e.type \in {"function_call_arguments.delta", "reasoning.delta"} ->
         [v EXCEPT !.textOpen = TRUE]
    [] e.type = "function_call_arguments.done" ->
         [v EXCEPT !.argsDone = TRUE, !.textOpen = FALSE]
    [] e.type = "reasoning.done" -> [v EXCEPT !.textDone = TRUE]
    [] OTHER -> v

-----------------------------------------------------------------------------
Init == view = EmptyView /\ last = NoEvent

(* The stream carries one more event, and it is one the reader accepts. *)
Next == Accepts(view, last') /\ view' = Apply(view, last')

Spec == Init /\ [][Next]_lifecycleVars
=============================================================================
