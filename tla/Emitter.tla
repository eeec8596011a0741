------------------------------- MODULE Emitter -------------------------------
(***************************************************************************)
(* openresponses.Emitter (src/emitter.go) and its item writers, driven by  *)
(* an adapter that may call any operation, on any writer it ever got, in   *)
(* any order.                                                              *)
(*                                                                         *)
(* One call sends several events and any of those sends may fail, so a     *)
(* call is a run of steps: the call action records the operation in `call` *)
(* and sets `pc` to the first event it has to send, and one step per event *)
(* updates the emitter's state, hands the event to the sink and moves `pc` *)
(* to the next one, down the nesting of the Go calls.  A failed send ends  *)
(* the call with the state changed so far, and the adapter stops, which is *)
(* what EventSink asks of it.  The emitter is not safe for concurrent use: *)
(* the adapter makes one call at a time.                                   *)
(*                                                                         *)
(* A call the code refuses (errWriterClosed, ErrTerminalEventSent) changes *)
(* nothing and sends nothing: it is a stuttering step.                     *)
(***************************************************************************)
EXTENDS Naturals, Sequences

CONSTANTS
  MaxItems,   \* bound on the output items of one response
  MaxParts    \* bound on the parts of one item

ASSUME BoundsAssumption == MaxItems \in Nat /\ MaxParts \in Nat

VARIABLES
  started,    \* Emitter.started
  ended,      \* Emitter.terminal
  open,       \* Emitter.open: index of the open writer's item, 0 for none
  out,        \* Emitter.resp.Output; a writer's fields sit with its item
  pc,         \* the event the running call sends next, "idle" between calls
  call,       \* the running call
  running,    \* whether CreateStream has not returned
  view, last  \* what the reader of the stream knows, and the last event sent

emitterVars == <<started, ended, open, out, pc, call, running>>
vars        == <<emitterVars, view, last>>

(* What the reader has seen is all the lifecycle speaks of. *)
Lifecycle == INSTANCE StreamLifecycle WITH view <- view, last <- last

WriterKinds == {"message", "function_call", "reasoning"}
PartKinds   == Lifecycle!PartKinds
NoPart      == Lifecycle!NoPart

Ops == {"start", "item", "open", "complete", "incomplete", "close", "text", "annotation",
        "logprobs", "refusal", "arguments", "summary", "end_summary", "reasoning_text"}

PCs == {"idle", "created", "in_progress", "part_text_done", "content_part_done",
        "summary_text_done", "summary_part_done", "reasoning_done", "arguments_done",
        "output_item_done", "output_item_added", "item_done", "content_part_added",
        "summary_part_added", "delta", "terminal"}

(***************************************************************************)
(* A call: the operation, the writer it works on or closes (0: none), the  *)
(* part the writer is closing (the local variable of closePart) and, for   *)
(* an operation that opens an item, the item's kind and initial status.    *)
(***************************************************************************)
Call(op, w, part, kind, status) ==
  [op |-> op, w |-> w, part |-> part, kind |-> kind, status |-> status]
NoCall == Call("close", 0, NoPart, "other", "in_progress")

NewItem(kind, status) ==
  [ kind    |-> kind,
    status  |-> status,
    closed  |-> FALSE,    \* writer.closed; an item with no writer has it set when done
    parts   |-> 0,        \* len(msg.Content)
    part    |-> NoPart,   \* MessageWriter.part, by kind
    sums    |-> 0,        \* len(item.Summary)
    summary |-> FALSE,    \* ReasoningWriter.summary is set
    text    |-> FALSE ]   \* ReasoningWriter.textOpen

Item == [kind: Lifecycle!ItemKinds, status: Lifecycle!ItemStatus, closed: BOOLEAN,
         parts: Nat, part: PartKinds \cup {NoPart}, sums: Nat, summary: BOOLEAN,
         text: BOOLEAN]

(* The output list as an event carries it. *)
Output == [i \in 1..Len(out) |-> [kind |-> out[i].kind, status |-> out[i].status]]

-----------------------------------------------------------------------------
(* Where a call goes once the stream is started and the open item closed.  *)
Target(op) ==
  CASE op \in {"open", "item"}             -> "output_item_added"
    [] op \in {"complete", "incomplete"}   -> "terminal"
    [] OTHER                               -> "idle"

(* Close of a writer: the first event it sends. *)
CloseEntry(it) ==
  CASE it.kind = "message"       -> IF it.part # NoPart THEN "part_text_done" ELSE "output_item_done"
    [] it.kind = "function_call" -> "arguments_done"
    [] OTHER                     -> IF it.summary THEN "summary_text_done"
                                    ELSE IF it.text THEN "reasoning_done" ELSE "output_item_done"

(***************************************************************************)
(* closeOpen inside a call: the emitter forgets the open writer and the    *)
(* writer, unless the adapter closed it itself, is marked closed with no   *)
(* open part left, before the first event goes out.                        *)
(***************************************************************************)
NeedsClose == open # 0 /\ ~out[open].closed

(* Mutant: markIncomplete does not look whether the writer is closed. *)
MarkedEvenWhenClosed(op) ==
  IF op = "incomplete" /\ open # 0
  THEN [out EXCEPT ![open] = [@ EXCEPT !.status = "incomplete"]]
  ELSE out

(* Incomplete first marks the open item, unless its writer is closed. *)
Marked(op) ==
  IF op = "incomplete" /\ NeedsClose
  THEN [out EXCEPT ![open] = [@ EXCEPT !.status = "incomplete"]]
  ELSE out

(* Mutant: Close forgets to mark the writer closed. *)
ShutKeepingTheWriterOpen(items, i) ==
  [items EXCEPT ![i] = [@ EXCEPT !.part = NoPart, !.summary = FALSE]]

(* Writer.Close marks the writer closed and takes its open part. *)
Shut(items, i) ==
  [items EXCEPT ![i] = [@ EXCEPT !.closed = TRUE, !.part = NoPart, !.summary = FALSE]]

BeginClose(op, kind, status) ==
  /\ open' = 0
  /\ out'  = Shut(Marked(op), open)
  /\ call' = Call(op, open, out[open].part, kind, status)
  /\ pc'   = CloseEntry(out[open])

(* Mutant: the item that is open is not closed before the next one. *)
BeginWithoutClosing(op, kind, status) ==
  /\ running /\ pc = "idle" /\ ~ended
  /\ open' = 0
  /\ out'  = out
  /\ call' = Call(op, 0, NoPart, kind, status)
  /\ pc'   = IF started THEN Target(op) ELSE "created"
  /\ UNCHANGED <<started, ended, running, view, last>>

(***************************************************************************)
(* The operations that first start the stream and close the open item:     *)
(* Message, FunctionCall, Reasoning, Item, Complete, Incomplete; and Start *)
(* itself, which finds no item open.                                       *)
(***************************************************************************)
Begin(op, kind, status) ==
  /\ running /\ pc = "idle" /\ ~ended
  /\ IF NeedsClose
     THEN BeginClose(op, kind, status)
     ELSE /\ open' = 0
          /\ out'  = Marked(op)
          /\ call' = Call(op, 0, NoPart, kind, status)
          /\ pc'   = IF started THEN Target(op) ELSE "created"
  /\ UNCHANGED <<started, ended, running, view, last>>

(* Start, once; called again it does nothing. *)
Start == ~started /\ Begin("start", "other", "in_progress")

(* Message, FunctionCall, Reasoning: open an item and return its writer. *)
OpenWriter(kind) ==
  /\ Len(out) < MaxItems
  /\ Begin("open", kind, "in_progress")

(* Item: an item with no deltas, in the status the adapter gave it. *)
EmitItem(status) ==
  /\ Len(out) < MaxItems
  /\ Begin("item", "other", status)

Complete == Begin("complete", "other", "in_progress")

(* Incomplete marks the item that is still open before closing it. *)
Incomplete == Begin("incomplete", "other", "in_progress")

-----------------------------------------------------------------------------
(***************************************************************************)
(* Operations of a writer.  `Live` is the `closed` check each one makes.   *)
(***************************************************************************)
Live(i, kind) ==
  /\ running /\ pc = "idle"
  /\ i \in 1..Len(out)
  /\ out[i].kind = kind
  /\ ~out[i].closed

(***************************************************************************)
(* MessageWriter.Text, Annotation, Logprobs and Refusal: continue the open *)
(* part of their kind, or close the part of the other kind and open one.   *)
(***************************************************************************)
Write(i, op, part) ==
  /\ Live(i, "message")
  /\ call' = Call(op, i, out[i].part, "other", "in_progress")
  /\ IF out[i].part = part
     THEN /\ op # "logprobs"   \* nothing is sent for it
          /\ pc' = "delta"
          /\ out' = out
     ELSE /\ out[i].parts < MaxParts
          /\ IF out[i].part = NoPart
             THEN pc' = "content_part_added" /\ out' = out
             ELSE pc' = "part_text_done" /\ out' = [out EXCEPT ![i] = [@ EXCEPT !.part = NoPart]]
  /\ UNCHANGED <<started, ended, open, running, view, last>>

Text(i)       == Write(i, "text", "output_text")
Annotation(i) == Write(i, "annotation", "output_text")
Logprobs(i)   == Write(i, "logprobs", "output_text")
Refusal(i)    == Write(i, "refusal", "refusal")

(* FunctionCallWriter.Arguments *)
Arguments(i) ==
  /\ Live(i, "function_call")
  /\ call' = Call("arguments", i, NoPart, "other", "in_progress")
  /\ pc' = "delta"
  /\ UNCHANGED <<started, ended, open, out, running, view, last>>

(* ReasoningWriter.Summary: open a summary part unless one is open. *)
Summary(i) ==
  /\ Live(i, "reasoning")
  /\ call' = Call("summary", i, NoPart, "other", "in_progress")
  /\ IF out[i].summary
     THEN pc' = "delta"
     ELSE out[i].sums < MaxParts /\ pc' = "summary_part_added"
  /\ UNCHANGED <<started, ended, open, out, running, view, last>>

(* ReasoningWriter.EndSummary *)
EndSummary(i) ==
  /\ running /\ pc = "idle"
  /\ i \in 1..Len(out) /\ out[i].kind = "reasoning" /\ out[i].summary
  /\ call' = Call("end_summary", i, NoPart, "other", "in_progress")
  /\ pc'   = "summary_text_done"
  /\ out'  = [out EXCEPT ![i] = [@ EXCEPT !.summary = FALSE]]
  /\ UNCHANGED <<started, ended, open, running, view, last>>

(* ReasoningWriter.Text: textDone is only set by Close. *)
ReasoningText(i) ==
  /\ Live(i, "reasoning")
  /\ call' = Call("reasoning_text", i, NoPart, "other", "in_progress")
  /\ pc'   = "delta"
  /\ out'  = [out EXCEPT ![i] = [@ EXCEPT !.text = TRUE]]
  /\ UNCHANGED <<started, ended, open, running, view, last>>

(***************************************************************************)
(* Close, called by the adapter: the emitter still holds the writer as its *)
(* open one and finds it closed when the next item is opened.              *)
(***************************************************************************)
CloseWriter(i) ==
  /\ running /\ pc = "idle"
  /\ i \in 1..Len(out) /\ out[i].kind \in WriterKinds /\ ~out[i].closed
  /\ call' = Call("close", i, out[i].part, "other", "in_progress")
  /\ pc'   = CloseEntry(out[i])
  /\ out'  = Shut(out, i)
  /\ UNCHANGED <<started, ended, open, running, view, last>>

(* The adapter returns from CreateStream, finished or not. *)
Return ==
  /\ running /\ pc = "idle"
  /\ running' = FALSE
  /\ UNCHANGED <<started, ended, open, out, pc, call, view, last>>

-----------------------------------------------------------------------------
(***************************************************************************)
(* EventSink.Send: the event reaches the reader and the call goes on, or   *)
(* the sink refuses it (the client has gone, the event does not encode)    *)
(* and the call returns the error, on which the adapter stops.             *)
(***************************************************************************)
Send(e, next) ==
  \/ /\ view' = Lifecycle!Apply(view, e)
     /\ last' = e
     /\ pc' = next
     /\ UNCHANGED running
  \/ /\ pc' = "idle"
     /\ running' = FALSE
     /\ UNCHANGED <<view, last>>

(* Start *)
SendCreated ==
  /\ pc = "created"
  /\ started' = TRUE
  /\ Send(Lifecycle!ResponseEvent("response.created"), "in_progress")
  /\ UNCHANGED <<ended, open, out, call>>

SendInProgress ==
  /\ pc = "in_progress"
  /\ Send(Lifecycle!ResponseEvent("response.in_progress"), Target(call.op))
  /\ UNCHANGED <<started, ended, open, out, call>>

(* MessageWriter.closePart: output_text.done or refusal.done ... *)
SendPartTextDone ==
  /\ pc = "part_text_done"
  /\ Send(Lifecycle!PartEvent("part.text_done", call.w, out[call.w].parts, call.part),
          "content_part_done")
  /\ UNCHANGED <<started, ended, open, out, call>>

(* ... then content_part.done, back into Close, Text or Refusal. *)
SendContentPartDone ==
  /\ pc = "content_part_done"
  /\ Send(Lifecycle!PartEvent("content_part.done", call.w, out[call.w].parts, call.part),
          IF out[call.w].closed THEN "output_item_done" ELSE "content_part_added")
  /\ UNCHANGED <<started, ended, open, out, call>>

(* MessageWriter.openPart *)
SendContentPartAdded ==
  LET it   == out[call.w]
      part == IF call.op = "refusal" THEN "refusal" ELSE "output_text" IN
  /\ pc = "content_part_added"
  /\ out' = [out EXCEPT ![call.w] = [it EXCEPT !.parts = it.parts + 1, !.part = part]]
  /\ Send(Lifecycle!PartEvent("content_part.added", call.w, it.parts + 1, part),
          IF call.op = "logprobs" THEN "idle" ELSE "delta")
  /\ UNCHANGED <<started, ended, open, call>>

(* ReasoningWriter.EndSummary: reasoning_summary_text.done ... *)
SendSummaryTextDone ==
  /\ pc = "summary_text_done"
  /\ Send(Lifecycle!PartEvent("reasoning_summary_text.done", call.w, out[call.w].sums, "summary_text"),
          "summary_part_done")
  /\ UNCHANGED <<started, ended, open, out, call>>

(* ... then reasoning_summary_part.done, and on with Close if it is closing. *)
SendSummaryPartDone ==
  /\ pc = "summary_part_done"
  /\ Send(Lifecycle!PartEvent("reasoning_summary_part.done", call.w, out[call.w].sums, "summary_text"),
          IF ~out[call.w].closed THEN "idle"
          ELSE IF out[call.w].text THEN "reasoning_done" ELSE "output_item_done")
  /\ UNCHANGED <<started, ended, open, out, call>>

(* ReasoningWriter.Summary opening a part *)
SendSummaryPartAdded ==
  LET it == out[call.w] IN
  /\ pc = "summary_part_added"
  /\ out' = [out EXCEPT ![call.w] = [it EXCEPT !.sums = it.sums + 1, !.summary = TRUE]]
  /\ Send(Lifecycle!PartEvent("reasoning_summary_part.added", call.w, it.sums + 1, "summary_text"),
          "delta")
  /\ UNCHANGED <<started, ended, open, call>>

(* ReasoningWriter.Close, FunctionCallWriter.Close *)
SendReasoningDone ==
  /\ pc = "reasoning_done"
  /\ Send(Lifecycle!InItemEvent("reasoning.done", call.w), "output_item_done")
  /\ UNCHANGED <<started, ended, open, out, call>>

SendArgumentsDone ==
  /\ pc = "arguments_done"
  /\ Send(Lifecycle!InItemEvent("function_call_arguments.done", call.w), "output_item_done")
  /\ UNCHANGED <<started, ended, open, out, call>>

(* The delta of Text, Annotation, Refusal, Arguments, Summary, reasoning Text. *)
DeltaEvent ==
  LET it == out[call.w] IN
  CASE call.op = "text"       -> Lifecycle!PartEvent("part.delta", call.w, it.parts, "output_text")
    [] call.op = "annotation" -> Lifecycle!PartEvent("output_text.annotation.added", call.w, it.parts, "output_text")
    [] call.op = "refusal"    -> Lifecycle!PartEvent("part.delta", call.w, it.parts, "refusal")
    [] call.op = "summary"    -> Lifecycle!PartEvent("reasoning_summary_text.delta", call.w, it.sums, "summary_text")
    [] call.op = "arguments"  -> Lifecycle!InItemEvent("function_call_arguments.delta", call.w)
    [] OTHER                  -> Lifecycle!InItemEvent("reasoning.delta", call.w)

SendDelta ==
  /\ pc = "delta"
  /\ Send(DeltaEvent, "idle")
  /\ UNCHANGED <<started, ended, open, out, call>>

-----------------------------------------------------------------------------
(* Mutant: closeItem promotes an unset status only. *)
PromotedOnlyWhenUnset(status) == status

(* closeItem promotes an in_progress or unset status to completed. *)
Promoted(status) == IF status = "in_progress" THEN "completed" ELSE status

SendItemDone ==
  LET it == out[call.w] IN
  /\ pc = "output_item_done"
  /\ out' = [out EXCEPT ![call.w] = [it EXCEPT !.status = Promoted(it.status)]]
  /\ Send(Lifecycle!ItemEvent("output_item.done", call.w, it.kind, Promoted(it.status)),
          Target(call.op))
  /\ UNCHANGED <<started, ended, open, call>>

(* Mutant: the output index is taken after the item was appended. *)
IndexTakenAfterAppend == Len(out) + 2

(* openItem: the new item's output_index. *)
NewIndex == Len(out) + 1

(* openItem appends to the output before output_item.added is sent. *)
SendItemAdded ==
  /\ pc = "output_item_added"
  /\ out' = Append(out, NewItem(call.kind, call.status))
  /\ Send(Lifecycle!ItemEvent("output_item.added", NewIndex, call.kind, call.status),
          IF call.op = "item" THEN "item_done" ELSE "idle")
  /\ open' = IF call.op = "open" /\ running' THEN NewIndex ELSE 0
  /\ UNCHANGED <<started, ended, call>>

(* Item closes what it has just added. *)
SendPlainItemDone ==
  LET i  == Len(out)
      it == out[i] IN
  /\ pc = "item_done"
  /\ out' = [out EXCEPT ![i] = [it EXCEPT !.status = Promoted(it.status), !.closed = TRUE]]
  /\ Send(Lifecycle!ItemEvent("output_item.done", i, "other", Promoted(it.status)), "idle")
  /\ UNCHANGED <<started, ended, open, call>>

SendTerminal ==
  /\ pc = "terminal"
  /\ ended' = TRUE
  /\ Send(Lifecycle!TerminalEvent(IF call.op = "complete" THEN "response.completed"
                                  ELSE "response.incomplete", Output), "idle")
  /\ UNCHANGED <<started, open, out, call>>

-----------------------------------------------------------------------------
Init ==
  /\ started = FALSE /\ ended = FALSE /\ open = 0 /\ out = <<>>
  /\ pc = "idle" /\ call = NoCall /\ running = TRUE
  /\ Lifecycle!Init

AdapterCall ==
  \/ Start
  \/ \E k \in WriterKinds : OpenWriter(k)
  \/ \E s \in Lifecycle!ItemStatus : EmitItem(s)
  \/ Complete
  \/ Incomplete
  \/ \E i \in 1..Len(out) :
       \/ Text(i)      \/ Annotation(i) \/ Logprobs(i) \/ Refusal(i)
       \/ Arguments(i) \/ Summary(i)    \/ EndSummary(i)
       \/ ReasoningText(i) \/ CloseWriter(i)
  \/ Return

EmitterStep ==
  \/ SendCreated          \/ SendInProgress      \/ SendPartTextDone
  \/ SendContentPartDone  \/ SendContentPartAdded \/ SendSummaryTextDone
  \/ SendSummaryPartDone  \/ SendSummaryPartAdded \/ SendReasoningDone
  \/ SendArgumentsDone    \/ SendDelta           \/ SendItemDone
  \/ SendItemAdded        \/ SendPlainItemDone   \/ SendTerminal

(* Nothing is left to do once CreateStream has returned. *)
Returned == ~running /\ UNCHANGED vars

Next == AdapterCall \/ EmitterStep \/ Returned

Spec == Init /\ [][Next]_vars

-----------------------------------------------------------------------------
(* The state has its type. *)
TypeOK ==
  /\ started \in BOOLEAN /\ ended \in BOOLEAN /\ running \in BOOLEAN
  /\ out \in Seq(Item)
  /\ open \in 0..Len(out)
  /\ pc \in PCs
  /\ call \in [op: Ops, w: 0..Len(out), part: PartKinds \cup {NoPart},
               kind: Lifecycle!ItemKinds, status: Lifecycle!ItemStatus]

(***************************************************************************)
(* Whatever the adapter calls and wherever a send fails, what reaches the  *)
(* reader is a stream the lifecycle allows, terminal event and all.        *)
(***************************************************************************)
ImplementsLifecycle == Lifecycle!Spec

(***************************************************************************)
(* At most one writer accepts content, and it is the emitter's open one:   *)
(* opening an item closes the writer before it, so a writer the adapter    *)
(* kept from an earlier item can no longer reach the stream.               *)
(***************************************************************************)
OnlyTheOpenWriterIsLive ==
  running => \A i \in 1..Len(out) :
               out[i].kind \in WriterKinds /\ ~out[i].closed => i = open

(***************************************************************************)
(* An item whose output_item.done the reader has seen keeps the status it  *)
(* carried: the live response object the emitter goes on changing, and     *)
(* Incomplete in particular, does not rewrite it.                          *)
(***************************************************************************)
IsDone(i) == i < Len(view.items) \/ (i = Len(view.items) /\ ~view.open)
DoneItemsKeepTheirForm ==
  \A i \in 1..Len(view.items) : IsDone(i) => out[i].status = view.items[i].status

(***************************************************************************)
(* response.completed carries no writer's item that is not completed, and  *)
(* response.incomplete none but the one that was open when the adapter     *)
(* called Incomplete, which is the last.                                   *)
(***************************************************************************)
TerminalStatuses ==
  last.type \in {"response.completed", "response.incomplete"} =>
    \A i \in 1..Len(last.output) :
      last.output[i].kind \in WriterKinds =>
        \/ last.output[i].status = "completed"
        \/ /\ last.type = "response.incomplete"
           /\ last.output[i].status = "incomplete"
           /\ i = Len(last.output)
=============================================================================
