---------------------------- MODULE EmitterProofs ----------------------------
(***************************************************************************)
(* Emitter implements the streaming lifecycle for every number of items    *)
(* and parts, and no writer but the open one is ever live.                 *)
(*                                                                         *)
(* The argument is one inductive invariant, IInv.  Its core, Agree, says   *)
(* for every value of pc how the reader's view relates to the emitter's    *)
(* state just before the event pc names is sent: that relation is the      *)
(* precondition the lifecycle puts on the event.                           *)
(***************************************************************************)
EXTENDS Emitter, SequenceTheorems, TLAPS

BeginOps == {"start", "open", "item", "complete", "incomplete"}

ListedItem == [kind: Lifecycle!ItemKinds, status: Lifecycle!ItemStatus]

View == [ started: BOOLEAN, terminal: BOOLEAN, errored: BOOLEAN,
          items: Seq(ListedItem), open: BOOLEAN, parts: Nat,
          part: PartKinds \cup {NoPart}, kindDone: BOOLEAN, sums: Nat,
          summary: BOOLEAN, sumDone: BOOLEAN, textOpen: BOOLEAN,
          textDone: BOOLEAN, argsDone: BOOLEAN ]

(* The last item, the only one that may be open. *)
N  == Len(out)

(* The reader knows the items that were added, by kind. *)
SameItems ==
  /\ Len(view.items) = Len(out)
  /\ \A i \in 1..Len(out) : view.items[i].kind = out[i].kind

(* Every writer but the last item's is closed, and a closed one has no open summary. *)
EarlierWritersClosed ==
  \A i \in 1..Len(out) :
    /\ i < Len(out) /\ out[i].kind \in WriterKinds => out[i].closed
    /\ out[i].closed => ~out[i].summary

DoneItems ==
  /\ Len(view.items) <= Len(out)
  /\ \A i \in 1..Len(view.items) :
       i < Len(view.items) \/ ~view.open => out[i].status = view.items[i].status

(* The open item is call.w, the last one, and of kind k. *)
Working(k) == view.open /\ N > 0 /\ call.w = N /\ out[N].kind = k

(* A call is closing the last item's writer, or is still going to use it. *)
Closing == out[N].closed /\ call.op \in BeginOps \cup {"close"}
Using(ops) == ~out[N].closed /\ open = N /\ call.op \in ops

(* What the reader knows of the inside of the open item. *)
SameCounts == view.parts = out[N].parts /\ view.sums = out[N].sums
SameText   == /\ view.textOpen => out[N].text \/ out[N].kind = "function_call"
              /\ ~view.textDone /\ ~view.argsDone
SamePart   == view.part = out[N].part /\ (view.part # NoPart => out[N].kind = "message")
SameSum    == view.summary = out[N].summary /\ (view.summary => out[N].kind = "reasoning")
SameInside == SameCounts /\ SameText /\ SamePart /\ SameSum

WriteOps == {"text", "annotation", "logprobs", "refusal"}

AtIdle ==
  /\ view.open = NeedsClose
  /\ NeedsClose => SameInside

AtPartEnd ==   \* part_text_done, content_part_done
  /\ Working("message") /\ SameCounts /\ SameText /\ SameSum
  /\ view.part = call.part /\ call.part # NoPart /\ out[N].part = NoPart
  /\ Closing \/ Using(WriteOps)

AtSummaryEnd ==   \* summary_text_done, summary_part_done
  /\ Working("reasoning") /\ SameCounts /\ SameText /\ SamePart
  /\ view.summary /\ ~out[N].summary
  /\ Closing \/ Using({"end_summary"})

AtDelta ==
  /\ view.open /\ N > 0 /\ call.w = N /\ ~out[N].closed /\ open = N /\ SameInside
  /\ \/ call.op \in {"text", "annotation"} /\ out[N].part = "output_text"
     \/ call.op = "refusal" /\ out[N].part = "refusal"
     \/ call.op = "arguments" /\ out[N].kind = "function_call"
     \/ call.op = "summary" /\ out[N].summary
     \/ call.op = "reasoning_text" /\ out[N].kind = "reasoning" /\ out[N].text

(* The relation between the reader and the emitter before each event. *)
Agree ==
  CASE pc = "idle"               -> AtIdle
    [] pc = "created"            -> N = 0 /\ ~started /\ ~view.open /\ call.op \in BeginOps
    [] pc = "in_progress"        -> N = 0 /\ started /\ ~view.open /\ call.op \in BeginOps
    [] pc = "part_text_done"     -> AtPartEnd
    [] pc = "content_part_done"  -> AtPartEnd /\ view.kindDone
    [] pc = "content_part_added" -> Working("message") /\ SameInside /\ Using(WriteOps)
                                    /\ out[N].part = NoPart
    [] pc = "summary_text_done"  -> AtSummaryEnd
    [] pc = "summary_part_done"  -> AtSummaryEnd /\ view.sumDone
    [] pc = "summary_part_added" -> Working("reasoning") /\ SameInside /\ Using({"summary"})
                                    /\ ~out[N].summary
    [] pc = "reasoning_done"     -> Working("reasoning") /\ Closing /\ SameInside
                                    /\ ~out[N].summary
    [] pc = "arguments_done"     -> Working("function_call") /\ Closing /\ SameInside
    [] pc = "output_item_done"   -> /\ view.open /\ N > 0 /\ call.w = N /\ Closing
                                    /\ view.part = NoPart /\ ~view.summary
                                    /\ view.textOpen => view.textDone
    [] pc = "output_item_added"  -> ~view.open /\ call.op \in {"open", "item"}
    [] pc = "item_done"          -> /\ view.open /\ N > 0 /\ out[N].kind = "other"
                                    /\ call.op = "item" /\ ~out[N].summary
                                    /\ view.part = NoPart /\ ~view.summary /\ ~view.textOpen
    [] pc = "delta"              -> AtDelta
    [] pc = "terminal"           -> ~view.open /\ call.op \in {"complete", "incomplete"}

Control ==
  /\ ~view.errored
  /\ started = view.started
  /\ ~started => N = 0 /\ pc \in {"idle", "created"}
  /\ ended = view.terminal
  /\ ended => pc = "idle" /\ ~view.open
  /\ call.op \in BeginOps => pc = "idle" \/ open = 0
  /\ call.op = "open" => call.kind \in WriterKinds
  /\ call.op = "item" => call.kind = "other"
  /\ open # 0 => open = N /\ out[N].kind \in WriterKinds
  /\ NeedsClose => view.open
  /\ N > 0 /\ out[N].kind \in WriterKinds /\ ~out[N].closed => open = N
  /\ N > 0 /\ out[N].text => out[N].kind = "reasoning"

IInv ==
  /\ TypeOK
  /\ view \in View
  /\ DoneItems
  /\ ~running => pc = "idle"
  /\ running => SameItems /\ EarlierWritersClosed /\ Control /\ Agree
-----------------------------------------------------------------------------
(***************************************************************************)
(* The lifecycle, event by event: when it accepts the event and what the   *)
(* reader then knows.                                                      *)
(***************************************************************************)
Ready(v) == v \in View /\ v.started /\ ~v.terminal /\ ~v.errored

(* Deltas and annotations tell the reader nothing new about the structure. *)
LEMMA PartDelta ==
  ASSUME NEW v, NEW e, Ready(v), Lifecycle!OpenPart(v, e),
         \/ e.type = "part.delta"
         \/ e.type = "output_text.annotation.added" /\ e.part = "output_text"
  PROVE  Lifecycle!Accepts(v, e) /\ Lifecycle!Apply(v, e) = v
<1>1. Lifecycle!Accepts(v, e)
  BY DEF Ready, Lifecycle!Accepts, Lifecycle!Legal
<1>2. Lifecycle!Apply(v, e) = v
  BY DEF Lifecycle!Apply, Lifecycle!IsTerminal
<1> QED BY <1>1, <1>2

LEMMA PartTextDone ==
  ASSUME NEW v, NEW e, Ready(v), e.type = "part.text_done", Lifecycle!OpenPart(v, e)
  PROVE  Lifecycle!Accepts(v, e) /\ Lifecycle!Apply(v, e) = [v EXCEPT !.kindDone = TRUE]
<1>1. Lifecycle!Accepts(v, e)
  BY DEF Ready, Lifecycle!Accepts, Lifecycle!Legal
<1>2. Lifecycle!Apply(v, e) = [v EXCEPT !.kindDone = TRUE]
  BY DEF Lifecycle!Apply, Lifecycle!IsTerminal
<1> QED BY <1>1, <1>2

LEMMA PartDone ==
  ASSUME NEW v, NEW e, Ready(v), e.type = "content_part.done", Lifecycle!OpenPart(v, e), v.kindDone
  PROVE  Lifecycle!Accepts(v, e) /\ Lifecycle!Apply(v, e) = [v EXCEPT !.part = NoPart]
<1>1. Lifecycle!Accepts(v, e)
  BY DEF Ready, Lifecycle!Accepts, Lifecycle!Legal
<1>2. Lifecycle!Apply(v, e) = [v EXCEPT !.part = NoPart]
  BY DEF Lifecycle!Apply, Lifecycle!IsTerminal, NoPart
<1> QED BY <1>1, <1>2

LEMMA PartAdded ==
  ASSUME NEW v, NEW e, Ready(v), e.type = "content_part.added",
         Lifecycle!OpenTyped(v, e.index, "message"), v.part = NoPart, e.sub = v.parts + 1
  PROVE  /\ Lifecycle!Accepts(v, e)
         /\ Lifecycle!Apply(v, e) =
              [v EXCEPT !.parts = e.sub, !.part = e.part, !.kindDone = FALSE]
<1>1. Lifecycle!Accepts(v, e)
  BY DEF Ready, Lifecycle!Accepts, Lifecycle!Legal, NoPart
<1>2. Lifecycle!Apply(v, e) = [v EXCEPT !.parts = e.sub, !.part = e.part, !.kindDone = FALSE]
  BY DEF Lifecycle!Apply, Lifecycle!IsTerminal
<1> QED BY <1>1, <1>2

LEMMA SummaryDelta ==
  ASSUME NEW v, NEW e, Ready(v), e.type = "reasoning_summary_text.delta", Lifecycle!OpenSummary(v, e)
  PROVE  Lifecycle!Accepts(v, e) /\ Lifecycle!Apply(v, e) = v
<1>1. Lifecycle!Accepts(v, e)
  BY DEF Ready, Lifecycle!Accepts, Lifecycle!Legal
<1>2. Lifecycle!Apply(v, e) = v
  BY DEF Lifecycle!Apply, Lifecycle!IsTerminal
<1> QED BY <1>1, <1>2

LEMMA SummaryTextDone ==
  ASSUME NEW v, NEW e, Ready(v), e.type = "reasoning_summary_text.done", Lifecycle!OpenSummary(v, e)
  PROVE  Lifecycle!Accepts(v, e) /\ Lifecycle!Apply(v, e) = [v EXCEPT !.sumDone = TRUE]
<1>1. Lifecycle!Accepts(v, e)
  BY DEF Ready, Lifecycle!Accepts, Lifecycle!Legal
<1>2. Lifecycle!Apply(v, e) = [v EXCEPT !.sumDone = TRUE]
  BY DEF Lifecycle!Apply, Lifecycle!IsTerminal
<1> QED BY <1>1, <1>2

LEMMA SummaryPartDone ==
  ASSUME NEW v, NEW e, Ready(v), e.type = "reasoning_summary_part.done",
         Lifecycle!OpenSummary(v, e), v.sumDone
  PROVE  Lifecycle!Accepts(v, e) /\ Lifecycle!Apply(v, e) = [v EXCEPT !.summary = FALSE]
<1>1. Lifecycle!Accepts(v, e)
  BY DEF Ready, Lifecycle!Accepts, Lifecycle!Legal
<1>2. Lifecycle!Apply(v, e) = [v EXCEPT !.summary = FALSE]
  BY DEF Lifecycle!Apply, Lifecycle!IsTerminal
<1> QED BY <1>1, <1>2

LEMMA SummaryPartAdded ==
  ASSUME NEW v, NEW e, Ready(v), e.type = "reasoning_summary_part.added",
         Lifecycle!OpenTyped(v, e.index, "reasoning"), ~v.summary, e.sub = v.sums + 1
  PROVE  /\ Lifecycle!Accepts(v, e)
         /\ Lifecycle!Apply(v, e) =
              [v EXCEPT !.sums = e.sub, !.summary = TRUE, !.sumDone = FALSE]
<1>1. Lifecycle!Accepts(v, e)
  BY DEF Ready, Lifecycle!Accepts, Lifecycle!Legal
<1>2. Lifecycle!Apply(v, e) = [v EXCEPT !.sums = e.sub, !.summary = TRUE, !.sumDone = FALSE]
  BY DEF Lifecycle!Apply, Lifecycle!IsTerminal
<1> QED BY <1>1, <1>2

(* Reasoning text and function call arguments. *)
LEMMA TextDelta ==
  ASSUME NEW v, NEW e, Ready(v),
         \/ /\ e.type = "reasoning.delta" /\ Lifecycle!OpenTyped(v, e.index, "reasoning")
            /\ ~v.textDone
         \/ /\ e.type = "function_call_arguments.delta"
            /\ Lifecycle!OpenTyped(v, e.index, "function_call") /\ ~v.argsDone
  PROVE  Lifecycle!Accepts(v, e) /\ Lifecycle!Apply(v, e) = [v EXCEPT !.textOpen = TRUE]
<1>1. Lifecycle!Accepts(v, e)
  BY DEF Ready, Lifecycle!Accepts, Lifecycle!Legal
<1>2. Lifecycle!Apply(v, e) = [v EXCEPT !.textOpen = TRUE]
  BY DEF Lifecycle!Apply, Lifecycle!IsTerminal
<1> QED BY <1>1, <1>2

LEMMA ReasoningDone ==
  ASSUME NEW v, NEW e, Ready(v), e.type = "reasoning.done",
         Lifecycle!OpenTyped(v, e.index, "reasoning")
  PROVE  Lifecycle!Accepts(v, e) /\ Lifecycle!Apply(v, e) = [v EXCEPT !.textDone = TRUE]
<1>1. Lifecycle!Accepts(v, e)
  BY DEF Ready, Lifecycle!Accepts, Lifecycle!Legal
<1>2. Lifecycle!Apply(v, e) = [v EXCEPT !.textDone = TRUE]
  BY DEF Lifecycle!Apply, Lifecycle!IsTerminal
<1> QED BY <1>1, <1>2

LEMMA ArgumentsDone ==
  ASSUME NEW v, NEW e, Ready(v), e.type = "function_call_arguments.done",
         Lifecycle!OpenTyped(v, e.index, "function_call"), ~v.argsDone
  PROVE  /\ Lifecycle!Accepts(v, e)
         /\ Lifecycle!Apply(v, e) = [v EXCEPT !.argsDone = TRUE, !.textOpen = FALSE]
<1>1. Lifecycle!Accepts(v, e)
  BY DEF Ready, Lifecycle!Accepts, Lifecycle!Legal
<1>2. Lifecycle!Apply(v, e) = [v EXCEPT !.argsDone = TRUE, !.textOpen = FALSE]
  BY DEF Lifecycle!Apply, Lifecycle!IsTerminal
<1> QED BY <1>1, <1>2

LEMMA ItemDone ==
  ASSUME NEW v, NEW e, Ready(v), e.type = "output_item.done",
         Lifecycle!OpenTyped(v, e.index, e.kind),
         v.part = NoPart, ~v.summary, v.textOpen => v.textDone
  PROVE  /\ Lifecycle!Accepts(v, e)
         /\ Lifecycle!Apply(v, e) =
              [v EXCEPT !.open = FALSE,
                 !.items = Lifecycle!WithStatus(v.items, e.index, e.status)]
<1>1. Lifecycle!Accepts(v, e)
  BY DEF Ready, Lifecycle!Accepts, Lifecycle!Legal, NoPart
<1>2. Lifecycle!Apply(v, e) =
        [v EXCEPT !.open = FALSE,
           !.items = Lifecycle!WithStatus(v.items, e.index, e.status)]
  BY DEF Lifecycle!Apply, Lifecycle!IsTerminal, Ready, View
<1> QED BY <1>1, <1>2

LEMMA ItemAdded ==
  ASSUME NEW v, NEW e, Ready(v), e.type = "output_item.added", ~v.open, e.index = Len(v.items) + 1
  PROVE  /\ Lifecycle!Accepts(v, e)
         /\ Lifecycle!Apply(v, e) =
              [Lifecycle!EmptyView EXCEPT !.started = TRUE, !.open = TRUE,
                 !.items = Append(v.items, [kind |-> e.kind, status |-> e.status])]
<1>1. Lifecycle!Accepts(v, e)
  BY DEF Ready, Lifecycle!Accepts, Lifecycle!Legal
<1>2. Lifecycle!Apply(v, e) =
        [Lifecycle!EmptyView EXCEPT !.started = TRUE, !.open = TRUE,
           !.items = Append(v.items, [kind |-> e.kind, status |-> e.status])]
  BY DEF Lifecycle!Apply, Lifecycle!IsTerminal
<1> QED BY <1>1, <1>2

LEMMA InProgress ==
  ASSUME NEW v, NEW e, Ready(v), e.type = "response.in_progress"
  PROVE  Lifecycle!Accepts(v, e) /\ Lifecycle!Apply(v, e) = v
<1>1. Lifecycle!Accepts(v, e)
  BY DEF Ready, Lifecycle!Accepts, Lifecycle!Legal
<1>2. Lifecycle!Apply(v, e) = v
  BY DEF Lifecycle!Apply, Lifecycle!IsTerminal
<1> QED BY <1>1, <1>2

LEMMA Terminal ==
  ASSUME NEW v, NEW e, Ready(v), e.type \in {"response.completed", "response.incomplete"},
         ~v.open, e.output = v.items
  PROVE  Lifecycle!Accepts(v, e) /\ Lifecycle!Apply(v, e) = [v EXCEPT !.terminal = TRUE]
<1>1. Lifecycle!Accepts(v, e)
  BY DEF Ready, Lifecycle!Accepts, Lifecycle!Legal, Lifecycle!Finish
<1>2. Lifecycle!Apply(v, e) = [v EXCEPT !.terminal = TRUE]
  BY DEF Lifecycle!Apply, Lifecycle!IsTerminal
<1> QED BY <1>1, <1>2

-----------------------------------------------------------------------------
(* What the invariant gives at every step of a call. *)
LEMMA Basics ==
  ASSUME IInv
  PROVE  /\ N \in Nat /\ Len(view.items) \in Nat
         /\ \A i \in 1..N : out[i] \in Item
         /\ N > 0 => out[N] \in Item
         /\ running /\ started /\ ~ended => Ready(view)
         /\ running /\ pc \notin {"idle", "created"} => started /\ ~ended
<1>1. out \in Seq(Item) /\ view \in View /\ view.items \in Seq(ListedItem)
  BY DEF IInv, TypeOK, View
<1>2. N \in Nat /\ Len(view.items) \in Nat
  BY <1>1 DEF N
<1>3. \A i \in 1..N : out[i] \in Item
  BY <1>1, ElementOfSeq DEF N
<1>4. running /\ started /\ ~ended => Ready(view)
  BY DEF IInv, Control, Ready
<1>5. running /\ pc \notin {"idle", "created"} => started /\ ~ended
  BY DEF IInv, Control, TypeOK
<1> QED BY <1>2, <1>3, <1>4, <1>5

(* A refused event leaves the reader where it was and ends the call. *)
LEMMA RefusedEvent ==
  ASSUME IInv, TypeOK', DoneItems', view' = view, last' = last,
         pc' = "idle", running' = FALSE
  PROVE  IInv' /\ [Lifecycle!Next]_<<view, last>>
<1>1. IInv'
  BY DEF IInv
<1>2. UNCHANGED <<view, last>>
  OBVIOUS
<1> QED BY <1>1, <1>2

(* An event inside the open item that changes nothing of the emitter. *)
LEMMA InnerEvent ==
  ASSUME IInv, running, pc \notin {"idle", "created"},
         started' = started, ended' = ended, open' = open, out' = out, call' = call,
         running' = running, pc' \in PCs,
         view' \in View, view'.items = view.items, view'.open = view.open,
         view'.started = view.started, view'.terminal = view.terminal,
         view'.errored = view.errored, Agree'
  PROVE  IInv'
<1>1. started /\ ~ended
  BY Basics
<1>2. TypeOK'
  BY DEF IInv, TypeOK
<1>3. DoneItems' /\ SameItems' /\ EarlierWritersClosed'
  BY DEF IInv, DoneItems, SameItems, EarlierWritersClosed
<1>4. Control'
  BY <1>1 DEF IInv, Control, NeedsClose, N
<1> QED BY <1>2, <1>3, <1>4 DEF IInv

LEMMA RefusedInnerEvent ==
  ASSUME IInv, started' = started, ended' = ended, open' = open, out' = out, call' = call,
         view' = view, last' = last, pc' = "idle", running' = FALSE
  PROVE  IInv' /\ [Lifecycle!Next]_<<view, last>>
<1>1. TypeOK'
  BY DEF IInv, TypeOK, PCs
<1>2. DoneItems'
  BY DEF IInv, DoneItems
<1> QED BY <1>1, <1>2, RefusedEvent

-----------------------------------------------------------------------------
LEMMA DeltaStep ==
  ASSUME IInv, SendDelta
  PROVE  IInv' /\ [Lifecycle!Next]_<<view, last>>
<1> DEFINE e == DeltaEvent
           it == out[call.w]
<1>1. running /\ AtDelta /\ pc = "delta"
  BY DEF IInv, SendDelta, Agree
<1>2. Ready(view) /\ N \in Nat /\ out[N] \in Item
  BY <1>1, Basics DEF AtDelta
<1>3. Lifecycle!OpenItem(view, call.w) /\ view.items[call.w].kind = it.kind
  BY <1>1, <1>2 DEF IInv, AtDelta, SameItems, Lifecycle!OpenItem, N
<1>4. /\ Lifecycle!Accepts(view, e)
      /\ \/ Lifecycle!Apply(view, e) = view
         \/ /\ Lifecycle!Apply(view, e) = [view EXCEPT !.textOpen = TRUE]
            /\ it.text \/ it.kind = "function_call"
  <2>1. CASE call.op \in {"text", "annotation", "refusal"}
    <3>1. /\ e.index = call.w /\ e.sub = it.parts /\ e.part = it.part
          /\ \/ e.type = "part.delta"
             \/ e.type = "output_text.annotation.added" /\ e.part = "output_text"
      BY <1>1, <2>1 DEF AtDelta, DeltaEvent, Lifecycle!PartEvent
    <3>2. Lifecycle!OpenPart(view, e)
      BY <1>1, <1>3, <2>1, <3>1 DEF AtDelta, Lifecycle!OpenPart, Lifecycle!OpenTyped, SameInside,
         SamePart, SameCounts, NoPart, Lifecycle!NoPart
    <3> HIDE DEF e
    <3> QED BY <1>2, <3>1, <3>2, PartDelta
  <2>2. CASE call.op = "summary"
    <3>1. e.index = call.w /\ e.sub = it.sums /\ e.type = "reasoning_summary_text.delta"
      BY <1>1, <2>2 DEF AtDelta, DeltaEvent, Lifecycle!PartEvent
    <3>2. Lifecycle!OpenSummary(view, e)
      BY <1>1, <1>3, <2>2, <3>1 DEF AtDelta, Lifecycle!OpenSummary, Lifecycle!OpenTyped, SameInside,
         SameSum, SameCounts
    <3> HIDE DEF e
    <3> QED BY <1>2, <3>1, <3>2, SummaryDelta
  <2>3. CASE call.op = "arguments"
    <3>1. e.index = call.w /\ e.type = "function_call_arguments.delta"
      BY <1>1, <2>3 DEF AtDelta, DeltaEvent, Lifecycle!InItemEvent
    <3>2. Lifecycle!OpenTyped(view, e.index, "function_call") /\ ~view.argsDone
          /\ it.kind = "function_call"
      BY <1>1, <1>3, <2>3, <3>1 DEF AtDelta, Lifecycle!OpenTyped, SameInside, SameText
    <3> HIDE DEF e
    <3> QED BY <1>2, <3>1, <3>2, TextDelta
  <2>4. CASE call.op = "reasoning_text"
    <3>1. e.index = call.w /\ e.type = "reasoning.delta"
      BY <1>1, <2>4 DEF AtDelta, DeltaEvent, Lifecycle!InItemEvent
    <3>2. Lifecycle!OpenTyped(view, e.index, "reasoning") /\ ~view.textDone /\ it.text
      BY <1>1, <1>3, <2>4, <3>1 DEF AtDelta, Lifecycle!OpenTyped, SameInside, SameText
    <3> HIDE DEF e
    <3> QED BY <1>2, <3>1, <3>2, TextDelta
  <2> QED BY <1>1, <2>1, <2>2, <2>3, <2>4 DEF AtDelta
<1>5. CASE view' = Lifecycle!Apply(view, e) /\ last' = e /\ pc' = "idle" /\ running' = running
  <2>1. Agree'
    BY <1>1, <1>2, <1>3, <1>4, <1>5 DEF SendDelta, Agree, AtDelta, AtIdle, NeedsClose, SameInside,
       SameCounts, SameText, SamePart, SameSum, N, Ready, View
  <2>2. view' \in View /\ view'.items = view.items /\ view'.open = view.open
        /\ view'.started = view.started /\ view'.terminal = view.terminal
        /\ view'.errored = view.errored
    BY <1>2, <1>4, <1>5 DEF Ready, View
  <2>3. IInv'
    BY <1>1, <1>5, <2>1, <2>2, InnerEvent DEF SendDelta, PCs
  <2> QED BY <1>4, <1>5, <2>3 DEF Lifecycle!Next
<1>6. CASE pc' = "idle" /\ running' = FALSE /\ UNCHANGED <<view, last>>
  BY <1>6, RefusedInnerEvent DEF SendDelta
<1> QED BY <1>5, <1>6 DEF SendDelta, Send

(***************************************************************************)
(* Every remaining event inside the open item follows the same three       *)
(* steps: the event is legal, the reader and the emitter agree after it,   *)
(* and a refusal changes nothing.                                          *)
(***************************************************************************)
LEMMA PartTextDoneStep ==
  ASSUME IInv, SendPartTextDone
  PROVE  IInv' /\ [Lifecycle!Next]_<<view, last>>
<1> DEFINE e == Lifecycle!PartEvent("part.text_done", call.w, out[call.w].parts, call.part)
<1>1. running /\ AtPartEnd /\ pc = "part_text_done"
  BY DEF IInv, SendPartTextDone, Agree
<1>2. Ready(view) /\ N \in Nat /\ out[N] \in Item
  BY <1>1, Basics DEF AtPartEnd, Working
<1>3. Lifecycle!OpenTyped(view, N, "message")
  BY <1>1, <1>2 DEF IInv, AtPartEnd, Working, SameItems, Lifecycle!OpenTyped, Lifecycle!OpenItem, N
<1>4. Lifecycle!Accepts(view, e) /\ Lifecycle!Apply(view, e) = [view EXCEPT !.kindDone = TRUE]
  <2>1. e.type = "part.text_done" /\ e.index = N /\ e.sub = view.parts /\ e.part = view.part
    BY <1>1 DEF AtPartEnd, Working, SameCounts, Lifecycle!PartEvent
  <2>2. Lifecycle!OpenPart(view, e)
    BY <1>1, <1>3, <2>1 DEF AtPartEnd, Lifecycle!OpenPart, NoPart, Lifecycle!NoPart
  <2> HIDE DEF e
  <2> QED BY <1>2, <2>1, <2>2, PartTextDone
<1>5. CASE view' = Lifecycle!Apply(view, e) /\ last' = e /\ pc' = "content_part_done"
           /\ running' = running
  <2>1. view' \in View /\ view'.items = view.items /\ view'.open = view.open
        /\ view'.started = view.started /\ view'.terminal = view.terminal
        /\ view'.errored = view.errored
    BY <1>2, <1>4, <1>5 DEF Ready, View
  <2>2. Agree'
    BY <1>1, <1>2, <1>4, <1>5 DEF SendPartTextDone, Agree, AtPartEnd, Working, Closing, Using,
       SameCounts, SameText, SameSum, N, Ready, View
  <2>3. IInv'
    BY <1>1, <1>5, <2>1, <2>2, InnerEvent DEF SendPartTextDone, PCs
  <2> QED BY <1>4, <1>5, <2>3 DEF Lifecycle!Next
<1>6. CASE pc' = "idle" /\ running' = FALSE /\ UNCHANGED <<view, last>>
  BY <1>6, RefusedInnerEvent DEF SendPartTextDone
<1> QED BY <1>5, <1>6 DEF SendPartTextDone, Send

LEMMA ContentPartDoneStep ==
  ASSUME IInv, SendContentPartDone
  PROVE  IInv' /\ [Lifecycle!Next]_<<view, last>>
<1> DEFINE e == Lifecycle!PartEvent("content_part.done", call.w, out[call.w].parts, call.part)
           next == IF out[call.w].closed THEN "output_item_done" ELSE "content_part_added"
<1>1. running /\ AtPartEnd /\ view.kindDone /\ pc = "content_part_done"
  BY DEF IInv, SendContentPartDone, Agree
<1>2. Ready(view) /\ N \in Nat /\ out[N] \in Item
  BY <1>1, Basics DEF AtPartEnd, Working
<1>3. Lifecycle!OpenTyped(view, N, "message")
  BY <1>1, <1>2 DEF IInv, AtPartEnd, Working, SameItems, Lifecycle!OpenTyped, Lifecycle!OpenItem, N
<1>4. Lifecycle!Accepts(view, e) /\ Lifecycle!Apply(view, e) = [view EXCEPT !.part = NoPart]
  <2>1. e.type = "content_part.done" /\ e.index = N /\ e.sub = view.parts /\ e.part = view.part
    BY <1>1 DEF AtPartEnd, Working, SameCounts, Lifecycle!PartEvent
  <2>2. Lifecycle!OpenPart(view, e)
    BY <1>1, <1>3, <2>1 DEF AtPartEnd, Lifecycle!OpenPart, NoPart, Lifecycle!NoPart
  <2> HIDE DEF e
  <2> QED BY <1>1, <1>2, <2>1, <2>2, PartDone
<1>5. CASE view' = Lifecycle!Apply(view, e) /\ last' = e /\ pc' = next /\ running' = running
  <2>1. view' \in View /\ view'.items = view.items /\ view'.open = view.open
        /\ view'.started = view.started /\ view'.terminal = view.terminal
        /\ view'.errored = view.errored
    BY <1>2, <1>4, <1>5 DEF Ready, View, NoPart
  <2>2. ASSUME out[N].closed PROVE IInv'
    <3>1. pc' = "output_item_done" /\ ~out[N].text /\ call.op \in BeginOps \cup {"close"}
      BY <1>1, <1>5, <2>2 DEF AtPartEnd, Working, Closing, Using, IInv, Control
    <3> HIDE DEF next
    <3>2. Agree'
      BY <1>1, <1>2, <1>4, <1>5, <2>2, <3>1 DEF SendContentPartDone, Agree, AtPartEnd, Working,
         Closing, SameText, SameSum, N, Ready, View, NoPart, Lifecycle!NoPart
    <3> QED BY <1>1, <1>5, <2>1, <3>1, <3>2, InnerEvent DEF SendContentPartDone, PCs
  <2>3. ASSUME ~out[N].closed PROVE IInv'
    <3>1. pc' = "content_part_added" /\ Using(WriteOps)
      BY <1>1, <1>5, <2>3 DEF AtPartEnd, Working, Closing
    <3> HIDE DEF next
    <3>2. Agree'
      BY <1>1, <1>2, <1>4, <1>5, <3>1 DEF SendContentPartDone, Agree, AtPartEnd, Working,
         Using, SameInside, SameCounts, SameText, SamePart, SameSum, N, Ready, View, NoPart,
         Lifecycle!NoPart
    <3> QED BY <1>1, <1>5, <2>1, <3>1, <3>2, InnerEvent DEF SendContentPartDone, PCs
  <2>4. IInv'
    BY <1>2, <2>2, <2>3 DEF Item
  <2> QED BY <1>4, <1>5, <2>4 DEF Lifecycle!Next
<1>6. CASE pc' = "idle" /\ running' = FALSE /\ UNCHANGED <<view, last>>
  BY <1>6, RefusedInnerEvent DEF SendContentPartDone
<1> QED BY <1>5, <1>6 DEF SendContentPartDone, Send

LEMMA SummaryTextDoneStep ==
  ASSUME IInv, SendSummaryTextDone
  PROVE  IInv' /\ [Lifecycle!Next]_<<view, last>>
<1> DEFINE e == Lifecycle!PartEvent("reasoning_summary_text.done", call.w, out[call.w].sums, "summary_text")
<1>1. running /\ AtSummaryEnd /\ pc = "summary_text_done"
  BY DEF IInv, SendSummaryTextDone, Agree
<1>2. Ready(view) /\ N \in Nat /\ out[N] \in Item
  BY <1>1, Basics DEF AtSummaryEnd, Working
<1>3. Lifecycle!OpenTyped(view, N, "reasoning")
  BY <1>1, <1>2 DEF IInv, AtSummaryEnd, Working, SameItems, Lifecycle!OpenTyped, Lifecycle!OpenItem, N
<1>4. Lifecycle!Accepts(view, e) /\ Lifecycle!Apply(view, e) = [view EXCEPT !.sumDone = TRUE]
  <2>1. e.type = "reasoning_summary_text.done" /\ e.index = N /\ e.sub = view.sums
    BY <1>1 DEF AtSummaryEnd, Working, SameCounts, Lifecycle!PartEvent
  <2>2. Lifecycle!OpenSummary(view, e)
    BY <1>1, <1>3, <2>1 DEF AtSummaryEnd, Lifecycle!OpenSummary
  <2> HIDE DEF e
  <2> QED BY <1>2, <2>1, <2>2, SummaryTextDone
<1>5. CASE view' = Lifecycle!Apply(view, e) /\ last' = e /\ pc' = "summary_part_done"
           /\ running' = running
  <2>1. view' \in View /\ view'.items = view.items /\ view'.open = view.open
        /\ view'.started = view.started /\ view'.terminal = view.terminal
        /\ view'.errored = view.errored
    BY <1>2, <1>4, <1>5 DEF Ready, View
  <2>2. Agree'
    BY <1>1, <1>2, <1>4, <1>5 DEF SendSummaryTextDone, Agree, AtSummaryEnd, Working, Closing, Using,
       SameCounts, SameText, SamePart, N, Ready, View
  <2>3. IInv'
    BY <1>1, <1>5, <2>1, <2>2, InnerEvent DEF SendSummaryTextDone, PCs
  <2> QED BY <1>4, <1>5, <2>3 DEF Lifecycle!Next
<1>6. CASE pc' = "idle" /\ running' = FALSE /\ UNCHANGED <<view, last>>
  BY <1>6, RefusedInnerEvent DEF SendSummaryTextDone
<1> QED BY <1>5, <1>6 DEF SendSummaryTextDone, Send

LEMMA SummaryPartDoneStep ==
  ASSUME IInv, SendSummaryPartDone
  PROVE  IInv' /\ [Lifecycle!Next]_<<view, last>>
<1> DEFINE e == Lifecycle!PartEvent("reasoning_summary_part.done", call.w, out[call.w].sums, "summary_text")
           next == IF ~out[call.w].closed THEN "idle"
                   ELSE IF out[call.w].text THEN "reasoning_done" ELSE "output_item_done"
<1>1. running /\ AtSummaryEnd /\ view.sumDone /\ pc = "summary_part_done"
  BY DEF IInv, SendSummaryPartDone, Agree
<1>2. Ready(view) /\ N \in Nat /\ out[N] \in Item
  BY <1>1, Basics DEF AtSummaryEnd, Working
<1>3. Lifecycle!OpenTyped(view, N, "reasoning")
  BY <1>1, <1>2 DEF IInv, AtSummaryEnd, Working, SameItems, Lifecycle!OpenTyped, Lifecycle!OpenItem, N
<1>4. Lifecycle!Accepts(view, e) /\ Lifecycle!Apply(view, e) = [view EXCEPT !.summary = FALSE]
  <2>1. e.type = "reasoning_summary_part.done" /\ e.index = N /\ e.sub = view.sums
    BY <1>1 DEF AtSummaryEnd, Working, SameCounts, Lifecycle!PartEvent
  <2>2. Lifecycle!OpenSummary(view, e)
    BY <1>1, <1>3, <2>1 DEF AtSummaryEnd, Lifecycle!OpenSummary
  <2> HIDE DEF e
  <2> QED BY <1>1, <1>2, <2>1, <2>2, SummaryPartDone
<1>5. CASE view' = Lifecycle!Apply(view, e) /\ last' = e /\ pc' = next /\ running' = running
  <2>1. view' \in View /\ view'.items = view.items /\ view'.open = view.open
        /\ view'.started = view.started /\ view'.terminal = view.terminal
        /\ view'.errored = view.errored
    BY <1>2, <1>4, <1>5 DEF Ready, View
  <2>2. ASSUME out[N].closed PROVE IInv'
    <3>1. /\ pc' = IF out[N].text THEN "reasoning_done" ELSE "output_item_done"
          /\ Closing
      BY <1>1, <1>5, <2>2 DEF AtSummaryEnd, Working, Using
    <3> HIDE DEF next
    <3>2. /\ UNCHANGED <<out, call>> /\ N' = N /\ out[N].text \in BOOLEAN
      BY <1>2 DEF SendSummaryPartDone, N, Item
    <3>3. view' = [view EXCEPT !.summary = FALSE] /\ view \in View
      BY <1>2, <1>4, <1>5 DEF Ready
    <3>4. Working("reasoning")' /\ Closing'
      BY <1>1, <2>1, <3>1, <3>2 DEF AtSummaryEnd, Working, Closing
    <3>5. SameInside' /\ ~out'[N].summary
      BY <1>1, <1>2, <3>2, <3>3 DEF AtSummaryEnd, Working, SameInside, SameCounts, SameText, SamePart,
         SameSum, View, Item
    <3>6. view'.part = NoPart /\ ~view'.summary /\ (view'.textOpen => out[N].text)
      BY <1>1, <3>2, <3>3, <3>5 DEF AtSummaryEnd, Working, SameText, SamePart, View
    <3>7. Agree'
      <4>1. CASE out[N].text
        <5>1. pc' = "reasoning_done"
          BY <3>1, <4>1
        <5> QED BY <5>1, <3>2, <3>4, <3>5 DEF Agree
      <4>2. CASE ~out[N].text
        <5>1. pc' = "output_item_done"
          BY <3>1, <4>2
        <5> QED BY <5>1, <4>2, <3>4, <3>6 DEF Agree, Working
      <4> QED BY <4>1, <4>2
    <3> QED BY <1>1, <1>5, <2>1, <3>1, <3>7, InnerEvent DEF SendSummaryPartDone, PCs
  <2>3. ASSUME ~out[N].closed PROVE IInv'
    <3>1. pc' = "idle" /\ open = N
      BY <1>1, <1>5, <2>3 DEF AtSummaryEnd, Working, Closing, Using
    <3> HIDE DEF next
    <3>2. NeedsClose' /\ view'.open = TRUE
      BY <1>1, <1>2, <2>1, <2>3, <3>1 DEF SendSummaryPartDone, NeedsClose, AtSummaryEnd, Working,
         Ready, View
    <3>3. SameInside'
      BY <1>1, <1>2, <1>4, <1>5 DEF SendSummaryPartDone, AtSummaryEnd, Working, SameInside,
         SameCounts, SameText, SamePart, SameSum, N, Ready, View, Item
    <3>4. Agree'
      BY <3>1, <3>2, <3>3 DEF Agree, AtIdle
    <3> QED BY <1>1, <1>5, <2>1, <3>1, <3>4, InnerEvent DEF SendSummaryPartDone, PCs
  <2>4. IInv'
    BY <1>2, <2>2, <2>3 DEF Item
  <2> QED BY <1>4, <1>5, <2>4 DEF Lifecycle!Next
<1>6. CASE pc' = "idle" /\ running' = FALSE /\ UNCHANGED <<view, last>>
  BY <1>6, RefusedInnerEvent DEF SendSummaryPartDone
<1> QED BY <1>5, <1>6 DEF SendSummaryPartDone, Send

LEMMA ReasoningDoneStep ==
  ASSUME IInv, SendReasoningDone
  PROVE  IInv' /\ [Lifecycle!Next]_<<view, last>>
<1> DEFINE e == Lifecycle!InItemEvent("reasoning.done", call.w)
<1>1. running /\ pc = "reasoning_done"
      /\ Working("reasoning") /\ Closing /\ SameInside /\ ~out[N].summary
  BY DEF IInv, SendReasoningDone, Agree
<1>2. Ready(view) /\ N \in Nat /\ out[N] \in Item
  BY <1>1, Basics DEF Working
<1>3. Lifecycle!OpenTyped(view, N, "reasoning")
  BY <1>1, <1>2 DEF IInv, Working, SameItems, Lifecycle!OpenTyped, Lifecycle!OpenItem, N
<1>4. Lifecycle!Accepts(view, e) /\ Lifecycle!Apply(view, e) = [view EXCEPT !.textDone = TRUE]
  <2>1. e.type = "reasoning.done" /\ e.index = N
    BY <1>1 DEF Working, Lifecycle!InItemEvent
  <2> HIDE DEF e
  <2> QED BY <1>2, <1>3, <2>1, ReasoningDone
<1>5. CASE view' = Lifecycle!Apply(view, e) /\ last' = e /\ pc' = "output_item_done"
           /\ running' = running
  <2>1. view' \in View /\ view'.items = view.items /\ view'.open = view.open
        /\ view'.started = view.started /\ view'.terminal = view.terminal
        /\ view'.errored = view.errored
    BY <1>2, <1>4, <1>5 DEF Ready, View
  <2>2. Agree'
    BY <1>1, <1>2, <1>4, <1>5 DEF SendReasoningDone, Agree, Working, Closing, SameInside,
       SamePart, SameSum, N, Ready, View
  <2>3. IInv'
    BY <1>1, <1>5, <2>1, <2>2, InnerEvent DEF SendReasoningDone, PCs
  <2> QED BY <1>4, <1>5, <2>3 DEF Lifecycle!Next
<1>6. CASE pc' = "idle" /\ running' = FALSE /\ UNCHANGED <<view, last>>
  BY <1>6, RefusedInnerEvent DEF SendReasoningDone
<1> QED BY <1>5, <1>6 DEF SendReasoningDone, Send

LEMMA ArgumentsDoneStep ==
  ASSUME IInv, SendArgumentsDone
  PROVE  IInv' /\ [Lifecycle!Next]_<<view, last>>
<1> DEFINE e == Lifecycle!InItemEvent("function_call_arguments.done", call.w)
<1>1. running /\ pc = "arguments_done" /\ Working("function_call") /\ Closing /\ SameInside
  BY DEF IInv, SendArgumentsDone, Agree
<1>2. Ready(view) /\ N \in Nat /\ out[N] \in Item
  BY <1>1, Basics DEF Working
<1>3. Lifecycle!OpenTyped(view, N, "function_call")
  BY <1>1, <1>2 DEF IInv, Working, SameItems, Lifecycle!OpenTyped, Lifecycle!OpenItem, N
<1>4. /\ Lifecycle!Accepts(view, e)
      /\ Lifecycle!Apply(view, e) = [view EXCEPT !.argsDone = TRUE, !.textOpen = FALSE]
  <2>1. e.type = "function_call_arguments.done" /\ e.index = N
    BY <1>1 DEF Working, Lifecycle!InItemEvent
  <2> HIDE DEF e
  <2> QED BY <1>1, <1>2, <1>3, <2>1, ArgumentsDone DEF SameInside, SameText
<1>5. CASE view' = Lifecycle!Apply(view, e) /\ last' = e /\ pc' = "output_item_done"
           /\ running' = running
  <2>1. view' \in View /\ view'.items = view.items /\ view'.open = view.open
        /\ view'.started = view.started /\ view'.terminal = view.terminal
        /\ view'.errored = view.errored
    BY <1>2, <1>4, <1>5 DEF Ready, View
  <2>2. Agree'
    BY <1>1, <1>2, <1>4, <1>5 DEF SendArgumentsDone, Agree, Working, Closing, SameInside,
       SamePart, SameSum, N, Ready, View
  <2>3. IInv'
    BY <1>1, <1>5, <2>1, <2>2, InnerEvent DEF SendArgumentsDone, PCs
  <2> QED BY <1>4, <1>5, <2>3 DEF Lifecycle!Next
<1>6. CASE pc' = "idle" /\ running' = FALSE /\ UNCHANGED <<view, last>>
  BY <1>6, RefusedInnerEvent DEF SendArgumentsDone
<1> QED BY <1>5, <1>6 DEF SendArgumentsDone, Send

LEMMA InProgressStep ==
  ASSUME IInv, SendInProgress
  PROVE  IInv' /\ [Lifecycle!Next]_<<view, last>>
<1> DEFINE e == Lifecycle!ResponseEvent("response.in_progress")
<1>1. running /\ pc = "in_progress" /\ N = 0 /\ started /\ ~view.open /\ call.op \in BeginOps
  BY DEF IInv, SendInProgress, Agree
<1>2. Ready(view)
  BY <1>1, Basics
<1>3. Lifecycle!Accepts(view, e) /\ Lifecycle!Apply(view, e) = view
  <2>1. e.type = "response.in_progress"
    BY DEF Lifecycle!ResponseEvent
  <2> HIDE DEF e
  <2> QED BY <1>2, <2>1, InProgress
<1>4. CASE view' = Lifecycle!Apply(view, e) /\ last' = e /\ pc' = Target(call.op)
           /\ running' = running
  <2>1. pc' \in {"idle", "output_item_added", "terminal"} /\ Agree'
    <3>1. open = 0
      BY <1>1 DEF IInv, TypeOK, N
    <3>2. ~NeedsClose' /\ NeedsClose' = FALSE
      BY <3>1 DEF SendInProgress, NeedsClose
    <3>3. pc' \in {"idle", "output_item_added", "terminal"}
          /\ (pc' = "output_item_added" => call.op \in {"open", "item"})
          /\ (pc' = "terminal" => call.op \in {"complete", "incomplete"})
      BY <1>1, <1>4 DEF Target, BeginOps
    <3>4. ~view'.open /\ view'.open = FALSE
      <4>1. view.open = FALSE
        BY <1>1, <1>2 DEF Ready, View
      <4> QED BY <1>3, <1>4, <4>1
    <3> QED BY <3>2, <3>3, <3>4 DEF SendInProgress, Agree, AtIdle
  <2>2. view' \in View
    BY <1>2, <1>3, <1>4 DEF Ready
  <2>3. IInv'
    BY <1>1, <1>3, <1>4, <2>1, <2>2, InnerEvent DEF SendInProgress, PCs
  <2> QED BY <1>3, <1>4, <2>3 DEF Lifecycle!Next
<1>5. CASE pc' = "idle" /\ running' = FALSE /\ UNCHANGED <<view, last>>
  BY <1>5, RefusedInnerEvent DEF SendInProgress
<1> QED BY <1>4, <1>5 DEF SendInProgress, Send

-----------------------------------------------------------------------------
(* A step that changes nothing of the output but its last item. *)
OnlyLastChanges ==
  /\ N > 0 /\ out' \in Seq(Item) /\ Len(out') = Len(out)
  /\ \A j \in 1..Len(out) : j # Len(out) => out'[j] = out[j]
  /\ out'[Len(out)].kind = out[Len(out)].kind

LEMMA LastChanged ==
  ASSUME IInv, N > 0, NEW w, w = N, NEW x \in Item, x.kind = out[N].kind,
         out' = [out EXCEPT ![w] = x]
  PROVE  OnlyLastChanges /\ out'[N] = x
<1>1. out \in Seq(Item) /\ w \in 1..Len(out)
  BY Basics DEF IInv, TypeOK, N
<1>2. w = Len(out) /\ w = N
  BY DEF N
<1>3. out' \in Seq(Item) /\ Len(out') = Len(out)
  BY <1>1, ExceptSeq
<1>4. DOMAIN out = 1..Len(out)
  BY <1>1
<1>5. out'[w] = x
  BY <1>1, <1>4
<1>6. \A j \in 1..Len(out) : j # w => out'[j] = out[j]
  BY <1>4
<1> QED BY <1>1, <1>2, <1>3, <1>5, <1>6 DEF OnlyLastChanges

(* A step of a call that works on the last item and leaves the list the reader has. *)
LEMMA LastItemStep ==
  ASSUME IInv, running, running' = running, started, ~ended, started' = started, ended' = ended,
         OnlyLastChanges, open' = open \/ (open' = 0 /\ out'[N].closed),
         out'[N].closed => ~out'[N].summary,
         out'[N].text => out[N].kind = "reasoning",
         ~out'[N].closed => ~out[N].closed,
         view.open \/ out'[N].status = out[N].status,
         call' \in [op: Ops, w: 0..N, part: PartKinds \cup {NoPart},
                    kind: Lifecycle!ItemKinds, status: Lifecycle!ItemStatus],
         call'.op \in BeginOps => pc' = "idle" \/ open' = 0,
         call'.op = "open" => call'.kind \in WriterKinds,
         call'.op = "item" => call'.kind = "other",
         pc' \in PCs, Agree',
         view' \in View, view'.items = view.items, view'.open = view.open,
         view'.started = view.started, view'.terminal = view.terminal,
         view'.errored = view.errored
  PROVE  IInv'
<1>1. N \in Nat /\ N > 0 /\ N' = N /\ Len(view.items) = N
  BY Basics DEF IInv, SameItems, OnlyLastChanges, N
<1>2. TypeOK'
  BY <1>1 DEF IInv, TypeOK, OnlyLastChanges, N
<1>3. DoneItems' /\ SameItems'
  BY <1>1 DEF IInv, DoneItems, SameItems, OnlyLastChanges, N
<1>4. EarlierWritersClosed'
  BY <1>1 DEF IInv, EarlierWritersClosed, OnlyLastChanges, N
<1>5. Control'
  BY <1>1 DEF IInv, Control, NeedsClose, OnlyLastChanges, N
<1> QED BY <1>2, <1>3, <1>4, <1>5 DEF IInv

(* The same step when the sink refuses the event. *)
LEMMA RefusedLastItem ==
  ASSUME IInv, OnlyLastChanges, view.open \/ out'[N].status = out[N].status,
         started' = started, ended' = ended, open' \in 0..N, call' = call,
         view' = view, last' = last, pc' = "idle", running' = FALSE
  PROVE  IInv' /\ [Lifecycle!Next]_<<view, last>>
<1>1. N \in Nat /\ N > 0 /\ N' = N
  BY Basics DEF OnlyLastChanges, N
<1>2. TypeOK'
  BY <1>1 DEF IInv, TypeOK, PCs, OnlyLastChanges, N
<1>3. DoneItems'
  BY <1>1 DEF IInv, DoneItems, OnlyLastChanges, N, View
<1> QED BY <1>2, <1>3, RefusedEvent

-----------------------------------------------------------------------------
LEMMA ContentPartAddedStep ==
  ASSUME IInv, SendContentPartAdded
  PROVE  IInv' /\ [Lifecycle!Next]_<<view, last>>
<1> DEFINE part == IF call.op = "refusal" THEN "refusal" ELSE "output_text"
           e    == Lifecycle!PartEvent("content_part.added", call.w, out[call.w].parts + 1, part)
           x    == [out[call.w] EXCEPT !.parts = out[call.w].parts + 1, !.part = part]
<1>1. /\ running /\ pc = "content_part_added" /\ Working("message") /\ SameInside
      /\ Using(WriteOps) /\ out[N].part = NoPart
  BY DEF IInv, SendContentPartAdded, Agree
<1>2. Ready(view) /\ N \in Nat /\ N > 0 /\ out[N] \in Item /\ started /\ ~ended /\ call.w = N
  BY <1>1, Basics DEF Working
<1>3. Lifecycle!OpenTyped(view, N, "message")
  BY <1>1, <1>2 DEF IInv, Working, SameItems, Lifecycle!OpenTyped, Lifecycle!OpenItem, N
<1>4. /\ Lifecycle!Accepts(view, e)
      /\ Lifecycle!Apply(view, e) =
           [view EXCEPT !.parts = e.sub, !.part = e.part, !.kindDone = FALSE]
      /\ e.sub = out[N].parts + 1 /\ e.part = part
  <2>1. e.type = "content_part.added" /\ e.index = N /\ e.sub = view.parts + 1 /\ e.part = part
        /\ e.sub = out[N].parts + 1
    BY <1>1, <1>2 DEF SameInside, SameCounts, Lifecycle!PartEvent
  <2>2. view.part = NoPart
    BY <1>1 DEF SameInside, SamePart
  <2> HIDE DEF e, part
  <2> QED BY <1>2, <1>3, <2>1, <2>2, PartAdded
<1>5. part \in PartKinds
  BY DEF PartKinds, Lifecycle!PartKinds
<1> HIDE DEF part
<1>6. /\ x \in Item /\ x.kind = out[N].kind /\ x.status = out[N].status /\ x.closed = out[N].closed
      /\ x.text = out[N].text /\ x.sums = out[N].sums /\ x.summary = out[N].summary
      /\ x.parts = out[N].parts + 1 /\ x.part = part
      /\ OnlyLastChanges /\ out'[N] = x
  <2>1. out[call.w] \in Item
    BY <1>2
  <2>2. x \in Item
    <3>1. out[call.w].parts + 1 \in Nat
      BY <2>1 DEF Item
    <3> QED BY <1>5, <2>1, <3>1 DEF Item
  <2>3. /\ x.kind = out[N].kind /\ x.status = out[N].status /\ x.closed = out[N].closed
        /\ x.text = out[N].text /\ x.sums = out[N].sums /\ x.summary = out[N].summary
        /\ x.parts = out[N].parts + 1 /\ x.part = part
    BY <1>2, <2>1 DEF Item
  <2>4. out' = [out EXCEPT ![call.w] = x]
    BY DEF SendContentPartAdded, part, x
  <2> HIDE DEF x
  <2> QED BY <1>2, <2>2, <2>3, <2>4, LastChanged
<1> HIDE DEF x
<1>7. CASE view' = Lifecycle!Apply(view, e) /\ last' = e /\ running' = running
           /\ pc' = IF call.op = "logprobs" THEN "idle" ELSE "delta"
  <2> HIDE DEF e
  <2>1. /\ view' \in View /\ view'.items = view.items /\ view'.open = view.open
        /\ view'.started = view.started /\ view'.terminal = view.terminal
        /\ view'.errored = view.errored
    <3>1. view' = [view EXCEPT !.parts = e.sub, !.part = e.part, !.kindDone = FALSE]
      BY <1>4, <1>7
    <3>2. e.sub \in Nat /\ e.part \in PartKinds
      BY <1>2, <1>4, <1>5 DEF Item
    <3>3. view \in View
      BY <1>2 DEF Ready
    <3> QED BY <3>1, <3>2, <3>3 DEF View
  <2>2. SameInside' /\ NeedsClose' /\ view'.open = TRUE /\ ~out'[N].closed /\ N' = N
    <3>1. SameInside'
      BY <1>1, <1>2, <1>4, <1>5, <1>6, <1>7 DEF Working, SameInside, SameCounts, SameText, SamePart,
         SameSum, N, Ready, View, OnlyLastChanges
    <3>2. NeedsClose' /\ view'.open = TRUE /\ ~out'[N].closed /\ N' = N
      BY <1>1, <1>2, <1>5, <1>6, <2>1 DEF SendContentPartAdded, Working, Using, NeedsClose,
         OnlyLastChanges, N, Ready, View
    <3> QED BY <3>1, <3>2
  <2>3. Agree'
    <3>1. CASE call.op = "logprobs"
      BY <1>7, <2>2, <3>1 DEF Agree, AtIdle
    <3>2. CASE call.op # "logprobs"
      BY <1>1, <1>2, <1>5, <1>6, <1>7, <2>2, <3>2 DEF SendContentPartAdded, Agree, AtDelta, Working,
         Using, WriteOps, part
    <3> QED BY <3>1, <3>2
  <2>4. IInv'
    <3>1. call' = call /\ started' = started /\ ended' = ended /\ open' = open /\ pc' \in PCs
      BY <1>7 DEF SendContentPartAdded, PCs
    <3>2. out'[N].closed => ~out'[N].summary
      BY <2>2
    <3>3. out'[N].text => out[N].kind = "reasoning"
      BY <1>1, <1>2, <1>5, <1>6 DEF IInv, Control
    <3>4. call' \in [op: Ops, w: 0..N, part: PartKinds \cup {NoPart},
                     kind: Lifecycle!ItemKinds, status: Lifecycle!ItemStatus]
      BY <3>1 DEF IInv, TypeOK, N
    <3>5. call.op \notin BeginOps
      BY <1>1 DEF Using, WriteOps, BeginOps
    <3> QED BY <1>1, <1>2, <1>5, <1>6, <1>7, <2>1, <2>3, <3>1, <3>2, <3>3, <3>4, <3>5, LastItemStep
               DEF BeginOps
  <2> QED BY <1>4, <1>7, <2>4 DEF Lifecycle!Next
<1>8. CASE pc' = "idle" /\ running' = FALSE /\ UNCHANGED <<view, last>>
  <2>1. started' = started /\ ended' = ended /\ open' = open /\ call' = call
    BY DEF SendContentPartAdded
  <2>2. open' \in 0..N
    BY <2>1 DEF IInv, TypeOK, N
  <2>3. view.open \/ out'[N].status = out[N].status
    BY <1>1 DEF Working
  <2> QED BY <1>6, <1>8, <2>1, <2>2, <2>3, RefusedLastItem
<1> QED BY <1>7, <1>8 DEF SendContentPartAdded, Send, part

LEMMA SummaryPartAddedStep ==
  ASSUME IInv, SendSummaryPartAdded
  PROVE  IInv' /\ [Lifecycle!Next]_<<view, last>>
<1> DEFINE e == Lifecycle!PartEvent("reasoning_summary_part.added", call.w, out[call.w].sums + 1,
                                    "summary_text")
           x == [out[call.w] EXCEPT !.sums = out[call.w].sums + 1, !.summary = TRUE]
<1>1. /\ running /\ pc = "summary_part_added" /\ Working("reasoning") /\ SameInside
      /\ Using({"summary"}) /\ ~out[N].summary
  BY DEF IInv, SendSummaryPartAdded, Agree
<1>2. Ready(view) /\ N \in Nat /\ N > 0 /\ out[N] \in Item /\ started /\ ~ended /\ call.w = N
  BY <1>1, Basics DEF Working
<1>3. Lifecycle!OpenTyped(view, N, "reasoning")
  BY <1>1, <1>2 DEF IInv, Working, SameItems, Lifecycle!OpenTyped, Lifecycle!OpenItem, N
<1>4. /\ Lifecycle!Accepts(view, e)
      /\ Lifecycle!Apply(view, e) =
           [view EXCEPT !.sums = e.sub, !.summary = TRUE, !.sumDone = FALSE]
      /\ e.sub = out[N].sums + 1
  <2>1. /\ e.type = "reasoning_summary_part.added" /\ e.index = N /\ e.sub = view.sums + 1
        /\ e.sub = out[N].sums + 1
    BY <1>1, <1>2 DEF SameInside, SameCounts, Lifecycle!PartEvent
  <2>2. ~view.summary
    BY <1>1, <1>2 DEF SameInside, SameSum
  <2> HIDE DEF e
  <2> QED BY <1>2, <1>3, <2>1, <2>2, SummaryPartAdded
<1>5. out[call.w] \in Item
  BY <1>2
<1>6. /\ x \in Item /\ x.kind = out[N].kind /\ x.status = out[N].status /\ x.closed = out[N].closed
      /\ x.text = out[N].text /\ x.sums = out[N].sums + 1 /\ x.summary = TRUE
      /\ x.parts = out[N].parts /\ x.part = out[N].part
      /\ OnlyLastChanges /\ out'[N] = x
  <2>1. x \in Item
    <3>1. out[call.w].sums + 1 \in Nat
      BY <1>5 DEF Item
    <3> QED BY <1>5, <3>1 DEF Item
  <2>2. /\ x.kind = out[N].kind /\ x.status = out[N].status /\ x.closed = out[N].closed
        /\ x.text = out[N].text /\ x.sums = out[N].sums + 1 /\ x.summary = TRUE
        /\ x.parts = out[N].parts /\ x.part = out[N].part
    BY <1>2, <1>5 DEF Item
  <2>3. out' = [out EXCEPT ![call.w] = x]
    BY DEF SendSummaryPartAdded
  <2> HIDE DEF x
  <2> QED BY <1>2, <2>1, <2>2, <2>3, LastChanged
<1> HIDE DEF x
<1>7. CASE view' = Lifecycle!Apply(view, e) /\ last' = e /\ running' = running /\ pc' = "delta"
  <2> HIDE DEF e
  <2>1. /\ view' \in View /\ view'.items = view.items /\ view'.open = view.open
        /\ view'.started = view.started /\ view'.terminal = view.terminal
        /\ view'.errored = view.errored
    <3>1. e.sub \in Nat
      BY <1>2, <1>4, <1>6 DEF Item
    <3> QED BY <1>2, <1>4, <1>7, <3>1 DEF Ready, View
  <2>2. SameInside' /\ ~out'[N].closed /\ N' = N
    <3>1. SameInside'
      <4>1. N' = N /\ view'.summary = TRUE /\ view'.sums = out[N].sums + 1
            /\ view'.parts = view.parts /\ view'.part = view.part /\ view'.textOpen = view.textOpen
            /\ view'.textDone = view.textDone /\ view'.argsDone = view.argsDone
        BY <1>2, <1>4, <1>6, <1>7 DEF Ready, View, N, OnlyLastChanges
      <4> QED BY <1>1, <1>6, <4>1 DEF Working, SameInside, SameCounts, SameText, SamePart, SameSum
    <3>2. ~out'[N].closed /\ N' = N
      BY <1>1, <1>2, <1>5, <1>6 DEF Using, OnlyLastChanges, N
    <3> QED BY <3>1, <3>2
  <2>3. call' = call /\ started' = started /\ ended' = ended /\ open' = open /\ pc' \in PCs
    BY <1>7 DEF SendSummaryPartAdded, PCs
  <2>4. Agree'
    BY <1>1, <1>2, <1>5, <1>6, <1>7, <2>1, <2>2, <2>3 DEF Agree, AtDelta, Working, Using
  <2>5. IInv'
    <3>1. out'[N].text => out[N].kind = "reasoning"
      BY <1>1 DEF Working
    <3>2. call' \in [op: Ops, w: 0..N, part: PartKinds \cup {NoPart},
                     kind: Lifecycle!ItemKinds, status: Lifecycle!ItemStatus]
      BY <2>3 DEF IInv, TypeOK, N
    <3>3. call.op \notin BeginOps
      BY <1>1 DEF Using, BeginOps
    <3> QED BY <1>1, <1>2, <1>5, <1>6, <1>7, <2>1, <2>2, <2>3, <2>4, <3>1, <3>2, <3>3, LastItemStep
               DEF BeginOps
  <2> QED BY <1>4, <1>7, <2>5 DEF Lifecycle!Next
<1>8. CASE pc' = "idle" /\ running' = FALSE /\ UNCHANGED <<view, last>>
  <2>1. open' \in 0..N
    BY DEF SendSummaryPartAdded, IInv, TypeOK, N
  <2> QED BY <1>1, <1>2, <1>5, <1>6, <1>8, <2>1, RefusedLastItem DEF SendSummaryPartAdded
<1> QED BY <1>7, <1>8 DEF SendSummaryPartAdded, Send

-----------------------------------------------------------------------------
(* output_item.done reaches the reader: the open item is closed and keeps its status. *)
LEMMA ItemDoneSent ==
  ASSUME IInv, running, pc \in {"output_item_done", "item_done"}, view.open, N > 0,
         view.part = NoPart, ~view.summary, view.textOpen => view.textDone,
         NEW e, e.type = "output_item.done", e.index = N, e.kind = out[N].kind,
         e.status \in Lifecycle!ItemStatus,
         OnlyLastChanges, out'[N].status = e.status, out'[N].closed, ~out'[N].summary,
         out'[N].text = out[N].text,
         started' = started, ended' = ended, open' = open, call' = call, running' = running,
         view' = Lifecycle!Apply(view, e), last' = e,
         pc' \in {"idle", "output_item_added", "terminal"},
         pc' = "output_item_added" => call.op \in {"open", "item"},
         pc' = "terminal" => call.op \in {"complete", "incomplete"}
  PROVE  IInv' /\ [Lifecycle!Next]_<<view, last>>
<1>1. /\ N \in Nat /\ Ready(view) /\ started /\ ~ended /\ N' = N /\ Len(view.items) = N
      /\ Len(out) = N /\ view.items \in Seq(ListedItem)
  BY Basics DEF OnlyLastChanges, N, IInv, SameItems, View
<1>2. Lifecycle!OpenTyped(view, e.index, e.kind)
  BY <1>1 DEF IInv, SameItems, Lifecycle!OpenTyped, Lifecycle!OpenItem
<1>3. /\ Lifecycle!Accepts(view, e)
      /\ view' = [view EXCEPT !.open = FALSE,
                    !.items = Lifecycle!WithStatus(view.items, e.index, e.status)]
  BY <1>1, <1>2, ItemDone
<1> DEFINE items == Lifecycle!WithStatus(view.items, e.index, e.status)
           y     == [kind |-> view.items[e.index].kind, status |-> e.status]
<1>4. /\ items \in Seq(ListedItem) /\ Len(items) = N
      /\ \A i \in 1..N : i # N => items[i] = view.items[i]
      /\ items[N].kind = out[N].kind /\ items[N].status = e.status
  <2>1. e.index \in 1..Len(view.items) /\ view.items[e.index] \in ListedItem
    BY <1>1, ElementOfSeq
  <2>2. y \in ListedItem /\ y.status = e.status /\ y.kind = out[N].kind
    BY <1>1, <2>1 DEF ListedItem, IInv, SameItems
  <2>3. items = [view.items EXCEPT ![e.index] = y]
    BY DEF Lifecycle!WithStatus
  <2> HIDE DEF items, y
  <2>4. items \in Seq(ListedItem) /\ Len(items) = Len(view.items)
    BY <1>1, <2>1, <2>2, <2>3, ExceptSeq
  <2>5. DOMAIN view.items = 1..Len(view.items)
    BY <1>1
  <2>6. items[e.index] = y
    BY <2>1, <2>3, <2>5
  <2>7. \A i \in 1..Len(view.items) : i # e.index => items[i] = view.items[i]
    BY <2>3, <2>5
  <2> QED BY <1>1, <2>2, <2>4, <2>6, <2>7
<1> HIDE DEF items
<1>5. /\ view' \in View /\ view'.items = items /\ view'.open = FALSE
      /\ view'.started = view.started /\ view'.terminal = view.terminal
      /\ view'.errored = view.errored
  BY <1>1, <1>3, <1>4 DEF Ready, View, items
<1>6. TypeOK'
  BY <1>1 DEF IInv, TypeOK, OnlyLastChanges, PCs
<1>7. DoneItems' /\ SameItems'
  BY <1>1, <1>4, <1>5 DEF IInv, DoneItems, SameItems, OnlyLastChanges
<1>8. EarlierWritersClosed'
  BY <1>1 DEF IInv, EarlierWritersClosed, OnlyLastChanges
<1>9. open \in {0, N} /\ ~NeedsClose'
  BY <1>1 DEF IInv, Control, NeedsClose
<1>10. Control'
  BY <1>1, <1>5, <1>9 DEF IInv, Control, OnlyLastChanges
<1>11. Agree'
  <2>1. AtIdle'
    BY <1>5, <1>9 DEF AtIdle, NeedsClose
  <2> QED BY <1>5, <2>1 DEF Agree
<1>12. IInv'
  BY <1>5, <1>6, <1>7, <1>8, <1>10, <1>11 DEF IInv
<1> QED BY <1>3, <1>12 DEF Lifecycle!Next

LEMMA PromotedStatus ==
  ASSUME NEW s \in Lifecycle!ItemStatus
  PROVE  Promoted(s) \in Lifecycle!ItemStatus
BY DEF Promoted, Lifecycle!ItemStatus

LEMMA ItemDoneStep ==
  ASSUME IInv, SendItemDone
  PROVE  IInv' /\ [Lifecycle!Next]_<<view, last>>
<1> DEFINE it == out[call.w]
           st == Promoted(it.status)
           e  == Lifecycle!ItemEvent("output_item.done", call.w, it.kind, st)
           x  == [it EXCEPT !.status = st]
<1>1. /\ running /\ pc = "output_item_done" /\ view.open /\ N > 0 /\ call.w = N /\ Closing
      /\ view.part = NoPart /\ ~view.summary /\ (view.textOpen => view.textDone)
  BY DEF IInv, SendItemDone, Agree
<1>2. it \in Item /\ it = out[N] /\ N \in Nat
  BY <1>1, Basics
<1>3. st \in Lifecycle!ItemStatus
  <2>1. it.status \in Lifecycle!ItemStatus
    BY <1>2 DEF Item
  <2> QED BY <2>1, PromotedStatus
<1>4. it.closed /\ ~it.summary
  BY <1>1, <1>2 DEF Closing, IInv, EarlierWritersClosed, N
<1>5. /\ started' = started /\ ended' = ended /\ open' = open /\ call' = call
      /\ out' = [out EXCEPT ![call.w] = x]
      /\ Send(e, Target(call.op))
  BY DEF SendItemDone
<1> HIDE DEF st, it
<1>6. /\ x \in Item /\ x.kind = it.kind /\ x.status = st /\ x.closed = it.closed
      /\ x.text = it.text /\ x.summary = it.summary
  BY <1>2, <1>3 DEF Item
<1>7. e.type = "output_item.done" /\ e.index = N /\ e.kind = out[N].kind /\ e.status = st
  BY <1>1, <1>2 DEF Lifecycle!ItemEvent
<1> HIDE DEF x, e
<1>8. OnlyLastChanges /\ out'[N] = x
  BY <1>1, <1>2, <1>5, <1>6, LastChanged
<1>9. /\ Target(call.op) \in {"idle", "output_item_added", "terminal"}
      /\ Target(call.op) = "output_item_added" => call.op \in {"open", "item"}
      /\ Target(call.op) = "terminal" => call.op \in {"complete", "incomplete"}
  BY DEF Target
<1>10. CASE view' = Lifecycle!Apply(view, e) /\ last' = e /\ pc' = Target(call.op)
            /\ running' = running
  BY <1>1, <1>2, <1>3, <1>4, <1>5, <1>6, <1>7, <1>8, <1>9, <1>10, ItemDoneSent
<1>11. CASE pc' = "idle" /\ running' = FALSE /\ UNCHANGED <<view, last>>
  <2>1. open' \in 0..N
    BY <1>5 DEF IInv, TypeOK, N
  <2> QED BY <1>1, <1>5, <1>8, <1>11, <2>1, RefusedLastItem
<1> QED BY <1>5, <1>10, <1>11 DEF Send

LEMMA PlainItemDoneStep ==
  ASSUME IInv, SendPlainItemDone
  PROVE  IInv' /\ [Lifecycle!Next]_<<view, last>>
<1> DEFINE w  == Len(out)
           it == out[w]
           st == Promoted(it.status)
           e  == Lifecycle!ItemEvent("output_item.done", w, "other", st)
           x  == [it EXCEPT !.status = st, !.closed = TRUE]
<1>1. /\ running /\ pc = "item_done" /\ view.open /\ N > 0 /\ out[N].kind = "other"
      /\ view.part = NoPart /\ ~view.summary /\ ~view.textOpen
  BY DEF IInv, SendPlainItemDone, Agree
<1>2. it \in Item /\ it = out[N] /\ N \in Nat /\ w = N
  BY <1>1, Basics DEF N
<1>3. st \in Lifecycle!ItemStatus
  <2>1. it.status \in Lifecycle!ItemStatus
    BY <1>2 DEF Item
  <2> QED BY <2>1, PromotedStatus
<1>4. /\ started' = started /\ ended' = ended /\ open' = open /\ call' = call
      /\ out' = [out EXCEPT ![w] = x]
      /\ Send(e, "idle")
  BY DEF SendPlainItemDone
<1>5. ~it.summary
  BY <1>1, <1>2 DEF IInv, Agree
<1> HIDE DEF st, it, w
<1>6. /\ x \in Item /\ x.kind = it.kind /\ x.status = st /\ x.closed = TRUE
      /\ x.text = it.text /\ x.summary = it.summary
  BY <1>2, <1>3 DEF Item
<1>7. e.type = "output_item.done" /\ e.index = N /\ e.kind = out[N].kind /\ e.status = st
  BY <1>1, <1>2 DEF Lifecycle!ItemEvent
<1> HIDE DEF x, e
<1>8. OnlyLastChanges /\ out'[N] = x
  BY <1>1, <1>2, <1>4, <1>6, LastChanged
<1>9. CASE view' = Lifecycle!Apply(view, e) /\ last' = e /\ pc' = "idle" /\ running' = running
  BY <1>1, <1>2, <1>3, <1>4, <1>5, <1>6, <1>7, <1>8, <1>9, ItemDoneSent
<1>10. CASE pc' = "idle" /\ running' = FALSE /\ UNCHANGED <<view, last>>
  <2>1. open' \in 0..N
    BY <1>4 DEF IInv, TypeOK, N
  <2> QED BY <1>1, <1>4, <1>8, <1>10, <2>1, RefusedLastItem
<1> QED BY <1>4, <1>9, <1>10 DEF Send

-----------------------------------------------------------------------------
LEMMA ItemAddedStep ==
  ASSUME IInv, SendItemAdded
  PROVE  IInv' /\ [Lifecycle!Next]_<<view, last>>
<1> DEFINE it == NewItem(call.kind, call.status)
           l  == [kind |-> call.kind, status |-> call.status]
           e  == Lifecycle!ItemEvent("output_item.added", NewIndex, call.kind, call.status)
<1>1. /\ running /\ pc = "output_item_added" /\ ~view.open /\ call.op \in {"open", "item"}
      /\ open = 0 /\ started /\ ~ended
      /\ call.op = "open" => call.kind \in WriterKinds
      /\ call.op = "item" => call.kind = "other"
  BY DEF IInv, SendItemAdded, Agree, Control, BeginOps
<1>2. /\ Ready(view) /\ N \in Nat /\ Len(view.items) = N /\ out \in Seq(Item)
      /\ view.items \in Seq(ListedItem)
      /\ call.kind \in Lifecycle!ItemKinds /\ call.status \in Lifecycle!ItemStatus
  BY <1>1, Basics DEF IInv, SameItems, TypeOK, N, View
<1>3. /\ it \in Item /\ it.kind = call.kind /\ it.status = call.status /\ it.closed = FALSE
      /\ it.parts = 0 /\ it.part = NoPart /\ it.sums = 0 /\ it.summary = FALSE /\ it.text = FALSE
  BY <1>2 DEF NewItem, Item
<1>4. l \in ListedItem /\ l.kind = call.kind /\ l.status = call.status
  BY <1>2 DEF ListedItem
<1>5. out' = Append(out, it) /\ Send(e, IF call.op = "item" THEN "item_done" ELSE "idle")
      /\ open' = (IF call.op = "open" /\ running' THEN NewIndex ELSE 0)
      /\ started' = started /\ ended' = ended /\ call' = call
  BY DEF SendItemAdded
<1>6. e.type = "output_item.added" /\ e.index = N + 1 /\ e.kind = call.kind /\ e.status = call.status
      /\ NewIndex = N + 1
  BY DEF Lifecycle!ItemEvent, NewIndex, N
<1> HIDE DEF it, e
<1>7. out' \in Seq(Item) /\ N' = N + 1 /\ out'[N + 1] = it /\ \A i \in 1..N : out'[i] = out[i]
  BY <1>2, <1>3, <1>5, AppendProperties DEF N
<1>8. TypeOK'
  <2>1. pc' \in PCs /\ running' \in BOOLEAN
    BY <1>1, <1>5 DEF Send, PCs
  <2>2. call' \in [op: Ops, w: 0..Len(out'), part: PartKinds \cup {NoPart},
                    kind: Lifecycle!ItemKinds, status: Lifecycle!ItemStatus]
    BY <1>2, <1>5, <1>7 DEF IInv, TypeOK, N
  <2>3. open' \in 0..Len(out')
    BY <1>2, <1>5, <1>6, <1>7 DEF N
  <2> QED BY <1>5, <1>7, <2>1, <2>2, <2>3 DEF IInv, TypeOK
<1>9. \A i \in 1..N : out[i].status = view.items[i].status
  BY <1>1, <1>2 DEF IInv, DoneItems, N
<1>10. CASE view' = Lifecycle!Apply(view, e) /\ last' = e /\ running' = running
            /\ pc' = IF call.op = "item" THEN "item_done" ELSE "idle"
  <2>1. /\ Lifecycle!Accepts(view, e)
        /\ Lifecycle!Apply(view, e) =
             [Lifecycle!EmptyView EXCEPT !.started = TRUE, !.open = TRUE,
                !.items = Append(view.items, [kind |-> e.kind, status |-> e.status])]
    BY <1>1, <1>2, <1>6, ItemAdded
  <2> DEFINE items == Append(view.items, l)
  <2>2. view' = [Lifecycle!EmptyView EXCEPT !.started = TRUE, !.open = TRUE, !.items = items]
    BY <1>6, <1>10, <2>1
  <2> HIDE DEF l
  <2>3. /\ items \in Seq(ListedItem) /\ Len(items) = N + 1 /\ items[N + 1] = l
        /\ \A i \in 1..N : items[i] = view.items[i]
    BY <1>2, <1>4, AppendProperties
  <2> HIDE DEF items
  <2>4. /\ view' \in View /\ view'.started = TRUE /\ view'.open = TRUE /\ view'.items = items
        /\ view'.terminal = FALSE /\ view'.errored = FALSE /\ view'.parts = 0
        /\ view'.part = NoPart /\ view'.sums = 0 /\ view'.summary = FALSE
        /\ view'.textOpen = FALSE /\ view'.textDone = FALSE /\ view'.argsDone = FALSE
    BY <2>2, <2>3 DEF Lifecycle!EmptyView, View, NoPart, PartKinds
  <2>5. DoneItems' /\ SameItems'
    <3>1. Len(out') = N + 1 /\ Len(view'.items) = N + 1
      BY <1>7, <2>3, <2>4 DEF N
    <3>2. DoneItems'
      BY <1>2, <1>7, <1>9, <2>3, <2>4, <3>1 DEF DoneItems
    <3>3. \A i \in 1..N : view.items[i].kind = out[i].kind
      BY DEF IInv, SameItems, N, SendItemAdded
    <3> QED BY <1>2, <1>3, <1>4, <1>7, <2>3, <2>4, <3>1, <3>2, <3>3 DEF SameItems
  <2>6. EarlierWritersClosed'
    <3>1. \A i \in 1..N : out[i].kind \in WriterKinds => out[i].closed
      BY <1>1, <1>2 DEF IInv, EarlierWritersClosed, Control, N
    <3>2. \A i \in 1..N : out[i].closed => ~out[i].summary
      BY <1>1 DEF IInv, EarlierWritersClosed, N
    <3>3. Len(out') = N + 1
      BY <1>7 DEF N
    <3> QED BY <1>2, <1>3, <1>7, <3>1, <3>2, <3>3 DEF EarlierWritersClosed
  <2>7. CASE call.op = "open"
    <3>1. pc' = "idle" /\ open' = N + 1
      BY <1>1, <1>5, <1>6, <1>10, <2>7
    <3>1a. NeedsClose'
      BY <1>2, <1>3, <1>7, <3>1 DEF NeedsClose
    <3>2. SameInside'
      BY <1>3, <1>7, <2>4 DEF SameInside, SameCounts, SameText, SamePart, SameSum, NoPart
    <3>3. Agree'
      BY <2>4, <3>1, <3>1a, <3>2 DEF Agree, AtIdle
    <3>4. Control'
      BY <1>1, <1>2, <1>3, <1>5, <1>7, <1>8, <2>4, <2>7, <3>1 DEF Control, TypeOK, NeedsClose, BeginOps
    <3>5. IInv'
      BY <1>8, <2>4, <2>5, <2>6, <3>1, <3>3, <3>4 DEF IInv
    <3> QED BY <1>10, <2>1, <3>5 DEF Lifecycle!Next
  <2>8. CASE call.op = "item"
    <3>1. pc' = "item_done" /\ open' = 0 /\ ~NeedsClose'
      BY <1>5, <1>10, <2>8 DEF NeedsClose
    <3>2. Agree'
      BY <1>1, <1>2, <1>3, <1>5, <1>7, <2>4, <2>8, <3>1 DEF Agree
    <3>3. Control'
      BY <1>1, <1>2, <1>3, <1>5, <1>7, <1>8, <2>4, <2>8, <3>1 DEF Control, TypeOK, NeedsClose, BeginOps, WriterKinds
    <3>4. IInv'
      BY <1>1, <1>8, <1>10, <2>4, <2>5, <2>6, <3>2, <3>3 DEF IInv
    <3> QED BY <1>10, <2>1, <3>4 DEF Lifecycle!Next
  <2> QED BY <1>1, <2>7, <2>8
<1>11. CASE pc' = "idle" /\ running' = FALSE /\ UNCHANGED <<view, last>>
  <2>1. DoneItems'
    BY <1>2, <1>7, <1>9, <1>11 DEF DoneItems, N
  <2> QED BY <1>8, <1>11, <2>1, RefusedEvent
<1> QED BY <1>5, <1>10, <1>11 DEF Send

LEMMA CreatedStep ==
  ASSUME IInv, SendCreated
  PROVE  IInv' /\ [Lifecycle!Next]_<<view, last>>
<1> DEFINE e == Lifecycle!ResponseEvent("response.created")
<1>1. /\ running /\ pc = "created" /\ N = 0 /\ ~started /\ ~view.open /\ call.op \in BeginOps
      /\ ~view.started /\ ~view.terminal /\ ~view.errored /\ ~ended /\ open = 0
  BY DEF IInv, SendCreated, Agree, Control, BeginOps
<1>2. /\ Lifecycle!Accepts(view, e)
      /\ Lifecycle!Apply(view, e) = [view EXCEPT !.started = TRUE]
  <2>1. e.type = "response.created"
    BY DEF Lifecycle!ResponseEvent
  <2> HIDE DEF e
  <2>2. Lifecycle!Accepts(view, e)
    BY <1>1, <2>1 DEF Lifecycle!Accepts
  <2>3. Lifecycle!Apply(view, e) = [view EXCEPT !.started = TRUE]
    BY <2>1 DEF Lifecycle!Apply, Lifecycle!IsTerminal
  <2> QED BY <2>2, <2>3
<1>3. started' = TRUE /\ ended' = ended /\ open' = open /\ out' = out /\ call' = call
      /\ Send(e, "in_progress")
  BY DEF SendCreated
<1> HIDE DEF e
<1>4. CASE view' = Lifecycle!Apply(view, e) /\ last' = e /\ pc' = "in_progress" /\ running' = running
  <2>1. /\ view' \in View /\ view'.items = view.items /\ view'.open = view.open
        /\ view'.started = TRUE /\ view'.terminal = view.terminal /\ view'.errored = view.errored
    BY <1>2, <1>4 DEF IInv, View
  <2>2. TypeOK'
    BY <1>3, <1>4 DEF IInv, TypeOK, PCs
  <2>3. DoneItems' /\ SameItems' /\ EarlierWritersClosed'
    BY <1>1, <1>3, <1>4, <2>1 DEF IInv, DoneItems, SameItems, EarlierWritersClosed
  <2>4. Control'
    BY <1>1, <1>3, <1>4, <2>1 DEF IInv, Control, NeedsClose, N
  <2>5. Agree'
    BY <1>1, <1>3, <1>4, <2>1 DEF Agree, N
  <2>6. IInv'
    BY <1>1, <1>4, <2>1, <2>2, <2>3, <2>4, <2>5 DEF IInv
  <2> QED BY <1>2, <1>4, <2>6 DEF Lifecycle!Next
<1>5. CASE pc' = "idle" /\ running' = FALSE /\ UNCHANGED <<view, last>>
  <2>1. TypeOK'
    BY <1>3, <1>5 DEF IInv, TypeOK, PCs
  <2>2. DoneItems'
    BY <1>3, <1>5 DEF IInv, DoneItems
  <2> QED BY <1>5, <2>1, <2>2, RefusedEvent
<1> QED BY <1>3, <1>4, <1>5 DEF Send

(* With every item closed, the output the terminal event carries is the reader's list. *)
LEMMA OutputIsTheItemsRead ==
  ASSUME IInv, running, ~view.open
  PROVE  Output = view.items
<1>1. /\ N \in Nat /\ Len(view.items) = Len(out) /\ Len(out) \in Nat
      /\ view.items \in Seq(ListedItem)
  BY Basics DEF IInv, SameItems, N, View
<1>2. \A i \in 1..Len(out) : /\ view.items[i].kind = out[i].kind
                             /\ view.items[i].status = out[i].status
  BY <1>1 DEF IInv, SameItems, DoneItems
<1>3. ASSUME NEW i \in 1..Len(out)
      PROVE  view.items[i] = [kind |-> out[i].kind, status |-> out[i].status]
  <2>1. view.items[i] \in ListedItem
    BY <1>1, ElementOfSeq
  <2> QED BY <1>2, <2>1 DEF ListedItem
<1>4. DOMAIN view.items = 1..Len(out)
  BY <1>1
<1>5. view.items = [i \in 1..Len(out) |-> view.items[i]]
  BY <1>1, <1>4
<1> QED BY <1>3, <1>5 DEF Output

LEMMA TerminalStep ==
  ASSUME IInv, SendTerminal
  PROVE  IInv' /\ [Lifecycle!Next]_<<view, last>>
<1> DEFINE t == IF call.op = "complete" THEN "response.completed" ELSE "response.incomplete"
           e == Lifecycle!TerminalEvent(t, Output)
<1>1. running /\ pc = "terminal" /\ ~view.open /\ call.op \in {"complete", "incomplete"}
      /\ open = 0 /\ started /\ ~ended
  BY Basics DEF IInv, SendTerminal, Agree, Control, BeginOps
<1>2. Ready(view)
  BY <1>1, Basics
<1>3. Lifecycle!Accepts(view, e) /\ Lifecycle!Apply(view, e) = [view EXCEPT !.terminal = TRUE]
  <2>1. e.type \in {"response.completed", "response.incomplete"} /\ e.output = Output
    BY DEF Lifecycle!TerminalEvent
  <2>2. Output = view.items
    BY <1>1, OutputIsTheItemsRead
  <2> HIDE DEF e
  <2> QED BY <1>1, <1>2, <2>1, <2>2, Terminal
<1>4. ended' = TRUE /\ started' = started /\ open' = open /\ out' = out /\ call' = call
      /\ Send(e, "idle")
  BY DEF SendTerminal
<1> HIDE DEF e
<1>5. TypeOK'
  BY <1>1, <1>4 DEF IInv, TypeOK, PCs, Send
<1>6. CASE view' = Lifecycle!Apply(view, e) /\ last' = e /\ pc' = "idle" /\ running' = running
  <2>1. /\ view' \in View /\ view'.items = view.items /\ view'.open = FALSE
        /\ view'.started = view.started /\ view'.terminal = TRUE /\ view'.errored = view.errored
    BY <1>1, <1>2, <1>3, <1>6 DEF Ready, View
  <2>2. DoneItems' /\ SameItems' /\ EarlierWritersClosed'
    BY <1>1, <1>4, <1>6, <2>1 DEF IInv, DoneItems, SameItems, EarlierWritersClosed
  <2>3. Control'
    BY <1>1, <1>4, <1>6, <2>1 DEF IInv, Control, NeedsClose, N
  <2>4. Agree'
    <3>1. AtIdle'
      BY <1>1, <1>4, <2>1 DEF AtIdle, NeedsClose
    <3> QED BY <1>6, <3>1 DEF Agree
  <2>5. IInv'
    BY <1>1, <1>5, <1>6, <2>1, <2>2, <2>3, <2>4 DEF IInv
  <2> QED BY <1>3, <1>6, <2>5 DEF Lifecycle!Next
<1>7. CASE pc' = "idle" /\ running' = FALSE /\ UNCHANGED <<view, last>>
  <2>1. DoneItems'
    BY <1>4, <1>7 DEF IInv, DoneItems
  <2> QED BY <1>5, <1>7, <2>1, RefusedEvent
<1> QED BY <1>4, <1>6, <1>7 DEF Send

-----------------------------------------------------------------------------
(* A writer that is not closed is the open one, its item the last and the open one. *)
LEMMA LiveIsLast ==
  ASSUME IInv, running, pc = "idle", NEW i \in 1..Len(out),
         out[i].kind \in WriterKinds, ~out[i].closed
  PROVE  /\ i = N /\ N > 0 /\ open = N /\ NeedsClose /\ view.open /\ SameInside
         /\ started /\ ~ended /\ out[N] \in Item /\ N \in Nat /\ out[N].kind = out[i].kind
<1>1. i = N
  BY DEF IInv, EarlierWritersClosed, N
<1>2. open = N /\ N > 0 /\ N \in Nat /\ out[N] \in Item
  BY <1>1, Basics DEF IInv, Control, N
<1>3. NeedsClose
  BY <1>1, <1>2 DEF NeedsClose
<1>4. view.open /\ SameInside
  BY <1>3 DEF IInv, Agree, AtIdle
<1>5. started /\ ~ended
  BY <1>2, <1>4 DEF IInv, Control
<1> QED BY <1>1, <1>2, <1>3, <1>4, <1>5

(* A call of the adapter that works on the last item: nothing is sent yet. *)
LEMMA CallOnLastItem ==
  ASSUME IInv, running, running' = running, started, ~ended, started' = started, ended' = ended,
         view' = view, last' = last, view.open,
         OnlyLastChanges, open' = open \/ (open' = 0 /\ out'[N].closed),
         out'[N].closed => ~out'[N].summary,
         out'[N].text => out[N].kind = "reasoning",
         ~out'[N].closed => ~out[N].closed,
         NEW op \in Ops, NEW part \in PartKinds \cup {NoPart}, NEW kind \in Lifecycle!ItemKinds,
         NEW status \in Lifecycle!ItemStatus, NEW w, w = N,
         call' = Call(op, w, part, kind, status),
         op \in BeginOps => open' = 0,
         op = "open" => kind \in WriterKinds,
         op = "item" => kind = "other",
         pc' \in PCs, Agree'
  PROVE  IInv' /\ [Lifecycle!Next]_<<view, last>>
<1>1. N \in 0..N
  BY Basics
<1>2. /\ call' \in [op: Ops, w: 0..N, part: PartKinds \cup {NoPart},
                    kind: Lifecycle!ItemKinds, status: Lifecycle!ItemStatus]
      /\ call'.op = op /\ call'.kind = kind
  BY <1>1 DEF Call
<1>3. view' \in View
  BY DEF IInv
<1>4. IInv'
  BY <1>2, <1>3, LastItemStep
<1> QED BY <1>4

LEMMA NothingChanges ==
  ASSUME IInv, N > 0, out' = out
  PROVE  OnlyLastChanges /\ out'[N] = out[N] /\ N' = N
BY DEF OnlyLastChanges, IInv, TypeOK, N

LEMMA WriteStep ==
  ASSUME IInv, NEW i \in 1..Len(out), NEW op \in WriteOps, NEW part \in PartKinds,
         part = IF op = "refusal" THEN "refusal" ELSE "output_text",
         Write(i, op, part)
  PROVE  IInv' /\ [Lifecycle!Next]_<<view, last>>
<1>1. /\ running /\ pc = "idle" /\ out[i].kind = "message" /\ ~out[i].closed
      /\ running' = running /\ started' = started /\ ended' = ended /\ open' = open
      /\ view' = view /\ last' = last
      /\ call' = Call(op, i, out[i].part, "other", "in_progress")
  BY DEF Write, Live
<1>2. /\ i = N /\ N > 0 /\ open = N /\ view.open /\ SameInside /\ started /\ ~ended
      /\ out[N] \in Item /\ N \in Nat /\ out[N].kind = "message"
  BY <1>1, LiveIsLast DEF WriterKinds
<1>3. /\ op \in Ops /\ op \notin BeginOps /\ out[i].part \in PartKinds \cup {NoPart}
      /\ "other" \in Lifecycle!ItemKinds /\ "in_progress" \in Lifecycle!ItemStatus
      /\ op # "open" /\ op # "item" /\ part # NoPart
  BY <1>2 DEF WriteOps, Ops, BeginOps, Item, Lifecycle!ItemKinds, Lifecycle!ItemStatus, PartKinds,
     Lifecycle!PartKinds, NoPart, Lifecycle!NoPart
<1>4. call'.w = N /\ call'.op = op /\ call'.part = out[N].part /\ ~out[N].summary /\ ~out[N].text
  <2>1. ~out[N].text /\ ~out[N].summary
    BY <1>1, <1>2 DEF IInv, Control, SameInside, SameSum, Item, View
  <2> QED BY <1>1, <1>2, <2>1 DEF Call
<1>5. CASE out[i].part = part
  <2>1. pc' = "delta" /\ out' = out /\ op # "logprobs"
    BY <1>5 DEF Write
  <2>2. OnlyLastChanges /\ out'[N] = out[N] /\ N' = N
    BY <1>2, <2>1, NothingChanges
  <2>3. SameInside'
    BY <1>1, <1>2, <2>2 DEF SameInside, SameCounts, SameText, SamePart, SameSum
  <2>4. Agree'
    BY <1>1, <1>2, <1>4, <1>5, <2>1, <2>2, <2>3 DEF Agree, AtDelta, WriteOps
  <2> QED BY <1>1, <1>2, <1>3, <1>4, <2>1, <2>2, <2>4, CallOnLastItem DEF PCs
<1>6. CASE out[i].part # part /\ out[i].part = NoPart
  <2>1. pc' = "content_part_added" /\ out' = out
    BY <1>6 DEF Write
  <2>2. OnlyLastChanges /\ out'[N] = out[N] /\ N' = N
    BY <1>2, <2>1, NothingChanges
  <2>3. SameInside'
    BY <1>1, <1>2, <2>2 DEF SameInside, SameCounts, SameText, SamePart, SameSum
  <2>4. Agree'
    BY <1>1, <1>2, <1>4, <1>6, <2>1, <2>2, <2>3 DEF Agree, Working, Using
  <2> QED BY <1>1, <1>2, <1>3, <1>4, <2>1, <2>2, <2>4, CallOnLastItem DEF PCs
<1>7. CASE out[i].part # part /\ out[i].part # NoPart
  <2> DEFINE x == [out[i] EXCEPT !.part = NoPart]
  <2>1. pc' = "part_text_done" /\ out' = [out EXCEPT ![i] = x]
    BY <1>7 DEF Write
  <2>2. /\ x \in Item /\ x.kind = out[N].kind /\ x.status = out[N].status
        /\ x.closed = out[N].closed /\ x.parts = out[N].parts /\ x.part = NoPart
        /\ x.sums = out[N].sums /\ x.summary = out[N].summary /\ x.text = out[N].text
    BY <1>2 DEF Item
  <2> HIDE DEF x
  <2>3. OnlyLastChanges /\ out'[N] = x /\ N' = N
    BY <1>2, <2>1, <2>2, LastChanged DEF OnlyLastChanges, N
  <2>4. Agree'
    <3>1. SameCounts' /\ SameText' /\ SameSum'
      BY <1>1, <1>2, <2>2, <2>3 DEF SameInside, SameCounts, SameText, SameSum
    <3>2. view'.part = call'.part /\ call'.part # NoPart
      BY <1>1, <1>2, <1>4, <1>7 DEF SameInside, SamePart
    <3> QED BY <1>1, <1>2, <1>4, <2>1, <2>2, <2>3, <3>1, <3>2 DEF Agree, AtPartEnd, Working, Using
  <2> QED BY <1>1, <1>2, <1>3, <1>4, <2>1, <2>2, <2>3, <2>4, CallOnLastItem DEF PCs
<1> QED BY <1>5, <1>6, <1>7

LEMMA ArgumentsStep ==
  ASSUME IInv, NEW i \in 1..Len(out), Arguments(i)
  PROVE  IInv' /\ [Lifecycle!Next]_<<view, last>>
<1>1. /\ running /\ pc = "idle" /\ out[i].kind = "function_call" /\ ~out[i].closed
      /\ running' = running /\ started' = started /\ ended' = ended /\ open' = open
      /\ view' = view /\ last' = last /\ out' = out /\ pc' = "delta"
      /\ call' = Call("arguments", i, NoPart, "other", "in_progress")
  BY DEF Arguments, Live
<1>2. /\ i = N /\ N > 0 /\ open = N /\ view.open /\ SameInside /\ started /\ ~ended
      /\ out[N] \in Item /\ N \in Nat /\ out[N].kind = "function_call"
  BY <1>1, LiveIsLast DEF WriterKinds
<1>3. /\ "arguments" \in Ops /\ "arguments" \notin BeginOps /\ NoPart \in PartKinds \cup {NoPart}
      /\ "other" \in Lifecycle!ItemKinds /\ "in_progress" \in Lifecycle!ItemStatus
  BY DEF Ops, BeginOps, Lifecycle!ItemKinds, Lifecycle!ItemStatus
<1>4. OnlyLastChanges /\ out'[N] = out[N] /\ N' = N
  BY <1>1, <1>2, NothingChanges
<1>5. ~out[N].text
  BY <1>1, <1>2 DEF IInv, Control
<1>6. SameInside'
  BY <1>1, <1>2, <1>4 DEF SameInside, SameCounts, SameText, SamePart, SameSum
<1>7. Agree'
  BY <1>1, <1>2, <1>4, <1>6 DEF Agree, AtDelta, Call
<1> QED BY <1>1, <1>2, <1>3, <1>4, <1>5, <1>7, CallOnLastItem DEF PCs

LEMMA SummaryStep ==
  ASSUME IInv, NEW i \in 1..Len(out), Summary(i)
  PROVE  IInv' /\ [Lifecycle!Next]_<<view, last>>
<1>1. /\ running /\ pc = "idle" /\ out[i].kind = "reasoning" /\ ~out[i].closed
      /\ running' = running /\ started' = started /\ ended' = ended /\ open' = open
      /\ view' = view /\ last' = last /\ out' = out
      /\ pc' = IF out[i].summary THEN "delta" ELSE "summary_part_added"
      /\ call' = Call("summary", i, NoPart, "other", "in_progress")
  BY DEF Summary, Live
<1>2. /\ i = N /\ N > 0 /\ open = N /\ view.open /\ SameInside /\ started /\ ~ended
      /\ out[N] \in Item /\ N \in Nat /\ out[N].kind = "reasoning"
  BY <1>1, LiveIsLast DEF WriterKinds
<1>3. /\ "summary" \in Ops /\ "summary" \notin BeginOps /\ NoPart \in PartKinds \cup {NoPart}
      /\ "other" \in Lifecycle!ItemKinds /\ "in_progress" \in Lifecycle!ItemStatus
  BY DEF Ops, BeginOps, Lifecycle!ItemKinds, Lifecycle!ItemStatus
<1>4. OnlyLastChanges /\ out'[N] = out[N] /\ N' = N
  BY <1>1, <1>2, NothingChanges
<1>5. SameInside'
  BY <1>1, <1>2, <1>4 DEF SameInside, SameCounts, SameText, SamePart, SameSum
<1>6. Agree' /\ pc' \in PCs
  <2>1. call'.op = "summary" /\ call'.w = N
    BY <1>1, <1>2 DEF Call
  <2>2. CASE out[i].summary
    BY <1>1, <1>2, <1>4, <1>5, <2>1, <2>2 DEF Agree, AtDelta, PCs
  <2>3. CASE ~out[i].summary
    BY <1>1, <1>2, <1>4, <1>5, <2>1, <2>3 DEF Agree, Working, Using, PCs
  <2> QED BY <2>2, <2>3
<1> QED BY <1>1, <1>2, <1>3, <1>4, <1>6, CallOnLastItem

LEMMA ReasoningTextStep ==
  ASSUME IInv, NEW i \in 1..Len(out), ReasoningText(i)
  PROVE  IInv' /\ [Lifecycle!Next]_<<view, last>>
<1> DEFINE x == [out[i] EXCEPT !.text = TRUE]
<1>1. /\ running /\ pc = "idle" /\ out[i].kind = "reasoning" /\ ~out[i].closed
      /\ running' = running /\ started' = started /\ ended' = ended /\ open' = open
      /\ view' = view /\ last' = last /\ out' = [out EXCEPT ![i] = x] /\ pc' = "delta"
      /\ call' = Call("reasoning_text", i, NoPart, "other", "in_progress")
  BY DEF ReasoningText, Live
<1>2. /\ i = N /\ N > 0 /\ open = N /\ view.open /\ SameInside /\ started /\ ~ended
      /\ out[N] \in Item /\ N \in Nat /\ out[N].kind = "reasoning"
  BY <1>1, LiveIsLast DEF WriterKinds
<1>3. /\ "reasoning_text" \in Ops /\ "reasoning_text" \notin BeginOps
      /\ NoPart \in PartKinds \cup {NoPart}
      /\ "other" \in Lifecycle!ItemKinds /\ "in_progress" \in Lifecycle!ItemStatus
  BY DEF Ops, BeginOps, Lifecycle!ItemKinds, Lifecycle!ItemStatus
<1>4. /\ x \in Item /\ x.kind = out[N].kind /\ x.status = out[N].status
      /\ x.closed = out[N].closed /\ x.parts = out[N].parts /\ x.part = out[N].part
      /\ x.sums = out[N].sums /\ x.summary = out[N].summary /\ x.text = TRUE
  BY <1>2 DEF Item
<1> HIDE DEF x
<1>5. OnlyLastChanges /\ out'[N] = x /\ N' = N
  BY <1>1, <1>2, <1>4, LastChanged DEF OnlyLastChanges, N
<1>6. SameInside'
  BY <1>1, <1>2, <1>4, <1>5 DEF SameInside, SameCounts, SameText, SamePart, SameSum
<1>7. Agree'
  <2>1. call'.op = "reasoning_text" /\ call'.w = N
    BY <1>1, <1>2 DEF Call
  <2> QED BY <1>1, <1>2, <1>4, <1>5, <1>6, <2>1 DEF Agree, AtDelta
<1> QED BY <1>1, <1>2, <1>3, <1>4, <1>5, <1>7, CallOnLastItem DEF PCs

LEMMA EndSummaryStep ==
  ASSUME IInv, NEW i \in 1..Len(out), EndSummary(i)
  PROVE  IInv' /\ [Lifecycle!Next]_<<view, last>>
<1> DEFINE x == [out[i] EXCEPT !.summary = FALSE]
<1>1. /\ running /\ pc = "idle" /\ out[i].kind = "reasoning" /\ out[i].summary
      /\ running' = running /\ started' = started /\ ended' = ended /\ open' = open
      /\ view' = view /\ last' = last /\ out' = [out EXCEPT ![i] = x] /\ pc' = "summary_text_done"
      /\ call' = Call("end_summary", i, NoPart, "other", "in_progress")
  BY DEF EndSummary
<1>2. ~out[i].closed
  BY <1>1 DEF IInv, EarlierWritersClosed
<1>3. /\ i = N /\ N > 0 /\ open = N /\ view.open /\ SameInside /\ started /\ ~ended
      /\ out[N] \in Item /\ N \in Nat /\ out[N].kind = "reasoning"
  BY <1>1, <1>2, LiveIsLast DEF WriterKinds
<1>4. /\ "end_summary" \in Ops /\ "end_summary" \notin BeginOps
      /\ NoPart \in PartKinds \cup {NoPart}
      /\ "other" \in Lifecycle!ItemKinds /\ "in_progress" \in Lifecycle!ItemStatus
  BY DEF Ops, BeginOps, Lifecycle!ItemKinds, Lifecycle!ItemStatus
<1>5. /\ x \in Item /\ x.kind = out[N].kind /\ x.status = out[N].status
      /\ x.closed = out[N].closed /\ x.parts = out[N].parts /\ x.part = out[N].part
      /\ x.sums = out[N].sums /\ x.summary = FALSE /\ x.text = out[N].text
  BY <1>3 DEF Item
<1> HIDE DEF x
<1>6. OnlyLastChanges /\ out'[N] = x /\ N' = N
  BY <1>1, <1>3, <1>5, LastChanged DEF OnlyLastChanges, N
<1>7. Agree'
  <2>1. call'.op = "end_summary" /\ call'.w = N
    BY <1>1, <1>3 DEF Call
  <2>2. SameCounts' /\ SameText' /\ SamePart' /\ view'.summary
    BY <1>1, <1>3, <1>5, <1>6 DEF SameInside, SameCounts, SameText, SamePart, SameSum
  <2> QED BY <1>1, <1>2, <1>3, <1>5, <1>6, <2>1, <2>2 DEF Agree, AtSummaryEnd, Working, Using
<1> QED BY <1>1, <1>2, <1>3, <1>4, <1>5, <1>6, <1>7, CallOnLastItem DEF PCs

-----------------------------------------------------------------------------
(* Closing the open writer leads to the first event its Close sends. *)
LEMMA CloseAgrees ==
  ASSUME IInv, N > 0, N \in Nat, out[N] \in Item, open = N, view.open, SameInside,
         out[N].kind \in WriterKinds,
         OnlyLastChanges, view' = view,
         out'[N].closed, out'[N].part = NoPart, out'[N].summary = FALSE,
         out'[N].parts = out[N].parts, out'[N].sums = out[N].sums, out'[N].text = out[N].text,
         call'.w = N, call'.part = out[N].part, call'.op \in BeginOps \cup {"close"},
         out[N].text => out[N].kind = "reasoning",
         pc' = CloseEntry(out[N])
  PROVE  Agree' /\ pc' \in PCs
<1>1. /\ N' = N /\ out'[N].kind = out[N].kind /\ Closing' /\ SameCounts' /\ SameText'
      /\ view'.part = call'.part /\ view'.open
      /\ (view.part # NoPart => out[N].kind = "message")
      /\ (view.summary => out[N].kind = "reasoning") /\ view.summary = out[N].summary
  BY DEF OnlyLastChanges, N, Closing, SameInside, SameCounts, SameText, SamePart, SameSum
<1>2. CASE out[N].kind = "message"
  <2>1. ~view.summary /\ ~out[N].text
    BY <1>1, <1>2
  <2>2. CASE out[N].part # NoPart
    <3>1. pc' = "part_text_done"
      BY <1>2, <2>2 DEF CloseEntry
    <3>2. SameSum'
      BY <1>1, <2>1 DEF SameSum, SameInside, Item
    <3> QED BY <1>1, <1>2, <2>2, <3>1, <3>2 DEF Agree, AtPartEnd, Working, PCs
  <2>3. CASE out[N].part = NoPart
    <3>1. pc' = "output_item_done"
      BY <1>2, <2>3 DEF CloseEntry
    <3>2. view'.part = NoPart /\ ~view'.summary /\ ~view'.textOpen
      BY <1>1, <1>2, <2>1, <2>3 DEF SameInside, SameText
    <3> QED BY <1>1, <3>1, <3>2 DEF Agree, PCs
  <2> QED BY <2>2, <2>3
<1>3. CASE out[N].kind = "function_call"
  <2>1. pc' = "arguments_done"
    BY <1>3 DEF CloseEntry
  <2>2. SamePart' /\ SameSum'
    BY <1>1, <1>3 DEF SameInside, SamePart, SameSum, Item, IInv, View
  <2> QED BY <1>1, <1>3, <2>1, <2>2 DEF Agree, Working, SameInside, PCs
<1>4. CASE out[N].kind = "reasoning"
  <2>1. view'.part = NoPart /\ SamePart'
    BY <1>1, <1>4 DEF SameInside, SamePart
  <2>2. CASE out[N].summary
    <3>1. pc' = "summary_text_done"
      BY <1>4, <2>2 DEF CloseEntry
    <3> QED BY <1>1, <1>4, <2>1, <2>2, <3>1 DEF Agree, AtSummaryEnd, Working, PCs
  <2>3. CASE ~out[N].summary /\ out[N].text
    <3>1. pc' = "reasoning_done"
      BY <1>4, <2>3 DEF CloseEntry
    <3>2. SameSum'
      BY <1>1, <2>3 DEF SameInside, SameSum, Item, IInv, View
    <3> QED BY <1>1, <1>4, <2>1, <3>1, <3>2 DEF Agree, Working, SameInside, PCs
  <2>4. CASE ~out[N].summary /\ ~out[N].text
    <3>1. pc' = "output_item_done"
      BY <1>4, <2>4 DEF CloseEntry
    <3>2. ~view'.summary /\ ~view'.textOpen
      BY <1>1, <1>4, <2>4 DEF SameInside, SameText
    <3> QED BY <1>1, <2>1, <3>1, <3>2 DEF Agree, PCs
  <2> QED BY <2>2, <2>3, <2>4
<1> QED BY <1>2, <1>3, <1>4 DEF WriterKinds

LEMMA CloseWriterStep ==
  ASSUME IInv, NEW i \in 1..Len(out), CloseWriter(i)
  PROVE  IInv' /\ [Lifecycle!Next]_<<view, last>>
<1> DEFINE x == [out[i] EXCEPT !.closed = TRUE, !.part = NoPart, !.summary = FALSE]
<1>1. /\ running /\ pc = "idle" /\ out[i].kind \in WriterKinds /\ ~out[i].closed
      /\ running' = running /\ started' = started /\ ended' = ended /\ open' = open
      /\ view' = view /\ last' = last /\ out' = [out EXCEPT ![i] = x] /\ pc' = CloseEntry(out[i])
      /\ call' = Call("close", i, out[i].part, "other", "in_progress")
  BY DEF CloseWriter, Shut
<1>2. /\ i = N /\ N > 0 /\ open = N /\ view.open /\ SameInside /\ started /\ ~ended
      /\ out[N] \in Item /\ N \in Nat /\ out[N].kind \in WriterKinds
  BY <1>1, LiveIsLast
<1>3. /\ "close" \in Ops /\ "close" \notin BeginOps /\ out[i].part \in PartKinds \cup {NoPart}
      /\ "other" \in Lifecycle!ItemKinds /\ "in_progress" \in Lifecycle!ItemStatus
  BY <1>2 DEF Ops, BeginOps, Item, Lifecycle!ItemKinds, Lifecycle!ItemStatus
<1>4. /\ x \in Item /\ x.kind = out[N].kind /\ x.status = out[N].status /\ x.closed = TRUE
      /\ x.parts = out[N].parts /\ x.part = NoPart /\ x.sums = out[N].sums
      /\ x.summary = FALSE /\ x.text = out[N].text
  BY <1>2 DEF Item
<1> HIDE DEF x
<1>5. OnlyLastChanges /\ out'[N] = x /\ N' = N
  BY <1>1, <1>2, <1>4, LastChanged DEF OnlyLastChanges, N
<1>6. out[N].text => out[N].kind = "reasoning"
  BY <1>1, <1>2 DEF IInv, Control
<1>7. call'.op = "close" /\ call'.w = N /\ call'.part = out[N].part
  BY <1>1, <1>2 DEF Call
<1>8. Agree' /\ pc' \in PCs
  BY <1>1, <1>2, <1>4, <1>5, <1>6, <1>7, CloseAgrees
<1> QED BY <1>1, <1>2, <1>3, <1>4, <1>5, <1>6, <1>8, CallOnLastItem

(* What Incomplete's mark leaves of the output. *)
LEMMA MarkedItems ==
  ASSUME IInv, NeedsClose, open = N, N > 0, N \in Nat, out[N] \in Item, NEW op
  PROVE  /\ Marked(op) \in Seq(Item) /\ Len(Marked(op)) = Len(out) /\ Marked(op)[N] \in Item
         /\ \A j \in 1..Len(out) : j # N => Marked(op)[j] = out[j]
         /\ LET y == Marked(op)[N] IN
              /\ y.kind = out[N].kind /\ y.closed = out[N].closed /\ y.parts = out[N].parts
              /\ y.part = out[N].part /\ y.sums = out[N].sums /\ y.summary = out[N].summary
              /\ y.text = out[N].text
<1>1. out \in Seq(Item) /\ N = Len(out) /\ open \in 1..Len(out)
  BY DEF IInv, TypeOK, N
<1>2. CASE op = "incomplete"
  <2> DEFINE y == [out[open] EXCEPT !.status = "incomplete"]
             m == [out EXCEPT ![open] = y]
  <2>1. Marked(op) = m
    BY <1>2 DEF Marked
  <2>2. out[open] \in Item
    OBVIOUS
  <2>3. /\ y \in Item
        /\ y.kind = out[open].kind /\ y.closed = out[open].closed /\ y.parts = out[open].parts
        /\ y.part = out[open].part /\ y.sums = out[open].sums /\ y.summary = out[open].summary
        /\ y.text = out[open].text
    BY <2>2 DEF Item, Lifecycle!ItemStatus
  <2> HIDE DEF y
  <2>4. m \in Seq(Item) /\ Len(m) = Len(out)
    BY <1>1, <2>3, ExceptSeq
  <2>5. DOMAIN out = 1..Len(out)
    BY <1>1
  <2>6. m[open] = y
    BY <1>1, <2>5
  <2>7. \A j \in 1..Len(out) : j # open => m[j] = out[j]
    BY <2>5
  <2> HIDE DEF m
  <2> QED BY <2>1, <2>3, <2>4, <2>6, <2>7
<1>3. CASE op # "incomplete"
  <2>1. Marked(op) = out
    BY <1>3 DEF Marked
  <2> QED BY <1>1, <2>1
<1> QED BY <1>2, <1>3

(* The operations that first start the stream and close the open item. *)
LEMMA BeginStep ==
  ASSUME IInv, NEW op \in BeginOps, NEW kind \in Lifecycle!ItemKinds,
         NEW status \in Lifecycle!ItemStatus,
         op = "open" => kind \in WriterKinds, op = "item" => kind = "other",
         op = "start" => ~started,
         Begin(op, kind, status)
  PROVE  IInv' /\ [Lifecycle!Next]_<<view, last>>
<1>1. /\ running /\ pc = "idle" /\ ~ended /\ running' = running /\ started' = started
      /\ ended' = ended /\ view' = view /\ last' = last /\ open' = 0
  BY DEF Begin, BeginClose
<1>2. op \in Ops /\ NoPart \in PartKinds \cup {NoPart}
  BY DEF BeginOps, Ops
<1>3. CASE NeedsClose
  <2>1. open \in 1..Len(out) /\ out[open].kind \in WriterKinds /\ ~out[open].closed
    BY <1>1, <1>3 DEF NeedsClose, IInv, TypeOK, Control, N
  <2>2. /\ N > 0 /\ open = N /\ view.open /\ SameInside /\ started /\ ~ended
        /\ out[N] \in Item /\ N \in Nat /\ out[N].kind \in WriterKinds
    BY <1>1, <2>1, LiveIsLast
  <2> DEFINE m == Marked(op)
             x == [m[open] EXCEPT !.closed = TRUE, !.part = NoPart, !.summary = FALSE]
  <2>3. /\ m \in Seq(Item) /\ Len(m) = Len(out) /\ m[N] \in Item
        /\ \A j \in 1..Len(out) : j # N => m[j] = out[j]
        /\ m[N].kind = out[N].kind /\ m[N].parts = out[N].parts /\ m[N].sums = out[N].sums
        /\ m[N].text = out[N].text
    BY <1>3, <2>2, MarkedItems
  <2>4. /\ out' = [m EXCEPT ![open] = x] /\ pc' = CloseEntry(out[open])
        /\ call' = Call(op, open, out[open].part, kind, status)
    BY <1>3 DEF Begin, BeginClose, Shut
  <2> HIDE DEF m
  <2>5. m[open] \in Item
    BY <2>2, <2>3
  <2>6. /\ x \in Item /\ x.kind = out[N].kind /\ x.closed = TRUE
        /\ x.parts = out[N].parts /\ x.part = NoPart /\ x.sums = out[N].sums
        /\ x.summary = FALSE /\ x.text = out[N].text
    BY <2>2, <2>3, <2>5 DEF Item
  <2> HIDE DEF x
  <2>7. OnlyLastChanges /\ out'[N] = x /\ N' = N
    <3>1. out' \in Seq(Item) /\ Len(out') = Len(m)
      BY <2>1, <2>3, <2>4, <2>6, ExceptSeq
    <3>2. DOMAIN m = 1..Len(m)
      BY <2>3
    <3>3. out'[open] = x
      BY <2>1, <2>3, <2>4, <3>2
    <3>4. \A j \in 1..Len(out) : j # open => out'[j] = m[j]
      BY <2>3, <2>4, <3>2
    <3> QED BY <2>2, <2>3, <2>6, <3>1, <3>3, <3>4 DEF OnlyLastChanges, N
  <2>8. out[N].text => out[N].kind = "reasoning"
    BY <1>1, <2>2 DEF IInv, Control
  <2>9. call'.op = op /\ call'.w = N /\ call'.part = out[N].part
    BY <2>2, <2>4 DEF Call
  <2>10. Agree' /\ pc' \in PCs
    BY <1>1, <2>2, <2>4, <2>6, <2>7, <2>8, <2>9, CloseAgrees
  <2>11. out[open].part \in PartKinds \cup {NoPart}
    BY <2>2 DEF Item
  <2> QED BY <1>1, <1>2, <2>2, <2>4, <2>6, <2>7, <2>8, <2>10, <2>11, CallOnLastItem
<1>4. CASE ~NeedsClose
  <2>1. out' = out /\ call' = Call(op, 0, NoPart, kind, status)
        /\ pc' = IF started THEN Target(op) ELSE "created"
    BY <1>4 DEF Begin, Marked
  <2>2. call'.op = op /\ call'.kind = kind
        /\ call' \in [op: Ops, w: 0..Len(out), part: PartKinds \cup {NoPart},
                      kind: Lifecycle!ItemKinds, status: Lifecycle!ItemStatus]
    <3>1. 0 \in 0..Len(out)
      BY Basics DEF N
    <3> QED BY <1>2, <2>1, <3>1 DEF Call
  <2>3. ~view.open /\ view.open = FALSE
    BY <1>1, <1>4 DEF IInv, Agree, AtIdle, NeedsClose
  <2>4. /\ pc' \in {"created", "output_item_added", "terminal"}
        /\ pc' = "created" => ~started
        /\ ~started => pc' = "created"
        /\ pc' = "output_item_added" => op \in {"open", "item"}
        /\ pc' = "terminal" => op \in {"complete", "incomplete"}
    BY <2>1 DEF Target, BeginOps
  <2>5. TypeOK'
    <3>1. open' \in 0..Len(out)
      BY <1>1, Basics DEF N
    <3> QED BY <1>1, <2>1, <2>2, <2>4, <3>1 DEF IInv, TypeOK, PCs
  <2>6. DoneItems' /\ SameItems' /\ EarlierWritersClosed' /\ view' \in View
    BY <1>1, <2>1 DEF IInv, DoneItems, SameItems, EarlierWritersClosed
  <2>7. ~started => N = 0
    BY <1>1 DEF IInv, Control
  <2>8. Control'
    <3>1. ~(N > 0 /\ out[N].kind \in WriterKinds /\ ~out[N].closed)
      BY <1>1, <1>4 DEF IInv, Control, NeedsClose, N
    <3> QED BY <1>1, <2>1, <2>2, <2>3, <2>4, <2>7, <3>1 DEF IInv, Control, NeedsClose, N
  <2>9. Agree'
    BY <1>1, <2>1, <2>2, <2>3, <2>4, <2>7 DEF Agree, N
  <2>10. IInv'
    BY <1>1, <2>5, <2>6, <2>8, <2>9 DEF IInv
  <2> QED BY <1>1, <2>10
<1> QED BY <1>3, <1>4

-----------------------------------------------------------------------------
LEMMA AdapterCallStep ==
  ASSUME IInv, AdapterCall
  PROVE  IInv' /\ [Lifecycle!Next]_<<view, last>>
<1>1. ASSUME NEW k \in WriterKinds, OpenWriter(k)
      PROVE  IInv' /\ [Lifecycle!Next]_<<view, last>>
  BY <1>1, BeginStep
     DEF OpenWriter, BeginOps, WriterKinds, Lifecycle!ItemKinds, Lifecycle!ItemStatus
<1>2. ASSUME NEW s \in Lifecycle!ItemStatus, EmitItem(s)
      PROVE  IInv' /\ [Lifecycle!Next]_<<view, last>>
  BY <1>2, BeginStep DEF EmitItem, BeginOps, Lifecycle!ItemKinds
<1>3. ASSUME Start \/ Complete \/ Incomplete
      PROVE  IInv' /\ [Lifecycle!Next]_<<view, last>>
  BY <1>3, BeginStep DEF Start, Complete, Incomplete, BeginOps, Lifecycle!ItemKinds, Lifecycle!ItemStatus
<1>4. ASSUME NEW i \in 1..Len(out), Text(i) \/ Annotation(i) \/ Logprobs(i) \/ Refusal(i)
      PROVE  IInv' /\ [Lifecycle!Next]_<<view, last>>
  BY <1>4, WriteStep
     DEF Text, Annotation, Logprobs, Refusal, WriteOps, PartKinds, Lifecycle!PartKinds
<1>5. ASSUME NEW i \in 1..Len(out),
             \/ Arguments(i) \/ Summary(i) \/ EndSummary(i) \/ ReasoningText(i) \/ CloseWriter(i)
      PROVE  IInv' /\ [Lifecycle!Next]_<<view, last>>
  BY <1>5, ArgumentsStep, SummaryStep, EndSummaryStep, ReasoningTextStep, CloseWriterStep
<1>6. ASSUME Return
      PROVE  IInv' /\ [Lifecycle!Next]_<<view, last>>
  BY <1>6, RefusedInnerEvent DEF Return
<1> QED BY <1>1, <1>2, <1>3, <1>4, <1>5, <1>6 DEF AdapterCall

LEMMA NextStep ==
  ASSUME IInv, [Next]_vars
  PROVE  IInv' /\ [Lifecycle!Next]_<<view, last>>
<1>1. CASE AdapterCall
  BY <1>1, AdapterCallStep
<1>2. CASE EmitterStep
  BY <1>2, CreatedStep, InProgressStep, PartTextDoneStep, ContentPartDoneStep, ContentPartAddedStep,
     SummaryTextDoneStep, SummaryPartDoneStep, SummaryPartAddedStep, ReasoningDoneStep,
     ArgumentsDoneStep, DeltaStep, ItemDoneStep, ItemAddedStep, PlainItemDoneStep, TerminalStep
     DEF EmitterStep
<1>3. CASE UNCHANGED vars
  <2>1. UNCHANGED <<started, ended, open, out, pc, call, running, view, last>>
    BY <1>3 DEF vars, emitterVars
  <2>2. TypeOK' /\ DoneItems' /\ SameItems' = SameItems /\ EarlierWritersClosed' = EarlierWritersClosed
    BY <2>1 DEF IInv, TypeOK, DoneItems, SameItems, EarlierWritersClosed
  <2>3. Control' = Control
    BY <2>1 DEF Control, NeedsClose, N
  <2>4. Agree' = Agree
    BY <2>1 DEF Agree, AtIdle, NeedsClose, AtPartEnd, AtSummaryEnd, AtDelta, Working, Closing, Using,
       SameInside, SameCounts, SameText, SamePart, SameSum, N
  <2> QED BY <2>1, <2>2, <2>3, <2>4 DEF IInv
<1> QED BY <1>1, <1>2, <1>3 DEF Next, Returned

LEMMA InitIInv ==
  ASSUME Init
  PROVE  IInv /\ Lifecycle!Init
<1>1. /\ started = FALSE /\ ended = FALSE /\ open = 0 /\ out = <<>> /\ Len(out) = 0 /\ N = 0
      /\ pc = "idle" /\ call = NoCall /\ running = TRUE /\ view = Lifecycle!EmptyView
  BY DEF Init, Lifecycle!Init, N
<1>2. TypeOK
  <2>1. call \in [op: Ops, w: 0..Len(out), part: PartKinds \cup {NoPart},
                  kind: Lifecycle!ItemKinds, status: Lifecycle!ItemStatus]
    BY <1>1 DEF NoCall, Call, Ops, Lifecycle!ItemKinds, Lifecycle!ItemStatus
  <2>2. out \in Seq(Item)
    BY <1>1
  <2>3. open \in 0..Len(out)
    BY <1>1
  <2> QED BY <1>1, <2>1, <2>2, <2>3 DEF TypeOK, PCs
<1>3. /\ view \in View /\ view.items = <<>> /\ view.open = FALSE /\ view.started = FALSE
      /\ view.errored = FALSE /\ view.terminal = FALSE
  BY <1>1 DEF Lifecycle!EmptyView, View, NoPart
<1>4. DoneItems /\ SameItems /\ EarlierWritersClosed
  BY <1>1, <1>3 DEF DoneItems, SameItems, EarlierWritersClosed
<1>5. ~NeedsClose
  BY <1>1 DEF NeedsClose
<1>6. Control
  <2>1. call.op = "close"
    BY <1>1 DEF NoCall, Call
  <2>2. started = view.started /\ ended = view.terminal
    BY <1>1, <1>3
  <2>3. call.op \notin BeginOps
    BY <2>1 DEF BeginOps
  <2> QED BY <1>1, <1>3, <1>5, <2>1, <2>2, <2>3 DEF Control
<1>7. Agree
  BY <1>1, <1>3, <1>5 DEF Agree, AtIdle, NeedsClose
<1> QED BY <1>1, <1>2, <1>3, <1>4, <1>6, <1>7 DEF IInv, Init

-----------------------------------------------------------------------------
(***************************************************************************)
(* The invariant holds in every state of the emitter (src/emitter.go).     *)
(***************************************************************************)
THEOREM Invariance == Spec => []IInv
<1>1. Init => IInv
  BY InitIInv
<1>2. IInv /\ [Next]_vars => IInv'
  BY NextStep
<1> QED BY <1>1, <1>2, PTL DEF Spec

(***************************************************************************)
(* Type correctness of the emitter's state, for any number of items and    *)
(* parts: in particular the open writer is always one of the output items. *)
(***************************************************************************)
THEOREM TypeCorrect == Spec => []TypeOK
<1>1. IInv => TypeOK
  BY DEF IInv
<1> QED BY <1>1, Invariance, PTL

(***************************************************************************)
(* Whatever an adapter calls, in whatever order, and at whatever event the *)
(* sink fails, the events that reach the reader are a stream the lifecycle *)
(* of streamtest.Validate accepts.                                         *)
(***************************************************************************)
THEOREM LifecycleImplemented == Spec => ImplementsLifecycle
<1>1. Init => Lifecycle!Init
  BY InitIInv
<1>2. IInv /\ [Next]_vars => [Lifecycle!Next]_<<view, last>>
  BY NextStep
<1> QED BY <1>1, <1>2, Invariance, PTL DEF Spec, ImplementsLifecycle, Lifecycle!Spec,
           Lifecycle!lifecycleVars

(***************************************************************************)
(* Only the writer the emitter holds open accepts content: openItem closes *)
(* the one before it, however many items the response has.                 *)
(***************************************************************************)
THEOREM OneLiveWriter == Spec => []OnlyTheOpenWriterIsLive
<1>1. IInv => OnlyTheOpenWriterIsLive
  <2> SUFFICES ASSUME IInv, running, NEW i \in 1..Len(out), out[i].kind \in WriterKinds,
                      ~out[i].closed
               PROVE  i = open
    BY DEF OnlyTheOpenWriterIsLive
  <2>1. i = N
    BY DEF IInv, EarlierWritersClosed, N
  <2>2. N > 0
    BY <2>1, Basics
  <2> QED BY <2>1, <2>2 DEF IInv, Control
<1> QED BY <1>1, Invariance, PTL

(***************************************************************************)
(* An item whose output_item.done has been sent is never changed again by  *)
(* the emitter, although the events carry the live item.                   *)
(***************************************************************************)
THEOREM DoneItemsAreKept == Spec => []DoneItemsKeepTheirForm
<1>1. IInv => DoneItemsKeepTheirForm
  BY Basics DEF IInv, DoneItems, DoneItemsKeepTheirForm, IsDone
<1> QED BY <1>1, Invariance, PTL

-----------------------------------------------------------------------------
(***************************************************************************)
(* What statuses a terminal event carries, for every number of items and   *)
(* parts.  The invariant, TInv, says where an item that is not completed   *)
(* can be while an adapter runs: it is the last one, and either the reader *)
(* has it open, or Incomplete has marked it and is on its way to the       *)
(* terminal event, or has sent it.                                         *)
(***************************************************************************)
(* Item i, if it is a writer's, has a status it may have here. *)
StatusFits(i) ==
  out[i].kind \in WriterKinds =>
    \/ out[i].status = "completed"
    \/ out[i].status = "in_progress" /\ i = N /\ view.open
    \/ out[i].status = "incomplete" /\ i = N /\ call.op = "incomplete" /\ (pc # "idle" \/ ended)

Statuses == running => \A i \in 1..Len(out) : StatusFits(i)

OpensInProgress == call.op = "open" => call.status = "in_progress"

TInv == Statuses /\ OpensInProgress /\ TerminalStatuses

TerminalTypes == {"response.completed", "response.incomplete"}
-----------------------------------------------------------------------------
(* A step that stops the adapter, and sends nothing. *)
LEMMA StoppedStep ==
  ASSUME TInv, running' = FALSE, last' = last, call' = call
  PROVE  TInv'
BY DEF TInv, Statuses, OpensInProgress, TerminalStatuses

(* A step that sends no terminal event. *)
LEMMA RunningStep ==
  ASSUME TInv, \A i \in 1..Len(out') : StatusFits(i)', OpensInProgress',
         last' = last \/ last'.type \notin TerminalTypes
  PROVE  TInv'
BY DEF TInv, Statuses, TerminalStatuses, TerminalTypes

(* The items keep their kinds and statuses. *)
SameStatuses ==
  /\ Len(out') = Len(out)
  /\ \A i \in 1..Len(out) : out'[i].kind = out[i].kind /\ out'[i].status = out[i].status

LEMMA InnerStep ==
  ASSUME TInv, running, SameStatuses, call' = call, ended' = ended, view'.open = view.open,
         call.op = "incomplete" => (pc' # "idle" \/ (pc = "idle" /\ ~ended)),
         last' = last \/ last'.type \notin TerminalTypes
  PROVE  TInv'
<1>1. ASSUME NEW i \in 1..Len(out')
      PROVE  StatusFits(i)'
  BY DEF TInv, Statuses, StatusFits, SameStatuses, N
<1>2. OpensInProgress'
  BY DEF TInv, OpensInProgress
<1> QED BY <1>1, <1>2, RunningStep

(* A call on a writer, which does not change its status. *)
LEMMA WriterCall ==
  ASSUME TInv, running, pc = "idle", ~ended, SameStatuses, call'.op # "open", view' = view, last' = last
  PROVE  TInv'
<1>1. ASSUME NEW i \in 1..Len(out')
      PROVE  StatusFits(i)'
  BY DEF TInv, Statuses, StatusFits, SameStatuses, N
<1>2. OpensInProgress'
  BY DEF OpensInProgress
<1> QED BY <1>1, <1>2, RunningStep

(* Only the two events of an item open and close it for the reader. *)
LEMMA OpenKept ==
  ASSUME NEW v \in View, NEW e, e.type \notin {"output_item.added", "output_item.done"}
  PROVE  Lifecycle!Apply(v, e).open = v.open
BY DEF Lifecycle!Apply, Lifecycle!IsTerminal, View

-----------------------------------------------------------------------------
(* The events inside an item, and those that start the stream. *)
LEMMA InnerSend ==
  ASSUME IInv, TInv, running, NEW e, NEW next, Send(e, next), call' = call, SameStatuses,
         ended' = ended,
         e.type \notin {"output_item.added", "output_item.done"} \cup TerminalTypes,
         call.op = "incomplete" => next # "idle"
  PROVE  TInv'
<1>1. CASE running' = FALSE /\ last' = last
  BY <1>1, StoppedStep
<1>2. CASE view' = Lifecycle!Apply(view, e) /\ last' = e /\ pc' = next
  <2>1. view'.open = view.open
    BY <1>2, OpenKept DEF IInv
  <2> QED BY <1>2, <2>1, InnerStep
<1> QED BY <1>1, <1>2 DEF Send

(* The last item's writer changes what it has open, and nothing else. *)
LEMMA WriterChanged ==
  ASSUME IInv, NEW i \in 1..Len(out), NEW x, out' = [out EXCEPT ![i] = x],
         x.kind = out[i].kind, x.status = out[i].status
  PROVE  SameStatuses
<1>1. out \in Seq(Item) /\ DOMAIN out = 1..Len(out)
  BY DEF IInv, TypeOK
<1>2. Len(out') = Len(out)
  BY <1>1
<1>3. \A j \in 1..Len(out) : out'[j] = IF j = i THEN x ELSE out[j]
  BY <1>1
<1> QED BY <1>2, <1>3 DEF SameStatuses

LEMMA InnerEvents ==
  ASSUME IInv, TInv,
         \/ SendCreated \/ SendInProgress \/ SendPartTextDone \/ SendContentPartDone
         \/ SendSummaryTextDone \/ SendReasoningDone \/ SendArgumentsDone
  PROVE  TInv'
<1>1. /\ running /\ out' = out /\ call' = call /\ ended' = ended /\ SameStatuses
  BY DEF IInv, SendCreated, SendInProgress, SendPartTextDone, SendContentPartDone,
     SendSummaryTextDone, SendReasoningDone, SendArgumentsDone, SameStatuses
<1>2. CASE SendCreated \/ SendInProgress
  <2>1. PICK e, next :
          /\ Send(e, next) /\ e.type \in {"response.created", "response.in_progress"}
          /\ call.op = "incomplete" => next # "idle"
    BY <1>2 DEF SendCreated, SendInProgress, Lifecycle!ResponseEvent, Target
  <2> QED BY <1>1, <2>1, InnerSend DEF TerminalTypes
<1>3. CASE SendPartTextDone \/ SendContentPartDone \/ SendSummaryTextDone
  <2>1. PICK e, next :
          /\ Send(e, next) /\ next # "idle"
          /\ e.type \in {"part.text_done", "content_part.done", "reasoning_summary_text.done"}
    BY <1>3 DEF SendPartTextDone, SendContentPartDone, SendSummaryTextDone, Lifecycle!PartEvent
  <2> QED BY <1>1, <2>1, InnerSend DEF TerminalTypes
<1>4. CASE SendReasoningDone \/ SendArgumentsDone
  <2>1. PICK e, next :
          /\ Send(e, next) /\ next # "idle"
          /\ e.type \in {"reasoning.done", "function_call_arguments.done"}
    BY <1>4 DEF SendReasoningDone, SendArgumentsDone, Lifecycle!InItemEvent
  <2> QED BY <1>1, <2>1, InnerSend DEF TerminalTypes
<1> QED BY <1>2, <1>3, <1>4

(* The events that end a call on a writer. *)
LEMMA WriterEvents ==
  ASSUME IInv, TInv,
         SendSummaryPartDone \/ SendContentPartAdded \/ SendSummaryPartAdded \/ SendDelta
  PROVE  TInv'
<1>1. running /\ call' = call /\ ended' = ended
  BY DEF IInv, SendSummaryPartDone, SendContentPartAdded, SendSummaryPartAdded, SendDelta
<1>2. CASE SendSummaryPartDone
  <2> DEFINE e == Lifecycle!PartEvent("reasoning_summary_part.done", call.w, out[call.w].sums, "summary_text")
             next == IF ~out[call.w].closed THEN "idle"
                     ELSE IF out[call.w].text THEN "reasoning_done" ELSE "output_item_done"
  <2>1. Send(e, next) /\ SameStatuses /\ e.type = "reasoning_summary_part.done"
    BY <1>2 DEF SendSummaryPartDone, SameStatuses, Lifecycle!PartEvent
  <2>2. call.op = "incomplete" => next # "idle"
    BY <1>1, <1>2 DEF SendSummaryPartDone, IInv, Agree, AtSummaryEnd, Working, Using, Closing
  <2> HIDE DEF e, next
  <2> QED BY <1>1, <2>1, <2>2, InnerSend DEF TerminalTypes
<1>3. CASE SendContentPartAdded
  <2>1. call.w \in 1..Len(out) /\ call.op # "incomplete"
    BY <1>1, <1>3, Basics DEF SendContentPartAdded, IInv, Agree, Working, Using, WriteOps, N
  <2>2. out[call.w] \in Item
    BY <2>1, Basics DEF N
  <2>3. PICK e, next : Send(e, next) /\ e.type = "content_part.added"
    BY <1>3 DEF SendContentPartAdded, Lifecycle!PartEvent
  <2>4. PICK part : out' = [out EXCEPT ![call.w] =
                             [out[call.w] EXCEPT !.parts = out[call.w].parts + 1, !.part = part]]
    BY <1>3 DEF SendContentPartAdded
  <2>5. SameStatuses
    BY <2>1, <2>2, <2>4, WriterChanged DEF Item
  <2> QED BY <1>1, <2>1, <2>3, <2>5, InnerSend DEF TerminalTypes
<1>4. CASE SendSummaryPartAdded
  <2>1. call.w \in 1..Len(out) /\ call.op # "incomplete"
    BY <1>1, <1>4, Basics DEF SendSummaryPartAdded, IInv, Agree, Working, Using, N
  <2>2. out[call.w] \in Item
    BY <2>1, Basics DEF N
  <2>3. PICK e, next : Send(e, next) /\ e.type = "reasoning_summary_part.added"
    BY <1>4 DEF SendSummaryPartAdded, Lifecycle!PartEvent
  <2>4. out' = [out EXCEPT ![call.w] =
                 [out[call.w] EXCEPT !.sums = out[call.w].sums + 1, !.summary = TRUE]]
    BY <1>4 DEF SendSummaryPartAdded
  <2>5. SameStatuses
    BY <2>1, <2>2, <2>4, WriterChanged DEF Item
  <2> QED BY <1>1, <2>1, <2>3, <2>5, InnerSend DEF TerminalTypes
<1>5. CASE SendDelta
  <2>1. Send(DeltaEvent, "idle") /\ SameStatuses
    BY <1>5 DEF SendDelta, SameStatuses
  <2>2. call.op # "incomplete"
    BY <1>1, <1>5 DEF SendDelta, IInv, Agree, AtDelta
  <2>3. DeltaEvent.type \in {"part.delta", "output_text.annotation.added",
          "reasoning_summary_text.delta", "function_call_arguments.delta", "reasoning.delta"}
    BY DEF DeltaEvent, Lifecycle!PartEvent, Lifecycle!InItemEvent
  <2> QED BY <1>1, <2>1, <2>2, <2>3, InnerSend DEF TerminalTypes
<1> QED BY <1>2, <1>3, <1>4, <1>5

-----------------------------------------------------------------------------
(* output_item.done of a writer's item: nothing of it stays in progress. *)
LEMMA ItemDoneStatuses ==
  ASSUME IInv, TInv, SendItemDone
  PROVE  TInv'
<1> DEFINE it == out[call.w]
           x  == [it EXCEPT !.status = Promoted(it.status)]
           e  == Lifecycle!ItemEvent("output_item.done", call.w, it.kind, Promoted(it.status))
<1>1. /\ running /\ view.open /\ N > 0 /\ call.w = N /\ N = Len(out) /\ Closing
      /\ call' = call /\ ended' = ended
  BY DEF IInv, SendItemDone, Agree, N
<1>2. it \in Item /\ N \in Nat /\ call.w \in 1..Len(out)
  BY <1>1, Basics
<1>3. x.kind = it.kind /\ x.status = Promoted(it.status)
  BY <1>2 DEF Item
<1>4. out' = [out EXCEPT ![call.w] = x] /\ Send(e, Target(call.op))
  BY DEF SendItemDone
<1>5. e.type = "output_item.done"
  BY DEF Lifecycle!ItemEvent
<1>6. Len(out') = Len(out) /\ \A i \in 1..Len(out) : out'[i] = IF i = call.w THEN x ELSE out[i]
  BY <1>2, <1>4 DEF IInv, TypeOK
<1>7. CASE running' = FALSE /\ last' = last
  BY <1>1, <1>7, StoppedStep
<1>8. CASE last' = e /\ pc' = Target(call.op)
  <2>1. ASSUME NEW i \in 1..Len(out')
        PROVE  StatusFits(i)'
    <3>1. StatusFits(i)
      BY <1>1, <1>6 DEF TInv, Statuses
    <3>2. call.op = "incomplete" => pc' # "idle"
      BY <1>8 DEF Target
    <3>3. CASE i # N
      BY <1>1, <1>6, <3>1, <3>3 DEF StatusFits
    <3>4. CASE i = N
      BY <1>1, <1>3, <1>6, <3>1, <3>2, <3>4 DEF StatusFits, Promoted, N
    <3> QED BY <3>3, <3>4
  <2>2. OpensInProgress'
    BY <1>1 DEF TInv, OpensInProgress
  <2> QED BY <1>5, <1>8, <2>1, <2>2, RunningStep DEF TerminalTypes
<1> QED BY <1>4, <1>7, <1>8 DEF Send

(* A new item finds every earlier one completed. *)
LEMMA ItemAddedStatuses ==
  ASSUME IInv, TInv, SendItemAdded
  PROVE  TInv'
<1> DEFINE x == NewItem(call.kind, call.status)
           e == Lifecycle!ItemEvent("output_item.added", NewIndex, call.kind, call.status)
<1>1. /\ running /\ ~view.open /\ call.op \in {"open", "item"} /\ call' = call /\ ended' = ended
  BY DEF IInv, SendItemAdded, Agree
<1>2. out \in Seq(Item) /\ view \in View
  BY DEF IInv, TypeOK
<1>3. out' = Append(out, x) /\ x.kind = call.kind /\ x.status = call.status
  BY DEF SendItemAdded, NewItem
<1>4. Send(e, IF call.op = "item" THEN "item_done" ELSE "idle")
  BY DEF SendItemAdded
<1>5. e.type = "output_item.added" /\ e.kind = call.kind /\ e.status = call.status
  BY DEF Lifecycle!ItemEvent
<1>6. /\ Len(out') = Len(out) + 1 /\ out'[Len(out) + 1] = x
      /\ \A i \in 1..Len(out) : out'[i] = out[i]
  BY <1>2, <1>3
<1>7. CASE running' = FALSE /\ last' = last
  BY <1>1, <1>7, StoppedStep
<1>8. CASE view' = Lifecycle!Apply(view, e) /\ last' = e
  <2> HIDE DEF x, e
  <2>1. view'.open
    BY <1>5, <1>8 DEF Lifecycle!Apply, Lifecycle!IsTerminal, Lifecycle!EmptyView
  <2>2. ASSUME NEW i \in 1..Len(out')
        PROVE  StatusFits(i)'
    <3>1. CASE i \in 1..Len(out)
      BY <1>1, <1>6, <3>1 DEF TInv, Statuses, StatusFits
    <3>2. CASE i = Len(out')
      <4>1. CASE call.op = "open"
        BY <1>1, <1>3, <1>6, <2>1, <3>2, <4>1 DEF TInv, OpensInProgress, StatusFits, N
      <4>2. CASE call.op = "item"
        <5>1. out'[i].kind = "other"
          BY <1>1, <1>3, <1>6, <3>2, <4>2 DEF IInv, Control
        <5> QED BY <5>1 DEF StatusFits, WriterKinds
      <4> QED BY <1>1, <4>1, <4>2
    <3> QED BY <1>2, <1>6, <3>1, <3>2
  <2>3. OpensInProgress'
    BY <1>1 DEF TInv, OpensInProgress
  <2> QED BY <1>5, <1>8, <2>2, <2>3, RunningStep DEF TerminalTypes
<1> QED BY <1>4, <1>7, <1>8 DEF Send

LEMMA PlainItemDoneStatuses ==
  ASSUME IInv, TInv, SendPlainItemDone
  PROVE  TInv'
<1> DEFINE it == out[Len(out)]
           x  == [it EXCEPT !.status = Promoted(it.status), !.closed = TRUE]
           e  == Lifecycle!ItemEvent("output_item.done", Len(out), "other", Promoted(it.status))
<1>1. /\ running /\ view.open /\ N > 0 /\ N = Len(out) /\ out[N].kind = "other" /\ call.op = "item"
      /\ call' = call /\ ended' = ended
  BY DEF IInv, SendPlainItemDone, Agree, N
<1>2. it \in Item /\ N \in Nat /\ N \in 1..Len(out)
  BY <1>1, Basics
<1>3. x.kind = "other"
  BY <1>1, <1>2 DEF Item
<1>4. out' = [out EXCEPT ![N] = x] /\ Send(e, "idle")
  BY <1>1 DEF SendPlainItemDone
<1>5. e.type = "output_item.done"
  BY DEF Lifecycle!ItemEvent
<1>6. Len(out') = Len(out) /\ \A i \in 1..Len(out) : out'[i] = IF i = N THEN x ELSE out[i]
  BY <1>2, <1>4 DEF IInv, TypeOK
<1>7. CASE running' = FALSE /\ last' = last
  BY <1>1, <1>7, StoppedStep
<1>8. CASE last' = e
  <2>1. ASSUME NEW i \in 1..Len(out')
        PROVE  StatusFits(i)'
    <3>1. CASE i # N
      BY <1>1, <1>6, <3>1 DEF TInv, Statuses, StatusFits
    <3>2. CASE i = N
      BY <1>3, <1>6, <3>2 DEF StatusFits, WriterKinds
    <3> QED BY <3>1, <3>2
  <2>2. OpensInProgress'
    BY <1>1 DEF TInv, OpensInProgress
  <2> QED BY <1>5, <1>8, <2>1, <2>2, RunningStep DEF TerminalTypes
<1> QED BY <1>4, <1>7, <1>8 DEF Send

(* The terminal event: nothing is open, and only Incomplete has marked. *)
LEMMA TerminalEventStatuses ==
  ASSUME IInv, TInv, SendTerminal
  PROVE  TInv'
<1> DEFINE type == IF call.op = "complete" THEN "response.completed" ELSE "response.incomplete"
           e    == Lifecycle!TerminalEvent(type, Output)
<1>1. /\ running /\ ~view.open /\ call.op \in {"complete", "incomplete"}
      /\ out' = out /\ call' = call /\ ended' = TRUE
  BY DEF IInv, SendTerminal, Agree
<1>2. Send(e, "idle")
  BY DEF SendTerminal
<1>3. e.type = type /\ e.output = Output
  BY DEF Lifecycle!TerminalEvent
<1>4. /\ Len(Output) = Len(out)
      /\ \A i \in 1..Len(out) : Output[i].kind = out[i].kind /\ Output[i].status = out[i].status
  BY Basics DEF Output, N
<1>5. CASE running' = FALSE /\ last' = last
  BY <1>1, <1>5, StoppedStep
<1>6. CASE view' = Lifecycle!Apply(view, e) /\ last' = e
  <2>1. \A i \in 1..Len(out) : StatusFits(i)
    BY <1>1 DEF TInv, Statuses
  <2>2. \A i \in 1..Len(out) : out[i].kind \in WriterKinds =>
          \/ out[i].status = "completed"
          \/ out[i].status = "incomplete" /\ i = Len(out) /\ call.op = "incomplete"
    BY <1>1, <2>1 DEF StatusFits, N
  <2>3. Statuses'
    BY <1>1, <2>2 DEF Statuses, StatusFits, N
  <2>4. OpensInProgress'
    BY <1>1 DEF TInv, OpensInProgress
  <2>5. TerminalStatuses'
    <3> HIDE DEF e
    <3> SUFFICES ASSUME NEW i \in 1..Len(last'.output), last'.output[i].kind \in WriterKinds
                 PROVE  \/ last'.output[i].status = "completed"
                        \/ /\ last'.type = "response.incomplete"
                           /\ last'.output[i].status = "incomplete"
                           /\ i = Len(last'.output)
      BY DEF TerminalStatuses
    <3> QED BY <1>3, <1>4, <1>6, <2>2
  <2> QED BY <2>3, <2>4, <2>5 DEF TInv
<1> QED BY <1>2, <1>5, <1>6 DEF Send

-----------------------------------------------------------------------------
(* An operation that opens an item or ends the response. *)
LEMMA BeginStatuses ==
  ASSUME IInv, TInv, NEW op \in BeginOps, NEW kind, NEW status, Begin(op, kind, status),
         op = "open" => status = "in_progress"
  PROVE  TInv'
<1>1. /\ running /\ pc = "idle" /\ ~ended /\ view' = view /\ last' = last
      /\ call'.op = op /\ call'.status = status /\ ended' = ended
  BY DEF Begin, BeginClose, Call
<1>2. OpensInProgress'
  BY <1>1 DEF OpensInProgress
<1>3. \A i \in 1..Len(out) : out[i].kind \in WriterKinds =>
        out[i].status = "completed" \/ (out[i].status = "in_progress" /\ i = N /\ view.open)
  BY <1>1 DEF TInv, Statuses, StatusFits
<1>4. CASE ~NeedsClose
  <2>1. out' = out
    BY <1>4 DEF Begin, Marked
  <2>2. \A i \in 1..Len(out') : StatusFits(i)'
    BY <1>1, <1>3, <2>1 DEF StatusFits, N
  <2> QED BY <1>1, <1>2, <2>2, RunningStep
<1>5. CASE NeedsClose
  <2>1. open \in 1..Len(out) /\ open = N /\ out \in Seq(Item)
    BY <1>1, <1>5 DEF NeedsClose, IInv, TypeOK, Control, N
  <2>2. out[open] \in Item
    BY <2>1, Basics
  <2> DEFINE m == Marked(op)
             x == [m[open] EXCEPT !.closed = TRUE, !.part = NoPart, !.summary = FALSE]
  <2>3. /\ m \in Seq(Item) /\ Len(m) = Len(out) /\ m[N] \in Item
        /\ \A j \in 1..Len(out) : j # N => m[j] = out[j]
        /\ m[N].kind = out[N].kind
    BY <1>5, <2>1, <2>2, Basics, MarkedItems
  <2>4. m[N].status = IF op = "incomplete" THEN "incomplete" ELSE out[N].status
    <3>1. CASE op = "incomplete"
      <4>1. m[open] = [out[open] EXCEPT !.status = "incomplete"]
        BY <1>5, <2>1, <3>1 DEF Marked
      <4> QED BY <2>1, <2>2, <3>1, <4>1 DEF Item
    <3>2. CASE op # "incomplete"
      BY <3>2 DEF Marked
    <3> QED BY <3>1, <3>2
  <2>5. out' = [m EXCEPT ![open] = x] /\ pc' = CloseEntry(out[open])
    BY <1>5 DEF Begin, BeginClose, Shut
  <2>6. pc' # "idle"
    BY <2>5 DEF CloseEntry
  <2>7. x.kind = out[N].kind /\ x.status = m[N].status
    BY <2>1, <2>3 DEF Item
  <2> HIDE DEF m, x
  <2>8. Len(out') = Len(out) /\ \A j \in 1..Len(out) : out'[j] = IF j = N THEN x ELSE out[j]
    BY <2>1, <2>3, <2>5
  <2>9. ASSUME NEW i \in 1..Len(out')
        PROVE  StatusFits(i)'
    <3>1. CASE i # N
      BY <1>3, <2>8, <3>1 DEF StatusFits
    <3>2. CASE i = N
      BY <1>1, <1>3, <2>4, <2>6, <2>7, <2>8, <3>2 DEF StatusFits, N
    <3> QED BY <3>1, <3>2
  <2> QED BY <1>1, <1>2, <2>9, RunningStep
<1> QED BY <1>4, <1>5

(* A call on a writer changes no status, and comes before the end. *)
LEMMA WriterCallStatuses ==
  ASSUME IInv, TInv, NEW i \in 1..Len(out),
         \/ Text(i) \/ Annotation(i) \/ Logprobs(i) \/ Refusal(i) \/ Arguments(i)
         \/ Summary(i) \/ EndSummary(i) \/ ReasoningText(i) \/ CloseWriter(i)
  PROVE  TInv'
<1>1. /\ running /\ pc = "idle" /\ out[i].kind \in WriterKinds /\ view' = view /\ last' = last
      /\ call'.op # "open"
  BY DEF Text, Annotation, Logprobs, Refusal, Write, Arguments, Summary, EndSummary, ReasoningText,
     CloseWriter, Live, WriterKinds, Call
<1>2. ~out[i].closed
  BY <1>1 DEF Text, Annotation, Logprobs, Refusal, Write, Arguments, Summary, EndSummary,
     ReasoningText, CloseWriter, Live, IInv, EarlierWritersClosed
<1>3. ~ended /\ out[i] \in Item
  BY <1>1, <1>2, LiveIsLast
<1>4. SameStatuses
  <2>1. CASE out' = out
    BY <2>1 DEF SameStatuses
  <2>2. CASE out' # out
    <3>1. PICK x : /\ out' = [out EXCEPT ![i] = x]
                   /\ x.kind = out[i].kind /\ x.status = out[i].status
      BY <1>3, <2>2 DEF Text, Annotation, Logprobs, Refusal, Write, Arguments, Summary, EndSummary,
         ReasoningText, CloseWriter, Shut, Item
    <3> QED BY <3>1, WriterChanged
  <2> QED BY <2>1, <2>2
<1> QED BY <1>1, <1>3, <1>4, WriterCall

LEMMA CallStatuses ==
  ASSUME IInv, TInv, AdapterCall
  PROVE  TInv'
<1>1. ASSUME NEW k \in WriterKinds, OpenWriter(k)
      PROVE  TInv'
  BY <1>1, BeginStatuses DEF OpenWriter, BeginOps
<1>2. ASSUME NEW s \in Lifecycle!ItemStatus, EmitItem(s)
      PROVE  TInv'
  BY <1>2, BeginStatuses DEF EmitItem, BeginOps
<1>3. CASE Start \/ Complete \/ Incomplete
  BY <1>3, BeginStatuses DEF Start, Complete, Incomplete, BeginOps
<1>4. CASE Return
  BY <1>4, StoppedStep DEF Return
<1> QED BY <1>1, <1>2, <1>3, <1>4, WriterCallStatuses DEF AdapterCall

LEMMA StatusStep ==
  ASSUME IInv, TInv, [Next]_vars
  PROVE  TInv'
<1>1. CASE AdapterCall
  BY <1>1, CallStatuses
<1>2. CASE EmitterStep
  BY <1>2, InnerEvents, WriterEvents, ItemDoneStatuses, ItemAddedStatuses, PlainItemDoneStatuses,
     TerminalEventStatuses DEF EmitterStep
<1>3. CASE UNCHANGED vars
  BY <1>3 DEF vars, emitterVars, TInv, Statuses, StatusFits, OpensInProgress, TerminalStatuses, N
<1> QED BY <1>1, <1>2, <1>3 DEF Next, Returned

(***************************************************************************)
(* response.completed carries no writer's item that is not completed, and  *)
(* response.incomplete none but the last, which Incomplete found open:     *)
(* whatever the adapter called before (src/emitter.go).                    *)
(***************************************************************************)
THEOREM TerminalItemsAreFinal == Spec => []TerminalStatuses
<1>1. Init => TInv
  <2> SUFFICES ASSUME Init
               PROVE  TInv
    OBVIOUS
  <2>1. out = <<>> /\ call.op = "close" /\ last.type = "none"
    BY DEF Init, Lifecycle!Init, Lifecycle!NoEvent, Lifecycle!ResponseEvent, NoCall, Call
  <2> QED BY <2>1 DEF TInv, Statuses, OpensInProgress, TerminalStatuses
<1>2. IInv /\ TInv /\ [Next]_vars => TInv'
  BY StatusStep
<1>3. TInv => TerminalStatuses
  BY DEF TInv
<1> QED BY <1>1, <1>2, <1>3, Invariance, PTL DEF Spec
=============================================================================
