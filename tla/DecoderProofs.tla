---------------------------- MODULE DecoderProofs -----------------------------
(***************************************************************************)
(* What the three decoders plan and what the emitter makes of it.  A       *)
(* decoder writes its calls down (dec.todo) and an adapter makes them one  *)
(* by one; the lemmas here say, handler by handler, that a plan stays      *)
(* sound: each planned call finds open the item that the calls before it   *)
(* leave open (Planned), the decoder holds the writer that the whole plan  *)
(* leaves open (Sound), or the plan is the last one (Finished).  Each      *)
(* provider adds what its handlers rely on between two frames (ChatShape,  *)
(* ClaudeShape, GeminiShape).  AdapterProofs draws the conclusions.        *)
(***************************************************************************)
EXTENDS Adapters, EmitterProofs

-----------------------------------------------------------------------------
(***************************************************************************)
(* What the emitter holds open and how many items it has once the running  *)
(* call is over, if no send fails: an adapter that waits for its calls to  *)
(* return sees nothing else of it.                                         *)
(***************************************************************************)
Held ==
  CASE pc = "idle" -> IF NeedsClose THEN open ELSE 0
    [] pc # "idle" /\ call.op = "open" -> N + 1
    [] pc # "idle" /\ call.op \in {"start", "item", "complete", "incomplete", "close"} -> 0
    [] OTHER -> open
ItemsSoon == IF pc \notin {"idle", "item_done"} /\ call.op \in {"open", "item"} THEN N + 1 ELSE N

SameOutcome == Held' = Held /\ ItemsSoon' = ItemsSoon

(* An event within a call. *)
LEMMA MidCall ==
  ASSUME N' = N, call' = call, open' = open,
         pc \notin {"idle", "item_done"}, pc' \notin {"idle", "item_done"}
  PROVE  SameOutcome
BY DEF SameOutcome, Held, ItemsSoon

(* The last event of a call that neither opens an item nor is an item. *)
LEMMA LastOfCall ==
  ASSUME N' = N, call' = call, open' = open, pc # "idle", pc' = "idle",
         call.op \notin {"open", "item"},
         IF call.op \in BeginOps \cup {"close"} THEN ~NeedsClose' ELSE NeedsClose'
  PROVE  SameOutcome
BY DEF SameOutcome, Held, ItemsSoon, BeginOps

(* A send that succeeded. *)
LEMMA SendWorked ==
  ASSUME NEW e, NEW next, Send(e, next), running'
  PROVE  pc' = next /\ view' = Lifecycle!Apply(view, e)
BY DEF Send

(* Only the events that open and close an item change what the reader has open. *)
LEMMA ViewOpenKept ==
  ASSUME IInv, NEW e, NEW next, Send(e, next), running',
         e.type \notin {"output_item.added", "output_item.done"}
  PROVE  view'.open = view.open
BY SendWorked, OpenKept DEF IInv

LEMMA IdleAgrees ==
  ASSUME IInv', running', pc' = "idle"
  PROVE  view'.open = NeedsClose'
BY DEF IInv, Agree, AtIdle

LEMMA OutKept ==
  ASSUME out' = out
  PROVE  N' = N
BY DEF N

(* The events that leave the items as they are and are not a call's last. *)
LEMMA InnerOutcome ==
  ASSUME IInv, running,
         \/ SendCreated \/ SendPartTextDone \/ SendContentPartDone
         \/ SendSummaryTextDone \/ SendReasoningDone \/ SendArgumentsDone
  PROVE  running' => SameOutcome
<1> SUFFICES ASSUME running'
             PROVE  SameOutcome
  OBVIOUS
<1>1. /\ out' = out /\ call' = call /\ open' = open /\ pc \notin {"idle", "item_done"}
      /\ \E e, next : Send(e, next) /\ next \notin {"idle", "item_done"}
  BY DEF SendCreated, SendPartTextDone, SendContentPartDone, SendSummaryTextDone,
         SendReasoningDone, SendArgumentsDone
<1> QED BY <1>1, SendWorked, MidCall, OutKept

LEMMA InProgressOutcome ==
  ASSUME IInv, IInv', running, SendInProgress
  PROVE  running' => SameOutcome
<1> SUFFICES ASSUME running'
             PROVE  SameOutcome
  OBVIOUS
<1> DEFINE e == Lifecycle!ResponseEvent("response.in_progress")
<1>1. /\ out' = out /\ call' = call /\ open' = open /\ pc = "in_progress"
      /\ Send(e, Target(call.op)) /\ N' = N
  BY OutKept DEF SendInProgress
<1>2. ~view.open /\ call.op \in BeginOps
  BY <1>1 DEF IInv, Agree
<1>3. pc' = Target(call.op) /\ view'.open = view.open
  BY <1>1, SendWorked, ViewOpenKept DEF Lifecycle!ResponseEvent
<1>4. CASE pc' = "idle"
  BY <1>1, <1>2, <1>3, <1>4, IdleAgrees, LastOfCall DEF Target
<1>5. CASE pc' # "idle"
  BY <1>1, <1>3, <1>5, MidCall DEF Target
<1> QED BY <1>4, <1>5

(* A call that goes on with its writer. *)
LEMMA UsingOutcome ==
  ASSUME IInv, IInv', running, running', NEW e, NEW next, Send(e, next), N' = N,
         call' = call, open' = open, pc \notin {"idle", "item_done"},
         e.type \notin {"output_item.added", "output_item.done"},
         view.open, next = "idle" => call.op \notin BeginOps \cup {"close"}, next # "item_done"
  PROVE  SameOutcome
<1>1. pc' = next /\ view'.open = view.open
  BY SendWorked, ViewOpenKept
<1>2. CASE next = "idle"
  BY <1>1, <1>2, IdleAgrees, LastOfCall DEF BeginOps
<1>3. CASE next # "idle"
  BY <1>1, <1>3, MidCall
<1> QED BY <1>2, <1>3

LEMMA ItemsCounted ==
  ASSUME IInv, NEW i, i = N, NEW x, out' = [out EXCEPT ![i] = x]
  PROVE  N' = N
<1>1. out \in Seq(Item)
  BY DEF IInv, TypeOK
<1> QED BY <1>1 DEF N

LEMMA WriterOutcome ==
  ASSUME IInv, IInv', running,
         SendContentPartAdded \/ SendSummaryPartAdded \/ SendSummaryPartDone \/ SendDelta
  PROVE  running' => SameOutcome
<1> SUFFICES ASSUME running'
             PROVE  SameOutcome
  OBVIOUS
<1>1. CASE SendContentPartAdded
  <2>1. view.open /\ call.w = N /\ call.op \in WriteOps
    BY <1>1 DEF SendContentPartAdded, IInv, Agree, Working, Using
  <2>2. PICK e, next : Send(e, next) /\ e.type = "content_part.added" /\ next \in {"idle", "delta"}
    BY <1>1 DEF SendContentPartAdded, Lifecycle!PartEvent
  <2>3. /\ N' = N /\ call' = call /\ open' = open /\ pc = "content_part_added"
    BY <1>1, <2>1, ItemsCounted DEF SendContentPartAdded
  <2> QED BY <2>1, <2>2, <2>3, UsingOutcome DEF WriteOps, BeginOps
<1>2. CASE SendSummaryPartAdded
  <2>1. view.open /\ call.w = N
    BY <1>2 DEF SendSummaryPartAdded, IInv, Agree, Working, Using
  <2>2. PICK e : Send(e, "delta") /\ e.type = "reasoning_summary_part.added"
    BY <1>2 DEF SendSummaryPartAdded, Lifecycle!PartEvent
  <2>3. /\ N' = N /\ call' = call /\ open' = open /\ pc = "summary_part_added"
    BY <1>2, <2>1, ItemsCounted DEF SendSummaryPartAdded
  <2> QED BY <2>1, <2>2, <2>3, UsingOutcome
<1>3. CASE SendSummaryPartDone
  <2> DEFINE next == IF ~out[call.w].closed THEN "idle"
                     ELSE IF out[call.w].text THEN "reasoning_done" ELSE "output_item_done"
  <2>1. view.open /\ call.w = N /\ (Closing \/ Using({"end_summary"}))
    BY <1>3 DEF SendSummaryPartDone, IInv, Agree, AtSummaryEnd, Working
  <2>2. PICK e : Send(e, next) /\ e.type = "reasoning_summary_part.done"
    BY <1>3 DEF SendSummaryPartDone, Lifecycle!PartEvent
  <2>3. /\ N' = N /\ call' = call /\ open' = open /\ pc = "summary_part_done"
    BY <1>3, OutKept DEF SendSummaryPartDone
  <2>4. next = "idle" => call.op \notin BeginOps \cup {"close"}
    BY <2>1 DEF Closing, Using, BeginOps
  <2>5. next # "item_done"
    OBVIOUS
  <2> HIDE DEF next
  <2> QED BY <2>1, <2>2, <2>3, <2>4, <2>5, UsingOutcome
<1>4. CASE SendDelta
  <2>1. view.open /\ call.op \notin BeginOps \cup {"close"}
    BY <1>4 DEF SendDelta, IInv, Agree, AtDelta, BeginOps
  <2>2. DeltaEvent.type \notin {"output_item.added", "output_item.done"}
    BY DEF DeltaEvent, Lifecycle!PartEvent, Lifecycle!InItemEvent
  <2>3. /\ N' = N /\ call' = call /\ open' = open /\ pc = "delta" /\ Send(DeltaEvent, "idle")
    BY <1>4, OutKept DEF SendDelta
  <2> QED BY <2>1, <2>2, <2>3, UsingOutcome
<1> QED BY <1>1, <1>2, <1>3, <1>4

LEMMA ItemDoneOutcome ==
  ASSUME IInv, IInv', running, SendItemDone
  PROVE  running' => SameOutcome
<1> SUFFICES ASSUME running'
             PROVE  SameOutcome
  OBVIOUS
<1>1. /\ call.w = N /\ Closing
  BY DEF SendItemDone, IInv, Agree
<1>2. /\ N' = N /\ call' = call /\ open' = open /\ pc = "output_item_done"
  BY <1>1, ItemsCounted DEF SendItemDone
<1>3. PICK e : Send(e, Target(call.op)) /\ e.type = "output_item.done"
  BY DEF SendItemDone, Lifecycle!ItemEvent
<1>4. pc' = Target(call.op) /\ view' = Lifecycle!Apply(view, e)
  BY <1>3, SendWorked
<1>5. view'.open = FALSE
  BY <1>3, <1>4 DEF Lifecycle!Apply, Lifecycle!IsTerminal, IInv, View
<1>6. CASE pc' = "idle"
  <2>1. ~NeedsClose'
    BY <1>5, <1>6, IdleAgrees
  <2> QED BY <1>1, <1>2, <1>4, <1>6, <2>1, LastOfCall DEF Target, Closing
<1>7. CASE pc' # "idle"
  BY <1>2, <1>4, <1>7, MidCall DEF Target
<1> QED BY <1>6, <1>7

LEMMA ItemAddedOutcome ==
  ASSUME IInv, IInv', running, SendItemAdded
  PROVE  running' => SameOutcome
<1> SUFFICES ASSUME running'
             PROVE  SameOutcome
  OBVIOUS
<1>1. /\ call.op \in {"open", "item"} /\ call' = call /\ pc = "output_item_added"
      /\ out' = Append(out, NewItem(call.kind, call.status))
  BY DEF SendItemAdded, IInv, Agree
<1>2. out \in Seq(Item) /\ N \in Nat
  BY DEF IInv, TypeOK, N
<1>3. N' = N + 1
  BY <1>1, <1>2 DEF N
<1>4. PICK e : /\ Send(e, IF call.op = "item" THEN "item_done" ELSE "idle")
               /\ e.type = "output_item.added"
  BY DEF SendItemAdded, Lifecycle!ItemEvent
<1>5. pc' = (IF call.op = "item" THEN "item_done" ELSE "idle") /\ view' = Lifecycle!Apply(view, e)
  BY <1>4, SendWorked
<1>6. view'.open
  BY <1>4, <1>5 DEF Lifecycle!Apply, Lifecycle!IsTerminal, Lifecycle!EmptyView
<1>7. CASE call.op = "item"
  BY <1>1, <1>2, <1>3, <1>5, <1>7 DEF SameOutcome, Held, ItemsSoon
<1>8. CASE call.op = "open"
  <2>1. open' = N + 1
    BY <1>8 DEF SendItemAdded, NewIndex, N
  <2>2. pc' = "idle" /\ NeedsClose'
    BY <1>5, <1>6, <1>8, IdleAgrees
  <2> QED BY <1>1, <1>2, <1>3, <1>8, <2>1, <2>2 DEF SameOutcome, Held, ItemsSoon
<1> QED BY <1>1, <1>7, <1>8

LEMMA PlainItemDoneOutcome ==
  ASSUME IInv, IInv', running, SendPlainItemDone
  PROVE  running' => SameOutcome
<1> SUFFICES ASSUME running'
             PROVE  SameOutcome
  OBVIOUS
<1>1. /\ call.op = "item" /\ call' = call /\ pc = "item_done" /\ open' = open /\ open = 0
  BY DEF SendPlainItemDone, IInv, Agree, Control, BeginOps
<1>2. N' = N
  BY ItemsCounted DEF SendPlainItemDone, N
<1>3. pc' = "idle"
  BY SendWorked DEF SendPlainItemDone
<1> QED BY <1>1, <1>2, <1>3 DEF SameOutcome, Held, ItemsSoon, NeedsClose

LEMMA TerminalOutcome ==
  ASSUME IInv, IInv', running, SendTerminal
  PROVE  running' => SameOutcome
<1> SUFFICES ASSUME running'
             PROVE  SameOutcome
  OBVIOUS
<1>1. /\ call.op \in {"complete", "incomplete"} /\ call' = call /\ pc = "terminal"
      /\ open' = open /\ open = 0 /\ out' = out
  BY DEF SendTerminal, IInv, Agree, Control, BeginOps
<1>2. N' = N
  BY <1>1, OutKept
<1>3. pc' = "idle"
  BY SendWorked DEF SendTerminal
<1> QED BY <1>1, <1>2, <1>3 DEF SameOutcome, Held, ItemsSoon, NeedsClose

(* An event of a call does not change what the call will have done. *)
LEMMA EventsKeepTheOutcome ==
  ASSUME IInv, IInv', EmitterStep, running'
  PROVE  SameOutcome
<1>1. pc # "idle"
  BY DEF EmitterStep, SendCreated, SendInProgress, SendPartTextDone, SendContentPartDone,
     SendContentPartAdded, SendSummaryTextDone, SendSummaryPartDone, SendSummaryPartAdded,
     SendReasoningDone, SendArgumentsDone, SendDelta, SendItemDone, SendItemAdded,
     SendPlainItemDone, SendTerminal
<1>2. running
  BY <1>1 DEF IInv
<1> QED BY <1>2, InnerOutcome, InProgressOutcome, WriterOutcome, ItemDoneOutcome, ItemAddedOutcome,
           PlainItemDoneOutcome, TerminalOutcome DEF EmitterStep

(* What a call will have done, seen when it is made. *)
LEMMA BeginOutcome ==
  ASSUME IInv, NEW op \in {"open", "item"}, NEW kind, NEW status, Begin(op, kind, status)
  PROVE  Held' = (IF op = "open" THEN N + 1 ELSE 0) /\ ItemsSoon' = N + 1
<1>1. call'.op = op
  BY DEF Begin, BeginClose, Call
<1>2. pc' \notin {"idle", "item_done"}
  BY DEF Begin, BeginClose, CloseEntry, Target
<1>3. N' = N
  <2>1. Marked(op) = out
    BY DEF Marked
  <2>2. CASE NeedsClose
    <3>1. open = N
      BY <2>2 DEF NeedsClose, Begin, IInv, Control
    <3> QED BY <2>1, <2>2, <3>1, ItemsCounted DEF Begin, BeginClose, Shut
  <2>3. CASE ~NeedsClose
    BY <2>1, <2>3, OutKept DEF Begin
  <2> QED BY <2>2, <2>3
<1> QED BY <1>1, <1>2, <1>3 DEF Held, ItemsSoon

LEMMA WriteOutcome ==
  ASSUME IInv, NEW w \in 1..Len(out), w = N,
         \/ Text(w) \/ Annotation(w) \/ Logprobs(w) \/ Refusal(w)
         \/ Arguments(w) \/ Summary(w) \/ ReasoningText(w)
  PROVE  Held' = open /\ ItemsSoon' = N
<1>1. /\ call'.op \in WriterOps /\ open' = open
      /\ pc' \in {"delta", "content_part_added", "part_text_done", "summary_part_added"}
  BY DEF Text, Annotation, Logprobs, Refusal, Write, Arguments, Summary, ReasoningText, Call, WriterOps
<1>2. N' = N
  BY ItemsCounted, OutKept DEF Text, Annotation, Logprobs, Refusal, Write, Arguments, Summary, ReasoningText
<1> QED BY <1>1, <1>2 DEF Held, ItemsSoon, WriterOps

LEMMA CloseOutcome ==
  ASSUME IInv, NEW w \in 1..Len(out), w = N, CloseWriter(w)
  PROVE  Held' = 0 /\ ItemsSoon' = N
<1>1. call'.op = "close" /\ pc' \notin {"idle", "item_done"}
  BY DEF CloseWriter, Call, CloseEntry
<1>2. N' = N
  BY ItemsCounted DEF CloseWriter, Shut
<1> QED BY <1>1, <1>2 DEF Held, ItemsSoon

-----------------------------------------------------------------------------
(***************************************************************************)
(* What a decoder has planned.  `h` and `n` are the open item and the      *)
(* number of items before its first planned call; a planned call names its *)
(* item by place.                                                          *)
(***************************************************************************)
Adds == WriterKinds \cup {"extension"}
Ends == {"complete", "incomplete", "return", "fail"}
PlannedCall == [op: DecoderOps, w: Nat]

(* A call is due on what is open: it adds the next item, or works on the open, last one. *)
DueOn(o, h, n) ==
  /\ o.op \in Adds => o.w = n + 1
  /\ o.op \in WriterOps \cup {"close"} => o.w = n /\ h = n /\ n # 0

LeavesOpen(o) == IF o.op \in WriterKinds \cup WriterOps THEN o.w ELSE 0

(* After the end of the response the decoder returns, and then nothing follows. *)
Follows(o, p) ==
  IF o.op \in Ends THEN o.op \in {"complete", "incomplete"} /\ p.op = "return"
  ELSE DueOn(p, LeavesOpen(o), o.w)

Planned(todo, h, n) ==
  /\ todo \in Seq(PlannedCall)
  /\ todo # <<>> => DueOn(todo[1], h, n)
  /\ \A j \in 1..Len(todo) - 1 : Follows(todo[j], todo[j + 1])

Final(todo) == todo[Len(todo)]
HeldThen(todo, h)  == IF todo = <<>> THEN h ELSE LeavesOpen(Final(todo))
ItemsThen(todo, n) == IF todo = <<>> THEN n ELSE Final(todo).w
EndsOpen(todo)     == todo # <<>> => Final(todo).op \notin Ends

(* Of the calls that end the response none but op is planned. *)
EndsOnlyBy(todo, op) ==
  \A j \in 1..Len(todo) : todo[j].op \in {"complete", "incomplete"} => todo[j].op = op

(* Where Incomplete is planned, an item is open to be marked. *)
Marks(todo, h) ==
  \A j \in 1..Len(todo) :
    todo[j].op = "incomplete" => (IF j = 1 THEN h ELSE LeavesOpen(todo[j - 1])) # 0

LEMMA AppendedPlan ==
  ASSUME NEW todo \in Seq(PlannedCall), NEW o \in PlannedCall
  PROVE  /\ Append(todo, o) \in Seq(PlannedCall) /\ Append(todo, o) # <<>>
         /\ Len(Append(todo, o)) = Len(todo) + 1
         /\ Final(Append(todo, o)) = o
         /\ Len(todo) \in Nat
         /\ \A j \in 1..Len(todo) : Append(todo, o)[j] = todo[j]
BY DEF Final

LEMMA PlanMore ==
  ASSUME NEW todo, NEW h, NEW n, Planned(todo, h, n), NEW o \in PlannedCall,
         IF todo = <<>> THEN DueOn(o, h, n) ELSE Follows(Final(todo), o)
  PROVE  Planned(Append(todo, o), h, n)
<1>1. todo \in Seq(PlannedCall)
  BY DEF Planned
<1> DEFINE t == Append(todo, o)
<1>2. /\ t \in Seq(PlannedCall) /\ t # <<>> /\ Len(t) = Len(todo) + 1 /\ t[Len(t)] = o
      /\ Len(todo) \in Nat /\ \A j \in 1..Len(todo) : t[j] = todo[j]
  BY <1>1, AppendedPlan DEF Final
<1> HIDE DEF t
<1>3. CASE todo = <<>>
  <2>1. Len(todo) = 0
    BY <1>3
  <2> QED BY <1>2, <1>3, <2>1 DEF Planned, t
<1>4. CASE todo # <<>>
  <2>1. Len(todo) > 0
    BY <1>1, <1>4
  <2>2. DueOn(t[1], h, n)
    BY <1>2, <1>4, <2>1 DEF Planned
  <2>3. ASSUME NEW j \in 1..Len(t) - 1
        PROVE  Follows(t[j], t[j + 1])
    <3>1. CASE j = Len(todo)
      BY <1>2, <1>4, <2>1, <3>1 DEF Final
    <3>2. CASE j # Len(todo)
      <4>1. j \in 1..Len(todo) - 1 /\ j + 1 \in 1..Len(todo) /\ j \in 1..Len(todo)
        BY <1>2, <3>2
      <4> QED BY <1>2, <4>1 DEF Planned
    <3> QED BY <3>1, <3>2
  <2> QED BY <1>2, <2>2, <2>3 DEF Planned, t
<1> QED BY <1>3, <1>4

LEMMA PlanTail ==
  ASSUME NEW todo, NEW h, NEW n, Planned(todo, h, n), todo # <<>>
  PROVE  /\ todo[1] \in PlannedCall /\ todo[1] = Head(todo) /\ DueOn(todo[1], h, n)
         /\ todo[1].op \notin Ends => Planned(Tail(todo), LeavesOpen(todo[1]), todo[1].w)
         /\ todo[1].op \in Ends => \/ Tail(todo) = <<>>
                                   \/ Len(Tail(todo)) = 1 /\ Tail(todo)[1].op = "return"
<1> DEFINE t == Tail(todo)
<1>1. /\ todo \in Seq(PlannedCall) /\ Len(todo) \in Nat /\ Len(todo) > 0
      /\ t \in Seq(PlannedCall) /\ Len(t) = Len(todo) - 1
      /\ \A j \in 1..Len(t) : t[j] = todo[j + 1]
  BY DEF Planned
<1> HIDE DEF t
<1>2. todo[1] \in PlannedCall /\ todo[1] = Head(todo) /\ DueOn(todo[1], h, n)
  BY <1>1 DEF Planned
<1>3. t # <<>> => Len(t) > 0 /\ t[1] = todo[2] /\ Follows(todo[1], t[1])
  <2> SUFFICES ASSUME t # <<>>
               PROVE  Len(t) > 0 /\ t[1] = todo[2] /\ Follows(todo[1], t[1])
    OBVIOUS
  <2>1. Len(t) > 0
    BY <1>1
  <2>2. 1 \in 1..Len(todo) - 1 /\ 1 \in 1..Len(t)
    BY <1>1, <2>1
  <2>3. t[1] = todo[1 + 1]
    BY <1>1, <2>2
  <2>4. Follows(todo[1], todo[1 + 1])
    BY <2>2 DEF Planned
  <2> QED BY <2>1, <2>3, <2>4
<1>4. \A j \in 1..Len(t) - 1 : Follows(t[j], t[j + 1])
  <2> SUFFICES ASSUME NEW j \in 1..Len(t) - 1
               PROVE  Follows(t[j], t[j + 1])
    OBVIOUS
  <2>1. j \in 1..Len(t) /\ j + 1 \in 1..Len(t) /\ j + 1 \in 1..Len(todo) - 1
    BY <1>1
  <2>2. t[j] = todo[j + 1] /\ t[j + 1] = todo[j + 1 + 1]
    BY <1>1, <2>1
  <2> QED BY <2>1, <2>2 DEF Planned
<1>5. todo[1].op \notin Ends => Planned(t, LeavesOpen(todo[1]), todo[1].w)
  BY <1>1, <1>3, <1>4 DEF Planned, Follows
<1>6. todo[1].op \in Ends => t = <<>> \/ (Len(t) = 1 /\ t[1].op = "return")
  <2> SUFFICES ASSUME todo[1].op \in Ends, t # <<>>
               PROVE  Len(t) = 1 /\ t[1].op = "return"
    OBVIOUS
  <2>1. Len(t) > 0 /\ t[1].op = "return"
    BY <1>3 DEF Follows
  <2>2. CASE Len(t) > 1
    <3>1. 1 \in 1..Len(t) - 1
      BY <1>1, <2>2
    <3>2. Follows(t[1], t[1 + 1])
      BY <1>4, <3>1
    <3> QED BY <2>1, <3>2 DEF Follows, Ends
  <2> QED BY <1>1, <2>1, <2>2
<1> QED BY <1>2, <1>5, <1>6 DEF t

(* Only the last two calls end the response or the decoder. *)
LEMMA EndsLast ==
  ASSUME NEW todo, NEW h, NEW n, Planned(todo, h, n), EndsOpen(todo), NEW j \in 1..Len(todo)
  PROVE  todo[j].op \notin Ends
<1>1. todo \in Seq(PlannedCall) /\ Len(todo) \in Nat
  BY DEF Planned
<1>2. Final(todo) = todo[Len(todo)] /\ todo # <<>>
  BY <1>1 DEF Final
<1>3. CASE j = Len(todo)
  BY <1>2, <1>3 DEF EndsOpen
<1>4. CASE j # Len(todo)
  <2>1. j \in 1..Len(todo) - 1
    BY <1>1, <1>4
  <2>2. Follows(todo[j], todo[j + 1])
    BY <2>1 DEF Planned
  <2>3. CASE todo[j].op \in Ends
    <3>1. todo[j + 1].op = "return"
      BY <2>2, <2>3 DEF Follows
    <3>2. CASE j + 1 = Len(todo)
      BY <1>2, <3>1, <3>2 DEF EndsOpen, Ends
    <3>3. CASE j + 1 # Len(todo)
      <4>1. j + 1 \in 1..Len(todo) - 1
        BY <1>1, <2>1, <3>3
      <4>2. Follows(todo[j + 1], todo[j + 1 + 1])
        BY <4>1 DEF Planned
      <4> QED BY <3>1, <4>2 DEF Follows, Ends
    <3> QED BY <3>2, <3>3
  <2> QED BY <2>3
<1> QED BY <1>3, <1>4

-----------------------------------------------------------------------------
(* The state of a decoder, its buffers and its writers. *)
Fields == {"msg", "reasoning", "call", "items", "todo", "stop", "err", "index", "buffered", "raw",
           "cites", "wrote", "turn", "turnStart", "replay"}
Pieces   == Seq([k: WriterOps \cup {"raw"}, n: Nat])
Contents == [type: Adds, said: Pieces, sig: Seq(Nat)]

OneWriter(s) ==
  /\ s.msg \in Nat /\ s.reasoning \in Nat /\ s.call \in Nat
  /\ s.msg # 0 => s.reasoning = 0 /\ s.call = 0
  /\ s.reasoning # 0 => s.call = 0

(* The item of the writer the decoder holds, 0 for none. *)
HeldBy(s) == IF s.msg # 0 THEN s.msg ELSE IF s.reasoning # 0 THEN s.reasoning ELSE s.call

Typed(s) ==
  /\ DOMAIN s = Fields
  /\ s.todo \in Seq(PlannedCall) /\ s.items \in Seq(Contents)
  /\ s.buffered \in Pieces /\ s.raw \in Pieces /\ s.cites \in Nat
  /\ \A j \in 1..Len(s.todo) : s.todo[j].w <= Len(s.items)
  /\ OneWriter(s)

(* The decoder goes on: it holds the writer that its planned calls leave open. *)
Sound(s, h, n) ==
  /\ Typed(s) /\ Planned(s.todo, h, n) /\ EndsOpen(s.todo)
  /\ Len(s.items) = ItemsThen(s.todo, n)
  /\ HeldThen(s.todo, h) = HeldBy(s) /\ HeldBy(s) \in {0, Len(s.items)}

(* The decoder is done. *)
Finished(s, h, n) ==
  /\ Typed(s) /\ Planned(s.todo, h, n)
  /\ s.todo # <<>> /\ Final(s.todo).op \in {"return", "fail"}

(* All but some fields are kept. *)
Keeps(s, t, fs) == DOMAIN t = Fields /\ \A f \in Fields \ fs : t[f] = s[f]

LEMMA Basic ==
  ASSUME NEW s, Typed(s)
  PROVE  Len(s.items) \in Nat /\ Len(s.todo) \in Nat /\ HeldBy(s) \in Nat
BY DEF Typed, OneWriter, HeldBy

(* A piece of this frame. *)
LEMMA PieceTyped ==
  ASSUME Len(heard) \in Nat, NEW k \in WriterOps \cup {"raw"}
  PROVE  Piece(k, Now) \in [k: WriterOps \cup {"raw"}, n: Nat] /\ Now \in Nat
BY DEF Piece, Now

LEMMA DoKeeps ==
  ASSUME NEW s, DOMAIN s = Fields, NEW op, NEW w, NEW t, t = Do(s, op, w)
  PROVE  Keeps(s, t, {"todo"}) /\ t.todo = Append(s.todo, [op |-> op, w |-> w])
<1>1. DOMAIN t = Fields /\ t.todo = Append(s.todo, [op |-> op, w |-> w])
  BY DEF Do, Fields
<1>2. \A f \in Fields \ {"todo"} : t[f] = s[f]
  BY DEF Do
<1> QED BY <1>1, <1>2 DEF Keeps

LEMMA KeptFields ==
  ASSUME NEW s, NEW t, NEW fs, Keeps(s, t, fs)
  PROVE  /\ DOMAIN t = Fields
         /\ "msg" \notin fs => t.msg = s.msg
         /\ "reasoning" \notin fs => t.reasoning = s.reasoning
         /\ "call" \notin fs => t.call = s.call
         /\ "items" \notin fs => t.items = s.items
         /\ "todo" \notin fs => t.todo = s.todo
         /\ "buffered" \notin fs => t.buffered = s.buffered
         /\ "raw" \notin fs => t.raw = s.raw
         /\ "cites" \notin fs => t.cites = s.cites
         /\ "stop" \notin fs => t.stop = s.stop
         /\ "index" \notin fs => t.index = s.index
         /\ "err" \notin fs => t.err = s.err
BY DEF Keeps, Fields

(* Nothing is planned; the data changes. *)
LEMMA SoundKept ==
  ASSUME NEW s, NEW h, NEW n, Sound(s, h, n), NEW t, Typed(t),
         t.todo = s.todo, Len(t.items) = Len(s.items), HeldBy(t) = HeldBy(s)
  PROVE  Sound(t, h, n)
BY DEF Sound

(* One more call is planned. *)
LEMMA SoundMore ==
  ASSUME NEW s, NEW h, NEW n, Sound(s, h, n), NEW t, Typed(t), NEW o \in PlannedCall,
         t.todo = Append(s.todo, o), o.op \notin Ends, DueOn(o, HeldBy(s), Len(s.items)),
         o.w = Len(t.items), LeavesOpen(o) = HeldBy(t)
  PROVE  Sound(t, h, n)
<1>1. s.todo \in Seq(PlannedCall)
  BY DEF Sound, Typed
<1>2. /\ t.todo # <<>> /\ Final(t.todo) = o
  BY <1>1, AppendedPlan
<1>3. IF s.todo = <<>> THEN DueOn(o, h, n) ELSE Follows(Final(s.todo), o)
  <2>1. CASE s.todo = <<>>
    BY <2>1 DEF Sound, HeldThen, ItemsThen
  <2>2. CASE s.todo # <<>>
    BY <2>2 DEF Sound, HeldThen, ItemsThen, EndsOpen, Follows
  <2> QED BY <2>1, <2>2
<1>4. Planned(t.todo, h, n)
  BY <1>3, PlanMore DEF Sound
<1>5. EndsOpen(t.todo)
  BY <1>2 DEF EndsOpen
<1>6. Len(t.items) = ItemsThen(t.todo, n) /\ HeldThen(t.todo, h) = HeldBy(t)
  BY <1>2 DEF ItemsThen, HeldThen
<1>7. HeldBy(t) \in {0, Len(t.items)}
  BY DEF LeavesOpen
<1> QED BY <1>4, <1>5, <1>6, <1>7 DEF Sound

LEMMA TypedMore ==
  ASSUME NEW s, Typed(s), NEW t, DOMAIN t = Fields, NEW o \in PlannedCall,
         t.todo = Append(s.todo, o), t.items \in Seq(Contents), Len(s.items) <= Len(t.items),
         o.w <= Len(t.items), t.buffered \in Pieces, t.raw \in Pieces, t.cites \in Nat, OneWriter(t)
  PROVE  Typed(t)
<1>1. s.todo \in Seq(PlannedCall)
  BY DEF Typed
<1>2. /\ t.todo \in Seq(PlannedCall) /\ Len(t.todo) = Len(s.todo) + 1 /\ Len(s.todo) \in Nat
      /\ t.todo[Len(t.todo)] = o /\ \A j \in 1..Len(s.todo) : t.todo[j] = s.todo[j]
  BY <1>1, AppendedPlan DEF Final
<1>3. ASSUME NEW j \in 1..Len(t.todo)
      PROVE  t.todo[j].w <= Len(t.items)
  <2>1. CASE j = Len(t.todo)
    BY <1>2, <2>1
  <2>2. CASE j # Len(t.todo)
    <3>1. j \in 1..Len(s.todo)
      BY <1>2, <2>2
    <3>2. s.todo[j].w <= Len(s.items) /\ s.todo[j].w \in Nat /\ t.todo[j] = s.todo[j]
      <4>1. s.todo[j] \in PlannedCall
        BY <1>1, <3>1, ElementOfSeq
      <4> QED BY <1>2, <3>1, <4>1 DEF Typed, PlannedCall
    <3>3. Len(s.items) \in Nat /\ Len(t.items) \in Nat
      BY Basic
    <3> QED BY <3>2, <3>3
  <2> QED BY <2>1, <2>2
<1> QED BY <1>2, <1>3 DEF Typed

(* A call on the writer that is held. *)
LEMMA SoundWrite ==
  ASSUME NEW s, NEW h, NEW n, Sound(s, h, n), NEW op \in WriterOps, NEW w, w = HeldBy(s), w # 0
  PROVE  /\ Sound(Do(s, op, w), h, n) /\ Keeps(s, Do(s, op, w), {"todo"})
         /\ HeldBy(Do(s, op, w)) = w
<1> DEFINE o == [op |-> op, w |-> w]
<1>1. Typed(s) /\ DOMAIN s = Fields /\ w = Len(s.items) /\ Len(s.items) \in Nat
  BY Basic DEF Sound, Typed
<1>2. /\ o \in PlannedCall /\ o.op \notin Ends /\ DueOn(o, HeldBy(s), Len(s.items))
      /\ LeavesOpen(o) = w
  BY <1>1 DEF PlannedCall, DecoderOps, WriterOps, WriterKinds, Ends, DueOn, Adds, LeavesOpen
<1> PICK t : t = Do(s, op, w)
  OBVIOUS
<1>3. Keeps(s, t, {"todo"}) /\ t.todo = Append(s.todo, o)
  BY <1>1, DoKeeps
<1>4. /\ t.msg = s.msg /\ t.reasoning = s.reasoning /\ t.call = s.call /\ t.items = s.items
      /\ t.buffered = s.buffered /\ t.raw = s.raw /\ t.cites = s.cites /\ DOMAIN t = Fields
  BY <1>3, KeptFields
<1>5. OneWriter(t) /\ HeldBy(t) = w
  BY <1>1, <1>4 DEF Typed, OneWriter, HeldBy
<1>6. Typed(t)
  <2>1. t.items \in Seq(Contents) /\ t.buffered \in Pieces /\ t.raw \in Pieces /\ t.cites \in Nat
    BY <1>1, <1>4 DEF Typed
  <2>2. o.w <= Len(t.items) /\ Len(s.items) <= Len(t.items)
    BY <1>1, <1>4
  <2> HIDE DEF o
  <2> QED BY <1>1, <1>2, <1>3, <1>4, <1>5, <2>1, <2>2, TypedMore
<1> QED BY <1>1, <1>2, <1>3, <1>4, <1>5, <1>6, SoundMore

(* The open item is closed; its writer is given up. *)
LEMMA SoundClose ==
  ASSUME NEW s, NEW h, NEW n, Sound(s, h, n), HeldBy(s) # 0,
         NEW t, DOMAIN t = Fields, t.todo = Append(s.todo, [op |-> "close", w |-> HeldBy(s)]),
         t.msg = 0, t.reasoning = 0, t.call = 0, t.items = s.items,
         t.buffered \in Pieces, t.raw \in Pieces, t.cites \in Nat
  PROVE  Sound(t, h, n) /\ HeldBy(t) = 0
<1> PICK o : o = [op |-> "close", w |-> HeldBy(s)]
  OBVIOUS
<1>1. Typed(s) /\ HeldBy(s) = Len(s.items) /\ Len(s.items) \in Nat
  BY Basic DEF Sound
<1>2. /\ o \in PlannedCall /\ o.op \notin Ends /\ DueOn(o, HeldBy(s), Len(s.items))
      /\ LeavesOpen(o) = 0 /\ o.w = Len(s.items)
  BY <1>1 DEF PlannedCall, DecoderOps, Ends, DueOn, Adds, LeavesOpen, WriterKinds, WriterOps
<1>3. HeldBy(t) = 0 /\ OneWriter(t)
  BY DEF HeldBy, OneWriter
<1>4. Typed(t)
  BY <1>1, <1>2, <1>3, TypedMore DEF Typed
<1> QED BY <1>1, <1>2, <1>3, <1>4, SoundMore

(* The next item is opened, or added whole, when none is open. *)
LEMMA SoundOpens ==
  ASSUME NEW s, NEW h, NEW n, Sound(s, h, n), HeldBy(s) = 0, NEW type \in Adds,
         NEW t, DOMAIN t = Fields, t.todo = Append(s.todo, [op |-> type, w |-> Len(s.items) + 1]),
         t.items \in Seq(Contents), Len(t.items) = Len(s.items) + 1, OneWriter(t),
         HeldBy(t) = (IF type = "extension" THEN 0 ELSE Len(t.items)),
         t.buffered \in Pieces, t.raw \in Pieces, t.cites \in Nat
  PROVE  Sound(t, h, n)
<1> PICK o : o = [op |-> type, w |-> Len(s.items) + 1]
  OBVIOUS
<1>1. Typed(s) /\ Len(s.items) \in Nat
  BY Basic DEF Sound
<1>2. /\ o \in PlannedCall /\ o.op \notin Ends /\ DueOn(o, HeldBy(s), Len(s.items))
      /\ LeavesOpen(o) = HeldBy(t) /\ o.w = Len(t.items)
  BY <1>1 DEF PlannedCall, DecoderOps, Ends, DueOn, Adds, LeavesOpen, WriterKinds, WriterOps
<1>3. Typed(t)
  <2>1. o.w <= Len(t.items) /\ Len(s.items) <= Len(t.items)
    BY <1>1, <1>2
  <2> QED BY <1>1, <1>2, <2>1, TypedMore
<1> QED BY <1>1, <1>2, <1>3, SoundMore

-----------------------------------------------------------------------------
(* The same items, with other content. *)
Refilled(a, b) ==
  /\ b \in Seq(Contents) /\ Len(b) = Len(a)
  /\ \A i \in 1..Len(a) : b[i].type = a[i].type

(* The same items and one more. *)
Longer(a, b, type) ==
  /\ b \in Seq(Contents) /\ Len(b) = Len(a) + 1 /\ b[Len(b)].type = type
  /\ \A i \in 1..Len(a) : b[i].type = a[i].type

LEMMA Refill ==
  ASSUME NEW a \in Seq(Contents), NEW w \in 1..Len(a), NEW c \in Contents, c.type = a[w].type
  PROVE  Refilled(a, [a EXCEPT ![w] = c])
<1> PICK b : b = [a EXCEPT ![w] = c]
  OBVIOUS
<1>1. b \in Seq(Contents) /\ Len(b) = Len(a) /\ DOMAIN a = 1..Len(a)
  BY ExceptSeq
<1>2. \A i \in 1..Len(a) : b[i] = IF i = w THEN c ELSE a[i]
  BY <1>1
<1> QED BY <1>1, <1>2 DEF Refilled

LEMMA Lengthen ==
  ASSUME NEW a \in Seq(Contents), NEW c \in Contents
  PROVE  Longer(a, Append(a, c), c.type)
<1> PICK b : b = Append(a, c)
  OBVIOUS
<1>1. /\ b \in Seq(Contents) /\ Len(b) = Len(a) + 1 /\ Len(a) \in Nat
      /\ b[Len(a) + 1] = c /\ \A i \in 1..Len(a) : b[i] = a[i]
  BY AppendProperties
<1> QED BY <1>1 DEF Longer

LEMMA LongerRefilled ==
  ASSUME NEW a \in Seq(Contents), NEW b, NEW c, NEW type, Longer(a, b, type), Refilled(b, c)
  PROVE  Longer(a, c, type)
<1>1. Len(a) \in Nat /\ Len(b) = Len(a) + 1 /\ Len(c) = Len(b) /\ c \in Seq(Contents)
  BY DEF Longer, Refilled
<1>2. \A i \in 1..Len(a) : i \in 1..Len(b)
  BY <1>1
<1>3. Len(c) \in 1..Len(b)
  BY <1>1
<1> QED BY <1>1, <1>2, <1>3 DEF Longer, Refilled

LEMMA ContentTyped ==
  ASSUME NEW type \in Adds
  PROVE  Content(type) \in Contents /\ Content(type).type = type
BY DEF Content, Contents, Pieces

-----------------------------------------------------------------------------
(* What an item says, or its signature, changes. *)
PutSaid(s, w, x) == [s EXCEPT !.items[w].said = x]
PutSig(s, w, x)  == [s EXCEPT !.items[w].sig = x]

LEMMA SaidChanges ==
  ASSUME NEW s, Typed(s), NEW w \in 1..Len(s.items), NEW x \in Pieces,
         NEW t, t = PutSaid(s, w, x)
  PROVE  Keeps(s, t, {"items"}) /\ Refilled(s.items, t.items)
<1>1. s.items \in Seq(Contents) /\ DOMAIN s = Fields
  BY DEF Typed
<1>2. s.items[w] \in Contents
  BY <1>1, ElementOfSeq
<1> PICK c : c = [s.items[w] EXCEPT !.said = x]
  OBVIOUS
<1>3. c \in Contents /\ c.type = s.items[w].type
  BY <1>2 DEF Contents
<1>4. t = [s EXCEPT !.items = [s.items EXCEPT ![w] = c]]
  BY DEF PutSaid
<1>5. t.items = [s.items EXCEPT ![w] = c] /\ DOMAIN t = Fields
  BY <1>1, <1>4 DEF Fields
<1>6. \A f \in Fields \ {"items"} : t[f] = s[f]
  BY <1>1, <1>4
<1>7. Refilled(s.items, [s.items EXCEPT ![w] = c])
  BY <1>1, <1>3, Refill
<1> QED BY <1>5, <1>6, <1>7 DEF Keeps

LEMMA SigChanges ==
  ASSUME NEW s, Typed(s), NEW w \in 1..Len(s.items), NEW x \in Seq(Nat),
         NEW t, t = PutSig(s, w, x)
  PROVE  Keeps(s, t, {"items"}) /\ Refilled(s.items, t.items)
<1>1. s.items \in Seq(Contents) /\ DOMAIN s = Fields
  BY DEF Typed
<1>2. s.items[w] \in Contents
  BY <1>1, ElementOfSeq
<1> PICK c : c = [s.items[w] EXCEPT !.sig = x]
  OBVIOUS
<1>3. c \in Contents /\ c.type = s.items[w].type
  BY <1>2 DEF Contents
<1>4. t = [s EXCEPT !.items = [s.items EXCEPT ![w] = c]]
  BY DEF PutSig
<1>5. t.items = [s.items EXCEPT ![w] = c] /\ DOMAIN t = Fields
  BY <1>1, <1>4 DEF Fields
<1>6. \A f \in Fields \ {"items"} : t[f] = s[f]
  BY <1>1, <1>4
<1>7. Refilled(s.items, [s.items EXCEPT ![w] = c])
  BY <1>1, <1>3, Refill
<1> QED BY <1>5, <1>6, <1>7 DEF Keeps

LEMMA Writers ==
  ASSUME NEW s, NEW t, t.msg = s.msg, t.reasoning = s.reasoning, t.call = s.call
  PROVE  HeldBy(t) = HeldBy(s) /\ (OneWriter(s) => OneWriter(t))
BY DEF HeldBy, OneWriter

LEMMA TypedRefilled ==
  ASSUME NEW s, Typed(s), NEW t, Keeps(s, t, {"items"}), Refilled(s.items, t.items)
  PROVE  Typed(t) /\ HeldBy(t) = HeldBy(s)
<1>1. /\ t.msg = s.msg /\ t.reasoning = s.reasoning /\ t.call = s.call /\ t.todo = s.todo
      /\ t.buffered = s.buffered /\ t.raw = s.raw /\ t.cites = s.cites /\ DOMAIN t = Fields
  BY KeptFields
<1>2. t.items \in Seq(Contents) /\ Len(t.items) = Len(s.items)
  BY DEF Refilled
<1> QED BY <1>1, <1>2, Writers DEF Typed

LEMMA SoundRefilled ==
  ASSUME NEW s, NEW h, NEW n, Sound(s, h, n), NEW t, Keeps(s, t, {"items"}), Refilled(s.items, t.items)
  PROVE  Sound(t, h, n) /\ HeldBy(t) = HeldBy(s)
<1>1. Typed(t) /\ HeldBy(t) = HeldBy(s)
  BY TypedRefilled DEF Sound
<1>2. t.todo = s.todo /\ Len(t.items) = Len(s.items)
  BY KeptFields DEF Refilled
<1> QED BY <1>1, <1>2, SoundKept

LEMMA KeepsTwice ==
  ASSUME NEW s, NEW t, NEW u, NEW fs, NEW gs, NEW hs, fs \cup gs \subseteq hs,
         Keeps(s, t, fs), Keeps(t, u, gs)
  PROVE  Keeps(s, u, hs)
BY DEF Keeps

-----------------------------------------------------------------------------
(* A piece of this frame is said on the writer that is held. *)
LEMMA SaysSound ==
  ASSUME NEW s, NEW h, NEW n, Sound(s, h, n), Len(heard) \in Nat,
         NEW op \in WriterOps, NEW w, w = HeldBy(s), w # 0
  PROVE  /\ Sound(Says(s, op, w), h, n) /\ HeldBy(Says(s, op, w)) = w
         /\ Keeps(s, Says(s, op, w), {"todo", "items"})
         /\ Refilled(s.items, Says(s, op, w).items)
<1>1. ASSUME NEW t, t = Do(s, op, w)
      PROVE  /\ Sound(t, h, n) /\ Keeps(s, t, {"todo"}) /\ HeldBy(t) = w
             /\ Typed(t) /\ w \in 1..Len(t.items) /\ t.items = s.items
  <2>1. Sound(t, h, n) /\ Keeps(s, t, {"todo"}) /\ HeldBy(t) = w
    BY <1>1, SoundWrite
  <2>2. Typed(t) /\ w = Len(t.items) /\ Len(t.items) \in Nat
    BY <2>1, Basic DEF Sound
  <2>3. t.items = s.items
    BY <2>1, KeptFields
  <2> QED BY <2>1, <2>2, <2>3
<1>2. ASSUME NEW t, Typed(t), w \in 1..Len(t.items)
      PROVE  Append(t.items[w].said, Piece(op, Now)) \in Pieces
  <2>1. t.items \in Seq(Contents)
    BY <1>2 DEF Typed
  <2>2. t.items[w] \in Contents
    BY <1>2, <2>1, ElementOfSeq
  <2>3. t.items[w].said \in Pieces
    BY <2>2 DEF Contents
  <2> QED BY <2>3, PieceTyped, AppendProperties DEF Pieces
<1>3. ASSUME NEW t, t = Do(s, op, w), NEW x, x = Append(t.items[w].said, Piece(op, Now)),
             NEW u, u = PutSaid(t, w, x)
      PROVE  /\ Sound(u, h, n) /\ HeldBy(u) = w /\ Keeps(s, u, {"todo", "items"})
             /\ Refilled(s.items, u.items)
  <2>1. /\ Sound(t, h, n) /\ Keeps(s, t, {"todo"}) /\ HeldBy(t) = w
        /\ Typed(t) /\ w \in 1..Len(t.items) /\ t.items = s.items
    BY <1>1, <1>3
  <2>2. x \in Pieces
    BY <1>2, <1>3, <2>1
  <2>3. Keeps(t, u, {"items"}) /\ Refilled(t.items, u.items)
    BY <1>3, <2>1, <2>2, SaidChanges
  <2>4. Sound(u, h, n) /\ HeldBy(u) = w
    BY <2>1, <2>3, SoundRefilled
  <2>5. Keeps(s, u, {"todo", "items"})
    BY <2>1, <2>3, KeepsTwice
  <2> QED BY <2>1, <2>3, <2>4, <2>5
<1> DEFINE t == Do(s, op, w)
           x == Append(t.items[w].said, Piece(op, Now))
           u == Says(s, op, w)
<1>4. u = PutSaid(t, w, x)
  BY DEF Says, PutSaid
<1>5. t = Do(s, op, w) /\ x = Append(t.items[w].said, Piece(op, Now)) /\ u = Says(s, op, w)
  OBVIOUS
<1> HIDE DEF t, x, u
<1>6. /\ Sound(u, h, n) /\ HeldBy(u) = w /\ Keeps(s, u, {"todo", "items"})
      /\ Refilled(s.items, u.items)
  BY <1>3, <1>4, <1>5
<1> QED BY <1>5, <1>6

(* A writer is given up and its item closed. *)
WriterFields == {"msg", "reasoning", "call", "cites", "todo"}

LEMMA GivesUp ==
  ASSUME NEW s, NEW h, NEW n, Sound(s, h, n), NEW w, w = HeldBy(s), w # 0,
         NEW fs, fs \subseteq {"msg", "reasoning", "call", "cites", "index"},
         NEW r, Keeps(s, r, fs),
         r.msg = 0, r.reasoning = 0, r.call = 0, r.cites \in Nat,
         NEW t, t = Do(r, "close", w)
  PROVE  /\ Sound(t, h, n) /\ HeldBy(t) = 0 /\ t.msg = 0 /\ t.reasoning = 0 /\ t.call = 0
         /\ t.cites = r.cites /\ Keeps(s, t, fs \cup {"todo"})
<1>1. Typed(s)
  BY DEF Sound
<1>2. /\ DOMAIN r = Fields /\ r.todo = s.todo /\ r.items = s.items
      /\ r.buffered = s.buffered /\ r.raw = s.raw
  BY KeptFields
<1>3. Keeps(r, t, {"todo"}) /\ t.todo = Append(r.todo, [op |-> "close", w |-> w])
  BY <1>2, DoKeeps
<1>4. /\ DOMAIN t = Fields /\ t.msg = r.msg /\ t.reasoning = r.reasoning /\ t.call = r.call
      /\ t.cites = r.cites /\ t.items = r.items /\ t.buffered = r.buffered /\ t.raw = r.raw
  BY <1>3, KeptFields
<1>5. t.buffered \in Pieces /\ t.raw \in Pieces
  BY <1>1, <1>2, <1>4 DEF Typed
<1>6. t.todo = Append(s.todo, [op |-> "close", w |-> HeldBy(s)])
  BY <1>2, <1>3
<1>7. Sound(t, h, n) /\ HeldBy(t) = 0
  BY <1>2, <1>4, <1>5, <1>6, SoundClose
<1>8. Keeps(s, t, fs \cup {"todo"})
  BY <1>3, KeepsTwice
<1> QED BY <1>4, <1>7, <1>8

(* closeOpen *)
Closed(s, t) ==
  /\ HeldBy(t) = 0 /\ t.msg = 0 /\ t.reasoning = 0 /\ t.call = 0
  /\ t.cites = (IF s.msg # 0 THEN 0 ELSE s.cites)
  /\ Keeps(s, t, WriterFields)

LEMMA CloseOpenSound ==
  ASSUME NEW s, NEW h, NEW n, Sound(s, h, n)
  PROVE  Sound(CloseOpen(s), h, n) /\ Closed(s, CloseOpen(s))
<1>1. DOMAIN s = Fields /\ OneWriter(s) /\ s.cites \in Nat
  BY DEF Sound, Typed
<1> DEFINE fs == {"msg", "reasoning", "call", "cites"}
<1>0. fs \subseteq {"msg", "reasoning", "call", "cites", "index"} /\ WriterFields = fs \cup {"todo"}
  BY DEF WriterFields
<1>2. CASE HeldBy(s) = 0
  <2>1. s.msg = 0 /\ s.reasoning = 0 /\ s.call = 0
    BY <1>2 DEF HeldBy
  <2>2. CloseOpen(s) = s
    BY <2>1 DEF CloseOpen
  <2>3. Keeps(s, s, WriterFields)
    BY <1>1 DEF Keeps
  <2> QED BY <1>2, <2>1, <2>2, <2>3 DEF Closed
<1>3. CASE s.msg # 0
  <2>1. /\ CloseOpen(s) = Do([s EXCEPT !.msg = 0, !.cites = 0], "close", s.msg)
        /\ HeldBy(s) = s.msg /\ s.reasoning = 0 /\ s.call = 0
    BY <1>1, <1>3 DEF CloseOpen, HeldBy, OneWriter
  <2>2. ASSUME NEW r, r = [s EXCEPT !.msg = 0, !.cites = 0]
        PROVE  /\ r.msg = 0 /\ r.cites = 0 /\ r.reasoning = s.reasoning /\ r.call = s.call
               /\ Keeps(s, r, {"msg", "reasoning", "call", "cites"})
    BY <1>1, <2>2 DEF Fields, Keeps
  <2> QED BY <1>0, <1>3, <2>1, <2>2, GivesUp DEF Closed
<1>4. CASE s.msg = 0 /\ s.reasoning # 0
  <2>1. /\ CloseOpen(s) = Do([s EXCEPT !.reasoning = 0], "close", s.reasoning)
        /\ HeldBy(s) = s.reasoning /\ s.call = 0
    BY <1>1, <1>4 DEF CloseOpen, HeldBy, OneWriter
  <2>2. ASSUME NEW r, r = [s EXCEPT !.reasoning = 0]
        PROVE  /\ r.reasoning = 0 /\ r.cites = s.cites /\ r.msg = s.msg /\ r.call = s.call
               /\ Keeps(s, r, {"msg", "reasoning", "call", "cites"})
    BY <1>1, <2>2 DEF Fields, Keeps
  <2> QED BY <1>0, <1>1, <1>4, <2>1, <2>2, GivesUp DEF Closed
<1>5. CASE s.msg = 0 /\ s.reasoning = 0 /\ s.call # 0
  <2>1. /\ CloseOpen(s) = Do([s EXCEPT !.call = 0], "close", s.call)
        /\ HeldBy(s) = s.call
    BY <1>5 DEF CloseOpen, HeldBy
  <2>2. ASSUME NEW r, r = [s EXCEPT !.call = 0]
        PROVE  /\ r.call = 0 /\ r.cites = s.cites /\ r.msg = s.msg /\ r.reasoning = s.reasoning
               /\ Keeps(s, r, {"msg", "reasoning", "call", "cites"})
    BY <1>1, <2>2 DEF Fields, Keeps
  <2> QED BY <1>0, <1>1, <1>5, <2>1, <2>2, GivesUp DEF Closed
<1> QED BY <1>2, <1>3, <1>4, <1>5 DEF HeldBy

-----------------------------------------------------------------------------
(* A new item is planned. *)
LEMMA OpensKeeps ==
  ASSUME NEW s, Typed(s), NEW type \in Adds, NEW t, t = Opens(s, type)
  PROVE  /\ Keeps(s, t, {"todo", "items"})
         /\ t.todo = Append(s.todo, [op |-> type, w |-> Len(s.items) + 1])
         /\ Longer(s.items, t.items, type) /\ Newest(t) = Len(s.items) + 1
<1> DEFINE r == Do(s, type, Len(s.items) + 1)
<1>1. DOMAIN s = Fields /\ s.items \in Seq(Contents)
  BY DEF Typed
<1>2. Keeps(s, r, {"todo"}) /\ r.todo = Append(s.todo, [op |-> type, w |-> Len(s.items) + 1])
  BY <1>1, DoKeeps
<1>3. t = [r EXCEPT !.items = Append(r.items, Content(type))]
  BY DEF Opens
<1> HIDE DEF r
<1>4. DOMAIN r = Fields /\ r.items = s.items
  BY <1>2, KeptFields
<1>5. DOMAIN t = Fields /\ t.items = Append(s.items, Content(type)) /\ t.todo = r.todo
  BY <1>3, <1>4 DEF Fields
<1>6. \A f \in Fields \ {"items"} : t[f] = r[f]
  BY <1>3, <1>4
<1>7. Keeps(r, t, {"items"})
  BY <1>5, <1>6 DEF Keeps
<1>8. Keeps(s, t, {"todo", "items"})
  BY <1>2, <1>7, KeepsTwice
<1>9. Longer(s.items, t.items, type)
  BY <1>1, <1>5, ContentTyped, Lengthen
<1> QED BY <1>2, <1>5, <1>8, <1>9 DEF Longer, Newest

(* Its writer is held. *)
LEMMA TakesWriter ==
  ASSUME NEW s, NEW h, NEW n, Sound(s, h, n), HeldBy(s) = 0,
         NEW field \in {"msg", "reasoning", "call"}, NEW type \in WriterKinds,
         NEW r, r = Opens(s, type),
         NEW t, Keeps(r, t, {field, "wrote", "buffered"}), t[field] = Newest(r), t.buffered \in Pieces
  PROVE  /\ Sound(t, h, n) /\ HeldBy(t) = Len(t.items) /\ HeldBy(t) # 0
         /\ Longer(s.items, t.items, type)
         /\ t.msg = (IF field = "msg" THEN HeldBy(t) ELSE 0)
         /\ t.reasoning = (IF field = "reasoning" THEN HeldBy(t) ELSE 0)
         /\ t.call = (IF field = "call" THEN HeldBy(t) ELSE 0)
<1>1. /\ Typed(s) /\ Len(s.items) \in Nat /\ type \in Adds
      /\ s.msg = 0 /\ s.reasoning = 0 /\ s.call = 0
  BY Basic DEF Sound, Adds, Typed, OneWriter, HeldBy
<1>2. /\ Keeps(s, r, {"todo", "items"})
      /\ r.todo = Append(s.todo, [op |-> type, w |-> Len(s.items) + 1])
      /\ Longer(s.items, r.items, type) /\ Newest(r) = Len(s.items) + 1
  BY <1>1, OpensKeeps
<1>3. /\ r.msg = 0 /\ r.reasoning = 0 /\ r.call = 0 /\ r.raw = s.raw /\ r.cites = s.cites
  BY <1>1, <1>2, KeptFields
<1>4. /\ DOMAIN t = Fields /\ t.todo = r.todo /\ t.items = r.items /\ t.raw = r.raw /\ t.cites = r.cites
      /\ field # "msg" => t.msg = r.msg
      /\ field # "reasoning" => t.reasoning = r.reasoning
      /\ field # "call" => t.call = r.call
  BY KeptFields
<1>5. t.items \in Seq(Contents) /\ Len(t.items) = Len(s.items) + 1
  BY <1>2, <1>4 DEF Longer
<1>6. /\ t.msg = (IF field = "msg" THEN Len(t.items) ELSE 0)
      /\ t.reasoning = (IF field = "reasoning" THEN Len(t.items) ELSE 0)
      /\ t.call = (IF field = "call" THEN Len(t.items) ELSE 0)
  BY <1>2, <1>3, <1>4, <1>5
<1>7. OneWriter(t) /\ HeldBy(t) = Len(t.items) /\ Len(t.items) # 0
  BY <1>1, <1>5, <1>6 DEF OneWriter, HeldBy
<1>8. type # "extension" /\ t.raw \in Pieces /\ t.cites \in Nat
  BY <1>1, <1>3, <1>4 DEF WriterKinds, Typed
<1>9. t.todo = Append(s.todo, [op |-> type, w |-> Len(s.items) + 1])
  BY <1>2, <1>4
<1>10. Sound(t, h, n)
  BY <1>1, <1>4, <1>5, <1>7, <1>8, <1>9, SoundOpens
<1> QED BY <1>2, <1>4, <1>6, <1>7, <1>10

(* What the helpers that open a message and a reasoning item share. *)
HoldsMessage(t)   == t.msg # 0 /\ t.msg = HeldBy(t) /\ t.reasoning = 0 /\ t.call = 0
HoldsReasoning(t) == t.reasoning # 0 /\ t.reasoning = HeldBy(t) /\ t.msg = 0 /\ t.call = 0
HoldsCall(t)      == t.call # 0 /\ t.call = HeldBy(t) /\ t.msg = 0 /\ t.reasoning = 0
OpenerFields == WriterFields \cup {"items"}

LEMMA Holds ==
  ASSUME NEW s, Typed(s)
  PROVE  /\ s.msg # 0 => HoldsMessage(s)
         /\ s.reasoning # 0 => HoldsReasoning(s)
         /\ s.call # 0 => HoldsCall(s)
         /\ HoldsMessage(s) \/ HoldsReasoning(s) \/ HoldsCall(s) <=> HeldBy(s) # 0
BY DEF Typed, OneWriter, HeldBy, HoldsMessage, HoldsReasoning, HoldsCall

LEMMA NewReasoningSound ==
  ASSUME NEW s, NEW h, NEW n, Sound(s, h, n), HeldBy(s) = 0, NEW t, t = NewReasoning(s)
  PROVE  /\ Sound(t, h, n) /\ HoldsReasoning(t)
         /\ Keeps(s, t, {"todo", "items", "reasoning"}) /\ Keeps(s, t, OpenerFields)
<1> DEFINE r == Opens(s, "reasoning")
<1>1. Typed(s) /\ "reasoning" \in Adds /\ "reasoning" \in WriterKinds /\ r = Opens(s, "reasoning")
  BY DEF Sound, Adds, WriterKinds
<1>2. t = [r EXCEPT !.reasoning = Newest(r)]
  BY DEF NewReasoning
<1> HIDE DEF r
<1>3. Keeps(s, r, {"todo", "items"})
  BY <1>1, OpensKeeps
<1>4. DOMAIN r = Fields /\ r.buffered = s.buffered /\ s.buffered \in Pieces
  BY <1>1, <1>3, KeptFields DEF Typed
<1>5. DOMAIN t = Fields /\ t.reasoning = Newest(r) /\ \A f \in Fields \ {"reasoning"} : t[f] = r[f]
  BY <1>2, <1>4 DEF Fields
<1>6. Keeps(r, t, {"reasoning"}) /\ Keeps(r, t, {"reasoning", "wrote", "buffered"})
  BY <1>5 DEF Keeps
<1>7. t.buffered = r.buffered
  BY <1>6, KeptFields
<1>8. /\ Sound(t, h, n) /\ HeldBy(t) = Len(t.items) /\ HeldBy(t) # 0
      /\ t.msg = 0 /\ t.reasoning = HeldBy(t) /\ t.call = 0
  BY <1>1, <1>4, <1>5, <1>6, <1>7, TakesWriter
<1>9. Keeps(s, t, {"todo", "items", "reasoning"})
  BY <1>3, <1>6, KeepsTwice
<1>10. Keeps(s, t, OpenerFields)
  BY <1>9 DEF Keeps, OpenerFields, WriterFields
<1> QED BY <1>8, <1>9, <1>10 DEF HoldsReasoning

LEMMA NewMessageSound ==
  ASSUME NEW s, NEW h, NEW n, Sound(s, h, n), HeldBy(s) = 0,
         NEW r, r = Opens(s, "message"), NEW t, Keeps(r, t, {"msg"}), t.msg = Newest(r)
  PROVE  Sound(t, h, n) /\ HoldsMessage(t) /\ Keeps(s, t, OpenerFields)
<1>1. Typed(s) /\ "message" \in Adds /\ "message" \in WriterKinds
  BY DEF Sound, Adds, WriterKinds
<1>3. Keeps(s, r, {"todo", "items"})
  BY <1>1, OpensKeeps
<1>4. DOMAIN r = Fields /\ r.buffered = s.buffered /\ s.buffered \in Pieces
  BY <1>1, <1>3, KeptFields DEF Typed
<1>6. Keeps(r, t, {"msg", "wrote", "buffered"})
  BY DEF Keeps
<1>7. t.buffered = r.buffered
  BY KeptFields
<1>8. /\ Sound(t, h, n) /\ HeldBy(t) = Len(t.items) /\ HeldBy(t) # 0
      /\ t.msg = HeldBy(t) /\ t.reasoning = 0 /\ t.call = 0
  BY <1>1, <1>4, <1>6, <1>7, TakesWriter
<1>9. Keeps(s, t, OpenerFields)
  BY <1>3, KeepsTwice DEF OpenerFields, WriterFields
<1> QED BY <1>8, <1>9 DEF HoldsMessage

LEMMA OpenMessageSound ==
  ASSUME NEW s, NEW h, NEW n, Sound(s, h, n), NEW t, t = OpenMessage(s)
  PROVE  Sound(t, h, n) /\ HoldsMessage(t) /\ Keeps(s, t, OpenerFields)
<1>1. CASE s.msg # 0
  <2>1. t = s /\ Typed(s)
    BY <1>1 DEF OpenMessage, Sound
  <2>2. Keeps(s, s, OpenerFields)
    BY <2>1 DEF Keeps, Typed
  <2> QED BY <1>1, <2>1, <2>2, Holds
<1>2. CASE s.msg = 0
  <2> DEFINE c == CloseOpen(s)
             r == Opens(c, "message")
  <2>1. Sound(c, h, n) /\ HeldBy(c) = 0 /\ Keeps(s, c, WriterFields) /\ r = Opens(c, "message")
    BY CloseOpenSound DEF Closed
  <2>2. t = [r EXCEPT !.msg = Newest(r)]
    BY <1>2 DEF OpenMessage
  <2> HIDE DEF c, r
  <2>3. Keeps(c, r, {"todo", "items"})
    BY <2>1, OpensKeeps DEF Sound, Adds, WriterKinds
  <2>4. DOMAIN r = Fields
    BY <2>3, KeptFields
  <2>5. DOMAIN t = Fields /\ t.msg = Newest(r) /\ \A f \in Fields \ {"msg"} : t[f] = r[f]
    BY <2>2, <2>4 DEF Fields
  <2>6. Keeps(r, t, {"msg"})
    BY <2>5 DEF Keeps
  <2>7. Sound(t, h, n) /\ HoldsMessage(t) /\ Keeps(c, t, OpenerFields)
    BY <2>1, <2>5, <2>6, NewMessageSound
  <2>8. Keeps(s, t, OpenerFields)
    BY <2>1, <2>7, KeepsTwice DEF OpenerFields
  <2> QED BY <2>7, <2>8
<1> QED BY <1>1, <1>2

LEMMA OpenReasoningSound ==
  ASSUME NEW s, NEW h, NEW n, Sound(s, h, n), NEW t, t = OpenReasoning(s)
  PROVE  Sound(t, h, n) /\ HoldsReasoning(t) /\ Keeps(s, t, OpenerFields)
<1>1. CASE s.reasoning # 0
  <2>1. t = s /\ Typed(s)
    BY <1>1 DEF OpenReasoning, Sound
  <2>2. Keeps(s, s, OpenerFields)
    BY <2>1 DEF Keeps, Typed
  <2> QED BY <1>1, <2>1, <2>2, Holds
<1>2. CASE s.reasoning = 0
  <2> DEFINE c == CloseOpen(s)
  <2>1. Sound(c, h, n) /\ HeldBy(c) = 0 /\ Keeps(s, c, WriterFields)
    BY CloseOpenSound DEF Closed
  <2>2. t = NewReasoning(c)
    BY <1>2 DEF OpenReasoning
  <2> HIDE DEF c
  <2>7. Sound(t, h, n) /\ HoldsReasoning(t) /\ Keeps(c, t, OpenerFields)
    BY <2>1, <2>2, NewReasoningSound
  <2>8. Keeps(s, t, OpenerFields)
    BY <2>1, <2>7, KeepsTwice DEF OpenerFields
  <2> QED BY <2>7, <2>8
<1> QED BY <1>1, <1>2

-----------------------------------------------------------------------------
(* The decoder is done: it returns an error of its own, or nil after the end *)
(* of the response.                                                          *)
LEMMA EndsOnlyMore ==
  ASSUME NEW todo \in Seq(PlannedCall), NEW op, EndsOnlyBy(todo, op), NEW o \in PlannedCall,
         o.op \in {"complete", "incomplete"} => o.op = op
  PROVE  EndsOnlyBy(Append(todo, o), op)
<1> DEFINE t == Append(todo, o)
<1>1. /\ Len(t) = Len(todo) + 1 /\ Len(todo) \in Nat /\ t[Len(todo) + 1] = o
      /\ \A j \in 1..Len(todo) : t[j] = todo[j]
  BY AppendedPlan DEF Final
<1> HIDE DEF t
<1>2. EndsOnlyBy(t, op)
  BY <1>1 DEF EndsOnlyBy
<1> QED BY <1>2 DEF t

LEMMA NothingEnds ==
  ASSUME NEW todo, NEW h, NEW n, Planned(todo, h, n), EndsOpen(todo), NEW op
  PROVE  EndsOnlyBy(todo, op)
BY EndsLast DEF EndsOnlyBy, Ends

LEMMA TypedEnd ==
  ASSUME NEW s, Typed(s), NEW op \in Ends, NEW t, t = Do(s, op, 0)
  PROVE  /\ Typed(t) /\ Keeps(s, t, {"todo"}) /\ [op |-> op, w |-> 0] \in PlannedCall
         /\ t.todo = Append(s.todo, [op |-> op, w |-> 0])
<1> DEFINE o == [op |-> op, w |-> 0]
<1>1. DOMAIN s = Fields
  BY DEF Typed
<1>2. Keeps(s, t, {"todo"}) /\ t.todo = Append(s.todo, o)
  BY <1>1, DoKeeps
<1>3. /\ DOMAIN t = Fields /\ t.items = s.items /\ t.buffered = s.buffered /\ t.raw = s.raw
      /\ t.cites = s.cites /\ t.msg = s.msg /\ t.reasoning = s.reasoning /\ t.call = s.call
  BY <1>2, KeptFields
<1>4. o \in PlannedCall /\ o.w = 0
  BY DEF PlannedCall, DecoderOps, Ends
<1>5. /\ t.items \in Seq(Contents) /\ t.buffered \in Pieces /\ t.raw \in Pieces /\ t.cites \in Nat
      /\ OneWriter(t)
  BY <1>3 DEF Typed, OneWriter
<1>6. Len(s.items) \in Nat
  BY Basic
<1>7. o.w <= Len(t.items) /\ Len(s.items) <= Len(t.items)
  BY <1>3, <1>4, <1>6
<1> HIDE DEF o
<1>8. Typed(t)
  BY <1>2, <1>3, <1>4, <1>5, <1>7, TypedMore
<1> QED BY <1>2, <1>4, <1>8 DEF o

(* Nothing is decided yet, but the decoder may hold its writer no more. *)
MayEnd(s, h, n) == Typed(s) /\ Planned(s.todo, h, n) /\ EndsOpen(s.todo)

LEMMA DueToEnd ==
  ASSUME NEW s, NEW h, NEW n, MayEnd(s, h, n), NEW o \in PlannedCall, o.op \in Ends
  PROVE  /\ Planned(Append(s.todo, o), h, n) /\ Final(Append(s.todo, o)) = o
         /\ Append(s.todo, o) # <<>>
<1>1. s.todo \in Seq(PlannedCall)
  BY DEF MayEnd, Typed
<1>2. o.op \notin Adds /\ o.op \notin WriterOps \cup {"close"}
  BY DEF Ends, Adds, WriterKinds, WriterOps
<1>3. IF s.todo = <<>> THEN DueOn(o, h, n) ELSE Follows(Final(s.todo), o)
  BY <1>2 DEF MayEnd, EndsOpen, Follows, DueOn
<1> QED BY <1>1, <1>3, PlanMore, AppendedPlan DEF MayEnd

LEMMA Fails ==
  ASSUME NEW s, NEW h, NEW n, MayEnd(s, h, n), NEW t, t = Fail(s)
  PROVE  Finished(t, h, n) /\ Keeps(s, t, {"todo"}) /\ EndsOnlyBy(t.todo, "fail")
<1> DEFINE o == [op |-> "fail", w |-> 0]
<1>1. /\ Typed(t) /\ Keeps(s, t, {"todo"}) /\ o \in PlannedCall /\ t.todo = Append(s.todo, o)
  BY TypedEnd DEF MayEnd, Fail, Ends
<1>2. o.op = "fail"
  OBVIOUS
<1> HIDE DEF o
<1>3. Planned(t.todo, h, n) /\ Final(t.todo) = o /\ t.todo # <<>>
  BY <1>1, <1>2, DueToEnd DEF Ends
<1>4. EndsOnlyBy(t.todo, "fail")
  BY <1>1, <1>2, NothingEnds, EndsOnlyMore DEF MayEnd, Typed
<1> QED BY <1>1, <1>2, <1>3, <1>4 DEF Finished

LEMMA MarksMore ==
  ASSUME NEW s, NEW h, NEW n, MayEnd(s, h, n), HeldThen(s.todo, h) # 0,
         NEW o \in PlannedCall, NEW p \in PlannedCall, p.op = "return"
  PROVE  Marks(Append(Append(s.todo, o), p), h)
<1> DEFINE r == Append(s.todo, o)
           t == Append(r, p)
<1>1. s.todo \in Seq(PlannedCall)
  BY DEF MayEnd, Typed
<1>2. /\ r \in Seq(PlannedCall) /\ Len(r) = Len(s.todo) + 1 /\ Len(s.todo) \in Nat
      /\ \A j \in 1..Len(s.todo) : r[j] = s.todo[j]
  BY <1>1, AppendedPlan
<1>3. Len(t) = Len(r) + 1 /\ t[Len(t)] = p /\ \A j \in 1..Len(r) : t[j] = r[j]
  BY <1>2, AppendedPlan DEF Final
<1> HIDE DEF r, t
<1>4. ASSUME NEW j \in 1..Len(t), t[j].op = "incomplete"
      PROVE  (IF j = 1 THEN h ELSE LeavesOpen(t[j - 1])) # 0
  <2>1. CASE j = Len(t)
    BY <1>3, <1>4, <2>1
  <2>2. CASE j \in 1..Len(s.todo)
    <3>1. t[j] = s.todo[j]
      BY <1>2, <1>3, <2>2
    <3> QED BY <1>4, <2>2, <3>1, EndsLast DEF MayEnd, Ends
  <2>3. CASE j = Len(r)
    <3>1. CASE s.todo = <<>>
      <4>1. Len(s.todo) = 0
        BY <3>1
      <4> QED BY <1>2, <2>3, <3>1, <4>1 DEF HeldThen
    <3>2. CASE s.todo # <<>>
      <4>1. Len(s.todo) > 0
        BY <1>1, <3>2
      <4>2. j # 1 /\ j - 1 = Len(s.todo) /\ j - 1 \in 1..Len(r)
        BY <1>2, <2>3, <4>1
      <4>3. t[j - 1] = Final(s.todo)
        BY <1>2, <1>3, <4>1, <4>2 DEF Final
      <4> QED BY <3>2, <4>2, <4>3 DEF HeldThen
    <3> QED BY <3>1, <3>2
  <2> QED BY <1>2, <1>3, <2>1, <2>2, <2>3
<1>5. Marks(t, h)
  BY <1>4 DEF Marks
<1> QED BY <1>5 DEF r, t

LEMMA Ending ==
  ASSUME NEW s, NEW h, NEW n, MayEnd(s, h, n), NEW op \in {"complete", "incomplete"},
         NEW t, t = Returns(s, op)
  PROVE  /\ Finished(t, h, n) /\ Keeps(s, t, {"todo"}) /\ EndsOnlyBy(t.todo, op)
         /\ HeldThen(s.todo, h) # 0 => Marks(t.todo, h)
<1> DEFINE r == Do(s, op, 0)
           o == [op |-> op, w |-> 0]
           p == [op |-> "return", w |-> 0]
<1>1. Typed(r) /\ Keeps(s, r, {"todo"}) /\ o \in PlannedCall /\ r.todo = Append(s.todo, o)
  BY TypedEnd DEF MayEnd, Ends
<1>2. t = Do(r, "return", 0)
  BY DEF Returns
<1>3. o.op = op /\ p.op = "return"
  OBVIOUS
<1> HIDE DEF r
<1>4. Typed(t) /\ Keeps(r, t, {"todo"}) /\ p \in PlannedCall /\ t.todo = Append(r.todo, p)
  BY <1>1, <1>2, TypedEnd DEF Ends
<1> HIDE DEF o, p
<1>5. Planned(r.todo, h, n) /\ Final(r.todo) = o /\ r.todo # <<>>
  BY <1>1, <1>3, DueToEnd DEF Ends
<1>6. Follows(o, p)
  BY <1>3 DEF Follows, Ends
<1>7. Planned(t.todo, h, n)
  BY <1>4, <1>5, <1>6, PlanMore
<1>8. r.todo \in Seq(PlannedCall)
  BY <1>5 DEF Planned
<1>9. Final(t.todo) = p /\ t.todo # <<>>
  BY <1>4, <1>8, AppendedPlan
<1>10. EndsOnlyBy(r.todo, op)
  BY <1>1, <1>3, NothingEnds, EndsOnlyMore DEF MayEnd, Typed
<1>11. EndsOnlyBy(t.todo, op)
  BY <1>3, <1>4, <1>8, <1>10, EndsOnlyMore
<1>12. HeldThen(s.todo, h) # 0 => Marks(t.todo, h)
  BY <1>1, <1>3, <1>4, MarksMore
<1>13. Keeps(s, t, {"todo"})
  BY <1>1, <1>4, KeepsTwice
<1> QED BY <1>3, <1>4, <1>7, <1>9, <1>11, <1>12, <1>13 DEF Finished

-----------------------------------------------------------------------------
(***************************************************************************)
(* The Chat Completions decoder.  While a tool call is being put together, *)
(* its index is known and nothing but the call is open; from the first     *)
(* item on something is open or being put together.                        *)
(***************************************************************************)
ChatCalls(s) ==
  /\ s.index = 0 => s.call = 0
  /\ s.index # 0 => s.msg = 0 /\ s.reasoning = 0
ChatShape(s) == ChatCalls(s) /\ (s.items # <<>> /\ s.index = 0 => HeldBy(s) # 0)

ChatFields == OpenerFields \cup {"index", "buffered"}

(* The decoder state t that follows s holds nothing. *)
ChatClosed(s, t) == HeldBy(t) = 0 /\ t.msg = 0 /\ t.reasoning = 0 /\ t.call = 0 /\ t.index = 0 /\ Keeps(s, t, ChatFields)

LEMMA SoundBuffered ==
  ASSUME NEW s, NEW h, NEW n, Sound(s, h, n), NEW t,
         Keeps(s, t, {"index", "buffered", "raw", "cites", "stop", "wrote", "turn", "turnStart", "replay"}),
         t.buffered \in Pieces, t.raw \in Pieces, t.cites \in Nat
  PROVE  Sound(t, h, n) /\ HeldBy(t) = HeldBy(s)
<1>1. /\ t.msg = s.msg /\ t.reasoning = s.reasoning /\ t.call = s.call /\ t.todo = s.todo
      /\ t.items = s.items /\ DOMAIN t = Fields
  BY KeptFields
<1>2. Typed(s)
  BY DEF Sound
<1>3. HeldBy(t) = HeldBy(s) /\ OneWriter(t)
  BY <1>1, <1>2, Writers DEF Typed
<1>4. Typed(t)
  BY <1>1, <1>2, <1>3 DEF Typed
<1> QED BY <1>1, <1>3, <1>4, SoundKept

(* openCall *)
LEMMA OpenCallSound ==
  ASSUME NEW s, NEW h, NEW n, Sound(s, h, n), HeldBy(s) = 0, NEW t, t = OpenCall(s)
  PROVE  Sound(t, h, n) /\ HoldsCall(t) /\ Keeps(s, t, OpenerFields \cup {"buffered"})
<1> DEFINE r == Opens(s, "function_call")
           c == [r EXCEPT !.call = Newest(r), !.buffered = <<>>]
           d == Do(c, "arguments", c.call)
<1>1. Typed(s) /\ "function_call" \in Adds /\ "function_call" \in WriterKinds /\ r = Opens(s, "function_call")
  BY DEF Sound, Adds, WriterKinds
<1>2. t = IF s.buffered = <<>> THEN c ELSE PutSaid(d, c.call, s.buffered)
  BY DEF OpenCall, PutSaid
<1>3. c = [r EXCEPT !.call = Newest(r), !.buffered = <<>>] /\ d = Do(c, "arguments", c.call)
  OBVIOUS
<1> HIDE DEF r, c, d
<1>4. Keeps(s, r, {"todo", "items"})
  BY <1>1, OpensKeeps
<1>5. DOMAIN r = Fields
  BY <1>4, KeptFields
<1>6. /\ DOMAIN c = Fields /\ c.call = Newest(r) /\ c.buffered = <<>>
      /\ \A f \in Fields \ {"call", "buffered"} : c[f] = r[f]
  BY <1>3, <1>5 DEF Fields
<1>7. Keeps(r, c, {"call", "buffered"}) /\ Keeps(r, c, {"call", "wrote", "buffered"})
  BY <1>6 DEF Keeps
<1>8. c.buffered \in Pieces
  BY <1>6 DEF Pieces
<1>9. /\ Sound(c, h, n) /\ HeldBy(c) # 0
      /\ c.msg = 0 /\ c.reasoning = 0 /\ c.call = HeldBy(c)
  BY <1>1, <1>6, <1>7, <1>8, TakesWriter
<1>10. Keeps(s, c, OpenerFields \cup {"buffered"})
  BY <1>4, <1>7, KeepsTwice DEF OpenerFields, WriterFields
<1>11. CASE s.buffered = <<>>
  BY <1>2, <1>9, <1>10, <1>11 DEF HoldsCall
<1>12. CASE s.buffered # <<>>
  <2>1. t = PutSaid(d, c.call, s.buffered)
    BY <1>2, <1>12
  <2>2. Sound(d, h, n) /\ Keeps(c, d, {"todo"}) /\ HeldBy(d) = c.call
    BY <1>3, <1>9, SoundWrite DEF WriterOps
  <2>3. Typed(d) /\ c.call \in 1..Len(d.items) /\ s.buffered \in Pieces
    <3>1. Typed(d) /\ c.call = Len(d.items) /\ Len(d.items) \in Nat
      BY <1>9, <2>2, Basic DEF Sound
    <3> QED BY <1>1, <1>9, <3>1 DEF Typed
  <2>4. Keeps(d, t, {"items"}) /\ Refilled(d.items, t.items)
    BY <2>1, <2>3, SaidChanges
  <2>5. Sound(t, h, n) /\ HeldBy(t) = c.call
    BY <2>2, <2>4, SoundRefilled
  <2>6. Keeps(c, t, OpenerFields \cup {"buffered"})
    BY <2>2, <2>4, KeepsTwice DEF OpenerFields, WriterFields
  <2>7. Keeps(s, t, OpenerFields \cup {"buffered"})
    BY <1>10, <2>6, KeepsTwice
  <2>8. t.msg = c.msg /\ t.reasoning = c.reasoning /\ t.call = c.call
    <3>1. Keeps(c, t, {"todo", "items"})
      BY <2>2, <2>4, KeepsTwice
    <3> QED BY <3>1, KeptFields
  <2> QED BY <1>9, <2>5, <2>7, <2>8 DEF HoldsCall
<1> QED BY <1>11, <1>12

(* A call on the writer that is held says nothing that is kept. *)
LEMMA DoSound ==
  ASSUME NEW s, NEW h, NEW n, Sound(s, h, n), NEW op \in WriterOps, NEW w, w = HeldBy(s), w # 0,
         NEW t, t = Do(s, op, w)
  PROVE  /\ Sound(t, h, n) /\ Keeps(s, t, {"todo"}) /\ HeldBy(t) = w
         /\ t.msg = s.msg /\ t.reasoning = s.reasoning /\ t.call = s.call /\ t.index = s.index
<1>1. Sound(t, h, n) /\ Keeps(s, t, {"todo"}) /\ HeldBy(t) = w
  BY SoundWrite
<1> QED BY <1>1, KeptFields

(* endCall *)
LEMMA FinishedCallSound ==
  ASSUME NEW s, NEW h, NEW n, Sound(s, h, n), s.msg = 0, s.reasoning = 0, NEW t, t = FinishedCall(s)
  PROVE  Sound(t, h, n) /\ HoldsCall(t) /\ Keeps(s, t, OpenerFields \cup {"buffered"})
<1> DEFINE r == IF s.call = 0 THEN OpenCall(s) ELSE s
<1>1. t = IF r.items[r.call].said = <<>> THEN Do(r, "arguments", r.call) ELSE r
  BY DEF FinishedCall
<1>2. Sound(r, h, n) /\ HoldsCall(r) /\ Keeps(s, r, OpenerFields \cup {"buffered"})
  <2>1. CASE s.call = 0
    <3>1. HeldBy(s) = 0 /\ r = OpenCall(s)
      BY <2>1 DEF HeldBy
    <3> QED BY <3>1, OpenCallSound
  <2>2. CASE s.call # 0
    <3>1. Typed(s) /\ r = s
      BY <2>2 DEF Sound
    <3>2. Keeps(s, s, OpenerFields \cup {"buffered"})
      BY <3>1 DEF Keeps, Typed
    <3> QED BY <2>2, <3>1, <3>2, Holds
  <2> QED BY <2>1, <2>2
<1> HIDE DEF r
<1>3. CASE t = r
  BY <1>2, <1>3
<1>4. CASE t = Do(r, "arguments", r.call)
  <2>1. /\ Sound(t, h, n) /\ Keeps(r, t, {"todo"}) /\ HeldBy(t) = r.call
        /\ t.msg = r.msg /\ t.reasoning = r.reasoning /\ t.call = r.call
    BY <1>2, <1>4, DoSound DEF HoldsCall, WriterOps
  <2>2. Keeps(s, t, OpenerFields \cup {"buffered"})
    BY <1>2, <2>1, KeepsTwice DEF OpenerFields, WriterFields
  <2> QED BY <1>2, <2>1, <2>2 DEF HoldsCall
<1> QED BY <1>1, <1>3, <1>4

LEMMA CloseCallSound ==
  ASSUME NEW s, NEW h, NEW n, Sound(s, h, n), s.msg = 0, s.reasoning = 0, ChatCalls(s),
         NEW t, t = CloseCall(s)
  PROVE  Sound(t, h, n) /\ ChatClosed(s, t)
<1>1. Typed(s)
  BY DEF Sound
<1>2. CASE s.index = 0
  <2>1. t = s /\ s.call = 0
    BY <1>2 DEF CloseCall, ChatCalls
  <2>2. Keeps(s, s, ChatFields)
    BY <1>1 DEF Keeps, Typed
  <2> QED BY <1>2, <2>1, <2>2 DEF ChatClosed, HeldBy
<1>3. CASE s.index # 0
  <2> DEFINE r == FinishedCall(s)
             c == [r EXCEPT !.index = 0, !.call = 0]
  <2>1. t = Do(c, "close", r.call)
    BY <1>3 DEF CloseCall
  <2>2. Sound(r, h, n) /\ HoldsCall(r) /\ Keeps(s, r, OpenerFields \cup {"buffered"})
    BY FinishedCallSound
  <2>3. c = [r EXCEPT !.index = 0, !.call = 0]
    OBVIOUS
  <2> HIDE DEF r, c
  <2>4. DOMAIN r = Fields /\ r.cites \in Nat
    BY <2>2 DEF Sound, Typed
  <2>5. /\ DOMAIN c = Fields /\ c.index = 0 /\ c.call = 0
        /\ \A f \in Fields \ {"index", "call"} : c[f] = r[f]
    BY <2>3, <2>4 DEF Fields
  <2>6. Keeps(r, c, {"index", "call"})
    BY <2>5 DEF Keeps
  <2>7. c.msg = 0 /\ c.reasoning = 0 /\ c.cites = r.cites
    BY <2>2, <2>6, KeptFields DEF HoldsCall
  <2>8. /\ Sound(t, h, n) /\ HeldBy(t) = 0 /\ t.msg = 0 /\ t.reasoning = 0 /\ t.call = 0
        /\ Keeps(r, t, {"index", "call", "todo"})
    <3>1. {"index", "call"} \subseteq {"msg", "reasoning", "call", "cites", "index"}
      OBVIOUS
    <3>2. /\ Sound(t, h, n) /\ HeldBy(t) = 0 /\ t.msg = 0 /\ t.reasoning = 0 /\ t.call = 0
          /\ Keeps(r, t, {"index", "call"} \cup {"todo"})
      BY <2>1, <2>2, <2>4, <2>5, <2>6, <2>7, <3>1, GivesUp DEF HoldsCall
    <3>3. {"index", "call"} \cup {"todo"} = {"index", "call", "todo"}
      OBVIOUS
    <3> QED BY <3>2, <3>3
  <2>9. t.index = c.index
    <3>1. Keeps(c, t, {"todo"})
      BY <2>1, <2>5, DoKeeps
    <3> QED BY <3>1, KeptFields
  <2>10. Keeps(s, t, ChatFields)
    BY <2>2, <2>8, KeepsTwice DEF ChatFields, OpenerFields, WriterFields
  <2> QED BY <2>5, <2>8, <2>9, <2>10 DEF ChatClosed
<1> QED BY <1>2, <1>3

LEMMA ChatCloseOpenSound ==
  ASSUME NEW s, NEW h, NEW n, Sound(s, h, n), ChatCalls(s), NEW t, t = ChatCloseOpen(s)
  PROVE  Sound(t, h, n) /\ ChatClosed(s, t)
<1>1. CASE s.msg = 0 /\ s.reasoning = 0
  BY <1>1, CloseCallSound DEF ChatCloseOpen
<1>2. CASE s.msg # 0 \/ s.reasoning # 0
  <2>1. t = CloseOpen(s)
    BY <1>2 DEF ChatCloseOpen
  <2>2. Sound(t, h, n) /\ Closed(s, t)
    BY <2>1, CloseOpenSound
  <2>3. t.index = s.index
    BY <2>2, KeptFields DEF Closed, WriterFields
  <2>4. Keeps(s, t, ChatFields)
    BY <2>2 DEF Closed, Keeps, ChatFields, OpenerFields
  <2> QED BY <1>2, <2>2, <2>3, <2>4 DEF ChatCalls, Closed, ChatClosed
<1> QED BY <1>1, <1>2

(* openMessage *)
LEMMA ChatMessageSound ==
  ASSUME NEW s, NEW h, NEW n, Sound(s, h, n), ChatCalls(s), NEW t, t = ChatMessage(s)
  PROVE  Sound(t, h, n) /\ HoldsMessage(t) /\ t.index = 0 /\ Keeps(s, t, ChatFields)
<1>1. CASE s.msg # 0
  <2>1. t = s /\ Typed(s) /\ s.index = 0
    BY <1>1 DEF ChatMessage, Sound, ChatCalls
  <2>2. Keeps(s, s, ChatFields)
    BY <2>1 DEF Keeps, Typed
  <2> QED BY <1>1, <2>1, <2>2, Holds
<1>2. CASE s.msg = 0
  <2> DEFINE c == ChatCloseOpen(s)
  <2>1. t = OpenMessage(c) /\ Sound(c, h, n) /\ ChatClosed(s, c)
    BY <1>2, ChatCloseOpenSound DEF ChatMessage
  <2> HIDE DEF c
  <2>2. Sound(t, h, n) /\ HoldsMessage(t) /\ Keeps(c, t, OpenerFields)
    BY <2>1, OpenMessageSound
  <2>3. t.index = c.index
    BY <2>2, KeptFields DEF OpenerFields, WriterFields
  <2>4. Keeps(s, t, ChatFields)
    BY <2>1, <2>2, KeepsTwice DEF ChatClosed, ChatFields
  <2> QED BY <2>1, <2>2, <2>3, <2>4 DEF ChatClosed
<1> QED BY <1>1, <1>2

LEMMA ChatReasoningSound ==
  ASSUME NEW s, NEW h, NEW n, Sound(s, h, n), ChatCalls(s),
         NEW t, t = (IF s.reasoning # 0 THEN s ELSE NewReasoning(ChatCloseOpen(s)))
  PROVE  Sound(t, h, n) /\ HoldsReasoning(t) /\ t.index = 0 /\ Keeps(s, t, ChatFields)
<1>1. CASE s.reasoning # 0
  <2>1. t = s /\ Typed(s) /\ s.index = 0
    BY <1>1 DEF Sound, ChatCalls
  <2>2. Keeps(s, s, ChatFields)
    BY <2>1 DEF Keeps, Typed
  <2> QED BY <1>1, <2>1, <2>2, Holds
<1>2. CASE s.reasoning = 0
  <2> DEFINE c == ChatCloseOpen(s)
  <2>1. t = NewReasoning(c) /\ Sound(c, h, n) /\ ChatClosed(s, c)
    BY <1>2, ChatCloseOpenSound
  <2> HIDE DEF c
  <2>2. Sound(t, h, n) /\ HoldsReasoning(t) /\ Keeps(c, t, OpenerFields)
    BY <2>1, NewReasoningSound DEF ChatClosed
  <2>3. t.index = c.index
    BY <2>2, KeptFields DEF OpenerFields, WriterFields
  <2>4. Keeps(s, t, ChatFields)
    BY <2>1, <2>2, KeepsTwice DEF ChatClosed, ChatFields
  <2> QED BY <2>1, <2>2, <2>3, <2>4 DEF ChatClosed
<1> QED BY <1>1, <1>2

(* The decoder has ended in an error of its own. *)
Failed(t, h, n) == Finished(t, h, n) /\ EndsOnlyBy(t.todo, "fail")

LEMMA SoundMayEnd ==
  ASSUME NEW s, NEW h, NEW n, Sound(s, h, n)
  PROVE  MayEnd(s, h, n)
BY DEF Sound, MayEnd

LEMMA FailsSound ==
  ASSUME NEW s, NEW h, NEW n, Sound(s, h, n), NEW t, t = Fail(s)
  PROVE  Failed(t, h, n) /\ Keeps(s, t, {"todo"})
BY SoundMayEnd, Fails DEF Failed

LEMMA SayingSound ==
  ASSUME NEW s, NEW h, NEW n, Sound(s, h, n), Len(heard) \in Nat, NEW op \in WriterOps,
         NEW w, w = HeldBy(s), w # 0, NEW t, t = Says(s, op, w)
  PROVE  /\ Sound(t, h, n) /\ Keeps(s, t, {"todo", "items"}) /\ HeldBy(t) = w
         /\ t.msg = s.msg /\ t.reasoning = s.reasoning /\ t.call = s.call /\ t.index = s.index
<1>1. Sound(t, h, n) /\ Keeps(s, t, {"todo", "items"}) /\ HeldBy(t) = w
  BY SaysSound
<1> QED BY <1>1, KeptFields

(* toolCall *)
LEMMA ToolCallSound ==
  ASSUME NEW s, NEW h, NEW n, Sound(s, h, n), ChatShape(s), Len(heard) \in Nat,
         NEW f, f.i # 0, NEW t, t = ToolCall(s, f)
  PROVE  Keeps(s, t, ChatFields) /\ ((Sound(t, h, n) /\ ChatShape(t)) \/ Failed(t, h, n))
<1> DEFINE a == IF s.index \notin {0, f.i} THEN CloseCall(s) ELSE s
           b == IF a.index = 0 THEN [ChatCloseOpen(a) EXCEPT !.index = f.i] ELSE a
           c == IF f.full THEN [b EXCEPT !.buffered = Append(@, Piece("arguments", Now))] ELSE b
<1>1. t = IF s.index # 0 /\ f.i < s.index THEN Fail(s)
          ELSE IF b.call = 0 THEN IF f.named THEN OpenCall(c) ELSE c
          ELSE IF f.full THEN Says(b, "arguments", b.call) ELSE b
  BY DEF ToolCall
<1>2. Typed(s)
  BY DEF Sound
<1>3. Keeps(s, s, ChatFields)
  BY <1>2 DEF Keeps, Typed
<1>4. /\ Sound(a, h, n) /\ ChatCalls(a) /\ a.index \in {0, f.i} /\ Keeps(s, a, ChatFields)
  <2>1. CASE s.index \notin {0, f.i}
    <3>1. s.msg = 0 /\ s.reasoning = 0 /\ ChatCalls(s) /\ a = CloseCall(s)
      BY <2>1 DEF ChatShape, ChatCalls
    <3>2. Sound(a, h, n) /\ ChatClosed(s, a)
      BY <3>1, CloseCallSound
    <3> QED BY <3>2 DEF ChatClosed, ChatCalls
  <2>2. CASE s.index \in {0, f.i}
    BY <1>3, <2>2 DEF ChatShape
  <2> QED BY <2>1, <2>2
<1> HIDE DEF a
<1>5. /\ Sound(b, h, n) /\ b.index = f.i /\ b.msg = 0 /\ b.reasoning = 0 /\ Keeps(s, b, ChatFields)
  <2>1. CASE a.index = 0
    <3> DEFINE d == ChatCloseOpen(a)
    <3>1. b = [d EXCEPT !.index = f.i]
      BY <2>1
    <3>2. Sound(d, h, n) /\ ChatClosed(a, d)
      BY <1>4, ChatCloseOpenSound
    <3> HIDE DEF b, d
    <3>3. DOMAIN d = Fields /\ d.buffered \in Pieces /\ d.raw \in Pieces /\ d.cites \in Nat
      BY <3>2 DEF Sound, Typed
    <3>4. DOMAIN b = Fields /\ b.index = f.i /\ \A x \in Fields \ {"index"} : b[x] = d[x]
      BY <3>1, <3>3 DEF Fields
    <3>5. Keeps(d, b, {"index"})
      BY <3>4 DEF Keeps
    <3>6. /\ b.buffered = d.buffered /\ b.raw = d.raw /\ b.cites = d.cites
          /\ b.msg = d.msg /\ b.reasoning = d.reasoning
      BY <3>5, KeptFields
    <3>7. Keeps(d, b, {"index", "buffered", "raw", "cites", "stop", "wrote", "turn", "turnStart", "replay"})
      BY <3>5 DEF Keeps
    <3>8. Sound(b, h, n)
      BY <3>2, <3>3, <3>6, <3>7, SoundBuffered
    <3>9. Keeps(a, b, ChatFields)
      BY <3>2, <3>5, KeepsTwice DEF ChatClosed, ChatFields
    <3>10. Keeps(s, b, ChatFields)
      BY <1>4, <3>9, KeepsTwice
    <3> QED BY <3>2, <3>4, <3>6, <3>8, <3>10 DEF ChatClosed
  <2>2. CASE a.index # 0
    BY <1>4, <2>2 DEF ChatCalls
  <2> QED BY <2>1, <2>2
<1> HIDE DEF b
<1>6. /\ Sound(c, h, n) /\ c.index = f.i /\ c.msg = 0 /\ c.reasoning = 0 /\ c.call = b.call
      /\ Keeps(s, c, ChatFields)
  <2>1. CASE f.full
    <3> DEFINE x == Append(b.buffered, Piece("arguments", Now))
    <3>1. c = [b EXCEPT !.buffered = x]
      BY <2>1
    <3>2. DOMAIN b = Fields /\ b.buffered \in Pieces /\ b.raw \in Pieces /\ b.cites \in Nat
      BY <1>5 DEF Sound, Typed
    <3>3. x \in Pieces
      BY <3>2, PieceTyped, AppendProperties DEF Pieces, WriterOps
    <3> HIDE DEF c, x
    <3>4. DOMAIN c = Fields /\ c.buffered = x /\ \A y \in Fields \ {"buffered"} : c[y] = b[y]
      BY <3>1, <3>2 DEF Fields
    <3>5. Keeps(b, c, {"buffered"})
      BY <3>4 DEF Keeps
    <3>6. c.raw = b.raw /\ c.cites = b.cites /\ c.msg = b.msg /\ c.reasoning = b.reasoning
          /\ c.call = b.call /\ c.index = b.index
      BY <3>5, KeptFields
    <3>7. Keeps(b, c, {"index", "buffered", "raw", "cites", "stop", "wrote", "turn", "turnStart", "replay"})
      BY <3>5 DEF Keeps
    <3>8. Sound(c, h, n)
      BY <1>5, <3>2, <3>3, <3>4, <3>6, <3>7, SoundBuffered
    <3>9. Keeps(s, c, ChatFields)
      BY <1>5, <3>5, KeepsTwice DEF ChatFields
    <3> QED BY <1>5, <3>6, <3>8, <3>9
  <2>2. CASE ~f.full
    BY <1>5, <2>2
  <2> QED BY <2>1, <2>2
<1> HIDE DEF c
<1>7. CASE s.index # 0 /\ f.i < s.index
  <2>1. Failed(t, h, n) /\ Keeps(s, t, {"todo"})
    BY <1>1, <1>7, FailsSound
  <2> QED BY <2>1 DEF Keeps, ChatFields, OpenerFields, WriterFields
<1>8. CASE t = OpenCall(c) /\ b.call = 0
  <2>1. HeldBy(c) = 0
    BY <1>6, <1>8 DEF HeldBy
  <2>2. Sound(t, h, n) /\ HoldsCall(t) /\ Keeps(c, t, OpenerFields \cup {"buffered"})
    BY <1>6, <1>8, <2>1, OpenCallSound
  <2>3. t.index = c.index
    BY <2>2, KeptFields DEF OpenerFields, WriterFields
  <2>4. Keeps(s, t, ChatFields)
    BY <1>6, <2>2, KeepsTwice DEF ChatFields
  <2> QED BY <1>6, <2>2, <2>3, <2>4 DEF HoldsCall, ChatShape, ChatCalls
<1>9. CASE t = c \/ t = b
  BY <1>5, <1>6, <1>9 DEF ChatShape, ChatCalls
<1>10. CASE t = Says(b, "arguments", b.call) /\ b.call # 0
  <2>1. b.call = HeldBy(b)
    BY <1>5, <1>10 DEF HeldBy
  <2>2. /\ Sound(t, h, n) /\ Keeps(b, t, {"todo", "items"})
        /\ t.msg = b.msg /\ t.reasoning = b.reasoning /\ t.call = b.call /\ t.index = b.index
    BY <1>5, <1>10, <2>1, SayingSound DEF WriterOps
  <2>3. Keeps(s, t, ChatFields)
    BY <1>5, <2>2, KeepsTwice DEF ChatFields, OpenerFields, WriterFields
  <2> QED BY <1>5, <2>2, <2>3 DEF ChatShape, ChatCalls
<1> QED BY <1>1, <1>7, <1>8, <1>9, <1>10

(* A message or reasoning item is open, with no call in the making. *)
LEMMA ChatShapeOpen ==
  ASSUME NEW t, t.index = 0, HoldsMessage(t) \/ HoldsReasoning(t)
  PROVE  ChatShape(t)
BY DEF HoldsMessage, HoldsReasoning, ChatShape, ChatCalls

ChatHearing == ChatFields \cup {"stop"}

(* chunk and delta *)
LEMMA ChatHearsSound ==
  ASSUME NEW s, NEW h, NEW n, Sound(s, h, n), ChatShape(s), Len(heard) \in Nat,
         NEW f, f.k = "tool" => f.i # 0, NEW t, t = ChatHears(s, f)
  PROVE  Keeps(s, t, ChatHearing) /\ ((Sound(t, h, n) /\ ChatShape(t)) \/ Failed(t, h, n))
<1> DEFINE r == IF s.reasoning # 0 THEN s ELSE NewReasoning(ChatCloseOpen(s))
           m == ChatMessage(s)
<1>1. t = CASE f.k = "reasoning" -> Says(r, "reasoning_text", r.reasoning)
            [] f.k \in {"text", "refusal"}        -> Says(m, f.k, m.msg)
            [] f.k \in {"annotation", "logprobs"} -> Do(m, f.k, m.msg)
            [] f.k = "tool"   -> ToolCall(s, f)
            [] f.k = "finish" -> [s EXCEPT !.stop = f.stop]
            [] OTHER          -> Fail(s)
  BY DEF ChatHears
<1>2. ChatCalls(s) /\ Typed(s)
  BY DEF ChatShape, Sound
<1>3. Sound(r, h, n) /\ HoldsReasoning(r) /\ r.index = 0 /\ Keeps(s, r, ChatFields)
  BY <1>2, ChatReasoningSound
<1>4. Sound(m, h, n) /\ HoldsMessage(m) /\ m.index = 0 /\ Keeps(s, m, ChatFields)
  BY <1>2, ChatMessageSound
<1> HIDE DEF r, m
<1>5. CASE f.k = "reasoning"
  <2>1. t = Says(r, "reasoning_text", r.reasoning)
    BY <1>1, <1>5
  <2>2. /\ Sound(t, h, n) /\ Keeps(r, t, {"todo", "items"}) /\ HeldBy(t) = r.reasoning
        /\ t.msg = r.msg /\ t.reasoning = r.reasoning /\ t.call = r.call /\ t.index = r.index
    BY <1>3, <2>1, SayingSound DEF HoldsReasoning, WriterOps
  <2>3. Keeps(s, t, ChatHearing)
    BY <1>3, <2>2, KeepsTwice DEF ChatHearing, ChatFields, OpenerFields, WriterFields
  <2> QED BY <1>3, <2>2, <2>3, ChatShapeOpen DEF HoldsReasoning
<1>6. CASE f.k \in {"text", "refusal"}
  <2>1. t = Says(m, f.k, m.msg)
    BY <1>1, <1>6
  <2>2. /\ Sound(t, h, n) /\ Keeps(m, t, {"todo", "items"}) /\ HeldBy(t) = m.msg
        /\ t.msg = m.msg /\ t.reasoning = m.reasoning /\ t.call = m.call /\ t.index = m.index
    BY <1>4, <1>6, <2>1, SayingSound DEF HoldsMessage, WriterOps
  <2>3. Keeps(s, t, ChatHearing)
    BY <1>4, <2>2, KeepsTwice DEF ChatHearing, ChatFields, OpenerFields, WriterFields
  <2> QED BY <1>4, <2>2, <2>3, ChatShapeOpen DEF HoldsMessage
<1>7. CASE f.k \in {"annotation", "logprobs"}
  <2>1. t = Do(m, f.k, m.msg)
    BY <1>1, <1>7
  <2>2. /\ Sound(t, h, n) /\ Keeps(m, t, {"todo"}) /\ HeldBy(t) = m.msg
        /\ t.msg = m.msg /\ t.reasoning = m.reasoning /\ t.call = m.call /\ t.index = m.index
    BY <1>4, <1>7, <2>1, DoSound DEF HoldsMessage, WriterOps
  <2>3. Keeps(s, t, ChatHearing)
    BY <1>4, <2>2, KeepsTwice DEF ChatHearing, ChatFields, OpenerFields, WriterFields
  <2> QED BY <1>4, <2>2, <2>3, ChatShapeOpen DEF HoldsMessage
<1>8. CASE f.k = "tool"
  <2>1. t = ToolCall(s, f)
    BY <1>1, <1>8
  <2>2. Keeps(s, t, ChatFields) /\ ((Sound(t, h, n) /\ ChatShape(t)) \/ Failed(t, h, n))
    BY <1>8, <2>1, ToolCallSound
  <2> QED BY <2>2 DEF Keeps, ChatHearing
<1>9. CASE f.k = "finish"
  <2>1. t = [s EXCEPT !.stop = f.stop]
    BY <1>1, <1>9
  <2>2. DOMAIN s = Fields
    BY <1>2 DEF Typed
  <2>3. DOMAIN t = Fields /\ \A x \in Fields \ {"stop"} : t[x] = s[x]
    BY <2>1, <2>2 DEF Fields
  <2>4. Keeps(s, t, {"stop"})
    BY <2>3 DEF Keeps
  <2>5. /\ t.buffered = s.buffered /\ t.raw = s.raw /\ t.cites = s.cites /\ t.msg = s.msg
        /\ t.reasoning = s.reasoning /\ t.call = s.call /\ t.index = s.index /\ t.items = s.items
    BY <2>4, KeptFields
  <2>6. Keeps(s, t, {"index", "buffered", "raw", "cites", "stop", "wrote", "turn", "turnStart", "replay"})
    BY <2>4 DEF Keeps
  <2>7. Sound(t, h, n) /\ HeldBy(t) = HeldBy(s)
    BY <1>2, <2>5, <2>6, SoundBuffered DEF Typed
  <2>8. ChatShape(t)
    BY <2>5, <2>7 DEF ChatShape, ChatCalls
  <2>9. Keeps(s, t, ChatHearing)
    BY <2>4 DEF Keeps, ChatHearing
  <2> QED BY <2>7, <2>8, <2>9
<1>10. CASE f.k \notin {"reasoning", "text", "refusal", "annotation", "logprobs", "tool", "finish"}
  <2>1. t = Fail(s)
    BY <1>1, <1>10
  <2>2. Failed(t, h, n) /\ Keeps(s, t, {"todo"})
    BY <2>1, FailsSound
  <2> QED BY <2>2 DEF Keeps, ChatHearing, ChatFields, OpenerFields, WriterFields
<1> QED BY <1>5, <1>6, <1>7, <1>8, <1>9, <1>10

(* endCall, at the end of the stream: the writer of the call stays open. *)
LEMMA EndCallSound ==
  ASSUME NEW s, NEW h, NEW n, Sound(s, h, n), ChatShape(s), NEW t, t = EndCall(s)
  PROVE  MayEnd(t, h, n) /\ Keeps(s, t, ChatFields) /\ (t.items # <<>> => HeldThen(t.todo, h) # 0)
<1>1. CASE s.index = 0
  <2>1. t = s /\ Typed(s)
    BY <1>1 DEF EndCall, Sound
  <2>2. Keeps(s, s, ChatFields)
    BY <2>1 DEF Keeps, Typed
  <2> QED BY <1>1, <2>1, <2>2, SoundMayEnd DEF ChatShape, Sound
<1>2. CASE s.index # 0
  <2> DEFINE r == FinishedCall(s)
  <2>1. t = [r EXCEPT !.index = 0, !.call = 0]
    BY <1>2 DEF EndCall
  <2>2. Sound(r, h, n) /\ HoldsCall(r) /\ Keeps(s, r, OpenerFields \cup {"buffered"})
    BY <1>2, FinishedCallSound DEF ChatShape, ChatCalls
  <2> HIDE DEF r
  <2>3. Typed(r) /\ DOMAIN r = Fields
    BY <2>2 DEF Sound, Typed
  <2>4. DOMAIN t = Fields /\ t.call = 0 /\ \A x \in Fields \ {"index", "call"} : t[x] = r[x]
    BY <2>1, <2>3 DEF Fields
  <2>5. Keeps(r, t, {"index", "call"})
    BY <2>4 DEF Keeps
  <2>6. /\ t.todo = r.todo /\ t.items = r.items /\ t.buffered = r.buffered /\ t.raw = r.raw
        /\ t.cites = r.cites /\ t.msg = r.msg /\ t.reasoning = r.reasoning
    BY <2>5, KeptFields
  <2>7. OneWriter(t)
    BY <2>2, <2>4, <2>6 DEF HoldsCall, OneWriter
  <2>8. Typed(t)
    BY <2>3, <2>4, <2>6, <2>7 DEF Typed
  <2>9. Keeps(s, t, ChatFields)
    BY <2>2, <2>5, KeepsTwice DEF ChatFields, OpenerFields, WriterFields
  <2>10. HeldThen(t.todo, h) # 0
    BY <2>2, <2>6 DEF Sound, HoldsCall
  <2>11. Planned(t.todo, h, n) /\ EndsOpen(t.todo)
    BY <2>2, <2>6 DEF Sound
  <2> QED BY <2>8, <2>9, <2>10, <2>11 DEF MayEnd
<1> QED BY <1>1, <1>2

(* finish *)
LEMMA ChatFinishesSound ==
  ASSUME NEW s, NEW h, NEW n, Sound(s, h, n), ChatShape(s), NEW t, t = ChatFinishes(s)
  PROVE  /\ Keeps(s, t, ChatFields)
         /\ \/ Failed(t, h, n)
            \/ Finished(t, h, n) /\ EndsOnlyBy(t.todo, "complete") /\ s.stop \in ChatGoodStops
            \/ /\ Finished(t, h, n) /\ EndsOnlyBy(t.todo, "incomplete") /\ s.stop \in ChatCutStops
               /\ t.items # <<>> => Marks(t.todo, h)
<1> DEFINE r == EndCall(s)
<1>1. t = CASE s.stop \in ChatGoodStops -> Returns(r, "complete")
            [] s.stop \in ChatCutStops  -> Returns(r, "incomplete")
            [] OTHER                    -> Fail(r)
  BY DEF ChatFinishes
<1>2. MayEnd(r, h, n) /\ Keeps(s, r, ChatFields) /\ (r.items # <<>> => HeldThen(r.todo, h) # 0)
  BY EndCallSound
<1> HIDE DEF r
<1>3. CASE s.stop \in ChatGoodStops
  <2>1. t = Returns(r, "complete")
    BY <1>1, <1>3 DEF ChatGoodStops, ChatCutStops
  <2>2. Finished(t, h, n) /\ Keeps(r, t, {"todo"}) /\ EndsOnlyBy(t.todo, "complete")
    BY <1>2, <2>1, Ending
  <2>3. Keeps(s, t, ChatFields)
    BY <1>2, <2>2, KeepsTwice DEF ChatFields, OpenerFields, WriterFields
  <2> QED BY <1>3, <2>2, <2>3
<1>4. CASE s.stop \in ChatCutStops
  <2>1. t = Returns(r, "incomplete")
    BY <1>1, <1>4 DEF ChatGoodStops, ChatCutStops
  <2>2. /\ Finished(t, h, n) /\ Keeps(r, t, {"todo"}) /\ EndsOnlyBy(t.todo, "incomplete")
        /\ HeldThen(r.todo, h) # 0 => Marks(t.todo, h)
    BY <1>2, <2>1, Ending
  <2>3. Keeps(s, t, ChatFields) /\ t.items = r.items
    BY <1>2, <2>2, KeepsTwice, KeptFields DEF ChatFields, OpenerFields, WriterFields
  <2> QED BY <1>2, <1>4, <2>2, <2>3
<1>5. CASE s.stop \notin ChatGoodStops \cup ChatCutStops
  <2>1. t = Fail(r)
    BY <1>1, <1>5
  <2>2. Finished(t, h, n) /\ Keeps(r, t, {"todo"}) /\ EndsOnlyBy(t.todo, "fail")
    BY <1>2, <2>1, Fails
  <2>3. Keeps(s, t, ChatFields)
    BY <1>2, <2>2, KeepsTwice DEF ChatFields, OpenerFields, WriterFields
  <2> QED BY <2>2, <2>3 DEF Failed
<1> QED BY <1>3, <1>4, <1>5

-----------------------------------------------------------------------------
(***************************************************************************)
(* The Anthropic decoder, while Claude streams a block of type b: the      *)
(* block's writer is held, or its raw form is kept and nothing is held.    *)
(* Between blocks the last item stays open, but for an extension.          *)
(***************************************************************************)
Streamed(s) == s.items # <<>> /\ s.items[Len(s.items)].type # "extension"
ClaudeShape(s, b) ==
  /\ b = "text" => s.msg # 0
  /\ b = "tool_use" => s.call # 0
  /\ b = "thinking" => s.reasoning # 0
  /\ b = "raw" <=> s.raw # <<>>
  /\ b = "raw" => HeldBy(s) = 0 /\ s.stop \notin ClaudeCut
  /\ Streamed(s) /\ b # "raw" => HeldBy(s) # 0
  /\ s.cites # 0 => s.msg # 0

(* The block that is open after the frame f; b is the one before it. *)
Opened(f) == IF f.k \in {"stop", "message_delta"} THEN "" ELSE f.of

Lawful(f, b, stop) ==
  \/ f.k = "start" /\ f.of \in BlockTypes /\ b \notin BlockTypes /\ stop \notin ClaudeCut /\ Opened(f) = f.of
  \/ f.k = "delta" /\ f.of \in BlockTypes /\ b = f.of /\ Opened(f) = f.of
  \/ f.k = "signature" /\ b = "thinking" /\ Opened(f) = "thinking"
  \/ f.k = "citation" /\ b = "text" /\ Opened(f) = "text"
  \/ f.k = "stop" /\ b \in BlockTypes /\ Opened(f) \notin BlockTypes
  \/ f.k = "message_delta" /\ b \notin BlockTypes /\ Opened(f) \notin BlockTypes

(* Claude's frames, by what they are of. *)
BlockFrames(stop, full)   == {ClaudeFrame(k, of, stop, full) : k \in {"start", "delta", "stop"}, of \in BlockTypes}
PieceFrames     == {ClaudeFrame("signature", "thinking", "", TRUE), ClaudeFrame("citation", "text", "", TRUE)}
MessageFrames   == {ClaudeFrame("message_delta", "", r, FALSE) : r \in {"end_turn", "max_tokens", "refusal", "pause_turn", "other"}}
ExplainedFrames == {ClaudeFrame("message_delta", "", "refusal", TRUE)}

LEMMA ClaudeFramesAre ==
  ClaudeFrames = BlockFrames("", TRUE) \cup PieceFrames \cup MessageFrames \cup ExplainedFrames
BY DEF ClaudeFrames, BlockFrames, PieceFrames, MessageFrames, ExplainedFrames

LEMMA ClaudeFrameIs ==
  ASSUME NEW f \in ClaudeFrames
  PROVE  \/ f.k \in {"start", "delta", "stop"} /\ f.of \in BlockTypes
         \/ f.k = "signature" /\ f.of = "thinking"
         \/ f.k = "citation" /\ f.of = "text"
         \/ f.k = "message_delta"
<1>1. ASSUME NEW k, NEW of, NEW stop, NEW full, f = ClaudeFrame(k, of, stop, full)
      PROVE  f.k = k /\ f.of = of
  BY <1>1 DEF ClaudeFrame
<1>2. ASSUME NEW stop, NEW full, f \in BlockFrames(stop, full)
      PROVE  f.k \in {"start", "delta", "stop"} /\ f.of \in BlockTypes
  BY <1>2 DEF BlockFrames, ClaudeFrame
<1>3. ASSUME f \in PieceFrames
      PROVE  (f.k = "signature" /\ f.of = "thinking") \/ (f.k = "citation" /\ f.of = "text")
  <2>1. f = ClaudeFrame("signature", "thinking", "", TRUE) \/ f = ClaudeFrame("citation", "text", "", TRUE)
    BY <1>3, Zenon DEF PieceFrames
  <2> QED BY <1>1, <2>1, Zenon
<1>4. ASSUME f \in MessageFrames
      PROVE  f.k = "message_delta"
  <2>1. \E r : f = ClaudeFrame("message_delta", "", r, FALSE)
    BY <1>4, Zenon DEF MessageFrames
  <2> QED BY <1>1, <2>1, Zenon
<1>5. ASSUME f \in ExplainedFrames
      PROVE  f.k = "message_delta"
  <2>1. f = ClaudeFrame("message_delta", "", "refusal", TRUE)
    BY <1>5, Zenon DEF ExplainedFrames
  <2> QED BY <1>1, <2>1, Zenon
<1> QED BY ClaudeFramesAre, <1>2, <1>3, <1>4, <1>5, Zenon

(* Claude keeps to its protocol. *)
LEMMA ClaudeKeepsOrder ==
  ASSUME NEW f \in ClaudeFrames, ClaudeMaySend(f)
  PROVE  Lawful(f, OpenBlock, dec.stop)
<1>1. "" \notin BlockTypes /\ "" \notin ClaudeCut
  BY Zenon DEF BlockTypes, ClaudeCut
<1>2. /\ f.k = "start" => OpenBlock = "" /\ dec.stop = ""
      /\ f.k = "message_delta" => OpenBlock = ""
      /\ f.k = "stop" => OpenBlock = f.of
      /\ f.k = "delta" => OpenBlock = f.of
      /\ f.k \in {"signature", "citation"} => OpenBlock = f.of
  BY Zenon DEF ClaudeMaySend
<1>3. /\ f.k \in {"stop", "message_delta"} => Opened(f) = ""
      /\ f.k \notin {"stop", "message_delta"} => Opened(f) = f.of
  BY Zenon DEF Opened
<1>4. CASE f.k = "start"
  BY <1>1, <1>2, <1>3, <1>4, ClaudeFrameIs, Zenon DEF Lawful
<1>5. CASE f.k = "delta"
  BY <1>1, <1>2, <1>3, <1>5, ClaudeFrameIs, Zenon DEF Lawful
<1>6. CASE f.k = "stop"
  BY <1>1, <1>2, <1>3, <1>6, ClaudeFrameIs, Zenon DEF Lawful
<1>7. CASE f.k = "signature"
  BY <1>1, <1>2, <1>3, <1>7, ClaudeFrameIs, Zenon DEF Lawful
<1>8. CASE f.k = "citation"
  BY <1>1, <1>2, <1>3, <1>8, ClaudeFrameIs, Zenon DEF Lawful
<1>9. CASE f.k = "message_delta"
  BY <1>1, <1>2, <1>3, <1>9, Zenon DEF Lawful
<1> QED BY <1>4, <1>5, <1>6, <1>7, <1>8, <1>9, ClaudeFrameIs, Zenon

-----------------------------------------------------------------------------
(* A list, and the same element some more times. *)
Times(k, o) == [i \in 1..k |-> o]
Grown(u, a, k, o) ==
  /\ Len(u) = Len(a) + k
  /\ \A j \in 1..Len(a) : u[j] = a[j]
  /\ \A j \in Len(a) + 1..Len(u) : u[j] = o

LEMMA Repeated ==
  ASSUME NEW T, NEW a \in Seq(T), NEW k \in Nat, NEW o \in T
  PROVE  a \o Times(k, o) \in Seq(T) /\ Grown(a \o Times(k, o), a, k, o)
<1> DEFINE c == Times(k, o)
           u == a \o c
<1>1. c \in [1..k -> T] /\ \A i \in 1..k : c[i] = o
  BY DEF Times
<1> HIDE DEF c
<1>2. c \in Seq(T) /\ Len(c) = k
  BY <1>1
<1>3. /\ u \in Seq(T) /\ Len(u) = Len(a) + Len(c)
      /\ \A i \in 1..Len(a) + Len(c) : u[i] = IF i <= Len(a) THEN a[i] ELSE c[i - Len(a)]
  BY <1>2, ConcatProperties, Zenon
<1> HIDE DEF u
<1>4. Len(a) \in Nat
  OBVIOUS
<1>5. Grown(u, a, k, o)
  BY <1>1, <1>2, <1>3, <1>4 DEF Grown
<1> QED BY <1>3, <1>5 DEF u, c

(* The annotations of a text block, all on the message that is open. *)
LEMMA CitedPlan ==
  ASSUME NEW s, NEW h, NEW n, Sound(s, h, n), s.msg # 0,
         NEW c, c = [i \in 1..s.cites |-> [op |-> "annotation", w |-> s.msg]]
  PROVE  /\ s.todo \o c \in Seq(PlannedCall) /\ Planned(s.todo \o c, h, n) /\ EndsOpen(s.todo \o c)
         /\ HeldThen(s.todo \o c, h) = s.msg /\ ItemsThen(s.todo \o c, n) = s.msg
         /\ \A j \in 1..Len(s.todo \o c) : (s.todo \o c)[j].w <= Len(s.items)
<1> DEFINE u == s.todo \o c
           o == [op |-> "annotation", w |-> s.msg]
<1>1. /\ s.todo \in Seq(PlannedCall) /\ s.cites \in Nat /\ s.msg \in Nat /\ HeldBy(s) = s.msg
      /\ s.msg = Len(s.items) /\ Len(s.todo) \in Nat
  BY DEF Sound, Typed, HeldBy, OneWriter
<1>2. o \in PlannedCall
  BY <1>1 DEF PlannedCall, DecoderOps, WriterOps
<1>3. u = s.todo \o Times(s.cites, o)
  BY DEF Times
<1>4. o.op = "annotation" /\ o.w = s.msg
  OBVIOUS
<1> HIDE DEF o, u
<1>5. /\ u \in Seq(PlannedCall) /\ Len(u) = Len(s.todo) + s.cites
      /\ \A j \in 1..Len(s.todo) : u[j] = s.todo[j]
      /\ \A j \in Len(s.todo) + 1..Len(u) : u[j] = o
  <2>1. u \in Seq(PlannedCall) /\ Grown(u, s.todo, s.cites, o)
    BY <1>1, <1>2, <1>3, Repeated, Zenon
  <2> QED BY <1>1, <2>1 DEF Grown
<1>6. u = <<>> <=> Len(u) = 0
  BY <1>5, EmptySeq
<1>7. /\ DueOn(o, s.msg, s.msg) /\ LeavesOpen(o) = s.msg /\ o.op \notin Ends
  BY <1>4 DEF DueOn, LeavesOpen, Adds, WriterKinds, WriterOps, Ends
<1>8. HeldThen(s.todo, h) = s.msg /\ ItemsThen(s.todo, n) = s.msg
  BY <1>1 DEF Sound
<1>9. u # <<>> => DueOn(u[1], h, n)
  <2> SUFFICES ASSUME u # <<>>
               PROVE  DueOn(u[1], h, n)
    OBVIOUS
  <2>1. CASE s.todo = <<>>
    <3>1. Len(s.todo) = 0 /\ h = s.msg /\ n = s.msg
      BY <1>8, <2>1 DEF HeldThen, ItemsThen
    <3>2. u[1] = o
      BY <1>5, <1>6, <3>1
    <3> QED BY <1>7, <3>1, <3>2
  <2>2. CASE s.todo # <<>>
    <3>1. Len(s.todo) > 0
      BY <1>1, <2>2
    <3>2. u[1] = s.todo[1]
      BY <1>1, <1>5, <3>1
    <3> QED BY <2>2, <3>2 DEF Sound, Planned
  <2> QED BY <2>1, <2>2
<1>10. ASSUME NEW j \in 1..Len(u) - 1
       PROVE  Follows(u[j], u[j + 1])
  <2>1. CASE j \in 1..Len(s.todo) - 1
    <3>1. u[j] = s.todo[j] /\ u[j + 1] = s.todo[j + 1]
      BY <1>1, <1>5, <2>1
    <3> QED BY <2>1, <3>1 DEF Sound, Planned
  <2>2. CASE j = Len(s.todo)
    <3>1. u[j] = Final(s.todo) /\ u[j + 1] = o /\ s.todo # <<>>
      <4>1. j \in 1..Len(s.todo) /\ j + 1 \in Len(s.todo) + 1..Len(u)
        BY <1>1, <1>5, <2>2
      <4>2. s.todo # <<>>
        BY <4>1
      <4> QED BY <1>5, <2>2, <4>1, <4>2 DEF Final
    <3>2. Final(s.todo).op \notin Ends
      BY <3>1 DEF Sound, EndsOpen
    <3>3. LeavesOpen(Final(s.todo)) = s.msg /\ Final(s.todo).w = s.msg
      BY <1>8, <3>1 DEF HeldThen, ItemsThen
    <3> QED BY <1>7, <3>1, <3>2, <3>3 DEF Follows
  <2>3. CASE j > Len(s.todo)
    <3>1. u[j] = o /\ u[j + 1] = o
      BY <1>1, <1>5, <2>3
    <3> QED BY <1>4, <1>7, <3>1 DEF Follows
  <2> QED BY <1>1, <2>1, <2>2, <2>3
<1>11. CASE s.cites = 0
  <2>1. Len(u) = Len(s.todo) /\ \A j \in 1..Len(u) : u[j] = s.todo[j]
    BY <1>1, <1>5, <1>11
  <2>2. u = s.todo
    BY <1>1, <1>5, <2>1
  <2>3. \A j \in 1..Len(u) : u[j].w <= Len(s.items)
    BY <2>2 DEF Sound, Typed
  <2> QED BY <1>1, <1>8, <2>2, <2>3 DEF u, Sound
<1>12. CASE s.cites # 0
  <2>1. Len(u) \in Len(s.todo) + 1..Len(u) /\ u # <<>>
    BY <1>1, <1>5, <1>6, <1>12
  <2>2. Final(u) = o
    BY <1>5, <2>1 DEF Final
  <2>3. EndsOpen(u) /\ HeldThen(u, h) = s.msg /\ ItemsThen(u, n) = s.msg
    BY <1>4, <1>7, <2>1, <2>2 DEF EndsOpen, HeldThen, ItemsThen
  <2>4. ASSUME NEW j \in 1..Len(u)
        PROVE  u[j].w <= Len(s.items)
    <3>1. CASE j \in 1..Len(s.todo)
      <4>1. u[j] = s.todo[j]
        BY <1>5, <3>1
      <4> QED BY <3>1, <4>1 DEF Sound, Typed
    <3>2. CASE j \in Len(s.todo) + 1..Len(u)
      <4>1. u[j] = o
        BY <1>5, <3>2
      <4> QED BY <1>1, <1>4, <4>1
    <3> QED BY <1>1, <1>5, <3>1, <3>2
  <2>5. Planned(u, h, n)
    BY <1>5, <1>9, <1>10 DEF Planned
  <2> QED BY <1>5, <2>3, <2>4, <2>5 DEF u
<1> QED BY <1>1, <1>11, <1>12

(* Fields of which the emitter's calls depend on nothing. *)
LooseFields == {"index", "buffered", "raw", "cites", "stop", "wrote", "turn", "turnStart", "replay"}
ClaudeHearing == OpenerFields \cup {"raw", "wrote", "stop"}

LEMMA NotRaw ==
  ASSUME NEW s, NEW b, ClaudeShape(s, b), b # "raw"
  PROVE  s.raw = <<>>
BY DEF ClaudeShape

(* A message, a reasoning item or a call is held, and no raw block kept. *)
LEMMA ClaudeShapeHeld ==
  ASSUME NEW t, t.raw = <<>>, HeldBy(t) # 0, NEW b,
         \/ b \notin BlockTypes /\ (t.cites # 0 => t.msg # 0)
         \/ b = "text" /\ t.msg # 0
         \/ b = "tool_use" /\ t.call # 0 /\ t.cites = 0
         \/ b = "thinking" /\ t.reasoning # 0 /\ t.cites = 0
  PROVE  ClaudeShape(t, b)
BY DEF ClaudeShape, BlockTypes

(* startBlock *)
LEMMA StartBlockSound ==
  ASSUME NEW s, NEW h, NEW n, Sound(s, h, n), NEW b, ClaudeShape(s, b), b \notin BlockTypes,
         s.stop \notin ClaudeCut, Len(heard) \in Nat, NEW of \in BlockTypes, NEW t, t = StartBlock(s, of)
  PROVE  Sound(t, h, n) /\ ClaudeShape(t, of) /\ Keeps(s, t, ClaudeHearing)
<1> DEFINE c == CloseOpen(s)
           r == Opens(c, "function_call")
<1>1. t = CASE of = "text"     -> OpenMessage(s)
            [] of = "tool_use" -> [r EXCEPT !.call = Newest(r), !.wrote = FALSE]
            [] of = "thinking" -> NewReasoning(c)
            [] OTHER           -> [c EXCEPT !.raw = <<Piece("raw", Now)>>]
  BY DEF StartBlock
<1>2. Sound(c, h, n) /\ Closed(s, c)
  BY CloseOpenSound
<1>3. s.raw = <<>>
  BY NotRaw DEF BlockTypes
<1>4. /\ c.raw = s.raw /\ c.stop = s.stop /\ HeldBy(c) = 0 /\ Keeps(s, c, WriterFields) /\ Typed(c)
      /\ c.cites = 0
  BY <1>2, KeptFields DEF Closed, WriterFields, ClaudeShape, Sound
<1>5. r = Opens(c, "function_call")
  OBVIOUS
<1> HIDE DEF c, r
<1>6. CASE of = "text"
  <2>1. t = OpenMessage(s)
    BY <1>1, <1>6
  <2>2. Sound(t, h, n) /\ HoldsMessage(t) /\ Keeps(s, t, OpenerFields)
    BY <2>1, OpenMessageSound
  <2>3. t.raw = s.raw
    BY <2>2, KeptFields DEF OpenerFields, WriterFields
  <2>4. ClaudeShape(t, of)
    BY <1>3, <1>6, <2>2, <2>3, ClaudeShapeHeld DEF HoldsMessage
  <2> QED BY <2>2, <2>4 DEF Keeps, ClaudeHearing
<1>7. CASE of = "tool_use"
  <2>1. t = [r EXCEPT !.call = Newest(r), !.wrote = FALSE]
    BY <1>1, <1>7
  <2>2. Keeps(c, r, {"todo", "items"})
    BY <1>4, <1>5, OpensKeeps DEF Adds, WriterKinds
  <2>3. DOMAIN r = Fields /\ r.buffered = c.buffered /\ c.buffered \in Pieces
    BY <1>4, <2>2, KeptFields DEF Typed
  <2>4. /\ DOMAIN t = Fields /\ t.call = Newest(r)
        /\ \A x \in Fields \ {"call", "wrote"} : t[x] = r[x]
    BY <2>1, <2>3 DEF Fields
  <2>5. Keeps(r, t, {"call", "wrote"}) /\ Keeps(r, t, {"call", "wrote", "buffered"})
    BY <2>4 DEF Keeps
  <2>6. t.buffered = r.buffered /\ t.raw = r.raw /\ r.raw = c.raw /\ t.cites = r.cites /\ r.cites = c.cites
    BY <2>2, <2>5, KeptFields
  <2>7. Sound(t, h, n) /\ HeldBy(t) # 0 /\ t.call = HeldBy(t)
    BY <1>2, <1>4, <1>5, <2>3, <2>4, <2>5, <2>6, TakesWriter DEF WriterKinds
  <2>8. ClaudeShape(t, of)
    BY <1>3, <1>4, <1>7, <2>6, <2>7, ClaudeShapeHeld
  <2>9. Keeps(s, t, ClaudeHearing)
    <3>1. Keeps(c, t, {"todo", "items", "call", "wrote"})
      BY <2>2, <2>5, KeepsTwice
    <3> QED BY <1>4, <3>1, KeepsTwice DEF ClaudeHearing, OpenerFields, WriterFields
  <2> QED BY <2>7, <2>8, <2>9
<1>8. CASE of = "thinking"
  <2>1. t = NewReasoning(c)
    BY <1>1, <1>8
  <2>2. Sound(t, h, n) /\ HoldsReasoning(t) /\ Keeps(c, t, {"todo", "items", "reasoning"})
    BY <1>2, <1>4, <2>1, NewReasoningSound
  <2>3. t.raw = c.raw /\ t.cites = c.cites
    BY <2>2, KeptFields
  <2>4. ClaudeShape(t, of)
    BY <1>3, <1>4, <1>8, <2>2, <2>3, ClaudeShapeHeld DEF HoldsReasoning
  <2>5. Keeps(s, t, ClaudeHearing)
    BY <1>4, <2>2, KeepsTwice DEF ClaudeHearing, OpenerFields, WriterFields
  <2> QED BY <2>2, <2>4, <2>5
<1>9. CASE of = "raw"
  <2> DEFINE x == <<Piece("raw", Now)>>
  <2>1. t = [c EXCEPT !.raw = x]
    BY <1>1, <1>9
  <2>2. x \in Pieces /\ x # <<>>
    <3>1. Piece("raw", Now) \in [k: WriterOps \cup {"raw"}, n: Nat]
      BY PieceTyped
    <3> QED BY <3>1 DEF Pieces
  <2> HIDE DEF x
  <2>3. DOMAIN c = Fields /\ c.buffered \in Pieces /\ c.cites \in Nat
    BY <1>4 DEF Typed
  <2>4. DOMAIN t = Fields /\ t.raw = x /\ \A y \in Fields \ {"raw"} : t[y] = c[y]
    BY <2>1, <2>3 DEF Fields
  <2>5. Keeps(c, t, {"raw"}) /\ Keeps(c, t, LooseFields)
    BY <2>4 DEF Keeps, LooseFields
  <2>6. t.buffered = c.buffered /\ t.cites = c.cites /\ t.stop = c.stop
    BY <2>5, KeptFields
  <2>7. Sound(t, h, n) /\ HeldBy(t) = 0
    BY <1>2, <1>4, <2>2, <2>3, <2>4, <2>5, <2>6, SoundBuffered DEF LooseFields
  <2>8. ClaudeShape(t, of)
    BY <1>4, <1>9, <2>2, <2>4, <2>6, <2>7 DEF ClaudeShape
  <2>9. Keeps(s, t, ClaudeHearing)
    BY <1>4, <2>5, KeepsTwice DEF ClaudeHearing, OpenerFields
  <2> QED BY <2>7, <2>8, <2>9
<1> QED BY <1>6, <1>7, <1>8, <1>9 DEF BlockTypes

(* delta *)
LEMMA DeltaSound ==
  ASSUME NEW s, NEW h, NEW n, Sound(s, h, n), NEW of \in BlockTypes, ClaudeShape(s, of),
         Len(heard) \in Nat, NEW t, t = Delta(s, of)
  PROVE  Sound(t, h, n) /\ ClaudeShape(t, of) /\ Keeps(s, t, ClaudeHearing)
<1> DEFINE m == OpenMessage(s)
           r == IF s.reasoning # 0 THEN s ELSE NewReasoning(s)
           w == [s EXCEPT !.wrote = TRUE]
           x == Append(s.raw, Piece("raw", Now))
<1>1. t = CASE of = "raw"      -> [s EXCEPT !.raw = x]
            [] of = "text"     -> Says(m, "text", m.msg)
            [] of = "tool_use" -> Says(w, "arguments", s.call)
            [] OTHER           -> Says(r, "summary", r.reasoning)
  BY DEF Delta
<1>2. Typed(s) /\ DOMAIN s = Fields
  BY DEF Sound, Typed
<1>3. CASE of = "raw"
  <2>1. t = [s EXCEPT !.raw = x]
    BY <1>1, <1>3
  <2>2. x \in Pieces /\ x # <<>>
    <3>1. Piece("raw", Now) \in [k: WriterOps \cup {"raw"}, n: Nat] /\ s.raw \in Pieces
      BY <1>2, PieceTyped DEF Typed
    <3> QED BY <3>1, AppendProperties DEF Pieces
  <2> HIDE DEF x
  <2>3. s.buffered \in Pieces /\ s.cites \in Nat
    BY <1>2 DEF Typed
  <2>4. DOMAIN t = Fields /\ t.raw = x /\ \A y \in Fields \ {"raw"} : t[y] = s[y]
    BY <1>2, <2>1 DEF Fields
  <2>5. Keeps(s, t, {"raw"}) /\ Keeps(s, t, LooseFields)
    BY <2>4 DEF Keeps, LooseFields
  <2>6. /\ t.buffered = s.buffered /\ t.cites = s.cites /\ t.stop = s.stop /\ t.msg = s.msg
        /\ t.items = s.items
    BY <2>5, KeptFields
  <2>7. Sound(t, h, n) /\ HeldBy(t) = HeldBy(s)
    BY <2>2, <2>3, <2>4, <2>5, <2>6, SoundBuffered DEF LooseFields
  <2>8. ClaudeShape(t, of)
    BY <1>3, <2>2, <2>4, <2>6, <2>7 DEF ClaudeShape
  <2>9. Keeps(s, t, ClaudeHearing)
    BY <2>5 DEF Keeps, ClaudeHearing
  <2> QED BY <2>7, <2>8, <2>9
<1>4. CASE of = "text"
  <2>1. m = s /\ s.msg # 0 /\ s.raw = <<>>
    BY <1>4, NotRaw DEF OpenMessage, ClaudeShape
  <2>2. t = Says(s, "text", s.msg) /\ s.msg = HeldBy(s)
    BY <1>1, <1>4, <2>1 DEF HeldBy
  <2>3. /\ Sound(t, h, n) /\ Keeps(s, t, {"todo", "items"}) /\ HeldBy(t) = s.msg /\ t.msg = s.msg
    BY <2>1, <2>2, SayingSound DEF WriterOps
  <2>4. t.raw = s.raw
    BY <2>3, KeptFields
  <2>5. ClaudeShape(t, of)
    BY <1>4, <2>1, <2>3, <2>4, ClaudeShapeHeld
  <2> QED BY <2>3, <2>5 DEF Keeps, ClaudeHearing, OpenerFields, WriterFields
<1>5. CASE of = "tool_use"
  <2>1. s.call # 0 /\ s.call = HeldBy(s) /\ s.msg = 0 /\ s.cites = 0 /\ s.raw = <<>>
    BY <1>2, <1>5, Holds, NotRaw DEF ClaudeShape, HoldsCall
  <2>2. t = Says(w, "arguments", s.call) /\ w = [s EXCEPT !.wrote = TRUE]
    BY <1>1, <1>5
  <2> HIDE DEF w
  <2>3. DOMAIN w = Fields /\ \A y \in Fields \ {"wrote"} : w[y] = s[y]
    BY <1>2, <2>2 DEF Fields
  <2>4. Keeps(s, w, {"wrote"}) /\ Keeps(s, w, LooseFields)
    BY <2>3 DEF Keeps, LooseFields
  <2>5. /\ w.buffered = s.buffered /\ w.raw = s.raw /\ w.cites = s.cites /\ w.call = s.call
    BY <2>4, KeptFields
  <2>6. Sound(w, h, n) /\ HeldBy(w) = HeldBy(s)
    BY <1>2, <2>4, <2>5, SoundBuffered DEF Typed, LooseFields
  <2>7. Sound(t, h, n) /\ Keeps(w, t, {"todo", "items"}) /\ HeldBy(t) = s.call /\ t.call = w.call
    <3>1. s.call = HeldBy(w) /\ s.call # 0 /\ "arguments" \in WriterOps /\ t = Says(w, "arguments", s.call)
      BY <2>1, <2>2, <2>6 DEF WriterOps
    <3> QED BY <2>6, <3>1, SayingSound
  <2>8. t.raw = w.raw /\ t.cites = w.cites
    BY <2>7, KeptFields
  <2>9. ClaudeShape(t, of)
    BY <1>5, <2>1, <2>5, <2>7, <2>8, ClaudeShapeHeld
  <2>10. Keeps(s, t, ClaudeHearing)
    BY <2>4, <2>7, KeepsTwice DEF ClaudeHearing, OpenerFields, WriterFields
  <2> QED BY <2>7, <2>9, <2>10
<1>6. CASE of = "thinking"
  <2>1. r = s /\ s.reasoning # 0 /\ s.reasoning = HeldBy(s) /\ s.msg = 0 /\ s.cites = 0 /\ s.raw = <<>>
    BY <1>2, <1>6, Holds, NotRaw DEF ClaudeShape, HoldsReasoning
  <2>2. t = Says(s, "summary", s.reasoning)
    BY <1>1, <1>6, <2>1
  <2>3. /\ Sound(t, h, n) /\ Keeps(s, t, {"todo", "items"}) /\ HeldBy(t) = s.reasoning
        /\ t.reasoning = s.reasoning
    BY <2>1, <2>2, SayingSound DEF WriterOps
  <2>4. t.raw = s.raw /\ t.cites = s.cites
    BY <2>3, KeptFields
  <2>5. ClaudeShape(t, of)
    BY <1>6, <2>1, <2>3, <2>4, ClaudeShapeHeld
  <2> QED BY <2>3, <2>5 DEF Keeps, ClaudeHearing, OpenerFields, WriterFields
<1> QED BY <1>3, <1>4, <1>5, <1>6 DEF BlockTypes

(* blockStop; extension *)
LEMMA BlockStopSound ==
  ASSUME NEW s, NEW h, NEW n, Sound(s, h, n), NEW of \in BlockTypes, ClaudeShape(s, of),
         NEW b, b \notin BlockTypes, NEW t, t = BlockStop(s)
  PROVE  Sound(t, h, n) /\ ClaudeShape(t, b) /\ Keeps(s, t, ClaudeHearing)
<1> DEFINE q == [s EXCEPT !.raw = <<>>]
           x == Opens(q, "extension")
           c == [i \in 1..s.cites |-> [op |-> "annotation", w |-> s.msg]]
           w == [s EXCEPT !.wrote = TRUE]
<1>1. t = CASE s.call # 0       -> IF s.wrote THEN s ELSE Do(w, "arguments", s.call)
            [] s.reasoning # 0  -> s
            [] s.raw # <<>>     -> PutSaid(x, Newest(x), s.raw)
            [] OTHER            -> [s EXCEPT !.cites = 0, !.todo = s.todo \o c]
  BY DEF BlockStop, PutSaid
<1>2. Typed(s) /\ DOMAIN s = Fields
  BY DEF Sound, Typed
<1>3. Keeps(s, s, ClaudeHearing)
  BY <1>2 DEF Keeps
<1>4. CASE of = "tool_use"
  <2>1. s.call # 0 /\ s.call = HeldBy(s) /\ s.msg = 0 /\ s.reasoning = 0 /\ s.cites = 0 /\ s.raw = <<>>
    BY <1>2, <1>4, Holds, NotRaw DEF ClaudeShape, HoldsCall
  <2>2. CASE s.wrote
    <3>1. t = s
      BY <1>1, <2>1, <2>2
    <3> QED BY <1>3, <2>1, <3>1, ClaudeShapeHeld
  <2>3. CASE ~s.wrote
    <3>1. t = Do(w, "arguments", s.call) /\ w = [s EXCEPT !.wrote = TRUE]
      BY <1>1, <2>1, <2>3
    <3> HIDE DEF w
    <3>2. DOMAIN w = Fields /\ \A y \in Fields \ {"wrote"} : w[y] = s[y]
      BY <1>2, <3>1 DEF Fields
    <3>3. Keeps(s, w, {"wrote"}) /\ Keeps(s, w, LooseFields)
      BY <3>2 DEF Keeps, LooseFields
    <3>4. w.buffered = s.buffered /\ w.raw = s.raw /\ w.cites = s.cites /\ w.call = s.call
      BY <3>3, KeptFields
    <3>5. Sound(w, h, n) /\ HeldBy(w) = HeldBy(s)
      BY <1>2, <3>3, <3>4, SoundBuffered DEF Typed, LooseFields
    <3>6. Sound(t, h, n) /\ Keeps(w, t, {"todo"}) /\ HeldBy(t) = s.call
      BY <2>1, <3>1, <3>5, DoSound DEF WriterOps
    <3>7. t.raw = w.raw /\ t.cites = w.cites
      BY <3>6, KeptFields
    <3>8. ClaudeShape(t, b)
      BY <2>1, <3>4, <3>6, <3>7, ClaudeShapeHeld
    <3>9. Keeps(s, t, ClaudeHearing)
      BY <3>3, <3>6, KeepsTwice DEF ClaudeHearing, OpenerFields, WriterFields
    <3> QED BY <3>6, <3>8, <3>9
  <2> QED BY <2>2, <2>3
<1>5. CASE of = "thinking"
  <2>1. s.reasoning # 0 /\ s.reasoning = HeldBy(s) /\ s.msg = 0 /\ s.call = 0 /\ s.cites = 0 /\ s.raw = <<>>
    BY <1>2, <1>5, Holds, NotRaw DEF ClaudeShape, HoldsReasoning
  <2>2. t = s
    BY <1>1, <2>1
  <2> QED BY <1>3, <2>1, <2>2, ClaudeShapeHeld
<1>6. CASE of = "raw"
  <2>1. HeldBy(s) = 0 /\ s.msg = 0 /\ s.call = 0 /\ s.reasoning = 0 /\ s.raw # <<>> /\ s.cites = 0
    BY <1>2, <1>6, Holds DEF ClaudeShape, HoldsMessage, HoldsReasoning, HoldsCall
  <2>2. t = PutSaid(x, Newest(x), s.raw) /\ x = Opens(q, "extension") /\ q = [s EXCEPT !.raw = <<>>]
    BY <1>1, <2>1
  <2> HIDE DEF x, q
  <2>3. DOMAIN q = Fields /\ q.raw = <<>> /\ \A y \in Fields \ {"raw"} : q[y] = s[y]
    BY <1>2, <2>2 DEF Fields
  <2>4. Keeps(s, q, {"raw"}) /\ Keeps(s, q, LooseFields)
    BY <2>3 DEF Keeps, LooseFields
  <2>5. /\ q.buffered = s.buffered /\ q.cites = s.cites /\ q.msg = s.msg /\ q.reasoning = s.reasoning
        /\ q.call = s.call
    BY <2>4, KeptFields
  <2>6. Sound(q, h, n) /\ HeldBy(q) = 0 /\ q.raw \in Pieces
    <3>1. q.raw \in Pieces
      BY <2>3 DEF Pieces
    <3> QED BY <1>2, <2>1, <2>4, <2>5, <3>1, SoundBuffered DEF Typed, LooseFields
  <2>7. Typed(q) /\ Len(q.items) \in Nat
    BY <2>6, Basic DEF Sound
  <2>8. /\ Keeps(q, x, {"todo", "items"})
        /\ x.todo = Append(q.todo, [op |-> "extension", w |-> Len(q.items) + 1])
        /\ Longer(q.items, x.items, "extension") /\ Newest(x) = Len(q.items) + 1
    BY <2>2, <2>7, OpensKeeps DEF Adds
  <2>9. /\ DOMAIN x = Fields /\ x.msg = 0 /\ x.reasoning = 0 /\ x.call = 0 /\ x.buffered = q.buffered
        /\ x.raw = <<>> /\ x.cites = 0
    BY <2>1, <2>3, <2>5, <2>8, KeptFields
  <2>10. Sound(x, h, n) /\ HeldBy(x) = 0
    <3>1. HeldBy(x) = 0 /\ OneWriter(x)
      BY <2>9 DEF HeldBy, OneWriter
    <3>2. x.items \in Seq(Contents) /\ Len(x.items) = Len(q.items) + 1
      BY <2>8 DEF Longer
    <3>3. x.buffered \in Pieces /\ x.raw \in Pieces /\ x.cites \in Nat
      BY <2>6, <2>7, <2>9, <2>3 DEF Typed
    <3> QED BY <2>6, <2>8, <2>9, <3>1, <3>2, <3>3, SoundOpens DEF Adds
  <2>11. Typed(x) /\ Newest(x) \in 1..Len(x.items) /\ s.raw \in Pieces
    <3>1. Newest(x) = Len(x.items)
      BY DEF Newest
    <3> QED BY <1>2, <2>7, <2>8, <2>10, <3>1 DEF Sound, Typed, Longer
  <2>12. Keeps(x, t, {"items"}) /\ Refilled(x.items, t.items)
    BY <2>2, <2>11, SaidChanges
  <2>13. Sound(t, h, n) /\ HeldBy(t) = 0
    BY <2>10, <2>12, SoundRefilled
  <2>14. t.raw = x.raw /\ t.cites = x.cites
    BY <2>12, KeptFields
  <2>15. ~Streamed(t)
    <3>1. Longer(q.items, t.items, "extension")
      BY <2>7, <2>8, <2>12, LongerRefilled DEF Typed
    <3> QED BY <3>1 DEF Longer, Streamed
  <2>16. ClaudeShape(t, b)
    BY <2>9, <2>13, <2>14, <2>15 DEF ClaudeShape, BlockTypes
  <2>17. Keeps(s, t, ClaudeHearing)
    <3>1. Keeps(q, t, {"todo", "items"})
      BY <2>8, <2>12, KeepsTwice
    <3> QED BY <2>4, <3>1, KeepsTwice DEF ClaudeHearing, OpenerFields, WriterFields
  <2> QED BY <2>13, <2>16, <2>17
<1>7. CASE of = "text"
  <2>1. s.msg # 0 /\ s.msg = HeldBy(s) /\ s.call = 0 /\ s.reasoning = 0 /\ s.raw = <<>>
    BY <1>2, <1>7, Holds, NotRaw DEF ClaudeShape, HoldsMessage
  <2>2. t = [s EXCEPT !.cites = 0, !.todo = s.todo \o c] /\ c = [i \in 1..s.cites |-> [op |-> "annotation", w |-> s.msg]]
    BY <1>1, <2>1
  <2> HIDE DEF c
  <2> DEFINE u == s.todo \o c
  <2>3. /\ u \in Seq(PlannedCall) /\ Planned(u, h, n) /\ EndsOpen(u)
        /\ HeldThen(u, h) = s.msg /\ ItemsThen(u, n) = s.msg
        /\ \A j \in 1..Len(u) : u[j].w <= Len(s.items)
    BY <2>1, <2>2, CitedPlan
  <2>4. t = [s EXCEPT !.cites = 0, !.todo = u]
    BY <2>2
  <2> HIDE DEF u
  <2>5. DOMAIN t = Fields /\ t.cites = 0 /\ t.todo = u /\ \A y \in Fields \ {"cites", "todo"} : t[y] = s[y]
    BY <1>2, <2>4 DEF Fields
  <2>6. Keeps(s, t, {"cites", "todo"})
    BY <2>5 DEF Keeps
  <2>7. /\ t.msg = s.msg /\ t.reasoning = s.reasoning /\ t.call = s.call /\ t.items = s.items
        /\ t.raw = s.raw /\ t.buffered = s.buffered
    BY <2>6, KeptFields
  <2>8. HeldBy(t) = HeldBy(s) /\ OneWriter(t)
    BY <1>2, <2>7, Writers DEF Typed
  <2>9. Typed(t)
    BY <1>2, <2>3, <2>5, <2>7, <2>8 DEF Typed
  <2>10. s.msg = Len(s.items)
    BY <2>1 DEF Sound
  <2>11. Sound(t, h, n)
    BY <2>1, <2>3, <2>5, <2>7, <2>8, <2>9, <2>10 DEF Sound
  <2>12. ClaudeShape(t, b)
    BY <2>1, <2>5, <2>7, <2>8, ClaudeShapeHeld
  <2> QED BY <2>6, <2>11, <2>12 DEF Keeps, ClaudeHearing, OpenerFields, WriterFields
<1> QED BY <1>4, <1>5, <1>6, <1>7 DEF BlockTypes

ClaudeHeard == ClaudeHearing \cup {"cites"}

LEMMA ClaudeHeardMore ==
  ASSUME NEW s, NEW t, Keeps(s, t, ClaudeHearing)
  PROVE  Keeps(s, t, ClaudeHeard)
BY DEF Keeps, ClaudeHeard

LEMMA ClaudeHearsSound ==
  ASSUME NEW s, NEW h, NEW n, Sound(s, h, n), NEW b, ClaudeShape(s, b), Len(heard) \in Nat,
         NEW f, Lawful(f, b, s.stop), NEW t, t = ClaudeHears(s, f)
  PROVE  Sound(t, h, n) /\ ClaudeShape(t, Opened(f)) /\ Keeps(s, t, ClaudeHeard)
<1>1. t = CASE f.k = "start"     -> StartBlock(s, f.of)
            [] f.k = "delta"     -> Delta(s, f.of)
            [] f.k = "signature" -> PutSig(s, s.reasoning, Append(s.items[s.reasoning].sig, Now))
            [] f.k = "citation"  -> [s EXCEPT !.cites = s.cites + 1]
            [] f.k = "stop"      -> BlockStop(s)
            [] OTHER             -> [s EXCEPT !.stop = f.stop]
  BY DEF ClaudeHears, PutSig
<1>2. Typed(s) /\ DOMAIN s = Fields
  BY DEF Sound, Typed
<1>3. CASE f.k = "start"
  <2>1. f.of \in BlockTypes /\ b \notin BlockTypes /\ s.stop \notin ClaudeCut /\ Opened(f) = f.of
    BY <1>3 DEF Lawful
  <2>2. t = StartBlock(s, f.of)
    BY <1>1, <1>3
  <2> QED BY <2>1, <2>2, StartBlockSound, ClaudeHeardMore
<1>4. CASE f.k = "delta"
  <2>1. f.of \in BlockTypes /\ b = f.of /\ Opened(f) = f.of
    BY <1>4 DEF Lawful
  <2>2. t = Delta(s, f.of)
    BY <1>1, <1>4
  <2> QED BY <2>1, <2>2, DeltaSound, ClaudeHeardMore
<1>5. CASE f.k = "signature"
  <2> DEFINE x == Append(s.items[s.reasoning].sig, Now)
  <2>1. b = "thinking" /\ Opened(f) = "thinking"
    BY <1>5 DEF Lawful
  <2>2. /\ s.reasoning # 0 /\ s.reasoning = HeldBy(s) /\ s.msg = 0 /\ s.cites = 0 /\ s.raw = <<>>
        /\ s.reasoning = Len(s.items) /\ Len(s.items) \in Nat
    BY <1>2, <2>1, Holds, NotRaw, Basic DEF ClaudeShape, HoldsReasoning, Sound
  <2>3. s.reasoning \in 1..Len(s.items) /\ s.items \in Seq(Contents)
    BY <1>2, <2>2 DEF Typed
  <2>4. x \in Seq(Nat)
    <3>1. s.items[s.reasoning] \in Contents
      BY <2>3, ElementOfSeq
    <3>2. s.items[s.reasoning].sig \in Seq(Nat)
      BY <3>1 DEF Contents
    <3> QED BY <3>2, PieceTyped, AppendProperties DEF WriterOps
  <2>5. t = PutSig(s, s.reasoning, x)
    BY <1>1, <1>5
  <2> HIDE DEF x
  <2>6. Keeps(s, t, {"items"}) /\ Refilled(s.items, t.items)
    BY <1>2, <2>3, <2>4, <2>5, SigChanges
  <2>7. Sound(t, h, n) /\ HeldBy(t) = HeldBy(s)
    BY <2>6, SoundRefilled
  <2>8. t.raw = s.raw /\ t.cites = s.cites /\ t.reasoning = s.reasoning
    BY <2>6, KeptFields
  <2>9. ClaudeShape(t, Opened(f))
    BY <2>1, <2>2, <2>7, <2>8, ClaudeShapeHeld
  <2> QED BY <2>6, <2>7, <2>9 DEF Keeps, ClaudeHeard, ClaudeHearing, OpenerFields
<1>6. CASE f.k = "citation"
  <2>1. b = "text" /\ Opened(f) = "text"
    BY <1>6 DEF Lawful
  <2>2. s.msg # 0 /\ s.msg = HeldBy(s) /\ s.raw = <<>>
    BY <1>2, <2>1, Holds, NotRaw DEF ClaudeShape, HoldsMessage
  <2>3. t = [s EXCEPT !.cites = s.cites + 1]
    BY <1>1, <1>6
  <2>4. /\ DOMAIN t = Fields /\ t.cites = s.cites + 1 /\ \A y \in Fields \ {"cites"} : t[y] = s[y]
    BY <1>2, <2>3 DEF Fields
  <2>5. Keeps(s, t, {"cites"}) /\ Keeps(s, t, LooseFields)
    BY <2>4 DEF Keeps, LooseFields
  <2>6. t.buffered = s.buffered /\ t.raw = s.raw /\ t.msg = s.msg
    BY <2>5, KeptFields
  <2>7. t.cites \in Nat
    BY <1>2, <2>4 DEF Typed
  <2>8. Sound(t, h, n) /\ HeldBy(t) = HeldBy(s)
    BY <1>2, <2>5, <2>6, <2>7, SoundBuffered DEF Typed, LooseFields
  <2>9. ClaudeShape(t, Opened(f))
    BY <2>1, <2>2, <2>6, <2>8, ClaudeShapeHeld
  <2> QED BY <2>5, <2>8, <2>9 DEF Keeps, ClaudeHeard
<1>7. CASE f.k = "stop"
  <2>1. b \in BlockTypes /\ Opened(f) \notin BlockTypes
    BY <1>7 DEF Lawful
  <2>2. t = BlockStop(s)
    BY <1>1, <1>7
  <2>3. PICK o : o = Opened(f)
    OBVIOUS
  <2>4. Sound(t, h, n) /\ ClaudeShape(t, o) /\ Keeps(s, t, ClaudeHearing)
    BY <2>1, <2>2, <2>3, BlockStopSound
  <2> QED BY <2>3, <2>4, ClaudeHeardMore
<1>8. CASE f.k = "message_delta"
  <2>1. b \notin BlockTypes /\ Opened(f) \notin BlockTypes
    BY <1>8 DEF Lawful
  <2>2. t = [s EXCEPT !.stop = f.stop]
    BY <1>1, <1>8
  <2>3. DOMAIN t = Fields /\ \A y \in Fields \ {"stop"} : t[y] = s[y]
    BY <1>2, <2>2 DEF Fields
  <2>4. Keeps(s, t, {"stop"}) /\ Keeps(s, t, LooseFields)
    BY <2>3 DEF Keeps, LooseFields
  <2>5. /\ t.buffered = s.buffered /\ t.raw = s.raw /\ t.msg = s.msg /\ t.items = s.items
        /\ t.cites = s.cites
    BY <2>4, KeptFields
  <2>6. Sound(t, h, n) /\ HeldBy(t) = HeldBy(s)
    BY <1>2, <2>4, <2>5, SoundBuffered DEF Typed, LooseFields
  <2>7. ClaudeShape(t, Opened(f))
    BY <2>1, <2>5, <2>6 DEF ClaudeShape, BlockTypes, Streamed
  <2> QED BY <2>4, <2>6, <2>7 DEF Keeps, ClaudeHeard, ClaudeHearing
<1> QED BY <1>3, <1>4, <1>5, <1>6, <1>7, <1>8 DEF Lawful

(* finish *)
LEMMA ClaudeFinishesSound ==
  ASSUME NEW s, NEW h, NEW n, Sound(s, h, n), NEW b, ClaudeShape(s, b), Len(heard) \in Nat,
         NEW explained, NEW t, t = ClaudeFinishes(s, explained)
  PROVE  /\ Keeps(s, t, OpenerFields)
         /\ \/ Failed(t, h, n)
            \/ Finished(t, h, n) /\ EndsOnlyBy(t.todo, "complete") /\ s.stop \in ClaudeGood
            \/ /\ Finished(t, h, n) /\ EndsOnlyBy(t.todo, "incomplete") /\ s.stop \in ClaudeCut
               /\ Streamed(t) => Marks(t.todo, h)
<1> DEFINE m == OpenMessage(s)
           u == IF s.stop = "refusal" /\ explained THEN Says(m, "refusal", m.msg) ELSE s
<1>1. /\ s.stop \in ClaudeGood => t = Returns(s, "complete")
      /\ s.stop \in ClaudeCut \ ClaudeGood => t = Returns(u, "incomplete")
      /\ s.stop \notin ClaudeGood \cup ClaudeCut => t = Fail(s)
  <2>1. ClaudeCut \cap ClaudeGood = {}
    BY DEF ClaudeCut, ClaudeGood
  <2>2. m = OpenMessage(s)
    OBVIOUS
  <2>3. t = CASE s.stop \in ClaudeGood -> Returns(s, "complete")
              [] s.stop \in ClaudeCut  -> Returns(u, "incomplete")
              [] OTHER                 -> Fail(s)
    BY DEF ClaudeFinishes
  <2> HIDE DEF m, u
  <2> QED BY <2>1, <2>3
<1>2. ClaudeCut \cap ClaudeGood = {}
  BY DEF ClaudeCut, ClaudeGood
<1>3. Keeps(s, s, {"todo", "items"}) /\ Typed(s)
  BY DEF Keeps, Sound, Typed
<1>4. CASE s.stop \in ClaudeGood
  <2>1. Finished(t, h, n) /\ Keeps(s, t, {"todo"}) /\ EndsOnlyBy(t.todo, "complete")
    BY <1>1, <1>4, SoundMayEnd, Ending
  <2> QED BY <1>4, <2>1 DEF Keeps, OpenerFields, WriterFields
<1>5. CASE s.stop \in ClaudeCut
  <2>1. t = Returns(u, "incomplete")
    BY <1>1, <1>2, <1>5
  <2>2. /\ Sound(u, h, n) /\ Keeps(s, u, OpenerFields)
        /\ Streamed(u) => HeldBy(u) # 0
    <3>1. CASE u = s
      <4>1. b # "raw"
        BY <1>5 DEF ClaudeShape
      <4> QED BY <1>3, <3>1, <4>1 DEF ClaudeShape, Keeps, OpenerFields, WriterFields
    <3>2. CASE u = Says(m, "refusal", m.msg)
      <4>1. Sound(m, h, n) /\ HoldsMessage(m) /\ Keeps(s, m, OpenerFields)
        BY OpenMessageSound
      <4> HIDE DEF m, u
      <4>2. Sound(u, h, n) /\ Keeps(m, u, {"todo", "items"}) /\ HeldBy(u) = m.msg
        BY <3>2, <4>1, SayingSound DEF HoldsMessage, WriterOps
      <4>3. Keeps(s, u, OpenerFields)
        BY <4>1, <4>2, KeepsTwice DEF OpenerFields, WriterFields
      <4> QED BY <4>1, <4>2, <4>3 DEF HoldsMessage
    <3> QED BY <3>1, <3>2
  <2> HIDE DEF u
  <2>3. /\ Finished(t, h, n) /\ Keeps(u, t, {"todo"}) /\ EndsOnlyBy(t.todo, "incomplete")
        /\ HeldThen(u.todo, h) # 0 => Marks(t.todo, h)
    BY <2>1, <2>2, SoundMayEnd, Ending
  <2>4. t.items = u.items
    BY <2>3, KeptFields
  <2>5. Streamed(t) => Marks(t.todo, h)
    BY <2>2, <2>3, <2>4 DEF Sound, Streamed
  <2>6. Keeps(s, t, OpenerFields)
    BY <2>2, <2>3, KeepsTwice DEF OpenerFields, WriterFields
  <2> QED BY <1>5, <2>3, <2>5, <2>6
<1>6. CASE s.stop \notin ClaudeGood \cup ClaudeCut
  <2>1. Failed(t, h, n) /\ Keeps(s, t, {"todo"})
    BY <1>1, <1>6, FailsSound
  <2> QED BY <2>1 DEF Keeps, OpenerFields, WriterFields
<1> QED BY <1>4, <1>5, <1>6

(* A paused turn is resumed. *)
LEMMA ResumedSound ==
  ASSUME NEW s, NEW h, NEW n, Sound(s, h, n), NEW b, ClaudeShape(s, b),
         NEW t, Keeps(s, t, {"turn", "stop", "turnStart", "replay"}), t.stop \notin ClaudeCut
  PROVE  Sound(t, h, n) /\ ClaudeShape(t, b)
<1>1. /\ t.buffered = s.buffered /\ t.raw = s.raw /\ t.msg = s.msg /\ t.items = s.items
      /\ t.cites = s.cites /\ t.reasoning = s.reasoning /\ t.call = s.call
  BY KeptFields
<1>2. Keeps(s, t, LooseFields) /\ Typed(s)
  BY DEF Keeps, LooseFields, Sound
<1>3. Sound(t, h, n) /\ HeldBy(t) = HeldBy(s)
  BY <1>1, <1>2, SoundBuffered DEF Typed, LooseFields
<1>4. ClaudeShape(t, b)
  BY <1>1, <1>3 DEF ClaudeShape, Streamed
<1> QED BY <1>3, <1>4

-----------------------------------------------------------------------------
(***************************************************************************)
(* The Gemini decoder, after a frame of kind k: what text, a thought or    *)
(* citations went to is still open, and no good finish reason has come.    *)
(***************************************************************************)
GoodStops == ChatGoodStops \cup ClaudeGood \cup {"STOP"}
StreamedKinds == {"text", "thought", "grounding"}
GeminiShape(s, k) == s.stop \notin GoodStops /\ (k \in StreamedKinds => HeldBy(s) # 0)
GeminiHearing == OpenerFields \cup {"stop"}

LEMMA SignatureTyped ==
  ASSUME Len(heard) \in Nat
  PROVE  <<Now>> \in Seq(Nat) /\ <<>> \in Seq(Nat)
BY PieceTyped DEF WriterOps

(* The signature of a part that is no thought. *)
LEMMA SignedSound ==
  ASSUME NEW s, NEW h, NEW n, Sound(s, h, n), Len(heard) \in Nat, NEW t, t = Signed(s)
  PROVE  Sound(t, h, n) /\ HeldBy(t) = 0 /\ Keeps(s, t, OpenerFields)
<1> DEFINE r == OpenReasoning(s)
           u == PutSig(r, r.reasoning, <<Now>>)
<1>1. t = CloseOpen(u) /\ r = OpenReasoning(s) /\ u = PutSig(r, r.reasoning, <<Now>>)
  BY DEF Signed, PutSig
<1> HIDE DEF r, u
<1>2. Sound(r, h, n) /\ HoldsReasoning(r) /\ Keeps(s, r, OpenerFields)
  BY <1>1, OpenReasoningSound
<1>3. Typed(r) /\ r.reasoning \in 1..Len(r.items)
  <2>1. r.reasoning = Len(r.items) /\ Len(r.items) \in Nat /\ r.reasoning # 0
    BY <1>2, Basic DEF Sound, HoldsReasoning
  <2> QED BY <1>2, <2>1 DEF Sound
<1>4. Keeps(r, u, {"items"}) /\ Refilled(r.items, u.items)
  BY <1>1, <1>3, SignatureTyped, SigChanges
<1>5. Sound(u, h, n)
  BY <1>2, <1>4, SoundRefilled
<1>6. Sound(t, h, n) /\ HeldBy(t) = 0 /\ Keeps(u, t, WriterFields)
  BY <1>1, <1>5, CloseOpenSound DEF Closed
<1>7. Keeps(s, u, OpenerFields)
  BY <1>2, <1>4, KeepsTwice DEF OpenerFields
<1>8. Keeps(s, t, OpenerFields)
  BY <1>6, <1>7, KeepsTwice DEF OpenerFields
<1> QED BY <1>6, <1>8

(* An item that is added whole. *)
LEMMA ExtensionSound ==
  ASSUME NEW s, NEW h, NEW n, Sound(s, h, n), HeldBy(s) = 0, NEW t, t = Opens(s, "extension")
  PROVE  /\ Sound(t, h, n) /\ Keeps(s, t, {"todo", "items"})
         /\ Newest(t) \in 1..Len(t.items)
<1>1. Typed(s) /\ Len(s.items) \in Nat /\ s.msg = 0 /\ s.reasoning = 0 /\ s.call = 0
  BY Basic, Holds DEF Sound, HoldsMessage, HoldsReasoning, HoldsCall
<1>2. /\ Keeps(s, t, {"todo", "items"})
      /\ t.todo = Append(s.todo, [op |-> "extension", w |-> Len(s.items) + 1])
      /\ Longer(s.items, t.items, "extension")
  BY <1>1, OpensKeeps DEF Adds
<1>3. /\ DOMAIN t = Fields /\ t.msg = 0 /\ t.reasoning = 0 /\ t.call = 0 /\ t.buffered = s.buffered
      /\ t.raw = s.raw /\ t.cites = s.cites
  BY <1>1, <1>2, KeptFields
<1>4. HeldBy(t) = 0 /\ OneWriter(t)
  BY <1>3 DEF HeldBy, OneWriter
<1>5. t.items \in Seq(Contents) /\ Len(t.items) = Len(s.items) + 1
  BY <1>2 DEF Longer
<1>6. t.buffered \in Pieces /\ t.raw \in Pieces /\ t.cites \in Nat
  BY <1>1, <1>3 DEF Typed
<1>7. Sound(t, h, n)
  BY <1>2, <1>3, <1>4, <1>5, <1>6, SoundOpens DEF Adds
<1>8. Newest(t) \in 1..Len(t.items)
  BY <1>1, <1>5 DEF Newest
<1> QED BY <1>2, <1>7, <1>8

(* What Says does, field by field. *)
PlanOf(todo, w, op)  == Append(todo, [op |-> op, w |-> w])
SaidTo(items, w, op) == [items EXCEPT ![w].said = Append(items[w].said, Piece(op, Now))]

LEMMA SaysFields ==
  ASSUME NEW s, DOMAIN s = Fields, NEW op, NEW w, NEW t, t = Says(s, op, w)
  PROVE  /\ Keeps(s, t, {"todo", "items"})
         /\ t.todo = PlanOf(s.todo, w, op) /\ t.items = SaidTo(s.items, w, op)
<1> DEFINE r == Do(s, op, w)
<1>1. t = [r EXCEPT !.items = SaidTo(r.items, w, op)] /\ r = Do(s, op, w)
  BY DEF Says, SaidTo
<1> HIDE DEF r
<1>2. Keeps(s, r, {"todo"}) /\ r.todo = PlanOf(s.todo, w, op)
  BY <1>1, DoKeeps DEF PlanOf
<1>3. DOMAIN r = Fields /\ r.items = s.items
  BY <1>2, KeptFields
<1>4. DOMAIN t = Fields /\ t.items = SaidTo(r.items, w, op) /\ \A f \in Fields \ {"items"} : t[f] = r[f]
  BY <1>1, <1>3 DEF Fields
<1>5. Keeps(r, t, {"items"}) /\ t.todo = r.todo
  BY <1>4 DEF Keeps, Fields
<1> QED BY <1>2, <1>3, <1>4, <1>5, KeepsTwice

(* A call that arrives whole: opened, written and closed by one frame. *)
LEMMA WholeCallSound ==
  ASSUME NEW s, NEW h, NEW n, Sound(s, h, n), HeldBy(s) = 0, Len(heard) \in Nat,
         NEW c, c = Opens(s, "function_call"),
         NEW t, t = Do(Says(c, "arguments", Newest(c)), "close", Newest(c))
  PROVE  Sound(t, h, n) /\ Keeps(s, t, OpenerFields)
<1> DEFINE v == [c EXCEPT !.call = Newest(c)]
           u == Says(v, "arguments", Newest(c))
           r == Says(c, "arguments", Newest(c))
<1>1. t = Do(r, "close", Newest(c)) /\ r = Says(c, "arguments", Newest(c)) /\ u = Says(v, "arguments", Newest(c))
  OBVIOUS
<1>2. /\ Keeps(s, c, {"todo", "items"}) /\ Typed(s)
      /\ s.msg = 0 /\ s.reasoning = 0 /\ s.call = 0 /\ s.buffered \in Pieces
  BY OpensKeeps, Holds DEF Sound, Adds, WriterKinds, Typed, HoldsMessage, HoldsReasoning, HoldsCall
<1>3. /\ DOMAIN c = Fields /\ c.buffered = s.buffered /\ c.msg = 0 /\ c.reasoning = 0 /\ c.call = 0
      /\ c.cites = s.cites
  BY <1>2, KeptFields
<1>4. DOMAIN v = Fields /\ v.call = Newest(c) /\ \A f \in Fields \ {"call"} : v[f] = c[f]
  BY <1>3 DEF Fields
<1> HIDE DEF v, u, r
<1>5. Keeps(c, v, {"call"}) /\ Keeps(c, v, {"call", "wrote", "buffered"}) /\ v.buffered = c.buffered
      /\ v.todo = c.todo /\ v.items = c.items
  BY <1>4 DEF Keeps, Fields
<1>6. Sound(v, h, n) /\ HeldBy(v) # 0 /\ v.call = HeldBy(v)
  BY <1>2, <1>3, <1>4, <1>5, TakesWriter DEF WriterKinds
<1>7. Sound(u, h, n) /\ HeldBy(u) = Newest(c) /\ Newest(c) # 0
  BY <1>1, <1>4, <1>6, SayingSound DEF WriterOps
<1>8. /\ Keeps(c, r, {"todo", "items"}) /\ Keeps(v, u, {"todo", "items"})
      /\ r.todo = u.todo /\ r.items = u.items
  BY <1>1, <1>3, <1>4, <1>5, SaysFields
<1>9. Keeps(u, r, {"call"})
  BY <1>4, <1>8 DEF Keeps
<1>10. r.msg = 0 /\ r.reasoning = 0 /\ r.call = 0 /\ r.cites = c.cites /\ c.cites \in Nat
  BY <1>2, <1>3, <1>8, KeptFields DEF Typed
<1>11. Sound(t, h, n)
  <2> DEFINE w == Newest(c)
             fs == {"call"}
  <2>1. t = Do(r, "close", w) /\ HeldBy(u) = w /\ w # 0
    BY <1>1, <1>7
  <2>2. Keeps(u, r, fs) /\ fs \subseteq {"msg", "reasoning", "call", "cites", "index"}
    BY <1>9
  <2>3. r.cites \in Nat
    BY <1>10
  <2> HIDE DEF w, fs
  <2>4. w = HeldBy(u) /\ r.msg = 0 /\ r.reasoning = 0 /\ r.call = 0 /\ Sound(u, h, n)
    BY <1>7, <1>10, <2>1
  <2>5. HeldBy(u) # 0 /\ t = Do(r, "close", HeldBy(u))
    BY <2>1
  <2>6. \A ww : ww = HeldBy(u) /\ ww # 0 => Sound(Do(r, "close", ww), h, n)
    BY <2>2, <2>3, <2>4, GivesUp
  <2> QED BY <2>5, <2>6
<1>12. Keeps(s, t, OpenerFields)
  <2>1. Keeps(s, r, {"todo", "items"})
    BY <1>2, <1>8, KeepsTwice
  <2>2. Keeps(r, t, {"todo"})
    <3>1. DOMAIN r = Fields
      BY <1>8, KeptFields
    <3> QED BY <1>1, <3>1, DoKeeps
  <2> QED BY <2>1, <2>2, KeepsTwice DEF OpenerFields, WriterFields
<1> QED BY <1>11, <1>12

(* part; extension *)
LEMMA GeminiPartSound ==
  ASSUME NEW s, NEW h, NEW n, Sound(s, h, n), Len(heard) \in Nat,
         NEW f, f.k \in {"text", "thought", "call", "extension", "empty"}, NEW t, t = GeminiPart(s, f)
  PROVE  /\ Sound(t, h, n) /\ (f.k \in StreamedKinds => HeldBy(t) # 0)
         /\ Keeps(s, t, OpenerFields)
<1> DEFINE p == IF f.sig /\ f.k # "thought" THEN Signed(s) ELSE s
           o == CloseOpen(p)
           c == Opens(o, IF f.k = "call" THEN "function_call" ELSE "extension")
           m == OpenMessage(p)
           r == OpenReasoning(p)
           u == Says(r, "summary", r.reasoning)
           x == <<Piece("raw", Now)>>
           y == IF f.sig THEN <<Now>> ELSE <<>>
<1>1. t = CASE f.k = "call"    -> Do(Says(c, "arguments", Newest(c)), "close", Newest(c))
            [] f.k = "thought" -> IF f.sig THEN PutSig(u, r.reasoning, <<Now>>) ELSE u
            [] f.k = "text"    -> Says(m, "text", m.msg)
            [] f.k = "extension" -> PutSig(PutSaid(c, Newest(c), x), Newest(c), y)
            [] OTHER           -> p
  BY DEF GeminiPart, PutSig, PutSaid
<1>2. Sound(p, h, n) /\ Keeps(s, p, OpenerFields)
  <2>1. CASE f.sig /\ f.k # "thought"
    <3>1. p = Signed(s)
      BY <2>1
    <3> QED BY <3>1, SignedSound
  <2>2. CASE ~(f.sig /\ f.k # "thought")
    <3>1. p = s /\ DOMAIN s = Fields
      BY <2>2 DEF Sound, Typed
    <3> QED BY <3>1 DEF Keeps
  <2> QED BY <2>1, <2>2
<1>3. /\ o = CloseOpen(p) /\ m = OpenMessage(p) /\ r = OpenReasoning(p) /\ u = Says(r, "summary", r.reasoning)
      /\ c = Opens(o, IF f.k = "call" THEN "function_call" ELSE "extension")
  OBVIOUS
<1>4. x \in Pieces /\ y \in Seq(Nat)
  <2>1. Piece("raw", Now) \in [k: WriterOps \cup {"raw"}, n: Nat]
    BY PieceTyped
  <2> QED BY <2>1, SignatureTyped DEF Pieces
<1> HIDE DEF p, o, c, m, r, u, x, y
<1>5. Sound(o, h, n) /\ HeldBy(o) = 0 /\ Keeps(s, o, OpenerFields)
  <2>1. Sound(o, h, n) /\ HeldBy(o) = 0 /\ Keeps(p, o, WriterFields)
    BY <1>2, <1>3, CloseOpenSound DEF Closed
  <2> QED BY <1>2, <2>1, KeepsTwice DEF OpenerFields
<1>6. CASE f.k = "call"
  <2>1. c = Opens(o, "function_call") /\ t = Do(Says(c, "arguments", Newest(c)), "close", Newest(c))
    BY <1>1, <1>3, <1>6
  <2>2. Sound(t, h, n) /\ Keeps(o, t, OpenerFields)
    BY <1>5, <2>1, WholeCallSound
  <2>3. Keeps(s, t, OpenerFields)
    BY <1>5, <2>2, KeepsTwice
  <2> QED BY <1>6, <2>2, <2>3 DEF StreamedKinds
<1>7. CASE f.k = "thought"
  <2>1. t = IF f.sig THEN PutSig(u, r.reasoning, <<Now>>) ELSE u
    BY <1>1, <1>7
  <2>2. Sound(r, h, n) /\ HoldsReasoning(r) /\ Keeps(p, r, OpenerFields)
    BY <1>2, <1>3, OpenReasoningSound
  <2>3. Sound(u, h, n) /\ HeldBy(u) # 0 /\ HeldBy(u) = r.reasoning /\ Keeps(r, u, {"todo", "items"})
    BY <1>3, <2>2, SayingSound DEF HoldsReasoning, WriterOps
  <2>4. Keeps(s, u, OpenerFields)
    <3>1. Keeps(s, r, OpenerFields)
      BY <1>2, <2>2, KeepsTwice
    <3> QED BY <2>3, <3>1, KeepsTwice DEF OpenerFields, WriterFields
  <2>5. CASE f.sig
    <3>1. t = PutSig(u, r.reasoning, <<Now>>)
      BY <2>1, <2>5
    <3>2. Typed(u) /\ r.reasoning \in 1..Len(u.items)
      <4>1. Typed(u) /\ r.reasoning = Len(u.items) /\ Len(u.items) \in Nat /\ r.reasoning # 0
        BY <2>3, Basic DEF Sound
      <4> QED BY <4>1
    <3>3. Keeps(u, t, {"items"}) /\ Refilled(u.items, t.items)
      BY <3>1, <3>2, SignatureTyped, SigChanges
    <3>4. Sound(t, h, n) /\ HeldBy(t) # 0
      BY <2>3, <3>3, SoundRefilled
    <3>5. Keeps(s, t, OpenerFields)
      BY <2>4, <3>3, KeepsTwice DEF OpenerFields
    <3> QED BY <3>4, <3>5
  <2>6. CASE ~f.sig
    BY <2>1, <2>3, <2>4, <2>6
  <2> QED BY <2>5, <2>6
<1>8. CASE f.k = "text"
  <2>1. t = Says(m, "text", m.msg)
    BY <1>1, <1>8
  <2>2. Sound(m, h, n) /\ HoldsMessage(m) /\ Keeps(p, m, OpenerFields)
    BY <1>2, <1>3, OpenMessageSound
  <2>3. Sound(t, h, n) /\ HeldBy(t) # 0 /\ Keeps(m, t, {"todo", "items"})
    BY <2>1, <2>2, SayingSound DEF HoldsMessage, WriterOps
  <2>4. Keeps(s, m, OpenerFields)
    BY <1>2, <2>2, KeepsTwice
  <2>5. Keeps(s, t, OpenerFields)
    BY <2>3, <2>4, KeepsTwice DEF OpenerFields, WriterFields
  <2> QED BY <2>3, <2>5
<1>9. CASE f.k = "extension"
  <2> DEFINE q == PutSaid(c, Newest(c), x)
  <2>1. c = Opens(o, "extension") /\ t = PutSig(q, Newest(c), y) /\ q = PutSaid(c, Newest(c), x)
    BY <1>1, <1>3, <1>9
  <2> HIDE DEF q
  <2>2. Sound(c, h, n) /\ Keeps(o, c, {"todo", "items"}) /\ Newest(c) \in 1..Len(c.items)
    BY <1>5, <2>1, ExtensionSound
  <2>3. Keeps(c, q, {"items"}) /\ Refilled(c.items, q.items)
    BY <1>4, <2>1, <2>2, SaidChanges DEF Sound
  <2>4. Sound(q, h, n) /\ Newest(c) \in 1..Len(q.items)
    BY <2>2, <2>3, SoundRefilled DEF Refilled
  <2>5. Keeps(q, t, {"items"}) /\ Refilled(q.items, t.items)
    BY <1>4, <2>1, <2>4, SigChanges DEF Sound
  <2>6. Sound(t, h, n)
    BY <2>4, <2>5, SoundRefilled
  <2>7. Keeps(o, t, {"todo", "items"})
    <3>1. Keeps(c, t, {"items"})
      BY <2>3, <2>5, KeepsTwice
    <3> QED BY <2>2, <3>1, KeepsTwice
  <2>8. Keeps(s, t, OpenerFields)
    BY <1>5, <2>7, KeepsTwice DEF OpenerFields, WriterFields
  <2> QED BY <1>9, <2>6, <2>8 DEF StreamedKinds
<1>10. CASE f.k = "empty"
  <2>1. t = p
    BY <1>1, <1>10
  <2> QED BY <1>2, <1>10, <2>1 DEF StreamedKinds
<1> QED BY <1>6, <1>7, <1>8, <1>9, <1>10

(* finish *)
LEMMA GeminiFinishesSound ==
  ASSUME NEW s, NEW h, NEW n, Sound(s, h, n), NEW stop, s.stop = stop, NEW t, t = GeminiFinishes(s, stop)
  PROVE  /\ Keeps(s, t, {"todo"})
         /\ \/ Failed(t, h, n)
            \/ Finished(t, h, n) /\ EndsOnlyBy(t.todo, "complete") /\ t.stop \in GoodStops
            \/ /\ Finished(t, h, n) /\ EndsOnlyBy(t.todo, "incomplete") /\ t.stop \notin GoodStops
               /\ HeldBy(s) # 0 => Marks(t.todo, h)
<1>1. t = CASE stop = "STOP"                     -> Returns(s, "complete")
            [] stop \in {"MAX_TOKENS", "SAFETY"} -> Returns(s, "incomplete")
            [] OTHER                             -> Fail(s)
  BY DEF GeminiFinishes
<1>2. MayEnd(s, h, n) /\ HeldThen(s.todo, h) = HeldBy(s)
  BY SoundMayEnd DEF Sound
<1>3. CASE stop = "STOP"
  <2>1. t = Returns(s, "complete")
    BY <1>1, <1>3
  <2>2. Finished(t, h, n) /\ Keeps(s, t, {"todo"}) /\ EndsOnlyBy(t.todo, "complete")
    BY <1>2, <2>1, Ending
  <2>3. t.stop \in GoodStops
    BY <1>3, <2>2, KeptFields DEF GoodStops
  <2> QED BY <2>2, <2>3
<1>4. CASE stop \in {"MAX_TOKENS", "SAFETY"}
  <2>1. t = Returns(s, "incomplete")
    BY <1>1, <1>4
  <2>2. /\ Finished(t, h, n) /\ Keeps(s, t, {"todo"}) /\ EndsOnlyBy(t.todo, "incomplete")
        /\ HeldThen(s.todo, h) # 0 => Marks(t.todo, h)
    BY <1>2, <2>1, Ending
  <2>3. t.stop \notin GoodStops
    BY <1>4, <2>2, KeptFields DEF GoodStops, ChatGoodStops, ClaudeGood
  <2> QED BY <1>2, <2>2, <2>3
<1>5. CASE stop \notin {"STOP", "MAX_TOKENS", "SAFETY"}
  <2>1. t = Fail(s)
    BY <1>1, <1>5
  <2> QED BY <2>1, FailsSound
<1> QED BY <1>3, <1>4, <1>5

(* chunk; ground *)
LEMMA GeminiHearsSound ==
  ASSUME NEW s, NEW h, NEW n, Sound(s, h, n), NEW k, GeminiShape(s, k), Len(heard) \in Nat,
         NEW f, f.k \in {"text", "thought", "call", "extension", "empty", "logprobs", "grounding", "blocked", "finish"},
         NEW t, t = GeminiHears(s, f)
  PROVE  /\ Keeps(s, t, GeminiHearing)
         /\ \/ Sound(t, h, n) /\ GeminiShape(t, f.k)
            \/ Failed(t, h, n)
            \/ Finished(t, h, n) /\ EndsOnlyBy(t.todo, "complete") /\ t.stop \in GoodStops
            \/ /\ Finished(t, h, n) /\ EndsOnlyBy(t.todo, "incomplete") /\ t.stop \notin GoodStops
               /\ k \in StreamedKinds => Marks(t.todo, h)
<1> DEFINE m == OpenMessage(s)
           e == [s EXCEPT !.stop = f.stop]
<1>1. t = CASE f.k = "blocked"   -> Returns(s, "incomplete")
            [] f.k = "logprobs"  -> IF s.msg = 0 THEN s ELSE Do(s, "logprobs", s.msg)
            [] f.k = "grounding" -> Do(m, "annotation", m.msg)
            [] f.k = "finish"    -> GeminiFinishes(e, f.stop)
            [] OTHER             -> GeminiPart(s, f)
  BY DEF GeminiHears
<1>2. m = OpenMessage(s) /\ DOMAIN s = Fields /\ Typed(s)
  BY DEF Sound, Typed
<1>3. DOMAIN e = Fields /\ e.stop = f.stop /\ \A y \in Fields \ {"stop"} : e[y] = s[y]
  BY <1>2 DEF Fields
<1> HIDE DEF m, e
<1>4. CASE f.k = "blocked"
  <2>1. t = Returns(s, "incomplete")
    BY <1>1, <1>4
  <2>2. /\ Finished(t, h, n) /\ Keeps(s, t, {"todo"}) /\ EndsOnlyBy(t.todo, "incomplete")
        /\ HeldBy(s) # 0 => Marks(t.todo, h)
    BY <2>1, SoundMayEnd, Ending DEF Sound
  <2>3. t.stop = s.stop
    BY <2>2, KeptFields
  <2> QED BY <2>2, <2>3 DEF GeminiShape, Keeps, GeminiHearing, OpenerFields, WriterFields
<1>5. CASE f.k = "logprobs"
  <2>1. t = IF s.msg = 0 THEN s ELSE Do(s, "logprobs", s.msg)
    BY <1>1, <1>5
  <2>2. Sound(t, h, n) /\ Keeps(s, t, {"todo"})
    <3>1. CASE s.msg = 0
      BY <1>2, <2>1, <3>1 DEF Keeps
    <3>2. CASE s.msg # 0
      <4>1. s.msg = HeldBy(s) /\ t = Do(s, "logprobs", s.msg)
        BY <2>1, <3>2 DEF HeldBy
      <4> QED BY <3>2, <4>1, DoSound DEF WriterOps
    <3> QED BY <3>1, <3>2
  <2>3. t.stop = s.stop
    BY <2>2, KeptFields
  <2>4. GeminiShape(t, f.k)
    BY <1>5, <2>3 DEF GeminiShape, StreamedKinds
  <2> QED BY <2>2, <2>4 DEF Keeps, GeminiHearing, OpenerFields, WriterFields
<1>6. CASE f.k = "grounding"
  <2>1. t = Do(m, "annotation", m.msg)
    BY <1>1, <1>6
  <2>2. Sound(m, h, n) /\ HoldsMessage(m) /\ Keeps(s, m, OpenerFields)
    BY <1>2, OpenMessageSound
  <2>3. Sound(t, h, n) /\ Keeps(m, t, {"todo"}) /\ HeldBy(t) # 0
    BY <2>1, <2>2, DoSound DEF HoldsMessage, WriterOps
  <2>4. Keeps(s, t, OpenerFields)
    BY <2>2, <2>3, KeepsTwice DEF OpenerFields, WriterFields
  <2>5. t.stop = s.stop
    BY <2>4, KeptFields DEF OpenerFields, WriterFields
  <2>6. GeminiShape(t, f.k)
    BY <2>3, <2>5 DEF GeminiShape
  <2> QED BY <2>3, <2>4, <2>6 DEF Keeps, GeminiHearing
<1>7. CASE f.k = "finish"
  <2>1. t = GeminiFinishes(e, f.stop)
    BY <1>1, <1>7
  <2>2. Keeps(s, e, {"stop"}) /\ Keeps(s, e, LooseFields)
    BY <1>3 DEF Keeps, LooseFields
  <2>3. e.buffered = s.buffered /\ e.raw = s.raw /\ e.cites = s.cites
    BY <2>2, KeptFields
  <2>4. Sound(e, h, n) /\ HeldBy(e) = HeldBy(s)
    BY <1>2, <2>2, <2>3, SoundBuffered DEF Typed, LooseFields
  <2>5. /\ Keeps(e, t, {"todo"})
        /\ \/ Failed(t, h, n)
           \/ Finished(t, h, n) /\ EndsOnlyBy(t.todo, "complete") /\ t.stop \in GoodStops
           \/ /\ Finished(t, h, n) /\ EndsOnlyBy(t.todo, "incomplete") /\ t.stop \notin GoodStops
              /\ HeldBy(e) # 0 => Marks(t.todo, h)
    BY <1>3, <2>1, <2>4, GeminiFinishesSound
  <2>6. Keeps(s, t, GeminiHearing)
    BY <2>2, <2>5, KeepsTwice DEF GeminiHearing, OpenerFields, WriterFields
  <2> QED BY <2>4, <2>5, <2>6 DEF GeminiShape
<1>8. CASE f.k \in {"text", "thought", "call", "extension", "empty"}
  <2>1. t = GeminiPart(s, f)
    BY <1>1, <1>8
  <2>2. /\ Sound(t, h, n) /\ (f.k \in StreamedKinds => HeldBy(t) # 0)
        /\ Keeps(s, t, OpenerFields)
    BY <1>8, <2>1, GeminiPartSound
  <2>3. t.stop = s.stop
    BY <2>2, KeptFields DEF OpenerFields, WriterFields
  <2>4. GeminiShape(t, f.k)
    BY <2>2, <2>3 DEF GeminiShape
  <2> QED BY <2>2, <2>4 DEF Keeps, GeminiHearing
<1> QED BY <1>4, <1>5, <1>6, <1>7, <1>8

-----------------------------------------------------------------------------
(* The frames, by what they are. *)
PlainFrames(full, stop) ==
  {ChatFrame(k, 0, FALSE, full, stop) : k \in {"reasoning", "text", "refusal", "annotation", "logprobs", "error"}}
ToolFrames(stop) ==
  {ChatFrame("tool", i, b[1], b[2], stop) : i \in 1..2, b \in BOOLEAN \X BOOLEAN}
FinishFrames == {ChatFrame("finish", 0, FALSE, FALSE, r) : r \in {"stop", "length", "other"}}

LEMMA ChatFramesAre ==
  ChatFrames = PlainFrames(TRUE, "") \cup ToolFrames("") \cup FinishFrames
BY DEF ChatFrames, PlainFrames, ToolFrames, FinishFrames

LEMMA ChatFrameIs ==
  ASSUME NEW f \in ChatFrames, f.k = "tool"
  PROVE  f.i # 0
<1>1. ASSUME NEW full, NEW stop, f \in PlainFrames(full, stop)
      PROVE  f.k # "tool"
  BY <1>1 DEF PlainFrames, ChatFrame
<1>2. ASSUME NEW stop, f \in ToolFrames(stop)
      PROVE  f.i # 0
  BY <1>2 DEF ToolFrames, ChatFrame
<1>3. ASSUME f \in FinishFrames
      PROVE  f.k # "tool"
  <2>1. PICK r : f = ChatFrame("finish", 0, FALSE, FALSE, r)
    BY <1>3, Zenon DEF FinishFrames
  <2>2. \A a, b : ChatFrame("finish", 0, a, b, r).k = "finish"
    BY DEF ChatFrame
  <2>3. f.k = "finish"
    BY <2>1, <2>2, Zenon
  <2> QED BY <2>3
<1> QED BY ChatFramesAre, <1>1, <1>2, <1>3, Zenon

PartFrames(stop) ==
  {GeminiFrame(k, sig, stop) : k \in {"text", "thought", "call", "extension", "empty"}, sig \in BOOLEAN}
OtherFrames(stop) == {GeminiFrame(k, FALSE, stop) : k \in {"logprobs", "grounding", "blocked"}}
LastFrames == {GeminiFrame("finish", FALSE, r) : r \in {"STOP", "MAX_TOKENS", "OTHER"}}
GeminiKinds == {"text", "thought", "call", "extension", "empty", "logprobs", "grounding", "blocked", "finish"}

LEMMA GeminiFramesAre ==
  GeminiFrames = PartFrames("") \cup OtherFrames("") \cup LastFrames
BY DEF GeminiFrames, PartFrames, OtherFrames, LastFrames

LEMMA GeminiFrameIs ==
  ASSUME NEW f \in GeminiFrames
  PROVE  f.k \in GeminiKinds
<1>1. ASSUME NEW stop, f \in PartFrames(stop)
      PROVE  f.k \in GeminiKinds
  BY <1>1 DEF PartFrames, GeminiFrame, GeminiKinds
<1>2. ASSUME NEW stop, f \in OtherFrames(stop)
      PROVE  f.k \in GeminiKinds
  BY <1>2 DEF OtherFrames, GeminiFrame, GeminiKinds
<1>3. ASSUME f \in LastFrames
      PROVE  f.k \in GeminiKinds
  BY <1>3 DEF LastFrames, GeminiFrame, GeminiKinds
<1> QED BY GeminiFramesAre, <1>1, <1>2, <1>3, Zenon

-----------------------------------------------------------------------------
(* What is known of the decoder while a response streams. *)
Frames   == ChatFrames \cup ClaudeFrames \cup GeminiFrames
LastKind == IF heard = <<>> THEN "none" ELSE Last(heard).k

Shape(s, block, kind) ==
  /\ provider = "chatcompletions" => ChatShape(s)
  /\ provider = "anthropic" => ClaudeShape(s, block)
  /\ provider = "gemini" => GeminiShape(s, kind)

(* Cut off as Incomplete is called, an item must be marked. *)
Cut(s, kind) ==
  /\ s.items # <<>>
  /\ IF provider = "gemini" THEN kind \in StreamedKinds ELSE s.items[Len(s.items)].type # "extension"

(* The decoder ends the response as its stop reason says, or returns an error. *)
Decided(s, h, n, kind) ==
  /\ Finished(s, h, n)
  /\ \/ EndsOnlyBy(s.todo, "fail")
     \/ EndsOnlyBy(s.todo, "complete") /\ s.stop \in GoodStops
     \/ /\ EndsOnlyBy(s.todo, "incomplete") /\ s.stop \notin GoodStops
        /\ Cut(s, kind) => Marks(s.todo, h)

LEMMA LastHeard ==
  ASSUME heard \in Seq(Frames), NEW f \in Frames, heard' = Append(heard, f)
  PROVE  /\ heard' \in Seq(Frames) /\ heard' # <<>> /\ Last(heard') = f
         /\ LastKind' = f.k /\ OpenBlock' = Opened(f)
         /\ Len(heard') - 1 = Len(heard) /\ Len(heard) \in Nat
         /\ heard # <<>> => heard'[Len(heard)].k = LastKind /\ Len(heard) > 0
<1>1. /\ heard' \in Seq(Frames) /\ Len(heard') = Len(heard) + 1 /\ Len(heard) \in Nat
      /\ heard'[Len(heard) + 1] = f /\ \A i \in 1..Len(heard) : heard'[i] = heard[i]
  BY AppendProperties
<1>2. heard' # <<>>
  BY <1>1
<1>3. Last(heard') = f
  BY <1>1 DEF Last
<1>4. LastKind' = f.k
  BY <1>2, <1>3 DEF LastKind
<1>5. OpenBlock' = Opened(f)
  BY <1>2, <1>3, Zenon DEF OpenBlock, Opened
<1>6. heard # <<>> => heard'[Len(heard)].k = LastKind /\ Len(heard) > 0
  <2> SUFFICES ASSUME heard # <<>>
               PROVE  heard'[Len(heard)].k = LastKind /\ Len(heard) > 0
    OBVIOUS
  <2>1. Len(heard) > 0
    BY <1>1
  <2>2. heard'[Len(heard)] = heard[Len(heard)]
    BY <1>1, <2>1
  <2> QED BY <2>1, <2>2 DEF LastKind, Last
<1> QED BY <1>1, <1>2, <1>3, <1>4, <1>5, <1>6

(* A frame is heard. *)
LEMMA HearsSound ==
  ASSUME provider \in Providers, heard \in Seq(Frames), NEW h, NEW n, Sound(dec, h, n),
         Shape(dec, OpenBlock, LastKind),
         NEW f, heard' = Append(heard, f), provider' = provider,
         \/ provider = "chatcompletions" /\ f \in ChatFrames /\ dec' = ChatHears(dec, f)
         \/ provider = "anthropic" /\ f \in ClaudeFrames /\ ClaudeMaySend(f) /\ dec' = ClaudeHears(dec, f)
         \/ provider = "gemini" /\ f \in GeminiFrames /\ dec' = GeminiHears(dec, f)
  PROVE  /\ heard' \in Seq(Frames) /\ dec'.err = dec.err
         /\ \/ Sound(dec', h, n) /\ Shape(dec, OpenBlock, LastKind)'
            \/ Decided(dec', h, n, LastKind)
<1>1. Len(heard) \in Nat /\ f \in Frames
  BY DEF Frames
<1>2. /\ heard' \in Seq(Frames) /\ LastKind' = f.k /\ OpenBlock' = Opened(f)
  BY <1>1, LastHeard
<1>3. Shape(dec, OpenBlock, LastKind)' <=> Shape(dec', Opened(f), f.k)
  BY <1>2 DEF Shape
<1>4. CASE provider = "chatcompletions"
  <2>1. f \in ChatFrames /\ dec' = ChatHears(dec, f) /\ ChatShape(dec)
    BY <1>4 DEF Shape
  <2>2. f.k = "tool" => f.i # 0
    BY <2>1, ChatFrameIs
  <2>3. /\ Keeps(dec, dec', ChatHearing)
        /\ (Sound(dec', h, n) /\ ChatShape(dec')) \/ Failed(dec', h, n)
    BY <1>1, <2>1, <2>2, ChatHearsSound
  <2>4. dec'.err = dec.err
    BY <2>3, KeptFields DEF ChatHearing, ChatFields, OpenerFields, WriterFields
  <2> QED BY <1>2, <1>3, <1>4, <2>3, <2>4 DEF Shape, Failed, Decided
<1>5. CASE provider = "anthropic"
  <2>1. f \in ClaudeFrames /\ ClaudeMaySend(f) /\ dec' = ClaudeHears(dec, f) /\ ClaudeShape(dec, OpenBlock)
    BY <1>5 DEF Shape
  <2>2. Lawful(f, OpenBlock, dec.stop)
    BY <2>1, ClaudeKeepsOrder
  <2>3. /\ Keeps(dec, dec', ClaudeHeard)
        /\ Sound(dec', h, n) /\ ClaudeShape(dec', Opened(f))
    BY <1>1, <2>1, <2>2, ClaudeHearsSound
  <2>4. dec'.err = dec.err
    BY <2>3, KeptFields DEF ClaudeHeard, ClaudeHearing, OpenerFields, WriterFields
  <2> QED BY <1>2, <1>3, <1>5, <2>3, <2>4 DEF Shape
<1>6. CASE provider = "gemini"
  <2>1. f \in GeminiFrames /\ dec' = GeminiHears(dec, f) /\ GeminiShape(dec, LastKind)
    BY <1>6 DEF Shape
  <2>2. f.k \in GeminiKinds
    BY <2>1, GeminiFrameIs
  <2>3. /\ Keeps(dec, dec', GeminiHearing)
        /\ \/ Sound(dec', h, n) /\ GeminiShape(dec', f.k)
           \/ Failed(dec', h, n)
           \/ Finished(dec', h, n) /\ EndsOnlyBy(dec'.todo, "complete") /\ dec'.stop \in GoodStops
           \/ /\ Finished(dec', h, n) /\ EndsOnlyBy(dec'.todo, "incomplete") /\ dec'.stop \notin GoodStops
              /\ LastKind \in StreamedKinds => Marks(dec'.todo, h)
    BY <1>1, <2>1, <2>2, GeminiHearsSound DEF GeminiKinds
  <2>4. dec'.err = dec.err
    BY <2>3, KeptFields DEF GeminiHearing, OpenerFields, WriterFields
  <2> QED BY <1>2, <1>3, <1>6, <2>3, <2>4 DEF Shape, Failed, Decided, Cut
<1> QED BY <1>4, <1>5, <1>6 DEF Providers

(* The stream ended, or broke. *)
LEMMA EndsSound ==
  ASSUME provider \in Providers, heard \in Seq(Frames), NEW h, NEW n, Sound(dec, h, n),
         Shape(dec, OpenBlock, LastKind),
         NEW explained,
         \/ provider = "chatcompletions" /\ dec' = ChatFinishes(dec)
         \/ provider = "anthropic" /\ dec' = ClaudeFinishes(dec, explained)
         \/ dec' = Fail(dec),
         NEW kind
  PROVE  dec'.err = dec.err /\ Decided(dec', h, n, kind)
<1>1. Len(heard) \in Nat
  OBVIOUS
<1>2. CASE provider = "chatcompletions" /\ dec' = ChatFinishes(dec)
  <2>1. ChatShape(dec)
    BY <1>2 DEF Shape
  <2>2. /\ Keeps(dec, dec', ChatFields)
        /\ \/ Failed(dec', h, n)
           \/ Finished(dec', h, n) /\ EndsOnlyBy(dec'.todo, "complete") /\ dec.stop \in ChatGoodStops
           \/ /\ Finished(dec', h, n) /\ EndsOnlyBy(dec'.todo, "incomplete") /\ dec.stop \in ChatCutStops
              /\ dec'.items # <<>> => Marks(dec'.todo, h)
    BY <1>2, <2>1, ChatFinishesSound
  <2>3. dec'.stop = dec.stop /\ dec'.err = dec.err
    BY <2>2, KeptFields DEF ChatFields, OpenerFields, WriterFields
  <2>4. ChatGoodStops \subseteq GoodStops /\ ChatCutStops \cap GoodStops = {}
    BY DEF GoodStops, ChatGoodStops, ClaudeGood, ChatCutStops
  <2> QED BY <2>2, <2>3, <2>4 DEF Decided, Failed, Cut
<1>3. CASE provider = "anthropic" /\ dec' = ClaudeFinishes(dec, explained)
  <2>1. ClaudeShape(dec, OpenBlock)
    BY <1>3 DEF Shape
  <2>2. /\ Keeps(dec, dec', OpenerFields)
        /\ \/ Failed(dec', h, n)
           \/ Finished(dec', h, n) /\ EndsOnlyBy(dec'.todo, "complete") /\ dec.stop \in ClaudeGood
           \/ /\ Finished(dec', h, n) /\ EndsOnlyBy(dec'.todo, "incomplete") /\ dec.stop \in ClaudeCut
              /\ Streamed(dec') => Marks(dec'.todo, h)
    BY <1>1, <1>3, <2>1, ClaudeFinishesSound
  <2>3. dec'.stop = dec.stop /\ dec'.err = dec.err
    BY <2>2, KeptFields DEF OpenerFields, WriterFields
  <2>4. ClaudeGood \subseteq GoodStops /\ ClaudeCut \cap GoodStops = {}
    BY DEF GoodStops, ChatGoodStops, ClaudeGood, ClaudeCut
  <2>5. Cut(dec', kind) => Streamed(dec')
    BY <1>3 DEF Cut, Streamed
  <2> QED BY <2>2, <2>3, <2>4, <2>5 DEF Decided, Failed
<1>4. CASE dec' = Fail(dec)
  <2>1. Failed(dec', h, n) /\ Keeps(dec, dec', {"todo"})
    BY <1>4, FailsSound
  <2> QED BY <2>1, KeptFields DEF Failed, Decided
<1> QED BY <1>2, <1>3, <1>4
===============================================================================
