---------------------------- MODULE AdapterDecoder ----------------------------
(***************************************************************************)
(* What the decoders of the three provider adapters have in common: each   *)
(* folds the frames of its provider's stream into calls of one Emitter, of *)
(* which it keeps at most one writer.  The emitter is the one of module    *)
(* Emitter, sends that fail included.                                      *)
(*                                                                         *)
(* Handling a frame is a function of the decoder's state: it yields the    *)
(* next state and the emitter calls to make, `todo`, which are then made   *)
(* one by one.  A call that returns an error ends the adapter.  A frame    *)
(* with several members is that many frames here, in the order in which    *)
(* the code looks at them.                                                 *)
(***************************************************************************)
EXTENDS Emitter, Transcript

CONSTANTS
  MaxFrames,     \* bound on the frames of one response, for each provider
  MaxTurns       \* the turns of one Claude response, WithContinuations and the first

VARIABLES
  provider,   \* whose adapter it is
  heard,      \* the frames of the response so far
  upstream,   \* whether the provider's stream is still open
  dec         \* the decoder

decoderVars == <<provider, heard, upstream, dec>>

Providers == {"chatcompletions", "anthropic", "gemini"}

ASSUME FramesAssumption == MaxFrames \in [Providers -> Nat] /\ MaxTurns \in Nat \ {0}

(***************************************************************************)
(* What the emitter's response object says of an item and the events do    *)
(* not: the pieces of its content and its encrypted_content, each piece    *)
(* with the number of the frame it came with.                              *)
(***************************************************************************)
Content(type) == [type |-> type, said |-> <<>>, sig |-> <<>>]

NewDecoder ==
  [ msg |-> 0, reasoning |-> 0, call |-> 0,  \* the writers by item, 0 for nil
    items |-> <<>>,                          \* em.Response().Output
    todo  |-> <<>>,                          \* emitter calls to be made
    stop  |-> "",                            \* finish or stop reason
    err   |-> FALSE,                         \* CreateStream returned an error
    (* chatcompletions: the tool call's index, 0 for none, and its arguments *)
    index |-> 0, buffered |-> <<>>,
    (* anthropic: the raw block, the citations of the text block, whether *)
    (* the call has arguments, the turn, its first item, what was replayed *)
    raw |-> <<>>, cites |-> 0, wrote |-> FALSE, turn |-> 1, turnStart |-> 0, replay |-> <<>> ]

Now == Len(heard) + 1      \* the number of the frame being handled

Do(s, op, w) == [s EXCEPT !.todo = Append(@, [op |-> op, w |-> w])]
Fail(s)       == Do(s, "fail", 0)
Returns(s, op) == Do(Do(s, op, 0), "return", 0)

(* A new item; its writer is named by its place. *)
Opens(s, type) == [Do(s, type, Len(s.items) + 1) EXCEPT !.items = Append(@, Content(type))]
Newest(s)      == Len(s.items)

(* A call that adds the piece of this frame to the content of an item. *)
Says(s, op, w) == [Do(s, op, w) EXCEPT !.items[w].said = Append(@, Piece(op, Now))]

-----------------------------------------------------------------------------
(* Mutant: the writer of a closed message is kept. *)
CloseAndKeep(s) ==
  CASE s.msg # 0       -> Do(s, "close", s.msg)
    [] s.reasoning # 0 -> Do([s EXCEPT !.reasoning = 0], "close", s.reasoning)
    [] s.call # 0      -> Do([s EXCEPT !.call = 0], "close", s.call)
    [] OTHER           -> s

(* closeOpen of the anthropic and gemini decoders; gemini keeps no call. *)
CloseOpen(s) ==
  CASE s.msg # 0       -> Do([s EXCEPT !.msg = 0, !.cites = 0], "close", s.msg)
    [] s.reasoning # 0 -> Do([s EXCEPT !.reasoning = 0], "close", s.reasoning)
    [] s.call # 0      -> Do([s EXCEPT !.call = 0], "close", s.call)
    [] OTHER           -> s

(* Mutant: what is open stays open when a message is opened. *)
AlsoOpenMessage(s) ==
  IF s.msg # 0 THEN s ELSE LET t == Opens(s, "message") IN [t EXCEPT !.msg = Newest(t)]

(* openMessage, openReasoning *)
OpenMessage(s) ==
  IF s.msg # 0 THEN s
  ELSE LET t == Opens(CloseOpen(s), "message") IN [t EXCEPT !.msg = Newest(t)]

NewReasoning(s)  == LET t == Opens(s, "reasoning") IN [t EXCEPT !.reasoning = Newest(t)]
OpenReasoning(s) == IF s.reasoning # 0 THEN s ELSE NewReasoning(CloseOpen(s))

-----------------------------------------------------------------------------
(* The decoder is ready for a frame; it takes f and is then as s. *)
Reading == running /\ upstream = "open" /\ pc = "idle" /\ dec.todo = <<>>

Hear(f, s) ==
  /\ Reading
  /\ heard' = Append(heard, f)
  /\ dec' = s
  /\ UNCHANGED <<vars, provider, upstream>>

(* The stream ends, or breaks, and the decoder is then as s. *)
EndOfStream(how, s) ==
  /\ Reading
  /\ upstream' = how
  /\ dec' = s
  /\ UNCHANGED <<vars, provider, heard>>

-----------------------------------------------------------------------------
(* The next emitter call. *)
Due(ops) == dec.todo # <<>> /\ pc = "idle" /\ running /\ Head(dec.todo).op \in ops
Called   == dec' = [dec EXCEPT !.todo = Tail(@)] /\ UNCHANGED <<provider, heard, upstream>>
Writer   == Head(dec.todo).w

WriterOps == {"text", "refusal", "annotation", "logprobs", "arguments", "summary", "reasoning_text"}
DecoderOps == WriterOps \cup WriterKinds \cup {"extension", "close", "complete", "incomplete", "return", "fail"}

CallOpens == \E k \in WriterKinds : Due({k}) /\ OpenWriter(k) /\ Called
CallItem  == Due({"extension"}) /\ EmitItem("completed") /\ Called

CallWrites ==
  /\ \/ Due({"text"})           /\ Text(Writer)
     \/ Due({"refusal"})        /\ Refusal(Writer)
     \/ Due({"annotation"})     /\ Annotation(Writer)
     \/ Due({"logprobs"})       /\ Logprobs(Writer)
     \/ Due({"arguments"})      /\ Arguments(Writer)
     \/ Due({"summary"})        /\ Summary(Writer)
     \/ Due({"reasoning_text"}) /\ ReasoningText(Writer)
  /\ Called

CallCloses == Due({"close"}) /\ CloseWriter(Writer) /\ Called

(* Nothing is sent for the log probabilities of an open text part. *)
CallSendsNothing ==
  /\ Due({"logprobs"}) /\ out[Writer].part = "output_text"
  /\ Called /\ UNCHANGED vars

CallEnds ==
  \/ Due({"complete"})   /\ Complete   /\ Called
  \/ Due({"incomplete"}) /\ Incomplete /\ Called

(* CreateStream returns, nil or an error of its own. *)
CallReturns == Due({"return"}) /\ Return /\ Called
CallFails ==
  /\ Due({"fail"}) /\ Return
  /\ dec' = [dec EXCEPT !.todo = <<>>, !.err = TRUE]
  /\ UNCHANGED <<provider, heard, upstream>>

EmitterCall ==
  \/ CallOpens \/ CallItem \/ CallWrites \/ CallCloses
  \/ CallSendsNothing \/ CallEnds \/ CallReturns \/ CallFails

(* The events of a call, one by one, and its sends that fail. *)
EmitterEvent == EmitterStep /\ UNCHANGED decoderVars

InitDecoder == Init /\ heard = <<>> /\ upstream = "open" /\ dec = NewDecoder

(* The response's items as the conversation keeps them. *)
ItemOf(c, i) ==
  CASE c.type = "message"       -> MessageItem("assistant", c.said)
    [] c.type = "function_call" -> CallItemOf(i, c.said)
    [] c.type = "reasoning"     -> ReasoningItem(IF provider = "chatcompletions" THEN "" ELSE provider, c.said, c.sig)
    [] OTHER                    -> ExtensionItem(provider, c.said, c.sig)
Items(s) == [i \in 1..Len(s.items) |-> ItemOf(s.items[i], i)]
=============================================================================
