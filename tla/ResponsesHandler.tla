-------------------------- MODULE ResponsesHandler --------------------------
(***************************************************************************)
(* openresponses.Handler serving POST /responses (src/handler.go) with a   *)
(* ResponseStore, for concurrent clients that continue from each other's   *)
(* responses.  A request is served by one goroutine: it resolves           *)
(* previous_response_id against the store, runs the adapter, saves the     *)
(* finished response and answers, in one JSON body or as an SSE stream.    *)
(*                                                                         *)
(* Requests interleave wherever one of them touches what others see: the   *)
(* store, and what a client has read.  The response to request r is named  *)
(* r: adapters give every response an id of its own.  The adapter is any   *)
(* program that sends events, in any order, and returns; with what a save  *)
(* or a load of an external store may do, this is all the environment.     *)
(***************************************************************************)
EXTENDS Naturals, Sequences

CONSTANTS
  Requests,       \* the requests of one run
  NoRequest,      \* no previous_response_id
  Capacity,       \* NewMemoryStore(capacity)
  Events,         \* the event types the adapter sends
  MaxFrames,      \* bound on the sequence numbers one adapter uses
  EncodeMayFail,
  AdapterStops,   \* whether the adapter returns when an event does not encode
  StoreMayFail    \* whether the store can return errors

ASSUME ConstantsAssumption ==
  /\ NoRequest \notin Requests
  /\ Capacity \in Nat \ {0}
  /\ MaxFrames \in Nat

INSTANCE SSESink
Store == INSTANCE MemoryStore

ASSUME EventsAssumption == Events \subseteq EventType

VARIABLES
  phase,    \* where the goroutine of each request is
  req,      \* the request: what the handler reads of it, and what its client knew
  conv,     \* req.Input once resolved, then the response: the history to save
  sink,     \* the SSE sink; a request that does not stream uses acc and up
  answer,   \* what a client that got a JSON body read
  store,    \* the shared ResponseStore
  saved,    \* ids in the order Save recorded them
  lost      \* responses whose Save returned an error

vars == <<phase, req, conv, sink, answer, store, saved, lost>>

(***************************************************************************)
(* running: the adapter has the request, until it has returned or errored. *)
(* sending and closing: a terminal event is saved and not yet written, by  *)
(* the adapter's Send and by finish.  answering: the JSON body is.         *)
(***************************************************************************)
Phases == {"unsent", "arrived", "running", "sending", "answering",
           "returned", "errored", "closing", "ended"}

Request == [prev: Requests \cup {NoRequest}, store: BOOLEAN, stream: BOOLEAN, informed: BOOLEAN]

Goto(r, p)     == phase' = [phase EXCEPT ![r] = p]
SetSink(r, s)  == sink' = [sink EXCEPT ![r] = s]
Answer(r, a)   == answer' = [answer EXCEPT ![r] = IF sink[r].up THEN a ELSE "none"]

-----------------------------------------------------------------------------
OnWire(r, types) == \E k \in 1..Len(sink[r].wire) : sink[r].wire[k].type \in types

(* The client has read the id of r, or that r is finished and can be continued. *)
Knows(r)     == answer[r] = "ok" \/ (sink[r].acc.id /\ OnWire(r, WithID))
KnowsDone(r) == sink[r].acc.id /\ (answer[r] = "ok" \/ OnWire(r, Terminal))

(* A client sends r, from scratch or continuing from a response it has seen. *)
ClientSends(r) ==
  /\ phase[r] = "unsent"
  /\ \E p \in {q \in Requests : Knows(q)} \cup {NoRequest}, keep, streams \in BOOLEAN :
       req' = [req EXCEPT ![r] = [prev |-> p, store |-> keep, stream |-> streams,
                                  informed |-> p # NoRequest /\ KnowsDone(p)]]
  /\ Goto(r, "arrived")
  /\ UNCHANGED <<conv, sink, answer, store, saved, lost>>

(* The client disconnects: r.Context() is cancelled and writes may fail. *)
ClientLeaves(r) ==
  /\ phase[r] \notin {"unsent", "ended"}
  /\ sink[r].up
  /\ SetSink(r, [sink[r] EXCEPT !.up = FALSE])
  /\ UNCHANGED <<phase, req, conv, answer, store, saved, lost>>

-----------------------------------------------------------------------------
(* A request the handler refuses: 4xx before anything ran, a failed load. *)
Refuse(r, a) ==
  /\ Goto(r, "ended")
  /\ Answer(r, a)
  /\ UNCHANGED <<req, conv, sink, store, saved, lost>>

(* decodeBody, Validate, background: 400 before the store is asked. *)
Invalid(r) ==
  /\ phase[r] = "arrived"
  /\ Refuse(r, "error")

(* Mutant: the stored conversation is not inlined. *)
InputOnly(r) == <<r>>

(* ResolveContinuation inlines the history before the request's own input. *)
Merged(r) ==
  IF req[r].prev = NoRequest THEN <<r>> ELSE Append(Store!History(store, req[r].prev), r)

(* resolve: no previous response, or one the store has. *)
Resolve(r) ==
  /\ phase[r] = "arrived"
  /\ req[r].prev = NoRequest \/ Store!Holds(store, req[r].prev)
  /\ conv' = [conv EXCEPT ![r] = Merged(r)]
  /\ Goto(r, "running")
  /\ UNCHANGED <<req, sink, answer, store, saved, lost>>

(* checkFunctionCallOutputs refuses the inlined conversation. *)
ResolveRejected(r) ==
  /\ phase[r] = "arrived"
  /\ req[r].prev # NoRequest /\ Store!Holds(store, req[r].prev)
  /\ Refuse(r, "error")

ResolveNotFound(r) ==
  /\ phase[r] = "arrived"
  /\ req[r].prev # NoRequest /\ ~Store!Holds(store, req[r].prev)
  /\ Refuse(r, "not_found")

ResolveFailed(r) ==
  /\ StoreMayFail
  /\ phase[r] = "arrived" /\ req[r].prev # NoRequest
  /\ Refuse(r, "error")

-----------------------------------------------------------------------------
(* Mutants: incomplete responses are not worth saving; failed ones are. *)
OnlyCompleted(r, acc)  == acc.id /\ req[r].store /\ acc.status = "completed"
AnyTerminal(r, acc)    == acc.id /\ req[r].store /\ acc.status \notin {"none", "in_progress"}

(* Handler.save: the responses it records. *)
Storable(r, acc) == acc.id /\ req[r].store /\ acc.status \in {"completed", "incomplete"}

Recording(r) ==
  /\ store' = Store!Saved(store, r, conv[r], Capacity)
  /\ saved' = Append(saved, r)
  /\ lost'  = lost

Losing(r) ==
  /\ StoreMayFail
  /\ lost' = lost \cup {r}
  /\ UNCHANGED <<store, saved>>

(* Mutant: the save runs under the request's context. *)
SaveUnlessClientLeft(r, acc) ==
  IF Storable(r, acc) /\ sink[r].up THEN Recording(r) \/ Losing(r)
  ELSE UNCHANGED <<store, saved, lost>>

(* Handler.save, which the request's cancelled context does not stop. *)
Save(r, acc) ==
  IF Storable(r, acc) THEN Recording(r) \/ Losing(r)
  ELSE UNCHANGED <<store, saved, lost>>

-----------------------------------------------------------------------------
(* The adapter's Create returns an error or a response; the response is    *)
(* saved, and a failed save is answered with an error.                     *)
CreateFails(r) ==
  /\ phase[r] = "running" /\ ~req[r].stream
  /\ Refuse(r, "error")

CreateReturns(r) ==
  /\ phase[r] = "running" /\ ~req[r].stream
  /\ \E status \in Status \ {"none"} :
       LET acc == Snapshot(TRUE, status) IN
       /\ SetSink(r, [sink[r] EXCEPT !.acc = acc])
       /\ Save(r, acc)
  /\ Goto(r, "answering")
  /\ UNCHANGED <<req, conv, answer>>

(* writeJSON, which answers with an error of its own what it cannot encode. *)
WriteAnswer(r) ==
  /\ phase[r] = "answering"
  /\ \/ Answer(r, IF r \in lost THEN "error" ELSE "ok")
     \/ EncodeMayFail /\ Answer(r, "error")
  /\ Goto(r, "ended")
  /\ UNCHANGED <<req, conv, sink, store, saved, lost>>

-----------------------------------------------------------------------------
(* Send of an event that does not end the stream. *)
AdapterSends(r, t) ==
  /\ phase[r] = "running" /\ req[r].stream
  /\ Accepts(sink[r]) /\ sink[r].seq < MaxFrames
  /\ t \notin Terminal
  /\ \E s \in Put(Recorded(sink[r], t, TRUE), t) : SetSink(r, s)
  /\ UNCHANGED <<phase, req, conv, answer, store, saved, lost>>

(* Send of an event that does not encode, whichever it is.  An adapter     *)
(* should stop on an error of Send; one that does not goes on sending.     *)
SendUnencoded(r) ==
  /\ EncodeMayFail
  /\ phase[r] = "running" /\ req[r].stream
  /\ Accepts(sink[r]) /\ sink[r].seq < MaxFrames
  /\ SetSink(r, Unencoded(sink[r]))
  /\ Goto(r, IF AdapterStops THEN "errored" ELSE "running")
  /\ UNCHANGED <<req, conv, answer, store, saved, lost>>

(* A terminal event is recorded and saved before it is written. *)
Terminate(r, t, id, next) ==
  LET s == Recorded(sink[r], t, id) IN
  /\ SetSink(r, s)
  /\ Save(r, s.acc)
  /\ Goto(r, next)
  /\ UNCHANGED <<req, conv, answer>>

(* Send of a terminal event ... *)
AdapterFinishes(r, t) ==
  /\ phase[r] = "running" /\ req[r].stream
  /\ Accepts(sink[r]) /\ sink[r].seq < MaxFrames
  /\ t \in Terminal
  /\ Terminate(r, t, TRUE, "sending")

(* ... up to its return to the adapter. *)
TerminalSent(r) ==
  /\ phase[r] = "sending"
  /\ \E t \in Terminal :
       /\ StatusOf(t) = sink[r].acc.status
       /\ \E s \in Put(sink[r], t) : SetSink(r, s)
  /\ Goto(r, "running")
  /\ UNCHANGED <<req, conv, answer, store, saved, lost>>

(* CreateStream returns nil or an error, whatever it has sent. *)
AdapterReturns(r) ==
  /\ phase[r] = "running" /\ req[r].stream
  /\ \E p \in {"returned", "errored"} : Goto(r, p)
  /\ UNCHANGED <<req, conv, sink, answer, store, saved, lost>>

-----------------------------------------------------------------------------
(* streamResponse after CreateStream: an error before the first frame is a *)
(* plain HTTP error, and everything else is finish.                        *)
FailBeforeStream(r) ==
  /\ phase[r] = "errored" /\ ~sink[r].sent
  /\ Refuse(r, "error")

Finishing(r) == phase[r] = "returned" \/ (phase[r] = "errored" /\ sink[r].sent)

(* finish: a write has failed and the stream is left as it is. *)
Abandon(r) ==
  /\ Finishing(r) /\ sink[r].failed
  /\ Goto(r, "ended")
  /\ UNCHANGED <<req, conv, sink, answer, store, saved, lost>>

(* finish: the adapter sent a terminal event, and an error no longer counts. *)
FinishDone(r) ==
  /\ Finishing(r) /\ sink[r].terminal /\ ~sink[r].failed
  /\ SetSink(r, WithDone(sink[r]))
  /\ Goto(r, "ended")
  /\ UNCHANGED <<req, conv, answer, store, saved, lost>>

(* finish: error, response.failed, [DONE]. *)
FinishFailed(r) ==
  /\ Finishing(r) /\ phase[r] = "errored" /\ Accepts(sink[r])
  /\ \E s \in FailedFinish(sink[r]) :
       /\ SetSink(r, s)
       /\ IF s.terminal THEN Save(r, s.acc) ELSE UNCHANGED <<store, saved, lost>>
  /\ Goto(r, "ended")
  /\ UNCHANGED <<req, conv, answer>>

(* Mutant: nothing is synthesized for an adapter that sent nothing. *)
SynthesizesOnceSent(r) == phase[r] = "returned" /\ Accepts(sink[r]) /\ sink[r].sent

Synthesizes(r) == phase[r] = "returned" /\ Accepts(sink[r])

(* finish: a missing terminal event is synthesized as response.completed ... *)
FinishCompleted(r) ==
  /\ Synthesizes(r)
  /\ Terminate(r, "response.completed", IDAtFinish(sink[r].acc), "closing")

(* ... and written, with [DONE] after it ... *)
FinishSent(r) ==
  /\ phase[r] = "closing"
  /\ \E s \in Put(sink[r], "response.completed") : SetSink(r, WithDone(s))
  /\ Goto(r, "ended")
  /\ UNCHANGED <<req, conv, answer, store, saved, lost>>

(* ... or does not encode, and only [DONE] follows. *)
FinishUnencoded(r) ==
  /\ EncodeMayFail /\ Synthesizes(r)
  /\ SetSink(r, WithDone(Unencoded(sink[r])))
  /\ Goto(r, "ended")
  /\ UNCHANGED <<req, conv, answer, store, saved, lost>>

-----------------------------------------------------------------------------
Init ==
  /\ phase  = [r \in Requests |-> "unsent"]
  /\ req    = [r \in Requests |->
                 [prev |-> NoRequest, store |-> TRUE, stream |-> TRUE, informed |-> FALSE]]
  /\ conv   = [r \in Requests |-> <<>>]
  /\ sink   = [r \in Requests |-> NewSink]
  /\ answer = [r \in Requests |-> "none"]
  /\ store  = Store!EmptyStore
  /\ saved  = <<>>
  /\ lost   = {}

Client(r) == ClientSends(r) \/ ClientLeaves(r)

AdapterStreams(r) ==
  \/ \E t \in Events : AdapterSends(r, t) \/ AdapterFinishes(r, t)
  \/ SendUnencoded(r)

(* What the goroutine of r does around the adapter. *)
HandlerStep(r) ==
  \/ Invalid(r) \/ Resolve(r) \/ ResolveRejected(r) \/ ResolveNotFound(r) \/ ResolveFailed(r)
  \/ CreateFails(r) \/ CreateReturns(r) \/ WriteAnswer(r)
  \/ TerminalSent(r) \/ FailBeforeStream(r) \/ Abandon(r)
  \/ FinishDone(r) \/ FinishFailed(r) \/ FinishCompleted(r) \/ FinishSent(r)
  \/ FinishUnencoded(r)

Serve(r) == AdapterReturns(r) \/ HandlerStep(r)

AllServed == (\A r \in Requests : phase[r] = "ended") /\ UNCHANGED vars

Next ==
  \/ \E r \in Requests : Client(r) \/ AdapterStreams(r) \/ Serve(r)
  \/ AllServed

Spec == Init /\ [][Next]_vars

(***************************************************************************)
(* The goroutine of a request that arrived keeps running and the adapter   *)
(* returns in the end; clients owe nothing.                                *)
(***************************************************************************)
Fairness == \A r \in Requests : WF_vars(Serve(r))

FairSpec == Spec /\ Fairness

-----------------------------------------------------------------------------
(* The state has its type; the store holds what it says, within Capacity. *)
TypeOK ==
  /\ phase \in [Requests -> Phases]
  /\ req \in [Requests -> Request]
  /\ conv \in [Requests -> Seq(Requests)]
  /\ sink \in [Requests -> Sink]
  /\ answer \in [Requests -> {"none", "ok", "error", "not_found"}]
  /\ store.order \in Seq(Requests) /\ Len(store.order) <= Capacity
  /\ store.items \in [Store!IdsOf(store.order) -> Seq(Requests)]
  /\ saved \in Seq(Requests)
  /\ lost \subseteq Requests

IsSaved(r) == \E k \in 1..Len(saved) : saved[k] = r

(***************************************************************************)
(* A client that has read that a response is completed or incomplete, in   *)
(* its terminal event or as a JSON body, can rely on it having been saved: *)
(* the save comes before the write, so continuing "the moment the event    *)
(* arrives" finds it.  Not for store:false and not when the store failed.  *)
(***************************************************************************)
ToldMeansSaved ==
  \A r \in Requests :
    /\ req[r].store /\ KnowsDone(r)
    /\ sink[r].acc.status \in {"completed", "incomplete"}
    => IsSaved(r) \/ r \in lost

(***************************************************************************)
(* A response that finished is saved whether or not its client is still    *)
(* there: the save does not run under the request's context.               *)
(***************************************************************************)
SavedThoughTheClientLeft ==
  \A r \in Requests :
    /\ sink[r].terminal /\ sink[r].acc.id /\ req[r].store
    /\ sink[r].acc.status \in {"completed", "incomplete"}
    => IsSaved(r) \/ r \in lost

(***************************************************************************)
(* A client that continues from a response it knows to be finished is told *)
(* previous_response_not_found only if that response was not to be stored, *)
(* had failed, was lost by the store, or has had Capacity responses saved  *)
(* after it.                                                               *)
(***************************************************************************)
Evicts(p) ==
  \E k \in 1..Len(saved) : saved[k] = p /\ Len(saved) - k >= Capacity

ContinuationFound ==
  \A r \in Requests :
    (answer[r] = "not_found" /\ req[r].informed) =>
      LET p == req[r].prev IN
      \/ ~req[p].store \/ p \in lost \/ Evicts(p)
      \/ sink[p].acc.status \notin {"completed", "incomplete"}

(***************************************************************************)
(* What the store holds for a response is a whole conversation: it starts  *)
(* with a request that continued nothing, each turn continues the one      *)
(* before it, every earlier turn was itself saved, and it ends with the    *)
(* response.  Eviction of an early turn does not shorten a later history.  *)
(***************************************************************************)
IsConversation(h, r) ==
  /\ h # <<>> /\ h[Len(h)] = r
  /\ req[h[1]].prev = NoRequest
  /\ \A k \in 2..Len(h) : req[h[k]].prev = h[k-1] /\ IsSaved(h[k-1])

StoredHistoriesAreConversations ==
  \A r \in DOMAIN store.items : IsConversation(store.items[r], r)

(***************************************************************************)
(* The adapter is never given the conversation of a response that failed,  *)
(* did not finish, or was asked not to be stored.                          *)
(***************************************************************************)
OnlyFinishedResponsesAreContinued ==
  \A r \in Requests :
    Len(conv[r]) > 1 =>
      LET p == req[r].prev IN
      req[p].store /\ sink[p].acc.status \in {"completed", "incomplete"}

(***************************************************************************)
(* On the wire sequence numbers only grow, nothing but [DONE] follows a    *)
(* terminal event, and nothing follows [DONE].                             *)
(***************************************************************************)
NothingAfterTheEnd ==
  \A r \in Requests :
    LET w == sink[r].wire IN
    \A j, k \in 1..Len(w) : j < k =>
      /\ w[j].seq < w[k].seq
      /\ w[j].type # DoneFrame
      /\ w[j].type \in Terminal => w[k].type = DoneFrame

(***************************************************************************)
(* Every stream a client read to its end closed with one terminal event    *)
(* and [DONE], whatever the adapter did, unless an event did not encode    *)
(* and took a sequence number with it.                                     *)
(***************************************************************************)
StreamsEndProperly ==
  \A r \in Requests :
    LET w == sink[r].wire IN
    (phase[r] = "ended" /\ sink[r].up /\ w # <<>>) =>
      /\ w[Len(w)].type = DoneFrame
      /\ \/ Len(w) > 1 /\ w[Len(w)-1].type \in Terminal
         \/ sink[r].seq >= Len(w)

(***************************************************************************)
(* Every request is answered, by a JSON body or a stream that reaches      *)
(* [DONE], or its client leaves.                                           *)
(***************************************************************************)
EveryRequestIsAnswered ==
  \A r \in Requests :
    phase[r] = "arrived" ~> (~sink[r].up \/ answer[r] # "none" \/ OnWire(r, {DoneFrame}))

(***************************************************************************)
(* "A stream numbers events from zero, increasing by one" (doc.go): what a *)
(* client has read is numbered without a gap.                              *)
(***************************************************************************)
NumbersFromZero ==
  \A r \in Requests :
    \A k \in 1..Len(sink[r].wire) :
      sink[r].wire[k].type # DoneFrame => sink[r].wire[k].seq = k - 1
=============================================================================
