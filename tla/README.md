# A TLA+ model of openresponses

openresponses is a Go library for the Responses protocol. An application writes
an `Adapter`; the library serves it over HTTP (one JSON body, or a stream of
server-sent events) and over WebSocket, keeps finished responses so that later
requests can continue from them, and has the clients for both transports. This
directory models its stateful core, model-checks it with TLC and proves part of
it with TLAPS.

## 1. The system

| component | state | operations | talks to |
|---|---|---|---|
| Streaming lifecycle (`doc.go`, `streamtest/streamtest.go`) | the validator's view of a stream: items added and done, the open item, its open part, started / errored / terminal | accept or reject one event | the contract between every producer and every consumer of events |
| `Emitter` and item writers (`emitter.go`) | the response under construction, `started`, `terminal`, the open writer; each writer's `closed`, its part or summary, `textOpen` | `Start`, `Message`, `FunctionCall`, `Reasoning`, `Item`, `Complete`, `Incomplete`; writes and `Close` on a writer | called by adapters; calls `EventSink.Send` once per event |
| HTTP `Handler` (`handler.go`) | configuration; per request: the resolved request and the sink | `POST /responses` in both modes, `POST /responses/compact` | store, adapter, sink |
| `sseSink`, `sseWriter` (`handler.go`, `sse.go`) | sequence number, accumulated response, `sent`, `terminal`, `failed` | `Send`, `started`, `finish`, `WriteDone` | the adapter's calls; saves through the handler; writes to the client |
| `MemoryStore`, `ResolveContinuation` (`store.go`) | histories by response id, ids in insertion order, a capacity | `Load`, `Save`, `Delete` | shared by all requests; also the per-connection cache of a WebSocket session |
| `ClientAdapter` (`clientadapter.go`) | none; the pump's stream | `Create`, `CreateStream`, `Compact` | `Client` / `EventStream` on one side, the sink on the other |
| `EventStream` (`stream.go`) | current event, error, `done`, `closed`, `terminal` | `Next`, `Err`, `Close`, a context hook | reads an HTTP body |
| `Accumulator` (`stream.go`) | the response, index-to-position map, closed items, texts | `Add`, `Response`, `Err` | used by every sink and every client |
| `Events`, `CollectStream` (`handler.go`) | an events channel, a done channel | iterate, break | runs an adapter in a goroutine |
| WebSocket session, `Conn` (`websocket/websocket.go`) | frames channel, connection cache, sink, lifetime timer, keepalive | `turn`, `expire`, `keepalive`; `Send`, `Next`, `Turn`, `Close` | adapter, cache, optional shared store |
| Chat Completions, Anthropic, Gemini adapters | a decoder: open writer, open tool call or block, finish reason | one upstream chunk or event at a time | drive an `Emitter` |
| types, registry, codecs | none | conversions | everything |

### What is hard

* **Ordering of save and send.** A client may continue from a response the
  moment it reads the terminal event, so `writeLocked` saves before it writes.
  Other requests run between the two.
* **Partial failure.** Every emitter call is several sends; any may fail, after
  the emitter has changed its state. The sink tells an event that does not
  encode (the stream goes on, a sequence number is gone) from a failed write
  (the stream is over). `finish` drops the errors of its own writes.
* **Kept handles.** An adapter may keep a writer after a later item was opened.
* **Bounded shared state.** The store evicts its oldest entry; another request
  may be about to continue from it.
* **Clients that leave.** The request's context is cancelled at any step; the
  save runs under a context that is not.
* **Streams that merely stop.** A proxy must not turn a truncated upstream
  stream into a completed one.
* **Goroutines of one connection.** A WebSocket session has a reader that may be
  one frame ahead of the turn it serves, a keepalive that needs that reader, and
  a lifetime timer that writes and closes on its own. Over WebSocket the terminal
  event is written *before* the save.
* **Ends that race.** A context hook, `Close` and the end of the body all want to
  say how an `EventStream` ended; the adapter's last event and its return are two
  channels of one `select` in `Events`.
* **Servers that keep to no rule.** Output indexes are reused, snapshots list
  other items, and positions diverge from indexes (`Accumulator`).
* **Providers' framing.** Tool arguments come before the tool's name, blocks
  interleave, streams pause and are resumed, signatures belong to one provider
  only, and answers must stand next to their calls (the three adapters).

`PROJECT.json` lists the hazards one by one, at their lines, with the properties
that cover each.

### What makes each component correct

* Emitter: what it sends is a legal stream; one live writer; what was announced
  as done stays as announced; the terminal event lists items in final form.
* Sink and handler: numbers grow; one terminal event, then `[DONE]`, nothing
  else; every request is answered; what finished is saved, before the client
  can know, also when the client left; nothing else is saved.
* Store: within capacity; evicts the oldest and nothing more; a history is a
  whole conversation.
* Proxy: never completes what was cut off; always returns when it must.
* Accumulator: the fold of a legal stream is the response its terminal event
  carries; for any stream, a delta goes to the item it was sent for and a closed
  item is not overwritten.
* EventStream and Events: one verdict per stream; `Close` and cancellation do
  not turn a cut-off into success; no event lost, no goroutine left behind.
* WebSocket: turns do not mix; a connection's chain continues; the cache forgets
  what failed; an abandoned session ends; pings are answered during long turns.
* Provider adapters: whatever the order of upstream frames, the decoder makes
  legal emitter calls and ends the response as the provider said; an item
  encoded for the provider it came from is what that provider said; signatures
  never cross providers.

## 2. Modules

| module | models | kind |
|---|---|---|
| `StreamLifecycle` | `streamtest.Validate` | abstract specification of every event stream |
| `Emitter` | `emitter.go` under any adapter | detailed specification; implements `StreamLifecycle` |
| `EmitterProofs` | | the proofs about `Emitter` |
| `MemoryStore` | `store.go` | operators on a store value |
| `SSESink` | `sseSink`, what it needs of `Accumulator` | operators on a sink record |
| `ResponsesHandler` | `Handler` for `POST /responses`, with its store, for concurrent requests | composes `MemoryStore` and `SSESink` |
| `MCHandler` | | symmetry for TLC |
| `ResponsesHandlerProofs` | | the proofs about `ResponsesHandler`, `SSESink`, `MemoryStore` and the proxy |
| `ClientAdapterProxy` | `ClientAdapter.CreateStream` as the handler's adapter | extends `ResponsesHandler` by the pump |
| `WebSocketSession` | `websocket/websocket.go`: a server's session and a client's `Conn` | composes `MemoryStore` (twice) and `SSESink`'s fold |
| `MCWebSocket` | | the connections model-checked |
| `WebSocketProofs` | | the proofs about a connection |
| `EventSequence` | what reading a stream promises its consumer | abstract specification |
| `EventPipeline` | `EventStream`, `Events`, the pump between them | implements `EventSequence` |
| `EventPipelineProofs` | | the proof that it does |
| `Accumulator` | `Accumulator` under any server | detailed specification, with a lawful server as its reference |
| `MCAccumulator` | | the items servers name |
| `AccumulatorProofs` | | the proofs about `Accumulator` |
| `Transcript` | items, parts and blocks of a conversation | data of the adapters |
| `AdapterDecoder` | what the three stream decoders share | drives `Emitter` |
| `ChatDecoder`, `AnthropicDecoder`, `GeminiDecoder` | `response.go` of each adapter | functions from a frame to emitter calls |
| `ChatRequest`, `AnthropicRequest`, `GeminiRequest` | the conversation part of each `request.go` | functions from items to turns |
| `ThinkingSettings` | effort, budget and summary of Claude and Gemini, by model and token limit | functions |
| `Adapters` | a conversation through all of these | composes them |
| `MCAdapters` | | bounds per provider |
| `DecoderProofs` | | what each handler of the three decoders plans |
| `RequestProofs` | | what the three encoders make of a conversation, item by item: the signatures in it, and where answers stand to their calls |
| `AdapterProofs` | | the proofs about `Adapters`, on top of `DecoderProofs`, `RequestProofs` and `EmitterProofs` |

### StreamLifecycle

`view` is the `validator` struct, `last` the event read. `Accepts` is the part of
`validator.step` that returns errors, `Apply` the part that records. An item's
id and its output index name the same item here, because the emitter generates
ids; payload text is left out; sequence numbers belong to the sinks. Option
`WithOutputIndexReuse` is not modelled. `Finish` compares the items by kind and
status, which is the package documentation's "in their final form" made precise.

### Emitter

An operation is not one step: `Begin` or a write action does what the Go method
does before its first send, sets `pc` to that event and remembers the operation
in `call`; each `Send...` action then sends one event, lets it succeed or fail,
and moves `pc` to the next send of the nested Go calls (`closePart` inside
`Close` inside `closeOpen` inside `openItem`). A failed send leaves the state as
far as the code had got and stops the adapter, as the contract of `EventSink`
asks. The writer structs live in the records of `out`. An adapter
(`AdapterCall`) makes any call at any time, on any writer it was ever given.
`EncryptedContent`, which only sets a payload field, is left out.

### ResponsesHandler, SSESink, MemoryStore

A request is a goroutine with a `phase`. Within one request the code runs as one
step up to the point where others can observe or interfere: the load from the
store, each `Send`, the save of a terminal event, the write that follows the
save. `AdapterFinishes` / `TerminalSent`, `FinishCompleted` / `FinishSent` and
`CreateReturns` / `WriteAnswer` are the two halves of "save, then let the client
know". The adapter is any program: it sends events of `Events` in any order, also
after errors, and returns nil or an error whenever it likes. Its responses have
unique ids, one per request, so a response is named by its request.

`up` is the client's connection: once it is down a write may succeed into a
buffer or fail. `saved` and `lost` are history variables (ids in the order the
store recorded them; ids whose save failed); nothing in the model reads them but
the answer a failed save of a JSON response turns into.

A client continues only from a response whose id it has read. `informed` remembers
whether it had also read that the response was finished: only then may it expect
to be able to continue.

### ClientAdapterProxy

Replaces the adapter of `ResponsesHandler` by the pump: `Open`, one `Forward` per
upstream event, and the end of the upstream as `[DONE]`, a closed body or a
failure, judged as `EventStream.finish` does. The handler's actions are used
unchanged.

### WebSocketSession

The server's reader, session, lifetime timer and keepalive are processes of their
own, and so are the client's program and its background read. `pc` says where the
session is in `turn`; the code between two steps runs without another goroutine
being able to tell. The reader reads one frame and parks with it (`ahead`) until
the session takes it, which is when pongs go unread. `WriteError` is the one
place where a failed write ends the session, as in `run`. A `Turn` on the client
returns at the first frame in `TurnEnd`; the frames after that stay for the next
one, as they do after a cancelled `Turn`. `Continuation` asks `cache` first and
`shared` second, `Forget` is `Continuation.Forget`. What varies between
connections is a record of `Settings`, chosen in `Init` and never changed. A turn
asks for the response that bears its number; `Elsewhere` is a response of another
connection that the shared store may hold. `told` and `dropped` are history.
An event of the adapter's that does not encode is an error of its `Send` and leaves the
connection as it was; the `response.completed` that `turn` makes of an adapter's silent
return may not encode either, and that ends the session, since `turn` returns the error
to `run` (`websocket.go:326`).

### EventSequence, EventPipeline

`EventPipeline` has an `EventStream` lock by lock: `Next` up to its first unlock
(`NextStarts`), the scanner outside the lock (`Scan`), the rest of `Next`
(`TakeEvent`, `TakeEnd`), the context hook from its start to its lock
(`HookStarts`, `HookRuns`), and `Close` by another goroutine. The stream is read
either by a consumer that ranges over it (`direct`) or by `ClientAdapter`'s pump in
the goroutine that `openresponses.Events` starts, whose channels are `Deliver` and
`answer`. `EventSequence` is the promise to the consumer in both cases: the events
in order, and a verdict that is honest. `SentWhole` and `SentFault` say, of what
the server and the caller did, whether a clean end or an error is deserved.
`HookRuns` does not depend on whether `NewEventStream` has assigned `s.stop`
(`stream.go:45`): when the hook runs there is nothing for `stop` to stop.

### Accumulator

One action per kind of event, with positions, slots, closed positions and reused
indexes as in `stream.go`, counted from one. A text is the list of item ids its
deltas were meant for, so a delta spliced into another item is visible. `ArgumentsDone` sets
the arguments whether or not there were deltas. The
server is of one of two kinds, chosen in `Init`: a wild one names any index, any id
or none, and lists whatever it likes; a lawful one follows the lifecycle, and
`meant` is what it has sent. `named` and `finished` are what a reader would
believe from the events alone.

### The provider adapters

A decoder's handling of a frame is a function from its state to its next state
and a list of emitter calls, `todo`. `AdapterDecoder` makes these calls one by one
on `Emitter`, with every send able to fail; a call that fails ends the adapter.
So `EmitterStep` and the writers are the ones of `Emitter`, and the decoders take
the place of its free adapter. A frame with several members is several frames
here. Each piece of text carries the number of the frame it came with, which is
what lets `ReplayIsWhatWasHeard` compare what is sent back with what was heard.
What still comes after an end is as in the code: Chat Completions frames go on being
handled after a finish reason, a block reason of Gemini's counts in any chunk, and
Gemini's chunks after a finish reason are never read (`chunk` has returned `done`). A
Claude turn that pauses with a tool call in it may fail to be encoded again
(`MayNotGoBack`), which fails the response. `MaxTurns` counts Claude's turns, the
first and its continuations.

The requests are functions from items to turns of blocks. `Adapters` joins the
two ends: a response is streamed, `Record`ed, extended by the client with items of
its own and of other providers, and encoded for the same provider or another.

What an adapter sends upstream is modelled as far as its order and its ownership
go. `ChatRequest` is the encoding under `WithReasoningReplay`, the option with the
longer code path. It keeps text, refusal and calls of a message as blocks in order where
the code fills separate fields. Two things depend on Gemini's model. `Validates`: only
the generations from 3 on check signatures, so only for these does `Sent` have
placeholders in it, and that goes by the model's name whichever encoding
`WithThinking` fixes. And `ThinkingFor` and `MaxBudget` of `ThinkingSettings`: the
encoding an adapter without the option chooses, and the budget of effort `xhigh`.

## 3. Runs

| run | question | instance | states |
|---|---|---|---|
| `emitter` | does every call sequence, with any send failing, produce a legal stream? | 3 items, 2 parts each | 119,454 |
| `handler_stream` | one request, any adapter and failure: numbered, ended, saved, answered? | 1 request, 3 events of 6 types | 7,941 |
| `handler_store` | concurrent continuations through a full store | 3 requests, capacity 1, symmetric | 2,979,705 |
| `proxy` | does a cut-off upstream stay cut off, does every end reach the client? | 1 request, 3 events of 6 types | 9,497 |
| `websocket` | do turns, cache, expiry, keepalive and a leaving client fit together? | 3 turns, cache of 1, six settings | 887,317 |
| `pipeline` | is what a consumer gets honest, and is nothing left behind? | 4 frames, both kinds of consumer | 147,286 |
| `accumulator` | does every delta reach its item, and is a lawful stream folded exactly? | 5 wild or 10 lawful events, 2 indexes, 3 kinds of item | 377,535 |
| `adapters` | does what a provider streams survive to the next request? | 4, 10 and 4 frames, 4 items of input, 10 token limits | 3,556,330 |
| `sequence_gap` | violation, see Findings | as `handler_stream`, the adapter stops on errors | |
| `proxy_error_twice` | violation, see Findings | 1 event, `error` | |
| `websocket_error` | violation, see Findings | the careless settings of `websocket` | |
| `paused_turn` | violation, see Findings | Claude, 8 frames, 3 turns | |

What they show:

* `ImplementsLifecycle` (emitter): refinement of `StreamLifecycle`, step by step.
  `OnlyTheOpenWriterIsLive`, `DoneItemsKeepTheirForm` and `TerminalStatuses` are
  about the response object the emitter keeps changing while readers hold
  earlier views of it.
* `ToldMeansSaved`, `ContinuationFound` (handler_store): the save-before-send
  order as a client can tell it. A `previous_response_not_found` for a response
  the client knew to be finished has a cause the client can be told: `store:
  false`, a failed response, a store error, or `Capacity` later saves.
* `StoredHistoriesAreConversations`, `OnlyFinishedResponsesAreContinued`: what a
  continuation hands to the adapter and what is saved for the next one.
* `NothingAfterTheEnd`, `StreamsEndProperly`, `SavedThoughTheClientLeft`
  (handler_stream): over every way out of `streamResponse` and `finish`.
* `CutOffIsNeverCompleted` (proxy): relates what the client read to how the
  upstream ended.
* `ContinuationFound`, `ConversationsAreWhole`, `SavedResponsesWereSent`
  (websocket): the cache in front of the shared store, where a client can ask for
  the next turn between the terminal event and its save. The single session
  goroutine is what makes that safe, and the run shows it.
* `NothingFollowsTheTerminalEvent`, `TurnsDoNotMix` (websocket): state their own
  exceptions, which are what the code does: an error frame when the shared store
  fails after the terminal event (`websocket.go:342-346`), and frames left
  behind by a `Turn` that returned early, which the next `Turn` reads
  (`websocket.go:553`).
* `AbandonedSessionEnds`, `PingAnswered` (websocket): the keepalive ends a session
  whose adapter would run for ever, and does not end one whose client is there.
  The second has two exceptions: a parked reader, on either side, reads no
  pong and answers no ping.
* `ImplementsSequence`, `ErrIsFinal`, `NothingIsLeftBehind` (pipeline): over every
  interleaving of the scanner, the hook, `Close`, the cancellation and the break.
* `IndexNamesItsItem`, `DeltasStayWithTheirItem`, `FinishedItemsAreKept` (accumulator):
  for any server; `LawfulStreamsFoldExactly` relates the result to `meant`, and
  so justifies the summary of the accumulator in `SSESink`.
* `WritesReachTheOpenItem`, `EndsAsTheProviderSaid` (adapters): the decoder's own
  notion of the open item against the emitter's, and the terminal event
  against the provider's stop reason, with any send failing.
* `ReplayIsWhatWasHeard`, `AnswersFollowTheirCalls`, `SignaturesGoHome`,
  `SettingsAreHonoured` (adapters): what a provider requires of its next request.
  `SignaturesGoHome` asks for a signature on the first call of every step only of models
  that validate them; any other is sent no signature but those it wrote.
  `SettingsAreHonoured` holds budgets to their limits (Claude's floor and `max_tokens`,
  the maximum of Gemini's model) and to the order of the efforts. It has one exception,
  which is the code's: where `max_tokens` is 1024 or less, no budget is at least 1024 and
  below it, and 1024 is sent for the API to refuse (`anthropic/request.go:329-331`).

Where `ReplayIsWhatWasHeard` assumes something of the provider, it says so:
`ToolFramesAdjoin` (text or log probabilities between two deltas of a tool call
make the Chat Completions decoder end that call and open another), and
`GeminiLayout` (a signed extension part is replayed with an extra thought part of
the same signature; grounding with no message before it makes an empty one). An
answer that comes *before* its call is accepted by the Gemini encoding, though
its error text speaks of a call that "precedes"; `AnswersFollowTheirCalls` is
about answers that come after.

### Bounds and why they are enough

* `MaxItems = 3`, `MaxParts = 2`: the emitter treats the open item and all others;
  two earlier items tell "the previous" from "some earlier" writer, two parts
  give a switch of part kind and back. The proofs remove these bounds.
* `MaxFrames` bounds the sequence numbers an adapter uses, not what `finish`
  adds. Three frames give created, content, terminal, plus what follows, and
  every order of two events before an error. In `handler_store` one frame is
  enough: the adapter either sends its terminal event or leaves it to `finish`.
* `Capacity = 1` with three requests: a chain of three turns, and an eviction
  between any two of them. Requests are interchangeable, so symmetry is sound
  for the invariants of that run; it has no liveness property.
* `EncodeMayFail`, `StoreMayFail` and `AdapterStops` are switches: `handler_store`
  leaves encoding failures to `handler_stream`. With `AdapterStops = FALSE` an
  adapter goes on after an event that did not encode, which the code permits;
  `TRUE` is the well-behaved adapter, used where a finding should not depend on
  a misbehaving one.
* `websocket`: three turns are a chain with a middle, a cache of one evicts in
  it. The settings split the questions (chains with well-behaved adapters;
  careless adapters, stores and clients over two turns; connections that end
  early over two turns), because no two of them meet in one hazard but the ones
  that are together. The client cannot send more than one turn ahead but by
  giving up or by sending while frames are left, which both are in.
  The proofs remove all of these bounds for the safety properties.
* `pipeline`: four frames hold an event, a terminal event, garbage and the end in
  any order; one frame that does not decode ends the stream.
* `accumulator`: to splice a delta takes an item closed, its index reused, a
  snapshot and the delta: four events, so five. Ten lawful ones are three items
  with parts and a terminal snapshot. Two indexes tell "this" from "another".
* `adapters`: a Claude block is three frames, so ten are three blocks and the end;
  a Gemini part is one frame; in Chat Completions four frames are a tool call in two
  fragments, a second call or text, and the finish reason, or what comes after one.
  Two items are kept of a response and the client
  fills up to four. `MaxItems` and `MaxParts` are never reached. `TokenLimits` are
  the values at which some budget begins to be cut down or to fit (1024 and 1025, and
  for the other efforts the budget or the limit above it), one below the floor, and the
  default; the three Gemini models are one of each encoding and largest budget.
  Of pieces recorded into the conversation only the kind is kept.

### Fairness

`FairSpec`: the goroutine of a request that arrived keeps running, and the
adapter returns in the end. The handler imposes no deadline of its own, so
without the second assumption nothing can be promised. Clients owe nothing: they
may never send and never leave. `ProxyFairSpec` replaces the adapter's half by
the pump's own return once it has a reason to; the upstream owes nothing, not
even an end of its stream, and so `EndedUpstreamIsAnswered` starts from the end
of the upstream rather than from the arrival of the request. The emitter's run
has no liveness property: the emitter owes no progress of its own.

`WebSocketSession`: goroutines run; the client's background read answers a ping
it comes to; an adapter stops when its context is cancelled or `Send` fails; a
ping on a dead connection fails. Nothing makes a client go on, an adapter return
by itself or a lifetime expire. `EventPipeline`: goroutines run, and a consumer
that has broken out or is waiting takes what there is; a consumer may sit in the
body of its loop for ever, and the server may fall silent for ever.

## 4. Findings

* `sequence_gap`: `writeLocked` takes the sequence number before it encodes the
  event (`handler.go:422`) and does not give it back. When an extension's
  `MarshalJSON` fails, the stream is finished with a gap in its numbers, while
  `doc.go:63` says a stream "numbers events from zero, increasing by one".
* `proxy_error_twice`: an upstream that reports an error event and drops the
  connection makes `ClientAdapter` forward the event and return it as well, and
  `finish` reports it again: the client reads error, error, response.failed.
  `doc.go:64` says a stream "follows an error event immediately with
  response.failed over SSE", and `clientadapter.go:20-22` that the failure is
  reported once.
* `websocket_error`: the WebSocket sink writes an `error` event of the adapter like
  any other (`websocket.go:392`) and takes what follows, and an adapter that
  returns nil after it is given a `response.completed`. `doc.go:65` says that
  "over WebSocket the error frame alone ends the turn". The client's `Turn` has
  returned by then, so the rest is read by its next `Turn`.
* `paused_turn`: a Claude turn that pauses and is resumed may go on with text,
  which the decoder writes into the message still open from before; when it
  pauses again, `CreateStream` replays only the items begun since
  (`anthropic/response.go:43`), and that text is not among them.
  `providers/PLAN.md:275` says that "the turn's output is replayed".

## 5. Proofs

### The emitter

`EmitterProofs` proves, for every `MaxItems` and `MaxParts` in `Nat` (the only
assumption):

| theorem | states |
|---|---|
| `Invariance` | `Spec => []IInv` |
| `TypeCorrect` | `Spec => []TypeOK` |
| `LifecycleImplemented` | `Spec => Lifecycle!Spec`: initial states map to initial states, every step to a step or a stutter |
| `OneLiveWriter` | `Spec => []OnlyTheOpenWriterIsLive` |
| `DoneItemsAreKept` | `Spec => []DoneItemsKeepTheirForm` |

None of the properties is inductive: whether an event is legal depends on what
the reader has seen, and the properties do not say how that relates to the
emitter's fields halfway through a call. `IInv` adds exactly that. `Agree` gives,
for each `pc`, the relation between the reader's view and the emitter's state
just before the event `pc` names is sent (`AtPartEnd`: the reader has the part
open, the writer has already forgotten it, `call.part` still names it).
`Control` ties `started`, `ended` and the one live writer to the view, `DoneItems`
is the announced statuses, and once the adapter has stopped only what was
announced matters.

The lifecycle is used through one lemma per event (`PartDelta` ... `Terminal`):
under which condition on the view the event is accepted, and what it does to
the view. Each `Send` action has one lemma, which applies the event's lemma when
the send succeeds and shows that a failed send leaves `IInv` true. `NextStep`
collects them; each then also yields the step of `Lifecycle!Spec`.

### The handler

`ResponsesHandlerProofs` proves, for every set of requests, every capacity above
zero, every set of events and every setting of the switches
(`ConstantsAssumption`, `EventsAssumption`):

| theorem | states |
|---|---|
| `Invariance` | `Spec => []IInv` |
| `TypeCorrect` | `Spec => []TypeOK` |
| `ToldAfterTheSave` | `Spec => []ToldMeansSaved` |
| `SavedWithoutTheClient` | `Spec => []SavedThoughTheClientLeft` |
| `FoundUntilEvicted` | `Spec => []ContinuationFound` |
| `HistoriesAreWhole` | `Spec => []StoredHistoriesAreConversations` |
| `FinishedBeforeContinued` | `Spec => []OnlyFinishedResponsesAreContinued` |
| `EndIsTheEnd` | `Spec => []NothingAfterTheEnd` |

The notion the argument turns on is `Settled`: the terminal event is recorded, or
the JSON response is made. No step changes a settled response any more, a
response is saved in the step that settles it and in no other (`SavedIsFinal`,
`NothingUnsaved`), and a client can only know a response to be finished once it is
settled (`KnownIsSettled`). `ContinuationFound` needs two more parts: `StoreOK`,
that the store's order is the last `Capacity` of all ids ever saved, from the
lemmas about `Evicted`; and `Informed`, that what a client knew when it sent its
request still holds when the store is asked. `WireOK` says how far the wire is
behind the sink: between recording and writing a terminal event its number is
taken and no frame has it.

There are four kinds of steps, each a lemma the actions are instances of: one
that saves nothing (`QuietStep`, `RefuseStep`, `EndStep`), one that settles a response
(`SaveStep`, `TerminateStep`), sending a request, and resolving it.

### The proxy

`ResponsesHandlerProofs` also proves `ProxyImplementsHandler`, `ProxySpec => Spec`: the
pump is one of the adapters the handler's specification allows, so all theorems
above hold with it. `CutOffStaysCutOff` is `ProxySpec => []CutOffIsNeverCompleted`,
by the invariant `PInv`: a request on its way to a terminal event other than
`response.failed`, or whose client has read `response.completed`, has an upstream
that finished its response or sent `[DONE]`.

### Statuses, ends of streams

`TerminalItemsAreFinal` of `EmitterProofs`, `Spec => []TerminalStatuses`, goes by
`TInv`: while an adapter runs, an item that is not completed is the last one, and
either the reader has it open or `Incomplete` has marked it and is on its way to
the terminal event. An adapter that stopped has left its items as they were, and
`Statuses` speaks of running adapters only.

`StreamsAreClosed` of `ResponsesHandlerProofs`, `Spec => []StreamsEndProperly`, goes by
`EndInv` on top of `IInv`: between two events the wire has no more frames than were
numbered and ends with the terminal event once that is recorded (`Between`),
and no write has failed while the client is there (`Undisturbed`). Every way
through `finish` then leaves the wire `Closed`.

### The accumulator

`AccumulatorProofs` proves, for every number of events, every number of indexes and
every choice of items (`BoundsAssumption`, `HoleAssumption`: "hole", the value of a
nil entry, is no item's id):

| theorem | states |
|---|---|
| `Invariance` | `Spec => []IInv` |
| `BookkeepingFits` | `Spec => []TypeOK` |
| `IndexesNameTheirItems` | `Spec => []IndexNamesItsItem` |
| `NoDeltaElsewhere` | `Spec => []DeltasStayWithTheirItem` |
| `FinishedItemsStay` | `Spec => []FinishedItemsAreKept` |
| `FoldIsExact` | `Spec => []LawfulStreamsFoldExactly` |

`IInv` is `Folded`, which holds under any server, and `Exact`, which a stream that
follows the lifecycle adds. The first three parts of `Folded` are about the map
`slots`: an index is in it exactly when the server named an item there (`Shape`),
until an index is reused positions *are* indexes (`Straight`), and the item at an
index's position is the one named last (`SlotsAgree`). `AllFit` says that the chunks of an item were meant for it, and
`FinishedAreClosed` that an item that is finished sits at a closed position, which no
event writes to. `Exact` is an equation, `out = meant`, so it is preserved only
because every lawful event does the same to both; it needs that no part is a hole
(`Whole`), that no index was reused and that the indexes are `1..Len(meant)`.

The lists are padded and filled by recursive functions on the naturals. What they
compute for every length is proved by taking the least counterexample
(`SetInduction`, from `NatLessThanWellFounded` and `WFMin`): an induction over a set, where the
library's `NatInduction` would need an operator for an argument.

### The adapters

`AdapterProofs` proves, of `StreamSpec`, one response of one provider from any frames:
`DecodersAreAdapters`, `StreamSpec => Spec` of `Emitter` (each call in `todo` is one of
the calls `AdapterCall` allows, and reading a frame leaves the emitter alone), and,
from the theorems about the emitter, `DecodersFollowTheLifecycle` and
`DecodersEndFinally`. Of `AdaptersSpec`, for every number of frames, turns, items and
parts (`FramesAssumption`, `InputAssumption`, `BoundsAssumption` of the emitter):

| theorem | states |
|---|---|
| `AdapterInvariance` | `AdaptersSpec => [](DInv /\ IInv)`, `IInv` that of the emitter |
| `WritesReachTheirItem` | `AdaptersSpec => []WritesReachTheOpenItem` |
| `AdaptersTypeCorrect` | `AdaptersSpec => []AdaptersTypeOK` |
| `AdaptersEndAsTheProviderSaid` | `AdaptersSpec => []EndsAsTheProviderSaid` |
| `SettingsReachTheProvider` | `AdaptersSpec => []SettingsAreHonoured` |
| `SignaturesReturn` | `AdaptersSpec => []SignaturesGoHome` |
| `AnswersReturn` | `AdaptersSpec => []AnswersFollowTheirCalls` |

A decoder and the emitter each have a notion of the item that is open, and the two
differ at almost every moment: the decoder is ahead by the calls it has
planned, the emitter is halfway through one. The argument brings them together
in two moves.

1. *What the running call comes to.* `Held` and `ItemsSoon` are the item the emitter
   will hold open, and the number of items it will have, when the call it is
   in is over. A call sets them; the events within it, the actions of `EmitterStep`,
   leave them alone (`EventsKeepTheOutcome`). To an adapter, which waits for its
   calls to return, the emitter is these two numbers.
2. *What the planned calls come to.* `Planned(todo, h, n)`: the first planned call is due
   on `h` and `n`, and each later one on what the call before it leaves open
   (`DueOn`, `Follows`): a write or a close is to the last item, which is open;
   an opening adds the next. `Sound` says that the decoder's own fields are the outcome
   of its whole plan: it holds one writer at most, and that one is the item the
   plan leaves open, which is the last. `Finished` is the plan of a decoder that
   returns.

`DInv` is then: while `CreateStream` runs, `Sound(dec, Held, ItemsSoon)` or
`Finished(dec, Held, ItemsSoon)`. Making a call moves it from the plan into `Held` and
`ItemsSoon` (`CallKeepsDInv`), and hearing a frame extends the plan. The second
needs for each provider what its handlers rely on between frames:

* `ChatShape`: while a tool call is assembled (`index # 0`) no message and no
  reasoning is open, and from the first item on something is open or assembled;
* `ClaudeShape`, by the block that is streamed: the block's writer is held, or its raw
  form is kept and nothing is; citations wait only with a message open;
* `GeminiShape`, by the last part: what text, a thought or grounding went to is
  still held, and no good finish reason has come.

`DecoderProofs` has the lemmas about plans and one lemma or two per handler of each
decoder (`OpenMessage`, `CloseOpen`, `StartBlock`, ... and last the three readers):
it keeps `Sound` and the shape, or ends in `Finished`. They hold for Gemini's parts and
for Chat Completions deltas in any order, after a finish reason too, a tool call whose
index changes back and fragments with only an id included, and for Claude's events as its
protocol frames blocks (`ClaudeMaySend`), over any number of resumed turns.

`EndsAsTheProviderSaid` speaks of the end, when the plan is gone. `EInv` remembers it:
a `Complete` or `Incomplete` that is planned is the one the stop reason asks for, and
where an item was streamed last it is open to be marked (`Verdict`); once it is called
(`EndCalled`) only the return is left, the last item has its mark (`EndsRight`), an item
without a writer is completed (`WholeItems`), and the terminal event carries the
items as they are (`LastIsTheEnd`). The statuses of the items before the last are
`TInv` of the emitter.

`SettingsReachTheProvider` needs only that the settings of a request are among those a
client may ask for (`Asked`); the rest is a case analysis of the two encoders over every
effort, model and summary. The token limits are any set of naturals (`LimitsAssumption`),
so the budgets are arithmetic: `BudgetFits` for the limits and `BudgetGrows` for the order
of the efforts. CASE expressions of the decoders and encoders have
disjoint guards, in the order of the code's `switch`, so that they mean the same to the
prover and to TLC.

### The requests

`SignaturesReturn` and `AnswersReturn` are about conversations of any length: what any of
the three providers streamed, recorded, and whatever clients add. The invariant it needs of the
conversation is short, `InputOK`: every item is an `Entry`, with pieces and a role
of the known kinds and a signature that is named after an item (`Tagged`), so that no
recorded one is mistaken for the placeholder that Gemini's encoder invents. What is
long is what an encoder makes of such a conversation, which `RequestProofs` proves
of the three recursive functions over items:

* `Run(p, items, calls, s)`: an encoder is a start and a step, and the request is
  its state after the last item (`ChatRun`, `ClaudeRun`, `GeminiRun`). A property of the
  states of a run is proved for every length by the least counterexample
  (`NaturalSteps`, `ListSteps`), as in `AccumulatorProofs`.
* `FlattenSeq`, which the community module defines by a recursion of its own, is given its laws
  once: what it makes of an empty, a longer and a joined list (`FlattenAppend`,
  `SpreadConcat`), and that spreading a list twice is spreading it once by the composed
  function (`SpreadTwice`). So the signatures of a conversation grow by those of the
  item added, and those of a list of turns by those of the blocks joined to it,
  whether these open a turn or go to the last one (`SignedJoin`).
* `ChatSendsNone`: every block of a run is unsigned, those of the media that wait for a
  user message too (`ChatGood`).
* `ClaudeSendsItsOwn`: an item adds exactly the signature it has, if Claude may replay
  it (`ClaudeSays`). Putting tool results first reorders the blocks of a user turn,
  which could reorder signatures; it does not, since blocks on the user's side have
  none (`UserUnsigned`).
* `GeminiSendsItsOwn`: here a signature waits for the part it belongs to, so the account
  is `Carried`, the signatures sent and then the pending one; each item adds its own
  to that and none is dropped, doubled or overtaken (`GeminiSays`), whichever of the
  ways through `add` and `flush` is taken. That the signature before a call is on
  that call follows as the call is what the next `add` is about, and as later items
  only add blocks or sign none that is there (`Leads`).
* `PlaceholdersSent`: for a model that validates, the placeholder goes on an unsigned first
  call only, so that it neither replaces a signature nor leaves a step without one. For
  another, what is sent is what was encoded.

Where an answer stands is a question about the same runs (`ClaudeAnswersFollow`,
`GeminiAnswersFollow`, `ChatAnswersFollow`). A call is item i, its answer item j, and
the state of an encoder between the two is in one of two places: the last turn is the
one with the call (`ClaudeAt`, `GeminiAt`, `ChatAt`), or the user's side has begun right
after it (`ClaudeAfter`, `GeminiAfter`, `ChatAfter`; for Chat Completions, only tool
messages came since, `AnsweredSoFar`).

* `Reached` and `Walked` go along the items: an encoder is brought to the first place by
  item i, stays in the two through items of the right side, and leaves them by item j for
  "answered" (`Met`, `Replied`). They hold for any encoder for which
  each item does one of these (`ClaudeGoesOn`, `GeminiGoesOn`, `ChatGoesOn`).
* Once answered it stays so, as later items only prolong what there is: turns keep
  their place and role, and gain blocks or followers (`Prolonged`, `JoinPlaces`,
  `AppendPlaces`, `MetGrown`, `RepliedGrown`).
* Items a provider is not shown may stand between. `ClaudeMute`, `GeminiMute` and `ChatMute`
  say, as `Silent` of the property does, that such an item sent alone gives no
  turns; that it adds none in the midst of a conversation either is a lemma for each
  encoder (`ClaudeMuteAdds`, ...).
* What is done to the turns afterwards moves no block to another turn: tool results put
  first (`OrderedPlaces`; these are in user turns only, `OnlyFrom`, so that every turn
  comes out in order, `ResultsLead`), and Gemini's placeholders (`PlaceholdersKeep`).
* What an encoder holds back does not come between: the signature that waits in
  Gemini's is sent with a part of the model's side or before that side is
  left, and the media in the one for Chat Completions after the last tool message.

`AdapterProofs` shows that `InputOK` is kept by recording, adding and sending
(`RecordedEntries`, `AddedIsEntry`, `InputStep`), that `Prompt` is the condition
of these theorems (`PromptIs`), and puts the three together for each of the two properties.

### Reading a stream

`EventPipelineProofs` proves, for every `MaxFrames` in `Nat`, `TypeCorrect`,
`SequenceImplemented` (`Spec => ImplementsSequence`, a refinement) and `ErrorIsFinal`
(`Spec => ErrIsFinal`). That a verdict is honest is not inductive: when the
consumer asks, the frame that decided it is gone. `PipelineInv` keeps the account.
`Counted`: the events delivered, in the body and in the reader's hand are all that
were sent, but for one whose `Send` failed; its arithmetic rests on lemmas about
the number of events in a sequence of frames (`CountAppend`, `CountTail`). `Honest`:
each frame in hand and each error has its cause in the server or the caller.
`Finished`: a stream that is done without an error has an empty body and a whole
stream behind it, and one that was closed under the reader was closed by somebody.
`Places`: who is where.

### One connection

`WebSocketProofs` proves, for every `MaxTurns` in `Nat`, every `CacheSize` above zero and
every set of settings (`SettingsAssumption`):

| theorem | states |
|---|---|
| `TypeCorrect` | `Spec => []TypeOK` |
| `ContinuationsAreFound` | `Spec => []ContinuationFound` |
| `StoredConversations` | `Spec => []ConversationsAreWhole` |
| `SavedWereSent` | `Spec => []SavedResponsesWereSent` |
| `NothingFollows` | `Spec => []NothingFollowsTheTerminalEvent` |
| `TurnsAreKeptApart` | `Spec => []TurnsDoNotMix` |

The invariant `IInv` has four parts. `Types` adds to `TypeOK` that the cache's order is
`Ascending`. `Order`: the turn the session runs, the one its reader is parked with and
those on their way come in the order they were sent, so every turn is run once and
ids grow. `Server` relates what was told of a turn, what the stores hold and where the
session is: nothing is known of a turn before its time (`Fresh`), the sink agrees with
what was written (`Outcome`), and what was finished is in the cache, was forgotten on
purpose or has made room (`Remembered`). The last needs both of the first two: an entry
is evicted from the front of an ascending order, so the `CacheSize` entries that
remain are younger. `Reading` is the client's half: what is still unread
(`Unread`) and how each `Turn` ended (`Results`).

The actions of the session are instances of a few steps, each a lemma: the turn fails
(`FailStep`), goes on silently (`MoveStep`), or goes on with an event (`TellStep`); the two
ends of `saving` (`SkipStep`, `SaveStep`) have lemmas of their own. They rest on what
`Saved` and `Deleted` make of a store (`SavedStore`, `SavedInOrder`, `DeletedStore`).

## 6. What is only model-checked, and what is left out

Only model-checked:

* liveness (`EveryRequestIsAnswered`, `EndedUpstreamIsAnswered`,
  `AbandonedSessionEnds`, `PingAnswered`, `NothingIsLeftBehind`): fairness and ENABLED
  are outside the proof system's reach;
* one invariant of `adapters`, `ReplayIsWhatWasHeard`: it compares what an encoder makes of
  a response with what was heard, and its two sides are folds of different lists by
  different rules (merging, layout), in three ways. It would take an invariant that relates
  what a decoder has heard so far, call by call of its plan, to what an encoder makes
  of a response that is not finished.

Left out, on purpose:

* headers, URLs, the upgrade and its check of origins, framing of events and the
  bytes of the scanner; text, ids and payloads;
* `/responses/compact`, which keeps no state; a handler without a store, which
  hands `previous_response_id` to the adapter;
* of the provider adapters: request fields other than the conversation and the
  thinking settings, tools and instructions, cache breakpoints, usage, the tables
  of HTTP errors, `Describe`, and offsets of citations: they are functions on
  payloads without order or memory;
* the filters of `ClientAdapter` on request members, items and annotations;
* that the accumulated response shares objects with the snapshot it was taken
  from (`stream.go:348`): the models have values, not references;
* annotations and log probabilities in the accumulator, which grow as text does;
* option `WithOutputIndexReuse` of `streamtest.Validate`;
* the echo adapter, an instance of "any adapter"; the conformance suite and the
  examples.

## 7. Plan

In order of weight:

1. done: `StreamLifecycle`, `Emitter`, `EmitterProofs`; `MemoryStore`, `SSESink`,
   `ResponsesHandler`, `ResponsesHandlerProofs`; `ClientAdapterProxy` and its proofs.
2. done: `WebSocketSession`; `Accumulator`; `EventSequence` and `EventPipeline`; the
   decoders over `Emitter` and the encodings of the conversation.
3. `streamtest.Validate` with `WithOutputIndexReuse`, as a second lifecycle the
   lawful server of `Accumulator` is shown to follow.
4. The provider requests' tools and instructions; the filters of `ClientAdapter`.
5. The echo adapter and the conformance suite's servers, as instances.

Theorem left: `ReplayIsWhatWasHeard`, on the runs of `RequestProofs` and with the same kind
of account of what is heard.
