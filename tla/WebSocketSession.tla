--------------------------- MODULE WebSocketSession ---------------------------
(***************************************************************************)
(* One WebSocket connection (src/websocket/websocket.go): the server's     *)
(* `session` and, at the other end, a program that runs turns on a `Conn`. *)
(*                                                                         *)
(* The server has four goroutines: the reader, which may hold one frame    *)
(* the session has not taken yet, the session itself, the lifetime timer   *)
(* and the keepalive.  The adapter runs in the session's.  The client's    *)
(* Conn reads in the background and is stuck with a frame nobody asks for. *)
(* Turn t asks for the response named t.                                   *)
(***************************************************************************)
EXTENDS Naturals, Sequences

CONSTANTS
  MaxTurns,   \* bound on the turns of a connection
  CacheSize,  \* WithCacheSize
  Settings    \* the connections considered

INSTANCE SSESink WITH EncodeMayFail <- FALSE
Store == INSTANCE MemoryStore

(***************************************************************************)
(* How a server is set up, and what its connections meet.                  *)
(***************************************************************************)
Setting ==
  [ store:      BOOLEAN,           \* the handler has a response store ...
    storeFails: BOOLEAN,           \* ... that can return errors
    encodeFails: BOOLEAN,          \* an event's MarshalJSON can
    keepalive:  BOOLEAN,           \* WithKeepalive is not zero
    expires:    BOOLEAN,           \* the lifetime may be reached
    leaves:     BOOLEAN,           \* the client may go away
    givesUp:    BOOLEAN,           \* the client may cancel a Turn
    turns:      0..MaxTurns,       \* bound on its turns
    events:     SUBSET EventType,  \* what adapters send
    frames:     Nat ]              \* bound on the events of one turn

ASSUME SettingsAssumption ==
  /\ MaxTurns \in Nat
  /\ CacheSize \in Nat \ {0}
  /\ Settings \subseteq Setting

VARIABLES
  set,        \* the setting of this connection
  req,        \* the turns sent so far
  mode,       \* "turn" inside Conn.Turn, "idle" between turns
  result,     \* what ended each Turn
  up, down,   \* frames on their way to the server and to the client
  link,       \* the connection
  reader,     \* the server's reader: reading, parked or gone
  ahead,      \* the turn it is parked with
  pc,         \* where the session is
  turn,       \* the turn it runs
  sink,       \* its sink: the accumulated response, terminal, failed, events sent
  resolved,   \* Continuation.Resolved
  conv,       \* req.Input once resolved, then the response
  cancelled,  \* the session's context
  timer,      \* the lifetime timer
  ping,       \* whether the keepalive waits for a pong
  cache,      \* the connection's memory
  shared,     \* the handler's store
  told,       \* types of the frames written for each turn
  dropped     \* ids deleted from the cache

clientVars  == <<req, mode, result>>
wireVars    == <<up, down, link, told>>
readerVars  == <<reader, ahead>>
turnVars    == <<turn, sink, resolved, conv>>
storeVars   == <<cache, shared, dropped>>
sessionVars == <<set, pc, cancelled, timer, ping>>
vars == <<clientVars, wireVars, readerVars, turnVars, storeVars, sessionVars>>

Turn      == 1..MaxTurns
None      == 0                 \* no previous_response_id
Elsewhere == MaxTurns + 1      \* a response of another connection
Ids       == 1..MaxTurns + 1
Sent      == 1..Len(req)

(* Frames that are no event of the adapter's: errorFrame, by what it says. *)
ErrorFrame == {"error", "not_found", "limit"}

(* The session's own response.completed when all the adapter sent is error *)
(* events: it has no id to continue from.                                  *)
Unnamed == "completed_without_id"

Ping       == [turn |-> 0, type |-> "ping"]
Pong       == 0

(* open; lost: the client vanished; closed by the client; shut by the server *)
Link == {"open", "lost", "closed", "shut"}

NewTurnSink == [acc |-> NoResponse, terminal |-> FALSE, failed |-> FALSE, sent |-> 0]

-----------------------------------------------------------------------------
(* The client. *)

Known(t) == t = Elsewhere \/ t \in Sent

(***************************************************************************)
(* Conn.Send, as Turn calls it.  A frame the session refuses (no JSON, an  *)
(* unknown type, a forbidden field, an invalid request, no text) is `bad`. *)
(***************************************************************************)
SendTurn ==
  /\ mode = "idle" /\ link = "open" /\ Len(req) < set.turns
  /\ \E prev \in {None} \cup {t \in Ids : Known(t)}, keep, bad \in BOOLEAN :
       /\ bad => prev = None /\ keep
       /\ req' = Append(req, [prev |-> prev, store |-> keep, bad |-> bad])
  /\ mode' = "turn"
  /\ up' = Append(up, Len(req) + 1)
  /\ UNCHANGED <<result, down, link, told, readerVars, turnVars, storeVars, sessionVars>>

TurnEnd == Terminal \cup ErrorFrame \cup {Unnamed}

(* Mutant: every event with a response ends the turn. *)
EndsAtAnyResponse(type) == type \in TurnEnd \cup WithID

(* Turn returns at a terminal event and at an error. *)
EndsTurn(type) == type \in TurnEnd

EndTurn(r) == mode' = "idle" /\ result' = [result EXCEPT ![Len(req)] = r]

(* Next inside Turn. *)
NextFrame ==
  /\ mode = "turn" /\ link \in {"open", "shut"}
  /\ down # <<>> /\ Head(down) # Ping
  /\ down' = Tail(down)
  /\ IF EndsTurn(Head(down).type) THEN EndTurn(Head(down)) ELSE UNCHANGED <<mode, result>>
  /\ UNCHANGED <<req, up, link, told, readerVars, turnVars, storeVars, sessionVars>>

(* Reading has failed: the server closed the connection. *)
NextFails ==
  /\ mode = "turn" /\ link = "shut" /\ down = <<>>
  /\ EndTurn([turn |-> 0, type |-> "failed"])
  /\ UNCHANGED <<req, wireVars, readerVars, turnVars, storeVars, sessionVars>>

(* Turn returns because its context is cancelled; the frames stay. *)
GiveUp ==
  /\ set.givesUp /\ mode = "turn"
  /\ EndTurn([turn |-> 0, type |-> "cancelled"])
  /\ UNCHANGED <<req, wireVars, readerVars, turnVars, storeVars, sessionVars>>

(* Conn.read answers a ping it comes to, whatever the program does. *)
AnswerPing ==
  /\ link = "open" /\ down # <<>> /\ Head(down) = Ping
  /\ down' = Tail(down)
  /\ up' = Append(up, Pong)
  /\ UNCHANGED <<clientVars, link, told, readerVars, turnVars, storeVars, sessionVars>>

(* Conn.Close, at the latest after the last turn, or the client is gone    *)
(* without a word.                                                         *)
Leave ==
  /\ link = "open"
  /\ \/ link' = "closed" /\ (set.leaves \/ (mode = "idle" /\ Len(req) = set.turns))
     \/ link' = "lost" /\ set.leaves
  /\ mode' = "idle"
  /\ UNCHANGED <<req, result, up, down, told, readerVars, turnVars, storeVars, sessionVars>>

-----------------------------------------------------------------------------
(* The server's reader. *)

(* Mutant: the session reads for itself, between turns. *)
ReadsBetweenTurns == reader = "reading" /\ pc = "waiting"

(* A goroutine of its own reads while a turn runs. *)
Reads == reader = "reading"

ReadFrame ==
  /\ Reads /\ up # <<>> /\ ~cancelled
  /\ link \in {"open", "lost"}
  /\ up' = Tail(up)
  /\ IF Head(up) = Pong
     THEN ping' = FALSE /\ UNCHANGED readerVars
     ELSE ping' = ping /\ reader' = "parked" /\ ahead' = Head(up)
  /\ UNCHANGED <<clientVars, down, link, told, turnVars, storeVars, pc, cancelled, timer, set>>

(* Read fails, or the context is cancelled while the frame is held. *)
ReaderStops ==
  /\ \/ reader = "reading" /\ (cancelled \/ link \in {"closed", "shut"})
     \/ reader = "parked" /\ cancelled
  /\ reader' = "gone"
  /\ UNCHANGED <<ahead, clientVars, wireVars, turnVars, storeVars, sessionVars>>

-----------------------------------------------------------------------------
(* Writing a frame. *)

CanWrite  == link \in {"open", "lost"} /\ ~cancelled
CannotWrite == link # "open" \/ cancelled

PutFrame(t, type) ==
  /\ down' = Append(down, [turn |-> t, type |-> type])
  /\ told' = IF t = 0 THEN told ELSE [told EXCEPT ![t] = Append(@, type)]

(***************************************************************************)
(* writeError, whose own error ends the session: `run` returns, closes the *)
(* connection, cancels the context and stops the timer.                    *)
(***************************************************************************)
EndSession ==
  /\ pc' = "over"
  /\ link' = IF link \in {"open", "lost"} THEN "shut" ELSE link
  /\ cancelled' = TRUE
  /\ timer' = IF timer = "armed" THEN "stopped" ELSE timer

WriteError(type) ==
  \/ /\ CanWrite
     /\ PutFrame(turn, type)
     /\ pc' = "waiting"
     /\ UNCHANGED <<link, cancelled, timer>>
  \/ /\ CannotWrite
     /\ EndSession
     /\ UNCHANGED <<down, told>>

-----------------------------------------------------------------------------
(* The session. *)

TakeFrame ==
  /\ pc = "waiting" /\ reader = "parked"
  /\ reader' = "reading"
  /\ pc' = "resolving"
  /\ turn' = ahead
  /\ sink' = NewTurnSink /\ resolved' = FALSE /\ conv' = <<ahead>>
  /\ UNCHANGED <<ahead, clientVars, wireVars, storeVars, cancelled, timer, ping, set>>

FramesClosed ==
  /\ pc = "waiting" /\ reader = "gone"
  /\ EndSession
  /\ UNCHANGED <<clientVars, readerVars, turnVars, storeVars, up, down, told, ping, set>>

InTurn(p) == pc = p /\ UNCHANGED <<clientVars, readerVars, up, turn, ping, set>>
Quiet     == UNCHANGED <<link, cancelled, timer, down, told>>

(* The frame is bad. *)
RefuseFrame ==
  /\ InTurn("resolving") /\ req[turn].bad
  /\ WriteError("error")
  /\ UNCHANGED <<sink, resolved, conv, storeVars>>

Prev == req[turn].prev

(* ResolveContinuation: the connection's memory first, the store second. *)
InCache  == Store!Holds(cache, Prev)
InShared == set.store /\ Store!Holds(shared, Prev)

(* Mutant: only the response continued is inlined, not what led to it. *)
LastResponseOnly == <<Prev>>

Past     == IF InCache THEN Store!History(cache, Prev) ELSE Store!History(shared, Prev)

(* cache.Delete of the continued response, if the continuation resolved. *)
Forget(done) ==
  /\ cache'   = IF done THEN Store!Deleted(cache, Prev) ELSE cache
  /\ dropped' = IF done THEN dropped \cup {Prev} ELSE dropped
  /\ UNCHANGED shared

Resolve ==
  /\ InTurn("resolving") /\ ~req[turn].bad
  /\ \/ Prev = None /\ UNCHANGED <<resolved, conv>>
     \/ /\ Prev # None /\ (InCache \/ InShared)
        /\ resolved' = TRUE
        /\ conv' = Append(Past, turn)
  /\ pc' = "running"
  /\ Quiet /\ UNCHANGED <<sink, storeVars>>

(* checkFunctionCallOutputs refuses the inlined conversation. *)
ResolveRejected ==
  /\ InTurn("resolving") /\ ~req[turn].bad
  /\ Prev # None /\ (InCache \/ InShared)
  /\ Forget(TRUE)
  /\ WriteError("error")
  /\ UNCHANGED <<sink, resolved, conv>>

(* The shared store cannot be asked. *)
ResolveFailed ==
  /\ set.store /\ set.storeFails
  /\ InTurn("resolving") /\ ~req[turn].bad
  /\ Prev # None /\ ~InCache
  /\ WriteError("error")
  /\ UNCHANGED <<sink, resolved, conv, storeVars>>

(* A miss is final unless the adapter may know a stored response itself. *)
MissIsFinal == ~req[turn].store \/ set.store

ResolveMissed ==
  /\ InTurn("resolving") /\ ~req[turn].bad
  /\ Prev # None /\ ~InCache /\ ~InShared
  /\ IF MissIsFinal
     THEN WriteError("not_found")
     ELSE pc' = "running" /\ Quiet
  /\ UNCHANGED <<sink, resolved, conv, storeVars>>

-----------------------------------------------------------------------------
(* The adapter, in the session's goroutine. *)

(* Mutant: the sink takes events after the terminal one. *)
AcceptsAnything(s) == ~s.failed

(* sink.Send: refused after a failed write and after a terminal event. *)
SinkAccepts(s) == ~s.failed /\ ~s.terminal

(* A frame that was written is folded, and may be terminal. *)
Folding(s, type) ==
  [s EXCEPT !.acc = Folded(s.acc, type, TRUE), !.terminal = type \in Terminal, !.sent = s.sent + 1]

(* An event that does not encode leaves the sink as it was. *)
AdapterSends(type) ==
  /\ InTurn("running") /\ SinkAccepts(sink) /\ sink.sent < set.frames
  /\ \/ CanWrite /\ PutFrame(turn, type) /\ sink' = Folding(sink, type)
     \/ CannotWrite /\ sink' = [sink EXCEPT !.failed = TRUE] /\ UNCHANGED <<down, told>>
     \/ set.encodeFails /\ sink' = [sink EXCEPT !.sent = @ + 1] /\ UNCHANGED <<down, told>>
  /\ UNCHANGED <<pc, link, cancelled, timer, resolved, conv, storeVars>>

AdapterReturns ==
  /\ InTurn("running")
  /\ pc' \in {"returned", "errored"}
  /\ Quiet /\ UNCHANGED <<sink, resolved, conv, storeVars>>

(* An adapter stops when its context is cancelled or Send fails. *)
AdapterStops == (cancelled \/ sink.failed) /\ AdapterReturns

-----------------------------------------------------------------------------
(* After the adapter. *)

SinkFailed ==
  /\ pc \in {"returned", "errored"} /\ InTurn(pc) /\ sink.failed
  /\ EndSession
  /\ UNCHANGED <<down, told, sink, resolved, conv, storeVars>>

(* Mutant: an error of the adapter is reported whatever it has sent. *)
ReportsAnyError(s) == pc = "errored" /\ ~s.failed

(* An error counts unless a terminal event went out. *)
ReportsError(s) == pc = "errored" /\ ~s.failed /\ ~s.terminal

TurnFailed ==
  /\ InTurn("errored") /\ ReportsError(sink)
  /\ Forget(resolved)
  /\ WriteError("error")
  /\ UNCHANGED <<sink, resolved, conv>>

Succeeded == pc \in {"returned", "errored"} /\ ~sink.failed /\ ~ReportsError(sink)

(* No terminal event: the session completes the accumulated response, or a *)
(* new one, itself.  What it saves is that response, if it has an id.  An  *)
(* error of that Send ends the session, one of encoding the event too.     *)
CompleteTurn ==
  /\ Succeeded /\ InTurn(pc) /\ ~sink.terminal
  /\ \/ /\ CanWrite
        /\ LET named == IDAtFinish(sink.acc) IN
             /\ PutFrame(turn, IF named THEN "response.completed" ELSE Unnamed)
             /\ sink' = [sink EXCEPT !.acc = Snapshot(named, "completed"), !.terminal = TRUE]
        /\ pc' = "saving"
        /\ UNCHANGED <<link, cancelled, timer>>
     \/ /\ CannotWrite \/ set.encodeFails
        /\ EndSession
        /\ UNCHANGED <<down, told, sink>>
  /\ UNCHANGED <<resolved, conv, storeVars>>

TurnDone ==
  /\ Succeeded /\ InTurn(pc) /\ sink.terminal
  /\ pc' = "saving"
  /\ Quiet /\ UNCHANGED <<sink, resolved, conv, storeVars>>

(* Mutant: what has failed is saved too. *)
AnySaved == sink.acc.id

(* A response with no id, and a failed one, are not saved. *)
IsSaved == sink.acc.id /\ sink.acc.status # "failed"

SkipSave ==
  /\ InTurn("saving") /\ ~IsSaved
  /\ Forget(resolved /\ sink.acc.id)
  /\ pc' = "waiting"
  /\ Quiet /\ UNCHANGED <<sink, resolved, conv>>

(* The shared store gets what the client did not ask to be kept out of it. *)
IsShared == set.store /\ req[turn].store

(* The terminal event is out when the response is saved. *)
SaveTurn ==
  /\ InTurn("saving") /\ IsSaved
  /\ cache' = Store!Saved(cache, turn, conv, CacheSize)
  /\ \/ /\ ~IsShared
        /\ shared' = shared /\ pc' = "waiting" /\ Quiet
     \/ /\ IsShared
        /\ shared' = Store!Saved(shared, turn, conv, MaxTurns + 1)
        /\ pc' = "waiting" /\ Quiet
     \/ /\ IsShared /\ set.storeFails
        /\ shared' = shared
        /\ WriteError("error")
  /\ UNCHANGED <<sink, resolved, conv, dropped>>

-----------------------------------------------------------------------------
(* The lifetime timer and the keepalive. *)

(* expire, under a context of its own: the frame ... *)
Expire ==
  /\ set.expires /\ timer = "armed"
  /\ timer' = "closing"
  /\ IF link \in {"open", "lost"} THEN PutFrame(0, "limit") ELSE UNCHANGED <<down, told>>
  /\ UNCHANGED <<clientVars, up, link, readerVars, turnVars, storeVars, pc, cancelled, ping, set>>

(* ... then Close, and the session's context. *)
ExpireCloses ==
  /\ timer = "closing"
  /\ timer' = "stopped"
  /\ link' = IF link \in {"open", "lost"} THEN "shut" ELSE link
  /\ cancelled' = TRUE
  /\ UNCHANGED <<clientVars, up, down, told, readerVars, turnVars, storeVars, pc, ping, set>>

SendPing ==
  /\ set.keepalive
  /\ ~cancelled /\ ~ping /\ link \in {"open", "lost"}
  /\ ping' = TRUE
  /\ down' = Append(down, Ping)
  /\ UNCHANGED <<clientVars, up, link, told, readerVars, turnVars, storeVars, pc, cancelled, timer, set>>

(* Mutant: the keepalive gives up and leaves the session alone. *)
OnlyStopsPinging == cancelled

(* cancel *)
CancelsSession == TRUE

(* No pong in time, or the connection does not take the ping. *)
PingFails ==
  /\ set.keepalive /\ ~cancelled
  /\ ping \/ link \in {"closed", "shut"}
  /\ cancelled' = CancelsSession
  /\ UNCHANGED <<clientVars, wireVars, readerVars, turnVars, storeVars, pc, timer, ping, set>>

-----------------------------------------------------------------------------
Init ==
  /\ req = <<>> /\ mode = "idle" /\ result = [t \in Turn |-> [turn |-> 0, type |-> "none"]]
  /\ up = <<>> /\ down = <<>> /\ link = "open" /\ told = [t \in Turn |-> <<>>]
  /\ reader = "reading" /\ ahead = 0
  /\ pc = "waiting" /\ turn = 0 /\ sink = NewTurnSink /\ resolved = FALSE /\ conv = <<>>
  /\ cancelled = FALSE /\ timer = "armed" /\ ping = FALSE
  /\ set \in Settings
  /\ cache = Store!EmptyStore /\ dropped = {}
  /\ shared \in {Store!EmptyStore} \cup
       (IF set.store THEN {Store!Saved(Store!EmptyStore, Elsewhere, <<Elsewhere>>, 1)} ELSE {})

Client == SendTurn \/ NextFrame \/ NextFails \/ GiveUp \/ AnswerPing \/ Leave

Session ==
  \/ TakeFrame \/ FramesClosed \/ RefuseFrame
  \/ Resolve \/ ResolveRejected \/ ResolveFailed \/ ResolveMissed
  \/ SinkFailed \/ TurnFailed \/ CompleteTurn \/ TurnDone \/ SkipSave \/ SaveTurn

Adapter == AdapterReturns \/ \E type \in set.events : AdapterSends(type)

Over == pc = "over" /\ UNCHANGED vars

Next ==
  \/ Client \/ Session \/ Adapter
  \/ ReadFrame \/ ReaderStops
  \/ Expire \/ ExpireCloses \/ SendPing \/ PingFails
  \/ Over

(***************************************************************************)
(* Goroutines run, the client's background read answers pings, an adapter  *)
(* stops when it must, and a ping on a dead connection fails.  Nothing     *)
(* makes a client go on, an adapter return or a lifetime expire.           *)
(***************************************************************************)
Fairness ==
  /\ WF_vars(Session) /\ WF_vars(ReadFrame) /\ WF_vars(ReaderStops)
  /\ WF_vars(AdapterStops) /\ WF_vars(AnswerPing) /\ WF_vars(NextFrame)
  /\ WF_vars(SendPing) /\ WF_vars(link # "open" /\ PingFails) /\ WF_vars(ExpireCloses)

Spec == Init /\ [][Next]_vars /\ Fairness

-----------------------------------------------------------------------------
FrameType == EventType \cup ErrorFrame \cup {Unnamed}
Result    == [turn: 0..MaxTurns, type: FrameType \cup {"none", "failed", "cancelled"}]

(* The state has its type, and the cache never outgrows its size. *)
TypeOK ==
  /\ req \in Seq([prev: 0..MaxTurns + 1, store: BOOLEAN, bad: BOOLEAN])
  /\ mode \in {"idle", "turn"} /\ result \in [Turn -> Result]
  /\ up \in Seq(0..MaxTurns)
  /\ down \in Seq([turn: 0..MaxTurns, type: FrameType \cup {"ping"}])
  /\ link \in Link /\ told \in [Turn -> Seq(FrameType)]
  /\ reader \in {"reading", "parked", "gone"} /\ ahead \in 0..MaxTurns
  /\ pc \in {"waiting", "resolving", "running", "returned", "errored", "saving", "over"}
  /\ turn \in 0..MaxTurns /\ conv \in Seq(Ids)
  /\ timer \in {"armed", "closing", "stopped"}
  /\ {resolved, cancelled, ping} \subseteq BOOLEAN
  /\ dropped \subseteq Ids
  /\ Len(cache.order) <= CacheSize
  /\ DOMAIN cache.items = Store!IdsOf(cache.order)

Tells(t, types) == \E k \in 1..Len(told[t]) : told[t][k] \in types

(***************************************************************************)
(* A client that has read that a response is finished, and so much as the  *)
(* terminal event was written before its save, finds it on its connection: *)
(* a turn is told previous_response_not_found only if the response it      *)
(* continues is not one this connection finished, was forgotten after a    *)
(* failed continuation, or made room for CacheSize younger ones.           *)
(***************************************************************************)
Finished(t)  == Tells(t, {"response.completed", "response.incomplete"})
MadeRoom(p)  == \E Q \in SUBSET {q \in Sent : q > p /\ Finished(q)} :
                  Q # {} /\ \E f \in [1..CacheSize -> Q] : \A i, j \in 1..CacheSize : i # j => f[i] # f[j]
ContinuationFound ==
  \A t \in Sent :
    Tells(t, {"not_found"}) /\ req[t].prev \in Turn /\ Finished(req[t].prev) =>
      req[t].prev \in dropped \/ MadeRoom(req[t].prev)

(***************************************************************************)
(* What either store holds under an id is the conversation that led to it: *)
(* turn by turn, each the continuation of the one before, from one that    *)
(* continues nothing (or nothing the server could resolve) to the id.      *)
(***************************************************************************)
Starts(t) == t = Elsewhere \/ req[t].prev = None \/ (req[t].store /\ ~set.store)
IsConversation(h, id) ==
  /\ h # <<>> /\ h[Len(h)] = id
  /\ Starts(h[1])
  /\ \A k \in 2..Len(h) : h[k] \in Sent /\ req[h[k]].prev = h[k - 1]
ConversationsAreWhole ==
  /\ \A id \in DOMAIN cache.items  : IsConversation(cache.items[id], id)
  /\ \A id \in DOMAIN shared.items : IsConversation(shared.items[id], id)

(***************************************************************************)
(* No store holds a response its client was not sent the end of, or one    *)
(* that was told to have failed, and the shared store none with            *)
(* store:false.                                                            *)
(***************************************************************************)
SavedResponsesWereSent ==
  \A id \in Turn :
    /\ id \in DOMAIN cache.items \cup DOMAIN shared.items =>
         Finished(id) /\ ~Tells(id, {"response.failed"})
    /\ id \in DOMAIN shared.items => req[id].store

(***************************************************************************)
(* After a turn's terminal event the server writes nothing more for it but *)
(* the error of a save in the shared store.                                *)
(***************************************************************************)
NothingFollowsTheTerminalEvent ==
  \A t \in Turn : \A k \in 1..Len(told[t]) :
    told[t][k] \in Terminal \cup {Unnamed} /\ k < Len(told[t]) =>
      /\ k + 1 = Len(told[t]) /\ told[t][k + 1] = "error"
      /\ set.store /\ set.storeFails

(***************************************************************************)
(* A Turn is answered by the frames of its own turn, or by the expiry of   *)
(* the connection, unless a Turn before it was given up or ended by that   *)
(* expiry, or the server wrote on after a frame that ended one.            *)
(***************************************************************************)
Overrun(t) == \E k \in 1..Len(told[t]) : k < Len(told[t]) /\ told[t][k] \in TurnEnd
TurnsDoNotMix ==
  \A t \in Sent :
    result[t].turn \notin {0, t} =>
      \E u \in Sent : u < t /\ (result[u].type \in {"cancelled", "limit"} \/ Overrun(u))

(***************************************************************************)
(* doc.go:65: over WebSocket the error frame alone ends the turn.          *)
(***************************************************************************)
ErrorAloneEndsTheTurn ==
  \A t \in Turn : \A k \in 1..Len(told[t]) :
    told[t][k] \in ErrorFrame => k = Len(told[t])

(***************************************************************************)
(* A session whose client has gone, with or without a word, comes to its   *)
(* end, even if the adapter it is running would never return by itself; it *)
(* is the keepalive that sees to that.                                     *)
(***************************************************************************)
AbandonedSessionEnds ==
  (set.keepalive /\ link \in {"lost", "closed"}) ~> pc = "over"

(***************************************************************************)
(* A client that is there answers a ping, and the answer is read, while a  *)
(* turn runs for as long as it likes; the exceptions are a client with     *)
(* frames nobody asks its Conn for, and one that has sent the next turn    *)
(* ahead, with which the reader is parked.                                 *)
(***************************************************************************)
Undelivered == mode = "idle" /\ down # <<>>
PingAnswered ==
  ping ~> (~ping \/ link # "open" \/ cancelled \/ Undelivered \/ reader = "parked")
=============================================================================
