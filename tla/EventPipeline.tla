----------------------------- MODULE EventPipeline -----------------------------
(***************************************************************************)
(* Reading a remote stream in-process.  An EventStream (src/stream.go) is  *)
(* read by one goroutine, its `reader`: either the consumer itself, with   *)
(* others free to Close the stream under it, or the adapter goroutine of   *)
(* openresponses.Events (src/handler.go), in which ClientAdapter           *)
(* (src/clientadapter.go) pumps the stream into an unbuffered channel and  *)
(* the consumer may break out of its loop.  The context may be cancelled   *)
(* at any moment, which starts the stream's hook in a goroutine.           *)
(***************************************************************************)
EXTENDS Naturals, Sequences

CONSTANT MaxFrames   \* bound on the frames of the server's stream

ASSUME BoundAssumption == MaxFrames \in Nat

VARIABLES
  direct,     \* the consumer ranges over the stream itself
  body,       \* frames sent and not yet read
  sent,       \* events the server has sent
  ending,     \* how the server ended its stream
  faulty,     \* a frame that does not decode, or an event that does not encode
  stream,     \* the EventStream
  hook,       \* the function context.AfterFunc runs
  reader,     \* where the reading goroutine is
  got,        \* what the scanner gave it
  cancelled,  \* the context
  consumer,   \* where the consumer of Events is
  answer,     \* the channel `done`
  delivered,  \* events the consumer was given
  verdict     \* how its loop ended

serverVars   == <<body, sent, ending>>
streamVars   == <<stream, hook, reader, got>>
consumerVars == <<consumer, answer, delivered, verdict>>
vars == <<direct, serverVars, faulty, streamVars, cancelled, consumerVars>>

Frames  == {"event", "terminal", "garbage", "[DONE]"}
Scanned == Frames \cup {"none", "eof", "error"}
Errors  == {"nil", "context", "read", "decode", "truncated"}

NewStream == [done |-> FALSE, closed |-> FALSE, terminal |-> FALSE, err |-> "nil", byUser |-> FALSE]

-----------------------------------------------------------------------------
(* The server. *)
SendFrame(f) ==
  /\ ending = "open" /\ sent < MaxFrames
  /\ f = "garbage" => ~faulty       \* bound: one such frame
  /\ body' = Append(body, f)
  /\ sent' = IF f = "garbage" THEN sent ELSE sent + 1
  /\ faulty' = (faulty \/ f = "garbage")
  /\ UNCHANGED <<direct, ending, streamVars, cancelled, consumerVars>>

(* [DONE], an end of the body without it, a connection that breaks. *)
EndStream(how) ==
  /\ ending = "open"
  /\ ending' = how
  /\ body' = IF how = "done" THEN Append(body, "[DONE]") ELSE body
  /\ UNCHANGED <<direct, sent, faulty, streamVars, cancelled, consumerVars>>

-----------------------------------------------------------------------------
(* EventStream. *)

(* Mutant: the stream is closed and its hook is left armed. *)
LeftArmed == hook

(* stopWatching: the hook no longer runs, unless it has been started. *)
Stopped == IF hook = "armed" THEN "stopped" ELSE hook

(* closeLocked, once. *)
Closed(s) == [s EXCEPT !.closed = TRUE]

(* Next, up to its first unlock. *)
Ends == stream.done \/ stream.closed

NextStarts ==
  /\ reader = "starting"
  /\ reader' = IF Ends THEN "ended" ELSE "reading"
  /\ UNCHANGED <<direct, serverVars, faulty, stream, hook, got, cancelled, consumerVars>>

(***************************************************************************)
(* The scanner, outside the lock.  What it has buffered it gives out even  *)
(* after the body was closed under it.                                     *)
(***************************************************************************)
Scan ==
  /\ reader = "reading"
  /\ \/ /\ body # <<>>
        /\ got' = Head(body) /\ body' = Tail(body)
     \/ /\ body = <<>> /\ ending \in {"eof", "broken"}
        /\ got' = (IF ending = "eof" THEN "eof" ELSE "error") /\ body' = body
     \/ /\ stream.closed
        /\ got' = "error" /\ body' = body
  /\ reader' = "scanned"
  /\ UNCHANGED <<direct, sent, ending, faulty, stream, hook, cancelled, consumerVars>>

(* The rest of Next: the event becomes the current one ... *)
TakeEvent ==
  /\ reader = "scanned" /\ got \in {"event", "terminal"}
  /\ stream' = [stream EXCEPT !.terminal = stream.terminal \/ got = "terminal"]
  /\ got' = "none" /\ reader' = "event"
  /\ UNCHANGED <<direct, serverVars, faulty, hook, cancelled, consumerVars>>

(* Mutant: the end of the body is the end of the stream. *)
AnyEndIsFine(g) == CASE g = "garbage" -> "decode" [] g = "error" -> "read" [] OTHER -> "nil"

(* finish: what an end is worth, [DONE] or a terminal event before it. *)
EndError(g) ==
  CASE g = "garbage" -> "decode"
    [] g = "error"   -> "read"
    [] g = "eof" /\ ~stream.terminal -> "truncated"
    [] OTHER         -> "nil"

(* ... or Next returns false; a cancellation recorded before wins. *)
TakeEnd ==
  /\ reader = "scanned" /\ got \in {"[DONE]", "garbage", "error", "eof"}
  /\ stream' = [stream EXCEPT !.done = TRUE, !.err = IF stream.err # "nil" THEN @ ELSE EndError(got)]
  /\ hook' = Stopped
  /\ got' = "none" /\ reader' = "ended"
  /\ UNCHANGED <<direct, serverVars, faulty, cancelled, consumerVars>>

(***************************************************************************)
(* The context hook.  It reads s.stop, which NewEventStream may not have   *)
(* assigned yet; either way there is nothing for it to stop any more.      *)
(***************************************************************************)
HookStarts ==
  /\ hook = "armed" /\ cancelled
  /\ hook' = "started"
  /\ UNCHANGED <<direct, serverVars, faulty, stream, reader, got, cancelled, consumerVars>>

(* Mutant: the hook records its error always. *)
RecordedAlways(s) == Closed([s EXCEPT !.err = "context"])

Cancelling(s) == Closed(IF s.done THEN s ELSE [s EXCEPT !.err = "context"])

HookRuns ==
  /\ hook = "started"
  /\ stream' = Cancelling(stream)
  /\ hook' = "ran"
  /\ UNCHANGED <<direct, serverVars, faulty, reader, got, cancelled, consumerVars>>

CallerCancels ==
  /\ ~cancelled
  /\ cancelled' = TRUE
  /\ UNCHANGED <<direct, serverVars, faulty, streamVars, consumerVars>>

-----------------------------------------------------------------------------
(* A consumer that ranges over the stream. *)

(* Another goroutine calls Close. *)
UserCloses ==
  /\ direct /\ ~stream.closed
  /\ stream' = [Closed(stream) EXCEPT !.byUser = TRUE]
  /\ hook' = Stopped
  /\ UNCHANGED <<direct, serverVars, faulty, reader, got, cancelled, consumerVars>>

(* EventStream.Events yields the event, and the loop goes on or breaks. *)
DirectEvent ==
  /\ direct /\ reader = "event"
  /\ delivered' = delivered + 1
  /\ reader' = "starting"
  /\ UNCHANGED <<direct, serverVars, faulty, stream, hook, got, cancelled, consumer, answer, verdict>>

CloseAndReturn ==
  /\ stream' = Closed(stream)
  /\ hook' = IF stream.closed THEN hook ELSE Stopped
  /\ reader' = "returned"

DirectBreak ==
  /\ direct /\ reader = "event"
  /\ delivered' = delivered + 1
  /\ verdict' = "left"
  /\ CloseAndReturn
  /\ UNCHANGED <<direct, serverVars, faulty, got, cancelled, consumer, answer>>

(* Next returned false: the consumer asks Err. *)
DirectEnd ==
  /\ direct /\ reader = "ended"
  /\ verdict' = IF stream.err # "nil" THEN "error"
                ELSE IF stream.byUser /\ ~stream.done THEN "left" ELSE "clean"
  /\ CloseAndReturn
  /\ UNCHANGED <<direct, serverVars, faulty, got, cancelled, consumer, answer, delivered>>

-----------------------------------------------------------------------------
(* Events: the adapter goroutine. *)

(* Send, which waits for the consumer, returns the cancellation. *)
Released == cancelled

Deliver ==
  /\ ~direct /\ reader = "event" /\ consumer = "selecting"
  /\ delivered' = delivered + 1
  /\ reader' = "starting" /\ consumer' = "yielding"
  /\ UNCHANGED <<direct, serverVars, faulty, stream, hook, got, cancelled, answer, verdict>>

(* The pump returns an error of Send, after closing the stream. *)
SendFails ==
  /\ ~direct /\ reader = "event"
  /\ \/ Released /\ UNCHANGED faulty
     \/ faulty' = TRUE             \* the event does not encode
  /\ answer' = "error"
  /\ CloseAndReturn
  /\ UNCHANGED <<direct, serverVars, got, cancelled, consumer, delivered, verdict>>

(* The pump returns what the stream's Err says. *)
PumpReturns ==
  /\ ~direct /\ reader = "ended"
  /\ answer' = IF stream.err = "nil" THEN "nil" ELSE "error"
  /\ CloseAndReturn
  /\ UNCHANGED <<direct, serverVars, faulty, got, cancelled, consumer, delivered, verdict>>

(* Events: the loop over both channels. *)
LoopGoesOn ==
  /\ consumer = "yielding"
  /\ consumer' = "selecting"
  /\ UNCHANGED <<direct, serverVars, faulty, streamVars, cancelled, answer, delivered, verdict>>

(* Mutant: the loop waits for the adapter without cancelling it. *)
OnlyWaits == cancelled

CancelsFirst == TRUE

LoopBreaks ==
  /\ consumer = "yielding"
  /\ consumer' = "draining"
  /\ cancelled' = CancelsFirst
  /\ UNCHANGED <<direct, serverVars, faulty, streamVars, answer, delivered, verdict>>

LoopDrained ==
  /\ consumer = "draining" /\ answer # "none"
  /\ consumer' = "over" /\ verdict' = "left"
  /\ UNCHANGED <<direct, serverVars, faulty, streamVars, cancelled, answer, delivered>>

LoopEnds ==
  /\ consumer = "selecting" /\ answer # "none"
  /\ consumer' = "over"
  /\ verdict' = IF answer = "nil" THEN "clean" ELSE "error"
  /\ cancelled' = TRUE             \* the deferred cancel
  /\ UNCHANGED <<direct, serverVars, faulty, streamVars, answer, delivered>>

-----------------------------------------------------------------------------
Init ==
  /\ direct \in BOOLEAN
  /\ body = <<>> /\ sent = 0 /\ ending = "open" /\ faulty = FALSE
  /\ stream = NewStream /\ hook = "armed" /\ reader = "starting" /\ got = "none"
  /\ cancelled = FALSE
  /\ consumer = (IF direct THEN "over" ELSE "selecting")
  /\ answer = "none" /\ delivered = 0 /\ verdict = "none"

Server  == (\E f \in Frames \ {"[DONE]"} : SendFrame(f)) \/ (\E h \in {"done", "eof", "broken"} : EndStream(h))
Reader  == NextStarts \/ Scan \/ TakeEvent \/ TakeEnd
Hook    == HookStarts \/ HookRuns
Ranging == DirectEvent \/ DirectBreak \/ DirectEnd
Pump    == Deliver \/ SendFails \/ PumpReturns
Loop    == LoopGoesOn \/ LoopBreaks \/ LoopDrained \/ LoopEnds
Over    == verdict # "none" /\ reader = "returned" /\ UNCHANGED vars

Next == Server \/ Reader \/ Hook \/ Ranging \/ Pump \/ Loop \/ CallerCancels \/ UserCloses \/ Over

(* Goroutines run; a consumer of Events may sit in its loop body for ever. *)
Fairness ==
  /\ WF_vars(Reader) /\ WF_vars(Hook) /\ WF_vars(Ranging) /\ WF_vars(Pump)
  /\ WF_vars(LoopDrained \/ LoopEnds)

Spec == Init /\ [][Next]_vars /\ Fairness

-----------------------------------------------------------------------------
(* The state has its type. *)
TypeOK ==
  /\ {direct, faulty, cancelled} \subseteq BOOLEAN
  /\ body \in Seq(Frames) /\ sent \in 0..MaxFrames /\ delivered \in 0..sent
  /\ ending \in {"open", "done", "eof", "broken"}
  /\ stream \in [done: BOOLEAN, closed: BOOLEAN, terminal: BOOLEAN, err: Errors, byUser: BOOLEAN]
  /\ hook \in {"armed", "stopped", "started", "ran"}
  /\ reader \in {"starting", "reading", "scanned", "event", "ended", "returned"} /\ got \in Scanned
  /\ consumer \in {"selecting", "yielding", "draining", "over"}
  /\ answer \in {"none", "nil", "error"} /\ verdict \in {"none", "clean", "error", "left"}
  /\ reader = "returned" => hook # "armed"

(***************************************************************************)
(* However closing, cancelling and reading interleave, the consumer gets   *)
(* the server's events and an honest verdict: a stream cut off is never    *)
(* taken for a whole one, no event is lost in front of a clean end, and no *)
(* error is reported of a stream that nothing happened to.                 *)
(***************************************************************************)
SentWhole == ending = "done" \/ (ending = "eof" /\ \E k \in 1..Len(body) : body[k] = "terminal")
             \/ (ending = "eof" /\ (stream.terminal \/ got = "terminal"))
SentFault == cancelled \/ faulty \/ stream.byUser \/ ending \in {"eof", "broken"}
Sequence == INSTANCE EventSequence WITH whole <- SentWhole, fault <- SentFault
ImplementsSequence == Sequence!Spec

(***************************************************************************)
(* The stream's error, once there is one, and its verdict, once the end    *)
(* was read, are not changed any more: not by a late cancellation, not by  *)
(* a Close.                                                                *)
(***************************************************************************)
ErrIsFinal == [][stream.err # "nil" \/ stream.done => stream'.err = stream.err]_vars

(***************************************************************************)
(* A cancelled context, and a loop its consumer has broken out of, leave   *)
(* nothing behind: the adapter returns even if the server is silent, the   *)
(* body is closed, the hook is done, and the loop is over.                 *)
(***************************************************************************)
NothingIsLeftBehind ==
  cancelled \/ consumer = "draining" ~>
    reader = "returned" /\ stream.closed /\ hook \in {"stopped", "ran"} /\ consumer # "draining"
=============================================================================
