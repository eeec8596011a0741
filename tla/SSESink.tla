------------------------------- MODULE SSESink -------------------------------
(***************************************************************************)
(* sseSink (src/handler.go): the EventSink an adapter streams into over    *)
(* HTTP.  A sink is a record and its methods are operators on it; the      *)
(* handler's module owns one sink per request.  Methods hold the sink's    *)
(* mutex; what other requests can see in the middle of one is only the     *)
(* save of a terminal event, between Recorded and Put.                     *)
(*                                                                         *)
(* An event is its type: "item" stands for every event that carries no     *)
(* response and is no error.  The accumulated response is what Accumulator *)
(* makes of them, down to what the handler asks of it: whether it exists,  *)
(* whether it has an id, its status.                                       *)
(***************************************************************************)
EXTENDS Naturals, Sequences

CONSTANT EncodeMayFail   \* whether EncodeEvent can fail (an extension's MarshalJSON)

Terminal  == {"response.completed", "response.incomplete", "response.failed"}
WithID    == Terminal \cup {"response.created"}
EventType == WithID \cup {"item", "error"}
DoneFrame == "[DONE]"

Status == {"none", "in_progress", "completed", "incomplete", "failed"}

StatusOf(t) == CASE t = "response.completed"  -> "completed"
                 [] t = "response.incomplete" -> "incomplete"
                 [] t = "response.failed"     -> "failed"
                 [] OTHER                     -> "in_progress"

(***************************************************************************)
(* Accumulator.Response: `held` is a.resp # nil.  An error event before    *)
(* any response leaves a failed one with no id and nothing held.           *)
(***************************************************************************)
NoResponse == [held |-> FALSE, id |-> FALSE, status |-> "none"]

Snapshot(id, status) == [held |-> TRUE, id |-> id, status |-> status]

(* Accumulator.Add, for an event whose snapshot, if it has one, has `id`. *)
Folded(acc, t, id) ==
  CASE t \in WithID -> Snapshot(id, StatusOf(t))
    [] t = "error"  -> [acc EXCEPT !.status = "failed"]
    [] OTHER        -> IF acc.held THEN acc ELSE Snapshot(FALSE, "in_progress")

(* finish works on the accumulated response, or on a new one with a new id. *)
IDAtFinish(acc) == acc.id \/ acc.status = "none"

-----------------------------------------------------------------------------
(***************************************************************************)
(* `up` is the connection, not a field of the sink: whether the client is  *)
(* still there to read `wire`.                                             *)
(***************************************************************************)
NewSink == [ seq |-> 0, acc |-> NoResponse, sent |-> FALSE, terminal |-> FALSE,
             failed |-> FALSE, up |-> TRUE, wire |-> <<>> ]

Frame == [type: EventType \cup {DoneFrame}, seq: Nat]
Sink  == [ seq: Nat, acc: [held: BOOLEAN, id: BOOLEAN, status: Status], sent: BOOLEAN,
           terminal: BOOLEAN, failed: BOOLEAN, up: BOOLEAN, wire: Seq(Frame) ]

(* Mutant: an event after the terminal one is written. *)
AcceptsAfterTerminal(s) == ~s.failed

(* Send: a failed write and a terminal event end the stream for good. *)
Accepts(s) == ~s.failed /\ ~s.terminal

(* writeLocked when EncodeEvent fails: the sequence number is gone. *)
Unencoded(s) == [s EXCEPT !.seq = s.seq + 1]

(* writeLocked up to the save: numbered, folded, and terminal if it is. *)
Recorded(s, t, id) ==
  [s EXCEPT !.seq      = s.seq + 1,
            !.acc      = Folded(s.acc, t, id),
            !.terminal = s.terminal \/ t \in Terminal]

(***************************************************************************)
(* writeLocked from WriteEvent on.  Once the client has gone a write may   *)
(* still succeed, into a buffer nobody reads, or fail.                     *)
(***************************************************************************)
Put(s, t) ==
  LET frame == [type |-> t, seq |-> s.seq - 1] IN
  IF s.up THEN {[s EXCEPT !.sent = TRUE, !.wire = Append(s.wire, frame)]}
  ELSE {[s EXCEPT !.sent = TRUE], [s EXCEPT !.failed = TRUE]}

(* writeLocked, when nothing can come between the save and the write. *)
Written(s, t, id) ==
  Put(Recorded(s, t, id), t) \cup (IF EncodeMayFail THEN {Unencoded(s)} ELSE {})

(* WriteDone, whose error finish drops. *)
WithDone(s) ==
  IF s.up THEN [s EXCEPT !.wire = Append(s.wire, [type |-> DoneFrame, seq |-> s.seq])]
  ELSE s

(* Mutant: the error is reported and the stream closed without response.failed. *)
FailedWithoutTerminal(s) == {WithDone(e) : e \in Written(s, "error", FALSE)}

(* finish after an adapter error: error, response.failed, [DONE]. *)
FailedFinish(s) ==
  {WithDone(f) : f \in UNION {Written(e, "response.failed", IDAtFinish(e.acc)) :
                                e \in Written(s, "error", FALSE)}}
=============================================================================
