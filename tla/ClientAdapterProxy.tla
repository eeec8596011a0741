-------------------------- MODULE ClientAdapterProxy --------------------------
(***************************************************************************)
(* A Handler in front of a remote server: the adapter of ResponsesHandler  *)
(* is openresponses.ClientAdapter (src/clientadapter.go), whose            *)
(* CreateStream pumps the event stream of an upstream into the sink.       *)
(*                                                                         *)
(* The upstream is any server: it sends events in any order and ends its   *)
(* stream with [DONE], by closing it, or with a failure.  What EventStream *)
(* (src/stream.go) makes of that end is the error the pump returns.        *)
(***************************************************************************)
EXTENDS ResponsesHandler

VARIABLE pump   \* per request: the upstream stream and what the pump saw of it

proxyVars == <<vars, pump>>

(* How the upstream's stream ends, as EventStream.Err reports it or not. *)
Ends == {"done", "closed", "broken"}

NewPump == [ opened   |-> FALSE,    \* Client.CreateStream has returned a stream
             terminal |-> FALSE,    \* EventStream.terminal
             refused  |-> FALSE,    \* sink.Send has returned an error
             end      |-> "none" ]  \* how the upstream ended its stream

Pumping(r) == phase[r] = "running" /\ req[r].stream /\ pump[r].end = "none"

SetPump(r, p) == pump' = [pump EXCEPT ![r] = p]

-----------------------------------------------------------------------------
(* Client.CreateStream *)
Open(r) ==
  /\ Pumping(r) /\ ~pump[r].opened
  /\ SetPump(r, [pump[r] EXCEPT !.opened = TRUE])
  /\ UNCHANGED vars

(* checkMembers, prepare or Client.CreateStream fails. *)
OpenFails(r) ==
  /\ Pumping(r) /\ ~pump[r].opened
  /\ Goto(r, "errored")
  /\ UNCHANGED <<req, conv, sink, answer, store, saved, lost, pump>>

Reading(r) == Pumping(r) /\ pump[r].opened /\ ~pump[r].refused /\ ~sink[r].failed

(* An upstream event reaches the sink, which takes it; the write may fail. *)
Forward(r, t) ==
  /\ Reading(r)
  /\ AdapterSends(r, t) \/ AdapterFinishes(r, t)
  /\ SetPump(r, [pump[r] EXCEPT !.terminal = @ \/ t \in Terminal])

(* The event does not encode; Send returns the error and the pump stops. *)
ForwardUnencoded(r) ==
  /\ Reading(r)
  /\ SendUnencoded(r)
  /\ SetPump(r, [pump[r] EXCEPT !.refused = TRUE])

(* The upstream sends more after its terminal event: ErrTerminalEventSent. *)
ForwardRefused(r) ==
  /\ Reading(r) /\ sink[r].terminal
  /\ SetPump(r, [pump[r] EXCEPT !.refused = TRUE])
  /\ UNCHANGED vars

(***************************************************************************)
(* The upstream ends its stream; "broken" is also the client of this       *)
(* request going away, which cancels the upstream request.                 *)
(***************************************************************************)
UpstreamEnds(r, end) ==
  /\ Reading(r)
  /\ SetPump(r, [pump[r] EXCEPT !.end = end])
  /\ UNCHANGED vars

-----------------------------------------------------------------------------
(* Mutant: a stream that is merely closed has ended. *)
EndedWithoutCheck(p) == p.end \in {"done", "closed"}

(* EventStream.Err is nil: [DONE] was read, or a terminal event before EOF. *)
EndedWell(p) == p.end = "done" \/ (p.end = "closed" /\ p.terminal)

(* Mutant: an error of Send does not stop the pump. *)
StopsOnlyAtTheEnd(r) == pump[r].end # "none"

Stops(r) == pump[r].refused \/ sink[r].failed \/ pump[r].end # "none"

(* CreateStream returns what Send or EventStream.Err returned. *)
PumpReturns(r) ==
  /\ phase[r] = "running" /\ req[r].stream
  /\ Stops(r)
  /\ Goto(r, IF pump[r].refused \/ sink[r].failed \/ ~EndedWell(pump[r])
             THEN "errored" ELSE "returned")
  /\ UNCHANGED <<req, conv, sink, answer, store, saved, lost, pump>>

-----------------------------------------------------------------------------
ProxyInit == Init /\ pump = [r \in Requests |-> NewPump]

Pump(r) ==
  \/ Open(r) \/ OpenFails(r)
  \/ \E t \in Events : Forward(r, t)
  \/ ForwardUnencoded(r) \/ ForwardRefused(r)
  \/ \E end \in Ends : UpstreamEnds(r, end)
  \/ PumpReturns(r)

(* What the handler does around its adapter is unchanged. *)
Around(r) == (Client(r) \/ HandlerStep(r)) /\ UNCHANGED pump

ProxyNext ==
  \/ \E r \in Requests : Pump(r) \/ Around(r)
  \/ AllServed /\ UNCHANGED pump

ProxySpec == ProxyInit /\ [][ProxyNext]_proxyVars

(***************************************************************************)
(* The goroutine of a request keeps running; the upstream owes nothing,    *)
(* not even an end of its stream.                                          *)
(***************************************************************************)
ProxyFairSpec ==
  /\ ProxySpec
  /\ \A r \in Requests : WF_proxyVars(PumpReturns(r)) /\ WF_proxyVars(HandlerStep(r) /\ UNCHANGED pump)

-----------------------------------------------------------------------------
(***************************************************************************)
(* A client of the proxy reads response.completed only if the upstream     *)
(* sent it or ended its stream with [DONE]: a stream cut off on the way is *)
(* never made to look finished, whatever was forwarded before.             *)
(***************************************************************************)
CutOffIsNeverCompleted ==
  \A r \in Requests :
    OnWire(r, {"response.completed"}) => pump[r].terminal \/ pump[r].end = "done"

(***************************************************************************)
(* Once the upstream has ended its stream, or the sink has refused an      *)
(* event, the request is answered to its end or its client leaves: no      *)
(* outcome of the pump leaves the handler waiting.                         *)
(***************************************************************************)
EndedUpstreamIsAnswered ==
  \A r \in Requests :
    (pump[r].end # "none" \/ pump[r].refused) ~>
      (~sink[r].up \/ answer[r] # "none" \/ OnWire(r, {DoneFrame}))

(***************************************************************************)
(* "A stream follows an error event immediately with response.failed over  *)
(* SSE" (doc.go).                                                          *)
(***************************************************************************)
ErrorIsFollowedByFailed ==
  \A r \in Requests :
    LET w == sink[r].wire IN
    \A k \in 1..Len(w)-1 : w[k].type = "error" => w[k+1].type = "response.failed"
=============================================================================
