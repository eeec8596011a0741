----------------------------- MODULE EventSequence -----------------------------
(***************************************************************************)
(* What reading a remote stream promises its consumer, whether it ranges   *)
(* over an EventStream or over openresponses.Events: the events the server *)
(* sent, in order and one by one, and at the end a verdict that can be     *)
(* trusted.  No error means that the stream was whole and that every event *)
(* of it was delivered; an error means that something did go wrong.        *)
(***************************************************************************)
EXTENDS Naturals

VARIABLES
  sent,       \* events the server has sent
  whole,      \* whether its stream has ended as a stream should
  fault,      \* whether the stream was cut, broken, cancelled or closed
  delivered,  \* events the consumer has been given
  verdict     \* how the sequence ended for the consumer

vars == <<sent, whole, fault, delivered, verdict>>

Verdicts == {"none", "clean", "error", "left"}

Init == sent = 0 /\ whole = FALSE /\ fault = FALSE /\ delivered = 0 /\ verdict = "none"

(* The world: the server sends, its stream ends well, something goes wrong. *)
World ==
  /\ sent' \in {sent, sent + 1}
  /\ whole => sent' = sent /\ whole'
  /\ fault => fault'
  /\ UNCHANGED <<delivered, verdict>>

(* The consumer: the next event, or a verdict, or it has enough.  To end   *)
(* the stream is to close it, which may look like a fault afterwards.      *)
Ending(v) ==
  /\ verdict = "none" /\ verdict' = v
  /\ fault => fault'
  /\ UNCHANGED <<sent, whole>>

Deliver == /\ verdict = "none" /\ delivered < sent
           /\ delivered' = delivered + 1
           /\ UNCHANGED <<sent, whole, fault, verdict>>
Finish  == Ending("clean") /\ whole /\ delivered = sent /\ UNCHANGED delivered
Fail    == Ending("error") /\ fault /\ UNCHANGED delivered
Leave   == Ending("left") /\ delivered' \in {delivered, delivered + 1} /\ delivered' <= sent

Next == World \/ Deliver \/ Finish \/ Fail \/ Leave

Spec == Init /\ [][Next]_vars
=============================================================================
