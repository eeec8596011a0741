------------------------------ MODULE MCWebSocket ------------------------------
(* The connections model-checked: one setting per question, with and without *)
(* a shared store.                                                           *)
EXTENDS WebSocketSession

Plain(store) ==
  [ store |-> store, storeFails |-> FALSE, encodeFails |-> FALSE, keepalive |-> FALSE,
    expires |-> FALSE, leaves |-> FALSE, givesUp |-> FALSE, turns |-> 3,
    events |-> {"response.completed", "response.failed"}, frames |-> 1 ]

(* Chains of three turns: what is remembered, forgotten and evicted. *)
Chains == {Plain(store) : store \in BOOLEAN}

(* Adapters that send anything, stores that fail, clients that give up. *)
Careless ==
  { [Plain(TRUE) EXCEPT !.storeFails = TRUE, !.encodeFails = TRUE, !.turns = 2, !.frames = 2,
       !.events = {"response.created", "error", "response.completed"}],
    [Plain(FALSE) EXCEPT !.givesUp = TRUE, !.turns = 2, !.events = {"response.created"}] }

(* Connections that end before their time, or wait for a slow adapter. *)
Ending ==
  LET pinging == [Plain(FALSE) EXCEPT !.keepalive = TRUE, !.turns = 2,
                    !.events = {"response.completed"}]
  IN  { [pinging EXCEPT !.expires = TRUE],
        [pinging EXCEPT !.leaves = TRUE, !.givesUp = TRUE] }

AllSettings == Chains \cup Careless \cup Ending
=============================================================================
