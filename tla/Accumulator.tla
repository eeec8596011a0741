------------------------------ MODULE Accumulator ------------------------------
(***************************************************************************)
(* openresponses.Accumulator (src/stream.go): folds the events of a stream *)
(* into a response, one Add per event.  The server is anyone: it may reuse *)
(* an output_index, name items twice, leave ids out, and list whatever it  *)
(* likes in a snapshot.  A server that follows the lifecycle is one of     *)
(* them, and what it means is known: `meant`.                              *)
(*                                                                         *)
(* Indexes and positions count from 1.  What an item is told by its id.    *)
(***************************************************************************)
EXTENDS Naturals, Sequences, FiniteSets

CONSTANTS
  MaxWild,     \* bound on the events of a stream that keeps to no rule
  MaxLawful,   \* bound on the events of a stream that follows the lifecycle
  MaxIndex,    \* bound on the indexes a server names
  KindOf       \* the items servers name, by id, and their kinds

ASSUME BoundsAssumption == {MaxWild, MaxLawful, MaxIndex} \subseteq Nat

(* "hole" stands for a nil entry: no item has it for an id. *)
ASSUME HoleAssumption == "hole" \notin DOMAIN KindOf

VARIABLES
  lawful,    \* whether the server follows the lifecycle
  count,     \* events added
  out,       \* resp.Output
  status,    \* resp.Status, "none" while there is no response
  slots,     \* slots: index to position
  closed,    \* closed: the positions of closed items
  reused,    \* reused: the indexes reused
  named,     \* the item the server named last at each index
  finished,  \* the items it closed since it last listed them all
  meant,     \* what a lawful server has sent
  open       \* whether the last item it sent is open

accVars    == <<out, status, slots, closed, reused>>
serverVars == <<lawful, count, named, finished, meant, open>>
vars       == <<accVars, serverVars>>

Index == 1..MaxIndex
NoID  == "no id"
Ids   == DOMAIN KindOf \cup {NoID}
Kind(id) == IF id = NoID THEN "function_call" ELSE KindOf[id]

(* A part is what its deltas said: who each was meant for. *)
Item(id, st, parts) == [id |-> id, kind |-> Kind(id), status |-> st, parts |-> parts]

(* Empty entries: of Output, and of an item's parts. *)
Hole     == [id |-> "hole", kind |-> "none", status |-> "none", parts |-> <<>>]
PartHole == <<"hole">>

ItemStatus == {"in_progress", "completed"}
Ended(st)  == st \in {"completed", "failed"}

IdOf(list, p) == IF p \in 1..Len(list) THEN list[p].id ELSE NoID
Padded(list, n, hole) == list \o [k \in 1..(IF n > Len(list) THEN n - Len(list) ELSE 0) |-> hole]
Placed(list, p, x, hole) == [Padded(list, p, hole) EXCEPT ![p] = x]

-----------------------------------------------------------------------------
(* Position: the item events at an index name, 0 for none. *)
Position(idx) ==
  LET p == IF idx \in DOMAIN slots THEN slots[idx]
           ELSE IF reused # <<>> THEN 0 ELSE idx
  IN  IF p \in 1..Len(out) /\ out[p] # Hole THEN p ELSE 0

With(f, idx, p) == [i \in DOMAIN f \cup {idx} |-> IF i = idx THEN p ELSE f[i]]

(* Mutant: an index that appears after a reuse gets its own position. *)
OwnPosition(idx) == IF idx \in DOMAIN slots THEN slots[idx] ELSE idx

(* slot: the end of Output for an index first used after a reuse. *)
Slot(idx) ==
  IF idx \in DOMAIN slots THEN slots[idx]
  ELSE IF reused # <<>> THEN Len(out) + 1 ELSE idx

(* Mutant: an item is replaced whether or not it is closed. *)
NeverAnother(p, id, same) == FALSE

(* target: a closed item is not replaced by an item that does not name it. *)
Another(p, id, same) ==
  /\ p \in closed /\ p <= Len(out) /\ out[p] # Hole
  /\ IF id = NoID THEN ~same ELSE id # out[p].id

(* A done with no id restates the item named before, which loses its id. *)
Restated(idx, id) == IF id = NoID /\ idx \in DOMAIN named THEN named[idx] ELSE id

(* addItem and closeItem: output_item.added, output_item.done. *)
PlaceItem(idx, item, done) ==
  LET slot  == Slot(idx)
      reuse == Another(slot, item.id, done)
      p     == IF reuse THEN Len(out) + 1 ELSE slot IN
  /\ out'    = Placed(out, p, item, Hole)
  /\ slots'  = With(slots, idx, p)
  /\ closed' = IF done THEN closed \cup {p} ELSE closed \ {p}
  /\ reused' = IF reuse THEN Append(reused, idx) ELSE reused
  /\ status' = IF status \in {"none", "error"} THEN "in_progress" ELSE status
  /\ named'  = With(named, idx, item.id)
  /\ finished' = IF done THEN (finished \ {Restated(idx, item.id)}) \cup ({item.id} \ {NoID})
                 ELSE finished \ {item.id}

-----------------------------------------------------------------------------
(* Deltas and parts.  An event at an index with no item of its kind is     *)
(* dropped.                                                                *)
UpdateParts(idx, kind, parts(_)) ==
  LET p == Position(idx) IN
  /\ out' = IF p # 0 /\ out[p].kind = kind
            THEN [out EXCEPT ![p] = [@ EXCEPT !.parts = parts(out[p].parts)]] ELSE out
  /\ UNCHANGED <<status, slots, closed, reused, named, finished>>

Chunk(idx) == IF idx \in DOMAIN named THEN named[idx] ELSE NoID

(* setPart and setSummaryPart: *_part.added, and *_part.done with the text. *)
SetPart(idx, kind, c, part) ==
  UpdateParts(idx, kind, LAMBDA parts : Placed(parts, c, part, PartHole))

(* part, summaryPart: a delta to a part that is there. *)
DeltaInPart(idx, kind, c) ==
  UpdateParts(idx, kind, LAMBDA parts :
    IF c \in 1..Len(parts) /\ parts[c] # PartHole
    THEN [parts EXCEPT ![c] = Append(@, Chunk(idx))] ELSE parts)

(* function_call_arguments.delta, reasoning.delta: the part is made on demand. *)
DeltaOnDemand(idx, kind, c) ==
  UpdateParts(idx, kind, LAMBDA parts :
    LET grown == Padded(parts, c, <<>>) IN [grown EXCEPT ![c] = Append(@, Chunk(idx))])

(* function_call_arguments.done: the arguments, whether or not deltas came. *)
ArgumentsDone(idx, text) == SetPart(idx, "function_call", 1, text)

(* *.done of any other text: it replaces what the deltas made. *)
TextDone(idx, kind, c, text) ==
  UpdateParts(idx, kind, LAMBDA parts :
    IF c \in 1..Len(parts) /\ parts[c] # PartHole THEN [parts EXCEPT ![c] = text] ELSE parts)

-----------------------------------------------------------------------------
(* setResponse *)

(* Mutant: a snapshot with no items empties the output. *)
NeverKeeps(list, st) == FALSE

(* A snapshot with no items before the end keeps what is held. *)
Keeps(list, st) == list = <<>> /\ out # <<>> /\ ~Ended(st)

(* Mutant: a snapshot's list replaces what is held even after a reuse. *)
NeverExtends(st) == FALSE

(* After a reuse, and before the end, it only adds items. *)
Extends(st) == reused # <<>> /\ ~Ended(st)

(* appendUnknown: the listed items whose ids are not held yet, once each. *)
Unknown(list) ==
  LET new[k \in 0..Len(list)] ==
        IF k = 0 THEN <<>>
        ELSE IF list[k].id # NoID /\ (\A x \in 1..Len(out) : out[x].id # list[k].id)
                /\ (\A x \in 1..Len(new[k - 1]) : new[k - 1][x].id # list[k].id)
             THEN Append(new[k - 1], list[k]) ELSE new[k - 1]
  IN  new[Len(list)]

(* relist: positions are indexes, and closed items stay closed, by id. *)
RelistClosed(list) ==
  {p \in 1..Len(list) :
     \/ list[p].status = "completed"
     \/ /\ status # "none" /\ list[p].id # NoID
        /\ \E q \in closed : IdOf(out, q) = list[p].id}

Snapshot(list, st) ==
  /\ status' = st
  /\ IF Keeps(list, st)
     THEN UNCHANGED <<out, slots, closed, finished>>
     ELSE IF Extends(st)
     THEN out' = out \o Unknown(list) /\ UNCHANGED <<slots, closed, finished>>
     ELSE /\ out'    = list
          /\ slots'  = [p \in 1..Len(list) |-> p]
          /\ closed' = RelistClosed(list)
          /\ finished' = {}
  /\ named' = IF Ended(st) \/ (reused = <<>> /\ list # <<>>)
              THEN [p \in 1..Len(list) |-> list[p].id] ELSE named
  /\ UNCHANGED reused

(* An error event fails the response, if there is one. *)
ErrorEvent ==
  /\ status' = IF status = "none" THEN "error" ELSE IF status = "error" THEN status ELSE "failed"
  /\ UNCHANGED <<out, slots, closed, reused, named, finished>>

-----------------------------------------------------------------------------
Init ==
  /\ lawful \in BOOLEAN
  /\ count = 0
  /\ out = <<>> /\ status = "none" /\ slots = <<>> /\ closed = {} /\ reused = <<>>
  /\ named = <<>> /\ finished = {} /\ meant = <<>> /\ open = FALSE

Fold == UNCHANGED <<lawful, meant, open>> /\ count' = count + 1

(* A server that keeps to no rule, with function calls and messages. *)
WildIds == {id \in Ids : Kind(id) # "reasoning"}
Fresh(id, st) == Item(id, st, <<>>)
Lists == UNION {[1..n -> [id: WildIds, status: ItemStatus]] : n \in 0..2}
AsItems(list) == [p \in 1..Len(list) |-> Fresh(list[p].id, list[p].status)]

WildItem ==
  \E idx \in Index, id \in WildIds, st \in ItemStatus, done \in BOOLEAN :
    PlaceItem(idx, Fresh(id, IF done THEN "completed" ELSE st), done)

WildDelta ==
  \E idx \in Index :
    \/ DeltaOnDemand(idx, "function_call", 1) \/ ArgumentsDone(idx, <<Chunk(idx)>>)
    \/ SetPart(idx, "message", 1, <<>>) \/ DeltaInPart(idx, "message", 1)

WildSnapshot ==
  \E list \in Lists, st \in {"in_progress", "completed"} : Snapshot(AsItems(list), st)

WildEvent ==
  /\ ~lawful /\ count < MaxWild
  /\ WildItem \/ WildDelta \/ WildSnapshot \/ ErrorEvent
  /\ Fold

-----------------------------------------------------------------------------
(* A server that follows the lifecycle.  Its open item is the last one.    *)
Lawful(send) == lawful /\ count < MaxLawful /\ ~Ended(status) /\ send /\ count' = count + 1

Last == Len(meant)
Mean(parts) == meant' = [meant EXCEPT ![Last] = [@ EXCEPT !.parts = parts]]
Saying(parts, c) == [parts EXCEPT ![c] = Append(@, meant[Last].id)]
Parts == meant[Last].parts

LawfulAdded(id) ==
  /\ Lawful(status # "none" /\ ~open)
  /\ \A p \in 1..Last : meant[p].id # id
  /\ PlaceItem(Last + 1, Fresh(id, "in_progress"), FALSE)
  /\ meant' = Append(meant, Fresh(id, "in_progress"))
  /\ open' = TRUE /\ UNCHANGED lawful

LawfulDone ==
  LET final == [meant[Last] EXCEPT !.status = "completed"] IN
  /\ Lawful(open)
  /\ PlaceItem(Last, final, TRUE)
  /\ meant' = [meant EXCEPT ![Last] = final]
  /\ open' = FALSE /\ UNCHANGED lawful

(* content_part.added or reasoning_summary_part.added, at the next index. *)
LawfulPart ==
  LET kind == meant[Last].kind IN
  /\ Lawful(open) /\ kind # "function_call"
  /\ SetPart(Last, kind, Len(Parts) + 1, <<>>)
  /\ Mean(Append(Parts, <<>>))
  /\ UNCHANGED <<lawful, open>>

LawfulDelta ==
  /\ Lawful(open)
  /\ \/ /\ meant[Last].kind = "function_call"
        /\ DeltaOnDemand(Last, "function_call", 1)
        /\ Mean(Saying(Padded(Parts, 1, <<>>), 1))
     \/ /\ meant[Last].kind # "function_call" /\ Parts # <<>>
        /\ DeltaInPart(Last, meant[Last].kind, Len(Parts))
        /\ Mean(Saying(Parts, Len(Parts)))
  /\ UNCHANGED <<lawful, open>>

(* function_call_arguments.done restates the arguments, or is all there is. *)
LawfulArgumentsDone ==
  LET text == IF Parts = <<>> THEN <<meant[Last].id>> ELSE Parts[1] IN
  /\ Lawful(open) /\ meant[Last].kind = "function_call"
  /\ ArgumentsDone(Last, text)
  /\ Mean(Placed(Parts, 1, text, PartHole))
  /\ UNCHANGED <<lawful, open>>

(* output_text.done and its like restate the text of the last part. *)
LawfulTextDone ==
  /\ Lawful(open) /\ meant[Last].kind # "function_call" /\ Parts # <<>>
  /\ TextDone(Last, meant[Last].kind, Len(Parts), Parts[Len(Parts)])
  /\ UNCHANGED <<lawful, meant, open>>

(* Snapshots: with no items or with all of them, and the terminal one. *)
LawfulSnapshot ==
  /\ \/ Lawful(TRUE) /\ \E list \in {<<>>, meant} : Snapshot(list, "in_progress")
     \/ Lawful(~open /\ status # "none") /\ Snapshot(meant, "completed")
  /\ UNCHANGED <<lawful, meant, open>>

LawfulEvent ==
  \/ \E id \in DOMAIN KindOf : LawfulAdded(id)
  \/ LawfulDone \/ LawfulPart \/ LawfulDelta \/ LawfulArgumentsDone \/ LawfulTextDone \/ LawfulSnapshot

StreamOver == UNCHANGED vars

Next == WildEvent \/ LawfulEvent \/ StreamOver

Spec == Init /\ [][Next]_vars

-----------------------------------------------------------------------------
(***************************************************************************)
(* The bookkeeping fits the list: indexes name positions that are there,   *)
(* no two of them the same one, and closed positions hold items.           *)
(***************************************************************************)
TypeOK ==
  /\ status \in {"none", "error", "in_progress", "completed", "failed"}
  /\ \A idx \in DOMAIN slots : slots[idx] \in 1..Len(out) /\ out[slots[idx]] # Hole
  /\ \A i, j \in DOMAIN slots : i # j => slots[i] # slots[j]
  /\ \A p \in closed : p \in 1..Len(out) /\ out[p] # Hole

(***************************************************************************)
(* Position: events at an index name the item the last output_item.added   *)
(* or output_item.done at the index announced, whatever was reused or      *)
(* listed in between, so no delta reaches another server item.             *)
(***************************************************************************)
IndexNamesItsItem ==
  \A idx \in DOMAIN named : Position(idx) # 0 /\ out[Position(idx)].id = named[idx]

(***************************************************************************)
(* Deltas are never spliced into another item than the one they were sent  *)
(* for.                                                                    *)
(***************************************************************************)
DeltasStayWithTheirItem ==
  \A p \in 1..Len(out) : \A c \in 1..Len(out[p].parts) :
    \A k \in 1..Len(out[p].parts[c]) : out[p].parts[c][k] \in {out[p].id, "hole"}

(***************************************************************************)
(* An item the server has finished is kept until the server lists the      *)
(* output anew: a later item at the same index does not take its place.    *)
(***************************************************************************)
FinishedItemsAreKept == \A id \in finished : \E p \in 1..Len(out) : out[p].id = id

(***************************************************************************)
(* A stream that follows the lifecycle is folded into exactly what it said *)
(* and reuses no index.                                                    *)
(***************************************************************************)
LawfulStreamsFoldExactly ==
  lawful => /\ out = meant /\ reused = <<>>
            /\ \A idx \in 1..Len(meant) : Position(idx) = idx
=============================================================================
