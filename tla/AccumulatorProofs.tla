--------------------------- MODULE AccumulatorProofs ---------------------------
(***************************************************************************)
(* The accumulator, for every number of events and of indexes and for any  *)
(* items a server names.  Folded is what keeps the bookkeeping right under *)
(* any server: an index is in slots exactly when the server named an item  *)
(* there, until an index is reused positions are indexes, and an item that *)
(* is finished is at a closed position.  Exact is what a stream that       *)
(* follows the lifecycle adds to it.                                       *)
(***************************************************************************)
EXTENDS Accumulator, Integers, SequenceTheorems, WellFoundedInduction, TLAPS

Chunks == Ids \cup {"hole"}
Entry  == [id: Ids, kind: {Kind(id) : id \in Ids}, status: ItemStatus, parts: Seq(Seq(Chunks))]
Slots  == Nat \ {0}

(* The deltas of an item were sent for it. *)
Said(parts, id) == parts \in Seq(Seq({id, "hole"}))
Fits(item)      == Said(item.parts, item.id)

Shape ==
  /\ out \in Seq(Entry \cup {Hole})
  /\ slots \in [DOMAIN slots -> Nat] /\ DOMAIN slots \subseteq Slots
  /\ named \in [DOMAIN slots -> Ids]
  /\ reused \in Seq(Nat)

(* Until an index is reused, positions are indexes. *)
Straight ==
  reused = <<>> => /\ \A idx \in DOMAIN slots : slots[idx] = idx
                   /\ \A p \in 1..Len(out) : out[p] # Hole => p \in DOMAIN slots

SlotsAgree == \A idx \in DOMAIN slots : out[slots[idx]].id = named[idx]

AllFit == \A p \in 1..Len(out) : Fits(out[p])

FinishedAreClosed == \A id \in finished : \E p \in closed : out[p].id = id

Folded == Shape /\ TypeOK /\ Straight /\ SlotsAgree /\ AllFit /\ FinishedAreClosed

(* No part is a hole. *)
Whole(parts) == \A c \in 1..Len(parts) : parts[c] # PartHole

Exact ==
  lawful => /\ out = meant /\ reused = <<>>
            /\ meant \in Seq(Entry)
            /\ \A p \in 1..Len(meant) : Whole(meant[p].parts)
            /\ DOMAIN slots = 1..Len(meant)
            /\ open => meant # <<>>

IInv == Folded /\ Exact /\ lawful \in BOOLEAN /\ open \in BOOLEAN

-----------------------------------------------------------------------------
(* Induction on the naturals, for a set. *)
LEMMA SetInduction ==
  ASSUME NEW S, 0 \in S, \A n \in Nat : n \in S => n + 1 \in S
  PROVE  \A n \in Nat : n \in S
<1> SUFFICES ASSUME Nat \ S # {} PROVE FALSE
  OBVIOUS
<1> DEFINE T == Nat \ S
           R == OpToRel(<, Nat)
<1>1. IsWellFoundedOn(R, Nat)
  BY NatLessThanWellFounded
<1>2. \A x, y \in Nat : <<y, x>> \in R <=> y < x
  BY DEF OpToRel
<1> HIDE DEF R
<1>3. PICK x \in T : \A y \in T : ~(<<y, x>> \in R)
  <2>1. T \subseteq Nat /\ T # {}
    OBVIOUS
  <2> HIDE DEF T
  <2> QED BY <1>1, <2>1, WFMin
<1>4. x # 0 /\ x - 1 \in Nat /\ x - 1 < x
  OBVIOUS
<1>5. x - 1 \in S
  BY <1>2, <1>3, <1>4
<1> QED BY <1>3, <1>4, <1>5

(* Padding and placing keep a list what it was, and fill it with holes. *)
IsPadded(new, list, n, hole) ==
  /\ Len(new) = IF n > Len(list) THEN n ELSE Len(list)
  /\ \A q \in 1..Len(new) : new[q] = IF q <= Len(list) THEN list[q] ELSE hole

IsPlaced(new, list, p, x, hole) ==
  /\ Len(new) = IF p > Len(list) THEN p ELSE Len(list)
  /\ \A q \in 1..Len(new) : new[q] = IF q = p THEN x ELSE IF q <= Len(list) THEN list[q] ELSE hole

LEMMA PaddedList ==
  ASSUME NEW S, NEW list \in Seq(S), NEW n \in Nat, NEW hole \in S
  PROVE  Padded(list, n, hole) \in Seq(S) /\ IsPadded(Padded(list, n, hole), list, n, hole)
<1> DEFINE more == IF n > Len(list) THEN n - Len(list) ELSE 0
           holes == [k \in 1..more |-> hole]
<1>1. Len(list) \in Nat /\ more \in Nat
  BY LenProperties
<1>2. holes \in Seq(S) /\ Len(holes) = more
  BY <1>1
<1>3. Padded(list, n, hole) = list \o holes
  BY DEF Padded
<1>4. \A k \in 1..more : holes[k] = hole
  OBVIOUS
<1> HIDE DEF holes
<1>5. /\ list \o holes \in Seq(S)
      /\ Len(list \o holes) = Len(list) + more
      /\ \A i \in 1..Len(list) + more :
           (list \o holes)[i] = IF i <= Len(list) THEN list[i] ELSE holes[i - Len(list)]
  BY <1>2, ConcatProperties
<1>6. \A q \in 1..Len(list) + more : q > Len(list) => q - Len(list) \in 1..more
  BY <1>1
<1> QED BY <1>1, <1>3, <1>4, <1>5, <1>6 DEF IsPadded

LEMMA PlacedList ==
  ASSUME NEW S, NEW list \in Seq(S), NEW p \in Nat, p # 0, NEW x \in S, NEW hole \in S
  PROVE  Placed(list, p, x, hole) \in Seq(S) /\ IsPlaced(Placed(list, p, x, hole), list, p, x, hole)
<1> DEFINE pad == Padded(list, p, hole)
<1>1. pad \in Seq(S) /\ IsPadded(pad, list, p, hole)
  BY PaddedList
<1>2. Placed(list, p, x, hole) = [pad EXCEPT ![p] = x]
  BY DEF Placed
<1> HIDE DEF pad
<1>3. p \in 1..Len(pad) /\ Len(list) \in Nat
  BY <1>1, LenProperties DEF IsPadded
<1> QED BY <1>1, <1>2, <1>3, ExceptSeq DEF IsPadded, IsPlaced

-----------------------------------------------------------------------------
(* One more item of a list, if its id is not held and not listed before. *)
More(list, new, k) ==
  IF list[k].id # NoID /\ (\A x \in 1..Len(out) : out[x].id # list[k].id)
     /\ (\A x \in 1..Len(new) : new[x].id # list[k].id)
  THEN Append(new, list[k]) ELSE new

(* The lists appendUnknown goes through. *)
Chosen(list, n, new) ==
  new = [k \in 0..n |-> IF k = 0 THEN <<>> ELSE More(list, new[k - 1], k)]

(* They exist, for a list of any length. *)
LEMMA ChosenExists ==
  ASSUME NEW S, NEW list \in Seq(S)
  PROVE  \A n \in Nat : \E new : Chosen(list, n, new)
<1> DEFINE Good == {n \in Nat : \E new : Chosen(list, n, new)}
<1>1. 0 \in Good
  <2> DEFINE new == [k \in 0..0 |-> <<>>]
  <2>1. Chosen(list, 0, new)
    BY DEF Chosen
  <2> QED BY <2>1
<1>2. ASSUME NEW n \in Nat, n \in Good
      PROVE  n + 1 \in Good
  <2>1. PICK new : Chosen(list, n, new)
    BY <1>2
  <2> DEFINE next == [k \in 0..(n + 1) |-> IF k = n + 1 THEN More(list, new[n], n + 1) ELSE new[k]]
  <2>2. \A k \in 0..n : new[k] = IF k = 0 THEN <<>> ELSE More(list, new[k - 1], k)
    BY <2>1 DEF Chosen
  <2>3. \A k \in 0..(n + 1) : next[k] = IF k = 0 THEN <<>> ELSE More(list, next[k - 1], k)
    <3>1. TAKE k \in 0..(n + 1)
    <3>2. CASE k = n + 1
      <4>1. next[n] = new[n] /\ next[n + 1] = More(list, new[n], n + 1)
        OBVIOUS
      <4> HIDE DEF next
      <4> QED BY <3>2, <4>1
    <3>3. CASE k \in 0..n
      <4>1. next[k] = new[k] /\ (k # 0 => k - 1 \in 0..(n + 1) /\ next[k - 1] = new[k - 1])
        BY <3>3
      <4> HIDE DEF next
      <4> QED BY <2>2, <3>3, <4>1
    <3> QED BY <3>1, <3>2, <3>3
  <2>4. next = [k \in 0..(n + 1) |-> next[k]]
    OBVIOUS
  <2> HIDE DEF next
  <2>5. next = [k \in 0..(n + 1) |-> IF k = 0 THEN <<>> ELSE More(list, next[k - 1], k)]
    BY <2>3, <2>4
  <2> QED BY <2>5 DEF Chosen
<1> HIDE DEF Good
<1>3. \A n \in Nat : n \in Good
  BY <1>1, <1>2, SetInduction
<1> QED BY <1>3 DEF Good

(* What is added is a list of items of the list. *)
LEMMA ChosenItems ==
  ASSUME NEW S, NEW list \in Seq(S), NEW new, Chosen(list, Len(list), new)
  PROVE  \A n \in 0..Len(list) : new[n] \in Seq(S)
<1> DEFINE Good == {n \in Nat : n <= Len(list) => new[n] \in Seq(S)}
<1>1. \A k \in 0..Len(list) : new[k] = IF k = 0 THEN <<>> ELSE More(list, new[k - 1], k)
  BY DEF Chosen
<1>2. Len(list) \in Nat
  BY LenProperties
<1>3. 0 \in Good
  <2>1. new[0] = <<>>
    BY <1>1, <1>2
  <2> QED BY <2>1, EmptySeq
<1>4. ASSUME NEW n \in Nat, n \in Good
      PROVE  n + 1 \in Good
  <2> SUFFICES ASSUME n + 1 <= Len(list)
               PROVE  new[n + 1] \in Seq(S)
    OBVIOUS
  <2>1. new[n] \in Seq(S) /\ list[n + 1] \in S
    BY <1>2, <1>4, ElementOfSeq
  <2>2. new[n + 1] = More(list, new[n], n + 1)
    BY <1>1, <1>2
  <2>3. new[n + 1] = new[n] \/ new[n + 1] = Append(new[n], list[n + 1])
    BY <2>2 DEF More
  <2> QED BY <2>1, <2>3, AppendProperties
<1> HIDE DEF Good
<1>5. \A n \in Nat : n \in Good
  BY <1>3, <1>4, SetInduction
<1> QED BY <1>2, <1>5 DEF Good

LEMMA UnknownItems ==
  ASSUME NEW S, NEW list \in Seq(S)
  PROVE  Unknown(list) \in Seq(S)
<1>1. Len(list) \in Nat
  BY LenProperties
<1>2. PICK new : Chosen(list, Len(list), new)
  BY <1>1, ChosenExists
<1>3. Unknown(list) = (CHOOSE f : Chosen(list, Len(list), f))[Len(list)]
  BY DEF Unknown, Chosen, More
<1>4. Chosen(list, Len(list), CHOOSE f : Chosen(list, Len(list), f))
  BY <1>2
<1> QED BY <1>1, <1>3, <1>4, ChosenItems
-----------------------------------------------------------------------------
LEMMA EntryIsNoHole ==
  ASSUME NEW item \in Entry
  PROVE  item # Hole
BY DEF Entry, Hole, ItemStatus

(* The output holds item at p, and what it held elsewhere. *)
Holds(item, p) ==
  /\ out' \in Seq(Entry \cup {Hole})
  /\ p \in 1..Len(out') /\ out'[p] = item
  /\ \A q \in 1..Len(out) : q \in 1..Len(out') /\ (q # p => out'[q] = out[q])
  /\ \A q \in 1..Len(out') : q = p \/ q \in 1..Len(out) \/ out'[q] = Hole

LEMMA PlacedInOutput ==
  ASSUME Shape, NEW item \in Entry, NEW p \in Nat, p # 0, out' = Placed(out, p, item, Hole)
  PROVE  Holds(item, p)
<1> DEFINE S == Entry \cup {Hole}
<1>1. out \in Seq(S) /\ item \in S /\ Hole \in S
  BY DEF Shape
<1> HIDE DEF S
<1>2. out' \in Seq(S) /\ IsPlaced(out', out, p, item, Hole)
  BY <1>1, PlacedList
<1>3. Len(out) \in Nat
  BY <1>1, LenProperties
<1> QED BY <1>2, <1>3 DEF Holds, S, IsPlaced

(* The position an item event gets is its index's, or no index's. *)
LEMMA SlotIsTheIndexes ==
  ASSUME Folded, NEW idx \in Nat, idx # 0
  PROVE  /\ Slot(idx) \in Nat /\ Slot(idx) # 0
         /\ idx \in DOMAIN slots => Slot(idx) = slots[idx]
         /\ idx \notin DOMAIN slots => Slot(idx) \notin closed
         /\ reused = <<>> => Slot(idx) = idx
         /\ \A j \in DOMAIN slots : j # idx => slots[j] # Slot(idx)
<1>1. Len(out) \in Nat
  BY LenProperties DEF Folded, Shape
<1>2. CASE idx \in DOMAIN slots
  BY <1>1, <1>2 DEF Folded, TypeOK, Slot, Straight, Shape
<1>3. CASE idx \notin DOMAIN slots /\ reused # <<>>
  BY <1>1, <1>3 DEF Folded, TypeOK, Slot, Shape
<1>4. CASE idx \notin DOMAIN slots /\ reused = <<>>
  BY <1>1, <1>4 DEF Folded, TypeOK, Slot, Straight, Shape
<1> QED BY <1>2, <1>3, <1>4

(* output_item.added and output_item.done keep the bookkeeping right. *)
LEMMA PlaceStep ==
  ASSUME Folded, NEW idx \in Nat, idx # 0, NEW item \in Entry, Fits(item), NEW done \in BOOLEAN,
         PlaceItem(idx, item, done)
  PROVE  Folded'
<1> DEFINE slot  == Slot(idx)
           reuse == Another(slot, item.id, done)
           pos   == IF reuse THEN Len(out) + 1 ELSE slot
<1>1. Len(out) \in Nat
  BY LenProperties DEF Folded, Shape
<1>2. /\ slot \in Nat /\ slot # 0
      /\ idx \in DOMAIN slots => slot = slots[idx]
      /\ idx \notin DOMAIN slots => slot \notin closed
      /\ reused = <<>> => slot = idx
      /\ \A j \in DOMAIN slots : j # idx => slots[j] # slot
  BY SlotIsTheIndexes
<1> HIDE DEF slot
<1>3. /\ out' = Placed(out, pos, item, Hole)
      /\ slots' = With(slots, idx, pos)
      /\ closed' = IF done THEN closed \cup {pos} ELSE closed \ {pos}
      /\ reused' = IF reuse THEN Append(reused, idx) ELSE reused
      /\ status' = IF status \in {"none", "error"} THEN "in_progress" ELSE status
      /\ named' = With(named, idx, item.id)
      /\ finished' = IF done THEN (finished \ {Restated(idx, item.id)}) \cup ({item.id} \ {NoID})
                     ELSE finished \ {item.id}
  BY DEF PlaceItem, slot
<1>4. reuse => slot \in closed /\ (IF item.id = NoID THEN ~done ELSE item.id # out[slot].id)
  BY DEF Another
<1>5. ~reuse /\ slot \in closed => IF item.id = NoID THEN done ELSE item.id = out[slot].id
  <2>1. slot \in closed => slot <= Len(out) /\ out[slot] # Hole
    BY <1>1 DEF Folded, TypeOK
  <2> QED BY <2>1 DEF Another
<1>6. PICK p \in Nat \ {0} : p = pos
  BY <1>1, <1>2
<1>7. \A j \in DOMAIN slots : j # idx => slots[j] # p
  BY <1>1, <1>2, <1>6 DEF Folded, TypeOK
<1>8. p \in closed => ~reuse /\ p = slot
  BY <1>1, <1>6 DEF Folded, TypeOK
<1>9. reuse \in BOOLEAN /\ (reuse => reused' # <<>>) /\ (~reuse => reused' = reused /\ p = slot)
  <2>1. Append(reused, idx) # <<>>
    <3>1. Len(Append(reused, idx)) = Len(reused) + 1 /\ Len(reused) \in Nat
      BY AppendProperties, LenProperties DEF Folded, Shape
    <3> QED BY <3>1, EmptySeq
  <2> QED BY <1>3, <1>6, <2>1 DEF Another
<1>10. reused' \in Seq(Nat)
  BY <1>3, AppendProperties DEF Folded, Shape
<1> HIDE DEF pos, reuse
<1>11. Holds(item, p)
  BY <1>3, <1>6, PlacedInOutput DEF Folded
<1>12. item # Hole
  BY EntryIsNoHole
<1>13. /\ DOMAIN slots' = DOMAIN slots \cup {idx} /\ DOMAIN named' = DOMAIN slots'
       /\ slots'[idx] = p /\ \A j \in DOMAIN slots : j # idx => slots'[j] = slots[j]
       /\ named'[idx] = item.id /\ \A j \in DOMAIN slots : j # idx => named'[j] = named[j]
       /\ slots' = [j \in DOMAIN slots' |-> slots'[j]] /\ named' = [j \in DOMAIN named' |-> named'[j]]
  BY <1>3, <1>6 DEF With, Folded, Shape
<1>14. item.id \in Ids
  BY DEF Entry
<1>15. Shape'
  BY <1>10, <1>11, <1>13, <1>14 DEF Folded, Shape, Holds, Slots
<1>16. TypeOK'
  <2>1. status' \in {"none", "error", "in_progress", "completed", "failed"}
    BY <1>3 DEF Folded, TypeOK
  <2>2. ASSUME NEW j \in DOMAIN slots'
        PROVE  slots'[j] \in 1..Len(out') /\ out'[slots'[j]] # Hole
    BY <1>7, <1>11, <1>12, <1>13 DEF Folded, TypeOK, Holds
  <2>3. ASSUME NEW i \in DOMAIN slots', NEW j \in DOMAIN slots', i # j
        PROVE  slots'[i] # slots'[j]
    BY <1>7, <1>13, <2>3 DEF Folded, TypeOK
  <2>4. ASSUME NEW q \in closed'
        PROVE  q \in 1..Len(out') /\ out'[q] # Hole
    <3>1. q = p \/ q \in closed
      BY <1>3, <1>6
    <3> QED BY <1>11, <1>12, <3>1 DEF Folded, TypeOK, Holds
  <2> QED BY <2>1, <2>2, <2>3, <2>4 DEF TypeOK
<1>17. Straight'
  <2> SUFFICES ASSUME reused' = <<>>
               PROVE  /\ \A j \in DOMAIN slots' : slots'[j] = j
                      /\ \A q \in 1..Len(out') : out'[q] # Hole => q \in DOMAIN slots'
    BY DEF Straight
  <2>1. reused = <<>> /\ p = idx
    BY <1>2, <1>9
  <2> QED BY <1>11, <1>13, <2>1 DEF Folded, Straight, Holds
<1>18. SlotsAgree'
  BY <1>7, <1>11, <1>13 DEF Folded, TypeOK, SlotsAgree, Holds
<1>19. AllFit'
  <2>1. Fits(Hole)
    BY EmptySeq DEF Fits, Said, Hole
  <2> QED BY <1>11, <2>1 DEF Folded, AllFit, Holds
<1>20. FinishedAreClosed'
  <2> SUFFICES ASSUME NEW id \in finished'
               PROVE  \E q \in closed' : out'[q].id = id
    BY DEF FinishedAreClosed
  <2>1. CASE id = item.id /\ done
    BY <1>3, <1>6, <1>11, <2>1 DEF Holds
  <2>2. CASE ~(id = item.id /\ done)
    <3>1. id \in finished /\ id # item.id /\ (done => id # Restated(idx, item.id))
      BY <1>3, <2>2
    <3>2. PICK q \in closed : out[q].id = id
      BY <3>1 DEF Folded, FinishedAreClosed
    <3>3. q # p
      <4> SUFFICES ASSUME q = p PROVE FALSE
        OBVIOUS
      <4>1. p \in closed /\ ~reuse /\ p = slot /\ slot \in closed
        BY <1>8, <3>2
      <4>2. item.id = NoID /\ done
        BY <1>5, <3>1, <3>2, <4>1
      <4>3. idx \in DOMAIN slots /\ slot = slots[idx]
        BY <1>2, <4>1
      <4>4. Restated(idx, item.id) = named[idx]
        BY <4>2, <4>3 DEF Restated, Folded, Shape
      <4> QED BY <3>1, <3>2, <4>1, <4>2, <4>3, <4>4 DEF Folded, SlotsAgree
    <3>4. q \in closed' /\ out'[q] = out[q]
      BY <1>3, <1>6, <1>11, <3>2, <3>3 DEF Holds, Folded, TypeOK
    <3> QED BY <3>2, <3>4
  <2> QED BY <2>1, <2>2
<1> QED BY <1>15, <1>16, <1>17, <1>18, <1>19, <1>20 DEF Folded

-----------------------------------------------------------------------------
(* Events that change the parts of an item.                                *)
LEMMA SaidPlaced ==
  ASSUME NEW id, NEW parts, Said(parts, id), NEW c \in Nat, c # 0, NEW text \in Seq({id, "hole"})
  PROVE  Said(Placed(parts, c, text, PartHole), id)
<1> DEFINE Texts == Seq({id, "hole"})
<1>1. text \in Texts /\ PartHole \in Texts
  BY DEF PartHole
<1>2. parts \in Seq(Texts)
  BY DEF Said
<1> HIDE DEF Texts
<1>3. Placed(parts, c, text, PartHole) \in Seq(Texts)
  BY <1>1, <1>2, PlacedList
<1> QED BY <1>3 DEF Said, Texts

LEMMA SaidPadded ==
  ASSUME NEW id, NEW parts, Said(parts, id), NEW c \in Nat, c # 0
  PROVE  LET grown == Padded(parts, c, <<>>) IN Said(grown, id) /\ c \in 1..Len(grown)
<1> DEFINE Texts == Seq({id, "hole"})
<1>1. <<>> \in Texts
  BY EmptySeq
<1>2. parts \in Seq(Texts)
  BY DEF Said
<1> HIDE DEF Texts
<1>3. Padded(parts, c, <<>>) \in Seq(Texts) /\ IsPadded(Padded(parts, c, <<>>), parts, c, <<>>)
  BY <1>1, <1>2, PaddedList
<1>4. Len(parts) \in Nat
  BY <1>2, LenProperties
<1>5. c \in 1..Len(Padded(parts, c, <<>>))
  BY <1>3, <1>4 DEF IsPadded
<1> QED BY <1>3, <1>5 DEF Said, Texts

LEMMA SaidMore ==
  ASSUME NEW id, NEW parts, Said(parts, id), NEW c \in 1..Len(parts)
  PROVE  Said([parts EXCEPT ![c] = Append(@, id)], id)
<1> DEFINE Texts == Seq({id, "hole"})
<1>1. parts \in Seq(Texts)
  BY DEF Said
<1>2. parts[c] \in Texts
  BY <1>1, ElementOfSeq
<1>3. Append(parts[c], id) \in Texts
  BY <1>2, AppendProperties
<1>4. c \in DOMAIN parts
  BY <1>1, LenProperties
<1> HIDE DEF Texts
<1>5. [parts EXCEPT ![c] = Append(parts[c], id)] \in Seq(Texts)
  BY <1>1, <1>3, ExceptSeq
<1> QED BY <1>5 DEF Said, Texts

LEMMA SaidAnew ==
  ASSUME NEW id, NEW parts, Said(parts, id), NEW c \in 1..Len(parts), NEW text \in Seq({id, "hole"})
  PROVE  Said([parts EXCEPT ![c] = text], id)
<1> DEFINE Texts == Seq({id, "hole"})
<1>1. parts \in Seq(Texts) /\ text \in Texts
  BY DEF Said
<1> HIDE DEF Texts
<1>2. [parts EXCEPT ![c] = text] \in Seq(Texts)
  BY <1>1, ExceptSeq
<1> QED BY <1>2 DEF Said, Texts

(* The item at the position of an index is the one the server named there. *)
LEMMA PositionIsNamed ==
  ASSUME Folded, NEW idx, Position(idx) # 0
  PROVE  /\ Position(idx) \in 1..Len(out) /\ out[Position(idx)] # Hole
         /\ out[Position(idx)] \in Entry /\ Fits(out[Position(idx)])
         /\ idx \in DOMAIN slots /\ Position(idx) = slots[idx]
         /\ Chunk(idx) = out[Position(idx)].id
<1>1. Position(idx) \in 1..Len(out) /\ out[Position(idx)] # Hole
  BY DEF Position
<1>2. out[Position(idx)] \in Entry /\ Fits(out[Position(idx)])
  BY <1>1, ElementOfSeq DEF Folded, Shape, AllFit
<1>3. idx \in DOMAIN slots /\ Position(idx) = slots[idx]
  <2>1. CASE idx \in DOMAIN slots
    BY <1>1, <2>1 DEF Position
  <2>2. CASE idx \notin DOMAIN slots
    <3>1. reused = <<>> /\ Position(idx) = idx
      BY <2>2 DEF Position
    <3> QED BY <1>1, <2>2, <3>1 DEF Folded, Straight
  <2> QED BY <2>1, <2>2
<1>4. Chunk(idx) = out[Position(idx)].id
  BY <1>3 DEF Chunk, Folded, Shape, SlotsAgree
<1> QED BY <1>1, <1>2, <1>3, <1>4

Bookkeeping == <<status, slots, closed, reused, named, finished>>

LEMMA EntryWithParts ==
  ASSUME NEW e \in Entry, NEW parts, Said(parts, e.id)
  PROVE  LET item == [e EXCEPT !.parts = parts] IN
         item \in Entry /\ item.id = e.id /\ item.kind = e.kind /\ item.parts = parts
<1> DEFINE item == [e EXCEPT !.parts = parts]
<1>1. parts \in Seq(Seq(Chunks))
  <2>1. e.id \in Chunks /\ "hole" \in Chunks
    BY DEF Entry, Chunks
  <2>2. Seq({e.id, "hole"}) \subseteq Seq(Chunks)
    BY <2>1, SeqMonotonic
  <2> QED BY <2>2, SeqMonotonic DEF Said
<1>2. e = [id |-> e.id, kind |-> e.kind, status |-> e.status, parts |-> e.parts]
  BY DEF Entry
<1>3. item = [id |-> e.id, kind |-> e.kind, status |-> e.status, parts |-> parts]
  BY <1>2
<1> HIDE DEF item
<1>4. e.id \in Ids /\ e.kind \in {Kind(id) : id \in Ids} /\ e.status \in ItemStatus
  BY DEF Entry
<1>5. item \in Entry
  BY <1>1, <1>3, <1>4 DEF Entry
<1>6. item.id = e.id /\ item.kind = e.kind /\ item.parts = parts
  BY <1>3
<1> QED BY <1>5, <1>6 DEF item

LEMMA PartsStep ==
  ASSUME Folded, NEW p \in 1..Len(out), out[p] # Hole, NEW parts, Said(parts, out[p].id),
         out' = [out EXCEPT ![p] = [@ EXCEPT !.parts = parts]],
         UNCHANGED Bookkeeping
  PROVE  Folded'
<1> DEFINE item == [out[p] EXCEPT !.parts = parts]
<1>1. out[p] \in Entry /\ out \in Seq(Entry \cup {Hole})
  BY ElementOfSeq DEF Folded, Shape
<1>2. out[p] \in Entry
  BY <1>1
<1>3. item \in Entry /\ item.id = out[p].id /\ item.parts = parts
  BY <1>2, EntryWithParts
<1> HIDE DEF item
<1>4. item # Hole /\ Fits(item)
  BY <1>3, EntryIsNoHole DEF Fits
<1> USE DEF item
<1>5. out' = [out EXCEPT ![p] = item]
  BY <1>1, LenProperties
<1> HIDE DEF item
<1>6. /\ out' \in Seq(Entry \cup {Hole}) /\ Len(out') = Len(out)
      /\ \A q \in 1..Len(out) : out'[q] = IF q = p THEN item ELSE out[q]
  <2> DEFINE S == Entry \cup {Hole}
  <2>1. item \in S /\ out \in Seq(S)
    BY <1>1, <1>3
  <2> HIDE DEF S
  <2>2. /\ out' \in Seq(S) /\ Len(out') = Len(out)
        /\ \A q \in 1..Len(out) : out'[q] = IF q = p THEN item ELSE out[q]
    BY <1>5, <2>1, ExceptSeq
  <2> QED BY <2>2 DEF S
<1>7. \A q \in 1..Len(out) : out'[q].id = out[q].id /\ (out'[q] = Hole <=> out[q] = Hole)
  BY <1>3, <1>4, <1>6
<1>8. Shape'
  BY <1>6 DEF Folded, Shape, Bookkeeping
<1>9. TypeOK' /\ Straight' /\ SlotsAgree' /\ FinishedAreClosed'
  BY <1>6, <1>7 DEF Folded, TypeOK, Straight, SlotsAgree, FinishedAreClosed, Bookkeeping
<1>10. AllFit'
  BY <1>4, <1>6 DEF Folded, AllFit
<1> QED BY <1>8, <1>9, <1>10 DEF Folded

(* Dropped: an event at an index with no item of its kind. *)
LEMMA SameOutput ==
  ASSUME Folded, out' = out, UNCHANGED Bookkeeping
  PROVE  Folded'
BY DEF Folded, Shape, TypeOK, Straight, SlotsAgree, AllFit, FinishedAreClosed, Bookkeeping

LEMMA SetPartStep ==
  ASSUME Folded, NEW idx, NEW kind, NEW c \in Nat, c # 0, NEW text, SetPart(idx, kind, c, text),
         Position(idx) # 0 => text \in Seq({out[Position(idx)].id, "hole"})
  PROVE  Folded'
<1> DEFINE p == Position(idx)
           parts == Placed(out[p].parts, c, text, PartHole)
<1>1. UNCHANGED Bookkeeping
  BY DEF SetPart, UpdateParts, Bookkeeping
<1>2. CASE p # 0 /\ out[p].kind = kind
  <2>1. out' = [out EXCEPT ![p] = [@ EXCEPT !.parts = parts]]
    BY <1>2 DEF SetPart, UpdateParts
  <2>2. p \in 1..Len(out) /\ out[p] # Hole /\ Fits(out[p])
    BY <1>2, PositionIsNamed
  <2>3. Said(parts, out[p].id)
    BY <1>2, <2>2, SaidPlaced DEF Fits
  <2> HIDE DEF p, parts
  <2> QED BY <1>1, <2>1, <2>2, <2>3, PartsStep
<1>3. CASE ~(p # 0 /\ out[p].kind = kind)
  BY <1>1, <1>3, SameOutput DEF SetPart, UpdateParts
<1> QED BY <1>2, <1>3

LEMMA DeltaInPartStep ==
  ASSUME Folded, NEW idx, NEW kind, NEW c, DeltaInPart(idx, kind, c)
  PROVE  Folded'
<1> DEFINE p == Position(idx)
           parts == [out[p].parts EXCEPT ![c] = Append(@, Chunk(idx))]
           there == c \in 1..Len(out[p].parts) /\ out[p].parts[c] # PartHole
<1>1. UNCHANGED Bookkeeping
  BY DEF DeltaInPart, UpdateParts, Bookkeeping
<1>2. CASE p # 0 /\ out[p].kind = kind
  <2>1. out' = [out EXCEPT ![p] = [@ EXCEPT !.parts = IF there THEN parts ELSE out[p].parts]]
    BY <1>2 DEF DeltaInPart, UpdateParts
  <2>2. p \in 1..Len(out) /\ out[p] # Hole /\ Fits(out[p]) /\ Chunk(idx) = out[p].id
    BY <1>2, PositionIsNamed
  <2>3. there => Said(parts, out[p].id)
    BY <2>2, SaidMore DEF Fits
  <2>4. Said(IF there THEN parts ELSE out[p].parts, out[p].id)
    BY <2>2, <2>3 DEF Fits
  <2> HIDE DEF p, parts, there
  <2> QED BY <1>1, <2>1, <2>2, <2>4, PartsStep
<1>3. CASE ~(p # 0 /\ out[p].kind = kind)
  BY <1>1, <1>3, SameOutput DEF DeltaInPart, UpdateParts
<1> QED BY <1>2, <1>3

LEMMA DeltaOnDemandStep ==
  ASSUME Folded, NEW idx, NEW kind, NEW c \in Nat, c # 0, DeltaOnDemand(idx, kind, c)
  PROVE  Folded'
<1> DEFINE p == Position(idx)
           grown == Padded(out[p].parts, c, <<>>)
           parts == [grown EXCEPT ![c] = Append(@, Chunk(idx))]
<1>1. UNCHANGED Bookkeeping
  BY DEF DeltaOnDemand, UpdateParts, Bookkeeping
<1>2. CASE p # 0 /\ out[p].kind = kind
  <2>1. out' = [out EXCEPT ![p] = [@ EXCEPT !.parts = parts]]
    BY <1>2 DEF DeltaOnDemand, UpdateParts
  <2>2. p \in 1..Len(out) /\ out[p] # Hole /\ Fits(out[p]) /\ Chunk(idx) = out[p].id
    BY <1>2, PositionIsNamed
  <2>3. Said(grown, out[p].id) /\ c \in 1..Len(grown)
    BY <2>2, SaidPadded DEF Fits
  <2> HIDE DEF grown
  <2>4. Said(parts, out[p].id)
    BY <2>2, <2>3, SaidMore
  <2> HIDE DEF p, parts
  <2> QED BY <1>1, <2>1, <2>2, <2>4, PartsStep
<1>3. CASE ~(p # 0 /\ out[p].kind = kind)
  BY <1>1, <1>3, SameOutput DEF DeltaOnDemand, UpdateParts
<1> QED BY <1>2, <1>3

LEMMA TextDoneStep ==
  ASSUME Folded, NEW idx, NEW kind, NEW c, NEW text, TextDone(idx, kind, c, text),
         Position(idx) # 0 => text \in Seq({out[Position(idx)].id, "hole"})
  PROVE  Folded'
<1> DEFINE p == Position(idx)
           parts == [out[p].parts EXCEPT ![c] = text]
           there == c \in 1..Len(out[p].parts) /\ out[p].parts[c] # PartHole
<1>1. UNCHANGED Bookkeeping
  BY DEF TextDone, UpdateParts, Bookkeeping
<1>2. CASE p # 0 /\ out[p].kind = kind
  <2>1. out' = [out EXCEPT ![p] = [@ EXCEPT !.parts = IF there THEN parts ELSE out[p].parts]]
    BY <1>2 DEF TextDone, UpdateParts
  <2>2. p \in 1..Len(out) /\ out[p] # Hole /\ Fits(out[p])
    BY <1>2, PositionIsNamed
  <2>3. there => Said(parts, out[p].id)
    BY <1>2, <2>2, SaidAnew DEF Fits
  <2>4. Said(IF there THEN parts ELSE out[p].parts, out[p].id)
    BY <2>2, <2>3 DEF Fits
  <2> HIDE DEF p, parts, there
  <2> QED BY <1>1, <2>1, <2>2, <2>4, PartsStep
<1>3. CASE ~(p # 0 /\ out[p].kind = kind)
  BY <1>1, <1>3, SameOutput DEF TextDone, UpdateParts
<1> QED BY <1>2, <1>3

-----------------------------------------------------------------------------
(* Events with a snapshot, and errors.                                     *)
Fitting == {e \in Entry : Fits(e)}

LEMMA FittingItem ==
  ASSUME NEW list \in Seq(Fitting), NEW p \in 1..Len(list)
  PROVE  list[p] \in Entry /\ Fits(list[p]) /\ list[p] # Hole /\ list[p].id \in Ids
<1>1. list[p] \in Fitting
  BY ElementOfSeq
<1>2. list[p] \in Entry /\ Fits(list[p])
  BY <1>1 DEF Fitting
<1> QED BY <1>2, EntryIsNoHole DEF Entry

(* A snapshot that is not taken changes the status only. *)
LEMMA KeptStep ==
  ASSUME Folded, status' \in {"none", "error", "in_progress", "completed", "failed"},
         UNCHANGED <<out, slots, closed, reused, named, finished>>
  PROVE  Folded'
BY DEF Folded, Shape, TypeOK, Straight, SlotsAgree, AllFit, FinishedAreClosed

(* After a reuse the items a snapshot alone names are appended. *)
LEMMA ExtendedStep ==
  ASSUME Folded, NEW more \in Seq(Fitting), out' = out \o more, reused # <<>>,
         status' \in {"none", "error", "in_progress", "completed", "failed"},
         UNCHANGED <<slots, closed, reused, named, finished>>
  PROVE  Folded'
<1> DEFINE S == Entry \cup {Hole}
<1>1. out \in Seq(S) /\ more \in Seq(S)
  <2>1. Fitting \subseteq S
    BY DEF Fitting
  <2> QED BY <2>1, SeqMonotonic DEF Folded, Shape
<1> HIDE DEF S
<1>2. /\ out' \in Seq(S) /\ Len(out') = Len(out) + Len(more)
      /\ \A i \in 1..(Len(out) + Len(more)) :
           out'[i] = IF i <= Len(out) THEN out[i] ELSE more[i - Len(out)]
  BY <1>1, ConcatProperties
<1>3. Len(out) \in Nat /\ Len(more) \in Nat
  BY <1>1, LenProperties
<1>4. \A i \in 1..Len(out) : i \in 1..Len(out') /\ out'[i] = out[i]
  BY <1>2, <1>3
<1>5. ASSUME NEW i \in 1..Len(out')
      PROVE  Fits(out'[i])
  <2>1. CASE i <= Len(out)
    BY <1>2, <1>3, <2>1 DEF Folded, AllFit
  <2>2. CASE i > Len(out)
    <3>1. i - Len(out) \in 1..Len(more) /\ out'[i] = more[i - Len(out)]
      BY <1>2, <1>3, <2>2
    <3> QED BY <3>1, FittingItem
  <2> QED BY <1>2, <1>3, <2>1, <2>2
<1>6. Shape'
  BY <1>2 DEF Folded, Shape, S
<1>7. TypeOK' /\ Straight' /\ SlotsAgree' /\ FinishedAreClosed'
  BY <1>4 DEF Folded, TypeOK, Straight, SlotsAgree, FinishedAreClosed
<1>8. AllFit'
  BY <1>5 DEF AllFit
<1> QED BY <1>6, <1>7, <1>8 DEF Folded

(* A list that is taken makes the bookkeeping anew. *)
LEMMA RelistStep ==
  ASSUME Folded, NEW list \in Seq(Fitting), out' = list,
         slots' = [p \in 1..Len(list) |-> p], closed' = RelistClosed(list), finished' = {},
         named' = [p \in 1..Len(list) |-> list[p].id], reused' = reused,
         status' \in {"none", "error", "in_progress", "completed", "failed"}
  PROVE  Folded'
<1>1. Len(list) \in Nat
  BY LenProperties
<1>2. out' \in Seq(Entry \cup {Hole})
  <2>1. Fitting \subseteq Entry \cup {Hole}
    BY DEF Fitting
  <2> QED BY <2>1, SeqMonotonic
<1>3. \A p \in 1..Len(list) : Fits(list[p]) /\ list[p] # Hole /\ list[p].id \in Ids
  BY FittingItem
<1>4. Shape'
  BY <1>1, <1>2, <1>3 DEF Folded, Shape, Slots
<1>5. TypeOK'
  <2>1. closed' \subseteq 1..Len(list)
    BY DEF RelistClosed
  <2> QED BY <1>1, <1>3, <2>1 DEF TypeOK
<1>6. Straight' /\ SlotsAgree' /\ AllFit' /\ FinishedAreClosed'
  BY <1>3 DEF Straight, SlotsAgree, AllFit, FinishedAreClosed
<1> QED BY <1>4, <1>5, <1>6 DEF Folded

LEMMA SnapshotStep ==
  ASSUME Folded, NEW list \in Seq(Fitting), NEW st \in {"in_progress", "completed"},
         Snapshot(list, st)
  PROVE  Folded'
<1>1. status' \in {"none", "error", "in_progress", "completed", "failed"} /\ reused' = reused
  BY DEF Snapshot
<1>2. CASE Keeps(list, st)
  <2>1. named' = named
    BY <1>2 DEF Snapshot, Keeps
  <2> QED BY <1>1, <1>2, <2>1, KeptStep DEF Snapshot
<1>3. CASE ~Keeps(list, st) /\ Extends(st)
  <2>1. /\ out' = out \o Unknown(list) /\ reused # <<>>
        /\ UNCHANGED <<slots, closed, reused, named, finished>>
    BY <1>3 DEF Snapshot, Extends
  <2>2. Unknown(list) \in Seq(Fitting)
    BY UnknownItems
  <2> QED BY <1>1, <2>1, <2>2, ExtendedStep
<1>4. CASE ~Keeps(list, st) /\ ~Extends(st)
  <2>1. /\ out' = list /\ slots' = [p \in 1..Len(list) |-> p]
        /\ closed' = RelistClosed(list) /\ finished' = {}
    BY <1>4 DEF Snapshot
  <2>2. CASE Ended(st) \/ list # <<>>
    <3>1. named' = [p \in 1..Len(list) |-> list[p].id]
      BY <1>4, <2>2 DEF Snapshot, Extends
    <3> QED BY <1>1, <2>1, <3>1, RelistStep
  <2>3. CASE ~Ended(st) /\ list = <<>>
    <3>1. out = <<>> /\ named' = named
      BY <1>4, <2>3 DEF Snapshot, Keeps
    <3>2. Len(list) = 0 /\ Len(out) = 0
      BY <2>3, <3>1, EmptySeq
    <3>3. DOMAIN slots = {}
      BY <3>2 DEF Folded, TypeOK
    <3>4. named' = [p \in 1..Len(list) |-> list[p].id]
      BY <3>1, <3>2, <3>3 DEF Folded, Shape
    <3> QED BY <1>1, <2>1, <3>4, RelistStep
  <2> QED BY <2>2, <2>3
<1> QED BY <1>2, <1>3, <1>4

LEMMA ErrorStep ==
  ASSUME Folded, ErrorEvent
  PROVE  Folded'
<1>1. status' \in {"none", "error", "in_progress", "completed", "failed"}
  BY DEF ErrorEvent, Folded, TypeOK
<1> QED BY <1>1, KeptStep DEF ErrorEvent

-----------------------------------------------------------------------------
(* A server that keeps to no rule.                                         *)
LEMMA FreshFits ==
  ASSUME NEW id \in Ids, NEW st \in ItemStatus
  PROVE  Fresh(id, st) \in Fitting
<1>1. Fresh(id, st) = [id |-> id, kind |-> Kind(id), status |-> st, parts |-> <<>>]
  BY DEF Fresh, Item
<1>2. <<>> \in Seq(Seq(Chunks)) /\ <<>> \in Seq(Seq({id, "hole"}))
  BY EmptySeq
<1>3. Fresh(id, st) \in Entry
  BY <1>1, <1>2 DEF Entry
<1>4. Fits(Fresh(id, st))
  <2>1. Fresh(id, st).id = id /\ Fresh(id, st).parts = <<>>
    BY <1>1
  <2> QED BY <1>2, <2>1 DEF Fits, Said
<1> QED BY <1>3, <1>4 DEF Fitting

LEMMA WildLists ==
  ASSUME NEW list \in Lists
  PROVE  AsItems(list) \in Seq(Fitting)
<1>1. PICK n \in 0..2 : list \in [1..n -> [id: WildIds, status: ItemStatus]]
  BY DEF Lists
<1>2. Len(list) = n
  BY <1>1
<1>3. \A p \in 1..n : list[p].id \in Ids /\ list[p].status \in ItemStatus
  BY <1>1 DEF WildIds
<1>4. \A p \in 1..n : Fresh(list[p].id, list[p].status) \in Fitting
  BY <1>3, FreshFits
<1>5. AsItems(list) = [p \in 1..n |-> Fresh(list[p].id, list[p].status)]
  BY <1>2 DEF AsItems
<1> QED BY <1>4, <1>5

LEMMA WildStep ==
  ASSUME Folded, WildItem \/ WildDelta \/ WildSnapshot \/ ErrorEvent
  PROVE  Folded'
<1>1. \A idx \in Index : idx \in Nat /\ idx # 0
  BY BoundsAssumption DEF Index
<1>2. CASE WildItem
  <2>1. PICK idx \in Index, id \in WildIds, st \in ItemStatus, done \in BOOLEAN :
          PlaceItem(idx, Fresh(id, IF done THEN "completed" ELSE st), done)
    BY <1>2 DEF WildItem
  <2> DEFINE item == Fresh(id, IF done THEN "completed" ELSE st)
  <2>2. item \in Fitting
    BY FreshFits DEF WildIds, ItemStatus
  <2>3. item \in Entry /\ Fits(item)
    BY <2>2 DEF Fitting
  <2> HIDE DEF item
  <2> QED BY <1>1, <2>1, <2>3, PlaceStep DEF item
<1>3. CASE WildDelta
  <2>1. PICK idx \in Index :
          \/ DeltaOnDemand(idx, "function_call", 1)
          \/ ArgumentsDone(idx, <<Chunk(idx)>>)
          \/ SetPart(idx, "message", 1, <<>>)
          \/ DeltaInPart(idx, "message", 1)
    BY <1>3 DEF WildDelta
  <2>2. ASSUME NEW kind, NEW text, SetPart(idx, kind, 1, text),
               Position(idx) # 0 => text \in Seq({out[Position(idx)].id, "hole"})
        PROVE  Folded'
    <3>1. PICK c \in Nat : c # 0 /\ c = 1
      OBVIOUS
    <3>2. SetPart(idx, kind, c, text)
      BY <2>2, <3>1
    <3> QED BY <2>2, <3>1, <3>2, SetPartStep
  <2>3. CASE ArgumentsDone(idx, <<Chunk(idx)>>)
    <3>1. \A x, y : <<x>> \in Seq({x, y})
      OBVIOUS
    <3>2. Position(idx) # 0 => <<Chunk(idx)>> \in Seq({out[Position(idx)].id, "hole"})
      BY <3>1, PositionIsNamed
    <3>3. PICK text : text = <<Chunk(idx)>>
      OBVIOUS
    <3>4. SetPart(idx, "function_call", 1, text)
      BY <2>3, <3>3 DEF ArgumentsDone
    <3> QED BY <2>2, <3>2, <3>3, <3>4
  <2>4. CASE SetPart(idx, "message", 1, <<>>)
    <3>1. <<>> \in Seq({out[Position(idx)].id, "hole"})
      BY EmptySeq
    <3> QED BY <2>2, <2>4, <3>1
  <2> QED BY <2>1, <2>3, <2>4, DeltaOnDemandStep, DeltaInPartStep
<1>4. CASE WildSnapshot
  <2>1. PICK list \in Lists, st \in {"in_progress", "completed"} : Snapshot(AsItems(list), st)
    BY <1>4 DEF WildSnapshot
  <2> QED BY <2>1, WildLists, SnapshotStep
<1>5. CASE ErrorEvent
  BY <1>5, ErrorStep
<1> QED BY <1>2, <1>3, <1>4, <1>5

-----------------------------------------------------------------------------
(* A server that follows the lifecycle.                                    *)
LEMMA LawfulItem ==
  ASSUME IInv, lawful, NEW p \in 1..Len(meant)
  PROVE  /\ Position(p) = p /\ out[p] = meant[p] /\ out[p] # Hole /\ slots[p] = p
         /\ meant[p] \in Entry /\ Fits(meant[p]) /\ Whole(meant[p].parts)
         /\ Chunk(p) = meant[p].id
<1>1. /\ out = meant /\ reused = <<>> /\ meant \in Seq(Entry)
      /\ Whole(meant[p].parts) /\ p \in DOMAIN slots
  BY DEF IInv, Exact
<1>2. meant[p] \in Entry
  BY <1>1, ElementOfSeq
<1>3. out[p] # Hole
  BY <1>1, <1>2, EntryIsNoHole
<1>4. slots[p] = p
  BY <1>1 DEF IInv, Folded, Straight
<1>5. Position(p) = p
  BY <1>1, <1>3, <1>4 DEF Position
<1>6. p # 0
  BY <1>1, LenProperties
<1>7. Fits(meant[p]) /\ Chunk(p) = meant[p].id
  BY <1>1, <1>5, <1>6, PositionIsNamed DEF IInv
<1> QED BY <1>1, <1>2, <1>3, <1>4, <1>5, <1>7

LEMMA LawfulLast ==
  ASSUME IInv, lawful
  PROVE  Last \in Nat /\ (open => Last \in 1..Len(meant)) /\ (Last # 0 => Last \in 1..Len(meant))
<1>1. meant \in Seq(Entry) /\ (open => meant # <<>>)
  BY DEF IInv, Exact
<1>2. Len(meant) \in Nat /\ (meant # <<>> => Len(meant) # 0)
  BY <1>1, EmptySeq, LenProperties
<1> QED BY <1>1, <1>2 DEF Last

LEMMA LawfulAddedStep ==
  ASSUME IInv, NEW id \in DOMAIN KindOf, LawfulAdded(id)
  PROVE  IInv'
<1> DEFINE item == Fresh(id, "in_progress")
           p == Last + 1
<1>1. /\ lawful /\ PlaceItem(p, item, FALSE) /\ meant' = Append(meant, item)
      /\ open' = TRUE /\ lawful' = lawful
  BY DEF LawfulAdded, Lawful
<1>2. out = meant /\ reused = <<>> /\ meant \in Seq(Entry) /\ DOMAIN slots = 1..Len(meant)
  BY <1>1 DEF IInv, Exact
<1>3. Last \in Nat /\ p \in Nat /\ p # 0 /\ Last = Len(meant)
  BY <1>1, LawfulLast DEF Last
<1>4. item \in Entry /\ Fits(item) /\ Whole(item.parts)
  <2>1. item \in Fitting
    BY FreshFits DEF Ids, ItemStatus
  <2>2. item.parts = <<>>
    BY DEF Fresh, Item
  <2> HIDE DEF item
  <2>3. Whole(item.parts)
    BY <2>2, EmptySeq DEF Whole
  <2> QED BY <2>1, <2>3 DEF Fitting
<1> HIDE DEF item
<1>5. Folded'
  BY <1>1, <1>3, <1>4, PlaceStep DEF IInv
<1>6. Slot(p) = p
  BY <1>2, <1>3, SlotIsTheIndexes DEF IInv
<1>7. ~Another(p, item.id, FALSE)
  BY <1>2, <1>3 DEF Another
<1>8. /\ out' = Placed(meant, p, item, Hole) /\ reused' = reused /\ slots' = With(slots, p, p)
  BY <1>1, <1>2, <1>6, <1>7 DEF PlaceItem
<1>9. /\ meant' \in Seq(Entry) /\ Len(meant') = p
      /\ \A q \in 1..p : meant'[q] = IF q = p THEN item ELSE meant[q]
  BY <1>1, <1>2, <1>3, <1>4, AppendProperties
<1>10. out' = meant'
  <2> DEFINE S == Entry \cup {Hole}
  <2>1. item \in S /\ Hole \in S /\ meant \in Seq(S) /\ meant' \in Seq(S)
    BY <1>2, <1>4, <1>9, SeqMonotonic
  <2> HIDE DEF S
  <2>2. out' \in Seq(S) /\ IsPlaced(out', meant, p, item, Hole)
    BY <1>3, <1>8, <2>1, PlacedList
  <2>3. Len(out') = Len(meant') /\ \A q \in 1..Len(out') : out'[q] = meant'[q]
    BY <1>3, <1>9, <2>2 DEF IsPlaced
  <2> QED BY <2>1, <2>2, <2>3, SeqEqual
<1>11. DOMAIN slots' = 1..Len(meant')
  BY <1>2, <1>3, <1>8, <1>9 DEF With
<1>12. \A q \in 1..Len(meant') : Whole(meant'[q].parts)
  BY <1>1, <1>3, <1>4, <1>9 DEF IInv, Exact
<1>13. meant' # <<>>
  BY <1>3, <1>9, EmptySeq
<1>14. Exact'
  BY <1>2, <1>8, <1>9, <1>10, <1>11, <1>12, <1>13 DEF Exact
<1> QED BY <1>1, <1>5, <1>14 DEF IInv

LEMMA LawfulDoneStep ==
  ASSUME IInv, LawfulDone
  PROVE  IInv'
<1> DEFINE final == [meant[Last] EXCEPT !.status = "completed"]
<1>1. /\ lawful /\ open /\ PlaceItem(Last, final, TRUE) /\ meant' = [meant EXCEPT ![Last] = final]
      /\ open' = FALSE /\ lawful' = lawful
  BY DEF LawfulDone, Lawful
<1>2. out = meant /\ reused = <<>> /\ meant \in Seq(Entry) /\ DOMAIN slots = 1..Len(meant)
  BY <1>1 DEF IInv, Exact
<1>3. Last \in Nat /\ Last \in 1..Len(meant) /\ Last # 0
  BY <1>1, LawfulLast
<1>4. PICK e : e = meant[Last] /\ e = out[Last]
  BY <1>2
<1>5. e \in Entry /\ Fits(e) /\ Whole(e.parts)
  BY <1>1, <1>3, <1>4, LawfulItem
<1>6. /\ final \in Entry /\ final.id = e.id /\ Fits(final) /\ Whole(final.parts)
  <2>1. e = [id |-> e.id, kind |-> e.kind, status |-> e.status, parts |-> e.parts]
    BY <1>5 DEF Entry
  <2>2. final = [id |-> e.id, kind |-> e.kind, status |-> "completed", parts |-> e.parts]
    BY <1>4, <2>1
  <2> HIDE DEF final
  <2>3. final \in Entry
    BY <1>5, <2>2 DEF Entry, ItemStatus
  <2>4. final.id = e.id /\ final.parts = e.parts
    BY <2>2
  <2> QED BY <1>5, <2>3, <2>4 DEF Fits
<1> HIDE DEF final
<1>7. Folded'
  BY <1>1, <1>3, <1>6, PlaceStep DEF IInv
<1>8. Slot(Last) = Last
  BY <1>2, <1>3, SlotIsTheIndexes DEF IInv
<1>9. ~Another(Last, final.id, TRUE)
  BY <1>4, <1>6 DEF Another
<1>10. out' = Placed(meant, Last, final, Hole) /\ reused' = reused /\ slots' = With(slots, Last, Last)
  BY <1>1, <1>2, <1>8, <1>9 DEF PlaceItem
<1>11. /\ meant' \in Seq(Entry) /\ Len(meant') = Len(meant)
       /\ \A q \in 1..Len(meant) : meant'[q] = IF q = Last THEN final ELSE meant[q]
  BY <1>1, <1>2, <1>3, <1>6, ExceptSeq
<1>12. out' = meant'
  <2> DEFINE S == Entry \cup {Hole}
  <2>1. final \in S /\ Hole \in S /\ meant \in Seq(S) /\ meant' \in Seq(S)
    BY <1>2, <1>6, <1>11, SeqMonotonic
  <2> HIDE DEF S
  <2>2. out' \in Seq(S) /\ IsPlaced(out', meant, Last, final, Hole)
    BY <1>3, <1>10, <2>1, PlacedList
  <2>3. Len(meant) \in Nat
    BY <2>1, LenProperties
  <2>4. Len(out') = Len(meant') /\ \A q \in 1..Len(out') : out'[q] = meant'[q]
    BY <1>3, <1>11, <2>2, <2>3 DEF IsPlaced
  <2> QED BY <2>1, <2>2, <2>4, SeqEqual
<1>13. DOMAIN slots' = 1..Len(meant')
  BY <1>2, <1>3, <1>10, <1>11 DEF With
<1>14. \A q \in 1..Len(meant') : Whole(meant'[q].parts)
  BY <1>1, <1>6, <1>11 DEF IInv, Exact
<1>15. Exact'
  BY <1>1, <1>2, <1>10, <1>11, <1>12, <1>13, <1>14 DEF Exact
<1> QED BY <1>1, <1>7, <1>15 DEF IInv

(* The response and what was sent get the same parts. *)
LEMMA LawfulPartsStep ==
  ASSUME IInv, lawful, Last # 0, Folded', NEW parts, Said(parts, meant[Last].id), Whole(parts),
         out' = [out EXCEPT ![Last] = [@ EXCEPT !.parts = parts]], Mean(parts),
         UNCHANGED Bookkeeping, UNCHANGED <<lawful, open>>
  PROVE  IInv'
<1> DEFINE item == [meant[Last] EXCEPT !.parts = parts]
<1>1. /\ out = meant /\ reused = <<>> /\ meant \in Seq(Entry) /\ DOMAIN slots = 1..Len(meant)
      /\ \A p \in 1..Len(meant) : Whole(meant[p].parts)
  BY DEF IInv, Exact
<1>2. Last \in 1..Len(meant)
  BY LawfulLast
<1>3. meant[Last] \in Entry
  BY <1>1, <1>2, ElementOfSeq
<1>4. item \in Entry /\ item.parts = parts
  BY <1>3, EntryWithParts
<1>5. out' = [meant EXCEPT ![Last] = item] /\ meant' = [meant EXCEPT ![Last] = item]
  BY <1>1 DEF Mean
<1> HIDE DEF item
<1>6. /\ meant' \in Seq(Entry) /\ Len(meant') = Len(meant)
      /\ \A q \in 1..Len(meant) : meant'[q] = IF q = Last THEN item ELSE meant[q]
  BY <1>1, <1>2, <1>4, <1>5, ExceptSeq
<1>7. meant' # <<>>
  BY <1>2, <1>6, EmptySeq
<1>8. Exact'
  BY <1>1, <1>4, <1>5, <1>6, <1>7 DEF Exact, Bookkeeping
<1> QED BY <1>8 DEF IInv

LEMMA LawfulPartStep ==
  ASSUME IInv, LawfulPart
  PROVE  IInv'
<1> DEFINE kind == meant[Last].kind
           parts == Placed(Parts, Len(Parts) + 1, <<>>, PartHole)
<1>1. /\ lawful /\ open /\ SetPart(Last, kind, Len(Parts) + 1, <<>>) /\ Mean(Append(Parts, <<>>))
      /\ UNCHANGED <<lawful, open>>
  BY DEF LawfulPart, Lawful
<1>2. Last \in 1..Len(meant) /\ Last # 0
  BY <1>1, LawfulLast
<1>3. /\ Position(Last) = Last /\ out[Last] = meant[Last]
      /\ Fits(meant[Last]) /\ Whole(Parts)
  BY <1>1, <1>2, LawfulItem DEF Parts
<1>4. Said(Parts, meant[Last].id)
  BY <1>3 DEF Fits, Parts
<1>5. Len(Parts) \in Nat /\ Len(Parts) + 1 \in Nat /\ Len(Parts) + 1 # 0
  BY <1>4, LenProperties DEF Said
<1>6. Folded'
  <2>1. \A x : <<>> \in Seq(x)
    BY EmptySeq
  <2> QED BY <1>1, <1>5, <2>1, SetPartStep DEF IInv
<1>7. out' = [out EXCEPT ![Last] = [@ EXCEPT !.parts = parts]] /\ UNCHANGED Bookkeeping
  BY <1>1, <1>2, <1>3 DEF SetPart, UpdateParts, Parts, Bookkeeping
<1>8. Said(parts, meant[Last].id)
  BY <1>4, <1>5, EmptySeq, SaidPlaced
<1>9. parts = Append(Parts, <<>>) /\ Whole(parts)
  <2> DEFINE Texts == Seq({meant[Last].id, "hole"})
  <2>1. Parts \in Seq(Texts) /\ parts \in Seq(Texts)
    BY <1>4, <1>8 DEF Said
  <2>2. <<>> \in Texts /\ PartHole \in Texts
    BY EmptySeq DEF PartHole
  <2> HIDE DEF Texts
  <2>3. IsPlaced(parts, Parts, Len(Parts) + 1, <<>>, PartHole)
    BY <1>5, <2>1, <2>2, PlacedList
  <2>4. /\ Append(Parts, <<>>) \in Seq(Texts) /\ Len(Append(Parts, <<>>)) = Len(Parts) + 1
        /\ \A c \in 1..Len(Parts) + 1 :
             Append(Parts, <<>>)[c] = IF c = Len(Parts) + 1 THEN <<>> ELSE Parts[c]
    BY <1>5, <2>1, <2>2, AppendProperties
  <2> HIDE DEF parts
  <2>5. Len(parts) = Len(Append(Parts, <<>>)) /\ \A c \in 1..Len(parts) : parts[c] = Append(Parts, <<>>)[c]
    BY <1>5, <2>3, <2>4 DEF IsPlaced
  <2>6. parts = Append(Parts, <<>>)
    BY <2>1, <2>4, <2>5, SeqEqual
  <2>7. PartHole # <<>>
    BY DEF PartHole
  <2> QED BY <1>3, <1>5, <2>4, <2>6, <2>7 DEF Whole
<1> HIDE DEF parts
<1> QED BY <1>1, <1>2, <1>6, <1>7, <1>8, <1>9, LawfulPartsStep

(* What a delta adds to is no hole afterwards: it is the item's. *)
LEMMA WholeMore ==
  ASSUME NEW id \in Ids, NEW parts, Said(parts, id), Whole(parts), NEW c \in 1..Len(parts)
  PROVE  Whole([parts EXCEPT ![c] = Append(@, id)])
<1> DEFINE Texts == Seq({id, "hole"})
           text  == Append(parts[c], id)
<1>1. parts \in Seq(Texts)
  BY DEF Said
<1>2. parts[c] \in Texts
  BY <1>1, ElementOfSeq
<1>3. text \in Texts /\ text[Len(text)] = id /\ Len(text) = Len(parts[c]) + 1 /\ Len(parts[c]) \in Nat
  BY <1>2, AppendProperties, LenProperties
<1>4. id # "hole"
  BY HoleAssumption DEF Ids, NoID
<1> HIDE DEF Texts, text
<1>5. text # PartHole
  BY <1>3, <1>4 DEF PartHole
<1>6. /\ Len([parts EXCEPT ![c] = text]) = Len(parts)
      /\ \A d \in 1..Len(parts) : [parts EXCEPT ![c] = text][d] = IF d = c THEN text ELSE parts[d]
  BY <1>1, <1>3, ExceptSeq
<1> QED BY <1>5, <1>6 DEF Whole, text

LEMMA WholePadded ==
  ASSUME NEW id, NEW parts, Said(parts, id), Whole(parts)
  PROVE  Whole(Padded(parts, 1, <<>>))
<1> DEFINE Texts == Seq({id, "hole"})
<1>1. <<>> \in Texts /\ parts \in Seq(Texts)
  BY EmptySeq DEF Said
<1> HIDE DEF Texts
<1>2. IsPadded(Padded(parts, 1, <<>>), parts, 1, <<>>)
  BY <1>1, PaddedList
<1>3. Len(parts) \in Nat /\ PartHole # <<>>
  BY <1>1, LenProperties DEF PartHole
<1> QED BY <1>2, <1>3 DEF IsPadded, Whole

LEMMA LawfulDeltaStep ==
  ASSUME IInv, LawfulDelta
  PROVE  IInv'
<1>1. lawful /\ open /\ UNCHANGED <<lawful, open>>
  BY DEF LawfulDelta, Lawful
<1>2. Last \in 1..Len(meant) /\ Last # 0
  BY <1>1, LawfulLast
<1>3. /\ Position(Last) = Last /\ out[Last] = meant[Last] /\ meant[Last] \in Entry
      /\ Fits(meant[Last]) /\ Whole(Parts) /\ Chunk(Last) = meant[Last].id
  BY <1>1, <1>2, LawfulItem DEF Parts
<1>4. Said(Parts, meant[Last].id) /\ meant[Last].id \in Ids
  BY <1>3 DEF Fits, Parts, Entry
<1>5. CASE /\ meant[Last].kind = "function_call"
           /\ DeltaOnDemand(Last, "function_call", 1)
           /\ Mean(Saying(Padded(Parts, 1, <<>>), 1))
  <2> DEFINE grown == Padded(Parts, 1, <<>>)
             parts == Saying(grown, 1)
  <2>1. Folded'
    BY <1>5, DeltaOnDemandStep DEF IInv
  <2>2. out' = [out EXCEPT ![Last] = [@ EXCEPT !.parts = parts]] /\ UNCHANGED Bookkeeping
    BY <1>2, <1>3, <1>5 DEF DeltaOnDemand, UpdateParts, Parts, Bookkeeping, Saying
  <2>3. Said(grown, meant[Last].id) /\ 1 \in 1..Len(grown) /\ Whole(grown)
    BY <1>3, <1>4, SaidPadded, WholePadded
  <2>4. Mean(parts)
    BY <1>5
  <2> HIDE DEF grown
  <2>5. Said(parts, meant[Last].id) /\ Whole(parts)
    BY <1>4, <2>3, SaidMore, WholeMore DEF Saying
  <2> HIDE DEF parts
  <2> QED BY <1>1, <1>2, <2>1, <2>2, <2>4, <2>5, LawfulPartsStep
<1>6. CASE /\ meant[Last].kind # "function_call" /\ Parts # <<>>
           /\ DeltaInPart(Last, meant[Last].kind, Len(Parts))
           /\ Mean(Saying(Parts, Len(Parts)))
  <2> DEFINE parts == Saying(Parts, Len(Parts))
  <2>1. Folded'
    BY <1>6, DeltaInPartStep DEF IInv
  <2>2. Len(Parts) \in 1..Len(Parts)
    BY <1>4, <1>6, EmptySeq DEF Said
  <2>3. Parts[Len(Parts)] # PartHole
    BY <1>3, <2>2 DEF Whole
  <2>4. out' = [out EXCEPT ![Last] = [@ EXCEPT !.parts = parts]] /\ UNCHANGED Bookkeeping
    BY <1>2, <1>3, <1>6, <2>2, <2>3 DEF DeltaInPart, UpdateParts, Parts, Bookkeeping, Saying
  <2>5. Said(parts, meant[Last].id) /\ Whole(parts)
    BY <1>3, <1>4, <2>2, SaidMore, WholeMore DEF Saying
  <2>6. Mean(parts)
    BY <1>6
  <2> HIDE DEF parts
  <2> QED BY <1>1, <1>2, <2>1, <2>4, <2>5, <2>6, LawfulPartsStep
<1> QED BY <1>5, <1>6 DEF LawfulDelta

(* The arguments of a call are the item's, whether stated or restated. *)
LEMMA LawfulArgumentsDoneStep ==
  ASSUME IInv, LawfulArgumentsDone
  PROVE  IInv'
<1> DEFINE text == IF Parts = <<>> THEN <<meant[Last].id>> ELSE Parts[1]
           parts == Placed(Parts, 1, text, PartHole)
<1>1. /\ lawful /\ open /\ meant[Last].kind = "function_call"
      /\ SetPart(Last, "function_call", 1, text) /\ Mean(parts)
      /\ UNCHANGED <<lawful, open>>
  BY DEF LawfulArgumentsDone, Lawful, ArgumentsDone
<1>2. Last \in 1..Len(meant) /\ Last # 0
  BY <1>1, LawfulLast
<1>3. /\ Position(Last) = Last /\ out[Last] = meant[Last] /\ meant[Last] \in Entry
      /\ Fits(meant[Last]) /\ Whole(Parts)
  BY <1>1, <1>2, LawfulItem DEF Parts
<1>4. Said(Parts, meant[Last].id) /\ meant[Last].id \in Ids
  BY <1>3 DEF Fits, Parts, Entry
<1>5. PICK id : id = meant[Last].id
  OBVIOUS
<1> DEFINE Texts == Seq({id, "hole"})
<1>6. Parts \in Seq(Texts) /\ Len(Parts) \in Nat
  BY <1>4, <1>5, LenProperties DEF Said
<1>7. text \in Texts /\ text # PartHole
  <2>1. CASE Parts = <<>>
    <3>1. text = <<id>> /\ id # "hole"
      BY <1>4, <1>5, <2>1, HoleAssumption DEF Ids, NoID
    <3>2. <<id>> \in Seq({id, "hole"}) /\ (id # "hole" => <<id>> # <<"hole">>)
      OBVIOUS
    <3> HIDE DEF text
    <3> QED BY <3>1, <3>2 DEF PartHole
  <2>2. CASE Parts # <<>>
    <3>1. 1 \in 1..Len(Parts) /\ text = Parts[1]
      BY <1>6, <2>2, EmptySeq
    <3> HIDE DEF text, Texts
    <3> QED BY <1>3, <1>6, <3>1, ElementOfSeq DEF Whole
  <2> QED BY <2>1, <2>2
<1> HIDE DEF text
<1>8. Folded'
  BY <1>1, <1>3, <1>5, <1>7, SetPartStep DEF IInv
<1>9. out' = [out EXCEPT ![Last] = [@ EXCEPT !.parts = parts]] /\ UNCHANGED Bookkeeping
  BY <1>1, <1>2, <1>3 DEF SetPart, UpdateParts, Parts, Bookkeeping
<1>10. Said(parts, meant[Last].id)
  BY <1>4, <1>5, <1>7, SaidPlaced
<1>11. Whole(parts)
  <2> HIDE DEF Texts
  <2>1. PartHole \in Texts
    BY DEF Texts, PartHole
  <2>2. IsPlaced(parts, Parts, 1, text, PartHole)
    BY <1>6, <1>7, <2>1, PlacedList
  <2> HIDE DEF parts
  <2> QED BY <1>3, <1>6, <1>7, <2>2 DEF IsPlaced, Whole
<1> HIDE DEF parts
<1> QED BY <1>1, <1>2, <1>8, <1>9, <1>10, <1>11, LawfulPartsStep

(* Restating the text of a part changes nothing. *)
LEMMA LawfulTextDoneStep ==
  ASSUME IInv, LawfulTextDone
  PROVE  IInv'
<1>1. /\ lawful /\ open /\ UNCHANGED <<lawful, meant, open>> /\ Parts # <<>>
      /\ TextDone(Last, meant[Last].kind, Len(Parts), Parts[Len(Parts)])
  BY DEF LawfulTextDone, Lawful
<1>2. Last \in 1..Len(meant) /\ Last # 0
  BY <1>1, LawfulLast
<1>3. /\ Position(Last) = Last /\ out[Last] = meant[Last] /\ meant[Last] \in Entry
      /\ Fits(meant[Last]) /\ out \in Seq(Entry)
  BY <1>1, <1>2, LawfulItem DEF IInv, Exact
<1>4. Said(Parts, meant[Last].id)
  BY <1>3 DEF Fits, Parts
<1>5. Len(Parts) \in 1..Len(Parts)
  BY <1>1, <1>4, EmptySeq DEF Said
<1>6. Parts[Len(Parts)] \in Seq({meant[Last].id, "hole"})
  BY <1>4, <1>5, ElementOfSeq DEF Said
<1>7. Folded'
  BY <1>1, <1>3, <1>6, TextDoneStep DEF IInv
<1>8. UNCHANGED Bookkeeping
  BY <1>1 DEF TextDone, UpdateParts, Bookkeeping
<1>9. out' = out
  <2> DEFINE e == out[Last]
             c == Len(Parts)
  <2>1. e.parts = Parts /\ [e.parts EXCEPT ![c] = Parts[c]] = e.parts
    BY <1>3, <1>4, <1>5, LenProperties DEF Parts, Said
  <2>2. /\ e = [id |-> e.id, kind |-> e.kind, status |-> e.status, parts |-> e.parts]
        /\ [e EXCEPT !.parts = e.parts] = e
    BY <1>3 DEF Entry
  <2>3. \/ out' = out
        \/ out' = [out EXCEPT ![Last] = [e EXCEPT !.parts = e.parts]]
        \/ out' = [out EXCEPT ![Last] = [e EXCEPT !.parts = [e.parts EXCEPT ![c] = Parts[c]]]]
    BY <1>1, <1>2, <1>3 DEF TextDone, UpdateParts
  <2>4. out' = out \/ out' = [out EXCEPT ![Last] = e]
    BY <2>1, <2>2, <2>3
  <2> QED BY <1>2, <1>3, <2>4, LenProperties
<1>10. Exact'
  BY <1>1, <1>8, <1>9 DEF IInv, Exact, Bookkeeping
<1> QED BY <1>1, <1>7, <1>10 DEF IInv

LEMMA LawfulSnapshotStep ==
  ASSUME IInv, LawfulSnapshot
  PROVE  IInv'
<1>1. PICK list \in {<<>>, meant}, st \in {"in_progress", "completed"} :
        Snapshot(list, st) /\ (st = "completed" => list = meant)
  BY DEF LawfulSnapshot
<1>2. lawful /\ UNCHANGED <<lawful, meant, open>>
  BY DEF LawfulSnapshot, Lawful
<1>3. out = meant /\ reused = <<>> /\ meant \in Seq(Entry) /\ DOMAIN slots = 1..Len(meant)
  BY <1>2 DEF IInv, Exact
<1>4. list \in Seq(Fitting)
  <2>1. Len(meant) \in Nat /\ DOMAIN meant = 1..Len(meant) /\ meant = [p \in 1..Len(meant) |-> meant[p]]
    BY <1>3, LenProperties
  <2>2. \A p \in 1..Len(meant) : meant[p] \in Fitting
    BY <1>2, LawfulItem DEF Fitting
  <2>3. meant \in Seq(Fitting)
    BY <2>1, <2>2
  <2> QED BY <2>3, EmptySeq
<1>5. Folded'
  BY <1>1, <1>4, SnapshotStep DEF IInv
<1>6. reused' = reused /\ ~Extends(st)
  BY <1>1, <1>3 DEF Snapshot, Extends
<1>7. CASE Keeps(list, st)
  <2>1. out' = out /\ slots' = slots
    BY <1>1, <1>7 DEF Snapshot
  <2> QED BY <1>2, <1>5, <1>6, <2>1 DEF IInv, Exact
<1>8. CASE ~Keeps(list, st)
  <2>1. out' = list /\ slots' = [p \in 1..Len(list) |-> p]
    BY <1>1, <1>6, <1>8 DEF Snapshot
  <2>2. list = meant
    BY <1>1, <1>3, <1>8 DEF Keeps, Ended
  <2> QED BY <1>2, <1>5, <1>6, <2>1, <2>2 DEF IInv, Exact
<1> QED BY <1>7, <1>8

-----------------------------------------------------------------------------
LEMMA InitIInv == Init => IInv
<1> SUFFICES ASSUME Init PROVE IInv
  OBVIOUS
<1>1. /\ out = <<>> /\ slots = <<>> /\ named = <<>> /\ reused = <<>> /\ meant = <<>>
      /\ closed = {} /\ finished = {} /\ status = "none" /\ open = FALSE /\ lawful \in BOOLEAN
  BY DEF Init
<1>2. <<>> \in Seq(Entry \cup {Hole}) /\ <<>> \in Seq(Nat) /\ <<>> \in Seq(Entry) /\ Len(<<>>) = 0
  BY EmptySeq
<1>3. DOMAIN <<>> = {} /\ <<>> = [i \in {} |-> 0] /\ <<>> = [i \in {} |-> NoID]
  OBVIOUS
<1>4. Shape
  BY <1>1, <1>2, <1>3 DEF Shape
<1>5. TypeOK /\ Straight /\ SlotsAgree /\ AllFit /\ FinishedAreClosed
  BY <1>1, <1>2, <1>3 DEF TypeOK, Straight, SlotsAgree, AllFit, FinishedAreClosed
<1>6. Exact
  BY <1>1, <1>2, <1>3 DEF Exact
<1> QED BY <1>1, <1>4, <1>5, <1>6 DEF IInv, Folded

LEMMA NextIInv ==
  ASSUME IInv, [Next]_vars
  PROVE  IInv'
<1>1. CASE WildEvent
  <2>1. ~lawful /\ UNCHANGED <<lawful, meant, open>>
    BY <1>1 DEF WildEvent, Fold
  <2>2. Folded'
    BY <1>1, WildStep DEF WildEvent, IInv
  <2> QED BY <2>1, <2>2 DEF IInv, Exact
<1>2. CASE LawfulEvent
  BY <1>2, LawfulAddedStep, LawfulDoneStep, LawfulPartStep, LawfulDeltaStep, LawfulArgumentsDoneStep,
     LawfulTextDoneStep, LawfulSnapshotStep DEF LawfulEvent
<1>3. CASE UNCHANGED vars
  <2>1. Folded'
    BY <1>3, SameOutput DEF vars, accVars, serverVars, IInv, Bookkeeping
  <2> QED BY <1>3, <2>1 DEF vars, accVars, serverVars, IInv, Exact
<1> QED BY <1>1, <1>2, <1>3 DEF Next, StreamOver

(* Folded and Exact hold in every state, whatever the server sends. *)
THEOREM Invariance == Spec => []IInv
BY InitIInv, NextIInv, PTL DEF Spec

(* The bookkeeping always fits the output, whatever the server sends. *)
THEOREM BookkeepingFits == Spec => []TypeOK
<1>1. IInv => TypeOK
  BY DEF IInv, Folded
<1> QED BY <1>1, Invariance, PTL

(* Position names the item the server announced last at an index.      *)
THEOREM IndexesNameTheirItems == Spec => []IndexNamesItsItem
<1>1. ASSUME IInv PROVE IndexNamesItsItem
  <2> SUFFICES ASSUME NEW idx \in DOMAIN named
               PROVE  Position(idx) # 0 /\ out[Position(idx)].id = named[idx]
    BY DEF IndexNamesItsItem
  <2>1. idx \in DOMAIN slots
    BY <1>1 DEF IInv, Folded, Shape
  <2>2. slots[idx] \in 1..Len(out) /\ out[slots[idx]] # Hole /\ Len(out) \in Nat
    BY <1>1, <2>1, LenProperties DEF IInv, Folded, TypeOK, Shape
  <2>3. Position(idx) = slots[idx]
    BY <2>1, <2>2 DEF Position
  <2> QED BY <1>1, <2>1, <2>2, <2>3 DEF IInv, Folded, SlotsAgree
<1> QED BY <1>1, Invariance, PTL

(* No delta is spliced into another item than the one it was sent for. *)
THEOREM NoDeltaElsewhere == Spec => []DeltasStayWithTheirItem
<1>1. ASSUME IInv PROVE DeltasStayWithTheirItem
  <2> SUFFICES ASSUME NEW p \in 1..Len(out), NEW c \in 1..Len(out[p].parts),
                      NEW k \in 1..Len(out[p].parts[c])
               PROVE  out[p].parts[c][k] \in {out[p].id, "hole"}
    BY DEF DeltasStayWithTheirItem
  <2>1. out[p].parts \in Seq(Seq({out[p].id, "hole"}))
    BY <1>1 DEF IInv, Folded, AllFit, Fits, Said
  <2>2. out[p].parts[c] \in Seq({out[p].id, "hole"})
    BY <2>1, ElementOfSeq
  <2> QED BY <2>2, ElementOfSeq
<1> QED BY <1>1, Invariance, PTL

(* A later item at the index of a finished one does not take its place. *)
THEOREM FinishedItemsStay == Spec => []FinishedItemsAreKept
<1>1. IInv => FinishedItemsAreKept
  BY DEF IInv, Folded, FinishedAreClosed, TypeOK, FinishedItemsAreKept
<1> QED BY <1>1, Invariance, PTL

(* The response is exactly what a stream that follows the lifecycle said. *)
THEOREM FoldIsExact == Spec => []LawfulStreamsFoldExactly
<1>1. ASSUME IInv PROVE LawfulStreamsFoldExactly
  BY <1>1, LawfulItem DEF LawfulStreamsFoldExactly, IInv, Exact
<1> QED BY <1>1, Invariance, PTL
=============================================================================
