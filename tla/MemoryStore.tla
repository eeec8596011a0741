----------------------------- MODULE MemoryStore -----------------------------
(***************************************************************************)
(* openresponses.MemoryStore (src/store.go): the histories of the most     *)
(* recent responses, up to a capacity.  Every method holds the mutex from  *)
(* its first line to its last, so an operator here is one atomic step of   *)
(* whoever calls it.  The modules of the callers own the variable.         *)
(***************************************************************************)
EXTENDS Naturals, Sequences

IdsOf(order) == {order[k] : k \in 1..Len(order)}

(* MemoryStore: ids, oldest first, and the history of each. *)
EmptyStore == [order |-> <<>>, items |-> [id \in {} |-> <<>>]]

(* Load's ok and history. *)
Holds(store, id)   == id \in DOMAIN store.items
History(store, id) == store.items[id]

-----------------------------------------------------------------------------
(* Mutants: the oldest entry goes one entry early, or one entry late. *)
EvictedEarly(order, capacity) ==
  IF Len(order) < capacity THEN order
  ELSE SubSeq(order, Len(order) - capacity + 2, Len(order))

EvictedLate(order, capacity) ==
  IF Len(order) <= capacity + 1 THEN order
  ELSE SubSeq(order, Len(order) - capacity, Len(order))

(* The eviction loop of Save: drop from the front while over capacity. *)
Evicted(order, capacity) ==
  IF Len(order) <= capacity THEN order
  ELSE SubSeq(order, Len(order) - capacity + 1, Len(order))

(* Save: an id already present keeps its place in the order. *)
Saved(store, id, history, capacity) ==
  LET order == Evicted(IF Holds(store, id) THEN store.order ELSE Append(store.order, id), capacity)
  IN  [ order |-> order,
        items |-> [i \in IdsOf(order) |-> IF i = id THEN history ELSE store.items[i]] ]

(* Mutant: Delete forgets the history and leaves the id in the order. *)
DeletedHistoryOnly(store, id) ==
  [ order |-> store.order,
    items |-> [i \in DOMAIN store.items \ {id} |-> store.items[i]] ]

(* Delete: of an id that is not there, nothing.  An id is in the order once. *)
Deleted(store, id) ==
  IF ~Holds(store, id) THEN store
  ELSE LET at == CHOOSE k \in 1..Len(store.order) : store.order[k] = id
       IN  [ order |-> SubSeq(store.order, 1, at - 1)
                         \o SubSeq(store.order, at + 1, Len(store.order)),
             items |-> [i \in DOMAIN store.items \ {id} |-> store.items[i]] ]
=============================================================================
