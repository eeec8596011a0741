--------------------------- MODULE WebSocketProofs ---------------------------
(***************************************************************************)
(* The safety properties of WebSocketSession, for every number of turns,   *)
(* every size of the connection's memory and every set of settings.        *)
(*                                                                         *)
(* IInv has four parts.  Types.  Order: the turns that are on their way    *)
(* come in the order they were sent.  Server: what was told of each turn,  *)
(* what the two stores hold and what the session is doing agree.  Reading: *)
(* what the client has not read yet, and how each Turn ended.              *)
(***************************************************************************)
EXTENDS WebSocketSession, SequenceTheorems, TLAPS

Active  == {"resolving", "running", "returned", "errored", "saving"}
Working == Active \ {"resolving"}
Last    == Terminal \cup {Unnamed}

-----------------------------------------------------------------------------
Request == [prev: 0..MaxTurns + 1, store: BOOLEAN, bad: BOOLEAN]
TurnSink == [ acc: [held: BOOLEAN, id: BOOLEAN, status: Status], terminal: BOOLEAN,
              failed: BOOLEAN, sent: Nat ]

StoreOK(store, S) ==
  /\ store.order \in Seq(S)
  /\ DOMAIN store.items = Store!IdsOf(store.order)

Ascending(order) == \A j, k \in 1..Len(order) : j < k => order[j] < order[k]

Types ==
  /\ TypeOK
  /\ set \in Settings /\ Len(req) <= MaxTurns
  /\ sink \in TurnSink
  /\ StoreOK(cache, Turn) /\ Ascending(cache.order)
  /\ StoreOK(shared, Ids)

(* The turns under way: the session's, the reader's, those sent. *)
Order ==
  /\ turn <= Len(req)
  /\ pc \in Active => turn > 0
  /\ reader = "parked" => turn < ahead /\ ahead <= Len(req)
  /\ \A i \in 1..Len(up) : up[i] # Pong =>
       /\ turn < up[i] /\ up[i] <= Len(req)
       /\ reader = "parked" => ahead < up[i]
       /\ \A j \in 1..Len(up) : i < j /\ up[j] # Pong => up[i] < up[j]

-----------------------------------------------------------------------------
(* Server. *)

InStore(t) == t \in DOMAIN cache.items \/ t \in DOMAIN shared.items

(* Nothing is known of a turn before its time. *)
Fresh ==
  \A t \in Turn :
    /\ t > turn \/ (t = turn /\ pc = "resolving") => told[t] = <<>>
    /\ t > turn \/ (t = turn /\ pc \in Active) => ~InStore(t)

PrevIsEarlier == \A t \in Sent : req[t].prev < t \/ req[t].prev = Elsewhere

Whole(h, id) == h \in Seq(Ids) /\ h[1] \in Sent \cup {Elsewhere} /\ IsConversation(h, id)

Conversations ==
  /\ \A id \in DOMAIN cache.items  : Whole(cache.items[id], id)
  /\ \A id \in DOMAIN shared.items : Whole(shared.items[id], id)
  /\ pc = "resolving" => conv = <<turn>>
  /\ pc \in Working => Whole(conv, turn) /\ (resolved => req[turn].prev # None)

(* Types the frames of t up to n do not have. *)
Without(t, n) == \A k \in 1..n : told[t][k] \notin Last

(* The sink knows what the client was told of the turn. *)
Outcome ==
  /\ pc = "resolving" => ~sink.terminal /\ ~sink.failed /\ ~resolved
  /\ pc \in Working =>
    /\ sink.failed => ~sink.terminal
    /\ ~sink.terminal => pc # "saving" /\ Without(turn, Len(told[turn]))
    /\ sink.terminal =>
         LET n == Len(told[turn]) IN
         /\ n > 0 /\ Without(turn, n - 1)
         /\ \/ told[turn][n] \in {"response.completed", "response.incomplete"} /\ IsSaved
            \/ told[turn][n] \in {"response.failed", Unnamed} /\ ~IsSaved

(* What was finished is remembered, forgotten on purpose or too old. *)
Remembered ==
  \A p \in Turn :
    Finished(p) /\ ~(p = turn /\ pc \in Active) =>
      p \in DOMAIN cache.items \/ p \in dropped \/ MadeRoom(p)

Server ==
  /\ Fresh /\ PrevIsEarlier /\ Conversations /\ Outcome /\ Remembered
  /\ NothingFollowsTheTerminalEvent /\ SavedResponsesWereSent /\ ContinuationFound

-----------------------------------------------------------------------------
(* Reading. *)

Unread ==
  \A i \in 1..Len(down) :
    LET u == down[i].turn IN
    /\ u = 0 => down[i].type \in {"ping", "limit"}
    /\ u # 0 =>
         /\ u \in Sent
         /\ down[i].type \in TurnEnd => Tells(u, TurnEnd)
         /\ result[u].turn = u => Overrun(u)
         /\ \A j \in 1..Len(down) :
              i < j /\ down[j].turn = u /\ down[i].type \in TurnEnd => Overrun(u)

Results ==
  /\ mode = "turn" => Len(req) > 0
  /\ \A t \in Turn : t > Len(req) => result[t].turn = 0 /\ result[t].type = "none"
  /\ \A t \in Sent :
    /\ result[t].turn = t => Tells(t, TurnEnd)
    /\ result[t].turn = 0 => result[t].type \in {"none", "failed", "cancelled", "limit"}
    /\ t < Len(req) \/ (mode = "idle" /\ link = "open") => result[t].type \notin {"none", "failed"}

Reading == Unread /\ Results /\ TurnsDoNotMix

IInv == Types /\ Order /\ Server /\ Reading
-----------------------------------------------------------------------------
(***************************************************************************)
(* The stores.                                                             *)
(***************************************************************************)
LEMMA EvictedEnd ==
  ASSUME NEW S, NEW o \in Seq(S), NEW c \in Nat \ {0}
  PROVE  LET e == Store!Evicted(o, c) IN
         /\ e \in Seq(S)
         /\ Len(e) = IF Len(o) <= c THEN Len(o) ELSE c
         /\ \A k \in 1..Len(e) : e[k] = o[Len(o) - Len(e) + k]
<1>1. CASE Len(o) <= c
  BY <1>1 DEF Store!Evicted
<1>2. CASE ~(Len(o) <= c)
  <2> DEFINE m == Len(o) - c + 1
             n == Len(o)
  <2>1. m \in 1..n /\ n - m + 1 = c /\ n \in Nat /\ m \in Nat
    BY <1>2
  <2>2. Store!Evicted(o, c) = SubSeq(o, m, n)
    BY <1>2 DEF Store!Evicted
  <2>3. \A i \in m..n : o[i] \in S
    BY <2>1
  <2>4. /\ SubSeq(o, m, n) \in Seq(S) /\ Len(SubSeq(o, m, n)) = c
        /\ \A k \in 1..c : SubSeq(o, m, n)[k] = o[m + k - 1]
    BY <2>1, <2>3, SubSeqProperties
  <2>5. \A k \in 1..c : m + k - 1 = Len(o) - c + k
    BY <2>1
  <2> HIDE DEF m, n
  <2> QED BY <1>2, <2>2, <2>4, <2>5
<1> QED BY <1>1, <1>2

(* What is saved: the entry, and entries there were. *)
LEMMA SavedStore ==
  ASSUME NEW S, NEW st, StoreOK(st, S), NEW id \in S, NEW h, NEW c \in Nat \ {0}
  PROVE  LET s == Store!Saved(st, id, h, c) IN
         /\ StoreOK(s, S) /\ Len(s.order) <= c
         /\ DOMAIN s.items \subseteq DOMAIN st.items \cup {id}
         /\ \A i \in DOMAIN s.items : s.items[i] = IF i = id THEN h ELSE st.items[i]
<1> DEFINE o == IF Store!Holds(st, id) THEN st.order ELSE Append(st.order, id)
           e == Store!Evicted(o, c)
<1>1. o \in Seq(S) /\ Store!IdsOf(o) \subseteq DOMAIN st.items \cup {id}
  BY DEF StoreOK, Store!IdsOf
<1> HIDE DEF o
<1>2. /\ e \in Seq(S) /\ Len(e) = IF Len(o) <= c THEN Len(o) ELSE c
      /\ \A k \in 1..Len(e) : e[k] = o[Len(o) - Len(e) + k]
  BY <1>1, EvictedEnd
<1>3. Len(o) \in Nat
  BY <1>1
<1> HIDE DEF e
<1>4. \A k \in 1..Len(e) : Len(o) - Len(e) + k \in 1..Len(o)
  BY <1>2, <1>3
<1>5. Store!IdsOf(e) \subseteq Store!IdsOf(o)
  BY <1>2, <1>4 DEF Store!IdsOf
<1>6. Store!Saved(st, id, h, c) =
        [ order |-> e,
          items |-> [i \in Store!IdsOf(e) |-> IF i = id THEN h ELSE st.items[i]] ]
  BY DEF Store!Saved, o, e
<1> QED BY <1>1, <1>2, <1>3, <1>5, <1>6 DEF StoreOK

(* Saved under a new, highest id: what goes makes room for c higher ones. *)
LEMMA SavedInOrder ==
  ASSUME NEW S \in SUBSET Nat, NEW st, StoreOK(st, S), Ascending(st.order),
         NEW id \in S, NEW h, NEW c \in Nat \ {0}, \A i \in DOMAIN st.items : i < id
  PROVE  LET s == Store!Saved(st, id, h, c) IN
         /\ Ascending(s.order) /\ id \in DOMAIN s.items
         /\ \A p \in DOMAIN st.items :
              p \in DOMAIN s.items
                \/ (Len(s.order) = c /\ \A k \in 1..c : s.order[k] > p)
<1> DEFINE o == Append(st.order, id)
           e == Store!Evicted(o, c)
           s == Store!Saved(st, id, h, c)
           n == Len(o)
<1>1. /\ o \in Seq(S) /\ n \in Nat /\ n > 0 /\ n = Len(st.order) + 1 /\ o[n] = id
      /\ \A k \in 1..(n - 1) : o[k] = st.order[k] /\ o[k] \in DOMAIN st.items
      /\ \A k \in 1..n : o[k] \in Nat
  <2>1. st.order \in Seq(S) /\ Len(st.order) \in Nat
    BY DEF StoreOK
  <2>2. /\ o \in Seq(S) /\ n = Len(st.order) + 1 /\ o[n] = id
        /\ \A k \in 1..Len(st.order) : o[k] = st.order[k]
    BY <2>1
  <2>3. \A k \in 1..Len(st.order) : o[k] \in DOMAIN st.items
    BY <2>2 DEF StoreOK, Store!IdsOf
  <2>4. \A k \in 1..n : o[k] \in S
    BY <2>2
  <2> HIDE DEF o, n
  <2>5. n - 1 = Len(st.order) /\ n \in Nat /\ n > 0
    BY <2>1, <2>2
  <2> QED BY <2>1, <2>2, <2>3, <2>4, <2>5
<1>2. Ascending(o)
  <2> SUFFICES ASSUME NEW j \in 1..n, NEW k \in 1..n, j < k
               PROVE  o[j] < o[k]
    BY DEF Ascending
  <2>1. j \in 1..(n - 1)
    BY <1>1
  <2>2. CASE k = n
    BY <1>1, <2>1, <2>2
  <2>3. CASE k # n
    <3>1. k \in 1..(n - 1)
      BY <1>1, <2>3
    <3>2. st.order[j] < st.order[k]
      BY <1>1, <2>1, <3>1 DEF Ascending
    <3> QED BY <1>1, <2>1, <3>1, <3>2
  <2> QED BY <2>2, <2>3
<1>3. s.order = e /\ DOMAIN s.items = Store!IdsOf(e)
  BY DEF Store!Saved, Store!Holds
<1> HIDE DEF o, s
<1>4. /\ e \in Seq(S) /\ Len(e) = IF n <= c THEN n ELSE c
      /\ \A k \in 1..Len(e) : e[k] = o[n - Len(e) + k]
  <2>1. o \in Seq(S)
    BY <1>1
  <2>2. /\ e \in Seq(S) /\ Len(e) = IF Len(o) <= c THEN Len(o) ELSE c
        /\ \A k \in 1..Len(e) : e[k] = o[Len(o) - Len(e) + k]
    BY <2>1, EvictedEnd
  <2> QED BY <2>2
<1> DEFINE m == Len(e)
<1> HIDE DEF e, n
<1>10. n \in Nat /\ n > 0
  BY <1>1
<1>5. /\ m \in Nat /\ m > 0 /\ m <= n /\ m = IF n <= c THEN n ELSE c
      /\ \A k \in 1..m : e[k] = o[n - m + k]
  BY <1>10, <1>4
<1> HIDE DEF m
<1>6. \A k \in 1..m : n - m + k \in 1..n
  BY <1>10, <1>5
<1>7. Ascending(e)
  <2> SUFFICES ASSUME NEW j \in 1..m, NEW k \in 1..m, j < k
               PROVE  e[j] < e[k]
    BY DEF Ascending, m
  <2>1. n - m + j \in 1..n /\ n - m + k \in 1..n /\ n - m + j < n - m + k
    BY <1>10, <1>5, <1>6
  <2>2. o[n - m + j] < o[n - m + k]
    BY <1>2, <2>1 DEF Ascending, n
  <2> QED BY <1>5, <2>2
<1>8. id \in Store!IdsOf(e)
  <2>1. m \in 1..m /\ n - m + m = n
    BY <1>10, <1>5
  <2>2. e[m] = id
    <3>1. o[n] = id
      BY <1>1
    <3>2. e[m] = o[n]
      BY <1>10, <1>5, <2>1
    <3> QED BY <3>1, <3>2
  <2> QED BY <2>1, <2>2 DEF Store!IdsOf, m
<1>9. ASSUME NEW p \in DOMAIN st.items, p \notin Store!IdsOf(e)
      PROVE  m = c /\ \A k \in 1..c : e[k] > p
  <2>1. PICK q \in 1..(n - 1) : o[q] = p
    <3>1. PICK q \in 1..Len(st.order) : st.order[q] = p
      BY DEF StoreOK, Store!IdsOf
    <3> QED BY <1>1, <3>1
  <2>2. ~(q > n - m)
    <3> SUFFICES ASSUME q > n - m
                 PROVE  FALSE
      OBVIOUS
    <3>1. q - (n - m) \in 1..m /\ n - m + (q - (n - m)) = q
      BY <1>10, <1>5
    <3>2. e[q - (n - m)] = o[q]
      BY <1>5, <3>1
    <3> QED BY <1>9, <2>1, <3>1, <3>2 DEF Store!IdsOf, m
  <2>3. m = c
    <3>1. n - m > 0
      BY <1>10, <1>5, <2>2
    <3> QED BY <1>10, <1>5, <3>1
  <2>4. ASSUME NEW k \in 1..m
        PROVE  e[k] > p
    <3>1. n - m + k \in 1..n /\ q \in 1..n /\ q < n - m + k
      BY <1>10, <1>5, <2>2
    <3>2. o[q] < o[n - m + k]
      BY <1>2, <3>1 DEF Ascending, n
    <3>3. o[q] \in Nat /\ o[n - m + k] \in Nat
      BY <1>1, <3>1
    <3> QED BY <1>5, <2>1, <3>2, <3>3
  <2> QED BY <2>3, <2>4
<1> QED BY <1>3, <1>7, <1>8, <1>9 DEF s, m

(* Deleting takes the entry, and leaves the others in their order. *)
LEMMA DeletedStore ==
  ASSUME NEW S \in SUBSET Nat, NEW st, StoreOK(st, S), Ascending(st.order), NEW id
  PROVE  LET s == Store!Deleted(st, id) IN
         /\ StoreOK(s, S) /\ Ascending(s.order) /\ Len(s.order) <= Len(st.order)
         /\ DOMAIN s.items = DOMAIN st.items \ {id}
         /\ \A i \in DOMAIN s.items : s.items[i] = st.items[i]
<1>1. CASE id \notin DOMAIN st.items
  BY <1>1 DEF Store!Deleted, Store!Holds, StoreOK
<1>2. CASE id \in DOMAIN st.items
  <2> DEFINE o  == st.order
             at == CHOOSE k \in 1..Len(o) : o[k] = id
             l  == SubSeq(o, 1, at - 1)
             r  == SubSeq(o, at + 1, Len(o))
             n  == Len(o)
             d  == l \o r
             s  == Store!Deleted(st, id)
  <2>1. at \in 1..n /\ o[at] = id
    <3>1. \E k \in 1..n : o[k] = id
      BY <1>2 DEF StoreOK, Store!IdsOf
    <3> QED BY <3>1
  <2>2. s = [ order |-> d, items |-> [i \in DOMAIN st.items \ {id} |-> st.items[i]] ]
    BY <1>2 DEF Store!Deleted, Store!Holds
  <2>3. o \in Seq(S) /\ n \in Nat /\ \A k \in 1..n : o[k] \in S
    BY DEF StoreOK
  <2>4. /\ l \in Seq(S) /\ Len(l) = at - 1
        /\ \A k \in 1..(at - 1) : l[k] = o[k]
    <3> DEFINE a == at - 1
    <3> HIDE DEF at
    <3>1. a \in Int /\ a >= 0 /\ \A i \in 1..a : o[i] \in S
      BY <2>1, <2>3
    <3> HIDE DEF a
    <3>2. /\ SubSeq(o, 1, a) \in Seq(S) /\ Len(SubSeq(o, 1, a)) = IF 1 <= a THEN a - 1 + 1 ELSE 0
          /\ \A i \in 1..(a - 1 + 1) : SubSeq(o, 1, a)[i] = o[1 + i - 1]
      BY <3>1, SubSeqProperties
    <3>3. \A i \in 1..a : i \in 1..(a - 1 + 1) /\ 1 + i - 1 = i
      BY <3>1
    <3>4. Len(SubSeq(o, 1, a)) = a
      BY <3>1, <3>2
    <3> QED BY <3>2, <3>3, <3>4 DEF a
  <2>5. /\ r \in Seq(S) /\ Len(r) = n - at
        /\ \A k \in 1..(n - at) : r[k] = o[at + k]
    <3> DEFINE b == at + 1
    <3> HIDE DEF at
    <3>1. b \in Int /\ at \in Int /\ \A i \in b..n : o[i] \in S
      BY <2>1, <2>3
    <3>2. b <= n + 1
      BY <2>1, <2>3
    <3>3. b = at + 1
      OBVIOUS
    <3> HIDE DEF b, n
    <3>4. /\ SubSeq(o, b, n) \in Seq(S) /\ Len(SubSeq(o, b, n)) = IF b <= n THEN n - b + 1 ELSE 0
          /\ \A i \in 1..(n - b + 1) : SubSeq(o, b, n)[i] = o[b + i - 1]
      BY <2>3, <3>1, SubSeqProperties
    <3>5. \A i \in 1..(n - at) : i \in 1..(n - b + 1) /\ b + i - 1 = at + i
      BY <2>3, <3>1, <3>3
    <3>6. Len(SubSeq(o, b, n)) = n - at
      BY <2>3, <3>1, <3>2, <3>3, <3>4
    <3> QED BY <3>4, <3>5, <3>6 DEF b, n
  <2> HIDE DEF at, l, r
  <2>6. /\ d \in Seq(S) /\ Len(d) = n - 1
        /\ \A k \in 1..(n - 1) : d[k] = IF k < at THEN o[k] ELSE o[k + 1]
    <3>1. /\ d \in Seq(S) /\ Len(d) = Len(l) + Len(r)
          /\ \A i \in 1..(Len(l) + Len(r)) : d[i] = IF i <= Len(l) THEN l[i] ELSE r[i - Len(l)]
      BY <2>4, <2>5, ConcatProperties
    <3>2. Len(l) + Len(r) = n - 1
      BY <2>1, <2>3, <2>4, <2>5
    <3>3. ASSUME NEW k \in 1..(n - 1)
          PROVE  d[k] = IF k < at THEN o[k] ELSE o[k + 1]
      <4>1. CASE k < at
        BY <2>1, <2>3, <2>4, <3>1, <3>2, <3>3, <4>1
      <4>2. CASE ~(k < at)
        <5>1. k - Len(l) \in 1..(n - at) /\ at + (k - Len(l)) = k + 1 /\ ~(k <= Len(l))
          BY <2>1, <2>3, <2>4, <4>2
        <5> QED BY <2>5, <3>1, <3>2, <4>2, <5>1
      <4> QED BY <4>1, <4>2
    <3> QED BY <3>1, <3>2, <3>3
  <2> HIDE DEF d
  <2>7. Ascending(d)
    <3> SUFFICES ASSUME NEW j \in 1..(n - 1), NEW k \in 1..(n - 1), j < k
                 PROVE  d[j] < d[k]
      BY <2>6 DEF Ascending
    <3> DEFINE jj == IF j < at THEN j ELSE j + 1
               kk == IF k < at THEN k ELSE k + 1
    <3>1. jj \in 1..n /\ kk \in 1..n /\ jj < kk
      BY <2>1, <2>3
    <3>2. o[jj] < o[kk]
      BY <3>1 DEF Ascending
    <3> QED BY <2>6, <3>2
  <2>8. Store!IdsOf(d) = DOMAIN st.items \ {id}
    <3>1. ASSUME NEW k \in 1..(n - 1)
          PROVE  d[k] \in DOMAIN st.items \ {id}
      <4> DEFINE kk == IF k < at THEN k ELSE k + 1
      <4>1. kk \in 1..n /\ (kk < at \/ at < kk) /\ d[k] = o[kk]
        BY <2>1, <2>3, <2>6
      <4> HIDE DEF kk
      <4>2. o[kk] < o[at] \/ o[at] < o[kk]
        BY <2>1, <4>1 DEF Ascending
      <4>3. o[kk] \in Nat /\ o[at] \in Nat
        BY <2>1, <2>3, <4>1
      <4> QED BY <2>1, <4>1, <4>2, <4>3 DEF StoreOK, Store!IdsOf
    <3>2. ASSUME NEW p \in DOMAIN st.items \ {id}
          PROVE  \E k \in 1..(n - 1) : d[k] = p
      <4>1. PICK q \in 1..n : o[q] = p
        BY DEF StoreOK, Store!IdsOf
      <4>2. q # at
        BY <2>1, <4>1
      <4>3. CASE q < at
        BY <2>1, <2>3, <2>6, <4>1, <4>3
      <4>4. CASE at < q
        <5>1. q - 1 \in 1..(n - 1) /\ ~(q - 1 < at) /\ (q - 1) + 1 = q
          BY <2>1, <2>3, <4>4
        <5> QED BY <2>6, <4>1, <5>1
      <4> QED BY <2>1, <4>2, <4>3, <4>4
    <3> QED BY <2>6, <3>1, <3>2 DEF Store!IdsOf
  <2>9. Len(d) <= n
    BY <2>3, <2>6
  <2> HIDE DEF s
  <2>10. s.order = d /\ DOMAIN s.items = DOMAIN st.items \ {id}
         /\ \A i \in DOMAIN s.items : s.items[i] = st.items[i]
    BY <2>2
  <2> QED BY <2>6, <2>7, <2>8, <2>9, <2>10 DEF StoreOK, s
<1> QED BY <1>1, <1>2
-----------------------------------------------------------------------------
(***************************************************************************)
(* What was told of a turn: frames are added at its end.                   *)
(***************************************************************************)
LEMMA Appended ==
  ASSUME Types, NEW t \in Turn, NEW x \in FrameType, told' = [told EXCEPT ![t] = Append(@, x)]
  PROVE  /\ told' \in [Turn -> Seq(FrameType)]
         /\ \A u \in Turn : u # t => told'[u] = told[u]
         /\ Len(told[t]) \in Nat /\ Len(told'[t]) = Len(told[t]) + 1
         /\ \A k \in 1..Len(told[t]) : told'[t][k] = told[t][k]
         /\ told'[t][Len(told[t]) + 1] = x
<1>1. told \in [Turn -> Seq(FrameType)] /\ told[t] \in Seq(FrameType)
  BY DEF Types, TypeOK
<1>2. told'[t] = Append(told[t], x) /\ \A u \in Turn : u # t => told'[u] = told[u]
  BY <1>1
<1>3. Append(told[t], x) \in Seq(FrameType)
  BY <1>1
<1>4. told' \in [Turn -> Seq(FrameType)]
  BY <1>1, <1>3
<1> QED BY <1>1, <1>2, <1>4

LEMMA TellsMore ==
  ASSUME Types, NEW t \in Turn, NEW x \in FrameType, told' = [told EXCEPT ![t] = Append(@, x)]
  PROVE  \A u \in Turn : \A types :
           Tells(u, types)' <=> Tells(u, types) \/ (u = t /\ x \in types)
<1> SUFFICES ASSUME NEW u \in Turn, NEW types
             PROVE  Tells(u, types)' <=> Tells(u, types) \/ (u = t /\ x \in types)
  OBVIOUS
<1>1. CASE u # t
  BY <1>1, Appended DEF Tells
<1>2. CASE u = t
  <2> DEFINE n == Len(told[t])
  <2>1. /\ n \in Nat /\ Len(told'[t]) = n + 1 /\ \A k \in 1..n : told'[t][k] = told[t][k]
        /\ told'[t][n + 1] = x
    BY Appended
  <2> HIDE DEF n
  <2>2. \A k \in 1..(n + 1) : k \in 1..n \/ k = n + 1
    BY <2>1
  <2>3. n + 1 \in 1..(n + 1) /\ \A k \in 1..n : k \in 1..(n + 1)
    BY <2>1
  <2>4. Tells(t, types) <=> \E k \in 1..n : told[t][k] \in types
    BY DEF Tells, n
  <2>5. Tells(t, types)' <=> \E k \in 1..(n + 1) : told'[t][k] \in types
    BY <2>1 DEF Tells
  <2> QED BY <1>2, <2>1, <2>2, <2>3, <2>4, <2>5
<1> QED BY <1>1, <1>2

LEMMA RoomKept ==
  ASSUME NEW p, MadeRoom(p), Sent \subseteq Sent',
         \A q \in Sent : Finished(q) => Finished(q)'
  PROVE  MadeRoom(p)'
<1>1. PICK Q \in SUBSET {q \in Sent : q > p /\ Finished(q)} :
        Q # {} /\ \E f \in [1..CacheSize -> Q] : \A i, j \in 1..CacheSize : i # j => f[i] # f[j]
  BY DEF MadeRoom
<1>2. Q \in SUBSET {q \in Sent' : q > p /\ Finished(q)'}
  BY <1>1
<1> QED BY <1>1, <1>2 DEF MadeRoom

(* A conversation stays one when turns are added. *)
LEMMA WholeKept ==
  ASSUME Types, NEW h, NEW id, Whole(h, id), Sent \subseteq Sent', set' = set,
         \A t \in Sent : req'[t] = req[t]
  PROVE  Whole(h, id)'
<1>1. Elsewhere \notin Sent
  BY SettingsAssumption DEF Types, TypeOK, Sent, Elsewhere
<1>2. Starts(h[1])'
  BY <1>1 DEF Whole, IsConversation, Starts
<1> QED BY <1>2 DEF Whole, IsConversation
-----------------------------------------------------------------------------
(***************************************************************************)
(* Server, step by step.                                                   *)
(***************************************************************************)
storedVars == <<cache, shared, dropped>>

(* The session, if it is running a turn, and what is known stay. *)
LEMMA ServerElsewhere ==
  ASSUME Types, Server, UNCHANGED <<set, req, turn, told, sink, conv, resolved, storedVars>>,
         pc' = pc \/ (pc \notin Active /\ pc' \notin Active)
  PROVE  Server'
<1> USE DEF storedVars, Active, Working
<1>1. Fresh' /\ PrevIsEarlier'
  BY DEF Server, Fresh, PrevIsEarlier, Sent, InStore
<1>2. Conversations'
  BY DEF Server, Conversations, Whole, IsConversation, Starts, Sent
<1>3. Outcome'
  BY DEF Server, Outcome, Without, IsSaved
<1>4. Remembered'
  BY DEF Server, Remembered, Finished, Tells, MadeRoom, Sent
<1>5. NothingFollowsTheTerminalEvent'
  BY DEF Server, NothingFollowsTheTerminalEvent
<1>6. SavedResponsesWereSent'
  BY DEF Server, SavedResponsesWereSent, Finished, Tells
<1>7. ContinuationFound'
  <2>1. Sent' = Sent /\ \A p : Finished(p)' <=> Finished(p)
    BY DEF Sent, Finished, Tells
  <2>2. \A p : MadeRoom(p) => MadeRoom(p)'
    BY <2>1, RoomKept
  <2> QED BY <2>1, <2>2 DEF Server, ContinuationFound, Tells
<1> QED BY <1>1, <1>2, <1>3, <1>4, <1>5, <1>6, <1>7 DEF Server

LEMMA ServerSend ==
  ASSUME Types, Types', Order, Server, UNCHANGED <<set, pc, turn, told, sink, conv, resolved, storedVars>>,
         NEW r \in Request, req' = Append(req, r), Known(r.prev) \/ r.prev = None
  PROVE  Server'
<1> USE DEF storedVars
<1>1. /\ Len(req) \in Nat /\ Len(req') = Len(req) + 1 /\ req'[Len(req) + 1] = r
      /\ \A t \in Sent : req'[t] = req[t]
  BY DEF Types, TypeOK, Sent
<1>2. Sent \subseteq Sent' /\ \A t \in Sent' : t \in Sent \/ t = Len(req) + 1
  BY <1>1 DEF Sent
<1>3. turn \in Nat /\ turn < Len(req) + 1 /\ (pc \in Active => turn \in Sent)
  BY <1>1 DEF Order, Sent, Types, TypeOK
<1>4. \A q : Finished(q)' <=> Finished(q)
  BY DEF Finished, Tells
<1>5. \A p : MadeRoom(p) => MadeRoom(p)'
  BY <1>2, <1>4, RoomKept
<1>6. Fresh'
  BY DEF Server, Fresh, InStore
<1>7. PrevIsEarlier'
  <2> SUFFICES ASSUME NEW t \in Sent'
               PROVE  req'[t].prev < t \/ req'[t].prev = Elsewhere
    BY DEF PrevIsEarlier
  <2>1. CASE t \in Sent
    BY <1>1, <2>1 DEF Server, PrevIsEarlier
  <2>2. CASE t = Len(req) + 1
    BY <1>1, <2>2 DEF Known, Sent, None
  <2> QED BY <1>2, <2>1, <2>2
<1>8. Conversations'
  <2>1. \A h, id : Whole(h, id) => Whole(h, id)'
    BY <1>1, <1>2, WholeKept
  <2>2. pc \in Working => turn \in Sent
    BY <1>3 DEF Working
  <2> QED BY <1>1, <2>1, <2>2 DEF Server, Conversations
<1>9. Outcome'
  BY DEF Server, Outcome, Without, IsSaved
<1>10. Remembered'
  BY <1>4, <1>5 DEF Server, Remembered
<1>11. NothingFollowsTheTerminalEvent'
  BY DEF Server, NothingFollowsTheTerminalEvent
<1>12. SavedResponsesWereSent'
  <2>1. \A id \in DOMAIN shared.items : id \in Turn => id \in Sent
    <3> SUFFICES ASSUME NEW id \in DOMAIN shared.items, id \in Turn
                 PROVE  id \in Sent
      OBVIOUS
    <3>1. ~(id > turn)
      BY DEF Server, Fresh, InStore
    <3> QED BY <1>1, <1>3, <3>1 DEF Sent, Turn
  <2> QED BY <1>1, <1>4, <2>1 DEF Server, SavedResponsesWereSent, Tells
<1>13. ContinuationFound'
  <2> SUFFICES ASSUME NEW t \in Sent', NEW p \in Turn, p = req'[t].prev,
                      Tells(t, {"not_found"}), Finished(p)
               PROVE  p \in dropped \/ MadeRoom(p)'
    BY <1>4 DEF ContinuationFound, Tells
  <2>1. t \in Sent
    <3> SUFFICES ASSUME t = Len(req) + 1
                 PROVE  FALSE
      BY <1>2
    <3>1. t \in Turn
      BY <1>1 DEF Types, Turn
    <3>2. told[t] = <<>>
      BY <1>3, <3>1 DEF Server, Fresh
    <3> QED BY <3>2 DEF Tells
  <2>2. p = req[t].prev
    BY <1>1, <2>1
  <2> QED BY <1>5, <2>1, <2>2 DEF Server, ContinuationFound
<1> QED BY <1>6, <1>7, <1>8, <1>9, <1>10, <1>11, <1>12, <1>13 DEF Server

LEMMA ServerTake ==
  ASSUME Types, Order, Server, UNCHANGED <<set, req, told, storedVars>>,
         pc = "waiting", pc' = "resolving", reader = "parked",
         turn' = ahead, conv' = <<ahead>>, sink' = NewTurnSink, resolved' = FALSE
  PROVE  Server'
<1> USE DEF storedVars, Active, Working
<1>1. turn \in Nat /\ ahead \in Nat /\ turn < ahead
  BY DEF Types, TypeOK, Order
<1>2. Fresh' /\ PrevIsEarlier'
  BY <1>1 DEF Server, Fresh, PrevIsEarlier, Sent, InStore, Turn
<1>3. Conversations'
  BY DEF Server, Conversations, Whole, IsConversation, Starts, Sent
<1>4. Outcome'
  BY DEF Outcome, NewTurnSink
<1>5. Remembered'
  BY DEF Server, Remembered, Finished, Tells, MadeRoom, Sent
<1>6. NothingFollowsTheTerminalEvent'
  BY DEF Server, NothingFollowsTheTerminalEvent
<1>7. SavedResponsesWereSent'
  BY DEF Server, SavedResponsesWereSent, Finished, Tells
<1>8. ContinuationFound'
  <2>1. Sent' = Sent /\ \A p : Finished(p)' <=> Finished(p)
    BY DEF Sent, Finished, Tells
  <2>2. \A p : MadeRoom(p) => MadeRoom(p)'
    BY <2>1, RoomKept
  <2> QED BY <2>1, <2>2 DEF Server, ContinuationFound, Tells
<1> QED BY <1>2, <1>3, <1>4, <1>5, <1>6, <1>7, <1>8 DEF Server

(* The turn being run was sent. *)
LEMMA InTurnType ==
  ASSUME Types, Order, pc \in Active
  PROVE  /\ turn \in Turn /\ turn \in Sent /\ Len(told[turn]) \in Nat
         /\ told \in [Turn -> Seq(FrameType)]
<1>1. Len(req) \in Nat /\ Len(req) <= MaxTurns /\ turn \in Nat /\ turn > 0 /\ turn <= Len(req)
  BY DEF Types, TypeOK, Order
<1>2. turn \in Turn /\ turn \in Sent
  BY <1>1, SettingsAssumption DEF Turn, Sent
<1>3. told \in [Turn -> Seq(FrameType)]
  BY DEF Types, TypeOK
<1>4. told[turn] \in Seq(FrameType)
  BY <1>2, <1>3
<1>5. Len(told[turn]) \in Nat
  BY <1>4, LenProperties
<1> QED BY <1>2, <1>3, <1>5

(* A turn told not_found was answered in its time, after what it continues. *)
LEMMA ContinuationsAreOld ==
  ASSUME Types, Order, Server, NEW t \in Sent, Tells(t, {"not_found"}), req[t].prev \in Turn
  PROVE  t <= turn /\ req[t].prev < turn
<1>1. t \in Turn /\ t \in Nat /\ turn \in Nat
  <2>1. Len(req) \in Nat /\ Len(req) <= MaxTurns /\ MaxTurns \in Nat
    BY SettingsAssumption, LenProperties DEF Types, TypeOK
  <2>2. turn \in Nat
    BY <2>1 DEF Types, TypeOK
  <2> QED BY <2>1, <2>2 DEF Sent, Turn
<1>2. ~(t > turn)
  BY <1>1 DEF Server, Fresh, Tells
<1>3. req[t].prev < t
  BY SettingsAssumption DEF Server, PrevIsEarlier, Turn, Elsewhere
<1> QED BY <1>1, <1>2, <1>3 DEF Turn

(* The turn ends without a response to save. *)
LEMMA ServerFails ==
  ASSUME Types, Types', Order, Server, UNCHANGED <<set, req, turn, shared>>,
         pc \in Active, pc' \notin Active,
         \/ told' = told /\ ~Finished(turn)
         \/ /\ Without(turn, Len(told[turn]))
            /\ \/ told' = told
               \/ \E x \in ErrorFrame :
                    /\ told' = [told EXCEPT ![turn] = Append(@, x)]
                    /\ x = "not_found" => Prev \notin DOMAIN cache.items,
         \/ cache' = cache /\ dropped' = dropped
         \/ cache' = Store!Deleted(cache, Prev) /\ dropped' = dropped \cup {Prev}
  PROVE  Server'
<1> DEFINE n == Len(told[turn])
<1>1. turn \in Turn /\ turn \in Sent /\ n \in Nat /\ told \in [Turn -> Seq(FrameType)]
  BY InTurnType
<1>2. ~Finished(turn)
  <2>1. CASE Without(turn, n)
    BY <2>1 DEF Without, Finished, Tells, Last, Terminal
  <2> QED BY <2>1
<1>3. /\ \A u \in Turn : u # turn => told'[u] = told[u]
      /\ \A u \in Turn : \A types \in {{"response.completed", "response.incomplete"},
                                        {"response.failed"}} :
           Tells(u, types)' <=> Tells(u, types)
      /\ \A u \in Turn : Tells(u, {"not_found"})' =>
           Tells(u, {"not_found"}) \/ (u = turn /\ Prev \notin DOMAIN cache.items)
      /\ told' = told \/ Without(turn, Len(told[turn]))'
  <2>1. CASE told' = told
    BY <2>1 DEF Tells
  <2>2. ASSUME NEW x \in ErrorFrame, Without(turn, n),
               told' = [told EXCEPT ![turn] = Append(@, x)],
               x = "not_found" => Prev \notin DOMAIN cache.items
        PROVE  <1>3!:
    <3>1. x \in FrameType /\ x \notin Last
      BY <2>2 DEF FrameType, ErrorFrame, Last, Terminal, Unnamed
    <3>2. \A u \in Turn : \A types : Tells(u, types)' <=> Tells(u, types) \/ (u = turn /\ x \in types)
      BY <1>1, <2>2, <3>1, TellsMore
    <3>3. \A u \in Turn : u # turn => told'[u] = told[u]
      BY <1>1, <2>2, <3>1, Appended
    <3>4. Without(turn, Len(told[turn]))'
      <4>1. /\ Len(told'[turn]) = n + 1 /\ \A k \in 1..n : told'[turn][k] = told[turn][k]
            /\ told'[turn][n + 1] = x
        BY <1>1, <2>2, <3>1, Appended
      <4> HIDE DEF n
      <4>2. \A k \in 1..(n + 1) : k \in 1..n \/ k = n + 1
        BY <1>1
      <4> QED BY <2>2, <3>1, <4>1, <4>2 DEF Without
    <3> QED BY <2>2, <3>2, <3>3, <3>4 DEF ErrorFrame
  <2> QED BY <2>1, <2>2
<1> HIDE DEF n
<1>4. \A u \in Turn : Finished(u)' <=> Finished(u)
  BY <1>3 DEF Finished
<1>5. /\ DOMAIN cache'.items \subseteq DOMAIN cache.items /\ dropped \subseteq dropped'
      /\ \A i \in DOMAIN cache'.items : cache'.items[i] = cache.items[i]
      /\ \A i \in DOMAIN cache.items : i \in DOMAIN cache'.items \/ i \in dropped'
  <2>1. CASE cache' = cache /\ dropped' = dropped
    BY <2>1
  <2>2. CASE cache' = Store!Deleted(cache, Prev) /\ dropped' = dropped \cup {Prev}
    <3>1. Turn \in SUBSET Nat
      BY DEF Turn
    <3>2. StoreOK(cache, Turn) /\ Ascending(cache.order)
      BY DEF Types
    <3>3. /\ DOMAIN Store!Deleted(cache, Prev).items = DOMAIN cache.items \ {Prev}
          /\ \A i \in DOMAIN Store!Deleted(cache, Prev).items :
               Store!Deleted(cache, Prev).items[i] = cache.items[i]
      BY <3>1, <3>2, DeletedStore
    <3> QED BY <2>2, <3>3
  <2> QED BY <2>1, <2>2
<1>6. \A p : MadeRoom(p) => MadeRoom(p)'
  <2>1. Sent' = Sent /\ \A q \in Sent : q \in Turn
    BY SettingsAssumption DEF Sent, Types, TypeOK, Turn
  <2> QED BY <1>4, <2>1, RoomKept
<1>7. Fresh' /\ PrevIsEarlier'
  BY <1>1, <1>3, <1>5 DEF Server, Fresh, InStore, PrevIsEarlier, Sent, Active, Turn
<1>8. Conversations'
  <2>1. \A h, id : Whole(h, id) => Whole(h, id)'
    BY WholeKept DEF Sent
  <2> QED BY <1>5, <2>1 DEF Server, Conversations, Active, Working
<1>9. Outcome'
  BY DEF Outcome, Active, Working
<1>10. Remembered'
  BY <1>2, <1>4, <1>5, <1>6 DEF Server, Remembered
<1>11. NothingFollowsTheTerminalEvent'
  <2> SUFFICES ASSUME NEW t \in Turn, NEW k \in 1..Len(told'[t]), told'[t][k] \in Last, k < Len(told'[t])
               PROVE  k + 1 = Len(told'[t]) /\ told'[t][k + 1] = "error" /\ set.store /\ set.storeFails
    BY DEF NothingFollowsTheTerminalEvent, Last
  <2>1. t # turn \/ told' = told
    BY <1>3 DEF Without
  <2>2. told'[t] = told[t]
    BY <1>3, <2>1
  <2> QED BY <2>2 DEF Server, NothingFollowsTheTerminalEvent, Last
<1>12. SavedResponsesWereSent'
  BY <1>3, <1>4, <1>5 DEF Server, SavedResponsesWereSent
<1>13. ContinuationFound'
  <2> SUFFICES ASSUME NEW t \in Sent, NEW p \in Turn, p = req[t].prev,
                      Tells(t, {"not_found"})', Finished(p)'
               PROVE  p \in dropped' \/ MadeRoom(p)'
    BY DEF ContinuationFound, Sent
  <2>1. t \in Turn
    BY SettingsAssumption DEF Sent, Types, TypeOK, Turn
  <2>2. CASE Tells(t, {"not_found"})
    BY <1>4, <1>5, <1>6, <2>2 DEF Server, ContinuationFound
  <2>3. CASE t = turn /\ Prev \notin DOMAIN cache.items
    <3>1. p = Prev /\ p # turn
      <4>1. p = Prev /\ p \in 1..MaxTurns /\ turn \in Nat
        BY <1>1, <2>3 DEF Prev, Turn
      <4>2. p < turn \/ p = MaxTurns + 1
        BY <1>1, <4>1 DEF Server, PrevIsEarlier, Elsewhere, Prev
      <4> QED BY <4>1, <4>2, SettingsAssumption
    <3> QED BY <1>4, <1>5, <1>6, <2>3, <3>1 DEF Server, Remembered
  <2> QED BY <1>3, <2>1, <2>2, <2>3
<1> QED BY <1>7, <1>8, <1>9, <1>10, <1>11, <1>12, <1>13 DEF Server

(* The session goes on with its turn, and nothing is written. *)
LEMMA ServerMoves ==
  ASSUME Types, Order, Server, UNCHANGED <<set, req, turn, told, storedVars>>,
         pc \in Active, pc' \in Working, pc' = "saving" => sink.terminal,
         Whole(conv', turn), resolved' => Prev # None,
         sink'.terminal = sink.terminal, sink'.acc = sink.acc, sink'.failed => ~sink.terminal
  PROVE  Server'
<1> USE DEF storedVars, Active, Working
<1>1. Sent' = Sent /\ \A p : Finished(p)' <=> Finished(p)
  BY DEF Sent, Finished, Tells
<1>2. \A p : MadeRoom(p) => MadeRoom(p)'
  BY <1>1, RoomKept
<1>3. Fresh' /\ PrevIsEarlier'
  BY DEF Server, Fresh, PrevIsEarlier, Sent, InStore
<1>4. Conversations'
  <2>1. \A h, id : Whole(h, id) => Whole(h, id)'
    BY WholeKept DEF Sent
  <2>2. PICK h : h = conv'
    OBVIOUS
  <2>3. Whole(h, turn)'
    BY <2>1, <2>2
  <2> QED BY <2>1, <2>2, <2>3 DEF Server, Conversations, Prev
<1>5. Outcome'
  <2>1. IsSaved' <=> IsSaved
    BY DEF IsSaved
  <2>2. CASE pc = "resolving"
    <3>1. told[turn] = <<>> /\ ~sink.terminal
      BY <2>2, InTurnType DEF Server, Fresh, Outcome
    <3> QED BY <3>1 DEF Outcome, Without
  <2>3. CASE pc # "resolving"
    BY <2>1, <2>3 DEF Server, Outcome, Without
  <2> QED BY <2>2, <2>3
<1>6. Remembered'
  BY <1>1, <1>2 DEF Server, Remembered
<1>7. NothingFollowsTheTerminalEvent'
  BY DEF Server, NothingFollowsTheTerminalEvent
<1>8. SavedResponsesWereSent'
  BY <1>1 DEF Server, SavedResponsesWereSent, Tells
<1>9. ContinuationFound'
  BY <1>1, <1>2 DEF Server, ContinuationFound, Tells
<1> QED BY <1>3, <1>4, <1>5, <1>6, <1>7, <1>8, <1>9 DEF Server

(* The session writes an event of the turn. *)
LEMMA ServerTells ==
  ASSUME Types, Order, Server, UNCHANGED <<set, req, turn, conv, resolved, storedVars>>,
         pc \in Working, pc' \in Working, ~sink.terminal,
         NEW x \in FrameType, x # "not_found", told' = [told EXCEPT ![turn] = Append(@, x)],
         sink'.failed => ~sink'.terminal,
         \/ x \notin Last /\ ~sink'.terminal /\ pc' # "saving"
         \/ /\ sink'.terminal
            /\ \/ x \in {"response.completed", "response.incomplete"} /\ IsSaved'
               \/ x \in {"response.failed", Unnamed} /\ ~IsSaved'
  PROVE  Server'
<1> USE DEF storedVars
<1> DEFINE n == Len(told[turn])
<1>1. turn \in Turn /\ turn \in Sent /\ n \in Nat /\ pc \in Active /\ pc' \in Active
  BY InTurnType DEF Working, Active
<1>2. Without(turn, n)
  BY DEF Server, Outcome
<1>3. /\ \A u \in Turn : u # turn => told'[u] = told[u]
      /\ Len(told'[turn]) = n + 1 /\ \A k \in 1..n : told'[turn][k] = told[turn][k]
      /\ told'[turn][n + 1] = x
  BY <1>1, Appended
<1>4. \A u \in Turn : \A types : Tells(u, types)' <=> Tells(u, types) \/ (u = turn /\ x \in types)
  BY <1>1, TellsMore
<1> HIDE DEF n
<1>5. \A u \in Turn : /\ Finished(u) => Finished(u)'
                      /\ u # turn => (Finished(u)' <=> Finished(u))
  BY <1>4 DEF Finished
<1>6. \A p : MadeRoom(p) => MadeRoom(p)'
  <2>1. Sent' = Sent /\ \A q \in Sent : q \in Turn
    BY SettingsAssumption DEF Sent, Types, TypeOK, Turn
  <2> QED BY <1>5, <2>1, RoomKept
<1>7. Fresh' /\ PrevIsEarlier'
  <2>1. turn \in Nat /\ \A t \in Turn : t > turn => t # turn
    BY <1>1 DEF Turn
  <2> QED BY <1>1, <1>3, <2>1 DEF Server, Fresh, InStore, PrevIsEarlier, Sent, Working
<1>8. Conversations'
  <2>1. \A h, id : Whole(h, id) => Whole(h, id)'
    BY WholeKept DEF Sent
  <2> QED BY <2>1 DEF Server, Conversations, Working, Active
<1>9. Outcome'
  <2>1. \A k \in 1..(n + 1) : k \in 1..n \/ k = n + 1
    BY <1>1
  <2>2. Len(told'[turn]) = n + 1 /\ n + 1 > 0 /\ (n + 1) - 1 = n
    BY <1>1, <1>3
  <2>3. /\ \A k \in 1..n : told'[turn][k] \notin Last
        /\ x \notin Last => \A k \in 1..(n + 1) : told'[turn][k] \notin Last
    BY <1>2, <1>3, <2>1 DEF Without
  <2>4. CASE ~sink'.terminal
    BY <2>2, <2>3, <2>4 DEF Outcome, Working, Without
  <2>5. CASE sink'.terminal
    BY <1>3, <2>2, <2>3, <2>5 DEF Outcome, Working, Without
  <2> QED BY <2>4, <2>5
<1>10. Remembered'
  BY <1>1, <1>5, <1>6 DEF Server, Remembered
<1>11. NothingFollowsTheTerminalEvent'
  <2> SUFFICES ASSUME NEW t \in Turn, NEW k \in 1..Len(told'[t]), told'[t][k] \in Last, k < Len(told'[t])
               PROVE  k + 1 = Len(told'[t]) /\ told'[t][k + 1] = "error" /\ set.store /\ set.storeFails
    BY DEF NothingFollowsTheTerminalEvent, Last
  <2>1. t # turn
    <3> SUFFICES ASSUME t = turn
                 PROVE  FALSE
      OBVIOUS
    <3>1. k \in 1..n
      BY <1>1, <1>3
    <3> QED BY <1>2, <1>3, <3>1 DEF Without
  <2>2. told'[t] = told[t]
    BY <1>3, <2>1
  <2> QED BY <2>2 DEF Server, NothingFollowsTheTerminalEvent, Last
<1>12. SavedResponsesWereSent'
  <2>1. ~InStore(turn)
    BY <1>1 DEF Server, Fresh
  <2> QED BY <1>4, <1>5, <2>1 DEF Server, SavedResponsesWereSent, InStore
<1>13. ContinuationFound'
  <2> SUFFICES ASSUME NEW t \in Sent, NEW p \in Turn, p = req[t].prev,
                      Tells(t, {"not_found"})', Finished(p)'
               PROVE  p \in dropped \/ MadeRoom(p)'
    BY DEF ContinuationFound, Sent
  <2>1. t \in Turn
    BY SettingsAssumption DEF Sent, Types, TypeOK, Turn
  <2>2. Tells(t, {"not_found"})
    BY <1>4, <2>1
  <2>3. p # turn
    BY <1>1, <2>2, ContinuationsAreOld DEF Turn
  <2> QED BY <1>5, <1>6, <2>2, <2>3 DEF Server, ContinuationFound
<1> QED BY <1>7, <1>8, <1>9, <1>10, <1>11, <1>12, <1>13 DEF Server

(* The cache when the turn is saved: CacheSize younger ones push one out. *)
LEMMA CacheSaves ==
  ASSUME Types, Types', Order, Server, pc = "saving", UNCHANGED turn,
         cache' = Store!Saved(cache, turn, conv, CacheSize)
  PROVE  /\ turn \in DOMAIN cache'.items
         /\ DOMAIN cache'.items \subseteq DOMAIN cache.items \cup {turn}
         /\ \A i \in DOMAIN cache'.items : cache'.items[i] = IF i = turn THEN conv ELSE cache.items[i]
         /\ \A p \in DOMAIN cache.items :
              p \in DOMAIN cache'.items
                \/ (Len(cache'.order) = CacheSize /\ \A k \in 1..CacheSize : cache'.order[k] > p)
<1>1. turn \in Turn /\ Turn \in SUBSET Nat
  BY InTurnType DEF Active, Turn
<1>2. StoreOK(cache, Turn) /\ Ascending(cache.order) /\ CacheSize \in Nat \ {0}
  BY SettingsAssumption DEF Types
<1>3. \A i \in DOMAIN cache.items : i < turn
  <2> SUFFICES ASSUME NEW i \in DOMAIN cache.items
               PROVE  i < turn
    OBVIOUS
  <2>1. i \in Turn
    BY <1>2 DEF StoreOK, Store!IdsOf
  <2>2. ~(i > turn) /\ i # turn
    BY <1>1, <2>1 DEF Server, Fresh, InStore, Active
  <2> QED BY <1>1, <2>1, <2>2 DEF Turn
<1>4. /\ turn \in DOMAIN cache'.items
      /\ \A p \in DOMAIN cache.items :
           p \in DOMAIN cache'.items
             \/ (Len(cache'.order) = CacheSize /\ \A k \in 1..CacheSize : cache'.order[k] > p)
  BY <1>1, <1>2, <1>3, SavedInOrder
<1>5. /\ DOMAIN cache'.items \subseteq DOMAIN cache.items \cup {turn}
      /\ \A i \in DOMAIN cache'.items : cache'.items[i] = IF i = turn THEN conv ELSE cache.items[i]
  BY <1>1, <1>2, SavedStore
<1> QED BY <1>4, <1>5

(* The turn's response is saved, and its end told. *)
LEMMA ServerSaves ==
  ASSUME Types, Types', Order, Server, UNCHANGED <<set, req, turn, sink, conv, dropped>>,
         pc = "saving", pc' \notin Active, IsSaved,
         cache' = Store!Saved(cache, turn, conv, CacheSize),
         \/ shared' = shared
         \/ IsShared /\ shared' = Store!Saved(shared, turn, conv, MaxTurns + 1),
         \/ told' = told
         \/ /\ set.store /\ set.storeFails
            /\ told' = [told EXCEPT ![turn] = Append(@, "error")]
  PROVE  Server'
<1> DEFINE n == Len(told[turn])
<1>1. turn \in Turn /\ turn \in Sent /\ n \in Nat /\ pc \in Active /\ pc \in Working
  BY InTurnType DEF Working, Active
<1>2. /\ n > 0 /\ Without(turn, n - 1)
      /\ told[turn][n] \in {"response.completed", "response.incomplete"}
  BY <1>1 DEF Server, Outcome
<1>3. "error" \in FrameType /\ "error" \notin Last
  BY DEF FrameType, ErrorFrame, Last, Terminal, Unnamed
<1>4. /\ \A u \in Turn : u # turn => told'[u] = told[u]
      /\ \A u \in Turn : \A types \in {{"response.completed", "response.incomplete"},
                                        {"response.failed"}, {"not_found"}} :
           Tells(u, types)' <=> Tells(u, types)
      /\ \/ told' = told
         \/ /\ set.store /\ set.storeFails
            /\ Len(told'[turn]) = n + 1 /\ \A k \in 1..n : told'[turn][k] = told[turn][k]
            /\ told'[turn][n + 1] = "error"
  <2>1. CASE told' = told
    BY <2>1 DEF Tells
  <2>2. CASE set.store /\ set.storeFails /\ told' = [told EXCEPT ![turn] = Append(@, "error")]
    <3>1. /\ \A u \in Turn : u # turn => told'[u] = told[u]
          /\ Len(told'[turn]) = n + 1 /\ \A k \in 1..n : told'[turn][k] = told[turn][k]
          /\ told'[turn][n + 1] = "error"
      BY <1>1, <1>3, <2>2, Appended
    <3>2. \A u \in Turn : \A types :
            Tells(u, types)' <=> Tells(u, types) \/ (u = turn /\ "error" \in types)
      BY <1>1, <1>3, <2>2, TellsMore
    <3> QED BY <2>2, <3>1, <3>2
  <2> QED BY <2>1, <2>2
<1> HIDE DEF n
<1>5. Finished(turn) /\ ~Tells(turn, {"response.failed"})
  <2>1. n \in 1..n /\ \A k \in 1..n : k \in 1..(n - 1) \/ k = n
    BY <1>1, <1>2
  <2>2. Finished(turn)
    BY <1>2, <2>1 DEF Finished, Tells, n
  <2>3. \A k \in 1..n : told[turn][k] # "response.failed"
    BY <1>2, <2>1 DEF Without, Last, Terminal
  <2> QED BY <2>2, <2>3 DEF Tells, n
<1>6. \A u \in Turn : Finished(u)' <=> Finished(u)
  BY <1>4 DEF Finished
<1>7. Sent' = Sent /\ \A q \in Sent : q \in Turn
  BY SettingsAssumption DEF Sent, Types, TypeOK, Turn
<1>8. \A p : MadeRoom(p) => MadeRoom(p)'
  BY <1>6, <1>7, RoomKept
<1>9. /\ turn \in DOMAIN cache'.items
      /\ DOMAIN cache'.items \subseteq DOMAIN cache.items \cup {turn}
      /\ \A i \in DOMAIN cache'.items : cache'.items[i] = IF i = turn THEN conv ELSE cache.items[i]
      /\ \A p \in DOMAIN cache.items :
           p \in DOMAIN cache'.items
             \/ (Len(cache'.order) = CacheSize /\ \A k \in 1..CacheSize : cache'.order[k] > p)
  BY CacheSaves
<1>10. /\ DOMAIN shared'.items \subseteq DOMAIN shared.items \cup {turn}
       /\ turn \in DOMAIN shared'.items => req[turn].store
       /\ \A i \in DOMAIN shared'.items : shared'.items[i] = IF i = turn THEN conv ELSE shared.items[i]
  <2>1. CASE shared' = shared
    BY <1>1, <2>1 DEF Server, Fresh, InStore
  <2>2. CASE IsShared /\ shared' = Store!Saved(shared, turn, conv, MaxTurns + 1)
    <3>1. turn \in Ids /\ StoreOK(shared, Ids) /\ MaxTurns + 1 \in Nat \ {0}
      BY <1>1, SettingsAssumption DEF Turn, Ids, Types
    <3>2. /\ DOMAIN shared'.items \subseteq DOMAIN shared.items \cup {turn}
          /\ \A i \in DOMAIN shared'.items : shared'.items[i] = IF i = turn THEN conv ELSE shared.items[i]
      BY <2>2, <3>1, SavedStore
    <3> QED BY <2>2, <3>2 DEF IsShared
  <2> QED BY <2>1, <2>2
<1>11. Fresh' /\ PrevIsEarlier'
  <2>1. turn \in Nat /\ \A t \in Turn : t > turn => t # turn
    BY <1>1 DEF Turn
  <2> QED BY <1>4, <1>9, <1>10, <2>1 DEF Server, Fresh, InStore, PrevIsEarlier, Sent, Active
<1>12. Conversations'
  <2>1. \A h, id : Whole(h, id) => Whole(h, id)'
    BY WholeKept DEF Sent
  <2>2. Whole(conv, turn)
    BY <1>1 DEF Server, Conversations
  <2>3. ASSUME NEW i \in DOMAIN cache'.items, NEW h, h = cache'.items[i]
        PROVE  Whole(h, i)'
    BY <1>9, <2>1, <2>2, <2>3 DEF Server, Conversations
  <2>4. ASSUME NEW i \in DOMAIN shared'.items, NEW h, h = shared'.items[i]
        PROVE  Whole(h, i)'
    BY <1>10, <2>1, <2>2, <2>4 DEF Server, Conversations
  <2> QED BY <2>3, <2>4 DEF Conversations, Working, Active
<1>13. Outcome'
  BY DEF Outcome, Working, Active
<1>14. SavedResponsesWereSent'
  BY <1>4, <1>5, <1>6, <1>9, <1>10 DEF Server, SavedResponsesWereSent
<1>15. Remembered'
  <2> SUFFICES ASSUME NEW p \in Turn, Finished(p), p # turn
               PROVE  p \in DOMAIN cache'.items \/ p \in dropped \/ MadeRoom(p)'
    BY <1>6, <1>9 DEF Remembered
  <2>1. CASE p \in DOMAIN cache.items /\ p \notin DOMAIN cache'.items
    <3> DEFINE o == cache'.order
               f == [k \in 1..CacheSize |-> o[k]]
               Q == Store!IdsOf(o)
    <3>1. Len(o) = CacheSize /\ \A k \in 1..CacheSize : o[k] > p
      BY <1>9, <2>1
    <3>2. CacheSize \in Nat \ {0} /\ Q = DOMAIN cache'.items /\ Ascending(o) /\ o \in Seq(Turn)
      BY SettingsAssumption DEF Types, StoreOK
    <3>3. \A q \in Q : q \in Turn /\ q > p
      BY <3>1, <3>2 DEF Store!IdsOf
    <3>4. \A q \in Q : Finished(q)'
      BY <1>14, <3>2, <3>3 DEF SavedResponsesWereSent
    <3>5. \A q \in Q : q \in Sent
      <4> SUFFICES ASSUME NEW q \in Q
                   PROVE  q \in Sent
        OBVIOUS
      <4>1. ~(q > turn')
        BY <1>11, <3>2, <3>3 DEF Fresh, InStore
      <4> QED BY <1>1, <3>3, <4>1 DEF Turn, Sent, Types, TypeOK
    <3>6. f \in [1..CacheSize -> Q] /\ Q # {}
      BY <3>1, <3>2 DEF Store!IdsOf
    <3>7. \A i, j \in 1..CacheSize : i # j => f[i] # f[j]
      <4> SUFFICES ASSUME NEW i \in 1..CacheSize, NEW j \in 1..CacheSize, i # j
                   PROVE  o[i] # o[j]
        OBVIOUS
      <4>1. o[i] \in Nat /\ o[j] \in Nat /\ (i < j \/ j < i)
        <5>1. o[i] \in Turn /\ o[j] \in Turn
          BY <3>1, <3>2
        <5>2. i < j \/ j < i
          BY <3>2
        <5> QED BY <5>1, <5>2 DEF Turn
      <4>2. o[i] < o[j] \/ o[j] < o[i]
        BY <3>1, <4>1, <3>2 DEF Ascending
      <4> QED BY <4>1, <4>2
    <3> HIDE DEF Q, f
    <3>8. Q \in SUBSET {q \in Sent' : q > p /\ Finished(q)'}
      BY <1>7, <3>3, <3>4, <3>5
    <3> QED BY <3>6, <3>7, <3>8 DEF MadeRoom
  <2>2. CASE p \notin DOMAIN cache.items
    BY <1>8, <2>2 DEF Server, Remembered
  <2> QED BY <2>1, <2>2
<1>16. NothingFollowsTheTerminalEvent'
  <2> SUFFICES ASSUME NEW t \in Turn, NEW k \in 1..Len(told'[t]), told'[t][k] \in Last, k < Len(told'[t])
               PROVE  k + 1 = Len(told'[t]) /\ told'[t][k + 1] = "error" /\ set.store /\ set.storeFails
    BY DEF NothingFollowsTheTerminalEvent, Last
  <2>1. CASE told'[t] = told[t]
    BY <2>1 DEF Server, NothingFollowsTheTerminalEvent, Last
  <2>2. CASE t = turn /\ told' # told
    <3>1. k \in 1..n
      BY <1>1, <1>4, <2>2
    <3>2. told[turn][k] \in Last
      BY <1>4, <2>2, <3>1
    <3>3. ~(k \in 1..(n - 1))
      BY <1>2, <3>2 DEF Without
    <3>4. k = n
      BY <1>1, <3>1, <3>3
    <3> QED BY <1>4, <2>2, <3>4
  <2> QED BY <1>4, <2>1, <2>2
<1>17. ContinuationFound'
  <2> SUFFICES ASSUME NEW t \in Sent, NEW p \in Turn, p = req[t].prev,
                      Tells(t, {"not_found"})', Finished(p)'
               PROVE  p \in dropped \/ MadeRoom(p)'
    BY DEF ContinuationFound, Sent
  <2> QED BY <1>4, <1>6, <1>7, <1>8 DEF Server, ContinuationFound
<1> QED BY <1>11, <1>12, <1>13, <1>14, <1>15, <1>16, <1>17 DEF Server
-----------------------------------------------------------------------------
(***************************************************************************)
(* Types, step by step.                                                    *)
(***************************************************************************)
LEMMA SettingType ==
  ASSUME Types
  PROVE  /\ set \in Setting /\ set.turns \in 0..MaxTurns /\ set.events \subseteq EventType
         /\ set.frames \in Nat /\ set.store \in BOOLEAN
BY SettingsAssumption DEF Types, Setting

LEMMA RestType ==
  ASSUME NEW S, NEW q \in Seq(S), q # <<>>
  PROVE  /\ Head(q) \in S /\ Head(q) = q[1] /\ Tail(q) \in Seq(S)
         /\ Len(q) \in Nat /\ Len(q) > 0 /\ Len(Tail(q)) = Len(q) - 1
         /\ \A i \in 1..Len(Tail(q)) : Tail(q)[i] = q[i + 1] /\ i + 1 \in 1..Len(q)
<1>1. Len(q) \in Nat \ {0} /\ Head(q) \in S /\ Tail(q) \in Seq(S) /\ Len(Tail(q)) = Len(q) - 1
      /\ \A i \in 1..Len(Tail(q)) : Tail(q)[i] = q[i + 1]
  BY HeadTailProperties, EmptySeq
<1>2. Head(q) = q[1]
  OBVIOUS
<1> QED BY <1>1, <1>2

LEMMA ClientTypes ==
  ASSUME Types, Client
  PROVE  Types'
<1> USE DEF clientVars, wireVars, readerVars, turnVars, storeVars, sessionVars
<1>0. /\ set.turns \in 0..MaxTurns /\ MaxTurns \in Nat /\ Len(req) \in Nat
  BY SettingType, SettingsAssumption DEF Types, TypeOK
<1>1. ASSUME SendTurn
      PROVE  Types'
  <2>1. PICK r \in Request : req' = Append(req, r) /\ Len(req) < set.turns
    <3>1. PICK prev \in {None} \cup {t \in Ids : Known(t)}, keep \in BOOLEAN, bad \in BOOLEAN :
            req' = Append(req, [prev |-> prev, store |-> keep, bad |-> bad])
      BY <1>1 DEF SendTurn
    <3>2. prev \in 0..MaxTurns + 1
      BY <1>0 DEF None, Ids
    <3>3. [prev |-> prev, store |-> keep, bad |-> bad] \in Request
      BY <3>2 DEF Request
    <3> QED BY <1>1, <3>1, <3>3 DEF SendTurn
  <2>2. /\ req' \in Seq(Request) /\ Len(req') = Len(req) + 1 /\ Len(req') <= MaxTurns
    BY <1>0, <2>1 DEF Types, TypeOK, Request
  <2>3. up' \in Seq(0..MaxTurns)
    BY <1>0, <1>1, <2>1 DEF SendTurn, Types, TypeOK
  <2> QED BY <1>1, <2>2, <2>3 DEF SendTurn, Types, TypeOK, Request
<1>2. ASSUME NextFrame
      PROVE  Types'
  <2>1. /\ Head(down) \in [turn: 0..MaxTurns, type: FrameType \cup {"ping"}]
        /\ down' \in Seq([turn: 0..MaxTurns, type: FrameType \cup {"ping"}])
    BY <1>2, RestType DEF NextFrame, Types, TypeOK
  <2>2. CASE EndsTurn(Head(down).type)
    <3>1. Head(down) \in Result
      BY <2>1, <2>2 DEF Result, EndsTurn, TurnEnd, FrameType, Terminal, EventType, WithID
    <3> QED BY <1>2, <2>1, <2>2, <3>1 DEF NextFrame, EndTurn, Types, TypeOK
  <2>3. CASE ~EndsTurn(Head(down).type)
    BY <1>2, <2>1, <2>3 DEF NextFrame, Types, TypeOK
  <2> QED BY <2>2, <2>3
<1>3. ASSUME NextFails
      PROVE  Types'
  <2>1. [turn |-> 0, type |-> "failed"] \in Result
    BY <1>0 DEF Result
  <2> QED BY <1>3, <2>1 DEF NextFails, EndTurn, Types, TypeOK
<1>4. ASSUME GiveUp
      PROVE  Types'
  <2>1. [turn |-> 0, type |-> "cancelled"] \in Result
    BY <1>0 DEF Result
  <2> QED BY <1>4, <2>1 DEF GiveUp, EndTurn, Types, TypeOK
<1>5. ASSUME AnswerPing
      PROVE  Types'
  <2>1. down' \in Seq([turn: 0..MaxTurns, type: FrameType \cup {"ping"}])
    BY <1>5, RestType DEF AnswerPing, Types, TypeOK
  <2>2. up' \in Seq(0..MaxTurns)
    BY <1>0, <1>5 DEF AnswerPing, Pong, Types, TypeOK
  <2> QED BY <1>5, <2>1, <2>2 DEF AnswerPing, Types, TypeOK
<1>6. ASSUME Leave
      PROVE  Types'
  BY <1>6 DEF Leave, Link, Types, TypeOK
<1> QED BY <1>1, <1>2, <1>3, <1>4, <1>5, <1>6 DEF Client

(* A frame on its way to the client. *)
LEMMA PutFrameTypes ==
  ASSUME Types, NEW t \in 0..MaxTurns, NEW x \in FrameType, PutFrame(t, x)
  PROVE  /\ down' \in Seq([turn: 0..MaxTurns, type: FrameType \cup {"ping"}])
         /\ told' \in [Turn -> Seq(FrameType)]
<1>1. down' \in Seq([turn: 0..MaxTurns, type: FrameType \cup {"ping"}])
  BY DEF PutFrame, Types, TypeOK
<1>2. told \in [Turn -> Seq(FrameType)]
  BY DEF Types, TypeOK
<1>3. CASE t = 0
  BY <1>1, <1>2, <1>3 DEF PutFrame
<1>4. CASE t # 0
  <2>1. t \in Turn /\ told' = [told EXCEPT ![t] = Append(@, x)]
    BY <1>4, SettingsAssumption DEF PutFrame, Turn
  <2> QED BY <1>1, <2>1, Appended
<1> QED BY <1>3, <1>4

LEMMA ServerTypes ==
  ASSUME Types, ReadFrame \/ ReaderStops \/ Expire \/ ExpireCloses \/ SendPing \/ PingFails
  PROVE  Types'
<1> USE DEF clientVars, wireVars, readerVars, turnVars, storeVars, sessionVars
<1>1. ASSUME ReadFrame
      PROVE  Types'
  <2>1. Head(up) \in 0..MaxTurns /\ up' \in Seq(0..MaxTurns)
    BY <1>1, RestType DEF ReadFrame, Types, TypeOK
  <2> QED BY <1>1, <2>1 DEF ReadFrame, Types, TypeOK
<1>2. ASSUME ReaderStops
      PROVE  Types'
  BY <1>2 DEF ReaderStops, Types, TypeOK
<1>3. ASSUME Expire
      PROVE  Types'
  <2>1. "limit" \in FrameType /\ 0 \in 0..MaxTurns
    BY SettingsAssumption DEF FrameType, ErrorFrame
  <2>2. /\ down' \in Seq([turn: 0..MaxTurns, type: FrameType \cup {"ping"}])
        /\ told' \in [Turn -> Seq(FrameType)]
    <3>1. CASE link \in {"open", "lost"}
      BY <1>3, <2>1, <3>1, PutFrameTypes DEF Expire
    <3>2. CASE link \notin {"open", "lost"}
      BY <1>3, <3>2 DEF Expire, Types, TypeOK
    <3> QED BY <3>1, <3>2
  <2> QED BY <1>3, <2>2 DEF Expire, Types, TypeOK
<1>4. ASSUME ExpireCloses
      PROVE  Types'
  BY <1>4 DEF ExpireCloses, Link, Types, TypeOK
<1>5. ASSUME SendPing
      PROVE  Types'
  <2>1. Ping \in [turn: 0..MaxTurns, type: FrameType \cup {"ping"}]
    BY SettingsAssumption DEF Ping
  <2>2. down' \in Seq([turn: 0..MaxTurns, type: FrameType \cup {"ping"}])
    BY <1>5, <2>1 DEF SendPing, Types, TypeOK
  <2> QED BY <1>5, <2>2 DEF SendPing, Types, TypeOK
<1>6. ASSUME PingFails
      PROVE  Types'
  BY <1>6 DEF PingFails, CancelsSession, Types, TypeOK
<1> QED BY <1>1, <1>2, <1>3, <1>4, <1>5, <1>6

(***************************************************************************)
(* What a step of the session can do to the connection: write a frame of   *)
(* its turn, or nothing; it may end the session.                           *)
(***************************************************************************)
Writes(x) == PutFrame(turn, x) /\ UNCHANGED <<link, cancelled, timer>>
Silent    == UNCHANGED <<down, told, link, cancelled, timer>>
Ends      == EndSession /\ UNCHANGED <<down, told>>

LEMMA SessionTypes ==
  ASSUME Types, Order, pc \in Active, UNCHANGED <<clientVars, readerVars, up, turn, ping, set>>,
         Silent \/ Ends \/ (\E x \in FrameType : Writes(x)),
         pc' \in {"waiting", "resolving", "running", "returned", "errored", "saving", "over"},
         sink' \in TurnSink, resolved' \in BOOLEAN, conv' \in Seq(Ids),
         dropped' \subseteq Ids, Len(cache'.order) <= CacheSize,
         StoreOK(cache', Turn), Ascending(cache'.order), StoreOK(shared', Ids)
  PROVE  Types'
<1> USE DEF clientVars, readerVars
<1>1. turn \in 0..MaxTurns
  BY DEF Types, TypeOK
<1>2. /\ down' \in Seq([turn: 0..MaxTurns, type: FrameType \cup {"ping"}])
      /\ told' \in [Turn -> Seq(FrameType)]
      /\ link' \in Link /\ timer' \in {"armed", "closing", "stopped"} /\ cancelled' \in BOOLEAN
  <2>1. CASE Silent
    BY <2>1 DEF Silent, Types, TypeOK
  <2>2. CASE Ends
    BY <2>2 DEF Ends, EndSession, Link, Types, TypeOK
  <2>3. ASSUME NEW x \in FrameType, Writes(x)
        PROVE  <1>2!:
    <3>1. /\ down' \in Seq([turn: 0..MaxTurns, type: FrameType \cup {"ping"}])
          /\ told' \in [Turn -> Seq(FrameType)]
      BY <1>1, <2>3, PutFrameTypes DEF Writes
    <3> QED BY <2>3, <3>1 DEF Writes, Types, TypeOK
  <2> QED BY <2>1, <2>2, <2>3
<1>3. TypeOK'
  BY <1>2 DEF Types, TypeOK, StoreOK
<1> QED BY <1>3 DEF Types
-----------------------------------------------------------------------------
(***************************************************************************)
(* Order, step by step.                                                    *)
(***************************************************************************)
LEMMA OrderKept ==
  ASSUME Order, UNCHANGED <<req, up, turn>>, pc' \in Active => pc \in Active,
         (reader' = reader /\ ahead' = ahead) \/ reader' # "parked"
  PROVE  Order'
BY DEF Order

LEMMA OrderSend ==
  ASSUME Types, Order, Len(req') = Len(req) + 1, up' = Append(up, Len(req) + 1),
         UNCHANGED <<turn, pc, reader, ahead>>
  PROVE  Order'
<1>1. /\ Len(req) \in Nat /\ turn \in Nat /\ ahead \in Nat /\ Len(up) \in Nat
      /\ Len(up') = Len(up) + 1 /\ up'[Len(up) + 1] = Len(req) + 1
      /\ \A i \in 1..Len(up) : up'[i] = up[i] /\ up[i] \in Nat
  <2>1. Len(req) \in Nat /\ turn \in Nat /\ ahead \in Nat /\ up \in Seq(0..MaxTurns)
    BY DEF Types, TypeOK
  <2>2. /\ Len(up) \in Nat /\ Len(up') = Len(up) + 1 /\ up'[Len(up) + 1] = Len(req) + 1
        /\ \A i \in 1..Len(up) : up'[i] = up[i]
    <3>1. up \in Seq(Nat) /\ Len(req) + 1 \in Nat
      <4>1. 0..MaxTurns \subseteq Nat
        OBVIOUS
      <4>2. up \in Seq(0..MaxTurns)
        BY <2>1
      <4>3. up \in Seq(Nat)
        BY <4>1, <4>2, SeqMonotonic
      <4> QED BY <2>1, <4>3
    <3> QED BY <3>1, AppendProperties
  <2>3. \A i \in 1..Len(up) : up[i] \in 0..MaxTurns
    BY <2>1, ElementOfSeq
  <2> QED BY <2>1, <2>2, <2>3
<1>2. \A i \in 1..Len(up') : i \in 1..Len(up) \/ i = Len(up) + 1
  BY <1>1
<1>3. turn < Len(req) + 1 /\ turn <= Len(req) + 1
  BY <1>1 DEF Order
<1>4. ASSUME NEW i \in 1..Len(up'), up'[i] # Pong
      PROVE  /\ turn < up'[i] /\ up'[i] <= Len(req')
             /\ reader = "parked" => ahead < up'[i]
             /\ \A j \in 1..Len(up') : i < j /\ up'[j] # Pong => up'[i] < up'[j]
  <2>1. CASE i \in 1..Len(up)
    <3>1. /\ turn < up[i] /\ up[i] <= Len(req) /\ reader = "parked" => ahead < up[i]
          /\ \A j \in 1..Len(up) : i < j /\ up[j] # Pong => up[i] < up[j]
      BY <1>1, <1>4, <2>1 DEF Order
    <3>2. turn < up[i] /\ up[i] < Len(req) + 1 /\ (reader = "parked" => ahead < up[i])
      BY <1>1, <1>4, <2>1 DEF Order
    <3> QED BY <1>1, <1>2, <2>1, <3>1, <3>2
  <2>2. CASE i = Len(up) + 1
    <3>1. \A j \in 1..Len(up') : ~(i < j)
      BY <1>1, <2>2
    <3>2. reader = "parked" => ahead < Len(req) + 1
      BY <1>1 DEF Order
    <3> QED BY <1>1, <1>3, <2>2, <3>1, <3>2
  <2> QED BY <1>2, <2>1, <2>2
<1> QED BY <1>1, <1>3, <1>4 DEF Order

LEMMA OrderPong ==
  ASSUME Types, Order, up' = Append(up, Pong), UNCHANGED <<req, turn, pc, reader, ahead>>
  PROVE  Order'
<1>1. /\ Len(up) \in Nat /\ Len(up') = Len(up) + 1 /\ up'[Len(up) + 1] = Pong
      /\ \A i \in 1..Len(up) : up'[i] = up[i]
  BY DEF Types, TypeOK
<1>2. \A i \in 1..Len(up') : up'[i] # Pong => i \in 1..Len(up)
  BY <1>1
<1> QED BY <1>1, <1>2 DEF Order

LEMMA OrderRead ==
  ASSUME Types, Order, ReadFrame
  PROVE  Order'
<1> USE DEF readerVars, turnVars, clientVars
<1>1. /\ up \in Seq(0..MaxTurns) /\ up # <<>>
      /\ up' = Tail(up) /\ UNCHANGED <<req, turn, pc>> /\ reader = "reading"
  BY DEF ReadFrame, Reads, Types, TypeOK
<1>2. /\ Len(up) \in Nat /\ 1 \in 1..Len(up) /\ Head(up) = up[1]
      /\ \A i \in 1..Len(up') : up'[i] = up[i + 1] /\ i + 1 \in 1..Len(up) /\ 1 < i + 1
  BY <1>1, RestType
<1>3. \A i, j \in 1..Len(up') : i < j => i + 1 < j + 1
  BY <1>1, RestType
<1>4. CASE Head(up) = Pong
  <2>1. UNCHANGED <<reader, ahead>>
    BY <1>4 DEF ReadFrame
  <2> QED BY <1>1, <1>2, <1>3, <2>1 DEF Order
<1>5. CASE Head(up) # Pong
  <2>1. ahead' = up[1]
    BY <1>2, <1>5 DEF ReadFrame
  <2> QED BY <1>1, <1>2, <1>3, <1>5, <2>1 DEF Order
<1> QED BY <1>4, <1>5

LEMMA OrderTake ==
  ASSUME Types, Order, reader = "parked", reader' = "reading", turn' = ahead,
         UNCHANGED <<req, up, ahead>>
  PROVE  Order'
<1>1. turn \in Nat /\ ahead \in Nat
  BY DEF Types, TypeOK
<1> QED BY <1>1 DEF Order
-----------------------------------------------------------------------------
(***************************************************************************)
(* Reading, step by step.                                                  *)
(***************************************************************************)
LEMMA OverrunMore ==
  ASSUME Types, NEW t \in Turn, NEW x \in FrameType, told' = [told EXCEPT ![t] = Append(@, x)]
  PROVE  /\ \A u \in Turn : Overrun(u) => Overrun(u)'
         /\ Tells(t, TurnEnd) => Overrun(t)'
<1> DEFINE n == Len(told[t])
<1>1. /\ n \in Nat /\ Len(told'[t]) = n + 1 /\ \A k \in 1..n : told'[t][k] = told[t][k]
      /\ \A u \in Turn : u # t => told'[u] = told[u]
  BY Appended
<1>2. Tells(t, TurnEnd) <=> \E k \in 1..n : told[t][k] \in TurnEnd
  BY DEF Tells
<1>3. Overrun(t) => \E k \in 1..n : told[t][k] \in TurnEnd
  BY DEF Overrun
<1> HIDE DEF n
<1>4. \A k \in 1..n : k \in 1..(n + 1) /\ k < n + 1
  BY <1>1
<1>5. Tells(t, TurnEnd) => Overrun(t)'
  BY <1>1, <1>2, <1>4 DEF Overrun
<1>6. Overrun(t) => Overrun(t)'
  BY <1>2, <1>3, <1>5
<1> QED BY <1>1, <1>5, <1>6 DEF Overrun

(* Something is read, or nothing happens here. *)
LEMMA ReadingKept ==
  ASSUME Types, Reading, UNCHANGED <<req, result, told>>,
         down' = down \/ (down # <<>> /\ down' = Tail(down)),
         \/ mode' = mode /\ link' = link
         \/ mode' \in {mode, "idle"} /\ link' # "open"
  PROVE  Reading'
<1>1. /\ Sent' = Sent
      /\ \A u, types : Tells(u, types)' <=> Tells(u, types)
      /\ \A u : Overrun(u)' <=> Overrun(u)
  BY DEF Sent, Tells, Overrun
<1>2. Unread'
  <2>1. CASE down' = down
    BY <1>1, <2>1 DEF Reading, Unread
  <2>2. CASE down # <<>> /\ down' = Tail(down)
    <3>1. /\ \A i \in 1..Len(down') : down'[i] = down[i + 1] /\ i + 1 \in 1..Len(down)
          /\ \A i, j \in 1..Len(down') : i < j => i + 1 < j + 1
      BY <2>2, RestType DEF Types, TypeOK
    <3> QED BY <1>1, <3>1 DEF Reading, Unread
  <2> QED BY <2>1, <2>2
<1>3. Results'
  BY <1>1 DEF Reading, Results
<1>4. TurnsDoNotMix'
  BY <1>1 DEF Reading, TurnsDoNotMix
<1> QED BY <1>2, <1>3, <1>4 DEF Reading

LEMMA ReadingSend ==
  ASSUME Types, Types', Reading, UNCHANGED <<result, told, down, link>>,
         mode = "idle", link = "open", mode' = "turn",
         Len(req') = Len(req) + 1, \A t \in Sent : req'[t] = req[t]
  PROVE  Reading'
<1>1. Len(req) \in Nat
  BY DEF Types, TypeOK
<1>2. /\ Sent \subseteq Sent' /\ \A t \in Sent' : t \in Sent \/ t = Len(req) + 1
      /\ \A t \in Sent : t < Len(req) + 1 /\ (t < Len(req) \/ t = Len(req))
      /\ Len(req) + 1 \in Turn
  BY <1>1 DEF Sent, Types, Turn
<1>3. /\ \A u, types : Tells(u, types)' <=> Tells(u, types)
      /\ \A u : Overrun(u)' <=> Overrun(u)
  BY DEF Tells, Overrun
<1>4. result[Len(req) + 1].turn = 0 /\ result[Len(req) + 1].type = "none"
  BY <1>1, <1>2 DEF Reading, Results
<1>5. Unread'
  BY <1>2, <1>3 DEF Reading, Unread
<1>6. Results'
  <2>1. \A t \in Sent : result[t].type \notin {"none", "failed"}
    BY <1>2 DEF Reading, Results
  <2>2. ASSUME NEW t \in Sent'
        PROVE  /\ result[t].turn = t => Tells(t, TurnEnd)
               /\ result[t].turn = 0 => result[t].type \in {"none", "failed", "cancelled", "limit"}
               /\ t < Len(req) + 1 => result[t].type \notin {"none", "failed"}
    <3>1. CASE t \in Sent
      BY <2>1, <3>1 DEF Reading, Results
    <3>2. CASE t = Len(req) + 1
      BY <1>1, <1>4, <3>2
    <3> QED BY <1>2, <3>1, <3>2
  <2>3. \A t \in Turn : t > Len(req) + 1 => t > Len(req)
    BY <1>1 DEF Turn
  <2> QED BY <1>1, <1>3, <2>2, <2>3 DEF Reading, Results
<1>7. TurnsDoNotMix'
  <2> SUFFICES ASSUME NEW t \in Sent', result[t].turn \notin {0, t}
               PROVE  \E u \in Sent' : u < t /\ (result[u].type \in {"cancelled", "limit"} \/ Overrun(u))
    BY <1>3 DEF TurnsDoNotMix
  <2>1. t \in Sent
    BY <1>2, <1>4
  <2> QED BY <1>2, <2>1 DEF Reading, TurnsDoNotMix
<1> QED BY <1>5, <1>6, <1>7 DEF Reading

(* The session writes a frame of its turn, or a notice to no turn. *)
LEMMA ReadingWrites ==
  ASSUME Types, Order, Reading, UNCHANGED <<req, result, mode, link>>,
         NEW f \in [turn: 0..MaxTurns, type: FrameType \cup {"ping"}], down' = Append(down, f),
         \/ f.turn = 0 /\ f.type \in {"ping", "limit"} /\ told' = told
         \/ /\ f.turn = turn /\ pc \in Active /\ f.type \in FrameType
            /\ told' = [told EXCEPT ![turn] = Append(@, f.type)]
  PROVE  Reading'
<1>1. Sent' = Sent /\ \A u \in Sent : u \in Turn /\ u # 0
  BY SettingsAssumption DEF Sent, Types, TypeOK, Turn
<1>2. /\ \A u \in Turn : Overrun(u) => Overrun(u)'
      /\ \A u \in Turn : Tells(u, TurnEnd) => Tells(u, TurnEnd)'
      /\ f.turn # 0 => /\ f.turn \in Sent
                       /\ f.type \in TurnEnd => Tells(f.turn, TurnEnd)'
                       /\ Tells(f.turn, TurnEnd) => Overrun(f.turn)'
  <2>1. CASE f.turn = 0 /\ told' = told
    BY <2>1 DEF Overrun, Tells
  <2>2. CASE /\ f.turn = turn /\ pc \in Active /\ f.type \in FrameType
             /\ told' = [told EXCEPT ![turn] = Append(@, f.type)]
    <3> DEFINE t == f.turn
    <3>1. t \in Turn /\ t \in Sent /\ told' = [told EXCEPT ![t] = Append(@, f.type)]
      BY <2>2, InTurnType
    <3>2. /\ \A u \in Turn : Overrun(u) => Overrun(u)'
          /\ Tells(t, TurnEnd) => Overrun(t)'
      BY <2>2, <3>1, OverrunMore
    <3>3. \A u \in Turn : \A types : Tells(u, types)' <=> Tells(u, types) \/ (u = t /\ f.type \in types)
      BY <2>2, <3>1, TellsMore
    <3> QED BY <3>1, <3>2, <3>3
  <2> QED BY <2>1, <2>2
<1>3. /\ Len(down) \in Nat /\ Len(down') = Len(down) + 1 /\ down'[Len(down) + 1] = f
      /\ \A i \in 1..Len(down) : down'[i] = down[i]
  BY DEF Types, TypeOK
<1>4. \A i \in 1..Len(down') : i \in 1..Len(down) \/ i = Len(down) + 1
  BY <1>3
<1>5. Unread'
  <2> SUFFICES ASSUME NEW i \in 1..Len(down'), NEW u, u = down'[i].turn
               PROVE  /\ u = 0 => down'[i].type \in {"ping", "limit"}
                      /\ u # 0 =>
                           /\ u \in Sent
                           /\ down'[i].type \in TurnEnd => Tells(u, TurnEnd)'
                           /\ result[u].turn = u => Overrun(u)'
                           /\ \A j \in 1..Len(down') :
                                i < j /\ down'[j].turn = u /\ down'[i].type \in TurnEnd => Overrun(u)'
    BY <1>1 DEF Unread
  <2>1. CASE i \in 1..Len(down)
    <3>1. down'[i] = down[i]
      BY <1>3, <2>1
    <3>2. ASSUME NEW j \in 1..Len(down'), u # 0, i < j, down'[j].turn = u, down[i].type \in TurnEnd
          PROVE  Overrun(u)'
      <4>1. CASE j \in 1..Len(down)
        BY <1>1, <1>2, <1>3, <2>1, <3>1, <3>2, <4>1 DEF Reading, Unread
      <4>2. CASE j = Len(down) + 1
        BY <1>2, <1>3, <2>1, <3>1, <3>2, <4>2 DEF Reading, Unread
      <4> QED BY <1>4, <4>1, <4>2
    <3>3. u = 0 => down[i].type \in {"ping", "limit"}
      BY <2>1, <3>1 DEF Reading, Unread
    <3>4. u # 0 => /\ u \in Sent
                   /\ down[i].type \in TurnEnd => Tells(u, TurnEnd)'
                   /\ result[u].turn = u => Overrun(u)'
      BY <1>1, <1>2, <2>1, <3>1 DEF Reading, Unread
    <3> QED BY <3>1, <3>2, <3>3, <3>4
  <2>2. CASE i = Len(down) + 1
    <3>1. u = f.turn /\ down'[i].type = f.type
      BY <1>3, <2>2
    <3>2. \A j \in 1..Len(down') : ~(i < j)
      BY <1>3, <2>2
    <3>3. u # 0 => (result[u].turn = u => Overrun(u)')
      BY <1>2, <3>1 DEF Reading, Results
    <3>4. u = 0 => f.type \in {"ping", "limit"}
      BY <3>1, SettingsAssumption, InTurnType DEF Turn
    <3> QED BY <1>2, <3>1, <3>2, <3>3, <3>4
  <2> QED BY <1>4, <2>1, <2>2
<1>6. Results'
  BY <1>1, <1>2 DEF Reading, Results
<1>7. TurnsDoNotMix'
  BY <1>1, <1>2 DEF Reading, TurnsDoNotMix
<1> QED BY <1>5, <1>6, <1>7 DEF Reading

(* A Turn ends. *)
LEMMA ReadingEnds ==
  ASSUME Types, Reading, mode = "turn", NEW r, EndTurn(r), UNCHANGED <<req, told, link>>,
         \/ r.turn = 0 /\ r.type = "failed" /\ link # "open" /\ down' = down
         \/ r.turn = 0 /\ r.type = "cancelled" /\ down' = down
         \/ down # <<>> /\ r = Head(down) /\ down' = Tail(down) /\ EndsTurn(r.type)
  PROVE  Reading'
<1> DEFINE t == Len(req)
<1>1. /\ t \in Turn /\ t \in Sent /\ Sent' = Sent /\ \A u \in Sent : u \in Turn /\ (u < t \/ u = t)
  BY SettingsAssumption DEF Reading, Results, Types, TypeOK, Turn, Sent
<1>9. t \in Nat /\ t > 0
  BY <1>1 DEF Turn
<1>10. \A u \in Sent : u \in Nat
  BY DEF Sent
<1>2. /\ result'[t] = r /\ mode' = "idle"
      /\ \A u \in Turn : u # t => result'[u] = result[u]
  BY <1>1 DEF EndTurn, Types, TypeOK
<1>3. /\ \A u, types : Tells(u, types)' <=> Tells(u, types)
      /\ \A u : Overrun(u)' <=> Overrun(u)
  BY DEF Tells, Overrun
<1> HIDE DEF t
<1>4. ASSUME down # <<>>, r = Head(down), EndsTurn(r.type)
      PROVE  /\ r = down[1] /\ 1 \in 1..Len(down) /\ r.type \in TurnEnd
             /\ r.turn = 0 => r.type = "limit"
             /\ r.turn = t => Tells(t, TurnEnd)
             /\ r.turn \notin {0, t} =>
                  \E u \in Sent : u < t /\ (result[u].type \in {"cancelled", "limit"} \/ Overrun(u))
  <2>1. r = down[1] /\ 1 \in 1..Len(down) /\ r.type \in TurnEnd /\ r.type # "ping"
    BY <1>4, RestType DEF Types, TypeOK, EndsTurn, TurnEnd, Terminal, ErrorFrame, Unnamed
  <2>2. /\ r.turn = 0 => r.type = "limit"
        /\ r.turn # 0 => /\ r.turn \in Sent /\ Tells(r.turn, TurnEnd)
                         /\ result[r.turn].turn = r.turn => Overrun(r.turn)
    BY <2>1 DEF Reading, Unread
  <2>3. ASSUME r.turn \notin {0, t}
        PROVE  \E u \in Sent : u < t /\ (result[u].type \in {"cancelled", "limit"} \/ Overrun(u))
    <3> DEFINE v == r.turn
    <3>1. v \in Sent /\ v < t /\ (result[v].turn = v => Overrun(v))
      BY <1>1, <2>2, <2>3
    <3>2. result[v].type \notin {"none", "failed"}
      BY <3>1 DEF Reading, Results, t
    <3>3. CASE result[v].turn = v
      BY <3>1, <3>3
    <3>4. CASE result[v].turn = 0
      BY <3>1, <3>2, <3>4 DEF Reading, Results
    <3>5. CASE result[v].turn \notin {0, v}
      <4>1. PICK u \in Sent : u < v /\ (result[u].type \in {"cancelled", "limit"} \/ Overrun(u))
        BY <3>1, <3>5 DEF Reading, TurnsDoNotMix
      <4>2. u < t
        <5>1. u \in Nat /\ v \in Nat
          BY <1>10, <3>1
        <5> QED BY <1>9, <3>1, <4>1, <5>1
      <4> QED BY <4>1, <4>2
    <3> QED BY <3>3, <3>4, <3>5
  <2> QED BY <1>9, <2>1, <2>2, <2>3
<1>5. \/ r.turn = 0 /\ r.type = "failed" /\ link # "open" /\ down' = down
      \/ r.turn = 0 /\ r.type = "cancelled" /\ down' = down
      \/ down # <<>> /\ r = Head(down) /\ down' = Tail(down) /\ EndsTurn(r.type)
  OBVIOUS
<1>6. Unread'
  <2> SUFFICES ASSUME NEW i \in 1..Len(down'), NEW u, u = down'[i].turn
               PROVE  /\ u = 0 => down'[i].type \in {"ping", "limit"}
                      /\ u # 0 =>
                           /\ u \in Sent
                           /\ down'[i].type \in TurnEnd => Tells(u, TurnEnd)
                           /\ result'[u].turn = u => Overrun(u)
                           /\ \A j \in 1..Len(down') :
                                i < j /\ down'[j].turn = u /\ down'[i].type \in TurnEnd => Overrun(u)
    BY <1>1, <1>3 DEF Unread
  <2>1. CASE down' = down /\ r.turn = 0
    BY <1>1, <1>2, <2>1 DEF Reading, Unread
  <2>2. CASE down # <<>> /\ r = Head(down) /\ down' = Tail(down) /\ EndsTurn(r.type)
    <3>1. /\ \A k \in 1..Len(down') : down'[k] = down[k + 1] /\ k + 1 \in 1..Len(down)
          /\ \A k, l \in 1..Len(down') : k < l => k + 1 < l + 1
          /\ 1 < i + 1
      BY <2>2, RestType DEF Types, TypeOK
    <3>2. /\ u = 0 => down'[i].type \in {"ping", "limit"}
          /\ u # 0 =>
               /\ u \in Sent
               /\ down'[i].type \in TurnEnd => Tells(u, TurnEnd)
               /\ result[u].turn = u => Overrun(u)
               /\ \A j \in 1..Len(down') :
                    i < j /\ down'[j].turn = u /\ down'[i].type \in TurnEnd => Overrun(u)
      BY <3>1 DEF Reading, Unread
    <3>3. u # 0 /\ u = t /\ r.turn = t => Overrun(u)
      BY <1>4, <2>2, <3>1 DEF Reading, Unread
    <3> QED BY <1>1, <1>2, <3>2, <3>3
  <2> QED BY <1>5, <2>1, <2>2
<1>7. Results'
  <2>1. ASSUME NEW u \in Sent
        PROVE  /\ result'[u].turn = u => Tells(u, TurnEnd)
               /\ result'[u].turn = 0 => result'[u].type \in {"none", "failed", "cancelled", "limit"}
               /\ u < t \/ link = "open" => result'[u].type \notin {"none", "failed"}
    <3>1. CASE u = t
      <4>1. t # 0 /\ ~(t < t)
        BY <1>1 DEF Turn
      <4> QED BY <1>2, <1>4, <1>5, <3>1, <4>1 DEF TurnEnd, Terminal, ErrorFrame, Unnamed
    <3>2. CASE u # t
      BY <1>1, <1>2, <3>2 DEF Reading, Results, t
    <3> QED BY <3>1, <3>2
  <2>2. \A u \in Turn : u > t => result'[u].turn = 0 /\ result'[u].type = "none"
    BY <1>1, <1>2 DEF Reading, Results, t
  <2> QED BY <1>1, <1>2, <1>3, <2>1, <2>2 DEF Results, t
<1>8. TurnsDoNotMix'
  <2> SUFFICES ASSUME NEW w \in Sent, result'[w].turn \notin {0, w}
               PROVE  \E u \in Sent : u < w /\ (result'[u].type \in {"cancelled", "limit"} \/ Overrun(u))
    BY <1>1, <1>3 DEF TurnsDoNotMix
  <2>1. \E u \in Sent : u < w /\ (result[u].type \in {"cancelled", "limit"} \/ Overrun(u))
    <3>1. CASE w = t
      BY <1>2, <1>4, <1>5, <3>1
    <3>2. CASE w # t
      BY <1>1, <1>2, <3>2 DEF Reading, TurnsDoNotMix
    <3> QED BY <3>1, <3>2
  <2>2. \A u \in Sent : u < w => result'[u] = result[u]
    <3> SUFFICES ASSUME NEW u \in Sent, u < w
                 PROVE  result'[u] = result[u]
      OBVIOUS
    <3>1. u \in Nat /\ w \in Nat /\ (w < t \/ w = t)
      BY <1>1 DEF Turn
    <3>2. u # t
      BY <1>9, <3>1
    <3> QED BY <1>1, <1>2, <3>2
  <2> QED BY <2>1, <2>2
<1> QED BY <1>6, <1>7, <1>8 DEF Reading
-----------------------------------------------------------------------------
(***************************************************************************)
(* A step of the session or of its adapter: what it leaves to show is that *)
(* the stores and the turn have their types, and Server.                   *)
(***************************************************************************)
SessionFrame == UNCHANGED <<clientVars, readerVars, up, turn, ping, set>>

LEMMA ReadingSession ==
  ASSUME Types, Order, Reading, pc \in Active, SessionFrame,
         Silent \/ Ends \/ (\E x \in FrameType : Writes(x))
  PROVE  Reading'
<1> USE DEF SessionFrame, clientVars
<1>1. CASE Silent
  BY <1>1, ReadingKept DEF Silent
<1>2. CASE Ends
  BY <1>2, ReadingKept DEF Ends, EndSession, Link, Types, TypeOK
<1>3. ASSUME NEW x \in FrameType, Writes(x)
      PROVE  Reading'
  <2> DEFINE f == [turn |-> turn, type |-> x]
  <2>1. turn \in Turn /\ turn \in 0..MaxTurns /\ turn # 0
    BY InTurnType DEF Types, TypeOK, Turn
  <2>2. PICK g \in [turn: 0..MaxTurns, type: FrameType \cup {"ping"}] :
          g.turn = turn /\ g.type = x /\ down' = Append(down, g)
    BY <1>3, <2>1 DEF Writes, PutFrame
  <2>3. told' = [told EXCEPT ![turn] = Append(@, x)]
    BY <1>3, <2>1 DEF Writes, PutFrame
  <2> QED BY <1>3, <2>2, <2>3, ReadingWrites DEF Writes
<1> QED BY <1>1, <1>2, <1>3

LEMMA SessionStep ==
  ASSUME IInv, pc \in Active, SessionFrame, Types', Server', pc' \in Active \cup {"waiting", "over"},
         Silent \/ Ends \/ (\E x \in FrameType : Writes(x))
  PROVE  IInv'
<1>1. Order'
  BY OrderKept DEF IInv, SessionFrame, clientVars, readerVars
<1>2. Reading'
  BY ReadingSession DEF IInv
<1> QED BY <1>1, <1>2 DEF IInv

LEMMA ErrorWritten ==
  ASSUME NEW x \in ErrorFrame, WriteError(x)
  PROVE  /\ x \in FrameType
         /\ \/ Writes(x) /\ pc' = "waiting"
            \/ Ends /\ pc' = "over"
BY DEF WriteError, Writes, Ends, EndSession, FrameType

LEMMA PrevType ==
  ASSUME Types, Order, pc \in Active
  PROVE  Prev \in 0..MaxTurns + 1 /\ (Prev # None => Prev \in Ids) /\ req[turn] \in Request
<1>1. req \in Seq(Request) /\ turn \in 1..Len(req)
  BY InTurnType DEF Types, TypeOK, Request, Sent
<1>2. req[turn] \in Request
  BY <1>1
<1>3. Prev \in 0..MaxTurns + 1
  BY <1>2 DEF Request, Prev
<1> QED BY <1>2, <1>3 DEF None, Ids

(* The continued response is forgotten, or stays. *)
CacheForgets ==
  /\ StoreOK(cache', Turn) /\ Ascending(cache'.order) /\ Len(cache'.order) <= CacheSize
  /\ dropped' \subseteq Ids

LEMMA Forgetting ==
  ASSUME Types, Order, pc \in Active,
         \/ cache' = cache /\ dropped' = dropped
         \/ cache' = Store!Deleted(cache, Prev) /\ dropped' = dropped \cup {Prev} /\ Prev # None
  PROVE  CacheForgets
<1> USE DEF CacheForgets
<1>1. CASE cache' = cache /\ dropped' = dropped
  BY <1>1 DEF Types, TypeOK
<1>2. CASE cache' = Store!Deleted(cache, Prev) /\ dropped' = dropped \cup {Prev} /\ Prev # None
  <2>1. Turn \in SUBSET Nat /\ StoreOK(cache, Turn) /\ Ascending(cache.order)
    BY DEF Types, Turn
  <2>2. StoreOK(cache', Turn) /\ Ascending(cache'.order) /\ Len(cache'.order) <= Len(cache.order)
    BY <1>2, <2>1, DeletedStore
  <2>3. Len(cache.order) \in Nat /\ Len(cache'.order) \in Nat /\ Len(cache.order) <= CacheSize
    BY <2>1, <2>2 DEF StoreOK, Types, TypeOK
  <2>4. dropped' \subseteq Ids
    BY <1>2, PrevType DEF Types, TypeOK
  <2> QED BY <2>2, <2>3, <2>4, SettingsAssumption
<1> QED BY <1>1, <1>2

(* The turn fails, for the client or because it cannot be told. *)
LEMMA FailStep ==
  ASSUME IInv, pc \in Active, SessionFrame, UNCHANGED <<sink, resolved, conv, shared>>,
         pc = "resolving" \/ ~sink.terminal,
         \/ Ends /\ pc' = "over"
         \/ \E x \in ErrorFrame : WriteError(x) /\ (x = "not_found" => Prev \notin DOMAIN cache.items),
         \/ cache' = cache /\ dropped' = dropped
         \/ cache' = Store!Deleted(cache, Prev) /\ dropped' = dropped \cup {Prev} /\ Prev # None
  PROVE  IInv'
<1>1. Types /\ Order /\ Server /\ turn \in Turn /\ turn' = turn
  BY InTurnType DEF IInv, SessionFrame
<1>2. \/ Ends /\ pc' = "over"
      \/ \E x \in ErrorFrame : /\ Writes(x) /\ x \in FrameType /\ pc' = "waiting"
                               /\ x = "not_found" => Prev \notin DOMAIN cache.items
  BY ErrorWritten
<1>3. CacheForgets
  BY <1>1, Forgetting
<1>4. Types'
  BY <1>1, <1>2, <1>3, SessionTypes DEF SessionFrame, CacheForgets, Types, TypeOK
<1>5. Without(turn, Len(told[turn]))
  <2>1. CASE pc = "resolving"
    BY <1>1, <2>1 DEF Server, Fresh, Without
  <2>2. CASE pc # "resolving"
    BY <1>1, <2>2 DEF Server, Outcome, Active, Working
  <2> QED BY <2>1, <2>2
<1>6. Server'
  <2>1. UNCHANGED <<set, req, turn, shared>> /\ pc' \notin Active
    BY <1>2 DEF SessionFrame, clientVars, Active
  <2>2. \/ told' = told
        \/ \E x \in ErrorFrame :
             /\ told' = [told EXCEPT ![turn] = Append(@, x)]
             /\ x = "not_found" => Prev \notin DOMAIN cache.items
    BY <1>1, <1>2 DEF Ends, Writes, PutFrame, Turn
  <2> QED BY <1>1, <1>4, <1>5, <2>1, <2>2, ServerFails
<1> QED BY <1>2, <1>4, <1>6, SessionStep DEF Active

(* The turn goes on, and nothing is written. *)
LEMMA MoveStep ==
  ASSUME IInv, pc \in Active, SessionFrame, Silent, UNCHANGED storedVars,
         pc' \in Working, pc' = "saving" => sink.terminal,
         Whole(conv', turn), resolved' \in BOOLEAN, resolved' => Prev # None,
         sink' \in TurnSink, sink'.terminal = sink.terminal, sink'.acc = sink.acc,
         sink'.failed => ~sink.terminal
  PROVE  IInv'
<1>1. Types /\ Order /\ Server
  BY DEF IInv
<1>2. Types'
  BY <1>1, SessionTypes DEF SessionFrame, storedVars, Types, TypeOK, Whole, Working, Active
<1>3. Server'
  BY <1>1, ServerMoves DEF SessionFrame, clientVars, Silent, storedVars
<1> QED BY <1>2, <1>3, SessionStep DEF Working

(* The turn goes on with an event. *)
LEMMA TellStep ==
  ASSUME IInv, pc \in Working, SessionFrame, UNCHANGED <<storedVars, conv, resolved>>,
         pc' \in Working, ~sink.terminal, sink' \in TurnSink, ~sink'.failed,
         NEW x \in FrameType, x # "not_found", Writes(x),
         \/ x \notin Last /\ ~sink'.terminal /\ pc' # "saving"
         \/ /\ sink'.terminal
            /\ \/ x \in {"response.completed", "response.incomplete"} /\ IsSaved'
               \/ x \in {"response.failed", Unnamed} /\ ~IsSaved'
  PROVE  IInv'
<1>1. Types /\ Order /\ Server /\ pc \in Active /\ turn \in Turn
  BY InTurnType DEF IInv, Working
<1>2. Types'
  BY <1>1, SessionTypes DEF SessionFrame, storedVars, Types, TypeOK, Working, Active
<1>3. told' = [told EXCEPT ![turn] = Append(@, x)]
  BY <1>1 DEF Writes, PutFrame, Turn
<1>4. Server'
  BY <1>1, <1>3, ServerTells DEF SessionFrame, clientVars, storedVars
<1> QED BY <1>1, <1>2, <1>4, SessionStep DEF Working
-----------------------------------------------------------------------------
(***************************************************************************)
(* The actions.                                                            *)
(***************************************************************************)
LEMMA ClientStep ==
  ASSUME IInv, Client
  PROVE  IInv'
<1> USE DEF clientVars, wireVars, readerVars, turnVars, storeVars, sessionVars, storedVars
<1>1. Types /\ Types' /\ Order /\ Server /\ Reading
  BY ClientTypes DEF IInv
<1>2. ASSUME SendTurn
      PROVE  IInv'
  <2>1. PICK r \in Request : /\ req' = Append(req, r) /\ (Known(r.prev) \/ r.prev = None)
    <3>1. PICK prev \in {None} \cup {t \in Ids : Known(t)}, keep \in BOOLEAN, bad \in BOOLEAN :
            req' = Append(req, [prev |-> prev, store |-> keep, bad |-> bad])
      BY <1>2 DEF SendTurn
    <3>2. prev \in 0..MaxTurns + 1 /\ (Known(prev) \/ prev = None)
      BY SettingsAssumption DEF None, Ids
    <3>3. [prev |-> prev, store |-> keep, bad |-> bad] \in Request
      BY <3>2 DEF Request
    <3> QED BY <3>1, <3>2, <3>3
  <2>2. Len(req') = Len(req) + 1 /\ \A t \in Sent : req'[t] = req[t]
    BY <1>1, <2>1 DEF Types, TypeOK, Request, Sent
  <2>3. Order'
    BY <1>1, <1>2, <2>2, OrderSend DEF SendTurn
  <2>4. Server'
    BY <1>1, <1>2, <2>1, ServerSend DEF SendTurn
  <2>5. Reading'
    BY <1>1, <1>2, <2>2, ReadingSend DEF SendTurn
  <2> QED BY <1>1, <2>3, <2>4, <2>5 DEF IInv
<1>3. ASSUME NextFrame \/ NextFails \/ GiveUp \/ AnswerPing \/ Leave
      PROVE  IInv'
  <2>1. Server'
    BY <1>1, <1>3, ServerElsewhere DEF NextFrame, NextFails, GiveUp, AnswerPing, Leave
  <2>2. Order'
    <3>1. CASE AnswerPing
      BY <1>1, <3>1, OrderPong DEF AnswerPing
    <3>2. CASE NextFrame \/ NextFails \/ GiveUp \/ Leave
      BY <1>1, <3>2, OrderKept DEF NextFrame, NextFails, GiveUp, Leave
    <3> QED BY <1>3, <3>1, <3>2
  <2>3. Reading'
    <3>1. CASE NextFrame
      <4>1. CASE EndsTurn(Head(down).type)
        BY <1>1, <3>1, <4>1, ReadingEnds DEF NextFrame
      <4>2. CASE ~EndsTurn(Head(down).type)
        BY <1>1, <3>1, <4>2, ReadingKept DEF NextFrame
      <4> QED BY <4>1, <4>2
    <3>2. CASE NextFails
      <4>1. PICK r : r.turn = 0 /\ r.type = "failed" /\ EndTurn(r)
        BY <3>2 DEF NextFails
      <4> QED BY <1>1, <3>2, <4>1, ReadingEnds DEF NextFails
    <3>3. CASE GiveUp
      <4>1. PICK r : r.turn = 0 /\ r.type = "cancelled" /\ EndTurn(r)
        BY <3>3 DEF GiveUp
      <4> QED BY <1>1, <3>3, <4>1, ReadingEnds DEF GiveUp
    <3>4. CASE AnswerPing
      BY <1>1, <3>4, ReadingKept DEF AnswerPing
    <3>5. CASE Leave
      BY <1>1, <3>5, ReadingKept DEF Leave
    <3> QED BY <1>3, <3>1, <3>2, <3>3, <3>4, <3>5
  <2> QED BY <1>1, <2>1, <2>2, <2>3 DEF IInv
<1> QED BY <1>2, <1>3 DEF Client

LEMMA ServersStep ==
  ASSUME IInv, ReadFrame \/ ReaderStops \/ Expire \/ ExpireCloses \/ SendPing \/ PingFails
  PROVE  IInv'
<1> USE DEF clientVars, wireVars, readerVars, turnVars, storeVars, sessionVars, storedVars
<1>1. Types /\ Types' /\ Order /\ Server /\ Reading
  BY ServerTypes DEF IInv
<1>2. told' = told
  BY DEF ReadFrame, ReaderStops, Expire, ExpireCloses, SendPing, PingFails, PutFrame
<1>3. Server'
  BY <1>1, <1>2, ServerElsewhere
  DEF ReadFrame, ReaderStops, Expire, ExpireCloses, SendPing, PingFails
<1>4. Order'
  <2>1. CASE ReadFrame
    BY <1>1, <2>1, OrderRead
  <2>2. CASE ReaderStops \/ Expire \/ ExpireCloses \/ SendPing \/ PingFails
    BY <1>1, <2>2, OrderKept DEF ReaderStops, Expire, ExpireCloses, SendPing, PingFails
  <2> QED BY <2>1, <2>2
<1>5. Reading'
  <2>1. CASE ReadFrame \/ ReaderStops \/ PingFails
    BY <1>1, <2>1, ReadingKept DEF ReadFrame, ReaderStops, PingFails
  <2>2. CASE ExpireCloses
    BY <1>1, <2>2, ReadingKept DEF ExpireCloses
  <2>3. CASE Expire /\ link \notin {"open", "lost"}
    BY <1>1, <2>3, ReadingKept DEF Expire
  <2>4. CASE (Expire /\ link \in {"open", "lost"}) \/ SendPing
    <3>1. PICK f \in [turn: 0..MaxTurns, type: FrameType \cup {"ping"}] :
            f.turn = 0 /\ f.type \in {"ping", "limit"} /\ down' = Append(down, f)
      <4>1. /\ [turn |-> 0, type |-> "ping"] \in [turn: 0..MaxTurns, type: FrameType \cup {"ping"}]
            /\ [turn |-> 0, type |-> "limit"] \in [turn: 0..MaxTurns, type: FrameType \cup {"ping"}]
        BY SettingsAssumption DEF FrameType, ErrorFrame
      <4> QED BY <2>4, <4>1 DEF Expire, SendPing, PutFrame, Ping
    <3> QED BY <1>1, <1>2, <2>4, <3>1, ReadingWrites DEF Expire, SendPing
  <2> QED BY <2>1, <2>2, <2>3, <2>4
<1> QED BY <1>1, <1>3, <1>4, <1>5 DEF IInv

(* What the session does between turns. *)
LEMMA TakeStep ==
  ASSUME IInv, TakeFrame \/ FramesClosed
  PROVE  IInv'
<1> USE DEF clientVars, wireVars, readerVars, turnVars, storeVars, storedVars
<1>1. Types /\ Order /\ Server /\ Reading
  BY DEF IInv
<1>2. CASE TakeFrame
  <2>1. ahead \in Turn /\ ahead \in Ids /\ ahead \in 0..MaxTurns
    BY <1>1, <1>2, SettingsAssumption DEF TakeFrame, Order, Types, TypeOK, Turn, Ids
  <2>2. Types'
    <3>1. NewTurnSink \in TurnSink /\ <<ahead>> \in Seq(Ids)
      BY <2>1 DEF NewTurnSink, TurnSink, NoResponse, Status
    <3> QED BY <1>1, <1>2, <2>1, <3>1 DEF TakeFrame, Types, TypeOK
  <2>3. Order'
    BY <1>1, <1>2, OrderTake DEF TakeFrame
  <2>4. Server'
    BY <1>1, <1>2, ServerTake DEF TakeFrame
  <2>5. Reading'
    BY <1>1, <1>2, ReadingKept DEF TakeFrame
  <2> QED BY <2>2, <2>3, <2>4, <2>5 DEF IInv
<1>3. CASE FramesClosed
  <2>1. Types'
    BY <1>1, <1>3 DEF FramesClosed, EndSession, Link, Types, TypeOK
  <2>2. Order'
    BY <1>1, <1>3, OrderKept DEF FramesClosed, EndSession, Active
  <2>3. Server'
    BY <1>1, <1>3, ServerElsewhere DEF FramesClosed, EndSession, Active
  <2>4. Reading'
    BY <1>1, <1>3, ReadingKept DEF FramesClosed, EndSession, Link, Types, TypeOK
  <2> QED BY <2>1, <2>2, <2>3, <2>4 DEF IInv
<1> QED BY <1>2, <1>3

LEMMA ResolvingStep ==
  ASSUME IInv, RefuseFrame \/ Resolve \/ ResolveRejected \/ ResolveFailed \/ ResolveMissed
  PROVE  IInv'
<1> USE DEF storeVars, storedVars
<1>1. /\ Types /\ Order /\ Server /\ pc = "resolving" /\ pc \in Active
      /\ SessionFrame
  BY DEF IInv, RefuseFrame, Resolve, ResolveRejected, ResolveFailed, ResolveMissed, InTurn,
         SessionFrame, Active
<1>2. /\ conv = <<turn>> /\ resolved = FALSE /\ sink \in TurnSink /\ ~sink.failed
      /\ turn \in Sent /\ turn \in Turn /\ turn \in Ids
  BY <1>1, InTurnType, SettingsAssumption
  DEF Server, Conversations, Outcome, Types, TypeOK, Turn, Ids
<1>3. CASE RefuseFrame
  BY <1>1, <1>3, FailStep DEF RefuseFrame, ErrorFrame
<1>4. CASE Resolve
  <2>1. CASE Prev = None /\ UNCHANGED <<resolved, conv>>
    <3>1. Whole(conv, turn)
      BY <1>2, <2>1 DEF Whole, IsConversation, Starts, Prev
    <3>2. /\ Silent /\ UNCHANGED storedVars /\ sink' = sink /\ pc' \in Working /\ pc' # "saving"
          /\ Whole(conv', turn) /\ ~resolved' /\ resolved' \in BOOLEAN
      BY <1>2, <1>4, <2>1, <3>1 DEF Resolve, Quiet, Silent, Working, Active
    <3> QED BY <1>1, <1>2, <3>2, MoveStep
  <2>2. CASE Prev # None /\ (InCache \/ InShared) /\ resolved' = TRUE /\ conv' = Append(Past, turn)
    <3>1. Whole(Past, Prev)
      BY <1>1, <2>2 DEF Server, Conversations, Past, InCache, InShared, Store!Holds, Store!History
    <3> DEFINE h == Past
    <3>2. h \in Seq(Ids) /\ Len(h) \in Nat /\ Len(h) > 0 /\ h[Len(h)] = Prev
      BY <3>1, EmptySeq DEF Whole, IsConversation
    <3> HIDE DEF h
    <3>3. /\ Append(h, turn) \in Seq(Ids) /\ Len(Append(h, turn)) = Len(h) + 1
          /\ \A k \in 1..Len(h) : Append(h, turn)[k] = h[k]
          /\ Append(h, turn)[Len(h) + 1] = turn
      BY <1>2, <3>2, AppendProperties
    <3>4. Starts(h[1]) /\ h[1] \in Sent \cup {Elsewhere}
          /\ \A k \in 2..Len(h) : h[k] \in Sent /\ req[h[k]].prev = h[k - 1]
      BY <3>1 DEF Whole, IsConversation, h
    <3> DEFINE g == Append(h, turn)
    <3>5. Len(g) = Len(h) + 1 /\ g \in Seq(Ids) /\ g # <<>> /\ g[Len(g)] = turn /\ g[1] = h[1]
      BY <1>2, <3>2, <3>3, AppendProperties
    <3>6. ASSUME NEW k \in 2..Len(g)
          PROVE  g[k] \in Sent /\ req[g[k]].prev = g[k - 1]
      <4> HIDE DEF g
      <4>1. k - 1 \in 1..Len(h)
        BY <3>2, <3>5
      <4>2. g[k - 1] = h[k - 1]
        BY <3>3, <4>1 DEF g
      <4>3. CASE k = Len(h) + 1
        BY <1>2, <3>2, <3>3, <3>5, <4>2, <4>3 DEF Prev, g
      <4>4. CASE k # Len(h) + 1
        <5>1. k \in 2..Len(h) /\ k \in 1..Len(h)
          BY <3>2, <3>5, <4>4
        <5> QED BY <3>3, <3>4, <4>2, <5>1 DEF g
      <4> QED BY <4>3, <4>4
    <3>7. Whole(g, turn)
      BY <3>4, <3>5, <3>6 DEF Whole, IsConversation
    <3>8. Whole(conv', turn)
      BY <2>2, <3>7 DEF h
    <3>9. /\ Silent /\ UNCHANGED storedVars /\ sink' = sink /\ pc' \in Working /\ pc' # "saving"
          /\ resolved' \in BOOLEAN
      BY <1>4, <2>2 DEF Resolve, Quiet, Silent, Working, Active
    <3> QED BY <1>1, <1>2, <2>2, <3>8, <3>9, MoveStep
  <2> QED BY <1>4, <2>1, <2>2 DEF Resolve
<1>5. CASE ResolveRejected
  BY <1>1, <1>5, FailStep DEF ResolveRejected, Forget, ErrorFrame
<1>6. CASE ResolveFailed
  BY <1>1, <1>6, FailStep DEF ResolveFailed, ErrorFrame
<1>7. CASE ResolveMissed
  <2>1. CASE MissIsFinal
    BY <1>1, <1>7, <2>1, FailStep DEF ResolveMissed, ErrorFrame, InCache, Store!Holds
  <2>2. CASE ~MissIsFinal
    <3>1. Whole(conv, turn)
      BY <1>2, <2>2 DEF Whole, IsConversation, Starts, MissIsFinal
    <3>2. /\ Silent /\ UNCHANGED storedVars /\ sink' = sink /\ pc' \in Working /\ pc' # "saving"
          /\ Whole(conv', turn) /\ ~resolved' /\ resolved' \in BOOLEAN
      BY <1>2, <1>7, <2>2, <3>1 DEF ResolveMissed, Quiet, Silent, Working, Active
    <3> QED BY <1>1, <1>2, <3>2, MoveStep
  <2> QED BY <2>1, <2>2
<1> QED BY <1>3, <1>4, <1>5, <1>6, <1>7

LEMMA FoldingType ==
  ASSUME sink \in TurnSink, SinkAccepts(sink), NEW x \in EventType
  PROVE  /\ Folding(sink, x) \in TurnSink /\ ~Folding(sink, x).failed
         /\ Folding(sink, x).terminal = (x \in Terminal)
         /\ x \in Terminal => /\ Folding(sink, x).acc.id
                              /\ Folding(sink, x).acc.status = StatusOf(x)
<1> DEFINE Acc == [held: BOOLEAN, id: BOOLEAN, status: Status]
           a == Folded(sink.acc, x, TRUE)
<1>1. sink.acc \in Acc /\ sink.sent \in Nat /\ sink.failed = FALSE
  BY DEF TurnSink, SinkAccepts
<1>2. x \in Terminal => x \in WithID
  BY DEF WithID
<1>3. StatusOf(x) \in Status
  BY DEF StatusOf, Status
<1>6. a \in Acc /\ (x \in Terminal => a.id = TRUE /\ a.status = StatusOf(x))
  <2>1. CASE x \in WithID
    <3>1. a = Snapshot(TRUE, StatusOf(x))
      BY <2>1 DEF Folded, WithID, Terminal
    <3> HIDE DEF a
    <3> QED BY <1>3, <3>1 DEF Snapshot
  <2>2. CASE x \notin WithID /\ x = "error"
    BY <1>1, <1>2, <2>2 DEF Folded, Status
  <2>3. CASE x \notin WithID /\ x # "error"
    BY <1>1, <1>2, <2>3 DEF Folded, Snapshot, Status
  <2> QED BY <2>1, <2>2, <2>3
<1> HIDE DEF a
<1>4. /\ [sink EXCEPT !.acc = a] \in TurnSink /\ [sink EXCEPT !.acc = a].acc = a
      /\ [sink EXCEPT !.acc = a].failed = FALSE
  BY <1>1, <1>6 DEF TurnSink
<1>5. \A over \in BOOLEAN :
        LET s == [sink EXCEPT !.acc = a, !.terminal = over, !.sent = sink.sent + 1] IN
        s \in TurnSink /\ s.failed = FALSE /\ s.terminal = over /\ s.acc = a
  <2> SUFFICES ASSUME NEW over \in BOOLEAN, NEW s,
                      s = [sink EXCEPT !.acc = a, !.terminal = over, !.sent = sink.sent + 1]
               PROVE  s \in TurnSink /\ s.failed = FALSE /\ s.terminal = over /\ s.acc = a
    OBVIOUS
  <2>1. s.acc = a /\ s.terminal = over /\ s.failed = sink.failed /\ s.sent = sink.sent + 1
    BY DEF TurnSink
  <2>2. s = [acc |-> a, terminal |-> over, failed |-> sink.failed, sent |-> sink.sent + 1]
    BY <1>1 DEF TurnSink
  <2>3. sink.failed \in BOOLEAN
    BY <1>1
  <2>4. sink.sent + 1 \in Nat
    BY <1>1
  <2>5. s \in TurnSink
    BY <1>6, <2>2, <2>3, <2>4 DEF TurnSink
  <2> QED BY <1>1, <2>1, <2>5
<1>7. Folding(sink, x) = [sink EXCEPT !.acc = a, !.terminal = x \in Terminal, !.sent = sink.sent + 1]
  BY DEF Folding, a
<1>8. (x \in Terminal) \in BOOLEAN
  OBVIOUS
<1> QED BY <1>5, <1>6, <1>7, <1>8

LEMMA AdapterStep ==
  ASSUME IInv, Adapter
  PROVE  IInv'
<1> USE DEF storeVars, storedVars
<1>1. /\ Types /\ Order /\ Server /\ pc = "running" /\ pc \in Active /\ pc \in Working
      /\ SessionFrame
  BY DEF IInv, Adapter, AdapterReturns, AdapterSends, InTurn, SessionFrame, Active, Working
<1>2. /\ Whole(conv, turn) /\ resolved \in BOOLEAN /\ (resolved => Prev # None) /\ sink \in TurnSink
      /\ (sink.failed => ~sink.terminal)
  BY <1>1 DEF Server, Conversations, Outcome, Types, TypeOK, Prev
<1>3. CASE AdapterReturns
  <2>1. /\ Silent /\ UNCHANGED <<storedVars, conv, resolved>> /\ sink' = sink
        /\ pc' \in Working /\ pc' # "saving"
    BY <1>3 DEF AdapterReturns, Quiet, Silent, Working, Active
  <2> QED BY <1>1, <1>2, <2>1, MoveStep
<1>4. ASSUME NEW type \in set.events, AdapterSends(type)
      PROVE  IInv'
  <2>1. type \in EventType /\ type \in FrameType /\ type # "not_found"
    BY <1>1, SettingType DEF FrameType, EventType, WithID, Terminal
  <2>2. SinkAccepts(sink) /\ ~sink.terminal
    BY <1>4 DEF AdapterSends, SinkAccepts
  <2>3. CASE PutFrame(turn, type) /\ sink' = Folding(sink, type)
    <3>1. /\ sink' \in TurnSink /\ ~sink'.failed /\ sink'.terminal = (type \in Terminal)
          /\ type \in Terminal => sink'.acc.id /\ sink'.acc.status = StatusOf(type)
      BY <1>2, <2>1, <2>2, <2>3, FoldingType
    <3>2. type \in Terminal =>
            \/ type \in {"response.completed", "response.incomplete"} /\ IsSaved'
            \/ type \in {"response.failed", Unnamed} /\ ~IsSaved'
      BY <3>1 DEF IsSaved, StatusOf, Terminal
    <3>3. type \in Last <=> type \in Terminal
      BY <2>1 DEF Last, Unnamed, EventType, WithID, Terminal
    <3>4. Writes(type) /\ pc' \in Working /\ pc' # "saving" /\ UNCHANGED <<storedVars, conv, resolved>>
      BY <1>1, <1>4, <2>3 DEF AdapterSends, Writes
    <3> QED BY <1>1, <2>1, <2>2, <3>1, <3>2, <3>3, <3>4, TellStep
  <2>4. CASE sink' = [sink EXCEPT !.failed = TRUE] /\ UNCHANGED <<down, told>>
    <3>1. sink' \in TurnSink /\ sink'.terminal = sink.terminal /\ sink'.acc = sink.acc
      BY <1>2, <2>4 DEF TurnSink
    <3>2. Silent /\ pc' = pc /\ UNCHANGED <<storedVars, conv, resolved>>
      BY <1>4, <2>4 DEF AdapterSends, Silent
    <3>3. pc' \in Working /\ pc' # "saving" /\ Whole(conv', turn)
      BY <1>1, <1>2, <3>2
    <3> QED BY <1>1, <1>2, <2>2, <3>1, <3>2, <3>3, MoveStep
  <2>5. CASE sink' = [sink EXCEPT !.sent = @ + 1] /\ UNCHANGED <<down, told>>
    <3>1. sink' \in TurnSink /\ sink'.terminal = sink.terminal /\ sink'.acc = sink.acc /\ sink'.failed = sink.failed
      BY <1>2, <2>5 DEF TurnSink
    <3>2. Silent /\ pc' = pc /\ UNCHANGED <<storedVars, conv, resolved>>
      BY <1>4, <2>5 DEF AdapterSends, Silent
    <3>3. pc' \in Working /\ pc' # "saving" /\ Whole(conv', turn)
      BY <1>1, <1>2, <3>2
    <3> QED BY <1>1, <1>2, <2>2, <3>1, <3>2, <3>3, MoveStep
  <2> QED BY <1>4, <2>3, <2>4, <2>5 DEF AdapterSends
<1> QED BY <1>3, <1>4 DEF Adapter

(* What holds once a turn is past its continuation. *)
LEMMA AfterAdapter ==
  ASSUME IInv, pc \in Working, InTurn(pc)
  PROVE  /\ Types /\ Order /\ Server /\ pc \in Active /\ SessionFrame
         /\ Whole(conv, turn) /\ resolved \in BOOLEAN /\ (resolved => Prev # None)
         /\ sink \in TurnSink /\ (sink.failed => ~sink.terminal) /\ turn \in Turn
<1>1. Types /\ Order /\ Server /\ pc \in Active /\ SessionFrame
  BY DEF IInv, InTurn, SessionFrame, Active, Working
<1>2. turn \in Turn
  BY <1>1, InTurnType
<1> QED BY <1>1, <1>2 DEF Server, Conversations, Outcome, Types, TypeOK, Prev

(* After the adapter the turn fails, ... *)
LEMMA FailedStep ==
  ASSUME IInv, SinkFailed \/ TurnFailed
  PROVE  IInv'
<1> USE DEF storeVars
<1>1. pc \in Working /\ InTurn(pc)
  BY DEF SinkFailed, TurnFailed, InTurn, Active, Working
<1>2. /\ SessionFrame /\ pc \in Active /\ (sink.failed => ~sink.terminal) /\ resolved \in BOOLEAN
      /\ (resolved => Prev # None)
  BY <1>1, AfterAdapter
<1>3. CASE SinkFailed
  BY <1>2, <1>3, FailStep DEF SinkFailed, Ends, EndSession
<1>4. CASE TurnFailed
  BY <1>2, <1>4, FailStep DEF TurnFailed, ReportsError, Forget, ErrorFrame
<1> QED BY <1>3, <1>4

(* ... succeeds, ... *)
LEMMA SucceededStep ==
  ASSUME IInv, CompleteTurn \/ TurnDone
  PROVE  IInv'
<1> USE DEF storeVars, storedVars
<1>1. pc \in Working /\ InTurn(pc)
  BY DEF CompleteTurn, TurnDone, Succeeded, InTurn, Active, Working
<1>2. /\ SessionFrame /\ pc \in Active /\ sink \in TurnSink
      /\ Whole(conv, turn) /\ resolved \in BOOLEAN /\ (resolved => Prev # None)
  BY <1>1, AfterAdapter
<1>3. ~sink.failed
  BY DEF CompleteTurn, TurnDone, Succeeded
<1>4. CASE TurnDone
  <2>1. /\ Silent /\ UNCHANGED storedVars /\ conv' = conv /\ resolved' = resolved /\ sink' = sink
        /\ pc' \in Working /\ sink.terminal
    BY <1>4 DEF TurnDone, Quiet, Silent, Working, Active
  <2> QED BY <1>2, <1>3, <2>1, MoveStep
<1>5. CASE CompleteTurn /\ EndSession /\ UNCHANGED <<down, told, sink>>
  <2>1. Ends /\ pc' = "over" /\ ~sink.terminal /\ UNCHANGED <<sink, resolved, conv, shared, cache, dropped>>
    BY <1>5 DEF CompleteTurn, Ends, EndSession
  <2> QED BY <1>2, <2>1, FailStep
<1>6. ASSUME CompleteTurn, NEW named \in BOOLEAN,
             PutFrame(turn, IF named THEN "response.completed" ELSE Unnamed),
             sink' = [sink EXCEPT !.acc = Snapshot(named, "completed"), !.terminal = TRUE],
             pc' = "saving", UNCHANGED <<link, cancelled, timer>>
      PROVE  IInv'
  <2> DEFINE a == Snapshot(named, "completed")
             x == IF named THEN "response.completed" ELSE Unnamed
  <2>1. a \in [held: BOOLEAN, id: BOOLEAN, status: Status] /\ a.id = named /\ a.status = "completed"
    BY DEF Snapshot, Status
  <2> HIDE DEF a
  <2>2. sink' \in TurnSink /\ sink'.terminal = TRUE /\ sink'.failed = sink.failed /\ sink'.acc = a
    BY <1>2, <1>6, <2>1 DEF TurnSink, a
  <2>3. /\ x \in FrameType /\ x # "not_found" /\ pc' \in Working /\ ~sink.terminal
        /\ UNCHANGED <<storedVars, conv, resolved>> /\ Writes(x)
    BY <1>6 DEF CompleteTurn, FrameType, EventType, WithID, Terminal, Unnamed, Working, Active, Writes
  <2>4. \/ x \in {"response.completed", "response.incomplete"} /\ IsSaved'
        \/ x \in {"response.failed", Unnamed} /\ ~IsSaved'
    <3>1. CASE named
      <4>1. sink'.acc.id = TRUE /\ sink'.acc.status = "completed"
        BY <2>1, <2>2, <3>1
      <4> QED BY <3>1, <4>1 DEF IsSaved
    <3>2. CASE ~named
      <4>1. sink'.acc.id = FALSE
        BY <2>1, <2>2, <3>2
      <4> QED BY <3>2, <4>1 DEF IsSaved
    <3> QED BY <3>1, <3>2
  <2> HIDE DEF x
  <2> QED BY <1>1, <1>2, <1>3, <2>2, <2>3, <2>4, TellStep
<1>7. IDAtFinish(sink.acc) \in BOOLEAN
  BY <1>2 DEF IDAtFinish, TurnSink
<1> QED BY <1>4, <1>5, <1>6, <1>7 DEF CompleteTurn

(* ... and is remembered or not. *)
LEMMA SkipStep ==
  ASSUME IInv, SkipSave
  PROVE  IInv'
<1> USE DEF storeVars, storedVars
<1>1. pc = "saving" /\ pc \in Working /\ InTurn(pc)
  BY DEF SkipSave, InTurn, Active, Working
<1>2. /\ SessionFrame /\ pc \in Active /\ sink \in TurnSink /\ Types /\ Order /\ Server /\ turn \in Turn
      /\ Whole(conv, turn) /\ resolved \in BOOLEAN /\ (resolved => Prev # None)
  BY <1>1, AfterAdapter
<1>3. ~Finished(turn)
  <2>1. ~IsSaved /\ sink.terminal /\ Len(told[turn]) \in Nat
    BY <1>1, <1>2, InTurnType DEF SkipSave, Server, Outcome
  <2> DEFINE n == Len(told[turn])
  <2>2. /\ Without(turn, n - 1) /\ told[turn][n] \in {"response.failed", Unnamed}
    BY <1>1, <1>2, <2>1 DEF Server, Outcome
  <2>3. \A k \in 1..n : k \in 1..(n - 1) \/ k = n
    BY <2>1
  <2> HIDE DEF n
  <2> QED BY <2>2, <2>3 DEF Without, Finished, Tells, Last, Terminal, Unnamed, n
<1>4. /\ Silent /\ UNCHANGED <<sink, resolved, conv, shared>> /\ pc' = "waiting"
      /\ \/ cache' = cache /\ dropped' = dropped
         \/ cache' = Store!Deleted(cache, Prev) /\ dropped' = dropped \cup {Prev} /\ Prev # None
  BY <1>2 DEF SkipSave, Quiet, Silent, Forget
<1>5. CacheForgets
  BY <1>2, <1>4, Forgetting
<1>6. Types'
  BY <1>2, <1>4, <1>5, SessionTypes DEF SessionFrame, CacheForgets, Types, TypeOK
<1>7. Server'
  <2>1. UNCHANGED <<set, req, turn, shared>> /\ pc' \notin Active /\ told' = told
    BY <1>2, <1>4 DEF SessionFrame, clientVars, Active, Silent
  <2> QED BY <1>2, <1>3, <1>4, <1>6, <2>1, ServerFails
<1> QED BY <1>2, <1>4, <1>6, <1>7, SessionStep

LEMMA SaveStep ==
  ASSUME IInv, SaveTurn
  PROVE  IInv'
<1> USE DEF storeVars, storedVars
<1>1. pc = "saving" /\ pc \in Working /\ InTurn(pc) /\ IsSaved
  BY DEF SaveTurn, InTurn, Active, Working
<1>2. /\ SessionFrame /\ pc \in Active /\ sink \in TurnSink /\ Types /\ Order /\ Server /\ turn \in Turn
      /\ Whole(conv, turn) /\ resolved \in BOOLEAN
  BY <1>1, AfterAdapter
<1>3. /\ StoreOK(cache', Turn) /\ Ascending(cache'.order) /\ Len(cache'.order) <= CacheSize
  <2>1. /\ Turn \in SUBSET Nat /\ StoreOK(cache, Turn) /\ Ascending(cache.order)
        /\ \A i \in DOMAIN cache.items : i < turn
    <3>1. \A i \in DOMAIN cache.items : i \in Turn
      BY <1>2 DEF Types, StoreOK, Store!IdsOf
    <3>2. turn \in Nat /\ \A i \in Turn : i \in Nat
      BY <1>2 DEF Turn
    <3>3. \A i \in Turn : i >= turn => i \notin DOMAIN cache.items
      BY <1>2, <3>2 DEF Server, Fresh, InStore
    <3> QED BY <1>2, <3>1, <3>2, <3>3 DEF Types, Turn
  <2>2. cache' = Store!Saved(cache, turn, conv, CacheSize)
    BY DEF SaveTurn
  <2> QED BY <1>2, <2>1, <2>2, SavedStore, SavedInOrder, SettingsAssumption
<1>4. StoreOK(shared', Ids)
  <2>1. StoreOK(shared, Ids) /\ turn \in Ids /\ MaxTurns + 1 \in Nat \ {0}
    BY <1>2, SettingsAssumption DEF Types, Turn, Ids
  <2>2. StoreOK(Store!Saved(shared, turn, conv, MaxTurns + 1), Ids)
    BY <2>1, SavedStore
  <2> QED BY <2>1, <2>2 DEF SaveTurn
<1>5. /\ UNCHANGED <<sink, resolved, conv, dropped>> /\ pc' \in {"waiting", "over"}
      /\ \/ Silent
         \/ Ends /\ shared' = shared
         \/ Writes("error") /\ shared' = shared /\ set.store /\ set.storeFails
      /\ \/ shared' = shared
         \/ IsShared /\ shared' = Store!Saved(shared, turn, conv, MaxTurns + 1)
  BY ErrorWritten DEF SaveTurn, Quiet, Silent, ErrorFrame, IsShared
<1>6. "error" \in FrameType
  BY DEF FrameType, ErrorFrame
<1>7. Types'
  BY <1>2, <1>3, <1>4, <1>5, <1>6, SessionTypes DEF SessionFrame, Types, TypeOK, Whole
<1>8. Server'
  <2>1. UNCHANGED <<set, req, turn>> /\ pc' \notin Active
    BY <1>2, <1>5 DEF SessionFrame, clientVars, Active
  <2>2. \/ told' = told
        \/ /\ set.store /\ set.storeFails
           /\ told' = [told EXCEPT ![turn] = Append(@, "error")]
    BY <1>2, <1>5 DEF Silent, Ends, Writes, PutFrame, Turn
  <2>3. cache' = Store!Saved(cache, turn, conv, CacheSize)
    BY DEF SaveTurn
  <2> QED BY <1>1, <1>2, <1>5, <1>7, <2>1, <2>2, <2>3, ServerSaves
<1> QED BY <1>2, <1>5, <1>6, <1>7, <1>8, SessionStep

LEMMA SessionTurns ==
  ASSUME IInv, Session
  PROVE  IInv'
BY TakeStep, ResolvingStep, FailedStep, SucceededStep, SkipStep, SaveStep DEF Session

LEMMA StutterStep ==
  ASSUME IInv, UNCHANGED vars
  PROVE  IInv'
<1> USE DEF vars, clientVars, wireVars, readerVars, turnVars, storeVars, sessionVars, storedVars
<1>1. Types /\ Order /\ Server /\ Reading
  BY DEF IInv
<1>2. Types'
  BY <1>1 DEF Types, TypeOK
<1>3. Server'
  BY <1>1, ServerElsewhere
<1>4. Order' /\ Reading'
  BY <1>1, OrderKept, ReadingKept
<1> QED BY <1>2, <1>3, <1>4 DEF IInv
-----------------------------------------------------------------------------
LEMMA InitInv ==
  ASSUME Init
  PROVE  IInv
<1> DEFINE known == Store!Saved(Store!EmptyStore, Elsewhere, <<Elsewhere>>, 1)
<1>1. Elsewhere \in Ids /\ Elsewhere \notin Turn /\ 1 \in Nat \ {0} /\ 0 \in 0..MaxTurns
  BY SettingsAssumption DEF Elsewhere, Ids, Turn
<1>2. /\ StoreOK(Store!EmptyStore, Turn) /\ StoreOK(Store!EmptyStore, Ids)
      /\ DOMAIN Store!EmptyStore.items = {} /\ Store!EmptyStore.order = <<>>
  BY DEF StoreOK, Store!EmptyStore, Store!IdsOf
<1>3. /\ StoreOK(known, Ids) /\ DOMAIN known.items \subseteq {Elsewhere}
      /\ \A i \in DOMAIN known.items : known.items[i] = <<Elsewhere>>
  BY <1>1, <1>2, SavedStore
<1> HIDE DEF known
<1>4. /\ StoreOK(shared, Ids) /\ DOMAIN shared.items \subseteq {Elsewhere}
      /\ \A i \in DOMAIN shared.items : shared.items[i] = <<Elsewhere>>
  BY <1>2, <1>3 DEF Init, known
<1>5. /\ cache.order = <<>> /\ DOMAIN cache.items = {} /\ StoreOK(cache, Turn)
      /\ \A t \in Turn : told[t] = <<>>
      /\ req = <<>> /\ Sent = {} /\ turn = 0 /\ pc = "waiting" /\ pc \notin Active
      /\ down = <<>> /\ up = <<>> /\ reader = "reading" /\ mode = "idle"
  BY <1>2 DEF Init, Sent, Active
<1>6. Types
  <2>1. result \in [Turn -> Result] /\ told \in [Turn -> Seq(FrameType)]
    BY <1>1 DEF Init, Result
  <2>2. NewTurnSink \in TurnSink
    BY DEF NewTurnSink, TurnSink, NoResponse, Status
  <2>3. Ascending(cache.order) /\ Len(cache.order) <= CacheSize
    BY <1>5, SettingsAssumption DEF Ascending
  <2>4. TypeOK
    <3>1. /\ req \in Seq([prev: 0..MaxTurns + 1, store: BOOLEAN, bad: BOOLEAN])
          /\ up \in Seq(0..MaxTurns) /\ conv \in Seq(Ids)
          /\ down \in Seq([turn: 0..MaxTurns, type: FrameType \cup {"ping"}])
      BY <1>5 DEF Init
    <3>2. mode \in {"idle", "turn"} /\ link \in Link /\ reader \in {"reading", "parked", "gone"}
      BY DEF Init, Link
    <3>3. ahead \in 0..MaxTurns /\ turn \in 0..MaxTurns
      BY <1>1 DEF Init
    <3>4. {resolved, cancelled, ping} \subseteq BOOLEAN /\ dropped \subseteq Ids
      BY DEF Init
    <3>5. DOMAIN cache.items = Store!IdsOf(cache.order)
      BY <1>5 DEF StoreOK
    <3> QED BY <1>5, <2>1, <2>3, <3>1, <3>2, <3>3, <3>4, <3>5 DEF Init, TypeOK
  <2> QED BY <1>4, <1>5, <2>2, <2>3, <2>4, SettingsAssumption DEF Init, Types
<1>7. Order
  BY <1>5 DEF Order, Active
<1>8. Server
  <2>1. \A t \in Turn : ~InStore(t)
    BY <1>1, <1>4, <1>5 DEF InStore
  <2>2. \A t \in Turn : \A types : ~Tells(t, types)
    BY <1>5 DEF Tells
  <2>3. Fresh /\ PrevIsEarlier /\ Outcome
    BY <1>5, <2>1 DEF Fresh, PrevIsEarlier, Outcome, Active, Working
  <2>4. Whole(<<Elsewhere>>, Elsewhere)
    BY <1>1 DEF Whole, IsConversation, Starts
  <2>5. Conversations
    BY <1>4, <1>5, <2>4 DEF Conversations, Active, Working
  <2>6. Remembered /\ ContinuationFound /\ SavedResponsesWereSent
    BY <1>5, <2>1, <2>2 DEF Remembered, ContinuationFound, SavedResponsesWereSent, Finished, InStore
  <2>7. NothingFollowsTheTerminalEvent
    BY <1>5 DEF NothingFollowsTheTerminalEvent
  <2> QED BY <2>3, <2>5, <2>6, <2>7 DEF Server
<1>9. Reading
  <2>1. Results
    BY <1>5 DEF Init, Results, Sent
  <2> QED BY <1>5, <2>1 DEF Reading, Unread, TurnsDoNotMix
<1> QED BY <1>6, <1>7, <1>8, <1>9 DEF IInv

LEMMA Invariance == Spec => []IInv
<1>1. Init => IInv
  BY InitInv
<1>2. IInv /\ [Next]_vars => IInv'
  <2> SUFFICES ASSUME IInv, [Next]_vars
               PROVE  IInv'
    OBVIOUS
  <2>1. CASE ReadFrame \/ ReaderStops \/ Expire \/ ExpireCloses \/ SendPing \/ PingFails
    BY <2>1, ServersStep
  <2>2. CASE Over \/ UNCHANGED vars
    BY <2>2, StutterStep DEF Over
  <2>3. CASE Client
    BY <2>3, ClientStep
  <2>4. CASE Session
    BY <2>4, SessionTurns
  <2>5. CASE Adapter
    BY <2>5, AdapterStep
  <2> QED BY <2>1, <2>2, <2>3, <2>4, <2>5 DEF Next
<1> QED BY <1>1, <1>2, PTL DEF Spec

-----------------------------------------------------------------------------
(* The state of a connection has its type, and its memory its size, in     *)
(* every reachable state.                                                  *)
THEOREM TypeCorrect == Spec => []TypeOK
<1>1. IInv => TypeOK
  BY DEF IInv, Types
<1> QED BY <1>1, Invariance, PTL

(* Whatever the client does, a continuation of a response the connection   *)
(* has finished is refused with previous_response_not_found only when the  *)
(* response was forgotten after a failed continuation or made room for     *)
(* CacheSize younger ones (run, ResolveContinuation, the cache's Save).    *)
THEOREM ContinuationsAreFound == Spec => []ContinuationFound
<1>1. IInv => ContinuationFound
  BY DEF IInv, Server
<1> QED BY <1>1, Invariance, PTL

(* What the connection's memory and the handler's store hold under an id   *)
(* is always the whole conversation that led to it.                        *)
THEOREM StoredConversations == Spec => []ConversationsAreWhole
<1>1. IInv => ConversationsAreWhole
  BY DEF IInv, Server, Conversations, Whole, ConversationsAreWhole
<1> QED BY <1>1, Invariance, PTL

(* A response is held by a store only if its client was sent that it       *)
(* completed or is incomplete, and by the handler's store only if its      *)
(* client did not ask for store:false.                                     *)
THEOREM SavedWereSent == Spec => []SavedResponsesWereSent
<1>1. IInv => SavedResponsesWereSent
  BY DEF IInv, Server
<1> QED BY <1>1, Invariance, PTL

(* The only frame the server writes for a turn after its terminal event is *)
(* the error of a store that failed to save it, once.                      *)
THEOREM NothingFollows == Spec => []NothingFollowsTheTerminalEvent
<1>1. IInv => NothingFollowsTheTerminalEvent
  BY DEF IInv, Server
<1> QED BY <1>1, Invariance, PTL

(* A Turn of the client returns with a frame of its own turn, unless an    *)
(* earlier one was given up, met the connection's expiry, or was followed  *)
(* by more frames of its turn than the one that ended it.                  *)
THEOREM TurnsAreKeptApart == Spec => []TurnsDoNotMix
<1>1. IInv => TurnsDoNotMix
  BY DEF IInv, Reading
<1> QED BY <1>1, Invariance, PTL
=============================================================================
