----------------------- MODULE ResponsesHandlerProofs -----------------------
(***************************************************************************)
(* The safety properties of ResponsesHandler, for every set of requests,   *)
(* every capacity of the store and every set of events the adapter sends.  *)
(*                                                                         *)
(* IInv has a part per request (Local: the phase, what the request's sink  *)
(* holds and what its client read agree) and a part about what requests    *)
(* share (what is saved, what the store holds, who continues from whom).   *)
(* Most steps touch the first part only, and leave what is settled alone.  *)
(*                                                                         *)
(* The last part is about ClientAdapterProxy, the handler whose adapter is *)
(* a client of another server.                                             *)
(***************************************************************************)
EXTENDS ClientAdapterProxy, SequenceTheorems, TLAPS

Kept == {"completed", "incomplete"}

(***************************************************************************)
(* The wire, and how far the sink is with it: while a terminal event is    *)
(* recorded and not written its number is taken and no frame has it.       *)
(***************************************************************************)
Ordered(w) ==
  \A j, k \in 1..Len(w) : j < k =>
    /\ w[j].seq < w[k].seq
    /\ w[j].type # DoneFrame
    /\ w[j].type \in Terminal => w[k].type = DoneFrame

NextSeq(p, s) == IF p \in {"sending", "closing"} THEN s.seq - 1 ELSE s.seq

WireOK(p, s) ==
  /\ Ordered(s.wire)
  /\ p # "ended" => \A k \in 1..Len(s.wire) :
                      s.wire[k].type # DoneFrame /\ s.wire[k].seq < NextSeq(p, s)
  /\ p # "ended" /\ (~s.terminal \/ p \in {"sending", "closing"}) =>
       \A k \in 1..Len(s.wire) : s.wire[k].type \notin Terminal

(* A request's phase p, request q, sink s, conversation c and answer a. *)
LocalOK(p, q, s, c, a) ==
  /\ p \in {"unsent", "arrived"} =>
       s.acc = NoResponse /\ s.terminal = FALSE /\ c = <<>> /\ a = "none"
  /\ p \in {"returned", "errored", "sending", "closing"} => q.stream = TRUE
  /\ s.terminal = TRUE => q.stream = TRUE
  /\ p \in {"sending", "closing"} => s.terminal = TRUE /\ s.seq > 0
  /\ c = <<>> => p \in {"unsent", "arrived", "ended"}
  /\ a = "ok" => p = "ended"
  /\ WireOK(p, s)

Local(r) == LocalOK(phase[r], req[r], sink[r], conv[r], answer[r])

(* The response of r is final: no step changes sink[r].acc any more. *)
IsSettled(p, s) == p \in {"answering", "ended"} \/ s.terminal = TRUE
Settled(r) == IsSettled(phase[r], sink[r])

(* What is saved is what finished, and what finished is saved or lost. *)
NothingUnsaved(r) ==
  req[r].store /\ sink[r].acc.id /\ sink[r].acc.status \in Kept => IsSaved(r) \/ r \in lost

SavedIsFinal(r) ==
  IsSaved(r) => Settled(r) /\ req[r].store = TRUE /\ sink[r].acc.status \in Kept

(* The store holds the last Capacity of what was saved. *)
StoreOK ==
  /\ store.order = Store!Evicted(saved, Capacity)
  /\ \A r \in DOMAIN store.items : IsConversation(store.items[r], r)

Conversation(r) == conv[r] # <<>> => IsConversation(conv[r], r)

Informed(r) ==
  req[r].informed => /\ req[r].prev \in Requests
                     /\ sink[req[r].prev].acc.id = TRUE
                     /\ Settled(req[r].prev)

Excused(p) ==
  \/ ~req[p].store \/ p \in lost \/ Evicts(p)
  \/ sink[p].acc.status \notin Kept

FoundOrExcused(r) == answer[r] = "not_found" /\ req[r].informed => Excused(req[r].prev)

IInv ==
  /\ TypeOK
  /\ \A r \in Requests : Local(r)
  /\ \A r \in Requests : NothingUnsaved(r) /\ SavedIsFinal(r)
  /\ StoreOK
  /\ \A r \in Requests : Conversation(r) /\ Informed(r) /\ FoundOrExcused(r)

-----------------------------------------------------------------------------
(***************************************************************************)
(* The sink's methods: what each makes of a sink of the right type.        *)
(***************************************************************************)
Acc == [held: BOOLEAN, id: BOOLEAN, status: Status]

(* Folding an event in yields an accumulated response. *)
LEMMA FoldedType ==
  ASSUME NEW acc \in Acc, NEW t \in EventType, NEW id \in BOOLEAN
  PROVE  /\ Folded(acc, t, id) \in Acc
         /\ t \in Terminal => Folded(acc, t, id) = Snapshot(id, StatusOf(t))
         /\ t \notin Terminal => (Folded(acc, t, id).status \in Kept => Folded(acc, t, id) = acc)
BY DEF Acc, Folded, EventType, WithID, Terminal, Snapshot, StatusOf, Status, Kept

(* A sink after an event that did not encode. *)
LEMMA UnencodedSink ==
  ASSUME NEW s \in Sink
  PROVE  /\ Unencoded(s) \in Sink
         /\ Unencoded(s).acc = s.acc /\ Unencoded(s).wire = s.wire
         /\ Unencoded(s).terminal = s.terminal /\ Unencoded(s).seq = s.seq + 1
<1>1. s.seq + 1 \in Nat
  BY DEF Sink
<1> QED
  BY <1>1 DEF Sink, Unencoded

(* A sink that has recorded an event. *)
LEMMA RecordedSink ==
  ASSUME NEW s \in Sink, NEW t \in EventType, NEW id \in BOOLEAN
  PROVE  /\ Recorded(s, t, id) \in Sink
         /\ Recorded(s, t, id).acc = Folded(s.acc, t, id)
         /\ Recorded(s, t, id).wire = s.wire
         /\ Recorded(s, t, id).seq = s.seq + 1
         /\ Recorded(s, t, id).terminal = (s.terminal \/ t \in Terminal)
         /\ Recorded(s, t, id).up = s.up
<1>1. s.seq + 1 \in Nat /\ s.acc \in Acc /\ s.terminal \in BOOLEAN
  BY DEF Sink, Acc
<1>2. Folded(s.acc, t, id) \in Acc
  BY <1>1, FoldedType
<1>3. (s.terminal \/ t \in Terminal) \in BOOLEAN
  OBVIOUS
<1> QED
  BY <1>1, <1>2, <1>3 DEF Sink, Recorded, Acc

(* A sink that has written an event, or failed to. *)
LEMMA PutSink ==
  ASSUME NEW s \in Sink, NEW t \in EventType, s.seq > 0, NEW x \in Put(s, t)
  PROVE  /\ x \in Sink
         /\ x.acc = s.acc /\ x.terminal = s.terminal /\ x.seq = s.seq
         /\ x.wire = s.wire \/ x.wire = Append(s.wire, [type |-> t, seq |-> s.seq - 1])
<1>1. s.seq - 1 \in Nat
  BY DEF Sink
<1>2. [type |-> t, seq |-> s.seq - 1] \in Frame
  BY <1>1 DEF Frame
<1>3. Append(s.wire, [type |-> t, seq |-> s.seq - 1]) \in Seq(Frame)
  BY <1>2 DEF Sink
<1> QED
  BY <1>3 DEF Put, Sink

(* A sink whose stream is closed. *)
LEMMA WithDoneSink ==
  ASSUME NEW s \in Sink
  PROVE  /\ WithDone(s) \in Sink
         /\ WithDone(s).acc = s.acc /\ WithDone(s).terminal = s.terminal
         /\ WithDone(s).seq = s.seq
         /\ \/ WithDone(s).wire = s.wire
            \/ WithDone(s).wire = Append(s.wire, [type |-> DoneFrame, seq |-> s.seq])
<1>1. [type |-> DoneFrame, seq |-> s.seq] \in Frame
  BY DEF Frame, Sink
<1>2. Append(s.wire, [type |-> DoneFrame, seq |-> s.seq]) \in Seq(Frame)
  BY <1>1 DEF Sink
<1> QED
  BY <1>2 DEF WithDone, Sink
-----------------------------------------------------------------------------
(***************************************************************************)
(* The wire: a frame with a larger number than all before it keeps the     *)
(* order, as long as no stream has ended.                                  *)
(***************************************************************************)
LEMMA AppendOrdered ==
  ASSUME NEW w \in Seq(Frame), NEW f \in Frame, Ordered(w),
         \A k \in 1..Len(w) : /\ w[k].type # DoneFrame /\ w[k].seq < f.seq
                              /\ w[k].type \in Terminal => f.type = DoneFrame
  PROVE  Ordered(Append(w, f))
<1> DEFINE v == Append(w, f)
<1>1. Len(v) = Len(w) + 1 /\ v[Len(v)] = f /\ \A k \in 1..Len(w) : v[k] = w[k]
  OBVIOUS
<1>2. ASSUME NEW j \in 1..Len(v), NEW k \in 1..Len(v), j < k
      PROVE  /\ v[j].seq < v[k].seq /\ v[j].type # DoneFrame
             /\ v[j].type \in Terminal => v[k].type = DoneFrame
  <2>1. j \in 1..Len(w) /\ v[j] = w[j]
    BY <1>1, <1>2
  <2>2. CASE k = Len(v)
    BY <1>1, <2>1, <2>2
  <2>3. CASE k # Len(v)
    <3>1. k \in 1..Len(w) /\ v[k] = w[k]
      BY <1>1, <2>3
    <3> QED
      BY <2>1, <3>1, <1>2 DEF Ordered
  <2> QED
    BY <2>2, <2>3
<1> QED
  BY <1>2 DEF Ordered

(* An event that does not end the stream is written. *)
LEMMA WireAfterSend ==
  ASSUME NEW s \in Sink, NEW t \in EventType, NEW id \in BOOLEAN,
         s.terminal = FALSE, WireOK("running", s), NEW x \in Put(Recorded(s, t, id), t)
  PROVE  /\ WireOK("running", x)
         /\ x \in Sink /\ x.acc = Folded(s.acc, t, id) /\ x.terminal = (t \in Terminal)
<1> DEFINE r == Recorded(s, t, id)
           f == [type |-> t, seq |-> s.seq]
<1>1. /\ r \in Sink /\ r.seq = s.seq + 1 /\ r.wire = s.wire /\ r.acc = Folded(s.acc, t, id)
      /\ r.terminal = (t \in Terminal) /\ s.seq \in Nat /\ s.wire \in Seq(Frame)
  BY RecordedSink DEF Sink
<1>2. /\ x \in Sink /\ x.acc = r.acc /\ x.terminal = r.terminal /\ x.seq = s.seq + 1
      /\ x.wire = s.wire \/ x.wire = Append(s.wire, f)
  <2>1. r.seq > 0 /\ r.seq - 1 = s.seq
    BY <1>1
  <2> HIDE DEF r
  <2> QED
    BY <1>1, <2>1, PutSink DEF r
<1>3. t # DoneFrame /\ f \in Frame
  BY <1>1 DEF EventType, WithID, Terminal, DoneFrame, Frame
<1>4. \A k \in 1..Len(s.wire) :
        /\ s.wire[k].type # DoneFrame /\ s.wire[k].type \notin Terminal
        /\ s.wire[k].seq \in Nat /\ s.wire[k].seq < s.seq
  <2>1. \A k \in 1..Len(s.wire) : s.wire[k] \in Frame
    BY <1>1
  <2> QED
    BY <2>1 DEF WireOK, NextSeq, Frame
<1>5. Ordered(s.wire)
  BY DEF WireOK
<1>6. /\ Ordered(x.wire)
      /\ \A k \in 1..Len(x.wire) :
           /\ x.wire[k].type # DoneFrame /\ x.wire[k].seq < x.seq
           /\ x.wire[k].type \in Terminal => t \in Terminal
  <2>1. CASE x.wire = s.wire
    BY <1>1, <1>2, <1>4, <1>5, <2>1
  <2>2. CASE x.wire = Append(s.wire, f)
    <3>1. Ordered(x.wire)
      BY <1>1, <1>3, <1>4, <1>5, <2>2, AppendOrdered
    <3>2. ASSUME NEW k \in 1..Len(x.wire)
          PROVE  /\ x.wire[k].type # DoneFrame /\ x.wire[k].seq < x.seq
                 /\ x.wire[k].type \in Terminal => t \in Terminal
      <4>1. CASE k \in 1..Len(s.wire)
        <5>1. x.wire[k] = s.wire[k]
          BY <1>1, <1>3, <2>2, <4>1
        <5> QED
          BY <1>1, <1>2, <1>4, <4>1, <5>1
      <4>2. CASE k \notin 1..Len(s.wire)
        <5>1. x.wire[k] = f
          BY <1>1, <1>3, <2>2, <4>2
        <5> QED
          BY <1>1, <1>2, <1>3, <5>1
      <4> QED
        BY <4>1, <4>2
    <3> QED
      BY <3>1, <3>2
  <2> QED
    BY <1>2, <2>1, <2>2
<1>7. x.terminal = (t \in Terminal) /\ x.acc = Folded(s.acc, t, id)
  BY <1>1, <1>2
<1> QED
  BY <1>2, <1>6, <1>7 DEF WireOK, NextSeq

(* A terminal event is recorded, and not yet written. *)
LEMMA WireBeforeTerminal ==
  ASSUME NEW s \in Sink, NEW t \in Terminal, NEW id \in BOOLEAN, NEW p \in {"sending", "closing"},
         s.terminal = FALSE, WireOK("running", s)
  PROVE  /\ WireOK(p, Recorded(s, t, id))
         /\ Recorded(s, t, id) \in Sink
         /\ Recorded(s, t, id).terminal = TRUE /\ Recorded(s, t, id).seq > 0
         /\ Recorded(s, t, id).acc = Snapshot(id, StatusOf(t))
<1> DEFINE r == Recorded(s, t, id)
<1>1. t \in EventType
  BY DEF EventType, WithID
<1>2. /\ r \in Sink /\ r.seq = s.seq + 1 /\ r.wire = s.wire /\ r.acc = Folded(s.acc, t, id)
      /\ r.terminal = (s.terminal \/ t \in Terminal)
  BY <1>1, RecordedSink
<1>3. s.seq \in Nat /\ s.acc \in Acc /\ r.seq - 1 = s.seq
  BY <1>2 DEF Sink, Acc
<1>4. r.terminal = TRUE /\ r.acc = Snapshot(id, StatusOf(t))
  BY <1>1, <1>2, <1>3, FoldedType
<1> HIDE DEF r
<1>5. WireOK(p, r)
  BY <1>2, <1>3, <1>4 DEF WireOK, NextSeq
<1>6. r \in Sink /\ r.seq > 0
  BY <1>2, <1>3
<1> QED
  BY <1>4, <1>5, <1>6 DEF r

(* A recorded terminal event is written. *)
LEMMA WireAfterTerminal ==
  ASSUME NEW s \in Sink, NEW t \in Terminal, NEW p \in {"sending", "closing"},
         s.terminal = TRUE, s.seq > 0, WireOK(p, s), NEW x \in Put(s, t)
  PROVE  WireOK("running", x) /\ x \in Sink /\ x.acc = s.acc /\ x.terminal = TRUE
<1> DEFINE f == [type |-> t, seq |-> s.seq - 1]
<1>1. t \in EventType /\ t # DoneFrame
  BY DEF EventType, WithID, Terminal, DoneFrame
<1>2. /\ x \in Sink /\ x.acc = s.acc /\ x.terminal = TRUE /\ x.seq = s.seq
      /\ x.wire = s.wire \/ x.wire = Append(s.wire, f)
  BY <1>1, PutSink
<1>3. s.seq \in Nat /\ s.wire \in Seq(Frame) /\ f \in Frame
  BY <1>1 DEF Sink, Frame
<1>4. \A k \in 1..Len(s.wire) :
        /\ s.wire[k].type # DoneFrame /\ s.wire[k].type \notin Terminal
        /\ s.wire[k].seq \in Nat /\ s.wire[k].seq < s.seq - 1
  <2>1. \A k \in 1..Len(s.wire) : s.wire[k] \in Frame
    BY <1>3
  <2> QED
    BY <2>1 DEF WireOK, NextSeq, Frame
<1>5. Ordered(s.wire)
  BY DEF WireOK
<1>6. /\ Ordered(x.wire)
      /\ \A k \in 1..Len(x.wire) : x.wire[k].type # DoneFrame /\ x.wire[k].seq < x.seq
  <2>1. CASE x.wire = s.wire
    BY <1>2, <1>3, <1>4, <1>5, <2>1
  <2>2. CASE x.wire = Append(s.wire, f)
    <3>1. Ordered(x.wire)
      BY <1>1, <1>3, <1>4, <1>5, <2>2, AppendOrdered
    <3>2. ASSUME NEW k \in 1..Len(x.wire)
          PROVE  x.wire[k].type # DoneFrame /\ x.wire[k].seq < x.seq
      <4>1. CASE k \in 1..Len(s.wire)
        <5>1. x.wire[k] = s.wire[k]
          BY <1>3, <2>2, <4>1
        <5> QED
          BY <1>2, <1>3, <1>4, <4>1, <5>1
      <4>2. CASE k \notin 1..Len(s.wire)
        <5>1. x.wire[k] = f
          BY <1>3, <2>2, <4>2
        <5> QED
          BY <1>1, <1>2, <1>3, <5>1
      <4> QED
        BY <4>1, <4>2
    <3> QED
      BY <3>1, <3>2
  <2> QED
    BY <1>2, <2>1, <2>2
<1> QED
  BY <1>2, <1>6 DEF WireOK, NextSeq

(* An event that does not encode leaves the wire as it is. *)
LEMMA WireUnencoded ==
  ASSUME NEW s \in Sink, WireOK("running", s)
  PROVE  WireOK("running", Unencoded(s))
<1>1. \A k \in 1..Len(s.wire) : s.wire[k].seq \in Nat
  <2>1. \A k \in 1..Len(s.wire) : s.wire[k] \in Frame
    BY DEF Sink
  <2> QED
    BY <2>1 DEF Frame
<1>2. s.seq \in Nat
  BY DEF Sink
<1>3. /\ Unencoded(s).wire = s.wire /\ Unencoded(s).terminal = s.terminal
      /\ Unencoded(s).seq = s.seq + 1
  BY UnencodedSink
<1> QED
  BY <1>1, <1>2, <1>3 DEF WireOK, NextSeq

(* [DONE] ends the stream, and an ended stream asks for no more. *)
LEMMA WireDone ==
  ASSUME NEW s \in Sink, WireOK("running", s)
  PROVE  WireOK("ended", WithDone(s))
<1> DEFINE f == [type |-> DoneFrame, seq |-> s.seq]
           x == WithDone(s)
<1>1. /\ s.wire \in Seq(Frame) /\ f \in Frame /\ Ordered(s.wire)
      /\ \A k \in 1..Len(s.wire) : s.wire[k].type # DoneFrame /\ s.wire[k].seq < s.seq
  BY DEF Sink, Frame, WireOK, NextSeq
<1>2. x.wire = s.wire \/ x.wire = Append(s.wire, f)
  BY WithDoneSink
<1>3. Ordered(x.wire)
  BY <1>1, <1>2, AppendOrdered
<1> HIDE DEF x
<1> QED
  BY <1>3 DEF WireOK, x

LEMMA WireEnded ==
  ASSUME NEW p, NEW s, WireOK(p, s)
  PROVE  WireOK("ended", s)
BY DEF WireOK

(* An event of finish is written, does not reach the client, or does not encode. *)
LEMMA WrittenSink ==
  ASSUME NEW s \in Sink, NEW t \in EventType, NEW id \in BOOLEAN,
         s.terminal = FALSE, WireOK("running", s), NEW x \in Written(s, t, id)
  PROVE  /\ x \in Sink /\ WireOK("running", x)
         /\ x.terminal = TRUE => t \in Terminal /\ x.acc = Snapshot(id, StatusOf(t))
         /\ t \notin Terminal \/ t = "response.failed" =>
              (x.acc.status \in Kept => x.acc = s.acc)
<1>1. x \in Put(Recorded(s, t, id), t) \/ x = Unencoded(s)
  BY DEF Written
<1>2. CASE x = Unencoded(s)
  BY <1>2, UnencodedSink, WireUnencoded
<1>3. CASE x \in Put(Recorded(s, t, id), t)
  <2>1. /\ WireOK("running", x) /\ x \in Sink
        /\ x.acc = Folded(s.acc, t, id) /\ x.terminal = (t \in Terminal)
    BY <1>3, WireAfterSend
  <2>2. s.acc \in Acc
    BY DEF Sink, Acc
  <2>3. /\ t \in Terminal => x.acc = Snapshot(id, StatusOf(t))
        /\ t \notin Terminal => (x.acc.status \in Kept => x.acc = s.acc)
    BY <2>1, <2>2, FoldedType
  <2>4. t = "response.failed" => x.acc.status \notin Kept
    BY <2>3 DEF Snapshot, StatusOf, Kept, Terminal
  <2> QED
    BY <2>1, <2>3, <2>4
<1> QED
  BY <1>1, <1>2, <1>3

(* finish after an adapter error never makes a response one to keep. *)
LEMMA FailedFinishSink ==
  ASSUME NEW s \in Sink, s.terminal = FALSE, WireOK("running", s), NEW x \in FailedFinish(s)
  PROVE  /\ x \in Sink /\ WireOK("ended", x)
         /\ x.acc.status \in Kept => x.acc = s.acc
         /\ x.terminal = TRUE => x.acc.status = "failed"
<1>1. PICK e \in Written(s, "error", FALSE) :
        \E f \in Written(e, "response.failed", IDAtFinish(e.acc)) : x = WithDone(f)
  BY DEF FailedFinish
<1>2. PICK f \in Written(e, "response.failed", IDAtFinish(e.acc)) : x = WithDone(f)
  BY <1>1
<1>3. "error" \in EventType \ Terminal /\ "response.failed" \in EventType \cap Terminal
  BY DEF EventType, WithID, Terminal
<1>4. /\ e \in Sink /\ WireOK("running", e) /\ e.terminal # TRUE
      /\ e.acc.status \in Kept => e.acc = s.acc
  BY <1>3, WrittenSink
<1>5. e.terminal = FALSE /\ IDAtFinish(e.acc) \in BOOLEAN
  BY <1>4 DEF Sink, IDAtFinish
<1>6. /\ f \in Sink /\ WireOK("running", f)
      /\ f.terminal = TRUE => f.acc = Snapshot(IDAtFinish(e.acc), StatusOf("response.failed"))
      /\ f.acc.status \in Kept => f.acc = e.acc
  <2> DEFINE id == IDAtFinish(e.acc)
  <2>1. id \in BOOLEAN /\ f \in Written(e, "response.failed", id)
    BY <1>5
  <2> HIDE DEF id
  <2> DEFINE t == "response.failed"
  <2>2. t \in EventType /\ t \in Terminal /\ (t \notin Terminal \/ t = "response.failed")
    BY <1>3
  <2>3. e \in Sink /\ WireOK("running", e) /\ e.terminal = FALSE /\ f \in Written(e, t, id)
    BY <1>4, <1>5, <2>1
  <2> HIDE DEF t
  <2>4. /\ f \in Sink /\ WireOK("running", f)
        /\ f.terminal = TRUE => f.acc = Snapshot(id, StatusOf(t))
        /\ f.acc.status \in Kept => f.acc = e.acc
    BY <2>1, <2>2, <2>3, WrittenSink, ZenonT(60)
  <2> QED
    BY <2>4 DEF id, t
<1>7. /\ x \in Sink /\ x.acc = f.acc /\ x.terminal = f.terminal /\ WireOK("ended", x)
  BY <1>2, <1>6, WithDoneSink, WireDone
<1>8. StatusOf("response.failed") = "failed"
  BY DEF StatusOf
<1> QED
  BY <1>4, <1>6, <1>7, <1>8 DEF Snapshot
-----------------------------------------------------------------------------
(***************************************************************************)
(* The store: what eviction leaves is the end of the order, as long as the *)
(* capacity allows.                                                        *)
(***************************************************************************)
LEMMA EvictedSeq ==
  ASSUME NEW S, NEW o \in Seq(S), NEW c \in Nat \ {0}
  PROVE  LET e == Store!Evicted(o, c) IN
         /\ e \in Seq(S)
         /\ Len(e) = IF Len(o) <= c THEN Len(o) ELSE c
         /\ \A k \in 1..Len(e) : e[k] = o[Len(o) - Len(e) + k]
<1>1. CASE Len(o) <= c
  BY <1>1 DEF Store!Evicted
<1>2. CASE ~(Len(o) <= c)
  <2> DEFINE m == Len(o) - c + 1
             n == Len(o)
  <2>1. m \in 1..n /\ n \in 1..Len(o) /\ n - m + 1 = c /\ n \in Nat /\ m \in Nat
    BY <1>2
  <2>2. Store!Evicted(o, c) = SubSeq(o, m, n)
    BY <1>2 DEF Store!Evicted
  <2>3. \A i \in m..n : o[i] \in S
    BY <2>1
  <2>4. /\ SubSeq(o, m, n) \in Seq(S) /\ Len(SubSeq(o, m, n)) = c
        /\ \A k \in 1..c : SubSeq(o, m, n)[k] = o[m + k - 1]
    BY <2>1, <2>3, SubSeqProperties
  <2>5. \A k \in 1..c : m + k - 1 = Len(o) - c + k
    BY <2>1
  <2> HIDE DEF m, n
  <2> QED
    BY <1>2, <2>2, <2>4, <2>5
<1> QED
  BY <1>1, <1>2

(* Evicting before an append is evicting after it. *)
LEMMA EvictedAppend ==
  ASSUME NEW S, NEW o \in Seq(S), NEW c \in Nat \ {0}, NEW id \in S
  PROVE  Store!Evicted(Append(Store!Evicted(o, c), id), c) = Store!Evicted(Append(o, id), c)
<1> DEFINE e  == Store!Evicted(o, c)
           ei == Append(e, id)
           oi == Append(o, id)
           x  == Store!Evicted(ei, c)
           y  == Store!Evicted(oi, c)
           ne == Len(e)
           no == Len(o)
           n  == Len(x)
<1>1. /\ e \in Seq(S) /\ ne = IF no <= c THEN no ELSE c
      /\ \A k \in 1..ne : e[k] = o[no - ne + k]
  BY EvictedSeq
<1> HIDE DEF e
<1>2. ei \in Seq(S) /\ Len(ei) = ne + 1 /\ ei[ne + 1] = id /\ \A k \in 1..ne : ei[k] = e[k]
  BY <1>1
<1>3. oi \in Seq(S) /\ Len(oi) = no + 1 /\ oi[no + 1] = id /\ \A k \in 1..no : oi[k] = o[k]
  OBVIOUS
<1>4. ne \in Nat /\ no \in Nat
  BY <1>1
<1> HIDE DEF ei, oi, ne, no
<1>5. /\ x \in Seq(S) /\ n = IF ne + 1 <= c THEN ne + 1 ELSE c
      /\ \A k \in 1..n : x[k] = ei[(ne + 1) - n + k]
  <2>1. /\ x \in Seq(S) /\ n = IF Len(ei) <= c THEN Len(ei) ELSE c
        /\ \A k \in 1..n : x[k] = ei[Len(ei) - n + k]
    BY <1>2, EvictedSeq, ZenonT(60)
  <2> HIDE DEF x, n
  <2>2. Len(ei) = ne + 1
    BY <1>2
  <2> QED
    BY <2>1, <2>2
<1>6. /\ y \in Seq(S) /\ Len(y) = IF no + 1 <= c THEN no + 1 ELSE c
      /\ \A k \in 1..Len(y) : y[k] = oi[(no + 1) - Len(y) + k]
  <2>1. /\ y \in Seq(S) /\ Len(y) = IF Len(oi) <= c THEN Len(oi) ELSE c
        /\ \A k \in 1..Len(y) : y[k] = oi[Len(oi) - Len(y) + k]
    BY <1>3, EvictedSeq, ZenonT(60)
  <2> HIDE DEF y
  <2>2. Len(oi) = no + 1
    BY <1>3
  <2> QED
    BY <2>1, <2>2
<1>7. n \in Nat
  BY <1>5
<1> HIDE DEF x, y, n
<1>8. n = Len(y) /\ n > 0 /\ n <= ne + 1 /\ ne <= no
  BY <1>1, <1>4, <1>5, <1>6, <1>7
<1>9. ASSUME NEW k \in 1..n
      PROVE  x[k] = y[k]
  <2>1. CASE k = n
    <3>1. (ne + 1) - n + k = ne + 1 /\ (no + 1) - n + k = no + 1
      BY <1>4, <1>7, <2>1
    <3>2. x[k] = ei[ne + 1] /\ y[k] = oi[no + 1]
      BY <1>5, <1>6, <1>8, <3>1
    <3> QED
      BY <1>2, <1>3, <3>2
  <2>2. CASE k # n
    <3> DEFINE i == (ne + 1) - n + k
               j == (no + 1) - n + k
    <3>1. i \in 1..ne /\ j \in 1..no /\ j = no - ne + i
      BY <1>4, <1>7, <1>8, <2>2
    <3>2. x[k] = ei[i] /\ y[k] = oi[j]
      BY <1>5, <1>6, <1>8
    <3> HIDE DEF i, j
    <3> QED
      BY <1>1, <1>2, <1>3, <3>1, <3>2
  <2> QED
    BY <2>1, <2>2
<1>10. x = y
  BY <1>5, <1>6, <1>8, <1>9, SeqEqual DEF n
<1> QED
  BY <1>10 DEF x, y, e, ei, oi

(* What eviction leaves was there; what it takes is c entries from the end. *)
LEMMA EvictedIds ==
  ASSUME NEW S, NEW o \in Seq(S), NEW c \in Nat \ {0}
  PROVE  /\ Store!IdsOf(Store!Evicted(o, c)) \subseteq Store!IdsOf(o)
         /\ \A k \in 1..Len(o) :
              o[k] \in Store!IdsOf(Store!Evicted(o, c)) \/ Len(o) - k >= c
<1> DEFINE e == Store!Evicted(o, c)
<1>1. /\ e \in Seq(S) /\ Len(e) = IF Len(o) <= c THEN Len(o) ELSE c
      /\ \A k \in 1..Len(e) : e[k] = o[Len(o) - Len(e) + k]
  BY EvictedSeq
<1> HIDE DEF e
<1>2. \A k \in 1..Len(e) : Len(o) - Len(e) + k \in 1..Len(o)
  BY <1>1
<1>3. Store!IdsOf(e) \subseteq Store!IdsOf(o)
  BY <1>1, <1>2 DEF Store!IdsOf
<1>4. ASSUME NEW k \in 1..Len(o), ~(Len(o) - k >= c)
      PROVE  o[k] \in Store!IdsOf(e)
  <2> DEFINE j == k - (Len(o) - Len(e))
  <2>1. Len(e) \in Nat /\ Len(o) \in Nat
    BY <1>1
  <2>2. j \in 1..Len(e) /\ Len(o) - Len(e) + j = k
    <3>1. CASE Len(o) <= c
      BY <1>1, <1>4, <2>1, <3>1
    <3>2. CASE ~(Len(o) <= c)
      <4>1. Len(e) = c
        BY <1>1, <3>2
      <4> QED
        BY <1>4, <2>1, <4>1
    <3> QED
      BY <3>1, <3>2
  <2> HIDE DEF j
  <2>3. e[j] = o[k]
    BY <1>1, <2>2
  <2> QED
    BY <2>2, <2>3 DEF Store!IdsOf
<1> QED
  BY <1>3, <1>4 DEF e
-----------------------------------------------------------------------------
(***************************************************************************)
(* Conversations: they stay what they are when more is saved and when a    *)
(* request nobody has saved is sent.                                       *)
(***************************************************************************)
LEMMA ConversationKept ==
  ASSUME NEW h \in Seq(Requests), NEW r, IsConversation(h, r),
         req'[r].prev = req[r].prev,
         \A q \in Requests : IsSaved(q) => IsSaved(q)' /\ req'[q].prev = req[q].prev
  PROVE  IsConversation(h, r)'
<1>1. \A k \in 1..Len(h) : h[k] \in Requests
  OBVIOUS
<1>2. h # <<>> /\ h[Len(h)] = r /\ Len(h) \in Nat /\ Len(h) > 0
  BY EmptySeq DEF IsConversation
<1>3. ASSUME NEW k \in 2..Len(h)
      PROVE  req'[h[k]].prev = h[k-1] /\ IsSaved(h[k-1])'
  <2>1. k \in 1..Len(h) /\ k-1 \in 1..Len(h)
    BY <1>2
  <2>2. req[h[k]].prev = h[k-1] /\ IsSaved(h[k-1])
    BY DEF IsConversation
  <2>3. req'[h[k]].prev = req[h[k]].prev
    <3>1. CASE k = Len(h)
      BY <1>2, <3>1
    <3>2. CASE k # Len(h)
      <4>1. k+1 \in 2..Len(h) /\ (k+1)-1 = k
        BY <1>2, <3>2
      <4>2. IsSaved(h[k])
        BY <4>1 DEF IsConversation
      <4> QED
        BY <1>1, <2>1, <4>2
    <3> QED
      BY <3>1, <3>2
  <2> QED
    BY <1>1, <2>1, <2>2, <2>3
<1>4. req'[h[1]].prev = NoRequest
  <2>1. req[h[1]].prev = NoRequest
    BY DEF IsConversation
  <2>2. CASE Len(h) = 1
    BY <1>2, <2>1, <2>2
  <2>3. CASE Len(h) # 1
    <3>1. Len(h) >= 2
      <4>1. \A n \in Nat : n > 0 /\ n # 1 => n >= 2
        OBVIOUS
      <4> QED
        BY <1>2, <2>3, <4>1
    <3>2. 2 \in 2..Len(h) /\ 2-1 = 1 /\ 1 \in 1..Len(h)
      BY <1>2, <3>1
    <3>3. IsSaved(h[1])
      BY <3>2 DEF IsConversation
    <3> QED
      BY <1>1, <2>1, <3>2, <3>3
  <2> QED
    BY <2>2, <2>3
<1> QED
  BY <1>2, <1>3, <1>4 DEF IsConversation

(* The types of one request's state. *)
LEMMA Typed ==
  ASSUME IInv, NEW r \in Requests
  PROVE  /\ phase[r] \in Phases /\ req[r] \in Request /\ conv[r] \in Seq(Requests)
         /\ sink[r] \in Sink /\ sink[r].acc \in Acc /\ sink[r].terminal \in BOOLEAN
         /\ answer[r] \in {"none", "ok", "error", "not_found"}
         /\ Local(r)
BY DEF IInv, TypeOK, Sink, Acc

(***************************************************************************)
(* A step that saves nothing.  It may move the phase, the sink and the     *)
(* answer of one request; a settled response stays as it is, and none      *)
(* becomes one to keep.                                                    *)
(***************************************************************************)
LEMMA QuietStep ==
  ASSUME IInv, NEW r \in Requests, NEW p \in Phases, NEW s \in Sink,
         NEW a \in {"none", "ok", "error", "not_found"},
         phase'  = [phase EXCEPT ![r] = p],
         sink'   = [sink EXCEPT ![r] = s],
         answer' = [answer EXCEPT ![r] = a],
         UNCHANGED <<req, conv, store, saved, lost>>,
         LocalOK(p, req[r], s, conv[r], a),
         Settled(r) => IsSettled(p, s) /\ s.acc = sink[r].acc,
         s.acc.status \in Kept => s.acc = sink[r].acc,
         a = "not_found" /\ req[r].informed => Excused(req[r].prev)
  PROVE  IInv'
<1>1. TypeOK'
  BY DEF IInv, TypeOK
<1>2. /\ phase'[r] = p /\ sink'[r] = s /\ answer'[r] = a
      /\ \A q \in Requests \ {r} :
           phase'[q] = phase[q] /\ sink'[q] = sink[q] /\ answer'[q] = answer[q]
      /\ req' = req /\ conv' = conv /\ store' = store /\ saved' = saved /\ lost' = lost
  BY DEF IInv, TypeOK
<1>3. \A q \in Requests : Local(q)'
  BY <1>2 DEF IInv, Local
<1>4. \A q \in Requests : Settled(q) => Settled(q)' /\ sink'[q].acc = sink[q].acc
  BY <1>2 DEF Settled
<1>5. \A q \in Requests : IsSaved(q)' <=> IsSaved(q)
  BY <1>2 DEF IsSaved
<1>6. \A q \in Requests : sink'[q].acc.status \in Kept => sink'[q].acc = sink[q].acc
  BY <1>2
<1>7. ASSUME NEW q \in Requests PROVE NothingUnsaved(q)'
  <2>1. NothingUnsaved(q)
    BY DEF IInv
  <2> QED
    BY <1>2, <1>5, <1>6, <2>1 DEF NothingUnsaved
<1>8. ASSUME NEW q \in Requests PROVE SavedIsFinal(q)'
  <2>1. SavedIsFinal(q)
    BY DEF IInv
  <2> QED
    BY <1>2, <1>4, <1>5, <2>1 DEF SavedIsFinal
<1>9. ASSUME NEW h \in Seq(Requests), NEW q, IsConversation(h, q)
      PROVE  IsConversation(h, q)'
  BY <1>2, <1>5, <1>9, ConversationKept
<1>10. StoreOK'
  <2>1. ASSUME NEW q \in DOMAIN store.items
        PROVE  IsConversation(store.items[q], q)'
    <3>1. store.items[q] \in Seq(Requests) /\ IsConversation(store.items[q], q)
      BY DEF IInv, TypeOK, StoreOK
    <3>2. PICK h \in Seq(Requests) : h = store.items[q]
      BY <3>1
    <3>3. IsConversation(h, q)'
      BY <1>9, <3>1, <3>2
    <3> QED
      BY <1>2, <3>2, <3>3
  <2> QED
    BY <1>2, <2>1 DEF StoreOK, IInv
<1>11. ASSUME NEW q \in Requests PROVE Conversation(q)'
  <2>1. conv[q] \in Seq(Requests) /\ Conversation(q)
    BY Typed DEF IInv
  <2>2. PICK h \in Seq(Requests) : h = conv[q]
    BY <2>1
  <2> QED
    BY <1>2, <1>9, <2>1, <2>2 DEF Conversation
<1>12. ASSUME NEW q \in Requests PROVE Informed(q)'
  <2>1. Informed(q)
    BY DEF IInv
  <2> QED
    BY <1>2, <1>4, <2>1 DEF Informed
<1>13. ASSUME NEW q \in Requests PROVE FoundOrExcused(q)'
  <2>1. FoundOrExcused(q) /\ Informed(q)
    BY DEF IInv
  <2>2. req[q].informed => (Excused(req[q].prev) => Excused(req[q].prev)')
    BY <1>2, <1>4, <2>1 DEF Informed, Excused, Evicts
  <2> QED
    BY <1>2, <2>1, <2>2 DEF FoundOrExcused
<1> QED
  BY <1>1, <1>3, <1>7, <1>8, <1>10, <1>11, <1>12, <1>13 DEF IInv

(* What Recording makes of the store and of the ids saved. *)
LEMMA RecordingStore ==
  ASSUME IInv, NEW r \in Requests, ~IsSaved(r), Recording(r)
  PROVE  /\ lost' = lost /\ saved' \in Seq(Requests)
         /\ store'.order \in Seq(Requests) /\ Len(store'.order) <= Capacity
         /\ store'.order = Store!Evicted(saved', Capacity)
         /\ store'.items \in [Store!IdsOf(store'.order) -> Seq(Requests)]
         /\ \A q \in DOMAIN store'.items :
              \/ q = r /\ store'.items[q] = conv[r]
              \/ q \in DOMAIN store.items /\ store'.items[q] = store.items[q]
         /\ \A q \in Requests : IsSaved(q)' <=> IsSaved(q) \/ q = r
         /\ \A q \in Requests : Evicts(q) => Evicts(q)'
<1> DEFINE order == Store!Evicted(Append(store.order, r), Capacity)
<1>1. /\ saved \in Seq(Requests) /\ store.order \in Seq(Requests) /\ Capacity \in Nat \ {0}
      /\ store.items \in [Store!IdsOf(store.order) -> Seq(Requests)]
      /\ store.order = Store!Evicted(saved, Capacity) /\ conv[r] \in Seq(Requests)
  BY ConstantsAssumption DEF IInv, TypeOK, StoreOK
<1>2. saved' = Append(saved, r) /\ lost' = lost
  BY DEF Recording
<1>3. /\ saved' \in Seq(Requests) /\ Len(saved') = Len(saved) + 1
      /\ saved'[Len(saved) + 1] = r /\ \A k \in 1..Len(saved) : saved'[k] = saved[k]
      /\ Len(saved) \in Nat
  BY <1>1, <1>2
<1>4. ~Store!Holds(store, r)
  <2>1. Store!IdsOf(store.order) \subseteq Store!IdsOf(saved)
    BY <1>1, EvictedIds
  <2>2. r \notin Store!IdsOf(saved)
    BY DEF IsSaved, Store!IdsOf
  <2> QED
    BY <1>1, <2>1, <2>2 DEF Store!Holds
<1>5. order = Store!Evicted(saved', Capacity)
  BY <1>1, <1>2, EvictedAppend
<1>6. /\ order \in Seq(Requests) /\ Len(order) <= Capacity
      /\ Store!IdsOf(order) \subseteq Store!IdsOf(Append(store.order, r))
  <2>1. Append(store.order, r) \in Seq(Requests)
    BY <1>1
  <2>2. /\ order \in Seq(Requests)
        /\ Len(order) = IF Len(Append(store.order, r)) <= Capacity
                        THEN Len(Append(store.order, r)) ELSE Capacity
        /\ Store!IdsOf(order) \subseteq Store!IdsOf(Append(store.order, r))
    BY <1>1, <2>1, EvictedSeq, EvictedIds
  <2> HIDE DEF order
  <2>3. Len(order) <= Capacity
    BY <1>1, <2>1, <2>2
  <2> QED
    BY <2>2, <2>3
<1>7. Store!IdsOf(Append(store.order, r)) \subseteq Store!IdsOf(store.order) \cup {r}
  BY <1>1 DEF Store!IdsOf
<1>8. store' = [order |-> order,
                items |-> [i \in Store!IdsOf(order) |-> IF i = r THEN conv[r] ELSE store.items[i]]]
  BY <1>4 DEF Recording, Store!Saved
<1> HIDE DEF order
<1>9. store'.order = order
  BY <1>8
<1>10. store'.items = [i \in Store!IdsOf(order) |-> IF i = r THEN conv[r] ELSE store.items[i]]
  BY <1>8
<1>11. ASSUME NEW q \in Store!IdsOf(order)
       PROVE  /\ store'.items[q] \in Seq(Requests)
              /\ \/ q = r /\ store'.items[q] = conv[r]
                 \/ q \in DOMAIN store.items /\ store'.items[q] = store.items[q]
  <2>1. store'.items[q] = IF q = r THEN conv[r] ELSE store.items[q]
    BY <1>10
  <2>2. q \in Store!IdsOf(store.order) \/ q = r
    BY <1>6, <1>7
  <2> QED
    BY <1>1, <2>1, <2>2
<1>12. /\ store'.items \in [Store!IdsOf(order) -> Seq(Requests)]
       /\ DOMAIN store'.items = Store!IdsOf(order)
  BY <1>10, <1>11
<1>13. ASSUME NEW q \in Requests PROVE IsSaved(q)' <=> IsSaved(q) \/ q = r
  <2>1. (\E k \in 1..Len(saved') : saved'[k] = q) <=> (\E k \in 1..Len(saved) : saved[k] = q) \/ q = r
    BY <1>3
  <2> QED
    BY <2>1 DEF IsSaved
<1>14. ASSUME NEW q \in Requests, Evicts(q) PROVE Evicts(q)'
  <2>1. PICK k \in 1..Len(saved) : saved[k] = q /\ Len(saved) - k >= Capacity
    BY <1>14 DEF Evicts
  <2>2. k \in 1..Len(saved') /\ saved'[k] = q /\ Len(saved') - k >= Capacity
    BY <1>1, <1>3, <2>1
  <2> QED
    BY <2>2 DEF Evicts
<1> QED
  BY <1>2, <1>3, <1>5, <1>6, <1>9, <1>11, <1>12, <1>13, <1>14

(***************************************************************************)
(* A step that settles a response, and saves it if it is one to keep.      *)
(***************************************************************************)
LEMMA SaveStep ==
  ASSUME IInv, NEW r \in Requests, NEW p \in Phases, NEW s \in Sink,
         phase' = [phase EXCEPT ![r] = p],
         sink'  = [sink EXCEPT ![r] = s],
         UNCHANGED <<req, conv, answer>>,
         ~Settled(r), IsSettled(p, s), conv[r] # <<>>,
         LocalOK(p, req[r], s, conv[r], answer[r]),
         Save(r, s.acc)
  PROVE  IInv'
<1>1. /\ phase'[r] = p /\ sink'[r] = s
      /\ \A q \in Requests \ {r} : phase'[q] = phase[q] /\ sink'[q] = sink[q]
      /\ req' = req /\ conv' = conv /\ answer' = answer
  BY DEF IInv, TypeOK
<1>2. \A q \in Requests : Local(q)'
  BY <1>1 DEF IInv, Local
<1>3. \A q \in Requests : Settled(q) => Settled(q)' /\ sink'[q].acc = sink[q].acc
  BY <1>1 DEF Settled
<1>4. Settled(r)'
  BY <1>1 DEF Settled
<1>5. ~IsSaved(r)
  BY DEF IInv, SavedIsFinal
<1>6. ASSUME NEW q \in Requests PROVE Informed(q)'
  <2>1. Informed(q)
    BY DEF IInv
  <2> QED
    BY <1>1, <1>3, <2>1 DEF Informed
<1>7. /\ phase' \in [Requests -> Phases] /\ req' \in [Requests -> Request]
      /\ conv' \in [Requests -> Seq(Requests)] /\ sink' \in [Requests -> Sink]
      /\ answer' \in [Requests -> {"none", "ok", "error", "not_found"}]
  BY <1>1 DEF IInv, TypeOK
<1>8. CASE Storable(r, s.acc) /\ Recording(r)
  <2>1. /\ lost' = lost /\ saved' \in Seq(Requests)
        /\ store'.order \in Seq(Requests) /\ Len(store'.order) <= Capacity
        /\ store'.order = Store!Evicted(saved', Capacity)
        /\ store'.items \in [Store!IdsOf(store'.order) -> Seq(Requests)]
        /\ \A q \in DOMAIN store'.items :
             \/ q = r /\ store'.items[q] = conv[r]
             \/ q \in DOMAIN store.items /\ store'.items[q] = store.items[q]
        /\ \A q \in Requests : IsSaved(q)' <=> IsSaved(q) \/ q = r
        /\ \A q \in Requests : Evicts(q) => Evicts(q)'
    BY <1>5, <1>8, RecordingStore
  <2>2. TypeOK'
    BY <1>7, <2>1 DEF IInv, TypeOK
  <2>3. ASSUME NEW h \in Seq(Requests), NEW q, IsConversation(h, q)
        PROVE  IsConversation(h, q)'
    BY <1>1, <2>1, <2>3, ConversationKept
  <2>4. ASSUME NEW q \in Requests PROVE Conversation(q)'
    <3>1. conv[q] \in Seq(Requests) /\ Conversation(q)
      BY Typed DEF IInv
    <3>2. PICK h \in Seq(Requests) : h = conv[q]
      BY <3>1
    <3> QED
      BY <1>1, <2>3, <3>1, <3>2 DEF Conversation
  <2>5. StoreOK'
    <3>1. ASSUME NEW q \in DOMAIN store'.items
          PROVE  IsConversation(store.items[q], q)'
      <4>1. CASE q = r /\ store'.items[q] = conv[r]
        BY <1>1, <2>4, <4>1 DEF Conversation
      <4>2. CASE q \in DOMAIN store.items /\ store'.items[q] = store.items[q]
        <5>1. store.items[q] \in Seq(Requests) /\ IsConversation(store.items[q], q)
          BY <4>2 DEF IInv, TypeOK, StoreOK
        <5>2. PICK h \in Seq(Requests) : h = store.items[q]
          BY <5>1
        <5>3. IsConversation(h, q)'
          BY <2>3, <5>1, <5>2
        <5> QED
          BY <4>2, <5>2, <5>3
      <4> QED
        BY <2>1, <4>1, <4>2
    <3> QED
      BY <2>1, <3>1 DEF StoreOK
  <2>6. ASSUME NEW q \in Requests PROVE NothingUnsaved(q)' /\ SavedIsFinal(q)'
    <3>1. NothingUnsaved(q) /\ SavedIsFinal(q)
      BY DEF IInv
    <3>2. CASE q = r
      BY <1>1, <1>4, <1>8, <2>1, <3>2, Typed DEF NothingUnsaved, SavedIsFinal, Storable, Kept, Request
    <3>3. CASE q # r
      BY <1>1, <1>3, <2>1, <3>1, <3>3 DEF NothingUnsaved, SavedIsFinal
    <3> QED
      BY <3>2, <3>3
  <2>7. ASSUME NEW q \in Requests PROVE FoundOrExcused(q)'
    <3>1. FoundOrExcused(q) /\ Informed(q)
      BY DEF IInv
    <3>2. req[q].informed => (Excused(req[q].prev) => Excused(req[q].prev)')
      BY <1>1, <1>3, <2>1, <3>1 DEF Informed, Excused
    <3> QED
      BY <1>1, <3>1, <3>2 DEF FoundOrExcused
  <2> QED
    BY <1>2, <1>6, <2>2, <2>4, <2>5, <2>6, <2>7 DEF IInv
<1>9. CASE ~Storable(r, s.acc) \/ Losing(r)
  <2>1. /\ store' = store /\ saved' = saved /\ lost \subseteq lost' /\ lost' \subseteq Requests
        /\ Storable(r, s.acc) => r \in lost'
    BY <1>9 DEF Save, Losing, IInv, TypeOK
  <2>2. TypeOK'
    BY <1>7, <2>1 DEF IInv, TypeOK
  <2>3. \A q \in Requests : (IsSaved(q)' <=> IsSaved(q)) /\ (Evicts(q)' <=> Evicts(q))
    BY <2>1 DEF IsSaved, Evicts
  <2>4. ASSUME NEW h \in Seq(Requests), NEW q, IsConversation(h, q)
        PROVE  IsConversation(h, q)'
    BY <1>1, <2>3, <2>4, ConversationKept
  <2>5. ASSUME NEW q \in Requests PROVE Conversation(q)'
    <3>1. conv[q] \in Seq(Requests) /\ Conversation(q)
      BY Typed DEF IInv
    <3>2. PICK h \in Seq(Requests) : h = conv[q]
      BY <3>1
    <3> QED
      BY <1>1, <2>4, <3>1, <3>2 DEF Conversation
  <2>6. StoreOK'
    <3>1. ASSUME NEW q \in DOMAIN store.items
          PROVE  IsConversation(store.items[q], q)'
      <4>1. store.items[q] \in Seq(Requests) /\ IsConversation(store.items[q], q)
        BY DEF IInv, TypeOK, StoreOK
      <4>2. PICK h \in Seq(Requests) : h = store.items[q]
        BY <4>1
      <4>3. IsConversation(h, q)'
        BY <2>4, <4>1, <4>2
      <4> QED
        BY <2>1, <4>2, <4>3
    <3> QED
      BY <2>1, <3>1 DEF StoreOK, IInv
  <2>7. ASSUME NEW q \in Requests PROVE NothingUnsaved(q)' /\ SavedIsFinal(q)'
    <3>1. NothingUnsaved(q) /\ SavedIsFinal(q)
      BY DEF IInv
    <3>2. CASE q = r
      BY <1>1, <1>5, <2>1, <2>3, <3>2 DEF NothingUnsaved, SavedIsFinal, Storable, Kept
    <3>3. CASE q # r
      BY <1>1, <1>3, <2>1, <2>3, <3>1, <3>3 DEF NothingUnsaved, SavedIsFinal
    <3> QED
      BY <3>2, <3>3
  <2>8. ASSUME NEW q \in Requests PROVE FoundOrExcused(q)'
    <3>1. FoundOrExcused(q) /\ Informed(q)
      BY DEF IInv
    <3>2. req[q].informed => (Excused(req[q].prev) => Excused(req[q].prev)')
      BY <1>1, <1>3, <2>1, <2>3, <3>1 DEF Informed, Excused
    <3> QED
      BY <1>1, <3>1, <3>2 DEF FoundOrExcused
  <2> QED
    BY <1>2, <1>6, <2>2, <2>5, <2>6, <2>7, <2>8 DEF IInv
<1> QED
  BY <1>8, <1>9 DEF Save
-----------------------------------------------------------------------------
(***************************************************************************)
(* The actions, one lemma each.                                            *)
(***************************************************************************)
Busy == {"unsent", "arrived", "running", "answering", "returned", "errored"}

(* No frame is owed in any phase but sending and closing. *)
LEMMA WirePhase ==
  ASSUME NEW p \in Busy, NEW q \in Busy, NEW s, WireOK(p, s)
  PROVE  WireOK(q, s)
BY DEF WireOK, NextSeq, Busy

(* What the client of a continuation knew to be done is settled. *)
LEMMA KnownIsSettled ==
  ASSUME IInv, NEW r \in Requests, KnowsDone(r)
  PROVE  Settled(r) /\ sink[r].acc.id = TRUE
<1>1. Local(r) /\ sink[r].acc \in Acc
  BY Typed
<1>2. sink[r].acc.id = TRUE
  BY <1>1 DEF KnowsDone, Acc
<1>3. CASE answer[r] = "ok"
  BY <1>1, <1>2, <1>3 DEF Local, LocalOK, Settled, IsSettled
<1>4. CASE OnWire(r, Terminal)
  <2>1. PICK k \in 1..Len(sink[r].wire) : sink[r].wire[k].type \in Terminal
    BY <1>4 DEF OnWire
  <2>2. WireOK(phase[r], sink[r])
    BY <1>1 DEF Local, LocalOK
  <2>3. phase[r] = "ended" \/ ~(~sink[r].terminal)
    BY <2>1, <2>2 DEF WireOK
  <2>4. sink[r].terminal \in BOOLEAN
    BY Typed
  <2> QED
    BY <1>2, <2>3, <2>4 DEF Settled, IsSettled
<1> QED
  BY <1>3, <1>4 DEF KnowsDone

(* A request is sent: nothing is known of it yet, and nobody continues it. *)
LEMMA ClientSendsStep ==
  ASSUME IInv, NEW r \in Requests, ClientSends(r)
  PROVE  IInv'
<1>1. PICK p \in {q \in Requests : Knows(q)} \cup {NoRequest}, keep \in BOOLEAN, streams \in BOOLEAN :
        req' = [req EXCEPT ![r] = [prev |-> p, store |-> keep, stream |-> streams,
                                   informed |-> p # NoRequest /\ KnowsDone(p)]]
  BY DEF ClientSends
<1>2. /\ phase[r] = "unsent" /\ phase' = [phase EXCEPT ![r] = "arrived"]
      /\ UNCHANGED <<conv, sink, answer, store, saved, lost>>
  BY DEF ClientSends, Goto
<1>3. /\ phase'[r] = "arrived" /\ \A q \in Requests \ {r} : phase'[q] = phase[q] /\ req'[q] = req[q]
      /\ req'[r].prev = p /\ (req'[r].informed <=> p # NoRequest /\ KnowsDone(p))
  BY <1>1, <1>2 DEF IInv, TypeOK
<1>4. Local(r) /\ sink[r].acc = NoResponse /\ sink[r].terminal = FALSE /\ conv[r] = <<>> /\ answer[r] = "none"
  BY <1>2, Typed DEF Local, LocalOK
<1>5. TypeOK'
  <2>1. (p # NoRequest /\ KnowsDone(p)) \in BOOLEAN
    OBVIOUS
  <2>2. [prev |-> p, store |-> keep, stream |-> streams,
         informed |-> p # NoRequest /\ KnowsDone(p)] \in Request
    BY <2>1 DEF Request
  <2>3. req' \in [Requests -> Request]
    BY <1>1, <2>2 DEF IInv, TypeOK
  <2>4. phase' \in [Requests -> Phases]
    BY <1>2 DEF IInv, TypeOK, Phases
  <2> QED
    BY <1>2, <2>3, <2>4 DEF IInv, TypeOK
<1>6. ~Settled(r) /\ ~IsSaved(r)
  BY <1>2, <1>4 DEF Settled, IsSettled, IInv, SavedIsFinal
<1>7. ASSUME NEW q \in Requests, Settled(q)
      PROVE  q # r /\ Settled(q)' /\ req'[q] = req[q]
  BY <1>2, <1>3, <1>6, <1>7 DEF Settled
<1>8. ASSUME NEW q \in Requests PROVE Local(q)'
  <2>1. CASE q = r
    <3>1. WireOK("arrived", sink[r])
      BY <1>2, <1>4, WirePhase DEF Local, LocalOK, Busy
    <3> QED
      BY <1>2, <1>3, <1>4, <2>1, <3>1 DEF Local, LocalOK
  <2>2. CASE q # r
    BY <1>2, <1>3, <2>2 DEF IInv, Local
  <2> QED
    BY <2>1, <2>2
<1>9. ASSUME NEW q \in Requests PROVE NothingUnsaved(q)' /\ SavedIsFinal(q)'
  <2>1. NothingUnsaved(q) /\ SavedIsFinal(q)
    BY DEF IInv
  <2>2. IsSaved(q)' <=> IsSaved(q)
    BY <1>2 DEF IsSaved
  <2>3. CASE q = r
    BY <1>2, <1>4, <1>6, <2>2, <2>3 DEF NothingUnsaved, SavedIsFinal, NoResponse, Kept
  <2>4. CASE q # r
    BY <1>2, <1>3, <1>7, <2>1, <2>2, <2>4 DEF NothingUnsaved, SavedIsFinal
  <2> QED
    BY <2>3, <2>4
<1>10. ASSUME NEW h \in Seq(Requests), NEW q \in Requests, q # r, IsConversation(h, q)
       PROVE  IsConversation(h, q)'
  <2>1. \A x \in Requests : IsSaved(x) => x # r /\ IsSaved(x)'
    BY <1>2, <1>6 DEF IsSaved
  <2> QED
    BY <1>3, <1>10, <2>1, ConversationKept
<1>11. StoreOK'
  <2>1. ASSUME NEW q \in DOMAIN store.items
        PROVE  IsConversation(store.items[q], q)'
    <3>1. store.items[q] \in Seq(Requests) /\ IsConversation(store.items[q], q)
      BY DEF IInv, TypeOK, StoreOK
    <3>2. q \in Requests /\ q # r
      <4>1. q \in Store!IdsOf(store.order) /\ saved \in Seq(Requests)
        BY DEF IInv, TypeOK
      <4>2. q \in Store!IdsOf(saved)
        BY <4>1, EvictedIds, ConstantsAssumption DEF IInv, StoreOK
      <4> QED
        BY <1>6, <4>1, <4>2 DEF Store!IdsOf, IsSaved
    <3>3. PICK h \in Seq(Requests) : h = store.items[q]
      BY <3>1
    <3>4. IsConversation(h, q)'
      BY <1>10, <3>1, <3>2, <3>3
    <3> QED
      BY <1>2, <3>3, <3>4
  <2> QED
    BY <1>2, <2>1 DEF StoreOK, IInv
<1>12. ASSUME NEW q \in Requests PROVE Conversation(q)'
  <2>1. conv[q] \in Seq(Requests) /\ Conversation(q)
    BY Typed DEF IInv
  <2>2. PICK h \in Seq(Requests) : h = conv[q]
    BY <2>1
  <2>3. CASE q = r
    BY <1>2, <1>4, <2>3 DEF Conversation
  <2>4. CASE q # r
    BY <1>2, <1>10, <2>1, <2>2, <2>4 DEF Conversation
  <2> QED
    BY <2>3, <2>4
<1>13. ASSUME NEW q \in Requests PROVE Informed(q)'
  <2>1. CASE q = r
    <3>1. ASSUME p # NoRequest /\ KnowsDone(p)
          PROVE  p \in Requests /\ sink[p].acc.id = TRUE /\ Settled(p)'
      BY <1>7, <3>1, KnownIsSettled
    <3> QED
      BY <1>2, <1>3, <2>1, <3>1 DEF Informed
  <2>2. CASE q # r
    <3>1. Informed(q)
      BY DEF IInv
    <3> QED
      BY <1>2, <1>3, <1>7, <2>2, <3>1 DEF Informed
  <2> QED
    BY <2>1, <2>2
<1>14. ASSUME NEW q \in Requests PROVE FoundOrExcused(q)'
  <2>1. FoundOrExcused(q) /\ Informed(q)
    BY DEF IInv
  <2>2. CASE q = r
    BY <1>2, <1>4, <2>2 DEF FoundOrExcused
  <2>3. CASE q # r
    <3>1. req[q].informed => (Excused(req[q].prev) => Excused(req[q].prev)')
      BY <1>2, <1>3, <1>7, <2>1, <2>3 DEF Informed, Excused, Evicts
    <3> QED
      BY <1>2, <1>3, <2>1, <2>3, <3>1 DEF FoundOrExcused
  <2> QED
    BY <2>2, <2>3
<1> QED
  BY <1>5, <1>8, <1>9, <1>11, <1>12, <1>13, <1>14 DEF IInv

(* The conversation a request continues, with the request at its end. *)
LEMMA MergedIsConversation ==
  ASSUME IInv, NEW r \in Requests, req[r].prev = NoRequest \/ Store!Holds(store, req[r].prev)
  PROVE  Merged(r) \in Seq(Requests) /\ IsConversation(Merged(r), r)
<1>1. CASE req[r].prev = NoRequest
  <2>1. Merged(r) = <<r>>
    BY <1>1 DEF Merged
  <2> QED
    BY <1>1, <2>1 DEF IsConversation
<1>2. CASE req[r].prev # NoRequest
  <2> DEFINE p == req[r].prev
             h == store.items[p]
             m == Append(h, r)
  <2>1. p \in DOMAIN store.items /\ Merged(r) = m
    BY <1>2 DEF Store!Holds, Store!History, Merged
  <2>2. h \in Seq(Requests) /\ IsConversation(h, p) /\ p \in Store!IdsOf(store.order)
    BY <2>1 DEF IInv, TypeOK, StoreOK
  <2>3. IsSaved(p)
    <3>1. p \in Store!IdsOf(saved)
      BY <2>2, EvictedIds, ConstantsAssumption DEF IInv, StoreOK, TypeOK
    <3> QED
      BY <3>1 DEF Store!IdsOf, IsSaved
  <2>4. req[r].prev = p
    OBVIOUS
  <2> HIDE DEF p, h
  <2>5. /\ h # <<>> /\ h[Len(h)] = p /\ req[h[1]].prev = NoRequest
        /\ \A k \in 2..Len(h) : req[h[k]].prev = h[k-1] /\ IsSaved(h[k-1])
    BY <2>2 DEF IsConversation
  <2>6. Len(h) \in Nat /\ Len(h) > 0
    BY <2>2, <2>5, EmptySeq
  <2>7. /\ m \in Seq(Requests) /\ Len(m) = Len(h) + 1 /\ m[Len(h) + 1] = r
        /\ \A k \in 1..Len(h) : m[k] = h[k]
    BY <2>2
  <2> HIDE DEF m
  <2>8. m # <<>> /\ m[Len(m)] = r
    BY <2>6, <2>7, EmptySeq
  <2>9. 1 \in 1..Len(h) /\ m[1] = h[1]
    BY <2>6, <2>7
  <2>10. ASSUME NEW k \in 2..Len(m)
         PROVE  req[m[k]].prev = m[k-1] /\ IsSaved(m[k-1])
    <3>1. k-1 \in 1..Len(h) /\ m[k-1] = h[k-1]
      BY <2>6, <2>7
    <3>2. CASE k = Len(m)
      <4>1. k-1 = Len(h) /\ m[k] = r
        BY <2>6, <2>7, <3>2
      <4> QED
        BY <2>3, <2>4, <2>5, <3>1, <4>1
    <3>3. CASE k # Len(m)
      <4>1. k \in 2..Len(h) /\ k \in 1..Len(h)
        BY <2>6, <2>7, <3>3
      <4>2. m[k] = h[k]
        BY <2>7, <4>1
      <4> QED
        BY <2>5, <3>1, <4>1, <4>2
    <3> QED
      BY <3>2, <3>3
  <2>11. IsConversation(m, r)
    BY <2>5, <2>8, <2>9, <2>10 DEF IsConversation
  <2> QED
    BY <2>1, <2>7, <2>11
<1> QED
  BY <1>1, <1>2

(* resolve: the request's conversation is whole before the adapter sees it. *)
LEMMA ResolveStep ==
  ASSUME IInv, NEW r \in Requests, Resolve(r)
  PROVE  IInv'
<1>1. /\ phase[r] = "arrived" /\ phase' = [phase EXCEPT ![r] = "running"]
      /\ conv' = [conv EXCEPT ![r] = Merged(r)]
      /\ UNCHANGED <<req, sink, answer, store, saved, lost>>
  BY DEF Resolve, Goto
<1>2. Merged(r) \in Seq(Requests) /\ IsConversation(Merged(r), r)
  BY MergedIsConversation DEF Resolve
<1>3. /\ phase'[r] = "running" /\ conv'[r] = Merged(r)
      /\ \A q \in Requests \ {r} : phase'[q] = phase[q] /\ conv'[q] = conv[q]
  BY <1>1 DEF IInv, TypeOK
<1>4. TypeOK'
  BY <1>1, <1>2 DEF IInv, TypeOK, Phases
<1>5. ASSUME NEW q \in Requests PROVE Local(q)'
  <2>1. CASE q = r
    <3>1. Local(r)
      BY Typed
    <3>2. WireOK("running", sink[r])
      BY <1>1, <3>1, WirePhase DEF Local, LocalOK, Busy
    <3>3. Merged(r) # <<>>
      BY <1>2 DEF IsConversation
    <3> QED
      BY <1>1, <1>3, <2>1, <3>1, <3>2, <3>3 DEF Local, LocalOK
  <2>2. CASE q # r
    BY <1>1, <1>3, <2>2 DEF IInv, Local
  <2> QED
    BY <2>1, <2>2
<1>6. \A q \in Requests : Settled(q) => Settled(q)'
  BY <1>1, <1>3 DEF Settled, IsSettled
<1>7. \A q \in Requests : IsSaved(q)' <=> IsSaved(q)
  BY <1>1 DEF IsSaved
<1>8. ASSUME NEW q \in Requests PROVE NothingUnsaved(q)' /\ SavedIsFinal(q)'
  <2>1. NothingUnsaved(q) /\ SavedIsFinal(q)
    BY DEF IInv
  <2> QED
    BY <1>1, <1>6, <1>7, <2>1 DEF NothingUnsaved, SavedIsFinal
<1>9. ASSUME NEW h \in Seq(Requests), NEW q, IsConversation(h, q)
      PROVE  IsConversation(h, q)'
  BY <1>1, <1>7, <1>9, ConversationKept
<1>10. StoreOK'
  <2>1. ASSUME NEW q \in DOMAIN store.items
        PROVE  IsConversation(store.items[q], q)'
    <3>1. store.items[q] \in Seq(Requests) /\ IsConversation(store.items[q], q)
      BY DEF IInv, TypeOK, StoreOK
    <3>2. PICK h \in Seq(Requests) : h = store.items[q]
      BY <3>1
    <3>3. IsConversation(h, q)'
      BY <1>9, <3>1, <3>2
    <3> QED
      BY <1>1, <3>2, <3>3
  <2> QED
    BY <1>1, <2>1 DEF StoreOK, IInv
<1>11. ASSUME NEW q \in Requests PROVE Conversation(q)'
  <2>1. CASE q = r
    <3>1. PICK h \in Seq(Requests) : h = Merged(r)
      BY <1>2
    <3>2. IsConversation(h, r)'
      BY <1>2, <1>9, <3>1
    <3> QED
      BY <1>3, <2>1, <3>1, <3>2 DEF Conversation
  <2>2. CASE q # r
    <3>1. conv[q] \in Seq(Requests) /\ Conversation(q)
      BY Typed DEF IInv
    <3>2. PICK h \in Seq(Requests) : h = conv[q]
      BY <3>1
    <3> QED
      BY <1>3, <1>9, <2>2, <3>1, <3>2 DEF Conversation
  <2> QED
    BY <2>1, <2>2
<1>12. ASSUME NEW q \in Requests PROVE Informed(q)' /\ FoundOrExcused(q)'
  <2>1. Informed(q) /\ FoundOrExcused(q)
    BY DEF IInv
  <2>2. Excused(req[q].prev) => Excused(req[q].prev)'
    BY <1>1 DEF Excused, Evicts
  <2> QED
    BY <1>1, <1>6, <2>1, <2>2 DEF Informed, FoundOrExcused
<1> QED
  BY <1>4, <1>5, <1>8, <1>10, <1>11, <1>12 DEF IInv

(* The client leaves: no part of the request but its connection changes. *)
LEMMA ClientLeavesStep ==
  ASSUME IInv, NEW r \in Requests, ClientLeaves(r)
  PROVE  IInv'
<1> DEFINE s == [sink[r] EXCEPT !.up = FALSE]
<1>1. /\ phase[r] \in Phases /\ sink[r] \in Sink /\ Local(r)
      /\ answer[r] \in {"none", "ok", "error", "not_found"}
  BY Typed
<1>2. /\ s \in Sink /\ s.acc = sink[r].acc /\ s.terminal = sink[r].terminal
      /\ s.wire = sink[r].wire /\ s.seq = sink[r].seq
  BY <1>1 DEF Sink
<1>3. /\ phase' = [phase EXCEPT ![r] = phase[r]] /\ answer' = [answer EXCEPT ![r] = answer[r]]
      /\ sink' = [sink EXCEPT ![r] = s] /\ UNCHANGED <<req, conv, store, saved, lost>>
  BY DEF ClientLeaves, SetSink, IInv, TypeOK
<1> HIDE DEF s
<1>4. LocalOK(phase[r], req[r], s, conv[r], answer[r])
  BY <1>1, <1>2 DEF Local, LocalOK, WireOK, NextSeq
<1>5. Settled(r) => IsSettled(phase[r], s) /\ s.acc = sink[r].acc
  BY <1>2 DEF Settled, IsSettled
<1>6. answer[r] = "not_found" /\ req[r].informed => Excused(req[r].prev)
  BY DEF IInv, FoundOrExcused
<1> QED
  BY <1>1, <1>2, <1>3, <1>4, <1>5, <1>6, QuietStep

(* A request ends with an answer, or none if its client has left. *)
LEMMA RefuseStep ==
  ASSUME IInv, NEW r \in Requests, NEW a \in {"ok", "error", "not_found"}, Refuse(r, a),
         a = "not_found" /\ req[r].informed => Excused(req[r].prev)
  PROVE  IInv'
<1> DEFINE b == IF sink[r].up THEN a ELSE "none"
<1>1. sink[r] \in Sink /\ Local(r) /\ "ended" \in Phases
  BY Typed DEF Phases
<1>2. b \in {"none", "ok", "error", "not_found"} /\ (b = "not_found" => a = "not_found")
  OBVIOUS
<1>3. /\ phase' = [phase EXCEPT ![r] = "ended"] /\ answer' = [answer EXCEPT ![r] = b]
      /\ sink' = [sink EXCEPT ![r] = sink[r]] /\ UNCHANGED <<req, conv, store, saved, lost>>
  BY DEF Refuse, Goto, Answer, IInv, TypeOK
<1> HIDE DEF b
<1>4. LocalOK("ended", req[r], sink[r], conv[r], b)
  <2>1. WireOK("ended", sink[r])
    BY <1>1, WireEnded DEF Local, LocalOK
  <2> QED
    BY <1>1, <2>1 DEF Local, LocalOK
<1>5. IsSettled("ended", sink[r])
  BY DEF IsSettled
<1> QED
  BY <1>1, <1>2, <1>3, <1>4, <1>5, QuietStep

(* The store has not found it: it was evicted, or never to be there. *)
LEMMA NotFoundStep ==
  ASSUME IInv, NEW r \in Requests, ResolveNotFound(r)
  PROVE  IInv'
<1> DEFINE p == req[r].prev
<1>1. ASSUME req[r].informed PROVE Excused(p)
  <2>1. p \in Requests /\ sink[p].acc.id = TRUE /\ NothingUnsaved(p)
    BY <1>1 DEF IInv, Informed
  <2>2. p \notin Store!IdsOf(store.order)
    BY DEF ResolveNotFound, Store!Holds, IInv, TypeOK
  <2> HIDE DEF p
  <2>3. IsSaved(p) => Evicts(p)
    BY <2>2, EvictedIds, ConstantsAssumption DEF IInv, TypeOK, StoreOK, IsSaved, Evicts
  <2> QED
    BY <2>1, <2>3 DEF NothingUnsaved, Excused
<1> QED
  BY <1>1, RefuseStep DEF ResolveNotFound

(* The events of the adapter. *)
LEMMA AdapterSendsStep ==
  ASSUME IInv, NEW r \in Requests, NEW t \in Events, AdapterSends(r, t)
  PROVE  IInv'
<1>1. PICK s \in Put(Recorded(sink[r], t, TRUE), t) : sink' = [sink EXCEPT ![r] = s]
  BY DEF AdapterSends, SetSink
<1>2. /\ phase[r] = "running" /\ req[r].stream = TRUE /\ t \notin Terminal
      /\ sink[r].terminal = FALSE /\ UNCHANGED <<phase, req, conv, answer, store, saved, lost>>
  BY Typed DEF AdapterSends, Accepts, Request
<1>3. /\ sink[r] \in Sink /\ sink[r].acc \in Acc /\ Local(r) /\ t \in EventType
      /\ phase[r] \in Phases /\ answer[r] \in {"none", "ok", "error", "not_found"}
  BY Typed, EventsAssumption
<1>4. WireOK("running", sink[r])
  BY <1>2, <1>3 DEF Local, LocalOK
<1>5. /\ WireOK("running", s) /\ s \in Sink /\ s.terminal = (t \in Terminal)
      /\ s.acc = Folded(sink[r].acc, t, TRUE)
  <2> DEFINE k  == sink[r]
             id == TRUE
  <2>1. /\ k \in Sink /\ k.terminal = FALSE /\ WireOK("running", k)
        /\ id \in BOOLEAN /\ t \in EventType /\ s \in Put(Recorded(k, t, id), t)
    BY <1>1, <1>2, <1>3, <1>4
  <2> HIDE DEF k, id
  <2>2. /\ WireOK("running", s) /\ s \in Sink /\ s.terminal = (t \in Terminal)
        /\ s.acc = Folded(k.acc, t, id)
    BY <2>1, WireAfterSend, ZenonT(60)
  <2> QED
    BY <2>2 DEF k, id
<1>6. s.terminal = FALSE /\ (s.acc.status \in Kept => s.acc = sink[r].acc)
  <2>1. s.terminal = FALSE
    <3>1. (t \in Terminal) = FALSE
      BY <1>2
    <3> QED
      BY <1>5, <3>1
  <2>2. Folded(sink[r].acc, t, TRUE).status \in Kept => Folded(sink[r].acc, t, TRUE) = sink[r].acc
    BY <1>2, <1>3, FoldedType
  <2> QED
    BY <1>5, <2>1, <2>2
<1>7. LocalOK(phase[r], req[r], s, conv[r], answer[r])
  BY <1>2, <1>3, <1>5, <1>6 DEF Local, LocalOK
<1>8. ~Settled(r)
  BY <1>2 DEF Settled, IsSettled
<1>9. phase' = [phase EXCEPT ![r] = phase[r]] /\ answer' = [answer EXCEPT ![r] = answer[r]]
  BY <1>2 DEF IInv, TypeOK
<1>10. answer[r] = "not_found" /\ req[r].informed => Excused(req[r].prev)
  BY DEF IInv, FoundOrExcused
<1> QED
  BY <1>1, <1>2, <1>3, <1>5, <1>6, <1>7, <1>8, <1>9, <1>10, QuietStep

LEMMA SendUnencodedStep ==
  ASSUME IInv, NEW r \in Requests, SendUnencoded(r)
  PROVE  IInv'
<1> DEFINE s == Unencoded(sink[r])
<1>1. PICK p \in {"running", "errored"} : phase' = [phase EXCEPT ![r] = p]
  BY DEF SendUnencoded, Goto
<1>2. /\ phase[r] = "running" /\ req[r].stream = TRUE /\ sink[r].terminal = FALSE
      /\ sink' = [sink EXCEPT ![r] = s] /\ UNCHANGED <<req, conv, answer, store, saved, lost>>
  BY Typed DEF SendUnencoded, Accepts, Request, SetSink
<1>3. /\ sink[r] \in Sink /\ Local(r) /\ p \in Phases
      /\ answer[r] \in {"none", "ok", "error", "not_found"}
  BY Typed DEF Phases
<1>4. WireOK("running", s) /\ s \in Sink /\ s.acc = sink[r].acc /\ s.terminal = FALSE
  BY <1>2, <1>3, UnencodedSink, WireUnencoded DEF Local, LocalOK
<1> HIDE DEF s
<1>5. LocalOK(p, req[r], s, conv[r], answer[r])
  <2>1. WireOK(p, s)
    BY <1>4, WirePhase DEF Busy
  <2> QED
    BY <1>2, <1>3, <1>4, <2>1 DEF Local, LocalOK
<1>6. ~Settled(r)
  BY <1>2 DEF Settled, IsSettled
<1>7. answer' = [answer EXCEPT ![r] = answer[r]]
  BY <1>2 DEF IInv, TypeOK
<1>8. answer[r] = "not_found" /\ req[r].informed => Excused(req[r].prev)
  BY DEF IInv, FoundOrExcused
<1> QED
  BY <1>1, <1>2, <1>3, <1>4, <1>5, <1>6, <1>7, <1>8, QuietStep

(* A terminal event is recorded and saved, by the adapter or by finish. *)
LEMMA TerminateStep ==
  ASSUME IInv, NEW r \in Requests, NEW t \in Terminal, NEW id \in BOOLEAN,
         NEW p \in {"sending", "closing"}, Terminate(r, t, id, p),
         phase[r] \in {"running", "returned"}, req[r].stream = TRUE, sink[r].terminal = FALSE
  PROVE  IInv'
<1> DEFINE s == Recorded(sink[r], t, id)
<1>1. /\ sink' = [sink EXCEPT ![r] = s] /\ phase' = [phase EXCEPT ![r] = p]
      /\ UNCHANGED <<req, conv, answer>> /\ Save(r, s.acc)
  BY DEF Terminate, SetSink, Goto
<1>2. sink[r] \in Sink /\ Local(r) /\ p \in Phases
  BY Typed DEF Phases
<1>3. WireOK("running", sink[r])
  BY <1>2, WirePhase DEF Local, LocalOK, Busy
<1>4. WireOK(p, s) /\ s \in Sink /\ s.terminal = TRUE /\ s.seq > 0
  BY <1>2, <1>3, WireBeforeTerminal
<1> HIDE DEF s
<1>5. LocalOK(p, req[r], s, conv[r], answer[r])
  BY <1>2, <1>4 DEF Local, LocalOK
<1>6. ~Settled(r) /\ IsSettled(p, s) /\ conv[r] # <<>>
  BY <1>2, <1>4 DEF Settled, IsSettled, Local, LocalOK
<1> QED
  BY <1>1, <1>2, <1>4, <1>5, <1>6, SaveStep

LEMMA AdapterFinishesStep ==
  ASSUME IInv, NEW r \in Requests, NEW t \in Events, AdapterFinishes(r, t)
  PROVE  IInv'
<1>1. req[r].stream = TRUE /\ sink[r].terminal = FALSE
  BY Typed DEF AdapterFinishes, Accepts, Request
<1> QED
  BY <1>1, TerminateStep DEF AdapterFinishes

LEMMA FinishCompletedStep ==
  ASSUME IInv, NEW r \in Requests, FinishCompleted(r)
  PROVE  IInv'
<1> DEFINE id == IDAtFinish(sink[r].acc)
<1>1. Local(r) /\ sink[r].acc \in Acc /\ sink[r].terminal \in BOOLEAN
  BY Typed
<1>2. req[r].stream = TRUE /\ sink[r].terminal = FALSE /\ phase[r] = "returned"
  BY <1>1 DEF FinishCompleted, Synthesizes, Accepts, Local, LocalOK
<1>3. id \in BOOLEAN /\ "response.completed" \in Terminal
  BY <1>1 DEF Acc, IDAtFinish, Terminal
<1>4. Terminate(r, "response.completed", id, "closing")
  BY DEF FinishCompleted
<1> HIDE DEF id
<1> QED
  BY <1>2, <1>3, <1>4, TerminateStep

(* ... and written, after which the adapter runs on. *)
LEMMA TerminalSentStep ==
  ASSUME IInv, NEW r \in Requests, TerminalSent(r)
  PROVE  IInv'
<1>1. PICK t \in Terminal : \E s \in Put(sink[r], t) : SetSink(r, s)
  BY DEF TerminalSent
<1>2. PICK s \in Put(sink[r], t) : sink' = [sink EXCEPT ![r] = s]
  BY <1>1 DEF SetSink
<1>3. /\ phase[r] = "sending" /\ phase' = [phase EXCEPT ![r] = "running"]
      /\ UNCHANGED <<req, conv, answer, store, saved, lost>>
  BY DEF TerminalSent, Goto
<1>4. /\ sink[r] \in Sink /\ Local(r) /\ "running" \in Phases
      /\ answer[r] \in {"none", "ok", "error", "not_found"}
  BY Typed DEF Phases
<1>5. sink[r].terminal = TRUE /\ sink[r].seq > 0 /\ WireOK("sending", sink[r])
  BY <1>3, <1>4 DEF Local, LocalOK
<1>6. WireOK("running", s) /\ s \in Sink /\ s.acc = sink[r].acc /\ s.terminal = TRUE
  BY <1>4, <1>5, WireAfterTerminal
<1>7. LocalOK("running", req[r], s, conv[r], answer[r])
  BY <1>3, <1>4, <1>6 DEF Local, LocalOK
<1>8. IsSettled("running", s)
  BY <1>6 DEF IsSettled
<1>9. answer' = [answer EXCEPT ![r] = answer[r]]
  BY <1>3 DEF IInv, TypeOK
<1>10. answer[r] = "not_found" /\ req[r].informed => Excused(req[r].prev)
  BY DEF IInv, FoundOrExcused
<1> QED
  BY <1>2, <1>3, <1>4, <1>6, <1>7, <1>8, <1>9, <1>10, QuietStep

(* Create returns a response, saved before it is answered with. *)
LEMMA CreateReturnsStep ==
  ASSUME IInv, NEW r \in Requests, CreateReturns(r)
  PROVE  IInv'
<1>1. PICK status \in Status \ {"none"} :
        LET acc == Snapshot(TRUE, status) IN
        SetSink(r, [sink[r] EXCEPT !.acc = acc]) /\ Save(r, acc)
  BY DEF CreateReturns
<1> DEFINE acc == Snapshot(TRUE, status)
           s   == [sink[r] EXCEPT !.acc = acc]
<1>2. /\ sink' = [sink EXCEPT ![r] = s] /\ Save(r, acc)
      /\ phase[r] = "running" /\ ~req[r].stream /\ phase' = [phase EXCEPT ![r] = "answering"]
      /\ UNCHANGED <<req, conv, answer>>
  BY <1>1 DEF CreateReturns, Goto, SetSink
<1>3. sink[r] \in Sink /\ Local(r) /\ sink[r].terminal \in BOOLEAN /\ "answering" \in Phases
  BY Typed DEF Phases
<1>4. acc \in Acc
  BY DEF Acc, Snapshot, Status
<1> HIDE DEF acc
<1>5. /\ s \in Sink /\ s.acc = acc /\ s.terminal = sink[r].terminal
      /\ s.wire = sink[r].wire /\ s.seq = sink[r].seq
  BY <1>3, <1>4 DEF Sink, Acc
<1> HIDE DEF s
<1>6. s.terminal = FALSE /\ conv[r] # <<>>
  BY <1>2, <1>3, <1>5 DEF Local, LocalOK
<1>7. WireOK("answering", s)
  <2>1. WireOK("answering", sink[r])
    BY <1>2, <1>3, WirePhase DEF Local, LocalOK, Busy
  <2> QED
    BY <1>5, <2>1 DEF WireOK, NextSeq
<1>8. LocalOK("answering", req[r], s, conv[r], answer[r])
  BY <1>2, <1>3, <1>6, <1>7 DEF Local, LocalOK
<1>9. ~Settled(r) /\ IsSettled("answering", s)
  BY <1>2, <1>5, <1>6 DEF Settled, IsSettled
<1> QED
  BY <1>2, <1>3, <1>5, <1>6, <1>8, <1>9, SaveStep

LEMMA WriteAnswerStep ==
  ASSUME IInv, NEW r \in Requests, WriteAnswer(r)
  PROVE  IInv'
<1>1. PICK a \in {"ok", "error"} : Refuse(r, a)
  BY DEF WriteAnswer, Refuse
<1> QED
  BY <1>1, RefuseStep

LEMMA AdapterReturnsStep ==
  ASSUME IInv, NEW r \in Requests, AdapterReturns(r)
  PROVE  IInv'
<1>1. PICK p \in {"returned", "errored"} : phase' = [phase EXCEPT ![r] = p]
  BY DEF AdapterReturns, Goto
<1>2. /\ phase[r] = "running" /\ req[r].stream = TRUE
      /\ UNCHANGED <<req, conv, sink, answer, store, saved, lost>>
  BY Typed DEF AdapterReturns, Request
<1>3. /\ sink[r] \in Sink /\ Local(r) /\ p \in Phases
      /\ answer[r] \in {"none", "ok", "error", "not_found"}
  BY Typed DEF Phases
<1>4. sink' = [sink EXCEPT ![r] = sink[r]] /\ answer' = [answer EXCEPT ![r] = answer[r]]
  BY <1>2 DEF IInv, TypeOK
<1>5. LocalOK(p, req[r], sink[r], conv[r], answer[r])
  <2>1. WireOK(p, sink[r])
    BY <1>2, <1>3, WirePhase DEF Local, LocalOK, Busy
  <2> QED
    BY <1>2, <1>3, <2>1 DEF Local, LocalOK
<1>6. Settled(r) => IsSettled(p, sink[r])
  BY <1>2 DEF Settled, IsSettled
<1>7. answer[r] = "not_found" /\ req[r].informed => Excused(req[r].prev)
  BY DEF IInv, FoundOrExcused
<1> QED
  BY <1>1, <1>2, <1>3, <1>4, <1>5, <1>6, <1>7, QuietStep

(***************************************************************************)
(* finish leaves a sink whose response is the one it had, or not one to    *)
(* keep, and the request has ended.                                        *)
(***************************************************************************)
LEMMA EndStep ==
  ASSUME IInv, NEW r \in Requests, NEW s \in Sink, phase[r] \in Phases \ {"unsent", "arrived"},
         phase' = [phase EXCEPT ![r] = "ended"], sink' = [sink EXCEPT ![r] = s],
         UNCHANGED <<req, conv, answer, store, saved, lost>>,
         WireOK("ended", s), s.terminal = TRUE => req[r].stream = TRUE,
         Settled(r) => s.acc = sink[r].acc,
         s.acc.status \in Kept => s.acc = sink[r].acc
  PROVE  IInv'
<1>1. Local(r) /\ "ended" \in Phases /\ answer[r] \in {"none", "ok", "error", "not_found"}
  BY Typed DEF Phases
<1>2. LocalOK("ended", req[r], s, conv[r], answer[r])
  BY <1>1 DEF Local, LocalOK
<1>3. IsSettled("ended", s)
  BY DEF IsSettled
<1>4. answer' = [answer EXCEPT ![r] = answer[r]]
  BY DEF IInv, TypeOK
<1>5. answer[r] = "not_found" /\ req[r].informed => Excused(req[r].prev)
  BY DEF IInv, FoundOrExcused
<1> QED
  BY <1>1, <1>2, <1>3, <1>4, <1>5, QuietStep

(* What finish finds: the adapter has returned from a stream. *)
LEMMA AtFinish ==
  ASSUME IInv, NEW r \in Requests, Finishing(r)
  PROVE  /\ phase[r] \in Phases \ {"unsent", "arrived"} /\ req[r].stream = TRUE
         /\ sink[r] \in Sink /\ WireOK("running", sink[r])
<1>1. sink[r] \in Sink /\ Local(r) /\ phase[r] \in {"returned", "errored"}
  BY Typed DEF Finishing
<1>2. WireOK("running", sink[r])
  BY <1>1, WirePhase DEF Local, LocalOK, Busy
<1> QED
  BY <1>1, <1>2 DEF Local, LocalOK, Phases

LEMMA AbandonStep ==
  ASSUME IInv, NEW r \in Requests, Abandon(r)
  PROVE  IInv'
<1>1. /\ Finishing(r) /\ phase' = [phase EXCEPT ![r] = "ended"]
      /\ UNCHANGED <<req, conv, sink, answer, store, saved, lost>>
  BY DEF Abandon, Goto
<1>2. sink' = [sink EXCEPT ![r] = sink[r]]
  BY <1>1 DEF IInv, TypeOK
<1>3. WireOK("ended", sink[r])
  BY <1>1, AtFinish, WireEnded
<1> QED
  BY <1>1, <1>2, <1>3, AtFinish, EndStep

LEMMA FinishDoneStep ==
  ASSUME IInv, NEW r \in Requests, FinishDone(r)
  PROVE  IInv'
<1> DEFINE s == WithDone(sink[r])
<1>1. /\ Finishing(r) /\ phase' = [phase EXCEPT ![r] = "ended"] /\ sink' = [sink EXCEPT ![r] = s]
      /\ UNCHANGED <<req, conv, answer, store, saved, lost>>
  BY DEF FinishDone, Goto, SetSink
<1>2. s \in Sink /\ s.acc = sink[r].acc /\ WireOK("ended", s)
  BY <1>1, AtFinish, WithDoneSink, WireDone
<1> HIDE DEF s
<1> QED
  BY <1>1, <1>2, AtFinish, EndStep

LEMMA FinishFailedStep ==
  ASSUME IInv, NEW r \in Requests, FinishFailed(r)
  PROVE  IInv'
<1>1. PICK s \in FailedFinish(sink[r]) :
        /\ SetSink(r, s)
        /\ IF s.terminal THEN Save(r, s.acc) ELSE UNCHANGED <<store, saved, lost>>
  BY DEF FinishFailed
<1>2. /\ Finishing(r) /\ phase[r] = "errored" /\ phase' = [phase EXCEPT ![r] = "ended"]
      /\ sink' = [sink EXCEPT ![r] = s] /\ UNCHANGED <<req, conv, answer>>
  BY <1>1 DEF FinishFailed, Goto, SetSink
<1>3. sink[r].terminal = FALSE
  BY Typed DEF FinishFailed, Accepts
<1>4. /\ s \in Sink /\ WireOK("ended", s)
      /\ s.acc.status \in Kept => s.acc = sink[r].acc
      /\ s.terminal = TRUE => s.acc.status = "failed"
  BY <1>2, <1>3, AtFinish, FailedFinishSink
<1>5. UNCHANGED <<store, saved, lost>>
  <2>1. CASE s.terminal = TRUE
    BY <1>1, <1>4, <2>1 DEF Save, Storable
  <2>2. CASE s.terminal = FALSE
    BY <1>1, <2>2
  <2> QED
    BY <1>4, <2>1, <2>2 DEF Sink
<1>6. ~Settled(r)
  BY <1>2, <1>3 DEF Settled, IsSettled
<1> QED
  BY <1>2, <1>4, <1>5, <1>6, AtFinish, EndStep

LEMMA FinishSentStep ==
  ASSUME IInv, NEW r \in Requests, FinishSent(r)
  PROVE  IInv'
<1>1. PICK e \in Put(sink[r], "response.completed") : sink' = [sink EXCEPT ![r] = WithDone(e)]
  BY DEF FinishSent, SetSink
<1> DEFINE s == WithDone(e)
<1>2. /\ phase[r] = "closing" /\ phase' = [phase EXCEPT ![r] = "ended"]
      /\ UNCHANGED <<req, conv, answer, store, saved, lost>>
  BY DEF FinishSent, Goto
<1>3. sink[r] \in Sink /\ Local(r) /\ "response.completed" \in Terminal
  BY Typed DEF Terminal
<1>4. /\ sink[r].terminal = TRUE /\ sink[r].seq > 0 /\ WireOK("closing", sink[r])
      /\ req[r].stream = TRUE
  BY <1>2, <1>3 DEF Local, LocalOK
<1>5. WireOK("running", e) /\ e \in Sink /\ e.acc = sink[r].acc
  BY <1>1, <1>3, <1>4, WireAfterTerminal
<1>6. s \in Sink /\ s.acc = sink[r].acc /\ WireOK("ended", s)
  BY <1>5, WithDoneSink, WireDone
<1>7. sink' = [sink EXCEPT ![r] = s] /\ phase[r] \in Phases \ {"unsent", "arrived"}
  BY <1>1, <1>2 DEF Phases
<1> HIDE DEF s
<1> QED
  BY <1>2, <1>4, <1>6, <1>7, EndStep

LEMMA FinishUnencodedStep ==
  ASSUME IInv, NEW r \in Requests, FinishUnencoded(r)
  PROVE  IInv'
<1> DEFINE u == Unencoded(sink[r])
           s == WithDone(u)
<1>1. /\ Finishing(r) /\ phase' = [phase EXCEPT ![r] = "ended"] /\ sink' = [sink EXCEPT ![r] = s]
      /\ UNCHANGED <<req, conv, answer, store, saved, lost>>
  BY DEF FinishUnencoded, Synthesizes, Finishing, Goto, SetSink
<1>2. u \in Sink /\ u.acc = sink[r].acc /\ WireOK("running", u)
  BY <1>1, AtFinish, UnencodedSink, WireUnencoded
<1> HIDE DEF u
<1>3. s \in Sink /\ s.acc = sink[r].acc /\ WireOK("ended", s)
  BY <1>2, WithDoneSink, WireDone
<1> HIDE DEF s
<1> QED
  BY <1>1, <1>3, AtFinish, EndStep
-----------------------------------------------------------------------------
LEMMA InitIInv == Init => IInv
<1> SUFFICES ASSUME Init PROVE IInv
  OBVIOUS
<1>1. NewSink \in Sink /\ NewSink.wire = <<>> /\ NewSink.acc = NoResponse /\ NewSink.terminal = FALSE
  BY DEF NewSink, Sink, NoResponse, Status
<1>2. /\ \A r \in Requests : /\ phase[r] = "unsent" /\ conv[r] = <<>> /\ sink[r] = NewSink
                             /\ answer[r] = "none" /\ req[r].informed = FALSE
      /\ saved = <<>> /\ lost = {} /\ store.order = <<>>
      /\ store.items = [id \in {} |-> <<>>]
  BY DEF Init, Store!EmptyStore
<1>3. Store!IdsOf(store.order) = {} /\ store.order = Store!Evicted(saved, Capacity)
  BY <1>2, ConstantsAssumption DEF Store!IdsOf, Store!Evicted
<1>4. TypeOK
  <2>1. phase \in [Requests -> Phases] /\ conv \in [Requests -> Seq(Requests)]
    BY DEF Init, Phases
  <2>2. req \in [Requests -> Request]
    BY DEF Init, Request
  <2>3. sink \in [Requests -> Sink] /\ answer \in [Requests -> {"none", "ok", "error", "not_found"}]
    BY <1>1 DEF Init
  <2>4. /\ store.order \in Seq(Requests) /\ Len(store.order) <= Capacity
        /\ saved \in Seq(Requests) /\ lost \subseteq Requests
    BY <1>2, ConstantsAssumption
  <2>5. store.items \in [Store!IdsOf(store.order) -> Seq(Requests)]
    BY <1>2, <1>3
  <2> QED
    BY <2>1, <2>2, <2>3, <2>4, <2>5 DEF TypeOK
<1>5. WireOK("unsent", NewSink)
  BY <1>1 DEF WireOK, Ordered
<1>6. \A r \in Requests : Local(r)
  BY <1>1, <1>2, <1>5 DEF Local, LocalOK
<1>7. \A r \in Requests : ~IsSaved(r)
  <2>1. Len(saved) = 0 /\ 1..0 = {}
    BY <1>2
  <2> QED
    BY <2>1 DEF IsSaved
<1>8. \A r \in Requests : NothingUnsaved(r) /\ SavedIsFinal(r)
  <2>1. NoResponse.status \notin Kept
    BY DEF NoResponse, Kept
  <2> QED
    BY <1>1, <1>2, <1>7, <2>1 DEF NothingUnsaved, SavedIsFinal
<1>9. StoreOK
  BY <1>2, <1>3 DEF StoreOK
<1>10. \A r \in Requests : Conversation(r) /\ Informed(r) /\ FoundOrExcused(r)
  BY <1>2 DEF Conversation, Informed, FoundOrExcused
<1> QED
  BY <1>4, <1>6, <1>8, <1>9, <1>10 DEF IInv

(* Nothing moves when no variable does. *)
LEMMA StutterStep ==
  ASSUME IInv, UNCHANGED vars
  PROVE  IInv'
<1>1. /\ phase' = phase /\ req' = req /\ conv' = conv /\ sink' = sink /\ answer' = answer
      /\ store' = store /\ saved' = saved /\ lost' = lost
  BY DEF vars
<1>2. TypeOK'
  BY <1>1 DEF IInv, TypeOK
<1>3. ASSUME NEW r \in Requests
      PROVE  (Settled(r)' <=> Settled(r)) /\ (IsSaved(r)' <=> IsSaved(r))
  BY <1>1 DEF Settled, IsSaved
<1>4. ASSUME NEW r \in Requests PROVE Local(r)' /\ NothingUnsaved(r)' /\ SavedIsFinal(r)'
  <2>1. Local(r) /\ NothingUnsaved(r) /\ SavedIsFinal(r)
    BY DEF IInv
  <2> QED
    BY <1>1, <1>3, <2>1 DEF Local, NothingUnsaved, SavedIsFinal
<1>5. StoreOK'
  BY <1>1 DEF IInv, StoreOK, IsConversation, IsSaved
<1>6. ASSUME NEW r \in Requests PROVE Conversation(r)' /\ Informed(r)' /\ FoundOrExcused(r)'
  <2>1. Conversation(r) /\ Informed(r) /\ FoundOrExcused(r)
    BY DEF IInv
  <2>2. Conversation(r)'
    BY <1>1, <2>1 DEF Conversation, IsConversation, IsSaved
  <2>3. Informed(r)'
    BY <1>1, <1>3, <2>1 DEF Informed
  <2>4. FoundOrExcused(r)'
    BY <1>1, <2>1 DEF FoundOrExcused, Excused, Evicts
  <2> QED
    BY <2>2, <2>3, <2>4
<1> QED
  BY <1>2, <1>4, <1>5, <1>6 DEF IInv

LEMMA NextStep ==
  ASSUME IInv, [Next]_vars
  PROVE  IInv'
<1>1. ASSUME NEW r \in Requests, Client(r) PROVE IInv'
  BY <1>1, ClientSendsStep, ClientLeavesStep DEF Client
<1>2. ASSUME NEW r \in Requests, AdapterStreams(r) PROVE IInv'
  BY <1>2, AdapterSendsStep, AdapterFinishesStep, SendUnencodedStep DEF AdapterStreams
<1>3. ASSUME NEW r \in Requests, Serve(r) PROVE IInv'
  <2>1. CASE Invalid(r) \/ ResolveRejected(r) \/ ResolveFailed(r) \/ CreateFails(r) \/ FailBeforeStream(r)
    <3>1. Refuse(r, "error")
      BY <2>1 DEF Invalid, ResolveRejected, ResolveFailed, CreateFails, FailBeforeStream
    <3> QED
      BY <3>1, RefuseStep
  <2>2. CASE Resolve(r)
    BY <2>2, ResolveStep
  <2>3. CASE ResolveNotFound(r)
    BY <2>3, NotFoundStep
  <2>4. CASE CreateReturns(r)
    BY <2>4, CreateReturnsStep
  <2>5. CASE WriteAnswer(r)
    BY <2>5, WriteAnswerStep
  <2>6. CASE TerminalSent(r)
    BY <2>6, TerminalSentStep
  <2>7. CASE Abandon(r)
    BY <2>7, AbandonStep
  <2>8. CASE FinishDone(r)
    BY <2>8, FinishDoneStep
  <2>9. CASE FinishFailed(r)
    BY <2>9, FinishFailedStep
  <2>10. CASE FinishCompleted(r)
    BY <2>10, FinishCompletedStep
  <2>11. CASE FinishSent(r)
    BY <2>11, FinishSentStep
  <2>12. CASE FinishUnencoded(r)
    BY <2>12, FinishUnencodedStep
  <2>13. CASE AdapterReturns(r)
    BY <2>13, AdapterReturnsStep
  <2> QED
    BY <1>3, <2>1, <2>2, <2>3, <2>4, <2>5, <2>6, <2>7, <2>8, <2>9, <2>10, <2>11, <2>12, <2>13
    DEF Serve, HandlerStep
<1>4. CASE AllServed \/ UNCHANGED vars
  BY <1>4, StutterStep DEF AllServed
<1> QED
  BY <1>1, <1>2, <1>3, <1>4 DEF Next
-----------------------------------------------------------------------------
(* IInv holds of every reachable state, for every choice of the constants. *)
THEOREM Invariance == Spec => []IInv
<1>1. IInv /\ [Next]_vars => IInv'
  BY NextStep
<1> QED
  BY InitIInv, <1>1, PTL DEF Spec

(* The state keeps its type and the store its capacity. *)
THEOREM TypeCorrect == Spec => []TypeOK
<1>1. IInv => TypeOK
  BY DEF IInv
<1> QED
  BY Invariance, <1>1, PTL

(* What a client was told is finished was saved before, or lost by the store. *)
THEOREM ToldAfterTheSave == Spec => []ToldMeansSaved
<1>1. IInv => ToldMeansSaved
  BY DEF IInv, ToldMeansSaved, NothingUnsaved, KnowsDone, Kept
<1> QED
  BY Invariance, <1>1, PTL

(* What finished is saved or lost, whether or not its client is there. *)
THEOREM SavedWithoutTheClient == Spec => []SavedThoughTheClientLeft
<1>1. IInv => SavedThoughTheClientLeft
  BY DEF IInv, SavedThoughTheClientLeft, NothingUnsaved, Kept
<1> QED
  BY Invariance, <1>1, PTL

(* A response that can no longer be continued has a cause its client can know. *)
THEOREM FoundUntilEvicted == Spec => []ContinuationFound
<1>1. IInv => ContinuationFound
  BY DEF IInv, ContinuationFound, FoundOrExcused, Excused, Kept
<1> QED
  BY Invariance, <1>1, PTL

(* The store holds whole conversations. *)
THEOREM HistoriesAreWhole == Spec => []StoredHistoriesAreConversations
<1>1. IInv => StoredHistoriesAreConversations
  BY DEF IInv, StoredHistoriesAreConversations, StoreOK
<1> QED
  BY Invariance, <1>1, PTL

(* What the adapter is given to continue had finished, and was to be stored. *)
THEOREM FinishedBeforeContinued == Spec => []OnlyFinishedResponsesAreContinued
<1>1. ASSUME IInv, NEW r \in Requests, Len(conv[r]) > 1
      PROVE  req[req[r].prev].store /\ sink[req[r].prev].acc.status \in Kept
  <2> DEFINE h == conv[r]
             n == Len(h)
  <2>1. h \in Seq(Requests) /\ n \in Nat /\ h # <<>>
    BY <1>1, Typed
  <2>2. IsConversation(h, r)
    BY <1>1, <2>1 DEF IInv, Conversation
  <2>3. n \in 2..n /\ n - 1 \in 1..n
    BY <1>1, <2>1
  <2>4. req[h[n]].prev = h[n-1] /\ IsSaved(h[n-1]) /\ h[n] = r
    BY <2>2, <2>3 DEF IsConversation
  <2>5. h[n-1] \in Requests
    BY <2>1, <2>3
  <2> QED
    BY <1>1, <2>4, <2>5 DEF IInv, SavedIsFinal
<1>2. IInv => OnlyFinishedResponsesAreContinued
  BY <1>1 DEF OnlyFinishedResponsesAreContinued, Kept
<1> QED
  BY Invariance, <1>2, PTL

(* On the wire the terminal event and [DONE] are the end. *)
THEOREM EndIsTheEnd == Spec => []NothingAfterTheEnd
<1>1. IInv => NothingAfterTheEnd
  BY DEF IInv, Local, LocalOK, WireOK, Ordered, NothingAfterTheEnd
<1> QED
  BY Invariance, <1>1, PTL

-----------------------------------------------------------------------------
(***************************************************************************)
(* Every stream a client read to its end was closed with a terminal event  *)
(* and [DONE], for every set of requests and any adapter.                  *)
(*                                                                         *)
(* EndInv adds to IInv what becomes of the wire: between two events it     *)
(* holds no more frames than were numbered and, once the terminal event is *)
(* recorded, ends with it; while one is recorded and not yet written its   *)
(* number has no frame.  A client that is there has missed nothing.        *)
(***************************************************************************)
LastIsTerminal(w) == w # <<>> /\ w[Len(w)].type \in Terminal

(* A sink whose stream is not closed: no write failed with the client there. *)
Undisturbed(s) ==
  /\ s.wire # <<>> => s.sent = TRUE
  /\ s.up = TRUE => s.failed = FALSE

(* No event is recorded and not written. *)
Between(s) ==
  /\ Len(s.wire) <= s.seq
  /\ s.up = TRUE /\ s.terminal = TRUE => LastIsTerminal(s.wire)

Closed(s) ==
  s.up = TRUE /\ s.wire # <<>> =>
    /\ s.wire[Len(s.wire)].type = DoneFrame
    /\ \/ Len(s.wire) > 1 /\ s.wire[Len(s.wire) - 1].type \in Terminal
       \/ s.seq >= Len(s.wire)

(* A request's phase p, request q and sink s. *)
EndOK(p, q, s) ==
  /\ p # "ended" => Undisturbed(s)
  /\ p \in {"unsent", "arrived", "answering"} \/ q.stream = FALSE => s.wire = <<>>
  /\ p \in {"sending", "closing"} => Len(s.wire) < s.seq
  /\ p \notin {"sending", "closing", "ended"} => Between(s)
  /\ p = "ended" => Closed(s)

EndInv == \A r \in Requests : EndOK(phase[r], req[r], sink[r])
-----------------------------------------------------------------------------
(* The sink's methods. *)
LEMMA RecordedEnds ==
  ASSUME NEW s \in Sink, NEW t \in EventType, NEW id \in BOOLEAN, Undisturbed(s), Between(s)
  PROVE  Undisturbed(Recorded(s, t, id)) /\ Len(Recorded(s, t, id).wire) < Recorded(s, t, id).seq
<1> DEFINE x == Recorded(s, t, id)
<1>1. s.seq \in Nat /\ Len(s.wire) \in Nat
  BY DEF Sink
<1>2. x.seq = s.seq + 1 /\ x.wire = s.wire /\ x.sent = s.sent /\ x.up = s.up /\ x.failed = s.failed
  BY DEF Recorded, Sink
<1> HIDE DEF x
<1>3. Undisturbed(x) /\ Len(x.wire) < x.seq
  BY <1>1, <1>2 DEF Undisturbed, Between
<1> QED BY <1>3 DEF x

LEMMA UnencodedEnds ==
  ASSUME NEW s \in Sink, Undisturbed(s), Between(s)
  PROVE  LET x == Unencoded(s) IN Undisturbed(x) /\ Between(x) /\ Len(x.wire) < x.seq
<1> DEFINE x == Unencoded(s)
<1>1. s.seq \in Nat /\ Len(s.wire) \in Nat
  BY DEF Sink
<1>2. /\ x.seq = s.seq + 1 /\ x.wire = s.wire /\ x.sent = s.sent /\ x.up = s.up /\ x.failed = s.failed
      /\ x.terminal = s.terminal
  BY DEF Unencoded, Sink
<1> HIDE DEF x
<1>3. Undisturbed(x) /\ Between(x) /\ Len(x.wire) < x.seq
  BY <1>1, <1>2 DEF Undisturbed, Between
<1> QED BY <1>3 DEF x

LEMMA PutEnds ==
  ASSUME NEW s \in Sink, NEW t \in EventType, Undisturbed(s), Len(s.wire) < s.seq,
         s.terminal = TRUE => t \in Terminal, NEW x \in Put(s, t)
  PROVE  x \in Sink /\ x.terminal = s.terminal /\ Undisturbed(x) /\ Between(x)
<1> DEFINE f == [type |-> t, seq |-> s.seq - 1]
<1>1. s.seq \in Nat /\ Len(s.wire) \in Nat /\ s.wire \in Seq(Frame) /\ s.up \in BOOLEAN
  BY DEF Sink
<1>2. x \in Sink /\ x.terminal = s.terminal /\ x.seq = s.seq
  <2>1. s.seq > 0
    BY <1>1
  <2> QED BY <2>1, PutSink
<1>3. CASE s.up = TRUE
  <2>1. x = [s EXCEPT !.sent = TRUE, !.wire = Append(s.wire, f)]
    BY <1>3 DEF Put
  <2>2. x.up = TRUE /\ x.sent = TRUE /\ x.failed = s.failed /\ x.wire = Append(s.wire, f)
    BY <1>3, <2>1 DEF Sink
  <2>3. f \in Frame
    BY <1>1 DEF Frame
  <2>4. Len(x.wire) = Len(s.wire) + 1 /\ x.wire[Len(x.wire)] = f /\ x.wire # <<>>
    <3> HIDE DEF f
    <3>1. Len(x.wire) = Len(s.wire) + 1 /\ x.wire[Len(s.wire) + 1] = f
      BY <1>1, <2>2, <2>3
    <3>2. x.wire # <<>>
      BY <1>1, <3>1
    <3> QED BY <3>1, <3>2
  <2>5. x.wire[Len(x.wire)].type = t
    BY <2>4
  <2> QED BY <1>1, <1>2, <1>3, <2>2, <2>4, <2>5 DEF Undisturbed, Between, LastIsTerminal
<1>4. CASE s.up = FALSE
  <2>1. x = [s EXCEPT !.sent = TRUE] \/ x = [s EXCEPT !.failed = TRUE]
    BY <1>4 DEF Put
  <2>2. x.up = FALSE /\ x.wire = s.wire /\ (x.sent = TRUE \/ x.sent = s.sent)
    BY <1>4, <2>1 DEF Sink
  <2> QED BY <1>1, <1>2, <2>2 DEF Undisturbed, Between
<1> QED BY <1>1, <1>3, <1>4

LEMMA WithDoneEnds ==
  ASSUME NEW s \in Sink, Between(s), s.terminal = TRUE \/ Len(s.wire) < s.seq
  PROVE  Closed(WithDone(s))
<1> DEFINE f == [type |-> DoneFrame, seq |-> s.seq]
           x == WithDone(s)
<1>1. s.seq \in Nat /\ Len(s.wire) \in Nat /\ s.wire \in Seq(Frame) /\ s.up \in BOOLEAN
  BY DEF Sink
<1>2. CASE s.up = TRUE
  <2>1. x.wire = Append(s.wire, f) /\ x.seq = s.seq
    BY <1>2 DEF WithDone, Sink
  <2>2. f \in Frame
    BY <1>1 DEF Frame
  <2> HIDE DEF x
  <2>3. /\ Len(x.wire) = Len(s.wire) + 1 /\ x.wire[Len(x.wire)] = f
        /\ \A k \in 1..Len(s.wire) : x.wire[k] = s.wire[k]
    BY <1>1, <2>1, <2>2
  <2>4. x.wire[Len(x.wire)].type = DoneFrame
    BY <2>3
  <2>5. CASE s.terminal = TRUE
    <3>1. s.wire # <<>> /\ s.wire[Len(s.wire)].type \in Terminal
      BY <1>2, <2>5 DEF Between, LastIsTerminal
    <3>2. Len(s.wire) \in 1..Len(s.wire)
      BY <1>1, <3>1, EmptySeq
    <3>3. Len(x.wire) > 1 /\ x.wire[Len(x.wire) - 1].type \in Terminal
      <4>1. Len(x.wire) - 1 = Len(s.wire) /\ Len(x.wire) > 1
        BY <1>1, <2>3, <3>2
      <4> QED BY <2>3, <3>1, <3>2, <4>1
    <3>4. Closed(x)
      BY <2>4, <3>3 DEF Closed
    <3> QED BY <3>4 DEF x
  <2>6. CASE Len(s.wire) < s.seq
    <3>1. x.seq >= Len(x.wire)
      BY <1>1, <2>1, <2>3, <2>6
    <3>2. Closed(x)
      BY <2>4, <3>1 DEF Closed
    <3> QED BY <3>2 DEF x
  <2> QED BY <2>5, <2>6
<1>3. CASE s.up = FALSE
  BY <1>3 DEF WithDone, Closed
<1> QED BY <1>1, <1>2, <1>3

(* An event of finish. *)
LEMMA WrittenEnds ==
  ASSUME NEW s \in Sink, NEW t \in EventType, NEW id \in BOOLEAN, s.terminal = FALSE,
         Undisturbed(s), Between(s), NEW x \in Written(s, t, id)
  PROVE  /\ x \in Sink /\ Undisturbed(x) /\ Between(x)
         /\ t \notin Terminal => x.terminal = FALSE
         /\ t \in Terminal => x.terminal = TRUE \/ Len(x.wire) < x.seq
<1>1. x \in Put(Recorded(s, t, id), t) \/ x = Unencoded(s)
  BY DEF Written
<1>2. CASE x = Unencoded(s)
  BY <1>2, UnencodedSink, UnencodedEnds
<1>3. CASE x \in Put(Recorded(s, t, id), t)
  <2> DEFINE y == Recorded(s, t, id)
  <2>1. y \in Sink /\ y.terminal = (s.terminal \/ t \in Terminal) /\ Undisturbed(y) /\ Len(y.wire) < y.seq
    BY RecordedSink, RecordedEnds
  <2>2. x \in Put(y, t)
    BY <1>3
  <2> HIDE DEF y
  <2>3. (y.terminal = TRUE => t \in Terminal) /\ (t \in Terminal => y.terminal = TRUE)
    <3>1. y.terminal = (t \in Terminal)
      BY <2>1
    <3> QED BY <3>1
  <2>4. x \in Sink /\ x.terminal = y.terminal /\ Undisturbed(x) /\ Between(x)
    BY <2>1, <2>2, <2>3, PutEnds
  <2>5. x.terminal \in BOOLEAN
    BY <2>4 DEF Sink
  <2> QED BY <2>3, <2>4, <2>5
<1> QED BY <1>1, <1>2, <1>3

(* finish after an adapter error: error, response.failed, [DONE]. *)
LEMMA FailedFinishEnds ==
  ASSUME NEW s \in Sink, s.terminal = FALSE, Undisturbed(s), Between(s), NEW x \in FailedFinish(s)
  PROVE  Closed(x)
<1>1. PICK e \in Written(s, "error", FALSE) :
        \E f \in Written(e, "response.failed", IDAtFinish(e.acc)) : x = WithDone(f)
  BY DEF FailedFinish
<1>2. PICK f \in Written(e, "response.failed", IDAtFinish(e.acc)) : x = WithDone(f)
  BY <1>1
<1>3. "error" \in EventType \ Terminal /\ "response.failed" \in EventType \cap Terminal
  BY DEF EventType, WithID, Terminal
<1>4. e \in Sink /\ Undisturbed(e) /\ Between(e) /\ e.terminal = FALSE
  BY <1>3, WrittenEnds
<1>5. IDAtFinish(e.acc) \in BOOLEAN
  BY <1>4 DEF Sink, IDAtFinish
<1>6. f \in Sink /\ Between(f) /\ (f.terminal = TRUE \/ Len(f.wire) < f.seq)
  <2> DEFINE id == IDAtFinish(e.acc)
             t  == "response.failed"
  <2>1. id \in BOOLEAN /\ f \in Written(e, t, id) /\ t \in EventType /\ t \in Terminal
    BY <1>3, <1>5
  <2> HIDE DEF id, t
  <2> QED BY <1>4, <2>1, WrittenEnds
<1> QED BY <1>2, <1>6, WithDoneEnds
-----------------------------------------------------------------------------
(* A step that moves one request. *)
LEMMA OneMoves ==
  ASSUME EndInv, NEW r \in Requests,
         \A q \in Requests \ {r} : phase'[q] = phase[q] /\ req'[q] = req[q] /\ sink'[q] = sink[q],
         EndOK(phase'[r], req'[r], sink'[r])
  PROVE  EndInv'
<1> SUFFICES ASSUME NEW q \in Requests
             PROVE  EndOK(phase'[q], req'[q], sink'[q])
  BY DEF EndInv
<1>1. CASE q = r
  BY <1>1
<1>2. CASE q # r
  <2>1. EndOK(phase[q], req[q], sink[q])
    BY DEF EndInv
  <2> QED BY <1>2, <2>1
<1> QED BY <1>1, <1>2

(* A step that moves the phase of r and its sink. *)
LEMMA Moves ==
  ASSUME IInv, EndInv, NEW r \in Requests, NEW p, NEW s,
         phase' = [phase EXCEPT ![r] = p], sink' = [sink EXCEPT ![r] = s], req' = req,
         EndOK(p, req[r], s)
  PROVE  EndInv'
<1>1. phase'[r] = p /\ sink'[r] = s /\ req'[r] = req[r]
  BY DEF IInv, TypeOK
<1>2. \A q \in Requests \ {r} : phase'[q] = phase[q] /\ req'[q] = req[q] /\ sink'[q] = sink[q]
  BY DEF IInv, TypeOK
<1>3. EndOK(phase'[r], req'[r], sink'[r])
  BY <1>1
<1> QED BY <1>2, <1>3, OneMoves

(* A step that moves the phase of r alone. *)
LEMMA OnlyPhase ==
  ASSUME IInv, EndInv, NEW r \in Requests, NEW p,
         phase' = [phase EXCEPT ![r] = p], UNCHANGED <<sink, req>>, EndOK(p, req[r], sink[r])
  PROVE  EndInv'
<1>1. sink' = [sink EXCEPT ![r] = sink[r]]
  BY DEF IInv, TypeOK
<1> QED BY <1>1, Moves

(* What a request that streams and has not ended is like. *)
LEMMA Streaming ==
  ASSUME IInv, EndInv, NEW r \in Requests
  PROVE  /\ sink[r] \in Sink /\ req[r] \in Request /\ phase[r] \in Phases
         /\ EndOK(phase[r], req[r], sink[r])
         /\ phase[r] \in {"running", "returned", "errored"} => Undisturbed(sink[r]) /\ Between(sink[r])
<1>1. EndOK(phase[r], req[r], sink[r])
  BY DEF EndInv
<1> QED BY <1>1, Typed DEF EndOK

LEMMA ClientEnds ==
  ASSUME IInv, EndInv, NEW r \in Requests, Client(r)
  PROVE  EndInv'
<1>1. CASE ClientSends(r)
  <2>1. /\ phase[r] = "unsent" /\ phase' = [phase EXCEPT ![r] = "arrived"] /\ sink' = sink
        /\ \A q \in Requests \ {r} : req'[q] = req[q]
    BY <1>1 DEF ClientSends, Goto, IInv, TypeOK
  <2>2. \A q \in Requests \ {r} : phase'[q] = phase[q]
    BY <2>1 DEF IInv, TypeOK
  <2>3. EndOK(phase'[r], req'[r], sink'[r])
    <3>1. phase'[r] = "arrived" /\ sink'[r] = sink[r]
      BY <2>1 DEF IInv, TypeOK
    <3>2. EndOK(phase[r], req[r], sink[r])
      BY Streaming
    <3> QED BY <2>1, <3>1, <3>2 DEF EndOK
  <2> QED BY <2>1, <2>2, <2>3, OneMoves
<1>2. CASE ClientLeaves(r)
  <2> DEFINE s == [sink[r] EXCEPT !.up = FALSE]
  <2>1. phase[r] # "ended" /\ sink' = [sink EXCEPT ![r] = s] /\ UNCHANGED <<phase, req>>
    BY <1>2 DEF ClientLeaves, SetSink
  <2>2. s.up = FALSE /\ s.wire = sink[r].wire /\ s.seq = sink[r].seq /\ s.sent = sink[r].sent
    BY Streaming DEF Sink
  <2> HIDE DEF s
  <2>3. EndOK(phase[r], req[r], s)
    BY <2>1, <2>2, Streaming DEF EndOK, Undisturbed, Between
  <2>4. phase' = [phase EXCEPT ![r] = phase[r]]
    BY <2>1 DEF IInv, TypeOK
  <2> QED BY <2>1, <2>3, <2>4, Moves
<1> QED BY <1>1, <1>2 DEF Client

(* A request is refused before any frame was written. *)
LEMMA RefuseEnds ==
  ASSUME IInv, EndInv, NEW r \in Requests, NEW a, Refuse(r, a),
         \/ phase[r] = "arrived"
         \/ phase[r] = "running" /\ req[r].stream = FALSE
         \/ phase[r] = "errored" /\ sink[r].sent = FALSE
  PROVE  EndInv'
<1>1. sink[r].wire = <<>>
  BY Streaming DEF EndOK, Undisturbed
<1>2. EndOK("ended", req[r], sink[r])
  BY <1>1 DEF EndOK, Closed
<1>3. phase' = [phase EXCEPT ![r] = "ended"] /\ UNCHANGED <<sink, req>>
  BY DEF Refuse, Goto
<1> QED BY <1>2, <1>3, OnlyPhase

LEMMA ResolveEnds ==
  ASSUME IInv, EndInv, NEW r \in Requests, Resolve(r)
  PROVE  EndInv'
<1>1. phase[r] = "arrived" /\ phase' = [phase EXCEPT ![r] = "running"] /\ UNCHANGED <<sink, req>>
  BY DEF Resolve, Goto
<1>2. EndOK("running", req[r], sink[r])
  BY <1>1, Streaming DEF EndOK
<1> QED BY <1>1, <1>2, OnlyPhase

(* Requests that do not stream. *)
LEMMA JSONEnds ==
  ASSUME IInv, EndInv, NEW r \in Requests, CreateReturns(r) \/ WriteAnswer(r)
  PROVE  EndInv'
<1>1. CASE CreateReturns(r)
  <2>1. PICK status \in Status \ {"none"} :
          sink' = [sink EXCEPT ![r] = [sink[r] EXCEPT !.acc = Snapshot(TRUE, status)]]
    BY <1>1 DEF CreateReturns, SetSink
  <2> DEFINE s == [sink[r] EXCEPT !.acc = Snapshot(TRUE, status)]
  <2>2. phase[r] = "running" /\ req[r].stream = FALSE /\ phase' = [phase EXCEPT ![r] = "answering"] /\ req' = req
    BY <1>1, Streaming DEF CreateReturns, Goto, Request
  <2>3. /\ s.wire = sink[r].wire /\ s.up = sink[r].up /\ s.failed = sink[r].failed /\ s.seq = sink[r].seq
        /\ s.terminal = sink[r].terminal /\ s.sent = sink[r].sent
    BY Streaming DEF Sink
  <2>4. sink' = [sink EXCEPT ![r] = s]
    BY <2>1
  <2> HIDE DEF s
  <2>5. EndOK("answering", req[r], s)
    BY <2>2, <2>3, Streaming DEF EndOK, Undisturbed, Between
  <2> QED BY <2>2, <2>4, <2>5, Moves
<1>2. CASE WriteAnswer(r)
  <2>1. phase[r] = "answering" /\ phase' = [phase EXCEPT ![r] = "ended"] /\ UNCHANGED <<sink, req>>
    BY <1>2 DEF WriteAnswer, Goto
  <2>2. EndOK("ended", req[r], sink[r])
    BY <2>1, Streaming DEF EndOK, Closed
  <2> QED BY <2>1, <2>2, OnlyPhase
<1> QED BY <1>1, <1>2

(* The adapter sends. *)
LEMMA AdapterSendsEnds ==
  ASSUME IInv, EndInv, NEW r \in Requests, NEW t \in Events, AdapterSends(r, t)
  PROVE  EndInv'
<1>1. PICK s \in Put(Recorded(sink[r], t, TRUE), t) : sink' = [sink EXCEPT ![r] = s]
  BY DEF AdapterSends, SetSink
<1>2. /\ phase[r] = "running" /\ req[r].stream = TRUE /\ t \notin Terminal
      /\ sink[r].terminal = FALSE /\ UNCHANGED <<phase, req>>
  BY Typed DEF AdapterSends, Accepts, Request
<1> DEFINE y == Recorded(sink[r], t, TRUE)
<1>3. t \in EventType /\ sink[r] \in Sink /\ Undisturbed(sink[r]) /\ Between(sink[r])
  BY <1>2, Streaming, EventsAssumption
<1>4. y \in Sink /\ y.terminal = (sink[r].terminal \/ t \in Terminal) /\ Undisturbed(y) /\ Len(y.wire) < y.seq
  BY <1>3, RecordedSink, RecordedEnds
<1>5. s \in Put(y, t)
  BY <1>1
<1> HIDE DEF y
<1>6. y.terminal # TRUE
  BY <1>2, <1>4
<1>7. Undisturbed(s) /\ Between(s)
  BY <1>3, <1>4, <1>5, <1>6, PutEnds
<1>8. EndOK("running", req[r], s)
  BY <1>2, <1>7 DEF EndOK
<1>9. phase' = [phase EXCEPT ![r] = "running"] /\ req' = req
  BY <1>2 DEF IInv, TypeOK
<1> QED BY <1>1, <1>8, <1>9, Moves

LEMMA SendUnencodedEnds ==
  ASSUME IInv, EndInv, NEW r \in Requests, SendUnencoded(r)
  PROVE  EndInv'
<1> DEFINE s == Unencoded(sink[r])
<1>1. PICK p \in {"running", "errored"} : phase' = [phase EXCEPT ![r] = p]
  BY DEF SendUnencoded, Goto
<1>2. phase[r] = "running" /\ req[r].stream = TRUE /\ sink' = [sink EXCEPT ![r] = s] /\ req' = req
  BY Streaming DEF SendUnencoded, SetSink, Request
<1>3. Undisturbed(s) /\ Between(s)
  BY <1>2, Streaming, UnencodedEnds
<1> HIDE DEF s
<1>4. EndOK(p, req[r], s)
  BY <1>2, <1>3 DEF EndOK
<1> QED BY <1>1, <1>2, <1>4, Moves

(* A terminal event is recorded, by Send or by finish. *)
LEMMA TerminateEnds ==
  ASSUME IInv, EndInv, NEW r \in Requests, NEW t \in Terminal, NEW id \in BOOLEAN,
         NEW p \in {"sending", "closing"}, Terminate(r, t, id, p),
         phase[r] \in {"running", "returned"}, req[r].stream = TRUE
  PROVE  EndInv'
<1> DEFINE s == Recorded(sink[r], t, id)
<1>1. sink' = [sink EXCEPT ![r] = s] /\ phase' = [phase EXCEPT ![r] = p] /\ req' = req
  BY DEF Terminate, SetSink, Goto
<1>2. t \in EventType
  BY DEF EventType, WithID
<1>3. Undisturbed(s) /\ Len(s.wire) < s.seq
  BY <1>2, Streaming, RecordedEnds
<1> HIDE DEF s
<1>4. EndOK(p, req[r], s)
  BY <1>3 DEF EndOK
<1> QED BY <1>1, <1>4, Moves

(* A recorded terminal event is written. *)
LEMMA WriteEnds ==
  ASSUME IInv, EndInv, NEW r \in Requests, NEW t \in Terminal, NEW e \in Put(sink[r], t),
         phase[r] \in {"sending", "closing"}
  PROVE  e \in Sink /\ e.terminal = TRUE /\ Undisturbed(e) /\ Between(e) /\ req[r].stream = TRUE
<1>1. sink[r] \in Sink /\ Undisturbed(sink[r]) /\ Len(sink[r].wire) < sink[r].seq
  BY Streaming DEF EndOK
<1>2. sink[r].terminal = TRUE /\ req[r].stream = TRUE
  BY Typed DEF Local, LocalOK
<1>3. t \in EventType
  BY DEF EventType, WithID
<1> QED BY <1>1, <1>2, <1>3, PutEnds

LEMMA TerminalSentEnds ==
  ASSUME IInv, EndInv, NEW r \in Requests, TerminalSent(r)
  PROVE  EndInv'
<1>1. PICK t \in Terminal : \E s \in Put(sink[r], t) : SetSink(r, s)
  BY DEF TerminalSent
<1>2. PICK s \in Put(sink[r], t) : sink' = [sink EXCEPT ![r] = s]
  BY <1>1 DEF SetSink
<1>3. phase[r] = "sending" /\ phase' = [phase EXCEPT ![r] = "running"] /\ req' = req
  BY DEF TerminalSent, Goto
<1>4. EndOK("running", req[r], s)
  BY <1>3, WriteEnds DEF EndOK
<1> QED BY <1>2, <1>3, <1>4, Moves

LEMMA AdapterReturnsEnds ==
  ASSUME IInv, EndInv, NEW r \in Requests, AdapterReturns(r)
  PROVE  EndInv'
<1>1. PICK p \in {"returned", "errored"} : phase' = [phase EXCEPT ![r] = p]
  BY DEF AdapterReturns, Goto
<1>2. phase[r] = "running" /\ UNCHANGED <<sink, req>>
  BY DEF AdapterReturns
<1>3. EndOK(p, req[r], sink[r])
  BY <1>2, Streaming DEF EndOK
<1> QED BY <1>1, <1>2, <1>3, OnlyPhase
-----------------------------------------------------------------------------
(* finish. *)
LEMMA FinishEnds ==
  ASSUME IInv, EndInv, NEW r \in Requests,
         Abandon(r) \/ FinishDone(r) \/ FinishFailed(r) \/ FinishSent(r) \/ FinishUnencoded(r)
  PROVE  EndInv'
<1>1. phase' = [phase EXCEPT ![r] = "ended"] /\ req' = req
  BY DEF Abandon, FinishDone, FinishFailed, FinishSent, FinishUnencoded, Goto
<1>2. ASSUME Finishing(r)
      PROVE  /\ sink[r] \in Sink /\ Undisturbed(sink[r]) /\ Between(sink[r]) /\ req[r].stream = TRUE
  BY <1>2, Streaming, AtFinish DEF Finishing
<1>3. ASSUME NEW s, Closed(s), req[r].stream = TRUE
      PROVE  EndOK("ended", req[r], s)
  BY <1>3 DEF EndOK
<1>4. CASE Abandon(r)
  <2>1. Finishing(r) /\ sink[r].failed = TRUE /\ sink' = sink
    BY <1>4, Streaming DEF Abandon, Sink
  <2>2. Closed(sink[r])
    BY <1>2, <2>1 DEF Undisturbed, Closed
  <2> QED BY <1>1, <1>2, <1>3, <2>1, <2>2, OnlyPhase
<1>5. CASE FinishDone(r)
  <2>1. Finishing(r) /\ sink[r].terminal = TRUE /\ sink' = [sink EXCEPT ![r] = WithDone(sink[r])]
    BY <1>5, Streaming DEF FinishDone, SetSink, Sink
  <2>2. Closed(WithDone(sink[r]))
    BY <1>2, <2>1, WithDoneEnds
  <2> QED BY <1>1, <1>2, <1>3, <2>1, <2>2, Moves
<1>6. CASE FinishFailed(r)
  <2>1. PICK s \in FailedFinish(sink[r]) : sink' = [sink EXCEPT ![r] = s]
    BY <1>6 DEF FinishFailed, SetSink
  <2>2. Finishing(r) /\ sink[r].terminal = FALSE
    BY <1>6, Streaming DEF FinishFailed, Accepts, Sink
  <2>3. Closed(s)
    BY <1>2, <2>2, FailedFinishEnds
  <2> QED BY <1>1, <1>2, <1>3, <2>1, <2>2, <2>3, Moves
<1>7. CASE FinishSent(r)
  <2>1. PICK e \in Put(sink[r], "response.completed") : sink' = [sink EXCEPT ![r] = WithDone(e)]
    BY <1>7 DEF FinishSent, SetSink
  <2>2. phase[r] = "closing" /\ "response.completed" \in Terminal
    BY <1>7 DEF FinishSent, Terminal
  <2>3. Closed(WithDone(e)) /\ req[r].stream = TRUE
    BY <2>1, <2>2, WriteEnds, WithDoneEnds
  <2> QED BY <1>1, <1>3, <2>1, <2>3, Moves
<1>8. CASE FinishUnencoded(r)
  <2> DEFINE u == Unencoded(sink[r])
  <2>1. Finishing(r) /\ sink' = [sink EXCEPT ![r] = WithDone(u)]
    BY <1>8 DEF FinishUnencoded, Synthesizes, Finishing, SetSink
  <2>2. u \in Sink /\ Between(u) /\ Len(u.wire) < u.seq
    BY <1>2, <2>1, UnencodedSink, UnencodedEnds
  <2> HIDE DEF u
  <2>3. Closed(WithDone(u))
    BY <2>2, WithDoneEnds
  <2> QED BY <1>1, <1>2, <1>3, <2>1, <2>3, Moves
<1> QED BY <1>4, <1>5, <1>6, <1>7, <1>8

LEMMA TerminatesEnd ==
  ASSUME IInv, EndInv, NEW r \in Requests,
         (\E t \in Events : AdapterFinishes(r, t)) \/ FinishCompleted(r)
  PROVE  EndInv'
<1>1. CASE \E t \in Events : AdapterFinishes(r, t)
  <2>1. PICK t \in Events : AdapterFinishes(r, t)
    BY <1>1
  <2>2. t \in Terminal /\ phase[r] = "running" /\ req[r].stream = TRUE /\ Terminate(r, t, TRUE, "sending")
    BY <2>1, Streaming DEF AdapterFinishes, Request
  <2> QED BY <2>2, TerminateEnds
<1>2. CASE FinishCompleted(r)
  <2> DEFINE id == IDAtFinish(sink[r].acc)
  <2>1. /\ phase[r] = "returned" /\ Terminate(r, "response.completed", id, "closing")
        /\ "response.completed" \in Terminal
    BY <1>2 DEF FinishCompleted, Synthesizes, Terminal
  <2>2. id \in BOOLEAN /\ req[r].stream = TRUE
    BY <2>1, Typed, AtFinish DEF IDAtFinish, Acc, Finishing
  <2> HIDE DEF id
  <2> QED BY <2>1, <2>2, TerminateEnds
<1> QED BY <1>1, <1>2

LEMMA InitEnds == Init => EndInv
<1> SUFFICES ASSUME Init, NEW r \in Requests
             PROVE  EndOK(phase[r], req[r], sink[r])
  BY DEF EndInv
<1>1. phase[r] = "unsent" /\ sink[r] = NewSink
  BY DEF Init
<1>2. /\ sink[r].wire = <<>> /\ sink[r].seq = 0 /\ sink[r].failed = FALSE /\ sink[r].terminal = FALSE
      /\ Len(sink[r].wire) = 0
  BY <1>1 DEF NewSink
<1> QED BY <1>1, <1>2 DEF EndOK, Undisturbed, Between

LEMMA NextEnds ==
  ASSUME IInv, EndInv, [Next]_vars
  PROVE  EndInv'
<1>1. ASSUME NEW r \in Requests, Client(r) PROVE EndInv'
  BY <1>1, ClientEnds
<1>2. ASSUME NEW r \in Requests, AdapterStreams(r) PROVE EndInv'
  BY <1>2, AdapterSendsEnds, TerminatesEnd, SendUnencodedEnds DEF AdapterStreams
<1>3. ASSUME NEW r \in Requests, Serve(r) PROVE EndInv'
  <2>1. CASE Invalid(r) \/ ResolveRejected(r) \/ ResolveFailed(r)
    <3>1. phase[r] = "arrived" /\ Refuse(r, "error")
      BY <2>1 DEF Invalid, ResolveRejected, ResolveFailed
    <3> QED BY <3>1, RefuseEnds
  <2>2. CASE ResolveNotFound(r)
    <3>1. phase[r] = "arrived" /\ Refuse(r, "not_found")
      BY <2>2 DEF ResolveNotFound
    <3> QED BY <3>1, RefuseEnds
  <2>3. CASE CreateFails(r)
    <3>1. phase[r] = "running" /\ req[r].stream = FALSE /\ Refuse(r, "error")
      BY <2>3, Streaming DEF CreateFails, Request
    <3> QED BY <3>1, RefuseEnds
  <2>4. CASE FailBeforeStream(r)
    <3>1. phase[r] = "errored" /\ sink[r].sent = FALSE /\ Refuse(r, "error")
      BY <2>4, Streaming DEF FailBeforeStream, Sink
    <3> QED BY <3>1, RefuseEnds
  <2>5. CASE Resolve(r)
    BY <2>5, ResolveEnds
  <2>6. CASE CreateReturns(r) \/ WriteAnswer(r)
    BY <2>6, JSONEnds
  <2>7. CASE TerminalSent(r)
    BY <2>7, TerminalSentEnds
  <2>8. CASE FinishCompleted(r)
    BY <2>8, TerminatesEnd
  <2>9. CASE Abandon(r) \/ FinishDone(r) \/ FinishFailed(r) \/ FinishSent(r) \/ FinishUnencoded(r)
    BY <2>9, FinishEnds
  <2>10. CASE AdapterReturns(r)
    BY <2>10, AdapterReturnsEnds
  <2> QED
    BY <1>3, <2>1, <2>2, <2>3, <2>4, <2>5, <2>6, <2>7, <2>8, <2>9, <2>10 DEF Serve, HandlerStep
<1>4. CASE AllServed \/ UNCHANGED vars
  BY <1>4 DEF AllServed, vars, EndInv
<1> QED BY <1>1, <1>2, <1>3, <1>4 DEF Next

(***************************************************************************)
(* finish closes every stream whose client is still there with a terminal  *)
(* event and [DONE], whatever the adapter did; only an event that did not  *)
(* encode can leave the terminal event out, and its number shows it.       *)
(***************************************************************************)
THEOREM StreamsAreClosed == Spec => []StreamsEndProperly
<1>1. IInv /\ EndInv /\ [Next]_vars => EndInv'
  BY NextEnds
<1>2. Init /\ [][Next]_vars => []IInv
  BY Invariance DEF Spec
<1>3. Spec => []EndInv
  BY InitEnds, <1>1, <1>2, PTL DEF Spec
<1>4. IInv /\ EndInv => StreamsEndProperly
  <2> SUFFICES ASSUME IInv, EndInv, NEW r \in Requests, phase[r] = "ended", sink[r].up, sink[r].wire # <<>>
               PROVE  /\ sink[r].wire[Len(sink[r].wire)].type = DoneFrame
                      /\ \/ Len(sink[r].wire) > 1 /\ sink[r].wire[Len(sink[r].wire) - 1].type \in Terminal
                         \/ sink[r].seq >= Len(sink[r].wire)
    BY DEF StreamsEndProperly
  <2>1. sink[r].up = TRUE
    BY Typed DEF Sink
  <2> QED BY <2>1 DEF EndInv, EndOK, Closed
<1> QED BY <1>3, <1>4, Invariance, PTL
-----------------------------------------------------------------------------
(***************************************************************************)
(* The proxy.  Its pump is one of the adapters ResponsesHandler allows, so *)
(* that every theorem above holds of the proxy too; and a stream that is   *)
(* cut off upstream never reaches the client as completed.                 *)
(***************************************************************************)
(* The upstream has finished its response, or said that there is no more. *)
Good(r) == pump[r].terminal = TRUE \/ pump[r].end = "done"

Types(w) == {w[k].type : k \in 1..Len(w)}

(* The phases on the way to a terminal event that is not response.failed. *)
Ending == {"returned", "sending", "closing"}

PumpType == [opened: BOOLEAN, terminal: BOOLEAN, refused: BOOLEAN, end: Ends \cup {"none"}]

Honest(r) ==
  phase[r] \in Ending \/ "response.completed" \in Types(sink[r].wire) => Good(r)

PInv == pump \in [Requests -> PumpType] /\ \A r \in Requests : Honest(r)
-----------------------------------------------------------------------------
(* What a client can have read grows by what is sent. *)
LEMMA AppendTypes ==
  ASSUME NEW w \in Seq(Frame), NEW f \in Frame
  PROVE  Types(Append(w, f)) = Types(w) \cup {f.type}
<1> DEFINE v == Append(w, f)
<1>1. Len(v) = Len(w) + 1 /\ v[Len(w) + 1] = f /\ (\A k \in 1..Len(w) : v[k] = w[k]) /\ Len(w) \in Nat
  OBVIOUS
<1> HIDE DEF v
<1>2. \A k \in 1..Len(v) : k \in 1..Len(w) \/ k = Len(w) + 1
  BY <1>1
<1>3. Types(v) \subseteq Types(w) \cup {f.type}
  BY <1>1, <1>2 DEF Types
<1>4. Types(w) \subseteq Types(v)
  <2>1. \A k \in 1..Len(w) : k \in 1..Len(v) /\ v[k] = w[k]
    BY <1>1
  <2> QED
    BY <2>1 DEF Types
<1>5. f.type \in Types(v)
  <2>1. Len(w) + 1 \in 1..Len(v)
    BY <1>1
  <2> QED
    BY <1>1, <2>1 DEF Types
<1> QED
  BY <1>3, <1>4, <1>5 DEF v

LEMMA PutTypes ==
  ASSUME NEW s \in Sink, NEW t \in EventType, s.seq > 0, NEW x \in Put(s, t)
  PROVE  x \in Sink /\ Types(x.wire) \subseteq Types(s.wire) \cup {t}
<1> DEFINE f == [type |-> t, seq |-> s.seq - 1]
<1>1. x \in Sink /\ (x.wire = s.wire \/ x.wire = Append(s.wire, f))
  BY PutSink
<1>2. s.seq \in Nat /\ s.wire \in Seq(Frame)
  BY DEF Sink
<1>3. f \in Frame /\ f.type = t
  BY <1>2 DEF Frame
<1> HIDE DEF f
<1> QED
  BY <1>1, <1>2, <1>3, AppendTypes

LEMMA SendTypes ==
  ASSUME NEW s \in Sink, NEW t \in EventType, NEW id \in BOOLEAN,
         NEW x \in Put(Recorded(s, t, id), t)
  PROVE  x \in Sink /\ Types(x.wire) \subseteq Types(s.wire) \cup {t}
<1> DEFINE r == Recorded(s, t, id)
<1>1. r \in Sink /\ r.wire = s.wire /\ r.seq = s.seq + 1 /\ s.seq \in Nat
  BY RecordedSink DEF Sink
<1>2. r.seq > 0
  BY <1>1
<1> HIDE DEF r
<1>3. x \in Put(r, t)
  BY DEF r
<1> QED
  BY <1>1, <1>2, <1>3, PutTypes

LEMMA WrittenTypes ==
  ASSUME NEW s \in Sink, NEW t \in EventType, NEW id \in BOOLEAN, NEW x \in Written(s, t, id)
  PROVE  x \in Sink /\ Types(x.wire) \subseteq Types(s.wire) \cup {t}
<1>1. CASE x \in Put(Recorded(s, t, id), t)
  BY <1>1, SendTypes
<1>2. CASE x = Unencoded(s)
  BY <1>2, UnencodedSink
<1> QED
  BY <1>1, <1>2 DEF Written

LEMMA DoneTypes ==
  ASSUME NEW s \in Sink
  PROVE  WithDone(s) \in Sink /\ Types(WithDone(s).wire) \subseteq Types(s.wire) \cup {DoneFrame}
<1> DEFINE f == [type |-> DoneFrame, seq |-> s.seq]
           x == WithDone(s)
<1>1. x \in Sink /\ (x.wire = s.wire \/ x.wire = Append(s.wire, f))
  BY WithDoneSink
<1>2. s.wire \in Seq(Frame) /\ f \in Frame /\ f.type = DoneFrame
  BY DEF Sink, Frame
<1> HIDE DEF f, x
<1>3. Types(x.wire) \subseteq Types(s.wire) \cup {DoneFrame}
  BY <1>1, <1>2, AppendTypes
<1> QED
  BY <1>1, <1>3 DEF x

LEMMA FailedFinishTypes ==
  ASSUME NEW s \in Sink, NEW x \in FailedFinish(s)
  PROVE  "response.completed" \in Types(x.wire) => "response.completed" \in Types(s.wire)
<1>1. PICK e \in Written(s, "error", FALSE) :
        \E f \in Written(e, "response.failed", IDAtFinish(e.acc)) : x = WithDone(f)
  BY DEF FailedFinish
<1>2. PICK f \in Written(e, "response.failed", IDAtFinish(e.acc)) : x = WithDone(f)
  BY <1>1
<1>3. "error" \in EventType /\ "response.failed" \in EventType
  BY DEF EventType, WithID, Terminal
<1>4. e \in Sink /\ Types(e.wire) \subseteq Types(s.wire) \cup {"error"}
  BY <1>3, WrittenTypes
<1>5. IDAtFinish(e.acc) \in BOOLEAN
  BY <1>4 DEF Sink, IDAtFinish
<1>6. f \in Sink /\ Types(f.wire) \subseteq Types(e.wire) \cup {"response.failed"}
  <2> DEFINE id == IDAtFinish(e.acc)
  <2>1. id \in BOOLEAN /\ f \in Written(e, "response.failed", id)
    BY <1>5
  <2> HIDE DEF id
  <2> QED
    BY <1>3, <1>4, <2>1, WrittenTypes
<1>7. Types(x.wire) \subseteq Types(f.wire) \cup {DoneFrame}
  BY <1>2, <1>6, DoneTypes
<1> QED
  BY <1>4, <1>6, <1>7 DEF DoneFrame
-----------------------------------------------------------------------------
(***************************************************************************)
(* Every step of the proxy is a step of the handler with some adapter: the *)
(* pump sends, returns, or does something the handler does not see.        *)
(***************************************************************************)
LEMMA PumpIsAnAdapter ==
  ASSUME NEW r \in Requests, Pump(r)
  PROVE  [Next]_vars
<1>1. CASE \E t \in Events : Forward(r, t)
  BY <1>1 DEF Forward, Next, AdapterStreams
<1>2. CASE ForwardUnencoded(r)
  BY <1>2 DEF ForwardUnencoded, Next, AdapterStreams
<1>3. CASE OpenFails(r) \/ PumpReturns(r)
  <2>1. AdapterReturns(r)
    BY <1>3 DEF OpenFails, PumpReturns, Pumping, AdapterReturns
  <2> QED
    BY <2>1 DEF Next, Serve
<1>4. CASE Open(r) \/ ForwardRefused(r) \/ \E end \in Ends : UpstreamEnds(r, end)
  BY <1>4 DEF Open, ForwardRefused, UpstreamEnds
<1> QED
  BY <1>1, <1>2, <1>3, <1>4 DEF Pump

LEMMA ProxyStep == [ProxyNext]_proxyVars => [Next]_vars
<1>1. ASSUME NEW r \in Requests, Pump(r) PROVE [Next]_vars
  BY <1>1, PumpIsAnAdapter
<1>2. ASSUME NEW r \in Requests, Around(r) PROVE [Next]_vars
  BY <1>2 DEF Around, Next, Serve
<1>3. ASSUME AllServed PROVE [Next]_vars
  BY <1>3 DEF Next
<1>4. ASSUME UNCHANGED proxyVars PROVE [Next]_vars
  BY <1>4 DEF proxyVars
<1> QED
  BY <1>1, <1>2, <1>3, <1>4 DEF ProxyNext

(* The proxy implements the handler: whatever is proved of the handler     *)
(* under any adapter holds with ClientAdapter behind it.                   *)
THEOREM ProxyImplementsHandler == ProxySpec => Spec
<1>1. ProxyInit => Init
  BY DEF ProxyInit
<1> QED
  BY <1>1, ProxyStep, PTL DEF ProxySpec, Spec
-----------------------------------------------------------------------------
GoodPump(u) == u.terminal = TRUE \/ u.end = "done"

(***************************************************************************)
(* A step of one request keeps the proxy honest if the client reads        *)
(* response.completed for a reason: it had read it, the request was on its *)
(* way there, or the upstream has said so.                                 *)
(***************************************************************************)
LEMMA HonestStep ==
  ASSUME IInv, PInv, NEW r \in Requests, NEW p, NEW s, NEW u \in PumpType,
         phase' = [phase EXCEPT ![r] = p],
         sink'  = [sink EXCEPT ![r] = s],
         pump'  = [pump EXCEPT ![r] = u],
         Good(r) => GoodPump(u),
         p \in Ending => phase[r] \in Ending \/ GoodPump(u),
         "response.completed" \in Types(s.wire) =>
           \/ "response.completed" \in Types(sink[r].wire)
           \/ phase[r] \in Ending \/ GoodPump(u)
  PROVE  PInv'
<1>1. /\ phase'[r] = p /\ sink'[r] = s /\ pump'[r] = u
      /\ \A q \in Requests \ {r} : phase'[q] = phase[q] /\ sink'[q] = sink[q] /\ pump'[q] = pump[q]
      /\ pump' \in [Requests -> PumpType]
  BY DEF IInv, TypeOK, PInv
<1>2. ASSUME NEW q \in Requests PROVE Honest(q)'
  <2>1. Honest(q)
    BY DEF PInv
  <2>2. CASE q = r
    <3>1. phase'[r] \in Ending \/ "response.completed" \in Types(sink'[r].wire) => GoodPump(u)
      BY <1>1, <2>1, <2>2 DEF Honest
    <3> QED
      BY <1>1, <2>2, <3>1 DEF Honest, Good, GoodPump
  <2>3. CASE q # r
    BY <1>1, <2>1, <2>3 DEF Honest, Good
  <2> QED
    BY <2>2, <2>3
<1> QED
  BY <1>1, <1>2 DEF PInv

(* A step of the handler, which does not see the pump. *)
LEMMA HonestHandlerStep ==
  ASSUME IInv, PInv, pump' = pump, NEW r \in Requests, NEW p, NEW s,
         phase' = [phase EXCEPT ![r] = p],
         sink'  = [sink EXCEPT ![r] = s],
         p \in Ending => phase[r] \in Ending,
         "response.completed" \in Types(s.wire) =>
           "response.completed" \in Types(sink[r].wire) \/ phase[r] \in Ending
  PROVE  PInv'
<1>1. pump[r] \in PumpType /\ pump' = [pump EXCEPT ![r] = pump[r]]
  BY DEF PInv
<1>2. Good(r) => GoodPump(pump[r])
  BY DEF Good, GoodPump
<1> QED
  BY <1>1, <1>2, HonestStep

LEMMA PumpStepIsHonest ==
  ASSUME IInv, PInv, NEW r \in Requests, Pump(r)
  PROVE  PInv'
<1>1. /\ pump[r] \in PumpType /\ sink[r] \in Sink
      /\ phase = [phase EXCEPT ![r] = phase[r]] /\ sink = [sink EXCEPT ![r] = sink[r]]
      /\ pump = [pump EXCEPT ![r] = pump[r]]
  BY Typed DEF IInv, TypeOK, PInv
<1>2. CASE Open(r)
  <2> DEFINE u == [pump[r] EXCEPT !.opened = TRUE]
  <2>1. u \in PumpType /\ pump' = [pump EXCEPT ![r] = u] /\ phase' = phase /\ sink' = sink
    BY <1>1, <1>2 DEF Open, SetPump, vars, PumpType
  <2>2. Good(r) => GoodPump(u)
    BY <1>1 DEF Good, GoodPump, PumpType
  <2> HIDE DEF u
  <2> QED
    BY <1>1, <2>1, <2>2, HonestStep
<1>3. CASE OpenFails(r)
  <2>1. /\ phase' = [phase EXCEPT ![r] = "errored"] /\ sink' = [sink EXCEPT ![r] = sink[r]]
        /\ pump' = pump
    BY <1>1, <1>3 DEF OpenFails, Goto
  <2>2. "errored" \notin Ending
    BY DEF Ending
  <2> QED
    BY <2>1, <2>2, HonestHandlerStep
<1>4. ASSUME NEW t \in Events, Forward(r, t) PROVE PInv'
  <2> DEFINE u == [pump[r] EXCEPT !.terminal = pump[r].terminal \/ t \in Terminal]
  <2>1. pump' = [pump EXCEPT ![r] = u] /\ t \in EventType
    BY <1>4, EventsAssumption DEF Forward, SetPump
  <2>2. (pump[r].terminal \/ t \in Terminal) \in BOOLEAN
    OBVIOUS
  <2>3. u \in PumpType
    BY <1>1, <2>2 DEF PumpType
  <2>4. Good(r) \/ t \in Terminal => GoodPump(u)
    <3>1. u.terminal = (pump[r].terminal \/ t \in Terminal) /\ u.end = pump[r].end
      BY <1>1 DEF PumpType
    <3>2. pump[r].terminal \in BOOLEAN
      BY <1>1 DEF PumpType
    <3> HIDE DEF u
    <3>3. ASSUME pump[r].terminal = TRUE \/ t \in Terminal PROVE u.terminal = TRUE
      <4>1. (pump[r].terminal \/ t \in Terminal) = TRUE
        BY <3>3
      <4> QED
        BY <3>1, <4>1
    <3> QED
      BY <3>1, <3>3 DEF Good, GoodPump
  <2> HIDE DEF u
  <2>5. CASE AdapterSends(r, t)
    <3>1. PICK s \in Put(Recorded(sink[r], t, TRUE), t) : sink' = [sink EXCEPT ![r] = s]
      BY <2>5 DEF AdapterSends, SetSink
    <3>2. phase' = [phase EXCEPT ![r] = phase[r]] /\ t \notin Terminal
      BY <1>1, <2>5 DEF AdapterSends
    <3>3. "response.completed" \in Types(s.wire) => "response.completed" \in Types(sink[r].wire)
      <4>1. t # "response.completed"
        BY <3>2 DEF Terminal
      <4>2. Types(s.wire) \subseteq Types(sink[r].wire) \cup {t}
        BY <1>1, <2>1, SendTypes
      <4> QED
        BY <4>1, <4>2
    <3> QED
      BY <2>1, <2>3, <2>4, <3>1, <3>2, <3>3, HonestStep
  <2>6. CASE AdapterFinishes(r, t)
    <3> DEFINE s == Recorded(sink[r], t, TRUE)
    <3>1. sink' = [sink EXCEPT ![r] = s] /\ phase' = [phase EXCEPT ![r] = "sending"] /\ t \in Terminal
      BY <2>6 DEF AdapterFinishes, Terminate, SetSink, Goto
    <3>2. GoodPump(u)
      BY <2>4, <3>1
    <3> HIDE DEF s
    <3> QED
      BY <2>1, <2>3, <3>1, <3>2, HonestStep
  <2> QED
    BY <1>4, <2>5, <2>6 DEF Forward
<1>5. CASE ForwardUnencoded(r)
  <2> DEFINE u == [pump[r] EXCEPT !.refused = TRUE]
             s == Unencoded(sink[r])
  <2>1. u \in PumpType /\ pump' = [pump EXCEPT ![r] = u] /\ sink' = [sink EXCEPT ![r] = s]
    BY <1>1, <1>5 DEF ForwardUnencoded, SendUnencoded, SetSink, SetPump, PumpType
  <2>2. PICK p \in {"errored", "running"} : phase' = [phase EXCEPT ![r] = p]
    BY <1>5 DEF ForwardUnencoded, SendUnencoded, Goto
  <2>3. (Good(r) => GoodPump(u)) /\ p \notin Ending /\ s.wire = sink[r].wire
    BY <1>1, UnencodedSink DEF Good, GoodPump, PumpType, Ending
  <2> HIDE DEF u, s
  <2> QED
    BY <2>1, <2>2, <2>3, HonestStep
<1>6. CASE ForwardRefused(r)
  <2> DEFINE u == [pump[r] EXCEPT !.refused = TRUE]
  <2>1. u \in PumpType /\ pump' = [pump EXCEPT ![r] = u] /\ phase' = phase /\ sink' = sink
    BY <1>1, <1>6 DEF ForwardRefused, SetPump, vars, PumpType
  <2>2. Good(r) => GoodPump(u)
    BY <1>1 DEF Good, GoodPump, PumpType
  <2> HIDE DEF u
  <2> QED
    BY <1>1, <2>1, <2>2, HonestStep
<1>7. ASSUME NEW end \in Ends, UpstreamEnds(r, end) PROVE PInv'
  <2> DEFINE u == [pump[r] EXCEPT !.end = end]
  <2>1. /\ u \in PumpType /\ pump' = [pump EXCEPT ![r] = u] /\ phase' = phase /\ sink' = sink
        /\ pump[r].end = "none"
    BY <1>1, <1>7 DEF UpstreamEnds, Reading, Pumping, SetPump, vars, PumpType
  <2>2. Good(r) => GoodPump(u)
    BY <1>1, <2>1 DEF Good, GoodPump, PumpType
  <2> HIDE DEF u
  <2> QED
    BY <1>1, <2>1, <2>2, HonestStep
<1>8. CASE PumpReturns(r)
  <2>1. PICK p \in {"errored", "returned"} :
          /\ phase' = [phase EXCEPT ![r] = p]
          /\ p = "returned" => EndedWell(pump[r])
    BY <1>8 DEF PumpReturns, Goto
  <2>2. sink' = [sink EXCEPT ![r] = sink[r]] /\ pump' = [pump EXCEPT ![r] = pump[r]]
    BY <1>1, <1>8 DEF PumpReturns
  <2>3. p \in Ending => GoodPump(pump[r])
    BY <1>1, <2>1 DEF EndedWell, GoodPump, Ending, PumpType
  <2>4. Good(r) => GoodPump(pump[r])
    BY DEF Good, GoodPump
  <2> QED
    BY <1>1, <2>1, <2>2, <2>3, <2>4, HonestStep
<1> QED
  BY <1>2, <1>3, <1>4, <1>5, <1>6, <1>7, <1>8 DEF Pump

LEMMA AroundStepIsHonest ==
  ASSUME IInv, PInv, NEW r \in Requests, Around(r)
  PROVE  PInv'
<1>1. /\ sink[r] \in Sink /\ pump' = pump
      /\ phase = [phase EXCEPT ![r] = phase[r]] /\ sink = [sink EXCEPT ![r] = sink[r]]
  BY Typed DEF IInv, TypeOK, Around
<1>2. /\ {"arrived", "running", "answering", "ended"} \cap Ending = {}
      /\ {"sending", "closing", "returned"} \subseteq Ending
  BY DEF Ending
<1>3. CASE ClientSends(r) \/ Resolve(r) \/ \E a \in {"ok", "error", "not_found"} : Refuse(r, a)
  <2>1. PICK p \in {"arrived", "running", "ended"} : phase' = [phase EXCEPT ![r] = p]
    BY <1>3 DEF ClientSends, Resolve, Refuse, Goto
  <2>2. sink' = sink
    BY <1>3 DEF ClientSends, Resolve, Refuse
  <2> QED
    BY <1>1, <1>2, <2>1, <2>2, HonestHandlerStep
<1>4. CASE ClientLeaves(r)
  <2> DEFINE s == [sink[r] EXCEPT !.up = FALSE]
  <2>1. phase' = phase /\ sink' = [sink EXCEPT ![r] = s] /\ s.wire = sink[r].wire
    BY <1>1, <1>4 DEF ClientLeaves, SetSink, Sink
  <2> HIDE DEF s
  <2> QED
    BY <1>1, <2>1, HonestHandlerStep
<1>5. CASE CreateReturns(r)
  <2>1. PICK status \in Status \ {"none"} :
          sink' = [sink EXCEPT ![r] = [sink[r] EXCEPT !.acc = Snapshot(TRUE, status)]]
    BY <1>5 DEF CreateReturns, SetSink
  <2> DEFINE s == [sink[r] EXCEPT !.acc = Snapshot(TRUE, status)]
  <2>2. phase' = [phase EXCEPT ![r] = "answering"] /\ s.wire = sink[r].wire
    BY <1>1, <1>5 DEF CreateReturns, Goto, Sink
  <2>3. sink' = [sink EXCEPT ![r] = s]
    BY <2>1
  <2> HIDE DEF s
  <2> QED
    BY <1>1, <1>2, <2>2, <2>3, HonestHandlerStep
<1>6. CASE TerminalSent(r)
  <2>1. PICK s : sink' = [sink EXCEPT ![r] = s]
    BY <1>6 DEF TerminalSent, SetSink
  <2>2. phase' = [phase EXCEPT ![r] = "running"] /\ phase[r] \in Ending
    BY <1>2, <1>6 DEF TerminalSent, Goto
  <2> QED
    BY <1>1, <2>1, <2>2, HonestHandlerStep
<1>7. CASE Abandon(r)
  <2>1. phase' = [phase EXCEPT ![r] = "ended"] /\ sink' = sink
    BY <1>7 DEF Abandon, Goto
  <2> QED
    BY <1>1, <1>2, <2>1, HonestHandlerStep
<1>8. CASE FinishDone(r)
  <2>1. phase' = [phase EXCEPT ![r] = "ended"] /\ sink' = [sink EXCEPT ![r] = WithDone(sink[r])]
    BY <1>8 DEF FinishDone, Goto, SetSink
  <2>2. "response.completed" \in Types(WithDone(sink[r]).wire) =>
          "response.completed" \in Types(sink[r].wire)
    BY <1>1, DoneTypes DEF DoneFrame
  <2> QED
    BY <1>1, <1>2, <2>1, <2>2, HonestHandlerStep
<1>9. CASE FinishFailed(r)
  <2>1. PICK s \in FailedFinish(sink[r]) : sink' = [sink EXCEPT ![r] = s]
    BY <1>9 DEF FinishFailed, SetSink
  <2>2. phase' = [phase EXCEPT ![r] = "ended"]
    BY <1>9 DEF FinishFailed, Goto
  <2> QED
    BY <1>1, <1>2, <2>1, <2>2, FailedFinishTypes, HonestHandlerStep
<1>10. CASE FinishCompleted(r) \/ FinishSent(r) \/ FinishUnencoded(r)
  <2>1. phase[r] \in Ending
    BY <1>2, <1>10 DEF FinishCompleted, FinishSent, FinishUnencoded, Synthesizes
  <2>2. PICK p, s : phase' = [phase EXCEPT ![r] = p] /\ sink' = [sink EXCEPT ![r] = s]
    <3>1. CASE FinishCompleted(r)
      BY <3>1 DEF FinishCompleted, Terminate, SetSink, Goto
    <3>2. CASE FinishSent(r)
      BY <3>2 DEF FinishSent, SetSink, Goto
    <3>3. CASE FinishUnencoded(r)
      BY <3>3 DEF FinishUnencoded, SetSink, Goto
    <3> QED
      BY <1>10, <3>1, <3>2, <3>3
  <2> QED
    BY <1>1, <2>1, <2>2, HonestHandlerStep
<1>11. CASE Invalid(r) \/ ResolveRejected(r) \/ ResolveNotFound(r) \/ ResolveFailed(r)
            \/ CreateFails(r) \/ FailBeforeStream(r)
  BY <1>3, <1>11 DEF Invalid, ResolveRejected, ResolveNotFound, ResolveFailed, CreateFails,
                     FailBeforeStream
<1>12. CASE WriteAnswer(r)
  <2>1. phase' = [phase EXCEPT ![r] = "ended"] /\ sink' = sink
    BY <1>12 DEF WriteAnswer, Goto
  <2> QED
    BY <1>1, <1>2, <2>1, HonestHandlerStep
<1> QED
  BY <1>3, <1>4, <1>5, <1>6, <1>7, <1>8, <1>9, <1>10, <1>11, <1>12 DEF Around, Client, HandlerStep

(* A client of the proxy reads response.completed only for a good reason. *)
THEOREM CutOffStaysCutOff == ProxySpec => []CutOffIsNeverCompleted
<1>1. ProxyInit => PInv
  <2> SUFFICES ASSUME ProxyInit PROVE PInv
    OBVIOUS
  <2>1. pump \in [Requests -> PumpType]
    BY DEF ProxyInit, NewPump, PumpType
  <2>2. ASSUME NEW r \in Requests PROVE Honest(r)
    <3>1. phase[r] = "unsent" /\ sink[r].wire = <<>>
      BY DEF ProxyInit, Init, NewSink
    <3>2. Types(<<>>) = {}
      BY DEF Types
    <3> QED
      BY <3>1, <3>2 DEF Honest, Ending
  <2> QED
    BY <2>1, <2>2 DEF PInv
<1>2. IInv /\ PInv /\ [ProxyNext]_proxyVars => PInv'
  <2> SUFFICES ASSUME IInv, PInv, [ProxyNext]_proxyVars PROVE PInv'
    OBVIOUS
  <2>1. ASSUME UNCHANGED proxyVars PROVE PInv'
    BY <2>1 DEF proxyVars, vars, PInv, Honest, Good
  <2>2. CASE AllServed /\ UNCHANGED pump
    BY <2>1, <2>2 DEF AllServed, proxyVars
  <2> QED
    BY <2>1, <2>2, PumpStepIsHonest, AroundStepIsHonest DEF ProxyNext
<1>3. ProxySpec => []IInv
  BY ProxyImplementsHandler, Invariance, PTL
<1>4. PInv => CutOffIsNeverCompleted
  <2> SUFFICES ASSUME PInv, NEW r \in Requests, OnWire(r, {"response.completed"})
               PROVE  pump[r].terminal \/ pump[r].end = "done"
    BY DEF CutOffIsNeverCompleted
  <2>1. "response.completed" \in Types(sink[r].wire)
    BY DEF OnWire, Types
  <2> QED
    BY <2>1 DEF PInv, Honest, Good
<1> QED
  BY <1>1, <1>2, <1>3, <1>4, PTL DEF ProxySpec
=============================================================================
