-------------------------- MODULE EventPipelineProofs --------------------------
(***************************************************************************)
(* Reading a stream keeps the promise of EventSequence, for a stream of    *)
(* any length and however reading, closing and cancelling interleave.      *)
(*                                                                         *)
(* The invariant, PipelineInv, accounts for every event the server has     *)
(* sent (Counted), says what each frame in the reader's hands and each     *)
(* error tells of the server and the caller (Honest), what a stream that   *)
(* is done or closed has behind it (Finished), and who is still running    *)
(* (Places).                                                               *)
(***************************************************************************)
EXTENDS EventPipeline, FiniteSetTheorems, FunctionTheorems, SequenceTheorems, TLAPS

EventFrames == {"event", "terminal"}
EventsAt(q) == {k \in 1..Len(q) : q[k] \in EventFrames}
Count(q)    == Cardinality(EventsAt(q))

(* The event the reader holds and has not handed on. *)
InHand == IF got \in EventFrames \/ reader = "event" THEN 1 ELSE 0

(* No event is lost, but the one whose Send fails. *)
Counted ==
  /\ delivered + Count(body) + InHand <= sent
  /\ answer # "error" => delivered + Count(body) + InHand = sent

Stopping == stream.byUser \/ cancelled

(* What a frame, an error and an answer say of the server and the caller. *)
Honest ==
  /\ \A k \in 1..Len(body) :
       /\ body[k] = "garbage" => faulty
       /\ body[k] = "[DONE]"  => ending = "done" /\ k = Len(body)
  /\ got = "garbage" => faulty
  /\ got = "[DONE]"  => ending = "done" /\ body = <<>>
  /\ got = "eof"     => ending = "eof" /\ body = <<>>
  /\ got = "error"   => ending = "broken" \/ Stopping
  /\ stream.err # "nil" => SentFault
  /\ stream.err # "nil" /\ ~stream.done => stream.err = "context"
  /\ answer = "error" => SentFault
  /\ hook \in {"started", "ran"} => cancelled
  /\ stream.byUser => direct

(* What lies behind a stream that is done, or closed, or answered. *)
Finished ==
  /\ stream.done /\ stream.err = "nil" => SentWhole /\ body = <<>>
  /\ stream.closed /\ ~stream.done /\ stream.err = "nil" => stream.byUser \/ reader = "returned"
  /\ stream.closed => Stopping \/ reader = "returned"
  /\ stream.done \/ stream.closed => hook # "armed"
  /\ reader = "ended" => stream.done \/ stream.closed
  /\ answer = "nil" => SentWhole /\ delivered = sent

(* Who is still running. *)
Places ==
  /\ (got = "none") = (reader # "scanned")
  /\ direct => answer = "none" /\ consumer = "over" /\ ((verdict # "none") = (reader = "returned"))
  /\ ~direct => ((verdict # "none") = (consumer = "over"))
  /\ ~direct => ((answer # "none") = (reader = "returned"))
  /\ reader = "returned" => stream.closed
  /\ stream.done => reader \in {"ended", "returned"}

PipelineInv == TypeOK /\ Counted /\ Honest /\ Finished /\ Places
-----------------------------------------------------------------------------
(* Counting the events of a sequence of frames. *)
LEMMA CountType ==
  ASSUME NEW q \in Seq(Frames)
  PROVE  IsFiniteSet(EventsAt(q)) /\ Count(q) \in Nat
<1>1. Len(q) \in Nat
  OBVIOUS
<1>2. IsFiniteSet(1..Len(q))
  BY <1>1, FS_Interval
<1>3. EventsAt(q) \in SUBSET (1..Len(q))
  BY DEF EventsAt
<1>4. IsFiniteSet(EventsAt(q))
  BY <1>2, <1>3, FS_Subset
<1> QED BY <1>4, FS_CardinalityType DEF Count

LEMMA CountEmpty == Count(<<>>) = 0
<1>1. EventsAt(<<>>) = {}
  BY DEF EventsAt
<1> QED BY <1>1, FS_EmptySet DEF Count

LEMMA CountAppend ==
  ASSUME NEW q \in Seq(Frames), NEW f \in Frames
  PROVE  Count(Append(q, f)) = Count(q) + (IF f \in EventFrames THEN 1 ELSE 0)
<1>1. Len(q) \in Nat
  OBVIOUS
<1>2. EventsAt(Append(q, f)) =
        IF f \in EventFrames THEN EventsAt(q) \cup {Len(q) + 1} ELSE EventsAt(q)
  BY <1>1 DEF EventsAt
<1>3. Len(q) + 1 \notin EventsAt(q)
  BY <1>1 DEF EventsAt
<1>4. IsFiniteSet(EventsAt(q)) /\ Cardinality(EventsAt(q)) \in Nat
  BY CountType DEF Count
<1>5. CASE f \in EventFrames
  <2>1. Cardinality(EventsAt(q) \cup {Len(q) + 1}) = Cardinality(EventsAt(q)) + 1
    BY <1>3, <1>4, FS_AddElement
  <2> QED BY <1>2, <1>5, <2>1 DEF Count
<1>6. CASE f \notin EventFrames
  BY <1>2, <1>4, <1>6 DEF Count
<1> QED BY <1>5, <1>6

LEMMA CountTail ==
  ASSUME NEW q \in Seq(Frames), q # <<>>
  PROVE  Count(q) = Count(Tail(q)) + (IF Head(q) \in EventFrames THEN 1 ELSE 0)
<1> DEFINE S == EventsAt(Tail(q))
           T == EventsAt(q) \ {1}
           g == [k \in S |-> k + 1]
<1>1. /\ Len(q) \in Nat \ {0} /\ Head(q) = q[1] /\ Tail(q) \in Seq(Frames)
      /\ Len(Tail(q)) = Len(q) - 1 /\ \A i \in 1..Len(Tail(q)) : Tail(q)[i] = q[i + 1]
  BY HeadTailProperties, EmptySeq
<1>2. S \subseteq Nat /\ T \subseteq Nat
  BY DEF EventsAt
<1>3. \A k \in S : k + 1 \in T
  BY <1>1 DEF EventsAt
<1>4. \A k \in T : k - 1 \in S /\ (k - 1) + 1 = k
  <2> SUFFICES ASSUME NEW k \in T
               PROVE  k - 1 \in S /\ (k - 1) + 1 = k
    OBVIOUS
  <2>1. k \in 2..Len(q) /\ q[k] \in EventFrames
    BY <1>1 DEF EventsAt
  <2>2. k - 1 \in 1..Len(Tail(q)) /\ Tail(q)[k - 1] = q[k]
    BY <1>1, <2>1
  <2> QED BY <2>1, <2>2 DEF EventsAt
<1>5. g \in Bijection(S, T)
  <2>1. g \in [S -> T]
    BY <1>3
  <2>2. \A a, b \in S : g[a] = g[b] => a = b
    BY <1>2
  <2>3. \A t \in T : \E s \in S : g[s] = t
    BY <1>4
  <2> QED BY <2>1, <2>2, <2>3, Fun_IsBij
<1>6. IsFiniteSet(S) /\ Cardinality(T) = Cardinality(S)
  BY <1>1, <1>5, CountType, FS_Bijection DEF ExistsBijection
<1>7. IsFiniteSet(EventsAt(q)) /\ Cardinality(EventsAt(q)) \in Nat
  BY CountType DEF Count
<1>8. Cardinality(T) = IF 1 \in EventsAt(q) THEN Cardinality(EventsAt(q)) - 1 ELSE Cardinality(EventsAt(q))
  BY <1>7, FS_RemoveElement
<1>9. 1 \in EventsAt(q) <=> Head(q) \in EventFrames
  BY <1>1 DEF EventsAt
<1>10. Cardinality(S) \in Nat
  BY <1>1, CountType DEF Count
<1> QED BY <1>6, <1>7, <1>8, <1>9, <1>10 DEF Count
-----------------------------------------------------------------------------
(* Every step preserves the invariant. *)
(* The server sends a frame. *)
LEMMA SendFrameKeeps ==
  ASSUME NEW f \in Frames \ {"[DONE]"}
  PROVE  PipelineInv /\ SendFrame(f) => PipelineInv'
<1> SUFFICES ASSUME PipelineInv, SendFrame(f)
             PROVE  PipelineInv'
  OBVIOUS
<1> USE DEF SendFrame, streamVars, consumerVars
<1>1. /\ body \in Seq(Frames) /\ f \in Frames /\ Len(body) \in Nat /\ Count(body) \in Nat
      /\ Count(body') = Count(body) + (IF f \in EventFrames THEN 1 ELSE 0)
      /\ Len(body') = Len(body) + 1 /\ body' \in Seq(Frames)
      /\ \A k \in 1..Len(body) : body'[k] = body[k]
      /\ body'[Len(body')] = f
  BY CountType, CountAppend DEF PipelineInv, TypeOK
<1>2. f \in EventFrames <=> f # "garbage"
  BY DEF Frames, EventFrames
<1>3. Counted'
  BY <1>1, <1>2 DEF PipelineInv, TypeOK, Counted, InHand
<1>4. TypeOK'
  BY <1>1, BoundAssumption DEF PipelineInv, TypeOK
<1>5. Honest'
  <2>1. \A k \in 1..Len(body') : body'[k] = "garbage" => faulty'
    <3>1. \A k \in 1..Len(body) : body'[k] = "garbage" => faulty'
      BY <1>1 DEF PipelineInv, Honest
    <3>2. \A k \in 1..Len(body') : k \in 1..Len(body) \/ k = Len(body')
      BY <1>1
    <3> QED BY <1>1, <3>1, <3>2
  <2>2. \A k \in 1..Len(body') : body'[k] # "[DONE]"
    <3>1. \A k \in 1..Len(body) : body'[k] # "[DONE]"
      BY <1>1 DEF PipelineInv, Honest
    <3>2. \A k \in 1..Len(body') : k \in 1..Len(body) \/ k = Len(body')
      BY <1>1
    <3> QED BY <1>1, <3>1, <3>2
  <2> QED BY <2>1, <2>2 DEF PipelineInv, Honest, Stopping, SentFault
<1>6. Finished'
  BY <1>1 DEF PipelineInv, Finished, Stopping, SentWhole
<1>7. Places'
  BY DEF PipelineInv, Places
<1> QED BY <1>3, <1>4, <1>5, <1>6, <1>7 DEF PipelineInv

(* The server ends its stream. *)
LEMMA EndStreamKeeps ==
  ASSUME NEW h \in {"done", "eof", "broken"}
  PROVE  PipelineInv /\ EndStream(h) => PipelineInv'
<1> SUFFICES ASSUME PipelineInv, EndStream(h)
             PROVE  PipelineInv'
  OBVIOUS
<1> USE DEF EndStream, streamVars, consumerVars
<1>1. /\ body \in Seq(Frames) /\ Len(body) \in Nat /\ Count(body) \in Nat
      /\ Count(body') = Count(body) /\ body' \in Seq(Frames)
  BY CountType, CountAppend DEF PipelineInv, TypeOK, Frames, EventFrames
<1>2. /\ Len(body') \in Nat
      /\ \A k \in 1..Len(body') : body'[k] = "garbage" => body[k] = "garbage" /\ k \in 1..Len(body)
      /\ \A k \in 1..Len(body') : body'[k] = "[DONE]" => h = "done" /\ k = Len(body')
  <2>1. \A k \in 1..Len(body) : body[k] # "[DONE]"
    BY DEF PipelineInv, Honest
  <2>2. CASE h = "done"
    BY <1>1, <2>1, <2>2
  <2>3. CASE h # "done"
    BY <1>1, <2>1, <2>3
  <2> QED BY <2>2, <2>3
<1>3. Counted'
  BY <1>1 DEF PipelineInv, TypeOK, Counted, InHand
<1>4. TypeOK'
  BY <1>1 DEF PipelineInv, TypeOK
<1>5. Honest'
  BY <1>1, <1>2 DEF PipelineInv, Honest, Stopping, SentFault
<1>6. Finished'
  BY <1>1 DEF PipelineInv, Finished, Stopping, SentWhole
<1>7. Places'
  BY DEF PipelineInv, Places
<1> QED BY <1>3, <1>4, <1>5, <1>6, <1>7 DEF PipelineInv

(* The scanner takes a frame, or the end. *)
LEMMA ScanKeeps == PipelineInv /\ Scan => PipelineInv'
<1> SUFFICES ASSUME PipelineInv, Scan
             PROVE  PipelineInv'
  OBVIOUS
<1> USE DEF Scan, consumerVars
<1>0. PICK n \in Nat : n = Count(body) /\ body \in Seq(Frames) /\ Len(body) \in Nat
  BY CountType DEF PipelineInv, TypeOK
<1>1. CASE body # <<>> /\ got' = Head(body) /\ body' = Tail(body)
  <2>1. /\ Len(body) > 0 /\ Head(body) = body[1] /\ body[1] \in Frames
        /\ body' \in Seq(Frames) /\ Len(body') = Len(body) - 1
        /\ \A k \in 1..Len(body') : body'[k] = body[k + 1]
    BY <1>0, <1>1, HeadTailProperties, EmptySeq
  <2>2. Count(body) = Count(body') + (IF got' \in EventFrames THEN 1 ELSE 0)
    BY <1>0, <1>1, CountTail
  <2>3. Count(body') \in Nat
    BY <2>1, CountType
  <2>4. Counted'
    BY <1>0, <2>2, <2>3 DEF PipelineInv, TypeOK, Counted, InHand, Places, EventFrames
  <2>5. TypeOK'
    <3>1. got' \in Scanned
      BY <1>1, <2>1 DEF Scanned
    <3>2. body' \in Seq(Frames)
      BY <2>1
    <3> HIDE DEF Scan
    <3>3. reader' = "scanned" /\ UNCHANGED <<direct, sent, ending, faulty, stream, hook, cancelled, consumerVars>>
      BY DEF Scan
    <3> QED BY <3>1, <3>2, <3>3 DEF PipelineInv, TypeOK
  <2>6. Honest'
    <3>1. \A k \in 1..Len(body') : /\ body'[k] = "garbage" => faulty
                                   /\ body'[k] = "[DONE]"  => ending = "done" /\ k = Len(body')
      BY <1>0, <2>1 DEF PipelineInv, Honest
    <3>2. /\ got' = "garbage" => faulty
          /\ got' = "[DONE]" => ending = "done" /\ Len(body) = 1
      <4>1. 1 \in 1..Len(body)
        BY <1>0, <2>1
      <4>2. got' = body[1]
        BY <1>1, <2>1
      <4> QED BY <4>1, <4>2 DEF PipelineInv, Honest
    <3>3. Len(body) = 1 => body' = <<>>
      BY <2>1, EmptySeq
    <3>4. got' \notin {"eof", "error"}
      BY <1>1, <2>1 DEF Frames
    <3> QED BY <3>1, <3>2, <3>3, <3>4 DEF PipelineInv, Honest, Stopping, SentFault
  <2>7. SentWhole => SentWhole'
    <3>1. CASE ending = "done"
      BY <3>1 DEF SentWhole
    <3>2. CASE stream.terminal
      BY <3>2 DEF SentWhole
    <3>3. CASE \E k \in 1..Len(body) : body[k] = "terminal"
      <4>1. PICK k \in 1..Len(body) : body[k] = "terminal"
        BY <3>3
      <4>2. k = 1 => got' = "terminal"
        BY <1>1, <2>1, <4>1
      <4>3. k # 1 => k - 1 \in 1..Len(body') /\ body'[k - 1] = "terminal"
        BY <1>0, <2>1, <4>1
      <4> QED BY <4>2, <4>3 DEF SentWhole
    <3> QED BY <3>1, <3>2, <3>3 DEF SentWhole, PipelineInv, Places
  <2>8. Finished'
    BY <1>1, <2>7 DEF PipelineInv, Finished, Stopping
  <2>9. Places'
    BY <1>1, <2>1 DEF PipelineInv, Places, Frames
  <2> QED BY <2>4, <2>5, <2>6, <2>8, <2>9 DEF PipelineInv
<1>2. CASE body' = body /\ got' \in {"eof", "error"}
  <2>1. Counted'
    BY <1>0, <1>2 DEF PipelineInv, TypeOK, Counted, InHand, Places, EventFrames
  <2>2. TypeOK'
    BY <1>2 DEF PipelineInv, TypeOK, Scanned
  <2>3. Honest'
    BY <1>2, <1>0 DEF PipelineInv, Honest, Stopping, SentFault, Finished, Frames
  <2>4. Finished'
    BY <1>2 DEF PipelineInv, Finished, Stopping, SentWhole, Places
  <2>5. Places'
    BY <1>2 DEF PipelineInv, Places
  <2> QED BY <2>1, <2>2, <2>3, <2>4, <2>5 DEF PipelineInv
<1> QED BY <1>1, <1>2

(* Next, up to its first unlock. *)
LEMMA NextStartsKeeps == PipelineInv /\ NextStarts => PipelineInv'
<1> SUFFICES ASSUME PipelineInv, NextStarts
             PROVE  PipelineInv'
  OBVIOUS
<1> USE DEF NextStarts, Ends, serverVars, streamVars, consumerVars
<1>1. Len(body) \in Nat /\ Count(body) \in Nat
  BY CountType DEF PipelineInv, TypeOK
<1>3. Counted'
  BY <1>1 DEF PipelineInv, TypeOK, Counted, InHand, Places, Finished, Scanned, EventFrames
<1>4. TypeOK'
  BY <1>1, <1>3 DEF PipelineInv, TypeOK, Counted, InHand, Frames, Scanned, Errors, EventFrames, Finished
<1>5. Honest'
  BY <1>1 DEF PipelineInv, TypeOK, Honest, Stopping, SentFault, Places, Finished, Scanned, Errors
<1>6. Finished'
  BY <1>1, CountEmpty DEF PipelineInv, TypeOK, Honest, Finished, Stopping, SentWhole, Counted, InHand, Places, Scanned, Errors, EventFrames
<1>7. Places'
  BY <1>1 DEF PipelineInv, TypeOK, Places, Scanned, Finished
<1> QED BY <1>3, <1>4, <1>5, <1>6, <1>7 DEF PipelineInv

(* An event becomes the current one. *)
LEMMA TakeEventKeeps == PipelineInv /\ TakeEvent => PipelineInv'
<1> SUFFICES ASSUME PipelineInv, TakeEvent
             PROVE  PipelineInv'
  OBVIOUS
<1> USE DEF TakeEvent, serverVars, streamVars, consumerVars
<1>1. Len(body) \in Nat /\ Count(body) \in Nat
  BY CountType DEF PipelineInv, TypeOK
<1>2. stream' \in [done: BOOLEAN, closed: BOOLEAN, terminal: BOOLEAN, err: Errors, byUser: BOOLEAN]
  BY DEF PipelineInv, TypeOK, Errors
<1>3. Counted'
  BY <1>1 DEF PipelineInv, TypeOK, Counted, InHand, Places, Finished, Scanned, EventFrames
<1>4. TypeOK'
  BY <1>1, <1>2, <1>3 DEF PipelineInv, TypeOK, Counted, InHand, Frames, Scanned, Errors, EventFrames, Finished
<1>5. Honest'
  BY <1>1 DEF PipelineInv, TypeOK, Honest, Stopping, SentFault, Places, Finished, Scanned, Errors
<1>6. Finished'
  BY <1>1, CountEmpty DEF PipelineInv, TypeOK, Honest, Finished, Stopping, SentWhole, Counted, InHand, Places, Scanned, Errors, EventFrames
<1>7. Places'
  BY <1>1 DEF PipelineInv, TypeOK, Places, Scanned, Finished
<1> QED BY <1>3, <1>4, <1>5, <1>6, <1>7 DEF PipelineInv

(* Next returns false: what it has scanned is the end, well or not. *)
LEMMA TakeEndKeeps == PipelineInv /\ TakeEnd => PipelineInv'
<1> SUFFICES ASSUME PipelineInv, TakeEnd
             PROVE  PipelineInv'
  OBVIOUS
<1> USE DEF TakeEnd, EndError, Stopped, serverVars, streamVars, consumerVars
<1>1. Len(body) \in Nat /\ Count(body) \in Nat
  BY CountType DEF PipelineInv, TypeOK
<1>2. stream' \in [done: BOOLEAN, closed: BOOLEAN, terminal: BOOLEAN, err: Errors, byUser: BOOLEAN]
  BY DEF PipelineInv, TypeOK, Errors
<1>3. Counted'
  BY <1>1 DEF PipelineInv, TypeOK, Counted, InHand, Places, Finished, Scanned, EventFrames
<1>4. TypeOK'
  BY <1>1, <1>2, <1>3 DEF PipelineInv, TypeOK, Counted, InHand, Frames, Scanned, Errors, EventFrames, Finished
<1>5. Honest'
  BY <1>1 DEF PipelineInv, TypeOK, Honest, Stopping, SentFault, Places, Finished, Scanned, Errors
<1>6. Finished'
  BY <1>1, CountEmpty DEF PipelineInv, TypeOK, Honest, Finished, Stopping, SentWhole, Counted, InHand, Places, Scanned, Errors, EventFrames
<1>7. Places'
  BY <1>1 DEF PipelineInv, TypeOK, Places, Scanned, Finished
<1> QED BY <1>3, <1>4, <1>5, <1>6, <1>7 DEF PipelineInv

(* The context starts the hook. *)
LEMMA HookStartsKeeps == PipelineInv /\ HookStarts => PipelineInv'
<1> SUFFICES ASSUME PipelineInv, HookStarts
             PROVE  PipelineInv'
  OBVIOUS
<1> USE DEF HookStarts, serverVars, streamVars, consumerVars
<1>1. Len(body) \in Nat /\ Count(body) \in Nat
  BY CountType DEF PipelineInv, TypeOK
<1>3. Counted'
  BY <1>1 DEF PipelineInv, TypeOK, Counted, InHand, Places, Finished, Scanned, EventFrames
<1>4. TypeOK'
  BY <1>1, <1>3 DEF PipelineInv, TypeOK, Counted, InHand, Frames, Scanned, Errors, EventFrames, Finished
<1>5. Honest'
  BY <1>1 DEF PipelineInv, TypeOK, Honest, Stopping, SentFault, Places, Finished, Scanned, Errors
<1>6. Finished'
  BY <1>1, CountEmpty DEF PipelineInv, TypeOK, Honest, Finished, Stopping, SentWhole, Counted, InHand, Places, Scanned, Errors, EventFrames
<1>7. Places'
  BY <1>1 DEF PipelineInv, TypeOK, Places, Scanned, Finished
<1> QED BY <1>3, <1>4, <1>5, <1>6, <1>7 DEF PipelineInv

(* The hook records the cancellation and closes the stream. *)
LEMMA HookRunsKeeps == PipelineInv /\ HookRuns => PipelineInv'
<1> SUFFICES ASSUME PipelineInv, HookRuns
             PROVE  PipelineInv'
  OBVIOUS
<1> USE DEF HookRuns, Cancelling, Closed, serverVars, streamVars, consumerVars
<1>1. Len(body) \in Nat /\ Count(body) \in Nat
  BY CountType DEF PipelineInv, TypeOK
<1>2. stream' \in [done: BOOLEAN, closed: BOOLEAN, terminal: BOOLEAN, err: Errors, byUser: BOOLEAN]
  BY DEF PipelineInv, TypeOK, Errors
<1>3. Counted'
  BY <1>1 DEF PipelineInv, TypeOK, Counted, InHand, Places, Finished, Scanned, EventFrames
<1>4. TypeOK'
  BY <1>1, <1>2, <1>3 DEF PipelineInv, TypeOK, Counted, InHand, Frames, Scanned, Errors, EventFrames, Finished
<1>5. Honest'
  BY <1>1 DEF PipelineInv, TypeOK, Honest, Stopping, SentFault, Places, Finished, Scanned, Errors
<1>6. Finished'
  BY <1>1, CountEmpty DEF PipelineInv, TypeOK, Honest, Finished, Stopping, SentWhole, Counted, InHand, Places, Scanned, Errors, EventFrames
<1>7. Places'
  BY <1>1 DEF PipelineInv, TypeOK, Places, Scanned, Finished
<1> QED BY <1>3, <1>4, <1>5, <1>6, <1>7 DEF PipelineInv

(* The caller cancels. *)
LEMMA CallerCancelsKeeps == PipelineInv /\ CallerCancels => PipelineInv'
<1> SUFFICES ASSUME PipelineInv, CallerCancels
             PROVE  PipelineInv'
  OBVIOUS
<1> USE DEF CallerCancels, serverVars, streamVars, consumerVars
<1>1. Len(body) \in Nat /\ Count(body) \in Nat
  BY CountType DEF PipelineInv, TypeOK
<1>3. Counted'
  BY <1>1 DEF PipelineInv, TypeOK, Counted, InHand, Places, Finished, Scanned, EventFrames
<1>4. TypeOK'
  BY <1>1, <1>3 DEF PipelineInv, TypeOK, Counted, InHand, Frames, Scanned, Errors, EventFrames, Finished
<1>5. Honest'
  BY <1>1 DEF PipelineInv, TypeOK, Honest, Stopping, SentFault, Places, Finished, Scanned, Errors
<1>6. Finished'
  BY <1>1, CountEmpty DEF PipelineInv, TypeOK, Honest, Finished, Stopping, SentWhole, Counted, InHand, Places, Scanned, Errors, EventFrames
<1>7. Places'
  BY <1>1 DEF PipelineInv, TypeOK, Places, Scanned, Finished
<1> QED BY <1>3, <1>4, <1>5, <1>6, <1>7 DEF PipelineInv

(* Another goroutine closes the stream. *)
LEMMA UserClosesKeeps == PipelineInv /\ UserCloses => PipelineInv'
<1> SUFFICES ASSUME PipelineInv, UserCloses
             PROVE  PipelineInv'
  OBVIOUS
<1> USE DEF UserCloses, Closed, Stopped, serverVars, streamVars, consumerVars
<1>1. Len(body) \in Nat /\ Count(body) \in Nat
  BY CountType DEF PipelineInv, TypeOK
<1>2. stream' \in [done: BOOLEAN, closed: BOOLEAN, terminal: BOOLEAN, err: Errors, byUser: BOOLEAN]
  BY DEF PipelineInv, TypeOK, Errors
<1>3. Counted'
  BY <1>1 DEF PipelineInv, TypeOK, Counted, InHand, Places, Finished, Scanned, EventFrames
<1>4. TypeOK'
  BY <1>1, <1>2, <1>3 DEF PipelineInv, TypeOK, Counted, InHand, Frames, Scanned, Errors, EventFrames, Finished
<1>5. Honest'
  BY <1>1 DEF PipelineInv, TypeOK, Honest, Stopping, SentFault, Places, Finished, Scanned, Errors
<1>6. Finished'
  BY <1>1, CountEmpty DEF PipelineInv, TypeOK, Honest, Finished, Stopping, SentWhole, Counted, InHand, Places, Scanned, Errors, EventFrames
<1>7. Places'
  BY <1>1 DEF PipelineInv, TypeOK, Places, Scanned, Finished
<1> QED BY <1>3, <1>4, <1>5, <1>6, <1>7 DEF PipelineInv

(* The consumer takes an event. *)
LEMMA DirectEventKeeps == PipelineInv /\ DirectEvent => PipelineInv'
<1> SUFFICES ASSUME PipelineInv, DirectEvent
             PROVE  PipelineInv'
  OBVIOUS
<1> USE DEF DirectEvent, serverVars, streamVars, consumerVars
<1>1. Len(body) \in Nat /\ Count(body) \in Nat
  BY CountType DEF PipelineInv, TypeOK
<1>3. Counted'
  BY <1>1 DEF PipelineInv, TypeOK, Counted, InHand, Places, Finished, Scanned, EventFrames
<1>4. TypeOK'
  BY <1>1, <1>3 DEF PipelineInv, TypeOK, Counted, InHand, Frames, Scanned, Errors, EventFrames, Finished
<1>5. Honest'
  BY <1>1 DEF PipelineInv, TypeOK, Honest, Stopping, SentFault, Places, Finished, Scanned, Errors
<1>6. Finished'
  BY <1>1, CountEmpty DEF PipelineInv, TypeOK, Honest, Finished, Stopping, SentWhole, Counted, InHand, Places, Scanned, Errors, EventFrames
<1>7. Places'
  BY <1>1 DEF PipelineInv, TypeOK, Places, Scanned, Finished
<1> QED BY <1>3, <1>4, <1>5, <1>6, <1>7 DEF PipelineInv

(* The consumer breaks out of its loop. *)
LEMMA DirectBreakKeeps == PipelineInv /\ DirectBreak => PipelineInv'
<1> SUFFICES ASSUME PipelineInv, DirectBreak
             PROVE  PipelineInv'
  OBVIOUS
<1> USE DEF DirectBreak, CloseAndReturn, Closed, Stopped, serverVars, streamVars, consumerVars
<1>1. Len(body) \in Nat /\ Count(body) \in Nat
  BY CountType DEF PipelineInv, TypeOK
<1>2. stream' \in [done: BOOLEAN, closed: BOOLEAN, terminal: BOOLEAN, err: Errors, byUser: BOOLEAN]
  BY DEF PipelineInv, TypeOK, Errors
<1>3. Counted'
  BY <1>1 DEF PipelineInv, TypeOK, Counted, InHand, Places, Finished, Scanned, EventFrames
<1>4. TypeOK'
  BY <1>1, <1>2, <1>3 DEF PipelineInv, TypeOK, Counted, InHand, Frames, Scanned, Errors, EventFrames, Finished
<1>5. Honest'
  BY <1>1 DEF PipelineInv, TypeOK, Honest, Stopping, SentFault, Places, Finished, Scanned, Errors
<1>6. Finished'
  BY <1>1, CountEmpty DEF PipelineInv, TypeOK, Honest, Finished, Stopping, SentWhole, Counted, InHand, Places, Scanned, Errors, EventFrames
<1>7. Places'
  BY <1>1 DEF PipelineInv, TypeOK, Places, Scanned, Finished
<1> QED BY <1>3, <1>4, <1>5, <1>6, <1>7 DEF PipelineInv

(* The consumer asks for the error. *)
LEMMA DirectEndKeeps == PipelineInv /\ DirectEnd => PipelineInv'
<1> SUFFICES ASSUME PipelineInv, DirectEnd
             PROVE  PipelineInv'
  OBVIOUS
<1> USE DEF DirectEnd, CloseAndReturn, Closed, Stopped, serverVars, streamVars, consumerVars
<1>1. Len(body) \in Nat /\ Count(body) \in Nat
  BY CountType DEF PipelineInv, TypeOK
<1>2. stream' \in [done: BOOLEAN, closed: BOOLEAN, terminal: BOOLEAN, err: Errors, byUser: BOOLEAN]
  BY DEF PipelineInv, TypeOK, Errors
<1>3. Counted'
  BY <1>1 DEF PipelineInv, TypeOK, Counted, InHand, Places, Finished, Scanned, EventFrames
<1>4. TypeOK'
  BY <1>1, <1>2, <1>3 DEF PipelineInv, TypeOK, Counted, InHand, Frames, Scanned, Errors, EventFrames, Finished
<1>5. Honest'
  BY <1>1 DEF PipelineInv, TypeOK, Honest, Stopping, SentFault, Places, Finished, Scanned, Errors
<1>6. Finished'
  BY <1>1, CountEmpty DEF PipelineInv, TypeOK, Honest, Finished, Stopping, SentWhole, Counted, InHand, Places, Scanned, Errors, EventFrames
<1>7. Places'
  BY <1>1 DEF PipelineInv, TypeOK, Places, Scanned, Finished
<1> QED BY <1>3, <1>4, <1>5, <1>6, <1>7 DEF PipelineInv

(* Send hands an event over. *)
LEMMA DeliverKeeps == PipelineInv /\ Deliver => PipelineInv'
<1> SUFFICES ASSUME PipelineInv, Deliver
             PROVE  PipelineInv'
  OBVIOUS
<1> USE DEF Deliver, serverVars, streamVars, consumerVars
<1>1. Len(body) \in Nat /\ Count(body) \in Nat
  BY CountType DEF PipelineInv, TypeOK
<1>3. Counted'
  BY <1>1 DEF PipelineInv, TypeOK, Counted, InHand, Places, Finished, Scanned, EventFrames
<1>4. TypeOK'
  BY <1>1, <1>3 DEF PipelineInv, TypeOK, Counted, InHand, Frames, Scanned, Errors, EventFrames, Finished
<1>5. Honest'
  BY <1>1 DEF PipelineInv, TypeOK, Honest, Stopping, SentFault, Places, Finished, Scanned, Errors
<1>6. Finished'
  BY <1>1, CountEmpty DEF PipelineInv, TypeOK, Honest, Finished, Stopping, SentWhole, Counted, InHand, Places, Scanned, Errors, EventFrames
<1>7. Places'
  BY <1>1 DEF PipelineInv, TypeOK, Places, Scanned, Finished
<1> QED BY <1>3, <1>4, <1>5, <1>6, <1>7 DEF PipelineInv

(* Send fails: its event is the one that is lost. *)
LEMMA SendFailsKeeps == PipelineInv /\ SendFails => PipelineInv'
<1> SUFFICES ASSUME PipelineInv, SendFails
             PROVE  PipelineInv'
  OBVIOUS
<1> USE DEF SendFails, Released, CloseAndReturn, Closed, Stopped, serverVars, streamVars, consumerVars
<1>1. Len(body) \in Nat /\ Count(body) \in Nat
  BY CountType DEF PipelineInv, TypeOK
<1>2. stream' \in [done: BOOLEAN, closed: BOOLEAN, terminal: BOOLEAN, err: Errors, byUser: BOOLEAN]
  BY DEF PipelineInv, TypeOK, Errors
<1>0. faulty' \in BOOLEAN /\ hook' \in {"armed", "stopped", "started", "ran"} /\ hook' # "armed"
  BY DEF PipelineInv, TypeOK, Finished
<1>3. Counted'
  BY <1>1 DEF PipelineInv, TypeOK, Counted, InHand, Places, Finished, Scanned, EventFrames
<1>4. TypeOK'
  BY <1>0, <1>2, <1>3 DEF PipelineInv, TypeOK, Counted, InHand, Frames, Scanned, Errors, EventFrames, Finished
<1>5. Honest'
  BY <1>1 DEF PipelineInv, TypeOK, Honest, Stopping, SentFault, Places, Finished, Scanned, Errors
<1>6. Finished'
  BY <1>1, CountEmpty DEF PipelineInv, TypeOK, Honest, Finished, Stopping, SentWhole, Counted, InHand, Places, Scanned, Errors, EventFrames
<1>7. Places'
  BY <1>1 DEF PipelineInv, TypeOK, Places, Scanned, Finished
<1> QED BY <1>3, <1>4, <1>5, <1>6, <1>7 DEF PipelineInv

(* The adapter returns the stream's error. *)
LEMMA PumpReturnsKeeps == PipelineInv /\ PumpReturns => PipelineInv'
<1> SUFFICES ASSUME PipelineInv, PumpReturns
             PROVE  PipelineInv'
  OBVIOUS
<1> USE DEF PumpReturns, CloseAndReturn, Closed, Stopped, serverVars, streamVars, consumerVars
<1>1. Len(body) \in Nat /\ Count(body) \in Nat
  BY CountType DEF PipelineInv, TypeOK
<1>2. stream' \in [done: BOOLEAN, closed: BOOLEAN, terminal: BOOLEAN, err: Errors, byUser: BOOLEAN]
  BY DEF PipelineInv, TypeOK, Errors
<1>3. Counted'
  BY <1>1 DEF PipelineInv, TypeOK, Counted, InHand, Places, Finished, Scanned, EventFrames
<1>4. TypeOK'
  BY <1>1, <1>2, <1>3 DEF PipelineInv, TypeOK, Counted, InHand, Frames, Scanned, Errors, EventFrames, Finished
<1>5. Honest'
  BY <1>1 DEF PipelineInv, TypeOK, Honest, Stopping, SentFault, Places, Finished, Scanned, Errors
<1>6. Finished'
  BY <1>1, CountEmpty DEF PipelineInv, TypeOK, Honest, Finished, Stopping, SentWhole, Counted, InHand, Places, Scanned, Errors, EventFrames
<1>7. Places'
  BY <1>1 DEF PipelineInv, TypeOK, Places, Scanned, Finished
<1> QED BY <1>3, <1>4, <1>5, <1>6, <1>7 DEF PipelineInv

(* The loop body is done. *)
LEMMA LoopGoesOnKeeps == PipelineInv /\ LoopGoesOn => PipelineInv'
<1> SUFFICES ASSUME PipelineInv, LoopGoesOn
             PROVE  PipelineInv'
  OBVIOUS
<1> USE DEF LoopGoesOn, serverVars, streamVars, consumerVars
<1>1. Len(body) \in Nat /\ Count(body) \in Nat
  BY CountType DEF PipelineInv, TypeOK
<1>3. Counted'
  BY <1>1 DEF PipelineInv, TypeOK, Counted, InHand, Places, Finished, Scanned, EventFrames
<1>4. TypeOK'
  BY <1>1, <1>3 DEF PipelineInv, TypeOK, Counted, InHand, Frames, Scanned, Errors, EventFrames, Finished
<1>5. Honest'
  BY <1>1 DEF PipelineInv, TypeOK, Honest, Stopping, SentFault, Places, Finished, Scanned, Errors
<1>6. Finished'
  BY <1>1, CountEmpty DEF PipelineInv, TypeOK, Honest, Finished, Stopping, SentWhole, Counted, InHand, Places, Scanned, Errors, EventFrames
<1>7. Places'
  BY <1>1 DEF PipelineInv, TypeOK, Places, Scanned, Finished
<1> QED BY <1>3, <1>4, <1>5, <1>6, <1>7 DEF PipelineInv

(* The consumer of Events breaks out of its loop. *)
LEMMA LoopBreaksKeeps == PipelineInv /\ LoopBreaks => PipelineInv'
<1> SUFFICES ASSUME PipelineInv, LoopBreaks
             PROVE  PipelineInv'
  OBVIOUS
<1> USE DEF LoopBreaks, CancelsFirst, serverVars, streamVars, consumerVars
<1>1. Len(body) \in Nat /\ Count(body) \in Nat
  BY CountType DEF PipelineInv, TypeOK
<1>3. Counted'
  BY <1>1 DEF PipelineInv, TypeOK, Counted, InHand, Places, Finished, Scanned, EventFrames
<1>4. TypeOK'
  BY <1>1, <1>3 DEF PipelineInv, TypeOK, Counted, InHand, Frames, Scanned, Errors, EventFrames, Finished
<1>5. Honest'
  BY <1>1 DEF PipelineInv, TypeOK, Honest, Stopping, SentFault, Places, Finished, Scanned, Errors
<1>6. Finished'
  BY <1>1, CountEmpty DEF PipelineInv, TypeOK, Honest, Finished, Stopping, SentWhole, Counted, InHand, Places, Scanned, Errors, EventFrames
<1>7. Places'
  BY <1>1 DEF PipelineInv, TypeOK, Places, Scanned, Finished
<1> QED BY <1>3, <1>4, <1>5, <1>6, <1>7 DEF PipelineInv

(* The adapter has returned after the break. *)
LEMMA LoopDrainedKeeps == PipelineInv /\ LoopDrained => PipelineInv'
<1> SUFFICES ASSUME PipelineInv, LoopDrained
             PROVE  PipelineInv'
  OBVIOUS
<1> USE DEF LoopDrained, serverVars, streamVars, consumerVars
<1>1. Len(body) \in Nat /\ Count(body) \in Nat
  BY CountType DEF PipelineInv, TypeOK
<1>3. Counted'
  BY <1>1 DEF PipelineInv, TypeOK, Counted, InHand, Places, Finished, Scanned, EventFrames
<1>4. TypeOK'
  BY <1>1, <1>3 DEF PipelineInv, TypeOK, Counted, InHand, Frames, Scanned, Errors, EventFrames, Finished
<1>5. Honest'
  BY <1>1 DEF PipelineInv, TypeOK, Honest, Stopping, SentFault, Places, Finished, Scanned, Errors
<1>6. Finished'
  BY <1>1, CountEmpty DEF PipelineInv, TypeOK, Honest, Finished, Stopping, SentWhole, Counted, InHand, Places, Scanned, Errors, EventFrames
<1>7. Places'
  BY <1>1 DEF PipelineInv, TypeOK, Places, Scanned, Finished
<1> QED BY <1>3, <1>4, <1>5, <1>6, <1>7 DEF PipelineInv

(* The adapter has returned: its error is the verdict. *)
LEMMA LoopEndsKeeps == PipelineInv /\ LoopEnds => PipelineInv'
<1> SUFFICES ASSUME PipelineInv, LoopEnds
             PROVE  PipelineInv'
  OBVIOUS
<1> USE DEF LoopEnds, serverVars, streamVars, consumerVars
<1>1. Len(body) \in Nat /\ Count(body) \in Nat
  BY CountType DEF PipelineInv, TypeOK
<1>3. Counted'
  BY <1>1 DEF PipelineInv, TypeOK, Counted, InHand, Places, Finished, Scanned, EventFrames
<1>4. TypeOK'
  BY <1>1, <1>3 DEF PipelineInv, TypeOK, Counted, InHand, Frames, Scanned, Errors, EventFrames, Finished
<1>5. Honest'
  BY <1>1 DEF PipelineInv, TypeOK, Honest, Stopping, SentFault, Places, Finished, Scanned, Errors
<1>6. Finished'
  BY <1>1, CountEmpty DEF PipelineInv, TypeOK, Honest, Finished, Stopping, SentWhole, Counted, InHand, Places, Scanned, Errors, EventFrames
<1>7. Places'
  BY <1>1 DEF PipelineInv, TypeOK, Places, Scanned, Finished
<1> QED BY <1>3, <1>4, <1>5, <1>6, <1>7 DEF PipelineInv

LEMMA InitPipeline == Init => PipelineInv
<1> SUFFICES ASSUME Init
             PROVE  PipelineInv
  OBVIOUS
<1> USE DEF Init, NewStream
<1>1. Count(body) = 0 /\ body \in Seq(Frames) /\ Len(body) = 0
  BY CountEmpty
<1>2. TypeOK
  <2>1. stream \in [done: BOOLEAN, closed: BOOLEAN, terminal: BOOLEAN, err: Errors, byUser: BOOLEAN]
    BY DEF Errors
  <2>2. sent \in 0..MaxFrames /\ delivered \in 0..sent /\ got \in Scanned
    BY BoundAssumption DEF Scanned
  <2> QED BY <1>1, <2>1, <2>2 DEF TypeOK
<1>3. Counted /\ Honest /\ Finished /\ Places
  BY <1>1 DEF Counted, InHand, EventFrames, Honest, Finished, Places, Stopping, SentFault
<1> QED BY <1>2, <1>3 DEF PipelineInv

(* No step at all, and the end of everything, change nothing. *)
LEMMA StutterKeeps == PipelineInv /\ UNCHANGED vars => PipelineInv'
BY DEF vars, serverVars, streamVars, consumerVars, PipelineInv, TypeOK, Counted, InHand, Honest,
       Finished, Places, Stopping, SentWhole, SentFault

LEMMA PipelineInvariance == PipelineInv /\ [Next]_vars => PipelineInv'
<1> SUFFICES ASSUME PipelineInv, [Next]_vars
             PROVE  PipelineInv'
  OBVIOUS
<1>1. CASE Server
  BY <1>1, SendFrameKeeps, EndStreamKeeps DEF Server
<1>2. CASE Reader \/ Hook
  BY <1>2, NextStartsKeeps, ScanKeeps, TakeEventKeeps, TakeEndKeeps, HookStartsKeeps, HookRunsKeeps DEF Reader, Hook
<1>3. CASE Ranging \/ Pump
  BY <1>3, DirectEventKeeps, DirectBreakKeeps, DirectEndKeeps, DeliverKeeps, SendFailsKeeps, PumpReturnsKeeps
  DEF Ranging, Pump
<1>4. CASE Loop
  BY <1>4, LoopGoesOnKeeps, LoopBreaksKeeps, LoopDrainedKeeps, LoopEndsKeeps DEF Loop
<1>5. CASE CallerCancels \/ UserCloses
  BY <1>5, CallerCancelsKeeps, UserClosesKeeps
<1>6. CASE Over \/ UNCHANGED vars
  BY <1>6, StutterKeeps DEF Over
<1> QED BY <1>1, <1>2, <1>3, <1>4, <1>5, <1>6 DEF Next

(* The state of a reader has its type. *)
THEOREM TypeCorrect == Spec => []TypeOK
<1>1. Spec => []PipelineInv
  BY InitPipeline, PipelineInvariance, PTL DEF Spec
<1>2. PipelineInv => TypeOK
  BY DEF PipelineInv
<1> QED BY <1>1, <1>2, PTL
-----------------------------------------------------------------------------
(* What is whole stays whole, and what went wrong stays so. *)
LEMMA WorldGoesOn ==
  ASSUME PipelineInv, PipelineInv', [Next]_vars
  PROVE  /\ SentWhole => SentWhole' /\ sent' = sent
         /\ SentFault => SentFault'
<1>1. Len(body) \in Nat /\ body \in Seq(Frames) /\ sent \in Nat
  BY BoundAssumption DEF PipelineInv, TypeOK
<1>2. CASE Server
  <2>1. ending = "open" /\ stream' = stream /\ cancelled' = cancelled
    BY <1>2 DEF Server, SendFrame, EndStream, streamVars
  <2>2. faulty => faulty'
    <3>1. CASE \E f \in Frames \ {"[DONE]"} : SendFrame(f)
      BY <3>1 DEF SendFrame
    <3>2. CASE \E h \in {"done", "eof", "broken"} : EndStream(h)
      BY <3>2 DEF EndStream
    <3> QED BY <1>2, <3>1, <3>2 DEF Server
  <2> QED BY <2>1, <2>2 DEF SentWhole, SentFault
<1>3. CASE Scan
  <2>1. SentFault => SentFault'
    BY <1>3 DEF Scan, SentFault
  <2>2. sent' = sent /\ ending' = ending /\ stream' = stream
    BY <1>3 DEF Scan
  <2>3. ASSUME ending = "eof", NEW k \in 1..Len(body), body[k] = "terminal"
        PROVE  SentWhole'
    <3>1. CASE body' = body
      BY <2>2, <2>3, <3>1 DEF SentWhole
    <3>2. CASE body # <<>> /\ got' = Head(body) /\ body' = Tail(body)
      <4>1. /\ Len(body') = Len(body) - 1 /\ \A i \in 1..Len(body') : body'[i] = body[i + 1]
            /\ Head(body) = body[1]
        BY <1>1, <3>2, HeadTailProperties, EmptySeq
      <4>2. CASE k = 1
        BY <2>2, <2>3, <3>2, <4>1, <4>2 DEF SentWhole
      <4>3. CASE k # 1
        <5>1. k - 1 \in 1..Len(body') /\ body'[k - 1] = "terminal"
          BY <1>1, <2>3, <4>1, <4>3
        <5> QED BY <2>2, <2>3, <5>1 DEF SentWhole
      <4> QED BY <4>2, <4>3
    <3> QED BY <1>3, <3>1, <3>2 DEF Scan
  <2>4. SentWhole => SentWhole'
    <3>1. got # "terminal"
      BY <1>3 DEF Scan, PipelineInv, Places
    <3> QED BY <2>2, <2>3, <3>1 DEF SentWhole
  <2> QED BY <2>1, <2>2, <2>4
<1>4. CASE NextStarts \/ TakeEvent \/ TakeEnd \/ Hook \/ CallerCancels \/ UserCloses
  <2>1. UNCHANGED serverVars /\ UNCHANGED faulty /\ (cancelled => cancelled')
    BY <1>4 DEF NextStarts, TakeEvent, TakeEnd, Hook, HookStarts, HookRuns, CallerCancels, UserCloses
  <2>2. (stream.terminal \/ got = "terminal") => (stream'.terminal \/ got' = "terminal")
    <3>1. CASE NextStarts \/ CallerCancels \/ HookStarts
      BY <3>1 DEF NextStarts, CallerCancels, HookStarts, streamVars
    <3>2. CASE TakeEvent
      BY <3>2 DEF TakeEvent, PipelineInv, TypeOK
    <3>3. CASE TakeEnd
      BY <3>3 DEF TakeEnd, PipelineInv, TypeOK
    <3>4. CASE HookRuns \/ UserCloses
      BY <3>4 DEF HookRuns, UserCloses, Cancelling, Closed, PipelineInv, TypeOK
    <3> QED BY <1>4, <3>1, <3>2, <3>3, <3>4 DEF Hook
  <2>3. stream.byUser => stream'.byUser
    <3>1. CASE NextStarts \/ CallerCancels \/ HookStarts
      BY <3>1 DEF NextStarts, CallerCancels, HookStarts, streamVars
    <3>2. CASE TakeEvent \/ TakeEnd
      BY <3>2 DEF TakeEvent, TakeEnd, PipelineInv, TypeOK
    <3>3. CASE HookRuns \/ UserCloses
      BY <3>3 DEF HookRuns, UserCloses, Cancelling, Closed, PipelineInv, TypeOK
    <3> QED BY <1>4, <3>1, <3>2, <3>3 DEF Hook
  <2> QED BY <2>1, <2>2, <2>3 DEF serverVars, SentWhole, SentFault
<1>5. CASE Ranging \/ Pump
  BY <1>5 DEF Ranging, DirectEvent, DirectBreak, DirectEnd, Pump, Deliver, SendFails, PumpReturns, CloseAndReturn, Closed,
     SentWhole, SentFault, serverVars, streamVars, consumerVars, PipelineInv, TypeOK
<1>6. CASE Loop
  BY <1>6 DEF Loop, LoopGoesOn, LoopBreaks, LoopDrained, LoopEnds, CancelsFirst,
     SentWhole, SentFault, serverVars, streamVars, consumerVars, PipelineInv, TypeOK
<1>7. CASE Over \/ UNCHANGED vars
  BY <1>7 DEF Over, vars, SentWhole, SentFault, serverVars, streamVars, consumerVars
<1> QED BY <1>2, <1>3, <1>4, <1>5, <1>6, <1>7 DEF Next, Reader

(* Every step is one of the sequence's, or none of its business. *)
LEMMA StepImplemented ==
  ASSUME PipelineInv, PipelineInv', [Next]_vars
  PROVE  [Sequence!Next]_(Sequence!vars)
<1>1. /\ SentWhole => SentWhole' /\ sent' = sent
      /\ SentFault => SentFault'
  BY WorldGoesOn
<1>2. CASE UNCHANGED <<delivered, verdict>> /\ sent' \in {sent, sent + 1}
  BY <1>1, <1>2 DEF Sequence!Next, Sequence!World
<1>3. CASE Server \/ Reader \/ Hook \/ CallerCancels \/ UserCloses \/ LoopGoesOn \/ LoopBreaks \/ SendFails \/ PumpReturns
  BY <1>2, <1>3 DEF Server, SendFrame, EndStream, Reader, NextStarts, Scan, TakeEvent, TakeEnd, Hook, HookStarts, HookRuns,
     CallerCancels, UserCloses, LoopGoesOn, LoopBreaks, SendFails, PumpReturns, serverVars, streamVars, consumerVars
<1>4. CASE Over \/ UNCHANGED vars
  BY <1>2, <1>4 DEF Over, vars, serverVars, consumerVars
<1>5. CASE DirectEvent \/ Deliver
  <2>1. verdict = "none" /\ delivered' = delivered + 1 /\ verdict' = verdict /\ sent' = sent
    BY <1>5 DEF DirectEvent, Deliver, serverVars, PipelineInv, Places
  <2>2. delivered < sent /\ SentWhole' = SentWhole /\ SentFault' = SentFault
    BY <1>5, <2>1, BoundAssumption DEF DirectEvent, Deliver, serverVars, streamVars, SentWhole, SentFault, PipelineInv, TypeOK
  <2> QED BY <2>1, <2>2 DEF Sequence!Next, Sequence!Deliver
<1>6. CASE DirectBreak \/ LoopDrained
  <2>1. /\ verdict = "none" /\ verdict' = "left" /\ sent' = sent
        /\ delivered' \in {delivered, delivered + 1} /\ delivered' <= sent
    BY <1>6, BoundAssumption DEF DirectBreak, LoopDrained, CloseAndReturn, serverVars, PipelineInv, TypeOK, Places
  <2>2. SentWhole' = SentWhole
    BY <1>6 DEF DirectBreak, LoopDrained, CloseAndReturn, Closed, serverVars, streamVars, SentWhole, PipelineInv, TypeOK
  <2> QED BY <1>1, <2>1, <2>2 DEF Sequence!Next, Sequence!Leave, Sequence!Ending
<1>7. CASE DirectEnd
  <2>1. /\ verdict = "none" /\ UNCHANGED <<sent, delivered>>
        /\ verdict' = IF stream.err # "nil" THEN "error"
                      ELSE IF stream.byUser /\ ~stream.done THEN "left" ELSE "clean"
    BY <1>7 DEF DirectEnd, serverVars, PipelineInv, Places
  <2>2. SentWhole' = SentWhole
    BY <1>7 DEF DirectEnd, CloseAndReturn, Closed, serverVars, SentWhole, PipelineInv, TypeOK
  <2>3. CASE stream.err # "nil"
    BY <1>1, <2>1, <2>2, <2>3 DEF PipelineInv, Honest, Sequence!Next, Sequence!Fail, Sequence!Ending
  <2>4. CASE stream.err = "nil" /\ stream.byUser /\ ~stream.done
    <3>1. delivered' <= sent
      BY <2>1, BoundAssumption DEF PipelineInv, TypeOK
    <3> QED BY <1>1, <2>1, <2>2, <2>4, <3>1 DEF Sequence!Next, Sequence!Leave, Sequence!Ending
  <2>5. CASE stream.err = "nil" /\ ~(stream.byUser /\ ~stream.done)
    <3>1. SentWhole /\ body = <<>>
      BY <1>7, <2>5 DEF DirectEnd, PipelineInv, Finished
    <3>2. InHand = 0 /\ answer # "error"
      BY <1>7 DEF DirectEnd, PipelineInv, Places, InHand, EventFrames
    <3>3. delivered = sent
      BY <3>1, <3>2, CountEmpty, BoundAssumption DEF PipelineInv, TypeOK, Counted
    <3> QED BY <1>1, <2>1, <2>2, <2>5, <3>1, <3>3 DEF Sequence!Next, Sequence!Finish, Sequence!Ending
  <2> QED BY <2>3, <2>4, <2>5
<1>8. CASE LoopEnds
  <2>1. /\ verdict = "none" /\ UNCHANGED <<sent, delivered>> /\ SentWhole' = SentWhole
        /\ answer # "none" /\ verdict' = IF answer = "nil" THEN "clean" ELSE "error"
    BY <1>8 DEF LoopEnds, serverVars, streamVars, SentWhole, PipelineInv, Places
  <2>2. CASE answer = "nil"
    BY <1>1, <2>1, <2>2 DEF PipelineInv, Finished, Sequence!Next, Sequence!Finish, Sequence!Ending
  <2>3. CASE answer = "error"
    BY <1>1, <2>1, <2>3 DEF PipelineInv, Honest, Sequence!Next, Sequence!Fail, Sequence!Ending
  <2> QED BY <2>1, <2>2, <2>3 DEF PipelineInv, TypeOK
<1> QED BY <1>3, <1>4, <1>5, <1>6, <1>7, <1>8 DEF Next, Ranging, Pump, Loop

(***************************************************************************)
(* A consumer of a remote stream gets the server's events, in order and    *)
(* without a gap, and a verdict it can trust, in both ways of reading and  *)
(* for a stream of any length: EventStream and Events implement            *)
(* EventSequence.                                                          *)
(***************************************************************************)
THEOREM SequenceImplemented == Spec => ImplementsSequence
<1>1. Init => Sequence!Init
  BY DEF Init, NewStream, Sequence!Init, SentWhole, SentFault
<1>2. PipelineInv /\ PipelineInv' /\ [Next]_vars => [Sequence!Next]_(Sequence!vars)
  BY StepImplemented
<1> QED BY <1>1, <1>2, InitPipeline, PipelineInvariance, PTL DEF Spec, ImplementsSequence, Sequence!Spec

(***************************************************************************)
(* Once the stream has an error, or its end was read, no cancellation and  *)
(* no Close changes what Err returns.                                      *)
(***************************************************************************)
THEOREM ErrorIsFinal == Spec => ErrIsFinal
<1>1. PipelineInv /\ [Next]_vars => [stream.err # "nil" \/ stream.done => stream'.err = stream.err]_vars
  <2> SUFFICES ASSUME PipelineInv, Next, stream.err # "nil" \/ stream.done
               PROVE  stream'.err = stream.err
    OBVIOUS
  <2> USE DEF serverVars, streamVars, consumerVars
  <2>1. CASE Server \/ Loop \/ CallerCancels \/ Over
    BY <2>1 DEF Server, SendFrame, EndStream, Loop, LoopGoesOn, LoopBreaks, LoopDrained, LoopEnds, CallerCancels, Over, vars
  <2>2. CASE Reader
    BY <2>2 DEF Reader, NextStarts, Scan, TakeEvent, TakeEnd, PipelineInv, TypeOK, Places
  <2>3. CASE Hook \/ UserCloses
    BY <2>3 DEF Hook, HookStarts, HookRuns, Cancelling, UserCloses, Closed, PipelineInv, TypeOK, Honest
  <2>4. CASE Ranging \/ Pump
    BY <2>4 DEF Ranging, DirectEvent, DirectBreak, DirectEnd, Pump, Deliver, SendFails, PumpReturns, CloseAndReturn, Closed,
       PipelineInv, TypeOK
  <2> QED BY <2>1, <2>2, <2>3, <2>4 DEF Next
<1> QED BY <1>1, InitPipeline, PipelineInvariance, PTL DEF Spec, ErrIsFinal
=============================================================================
