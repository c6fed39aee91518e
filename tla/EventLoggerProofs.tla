------------------------- MODULE EventLoggerProofs -------------------------
(***************************************************************************)
(* Proofs about EventLogger, for every set of sessions, queue and batch    *)
(* size and number of calls.  The inductive invariant adds to the          *)
(* properties where the sentinel can be: stop() puts it once, after it     *)
(* noted atStop, and a writer that is draining has already put it behind.  *)
(***************************************************************************)
EXTENDS EventLogger, SequenceTheorems, FiniteSetTheorems, TLAPS

Things == Items \cup {Sentinel}

(* A step of the logger, whoever calls emit and whenever: what the steps of  *)
(* LoggerNext and those of the whole sensor have in common.                  *)
Emits == \E kind \in Kinds, sid \in Sids : Emit(kind, sid)

LoggerStep == Emits \/ Start \/ Stop \/ Writer

LEMMA NextIsStep == [LoggerNext]_loggerVars => [LoggerStep]_loggerVars
BY DEF LoggerNext, LoggerStep, Producer, Session, Emits, Kinds

-----------------------------------------------------------------------------
(* Sequences *)

(* Appending to the last of two parts appends to the whole: what emit does   *)
(* to the queue.                                                             *)
LEMMA AppendRight ==
  \A d, q \in Seq(Things), x \in Things : Append(d \o q, x) = d \o Append(q, x)
<1> SUFFICES ASSUME NEW d \in Seq(Things), NEW q \in Seq(Things), NEW x \in Things
             PROVE  Append(d \o q, x) = d \o Append(q, x)
  OBVIOUS
<1>1. Append(q, x) = q \o <<x>> /\ Append(d \o q, x) = (d \o q) \o <<x>>
  BY AppendIsConcat, ConcatProperties
<1>2. <<x>> \in Seq(Things)
  OBVIOUS
<1> QED
  BY <1>1, <1>2, ConcatAssociative

(* The order in which parts are put together does not matter. *)
LEMMA Regroup == \A a, b, c \in Seq(Things) : (a \o b) \o c = a \o (b \o c)
BY ConcatAssociative

(* Moving the head of the last part to the end of the part before it leaves  *)
(* the whole as it was: what get does to the batch and the queue.            *)
LEMMA MoveHead ==
  ASSUME NEW S, NEW b \in Seq(S), NEW q \in Seq(S), q # <<>>
  PROVE  Append(b, Head(q)) \o Tail(q) = b \o q
<1>1. Head(q) \in S /\ Tail(q) \in Seq(S) /\ <<Head(q)>> \in Seq(S)
  BY HeadTailProperties
<1>2. q = <<Head(q)>> \o Tail(q)
  <2>1. <<Head(q)>> \o Tail(q) \in Seq(S)
    BY <1>1, ConcatProperties
  <2>2. Len(<<Head(q)>> \o Tail(q)) = Len(q)
    BY <1>1, ConcatProperties, HeadTailProperties
  <2>3. \A i \in 1 .. Len(q) : q[i] = (<<Head(q)>> \o Tail(q))[i]
    BY <1>1, ConcatProperties, HeadTailProperties
  <2> QED
    BY <2>1, <2>2, <2>3, SeqEqual
<1>3. Append(b, Head(q)) = b \o <<Head(q)>>
  BY <1>1, AppendIsConcat
<1> QED
  BY <1>1, <1>2, <1>3, ConcatAssociative

-----------------------------------------------------------------------------
(* Types *)

(* The number of events of a batch is a number, and so are their ids. *)
LEMMA EventsType ==
  ASSUME NEW b \in Seq(Items)
  PROVE  Cardinality(EventsIn(b)) \in Nat /\ EventIds(b) \in SUBSET Nat
<1>1. DOMAIN b = 1 .. Len(b) /\ Len(b) \in Nat
  BY LenProperties
<1>2. IsFiniteSet(DOMAIN b)
  BY <1>1, FS_Interval
<1>3. IsFiniteSet(EventsIn(b))
  BY <1>2, FS_Subset DEF EventsIn
<1>4. \A i \in EventsIn(b) : b[i] \in Items
  BY <1>1, ElementOfSeq DEF EventsIn
<1>5. \A i \in EventsIn(b) : b[i].id \in Nat
  BY <1>4 DEF Items
<1> QED
  BY <1>3, <1>5, FS_CardinalityType DEF EventIds

(* A batch is also a sequence of things that may be in the queue. *)
LEMMA ItemsAreThings ==
  ASSUME NEW b \in Seq(Items)
  PROVE  b \in Seq(Things)
BY SeqMonotonic DEF Things

(* What the writer has in its hand is a sequence of things. *)
LEMMA InHandType == InHand \in Seq(Things)
<1>1. Sentinel \in Things
  BY DEF Things
<1>2. <<Sentinel>> \in Seq(Things) /\ <<>> \in Seq(Things)
  BY <1>1
<1> QED
  BY <1>2 DEF InHand

(* Taking the head of the queue, and putting an item that is not the         *)
(* sentinel into a batch, keep both sequences of their kind.                 *)
LEMMA TakeType ==
  ASSUME LoggerTypeOK, queue # <<>>
  PROVE  /\ Tail(queue) \in Seq(Things)
         /\ Len(Tail(queue)) <= QueueMax
         /\ Head(queue) \in Things
         /\ Head(queue) # Sentinel => Append(batch, Head(queue)) \in Seq(Items)
<1>1. queue \in Seq(Things) /\ batch \in Seq(Items) /\ Len(queue) <= QueueMax
  BY DEF LoggerTypeOK, Things
<1>2. Head(queue) \in Things /\ Tail(queue) \in Seq(Things)
      /\ Len(Tail(queue)) = Len(queue) - 1
  BY <1>1, HeadTailProperties
<1>3. Len(queue) \in Nat /\ QueueMax \in Nat
  BY <1>1, LenProperties, LoggerAssumption
<1>4. Head(queue) # Sentinel => Head(queue) \in Items
  BY <1>2 DEF Things
<1> QED
  BY <1>1, <1>2, <1>3, <1>4, AppendProperties

(* put_nowait on a queue that is not full. *)
LEMMA PutType ==
  ASSUME LoggerTypeOK, NEW x \in Things, ~Full, Put(x)
  PROVE  /\ queue' \in Seq(Things) /\ Len(queue') <= QueueMax
         /\ accepted' \in Seq(Things)
<1>1. queue \in Seq(Things) /\ accepted \in Seq(Things)
  BY DEF LoggerTypeOK, Things
<1>2. Len(queue) \in Nat /\ QueueMax \in Nat /\ Len(queue) < QueueMax
  BY <1>1, LenProperties, LoggerAssumption DEF Full
<1> QED
  BY <1>1, <1>2, AppendProperties DEF Put

(* emit and emit_session. *)
LEMMA EmitType ==
  ASSUME LoggerTypeOK, NEW kind \in Kinds, NEW sid \in Sids, Emit(kind, sid)
  PROVE  LoggerTypeOK'
<1>1. offered' \in Nat
  BY DEF LoggerTypeOK, Emit
<1>2. [id |-> offered', kind |-> kind, sid |-> sid] \in Things
  BY <1>1 DEF Items, Things
<1>3. /\ queue' \in Seq(Things) /\ Len(queue') <= QueueMax
      /\ accepted' \in Seq(Things) /\ dropped' \in Nat
  <2>1. CASE Full
    BY <2>1 DEF LoggerTypeOK, Emit, Things
  <2>2. CASE ~Full
    BY <1>2, <2>2, PutType DEF LoggerTypeOK, Emit
  <2> QED
    BY <2>1, <2>2
<1>4. stage' \in [Sids -> {"new", "open", "closed"}]
  BY DEF LoggerTypeOK, Emit
<1> QED
  BY <1>1, <1>3, <1>4 DEF LoggerTypeOK, Emit, Things, tables

(* The return of _flush. *)
LEMMA FlushType ==
  ASSUME LoggerTypeOK, FlushReturns
  PROVE  /\ written' \in Nat
         /\ done' \in Seq(Things)
         /\ batch' = <<>>
         /\ wpc' = after
<1>1. batch \in Seq(Things) /\ done \in Seq(Things)
  BY ItemsAreThings DEF LoggerTypeOK, Things
<1>2. done' \in Seq(Things)
  BY <1>1, InHandType, ConcatProperties DEF FlushReturns
<1> QED
  BY <1>2, EventsType DEF LoggerTypeOK, FlushReturns

(* One step of the logger keeps its types. *)
LEMMA TypeStep == LoggerTypeOK /\ [LoggerStep]_loggerVars => LoggerTypeOK'
<1> SUFFICES ASSUME LoggerTypeOK, [LoggerStep]_loggerVars
             PROVE  LoggerTypeOK'
  OBVIOUS
<1> USE DEF fields, tables, produced
<1>1. CASE Emits
  <2> PICK kind \in Kinds, sid \in Sids : Emit(kind, sid)
    BY <1>1 DEF Emits
  <2> QED
    BY EmitType
<1>2. CASE Start
  BY <1>2 DEF LoggerTypeOK, Start
<1>3. CASE Stop
  <2>1. CASE StopClear
    <3>1. Len(accepted) \in Nat
      BY LenProperties DEF LoggerTypeOK
    <3> QED
      BY <2>1, <3>1 DEF LoggerTypeOK, StopClear
  <2>2. CASE StopSentinel
    <3>1. Sentinel \in Things
      BY DEF Things
    <3>2. /\ queue' \in Seq(Things) /\ Len(queue') <= QueueMax
          /\ accepted' \in Seq(Things)
      <4>1. CASE Full
        BY <2>2, <4>1 DEF LoggerTypeOK, StopSentinel, Things
      <4>2. CASE ~Full
        BY <2>2, <3>1, <4>2, PutType DEF StopSentinel
      <4> QED
        BY <4>1, <4>2
    <3> QED
      BY <2>2, <3>2 DEF LoggerTypeOK, StopSentinel, Things
  <2>3. CASE StopJoin
    BY <2>3 DEF LoggerTypeOK, StopJoin
  <2>4. CASE StopCloseHandle
    BY <2>4 DEF LoggerTypeOK, StopCloseHandle
  <2>5. CASE StopForgetHandle
    BY <2>5 DEF LoggerTypeOK, StopForgetHandle
  <2> QED
    BY <1>3, <2>1, <2>2, <2>3, <2>4, <2>5 DEF Stop
<1>4. CASE GetItem
  BY <1>4, TakeType DEF LoggerTypeOK, GetItem, FlushPcs, Things
<1>5. CASE GetSentinel
  <2>1. Sentinel \in Things /\ done \in Seq(Things)
    BY DEF LoggerTypeOK, Things
  <2>2. Append(done, Sentinel) \in Seq(Things)
    BY <2>1, AppendProperties
  <2> QED
    BY <1>5, <2>2, TakeType DEF LoggerTypeOK, GetSentinel, FlushPcs, Things
<1>6. CASE GetEmpty
  BY <1>6 DEF LoggerTypeOK, GetEmpty, FlushPcs
<1>7. CASE CheckRunning
  BY <1>7 DEF LoggerTypeOK, CheckRunning
<1>8. CASE DrainItem
  BY <1>8, TakeType DEF LoggerTypeOK, DrainItem, Things
<1>9. CASE DrainEmpty
  BY <1>9 DEF LoggerTypeOK, DrainEmpty, FlushPcs
<1>10. CASE FlushBegin
  BY <1>10 DEF LoggerTypeOK, FlushBegin, FlushPcs
<1>11. CASE WriteJsonl
  BY <1>11, EventsType DEF LoggerTypeOK, WriteJsonl, FlushPcs
<1>12. CASE WriteJsonlFails
  <2> PICK k \in 0 .. Len(batch) : jsonl' = jsonl \cup EventIds(SubSeq(batch, 1, k))
    BY <1>12 DEF WriteJsonlFails
  <2>1. batch \in Seq(Items) /\ Len(batch) \in Nat
    BY LenProperties DEF LoggerTypeOK
  <2>2. \A i \in 1 .. k : batch[i] \in Items
    BY <2>1, ElementOfSeq
  <2>3. SubSeq(batch, 1, k) \in Seq(Items)
    BY <2>1, <2>2, SubSeqProperties
  <2>4. EventIds(SubSeq(batch, 1, k)) \in SUBSET Nat
    BY <2>3, EventsType
  <2>5. jsonl' \in SUBSET Nat
    BY <2>4 DEF LoggerTypeOK
  <2>6. errors' \in Nat
    BY <1>12 DEF LoggerTypeOK, WriteJsonlFails
  <2> QED
    BY <1>12, <2>5, <2>6 DEF LoggerTypeOK, WriteJsonlFails, FlushPcs
<1>13. CASE WriterDies
  BY <1>13 DEF LoggerTypeOK, WriterDies
<1>14. CASE WriteDb
  <2>1. rows' \in [Sids -> {"none", "open", "closed"}] /\ stored' \in SUBSET Nat
    BY <1>14, EventsType DEF LoggerTypeOK, WriteDb
  <2> QED
    BY <1>14, <2>1, FlushType DEF LoggerTypeOK, WriteDb, FlushReturns, Things
<1>15. CASE WriteDbFails
  BY <1>15, FlushType DEF LoggerTypeOK, WriteDbFails, FlushReturns, Things
<1>16. CASE WriteNoDb
  BY <1>16, FlushType DEF LoggerTypeOK, WriteNoDb, FlushReturns, Things
<1>17. CASE UNCHANGED loggerVars
  BY <1>17 DEF LoggerTypeOK, loggerVars
<1> QED
  BY <1>1, <1>2, <1>3, <1>4, <1>5, <1>6, <1>7, <1>8, <1>9, <1>10, <1>11, <1>12,
     <1>13, <1>14, <1>15, <1>16, <1>17 DEF LoggerStep, Writer

(* The initial state is well typed. *)
LEMMA StartTyped == LoggerInit => LoggerTypeOK
<1> SUFFICES ASSUME LoggerInit PROVE LoggerTypeOK
  OBVIOUS
<1>1. <<>> \in Seq(Items) /\ <<>> \in Seq(Items \cup {Sentinel}) /\ Len(<<>>) = 0
  OBVIOUS
<1>2. Len(<<>>) <= QueueMax
  BY <1>1, LoggerAssumption
<1>3. /\ queue = <<>> /\ batch = <<>> /\ accepted = <<>> /\ done = <<>>
      /\ stored \in SUBSET Nat /\ jsonl \in SUBSET Nat
      /\ written \in Nat /\ dropped \in Nat /\ errors \in Nat
      /\ offered \in Nat /\ atStop \in Nat
  BY DEF LoggerInit
<1>4. /\ rows \in [Sids -> {"none", "open", "closed"}]
      /\ stage \in [Sids -> {"new", "open", "closed"}]
  BY DEF LoggerInit
<1> QED
  BY <1>1, <1>2, <1>3, <1>4 DEF LoggerInit, LoggerTypeOK, FlushPcs

(* Every reachable state is well typed and the queue never holds more than   *)
(* _QUEUE_MAXSIZE items.                                                     *)
THEOREM LoggerTypes == LoggerSafety => []LoggerTypeOK
BY StartTyped, TypeStep, NextIsStep, PTL DEF LoggerSafety

-----------------------------------------------------------------------------
(* Conservation *)

(* The histories and the writer's containers are sequences of things. *)
LEMMA PartsAreSequences ==
  ASSUME LoggerTypeOK
  PROVE  /\ queue \in Seq(Things) /\ accepted \in Seq(Things) /\ done \in Seq(Things)
         /\ batch \in Seq(Things) /\ done \o batch \in Seq(Things)
         /\ InHand \in Seq(Things)
         /\ (done \o batch) \o InHand \in Seq(Things)
<1>1. queue \in Seq(Things) /\ accepted \in Seq(Things) /\ done \in Seq(Things)
  BY DEF LoggerTypeOK, Things
<1>2. batch \in Seq(Things)
  BY ItemsAreThings DEF LoggerTypeOK
<1> QED
  BY <1>1, <1>2, InHandType, ConcatProperties

(* What the writer is done with is a prefix of what was accepted, and the    *)
(* head of the queue comes after it.                                         *)
LEMMA Places ==
  ASSUME LoggerTypeOK, Conservation
  PROVE  /\ \A i \in DOMAIN done : i \in DOMAIN accepted /\ accepted[i] = done[i]
         /\ queue # <<>> => \E i \in DOMAIN accepted :
                              i > Len(done) /\ accepted[i] = Head(queue)
<1> DEFINE w == (done \o batch) \o InHand
<1>1. /\ queue \in Seq(Things) /\ done \in Seq(Things) /\ batch \in Seq(Things)
      /\ InHand \in Seq(Things) /\ done \o batch \in Seq(Things) /\ w \in Seq(Things)
      /\ accepted \in Seq(Things)
  BY PartsAreSequences
<1>2. /\ Len(done) \in Nat /\ Len(batch) \in Nat /\ Len(InHand) \in Nat
      /\ Len(queue) \in Nat /\ Len(w) \in Nat
      /\ DOMAIN done = 1 .. Len(done) /\ DOMAIN accepted = 1 .. Len(accepted)
  BY <1>1, LenProperties
<1>3. /\ Len(done \o batch) = Len(done) + Len(batch)
      /\ Len(w) = Len(done \o batch) + Len(InHand)
      /\ Len(accepted) = Len(w) + Len(queue)
  BY <1>1, ConcatProperties DEF Conservation
<1>4. ASSUME NEW i \in DOMAIN done PROVE i \in DOMAIN accepted /\ accepted[i] = done[i]
  <2>1. i \in 1 .. Len(done) /\ i \in 1 .. Len(done) + Len(batch)
        /\ i \in 1 .. Len(done \o batch) + Len(InHand) /\ i \in 1 .. Len(w) + Len(queue)
    BY <1>2, <1>3
  <2>2. (done \o batch)[i] = done[i]
    BY <1>1, <1>2, <2>1, ConcatProperties
  <2>3. w[i] = (done \o batch)[i]
    BY <1>1, <1>2, <1>3, <2>1, ConcatProperties
  <2>4. (w \o queue)[i] = w[i]
    BY <1>1, <1>2, <1>3, <2>1, ConcatProperties
  <2> QED
    BY <1>2, <1>3, <2>1, <2>2, <2>3, <2>4 DEF Conservation
<1>5. ASSUME queue # <<>>
      PROVE  \E i \in DOMAIN accepted : i > Len(done) /\ accepted[i] = Head(queue)
  <2>1. Len(queue) >= 1 /\ Head(queue) = queue[1]
    BY <1>1, <1>2, <1>5, EmptySeq, HeadTailProperties
  <2>2. Len(w) + 1 \in 1 .. Len(w) + Len(queue) /\ Len(w) + 1 > Len(done)
        /\ ~(Len(w) + 1 <= Len(w)) /\ (Len(w) + 1) - Len(w) = 1
    BY <1>2, <1>3, <2>1
  <2>3. (w \o queue)[Len(w) + 1] = queue[(Len(w) + 1) - Len(w)]
    BY <1>1, <2>2, ConcatProperties
  <2>4. accepted[Len(w) + 1] = Head(queue)
    BY <2>1, <2>2, <2>3 DEF Conservation
  <2> QED
    BY <1>2, <1>3, <2>2, <2>4
<1> QED
  BY <1>4, <1>5

(* The sentinel is not in the queue twice: a draining writer, which has put  *)
(* it behind, never meets it again, and before stop() puts it nobody does.   *)
LEMMA HeadIsItem ==
  ASSUME LoggerTypeOK, Conservation, SentinelPlace, queue # <<>>,
         wpc = "drain" \/ stopPc \in {"idle", "up", "clear"}
  PROVE  Head(queue) # Sentinel
<1>1. PICK i \in DOMAIN accepted : i > Len(done) /\ accepted[i] = Head(queue)
  BY Places
<1>2. CASE wpc = "drain"
  <2>1. PICK j \in DOMAIN done : done[j] = Sentinel
    BY <1>2 DEF SentinelPlace, HoldsSentinel
  <2>2. j \in DOMAIN accepted /\ accepted[j] = Sentinel
    BY <2>1, Places
  <2>3. j <= Len(done) /\ j \in Nat /\ Len(done) \in Nat
    BY LenProperties DEF LoggerTypeOK
  <2>4. i \in Nat
    BY LenProperties DEF LoggerTypeOK
  <2> QED
    BY <1>1, <2>2, <2>3, <2>4 DEF SentinelPlace
<1>3. CASE stopPc \in {"idle", "up", "clear"}
  BY <1>1, <1>3 DEF SentinelPlace, HoldsSentinel
<1> QED
  BY <1>2, <1>3

(* Taking an item from the queue into the batch. *)
LEMMA TakeConserves ==
  ASSUME LoggerTypeOK, Conservation, InHand = <<>>, InHand' = <<>>,
         queue # <<>>, queue' = Tail(queue), batch' = Append(batch, Head(queue)),
         UNCHANGED <<accepted, done>>
  PROVE  Conservation'
<1>1. /\ queue \in Seq(Things) /\ done \in Seq(Things) /\ batch \in Seq(Things)
      /\ done \o batch \in Seq(Things)
  BY PartsAreSequences
<1>2. Head(queue) \in Things /\ Tail(queue) \in Seq(Things)
  BY <1>1, HeadTailProperties
<1>3. batch' \in Seq(Things) /\ queue' \in Seq(Things)
  BY <1>1, <1>2, AppendProperties
<1>9. done \o batch' \in Seq(Things)
  BY <1>1, <1>3, ConcatProperties
<1>4. accepted = (done \o batch) \o queue
  BY <1>1, ConcatEmptySeq DEF Conservation
<1>5. (done \o batch') \o queue' = done \o (batch' \o queue')
  BY <1>1, <1>3, Regroup, ZenonT(40)
<1>6. batch' \o queue' = batch \o queue
  BY <1>1, MoveHead
<1>7. (done \o batch) \o queue = done \o (batch \o queue)
  BY <1>1, ConcatAssociative
<1>8. ((done \o batch') \o <<>>) \o queue' = (done \o batch') \o queue'
  BY <1>9, ConcatEmptySeq
<1> QED
  BY <1>4, <1>5, <1>6, <1>7, <1>8 DEF Conservation

(* Putting an item on the queue. *)
LEMMA PutConserves ==
  ASSUME LoggerTypeOK, Conservation, NEW x \in Things, Put(x), UNCHANGED <<done, batch>>,
         InHand' = InHand
  PROVE  Conservation'
<1> DEFINE w == (done \o batch) \o InHand
<1>1. queue \in Seq(Things) /\ w \in Seq(Things)
  BY PartsAreSequences
<1>2. accepted = w \o queue
  BY DEF Conservation
<1>3. w' = w
  OBVIOUS
<1> HIDE DEF w
<1>4. Append(w \o queue, x) = w \o Append(queue, x)
  BY <1>1, AppendRight
<1>5. accepted' = w' \o queue'
  BY <1>2, <1>3, <1>4 DEF Put
<1> QED
  BY <1>5 DEF Conservation, w

(* The return of _flush. *)
LEMMA FlushConserves ==
  ASSUME LoggerTypeOK, Conservation, FlushReturns
  PROVE  Conservation'
<1>1. InHand' = <<>>
  BY DEF LoggerTypeOK, FlushReturns, InHand, FlushPcs
<1>2. (done \o batch) \o InHand \in Seq(Things)
  BY PartsAreSequences
<1>3. done' \o <<>> = done'
  BY <1>2, ConcatEmptySeq DEF FlushReturns
<1> QED
  BY <1>1, <1>3 DEF FlushReturns, Conservation

(* One step of the logger keeps every accepted item in its place. *)
LEMMA ConservationStep ==
  ASSUME LoggerInv, [LoggerStep]_loggerVars
  PROVE  Conservation'
<1> USE DEF fields, tables, produced
<1>0. LoggerTypeOK /\ Conservation /\ SentinelPlace /\ WriterPlace
  BY DEF LoggerInv
<1>1. CASE Emits
  <2> PICK kind \in Kinds, sid \in Sids : Emit(kind, sid)
    BY <1>1 DEF Emits
  <2>1. InHand' = InHand
    BY DEF Emit, InHand
  <2>2. CASE Full
    BY <1>0, <2>1, <2>2 DEF Emit, Conservation
  <2>3. CASE ~Full
    <3>1. offered' \in Nat
      BY <1>0 DEF LoggerTypeOK, Emit
    <3>2. [id |-> offered', kind |-> kind, sid |-> sid] \in Things
      BY <3>1 DEF Items, Things
    <3> QED
      BY <1>0, <2>1, <2>3, <3>2, PutConserves DEF Emit
  <2> QED
    BY <2>2, <2>3
<1>2. CASE Start
  <2>1. InHand = <<>> /\ InHand' = <<>>
    BY <1>0, <1>2 DEF Start, InHand, WriterPlace, FlushPcs
  <2> QED
    BY <1>0, <1>2, <2>1 DEF Start, Conservation
<1>3. CASE StopSentinel
  <2>1. InHand' = InHand
    BY <1>3 DEF StopSentinel, InHand
  <2>2. CASE Full
    BY <1>0, <1>3, <2>1, <2>2 DEF StopSentinel, Conservation
  <2>3. CASE ~Full
    <3>1. Sentinel \in Things
      BY DEF Things
    <3> QED
      BY <1>0, <1>3, <2>1, <2>3, <3>1, PutConserves DEF StopSentinel
  <2> QED
    BY <2>2, <2>3
<1>4. CASE StopClear \/ StopJoin \/ StopCloseHandle \/ StopForgetHandle
  BY <1>0, <1>4 DEF StopClear, StopJoin, StopCloseHandle, StopForgetHandle,
                    InHand, Conservation
<1>5. CASE GetItem
  <2>1. InHand = <<>> /\ InHand' = <<>>
    BY <1>5 DEF GetItem, InHand, FlushPcs
  <2> QED
    BY <1>0, <1>5, <2>1, TakeConserves DEF GetItem
<1>6. CASE GetSentinel
  <2>0. /\ queue \in Seq(Things) /\ done \in Seq(Things) /\ batch \in Seq(Things)
        /\ done \o batch \in Seq(Things)
    BY <1>0, PartsAreSequences
  <2>1. InHand = <<>>
    BY <1>6 DEF GetSentinel, InHand, FlushPcs
  <2>2. accepted = (done \o batch) \o queue
    BY <1>0, <2>0, <2>1, ConcatEmptySeq DEF Conservation
  <2>3. Sentinel \in Things
    BY DEF Things
  <2>4. Append(done \o batch, Sentinel) \o queue' = (done \o batch) \o queue
    BY <1>6, <2>0, MoveHead DEF GetSentinel
  <2>5. CASE batch # <<>>
    <3>1. InHand' = <<Sentinel>>
      BY <1>6, <2>5 DEF GetSentinel, InHand, FlushPcs
    <3>2. (done \o batch) \o <<Sentinel>> = Append(done \o batch, Sentinel)
      BY <2>0, <2>3, AppendIsConcat
    <3> QED
      BY <1>6, <2>2, <2>4, <2>5, <3>1, <3>2 DEF GetSentinel, Conservation
  <2>6. CASE batch = <<>>
    <3>1. InHand' = <<>> /\ done' = Append(done, Sentinel) /\ batch' = <<>>
      BY <1>6, <2>6 DEF GetSentinel, InHand, FlushPcs
    <3>2. done \o batch = done
      BY <2>0, <2>6, ConcatEmptySeq
    <3>3. done' \in Seq(Things)
      BY <2>0, <2>3, <3>1, AppendProperties
    <3>4. (done' \o <<>>) \o <<>> = done'
      BY <3>3, ConcatEmptySeq
    <3> QED
      BY <1>6, <2>2, <2>4, <3>1, <3>2, <3>4 DEF GetSentinel, Conservation
  <2> QED
    BY <2>5, <2>6
<1>7. CASE GetEmpty \/ CheckRunning \/ DrainEmpty
  <2>1. InHand = <<>> /\ InHand' = <<>>
    BY <1>7 DEF GetEmpty, CheckRunning, DrainEmpty, InHand, FlushPcs
  <2> QED
    BY <1>0, <1>7, <2>1 DEF GetEmpty, CheckRunning, DrainEmpty, Conservation
<1>8. CASE DrainItem
  <2>1. InHand = <<>> /\ InHand' = <<>>
    BY <1>8 DEF DrainItem, InHand, FlushPcs
  <2>2. Head(queue) # Sentinel
    BY <1>0, <1>8, HeadIsItem DEF DrainItem
  <2> QED
    BY <1>0, <1>8, <2>1, <2>2, TakeConserves DEF DrainItem
<1>9. CASE FlushBegin \/ WriteJsonl \/ WriteJsonlFails \/ WriterDies
  <2>1. InHand' = InHand
    BY <1>9 DEF FlushBegin, WriteJsonl, WriteJsonlFails, WriterDies, InHand, FlushPcs
  <2> QED
    BY <1>0, <1>9, <2>1 DEF FlushBegin, WriteJsonl, WriteJsonlFails, WriterDies,
                            Conservation
<1>10. CASE WriteDb \/ WriteDbFails \/ WriteNoDb
  BY <1>0, <1>10, FlushConserves DEF WriteDb, WriteDbFails, WriteNoDb
<1>11. CASE UNCHANGED loggerVars
  BY <1>0, <1>11 DEF loggerVars, Conservation, InHand
<1> QED
  BY <1>1, <1>2, <1>3, <1>4, <1>5, <1>6, <1>7, <1>8, <1>9, <1>10, <1>11
  DEF LoggerStep, Stop, Writer

-----------------------------------------------------------------------------
(* Where the sentinel is *)

(* A sequence that grows at its end by something keeps what it holds. *)
LEMMA AppendKeeps ==
  ASSUME NEW s \in Seq(Things), NEW x \in Things
  PROVE  /\ Len(Append(s, x)) = Len(s) + 1
         /\ DOMAIN Append(s, x) = DOMAIN s \cup {Len(s) + 1}
         /\ \A i \in DOMAIN s : Append(s, x)[i] = s[i] /\ i <= Len(s) /\ i \in Nat
         /\ Append(s, x)[Len(s) + 1] = x
         /\ Len(s) \in Nat
<1>1. Len(s) \in Nat /\ DOMAIN s = 1 .. Len(s)
  BY LenProperties
<1>2. /\ Append(s, x) \in Seq(Things) /\ Len(Append(s, x)) = Len(s) + 1
      /\ \A i \in 1 .. Len(s) : Append(s, x)[i] = s[i]
      /\ Append(s, x)[Len(s) + 1] = x
  BY AppendProperties
<1>3. DOMAIN Append(s, x) = 1 .. Len(s) + 1
  BY <1>2, LenProperties
<1> QED
  BY <1>1, <1>2, <1>3

(* emit puts an item, which is not the sentinel. *)
LEMMA EmitKeepsSentinel ==
  ASSUME LoggerTypeOK, SentinelPlace, NEW kind \in Kinds, NEW sid \in Sids,
         Emit(kind, sid)
  PROVE  SentinelPlace'
<1>1. CASE Full
  BY <1>1 DEF SentinelPlace, Emit, HoldsSentinel
<1>2. CASE ~Full
  <2> DEFINE x == [id |-> offered', kind |-> kind, sid |-> sid]
  <2>1. x \in Things /\ x # Sentinel
    <3>1. offered' \in Nat
      BY DEF LoggerTypeOK, Emit
    <3>2. x \in Items
      BY <3>1 DEF Items
    <3> QED
      BY <3>2, LoggerAssumption DEF Things
  <2>2. accepted \in Seq(Things) /\ atStop \in Nat
    BY DEF LoggerTypeOK, Things
  <2>3. /\ accepted' = Append(accepted, x)
        /\ UNCHANGED <<stopPc, atStop, wpc, done>>
    BY <1>2 DEF Emit, Put
  <2> HIDE DEF x
  <2>4. /\ Len(accepted') = Len(accepted) + 1 /\ Len(accepted) \in Nat
        /\ \A i \in DOMAIN accepted' : accepted'[i] = Sentinel =>
             i \in DOMAIN accepted /\ accepted[i] = Sentinel
    BY <2>1, <2>2, <2>3, AppendKeeps
  <2> QED
    BY <2>2, <2>3, <2>4 DEF SentinelPlace, HoldsSentinel
<1> QED
  BY <1>1, <1>2

(* stop() puts the only sentinel, behind everything accepted so far. *)
LEMMA StopKeepsSentinel ==
  ASSUME LoggerTypeOK, SentinelPlace, StopSentinel
  PROVE  SentinelPlace'
<1> USE DEF StopSentinel
<1>1. CASE Full
  BY <1>1 DEF SentinelPlace, HoldsSentinel
<1>2. CASE ~Full
  <2>1. accepted \in Seq(Things) /\ atStop \in Nat /\ Sentinel \in Things
    BY DEF LoggerTypeOK, Things
  <2>2. /\ accepted' = Append(accepted, Sentinel)
        /\ stopPc = "clear" /\ stopPc' = "join"
        /\ UNCHANGED <<atStop, wpc, done>>
    BY <1>2 DEF Put
  <2>3. ~HoldsSentinel(accepted) /\ atStop <= Len(accepted)
    BY <2>2 DEF SentinelPlace
  <2>4. /\ Len(accepted') = Len(accepted) + 1 /\ Len(accepted) \in Nat
        /\ \A i \in DOMAIN accepted' : accepted'[i] = Sentinel => i = Len(accepted) + 1
    BY <2>1, <2>2, <2>3, AppendKeeps DEF HoldsSentinel
  <2>5. wpc' = "drain" => HoldsSentinel(done')
    BY <2>2 DEF SentinelPlace, HoldsSentinel
  <2> QED
    BY <2>1, <2>2, <2>3, <2>4, <2>5 DEF SentinelPlace
<1> QED
  BY <1>1, <1>2

(* When _flush returns to the draining loop the sentinel is behind. *)
LEMMA FlushKeepsSentinel ==
  ASSUME LoggerTypeOK, SentinelPlace, wpc = "db", FlushReturns
  PROVE  SentinelPlace'
<1>1. wpc' = "drain" => HoldsSentinel(done')
  <2> SUFFICES ASSUME wpc' = "drain" PROVE HoldsSentinel(done')
    OBVIOUS
  <2>1. InHand = <<Sentinel>>
    BY DEF FlushReturns, InHand, FlushPcs
  <2>2. done \o batch \in Seq(Things) /\ Sentinel \in Things
    BY PartsAreSequences DEF Things
  <2>3. done' = Append(done \o batch, Sentinel)
    BY <2>1, <2>2, AppendIsConcat DEF FlushReturns
  <2>4. Len(done \o batch) + 1 \in DOMAIN done' /\ done'[Len(done \o batch) + 1] = Sentinel
    BY <2>2, <2>3, AppendKeeps
  <2> QED
    BY <2>4 DEF HoldsSentinel
<1> QED
  BY <1>1 DEF FlushReturns, SentinelPlace, HoldsSentinel

(* One step of the logger keeps the sentinel in its place. *)
LEMMA SentinelStep ==
  ASSUME LoggerInv, [LoggerStep]_loggerVars
  PROVE  SentinelPlace'
<1> USE DEF fields, tables, produced
<1>0. LoggerTypeOK /\ Conservation /\ SentinelPlace /\ WriterPlace
  BY DEF LoggerInv
<1>1. CASE Emits
  <2> PICK kind \in Kinds, sid \in Sids : Emit(kind, sid)
    BY <1>1 DEF Emits
  <2> QED
    BY <1>0, EmitKeepsSentinel
<1>2. CASE Start
  BY <1>0, <1>2 DEF Start, SentinelPlace, HoldsSentinel
<1>3. CASE StopClear
  <2>1. ~HoldsSentinel(accepted) /\ Len(accepted) \in Nat
    BY <1>0, <1>3, LenProperties DEF StopClear, SentinelPlace, LoggerTypeOK
  <2> QED
    BY <1>0, <1>3, <2>1 DEF StopClear, SentinelPlace, HoldsSentinel
<1>4. CASE StopSentinel
  BY <1>0, <1>4, StopKeepsSentinel
<1>5. CASE StopJoin \/ StopCloseHandle \/ StopForgetHandle
  BY <1>0, <1>5 DEF StopJoin, StopCloseHandle, StopForgetHandle, SentinelPlace,
                    HoldsSentinel
<1>6. CASE GetSentinel
  <2>1. wpc' = "drain" => HoldsSentinel(done')
    <3> SUFFICES ASSUME wpc' = "drain" PROVE HoldsSentinel(done')
      OBVIOUS
    <3>1. done' = Append(done, Sentinel)
      BY <1>6 DEF GetSentinel
    <3>2. done \in Seq(Things) /\ Sentinel \in Things
      BY <1>0 DEF LoggerTypeOK, Things
    <3>3. Len(done) + 1 \in DOMAIN done' /\ done'[Len(done) + 1] = Sentinel
      BY <3>1, <3>2, AppendKeeps
    <3> QED
      BY <3>3 DEF HoldsSentinel
  <2> QED
    BY <1>0, <1>6, <2>1 DEF GetSentinel, SentinelPlace, HoldsSentinel
<1>7. CASE GetItem \/ GetEmpty \/ CheckRunning \/ DrainItem \/ DrainEmpty
  BY <1>0, <1>7 DEF GetItem, GetEmpty, CheckRunning, DrainItem, DrainEmpty,
                    SentinelPlace, HoldsSentinel
<1>8. CASE FlushBegin \/ WriteJsonl \/ WriteJsonlFails \/ WriterDies
  BY <1>0, <1>8 DEF FlushBegin, WriteJsonl, WriteJsonlFails, WriterDies,
                    SentinelPlace, HoldsSentinel
<1>9. CASE WriteDb \/ WriteDbFails \/ WriteNoDb
  BY <1>0, <1>9, FlushKeepsSentinel DEF WriteDb, WriteDbFails, WriteNoDb
<1>10. CASE UNCHANGED loggerVars
  BY <1>0, <1>10 DEF loggerVars, SentinelPlace, HoldsSentinel
<1> QED
  BY <1>1, <1>2, <1>3, <1>4, <1>5, <1>6, <1>7, <1>8, <1>9, <1>10
  DEF LoggerStep, Stop, Writer

-----------------------------------------------------------------------------
(* Where the writer is *)

(* One step of the logger keeps the writer in its place: before stop() has   *)
(* put the sentinel nothing takes it out of its loop.                        *)
LEMMA WriterPlaceStep ==
  ASSUME LoggerInv, [LoggerStep]_loggerVars
  PROVE  WriterPlace'
<1> USE DEF fields, tables, produced, FlushPcs, WriterAlive
<1>0. LoggerTypeOK /\ Conservation /\ SentinelPlace /\ WriterPlace
  BY DEF LoggerInv
<1>1. CASE Emits
  <2> PICK kind \in Kinds, sid \in Sids : Emit(kind, sid)
    BY <1>1 DEF Emits
  <2>2. UNCHANGED <<running, stopPc, handle, wpc, after>>
    BY DEF Emit
  <2> QED
    BY <1>0, <2>2 DEF WriterPlace
<1>2. CASE Start
  BY <1>0, <1>2 DEF Start, WriterPlace, LoggerTypeOK
<1>3. CASE Stop
  BY <1>0, <1>3 DEF Stop, StopClear, StopSentinel, StopJoin, StopCloseHandle,
                    StopForgetHandle, WriterPlace
<1>4. CASE GetSentinel
  <2>1. stopPc \notin {"idle", "up", "clear"}
    BY <1>0, <1>4, HeadIsItem DEF GetSentinel
  <2> QED
    BY <1>0, <1>4, <2>1 DEF GetSentinel, WriterPlace
<1>5. CASE GetItem \/ GetEmpty \/ CheckRunning \/ DrainItem \/ DrainEmpty
  BY <1>0, <1>5 DEF GetItem, GetEmpty, CheckRunning, DrainItem, DrainEmpty, WriterPlace
<1>6. CASE FlushBegin \/ WriteJsonl \/ WriteJsonlFails \/ WriterDies
  BY <1>0, <1>6 DEF FlushBegin, WriteJsonl, WriteJsonlFails, WriterDies, WriterPlace,
                    LoggerTypeOK
<1>7. CASE WriteDb \/ WriteDbFails \/ WriteNoDb
  <2>1. wpc = "db" /\ FlushReturns
    BY <1>7 DEF WriteDb, WriteDbFails, WriteNoDb
  <2> QED
    BY <1>0, <2>1 DEF FlushReturns, WriterPlace
<1>8. CASE UNCHANGED loggerVars
  BY <1>0, <1>8 DEF loggerVars, WriterPlace
<1> QED
  BY <1>1, <1>2, <1>3, <1>4, <1>5, <1>6, <1>7, <1>8 DEF LoggerStep, Writer

-----------------------------------------------------------------------------
(* Theorems *)

(* The invariant holds initially: nothing has been put anywhere. *)
LEMMA LoggerStarts == LoggerInit => LoggerInv
<1> SUFFICES ASSUME LoggerInit PROVE LoggerInv
  OBVIOUS
<1>1. /\ accepted = <<>> /\ done = <<>> /\ batch = <<>> /\ queue = <<>>
      /\ wpc = "absent" /\ after = "get" /\ stopPc = "idle" /\ running = FALSE
      /\ atStop = 0
  BY DEF LoggerInit
<1>2. <<>> \o <<>> = <<>> /\ Len(<<>>) = 0 /\ DOMAIN <<>> = {}
  OBVIOUS
<1>3. InHand = <<>>
  BY <1>1 DEF InHand
<1>4. Conservation
  BY <1>1, <1>2, <1>3 DEF Conservation
<1>5. SentinelPlace
  BY <1>1, <1>2 DEF SentinelPlace, HoldsSentinel
<1>6. WriterPlace
  BY <1>1 DEF WriterPlace, FlushPcs
<1> QED
  BY <1>4, <1>5, <1>6, StartTyped DEF LoggerInv

(* One step of the logger keeps the invariant. *)
LEMMA LoggerInvStep == LoggerInv /\ [LoggerStep]_loggerVars => LoggerInv'
<1> SUFFICES ASSUME LoggerInv, [LoggerStep]_loggerVars PROVE LoggerInv'
  OBVIOUS
<1>1. LoggerTypeOK'
  BY TypeStep DEF LoggerInv
<1> QED
  BY <1>1, ConservationStep, SentinelStep, WriterPlaceStep DEF LoggerInv

(* The inductive invariant holds in every reachable state. *)
THEOREM LoggerInvariant == LoggerSafety => []LoggerInv
BY LoggerStarts, LoggerInvStep, NextIsStep, PTL DEF LoggerSafety

(* No interleaving of emit, emit_session, the writer thread and stop()       *)
(* loses, duplicates or reorders an item the queue accepted, whatever the    *)
(* queue and batch sizes.                                                    *)
THEOREM LoggerConservation == LoggerSafety => []Conservation
<1>1. LoggerInv => Conservation
  BY DEF LoggerInv
<1> QED
  BY <1>1, LoggerInvariant, PTL

(* While _running is set there is a writer thread that serves the queue: it  *)
(* neither leaves _run nor dies on the JSONL handle.                         *)
THEOREM LoggerWriterServes == LoggerSafety => []WriterServes
<1>1. LoggerInv => WriterServes
  BY DEF LoggerInv, WriterPlace, WriterServes
<1> QED
  BY <1>1, LoggerInvariant, PTL

(* A writer that left through the sentinel has flushed everything that was   *)
(* accepted before stop() was called.                                        *)
THEOREM LoggerSentinelDrains == LoggerSafety => []SentinelDrains
<1>1. LoggerInv => SentinelDrains
  <2> SUFFICES ASSUME LoggerInv, HoldsSentinel(done) PROVE atStop < Len(done)
    BY DEF SentinelDrains
  <2>0. LoggerTypeOK /\ Conservation /\ SentinelPlace
    BY DEF LoggerInv
  <2>1. PICK i \in DOMAIN done : done[i] = Sentinel
    BY DEF HoldsSentinel
  <2>2. i \in DOMAIN accepted /\ accepted[i] = Sentinel
    BY <2>0, <2>1, Places
  <2>3. atStop < i
    BY <2>0, <2>2 DEF SentinelPlace
  <2>4. i \in Nat /\ i <= Len(done) /\ Len(done) \in Nat /\ atStop \in Nat
    BY <2>0, LenProperties DEF LoggerTypeOK
  <2> QED
    BY <2>3, <2>4
<1> QED
  BY <1>1, LoggerInvariant, PTL

-----------------------------------------------------------------------------
(* The sinks *)

(* Where the items of done come from when a flush returns: the ones before,  *)
(* the batch behind them, and the sentinel if the writer had it in its hand. *)
LEMMA FlushPositions ==
  ASSUME LoggerTypeOK, FlushReturns
  PROVE  /\ DOMAIN done = 1 .. Len(done) /\ Len(done) \in Nat
         /\ DOMAIN done \subseteq DOMAIN done'
         /\ \A i \in DOMAIN done : done'[i] = done[i]
         /\ \A j \in DOMAIN batch : Len(done) + j \in DOMAIN done' /\ done'[Len(done) + j] = batch[j]
         /\ \A i \in DOMAIN done' :
              \/ i \in DOMAIN done
              \/ \E j \in DOMAIN batch : i = Len(done) + j
              \/ done'[i] = Sentinel
<1> DEFINE w == done \o batch
<1>1. /\ done \in Seq(Things) /\ batch \in Seq(Things) /\ InHand \in Seq(Things)
      /\ w \in Seq(Things) /\ done' = w \o InHand /\ done' \in Seq(Things)
  BY PartsAreSequences, FlushType DEF FlushReturns
<1>2. /\ Len(done) \in Nat /\ Len(batch) \in Nat /\ Len(InHand) \in Nat /\ Len(w) \in Nat
      /\ DOMAIN done = 1 .. Len(done) /\ DOMAIN batch = 1 .. Len(batch)
      /\ DOMAIN done' = 1 .. Len(done')
  BY <1>1, LenProperties
<1>3. /\ Len(w) = Len(done) + Len(batch)
      /\ \A i \in 1 .. Len(done) + Len(batch) :
           w[i] = IF i <= Len(done) THEN done[i] ELSE batch[i - Len(done)]
  BY <1>1, ConcatProperties
<1>4. /\ Len(done') = Len(w) + Len(InHand)
      /\ \A i \in 1 .. Len(w) + Len(InHand) :
           done'[i] = IF i <= Len(w) THEN w[i] ELSE InHand[i - Len(w)]
  <2> HIDE DEF w
  <2> QED
    BY <1>1, ConcatProperties
<1>5. InHand = <<>> \/ InHand = <<Sentinel>>
  BY DEF InHand
<1>6. \A k \in 1 .. Len(InHand) : InHand[k] = Sentinel
  BY <1>5
<1> HIDE DEF w
<1>7. ASSUME NEW i \in DOMAIN done PROVE i \in DOMAIN done' /\ done'[i] = done[i]
  <2>1. i \in 1 .. Len(w) + Len(InHand) /\ i <= Len(w) /\ i \in 1 .. Len(done) + Len(batch)
    BY <1>2, <1>3
  <2> QED
    BY <1>2, <1>3, <1>4, <2>1
<1>8. ASSUME NEW j \in DOMAIN batch
      PROVE  Len(done) + j \in DOMAIN done' /\ done'[Len(done) + j] = batch[j]
  <2>1. /\ Len(done) + j \in 1 .. Len(w) + Len(InHand) /\ Len(done) + j <= Len(w)
        /\ Len(done) + j \in 1 .. Len(done) + Len(batch) /\ ~(Len(done) + j <= Len(done))
        /\ (Len(done) + j) - Len(done) = j
    BY <1>2, <1>3
  <2>2. done'[Len(done) + j] = w[Len(done) + j] /\ w[Len(done) + j] = batch[(Len(done) + j) - Len(done)]
    BY <1>3, <1>4, <2>1
  <2> QED
    BY <1>2, <1>4, <2>1, <2>2
<1>9. ASSUME NEW i \in DOMAIN done'
      PROVE  \/ i \in DOMAIN done
             \/ \E j \in DOMAIN batch : i = Len(done) + j
             \/ done'[i] = Sentinel
  <2>1. CASE i <= Len(done)
    BY <1>2, <2>1
  <2>2. CASE ~(i <= Len(done)) /\ i <= Len(done) + Len(batch)
    <3>1. i - Len(done) \in DOMAIN batch /\ i = Len(done) + (i - Len(done))
      BY <1>2, <2>2
    <3> QED
      BY <3>1
  <2>3. CASE ~(i <= Len(done) + Len(batch))
    <3>1. i - Len(w) \in 1 .. Len(InHand) /\ i \in 1 .. Len(w) + Len(InHand) /\ ~(i <= Len(w))
      BY <1>2, <1>3, <1>4, <2>3
    <3> QED
      BY <1>4, <1>6, <3>1
  <2> QED
    BY <2>1, <2>2, <2>3
<1> QED
  BY <1>2, <1>7, <1>8, <1>9

(* Everything that is not the return of _flush adds nothing but the sentinel *)
(* to what is done, and leaves the two sinks and the tables alone.           *)
LEMMA OnlyFlushesStore ==
  ASSUME LoggerTypeOK, [LoggerStep]_loggerVars
  PROVE  \/ UNCHANGED <<done, settings, tables>> /\ errors' >= errors
         \/ /\ GetSentinel /\ UNCHANGED <<settings, errors, tables>>
            /\ done' = done \/ done' = Append(done, Sentinel)
         \/ WriteDb \/ WriteDbFails \/ WriteNoDb
<1> USE DEF fields, tables, produced
<1>0. errors \in Nat
  BY DEF LoggerTypeOK
<1>1. CASE Emits
  <2> PICK kind \in Kinds, sid \in Sids : Emit(kind, sid)
    BY <1>1 DEF Emits
  <2>1. UNCHANGED <<done, settings, errors, rows, stored>>
    BY DEF Emit
  <2> QED
    BY <1>0, <2>1
<1>2. CASE Start
  BY <1>0, <1>2 DEF Start
<1>3. CASE Stop
  BY <1>0, <1>3 DEF Stop, StopClear, StopSentinel, StopJoin, StopCloseHandle, StopForgetHandle
<1>4. CASE GetSentinel
  BY <1>4 DEF GetSentinel
<1>5. CASE GetItem \/ GetEmpty \/ CheckRunning \/ DrainItem \/ DrainEmpty
  BY <1>0, <1>5 DEF GetItem, GetEmpty, CheckRunning, DrainItem, DrainEmpty
<1>6. CASE FlushBegin \/ WriteJsonl \/ WriteJsonlFails \/ WriterDies
  BY <1>0, <1>6 DEF FlushBegin, WriteJsonl, WriteJsonlFails, WriterDies
<1>7. CASE UNCHANGED loggerVars
  BY <1>0, <1>7 DEF loggerVars
<1> QED
  BY <1>1, <1>2, <1>3, <1>4, <1>5, <1>6, <1>7 DEF LoggerStep, Writer

(* One step keeps the count of losses honest. *)
LEMMA LossStep ==
  ASSUME LoggerTypeOK, LossIsCounted, [LoggerStep]_loggerVars
  PROVE  LossIsCounted'
<1>0. errors \in Nat /\ done \in Seq(Things) /\ batch \in Seq(Items) /\ Sentinel \in Things
  BY DEF LoggerTypeOK, Things
<1>1. CASE UNCHANGED <<done, settings, tables>> /\ errors' >= errors
  <2>1. errors' \in Nat
    BY TypeStep DEF LoggerTypeOK
  <2> QED
    BY <1>0, <1>1, <2>1 DEF LossIsCounted, tables
<1>2. CASE GetSentinel /\ UNCHANGED <<settings, errors, tables>> /\ (done' = done \/ done' = Append(done, Sentinel))
  <2>1. CASE done' = done
    BY <1>2, <2>1 DEF LossIsCounted, tables
  <2>2. CASE done' = Append(done, Sentinel)
    <3>1. \A i \in DOMAIN done' : done'[i] = Sentinel \/ (i \in DOMAIN done /\ done'[i] = done[i])
      BY <1>0, <2>2, AppendKeeps
    <3> QED
      BY <1>2, <3>1 DEF LossIsCounted, tables
  <2> QED
    BY <1>2, <2>1, <2>2
<1>3. CASE WriteDb
  <2>1. FlushReturns /\ UNCHANGED <<errors, settings>> /\ stored' = stored \cup EventIds(batch)
    BY <1>3 DEF WriteDb, FlushReturns
  <2>2. \A j \in DOMAIN batch : batch[j].kind = "event" => batch[j].id \in stored'
    BY <2>1 DEF EventIds, EventsIn
  <2>3. ASSUME NEW i \in DOMAIN done', done'[i] # Sentinel, done'[i].kind = "event", done'[i].id \notin stored'
        PROVE  i \in DOMAIN done /\ done'[i] = done[i] /\ done[i].id \notin stored
    BY <2>1, <2>2, <2>3, FlushPositions
  <2> QED
    BY <2>1, <2>3 DEF LossIsCounted
<1>4. CASE WriteDbFails
  BY <1>0, <1>4 DEF WriteDbFails, LossIsCounted
<1>5. CASE WriteNoDb
  BY <1>5 DEF WriteNoDb, FlushReturns, LossIsCounted
<1> QED
  BY <1>1, <1>2, <1>3, <1>4, <1>5, OnlyFlushesStore

(* Events that went through _flush and are not in the database have been     *)
(* counted in errors, whatever failed and in whatever order.                 *)
THEOREM LoggerLossIsCounted == LoggerSafety => []LossIsCounted
<1>1. LoggerInit => LossIsCounted
  BY DEF LoggerInit, LossIsCounted
<1> QED
  BY <1>1, LossStep, LoggerTypes, NextIsStep, PTL DEF LoggerSafety

(* One step keeps the file ahead of the table by the batch in between only.  *)
LEMMA SinksStep ==
  ASSUME LoggerTypeOK, WriterPlace, SinksInStep, [LoggerStep]_loggerVars
  PROVE  SinksInStep'
<1> USE DEF fields, tables, produced
<1>0. errors \in Nat /\ errors' \in Nat
  BY TypeStep DEF LoggerTypeOK
<1>1. CASE Emits
  <2> PICK kind \in Kinds, sid \in Sids : Emit(kind, sid)
    BY <1>1 DEF Emits
  <2>1. UNCHANGED <<stopPc, handle, wpc, batch, settings, errors, stored, jsonl>>
    BY DEF Emit
  <2> QED
    BY <2>1 DEF SinksInStep, EventIds, EventsIn
<1>2. CASE Start
  BY <1>2 DEF Start, SinksInStep, WriterPlace
<1>3. CASE Stop
  <2>1. /\ UNCHANGED <<wpc, batch, settings, errors, stored, jsonl>>
        /\ handle' = "open" => handle = "open"
        /\ stopPc' # "idle"
    BY <1>3 DEF Stop, StopClear, StopSentinel, StopJoin, StopCloseHandle, StopForgetHandle
  <2> QED
    BY <2>1 DEF SinksInStep, EventIds, EventsIn
<1>4. CASE GetItem \/ GetSentinel \/ GetEmpty \/ CheckRunning \/ DrainItem \/ DrainEmpty
  <2>1. /\ wpc # "db" /\ wpc' # "db" /\ wpc # "absent"
        /\ UNCHANGED <<handle, stopPc, settings, errors, stored, jsonl>>
    BY <1>4 DEF GetItem, GetSentinel, GetEmpty, CheckRunning, DrainItem, DrainEmpty, LoggerTypeOK
  <2> QED
    BY <2>1 DEF SinksInStep, WriterPlace
<1>5. CASE FlushBegin
  BY <1>5 DEF FlushBegin, SinksInStep, WriterPlace
<1>6. CASE WriteJsonl
  <2>1. UNCHANGED batch /\ EventIds(batch)' = EventIds(batch)
    BY <1>6 DEF WriteJsonl, EventIds, EventsIn
  <2> QED
    BY <1>6, <2>1 DEF WriteJsonl, SinksInStep, WriterPlace
<1>7. CASE WriteJsonlFails \/ WriterDies
  <2>1. stopPc' # "idle" /\ ~(handle' = "open" /\ errors' = 0)
    BY <1>0, <1>7 DEF WriteJsonlFails, WriterDies, WriterPlace
  <2> QED
    BY <2>1 DEF SinksInStep
<1>8. CASE WriteDb
  <2>1. /\ wpc = "db" /\ wpc' # "db" /\ stopPc' # "idle"
        /\ UNCHANGED <<handle, settings, errors, jsonl>> /\ stored' = stored \cup EventIds(batch)
    BY <1>8 DEF WriteDb, FlushReturns, WriterPlace, LoggerTypeOK
  <2> QED
    BY <2>1 DEF SinksInStep
<1>9. CASE WriteDbFails \/ WriteNoDb
  <2>1. stopPc' # "idle" /\ ~(settings'.write_to_db /\ errors' = 0)
    BY <1>0, <1>9 DEF WriteDbFails, WriteNoDb, FlushReturns, WriterPlace
  <2> QED
    BY <2>1 DEF SinksInStep
<1>10. CASE UNCHANGED loggerVars
  BY <1>10 DEF loggerVars, SinksInStep, EventIds, EventsIn
<1> QED
  BY <1>1, <1>2, <1>3, <1>4, <1>5, <1>6, <1>7, <1>8, <1>9, <1>10 DEF LoggerStep, Writer

(* As long as no sink has failed and stop() has not closed the file, the     *)
(* JSONL file and the events table hold the same events, but for the batch   *)
(* that is between the two writes.                                           *)
THEOREM LoggerSinksAgree == LoggerSafety => []SinksAgree
<1>1. LoggerInit => SinksInStep
  BY DEF LoggerInit, SinksInStep
<1>2. SinksInStep => SinksAgree
  BY DEF SinksInStep, SinksAgree
<1>3. LoggerInv => LoggerTypeOK /\ WriterPlace
  BY DEF LoggerInv
<1> QED
  BY <1>1, <1>2, <1>3, SinksStep, LoggerInvariant, NextIsStep, PTL DEF LoggerSafety

=============================================================================
