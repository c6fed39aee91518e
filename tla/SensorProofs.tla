---------------------------- MODULE SensorProofs ----------------------------
(***************************************************************************)
(* Proofs about Sensor, for every set of connections and listeners, every  *)
(* limit, queue and batch size.  Every step of the sensor is a step of the *)
(* logger and one of the registry, so their lemmas carry over; the rest of *)
(* SensorInv says what the running handler owes to the queue.              *)
(***************************************************************************)
EXTENDS Sensor, EventLoggerProofs, SessionRegistryProofs

(* The session ids of the logger are the connections. *)
LEMMA SidsAreConns == Sids = Conns
BY SensorAssumption

-----------------------------------------------------------------------------
(* What a step of the sensor is to the logger and to the registry *)

(* The head of todo names a kind and a connection. *)
LEMMA HeadOfTodo ==
  ASSUME TypeOK, todo # <<>>
  PROVE  /\ Head(todo) = todo[1] /\ Head(todo)[1] \in Kinds /\ Head(todo)[2] \in Conns
         /\ Tail(todo) \in Seq(Kinds \X Conns) /\ Len(Tail(todo)) = Len(todo) - 1
         /\ \A i \in 1 .. Len(todo) - 1 : Tail(todo)[i] = todo[i + 1]
         /\ Len(todo) \in Nat /\ Len(todo) >= 1
<1>1. todo \in Seq(Kinds \X Conns)
  BY DEF TypeOK
<1>2. Head(todo) \in Kinds \X Conns
  BY <1>1, HeadTailProperties
<1>3. Len(todo) \in Nat /\ Len(todo) >= 1
  BY <1>1, LenProperties, EmptySeq
<1> QED
  BY <1>1, <1>2, <1>3, HeadTailProperties

(* Who calls emit; every other step leaves the producers' side alone.        *)
LEMMA WhoEmits ==
  ASSUME TypeOK, [Next]_vars
  PROVE  \/ /\ LoopEmit /\ todo # <<>>
            /\ Head(todo)[1] \in Kinds /\ Head(todo)[2] \in Sids
            /\ Emit(Head(todo)[1], Head(todo)[2])
         \/ \E c \in threads : ThreadRecord(c) /\ c \in Sids /\ Emit("event", c)
         \/ Start \/ Stop \/ Writer \/ UNCHANGED loggerVars
<1> USE SidsAreConns
<1>1. CASE LoopEmit
  BY <1>1, HeadOfTodo DEF LoopEmit
<1>2. ASSUME NEW c \in Conns, ThreadRecord(c)
      PROVE  c \in threads /\ c \in Sids /\ Emit("event", c)
  BY <1>2 DEF ThreadRecord
<1>3. CASE StartLogger \/ BeginStop \/ StopLogger \/ Exit \/ WriterStep
  BY <1>3 DEF StartLogger, BeginStop, StopLogger, Exit, WriterStep, Stop
<1>4. ASSUME NEW c \in Conns,
             \/ TurnAway(c) \/ Admit(c) \/ LoopRecord(c) \/ HandlerEnds(c) \/ Timeout(c)
             \/ ThreadStarts(c) \/ ThreadCheck(c) \/ ThreadEnds(c) \/ Cancel(c)
      PROVE  UNCHANGED loggerVars
  BY <1>4 DEF TurnAway, Admit, LoopRecord, HandlerEnds, Timeout, ThreadStarts, ThreadCheck,
              ThreadEnds, Cancel, End
<1>5. ASSUME NEW s \in Services, StartService(s) \/ CloseListener(s) \/ WaitClosed(s)
      PROVE  UNCHANGED loggerVars
  BY <1>5 DEF StartService, CloseListener, WaitClosed
<1>6. CASE UNCHANGED vars
  BY <1>6 DEF vars
<1> QED
  BY <1>1, <1>2, <1>3, <1>4, <1>5, <1>6 DEF Next

(* Every step of the sensor is a step of the logger, or none. *)
LEMMA SensorDrivesLogger ==
  ASSUME TypeOK, [Next]_vars
  PROVE  [LoggerStep]_loggerVars
<1>1. "event" \in Kinds
  BY DEF Kinds
<1> QED
  BY <1>1, WhoEmits DEF LoggerStep, Emits

(* The registry is asked when a connection arrives and told when it ends;    *)
(* each time by the handler of that connection.                              *)
LEMMA WhoRegisters ==
  ASSUME TypeOK, [Next]_vars
  PROVE  \/ \E c \in Conns : Admit(c) /\ Register(c)
         \/ \E c \in Conns : TurnAway(c) /\ Reject(c)
         \/ \E c \in Live : Unregister(c) /\ phase' = [phase EXCEPT ![c] = "ended"]
         \/ UNCHANGED <<registryVars, phase>>
<1>1. CASE LoopEmit \/ StartLogger \/ BeginStop \/ StopLogger \/ Exit \/ WriterStep
  BY <1>1 DEF LoopEmit, StartLogger, BeginStop, StopLogger, Exit, WriterStep, sensorVars, sessionVars
<1>2. ASSUME NEW c \in Conns, Admit(c) \/ TurnAway(c)
      PROVE  (Admit(c) /\ Register(c)) \/ (TurnAway(c) /\ Reject(c))
  BY <1>2 DEF Admit, TurnAway
<1>3. ASSUME NEW c \in Conns, HandlerEnds(c) \/ Timeout(c) \/ Cancel(c)
      PROVE  c \in Live /\ Unregister(c) /\ phase' = [phase EXCEPT ![c] = "ended"]
  BY <1>3 DEF HandlerEnds, Timeout, Cancel, End
<1>4. ASSUME NEW c \in Conns,
             \/ LoopRecord(c) \/ ThreadStarts(c) \/ ThreadCheck(c) \/ ThreadRecord(c) \/ ThreadEnds(c)
      PROVE  UNCHANGED <<registryVars, phase>>
  BY <1>4 DEF LoopRecord, ThreadStarts, ThreadCheck, ThreadRecord, ThreadEnds, sessionVars
<1>5. ASSUME NEW s \in Services, StartService(s) \/ CloseListener(s) \/ WaitClosed(s)
      PROVE  UNCHANGED <<registryVars, phase>>
  BY <1>5 DEF StartService, CloseListener, WaitClosed, sessionVars
<1>6. CASE UNCHANGED vars
  BY <1>6 DEF vars, sensorVars, sessionVars
<1> QED
  BY <1>1, <1>2, <1>3, <1>4, <1>5, <1>6 DEF Next

(* The registry's books in the sensor: a connection that arrives has no      *)
(* slot, one that ends has one.                                              *)
LEMMA RegistryStep ==
  ASSUME TypeOK, RegistryInv, active = Live, [Next]_vars
  PROVE  RegistryInv' /\ active' = Live'
<1>1. ASSUME NEW c \in Conns, Admit(c), Register(c) PROVE RegistryInv' /\ active' = Live'
  <2>1. c \notin active
    BY <1>1 DEF Admit, Arrives, Live
  <2>2. RegistryInv'
    BY <1>1, <2>1, RegisterKeeps
  <2>3. active' = Live'
    BY <1>1 DEF Admit, Register, Live, TypeOK
  <2> QED
    BY <2>2, <2>3
<1>2. ASSUME NEW c \in Conns, TurnAway(c), Reject(c) PROVE RegistryInv' /\ active' = Live'
  <2>1. /\ UNCHANGED <<active, perIp, totalAccepted, phase>>
        /\ rejectedGlobal' \in Nat /\ rejectedPerIp' \in Nat
    BY <1>2 DEF TurnAway, Reject, RegistryInv, RegistryTypeOK, sensorVars, sessionVars
  <2> QED
    BY <2>1 DEF RegistryInv, RegistryTypeOK, RegistryExact, WithinLimits, LiveFrom, Live
<1>3. ASSUME NEW c \in Live, Unregister(c), phase' = [phase EXCEPT ![c] = "ended"]
      PROVE  RegistryInv' /\ active' = Live'
  <2>1. RegistryInv'
    BY <1>3, UnregisterKeeps
  <2>2. active' = Live'
    BY <1>3 DEF Unregister, Live, TypeOK
  <2> QED
    BY <2>1, <2>2
<1>4. CASE UNCHANGED <<registryVars, phase>>
  BY <1>4 DEF registryVars, RegistryInv, RegistryTypeOK, RegistryExact, WithinLimits, LiveFrom, Live
<1> QED
  BY <1>1, <1>2, <1>3, <1>4, WhoRegisters

-----------------------------------------------------------------------------
(* What the handlers leave in todo *)

Jobs == Kinds \X Conns

(* n events in a row. *)
LEMMA EventsForShape ==
  ASSUME NEW c \in Conns, NEW n \in Nat
  PROVE  /\ EventsFor(c, n) \in Seq(Jobs) /\ Len(EventsFor(c, n)) = n
         /\ \A i \in 1 .. n : EventsFor(c, n)[i] = <<"event", c>>
<1>1. <<"event", c>> \in Jobs
  BY DEF Jobs, Kinds
<1> QED
  BY <1>1 DEF EventsFor

(* open(): the row, then the events. *)
LEMMA OpenItemsShape ==
  ASSUME NEW c \in Conns, NEW n \in Nat
  PROVE  /\ OpenItems(c, n) \in Seq(Jobs) /\ Len(OpenItems(c, n)) = n + 1
         /\ OpenItems(c, n)[1] = <<"open", c>>
         /\ \A i \in 2 .. n + 1 : OpenItems(c, n)[i] = <<"event", c>>
<1> DEFINE e == EventsFor(c, n)
           o == <<<<"open", c>>>>
<1>1. e \in Seq(Jobs) /\ Len(e) = n /\ \A i \in 1 .. n : e[i] = <<"event", c>>
  BY EventsForShape
<1>2. <<"open", c>> \in Jobs
  BY DEF Jobs, Kinds
<1>3. o \in Seq(Jobs) /\ Len(o) = 1 /\ o[1] = <<"open", c>>
  BY <1>2
<1>4. OpenItems(c, n) = o \o e
  BY DEF OpenItems
<1> HIDE DEF e, o
<1>5. o \o e \in Seq(Jobs) /\ Len(o \o e) = Len(o) + Len(e)
  BY <1>1, <1>3, ConcatProperties
<1>6. \A i \in 1 .. Len(o) + Len(e) : (o \o e)[i] = IF i <= Len(o) THEN o[i] ELSE e[i - Len(o)]
  BY <1>1, <1>3, ConcatProperties
<1>7. (o \o e)[1] = <<"open", c>> /\ Len(o) + Len(e) = n + 1
  <2>1. 1 \in 1 .. Len(o) + Len(e) /\ 1 <= Len(o) /\ Len(o) + Len(e) = n + 1
    BY <1>1, <1>3
  <2> QED
    BY <1>3, <1>6, <2>1
<1>8. ASSUME NEW i \in 2 .. n + 1 PROVE (o \o e)[i] = <<"event", c>>
  <2>1. i \in 1 .. Len(o) + Len(e) /\ ~(i <= Len(o)) /\ i - Len(o) \in 1 .. n
    BY <1>1, <1>3
  <2> QED
    BY <1>1, <1>6, <2>1
<1> QED
  BY <1>4, <1>5, <1>7, <1>8

(* close(): the events, then the row. *)
LEMMA CloseItemsShape ==
  ASSUME NEW c \in Conns, NEW n \in Nat
  PROVE  /\ CloseItems(c, n) \in Seq(Jobs) /\ Len(CloseItems(c, n)) = n + 1
         /\ CloseItems(c, n)[n + 1] = <<"close", c>>
         /\ \A i \in 1 .. n : CloseItems(c, n)[i] = <<"event", c>>
<1> DEFINE e == EventsFor(c, n)
           o == <<<<"close", c>>>>
<1>1. e \in Seq(Jobs) /\ Len(e) = n /\ \A i \in 1 .. n : e[i] = <<"event", c>>
  BY EventsForShape
<1>2. <<"close", c>> \in Jobs
  BY DEF Jobs, Kinds
<1>3. o \in Seq(Jobs) /\ Len(o) = 1 /\ o[1] = <<"close", c>>
  BY <1>2
<1>4. CloseItems(c, n) = e \o o
  BY DEF CloseItems
<1> HIDE DEF e, o
<1>5. e \o o \in Seq(Jobs) /\ Len(e \o o) = Len(e) + Len(o) /\ Len(e) + Len(o) = n + 1
  <2>1. e \o o \in Seq(Jobs) /\ Len(e \o o) = Len(e) + Len(o)
    BY <1>1, <1>3, ConcatProperties
  <2> QED
    BY <1>1, <1>3, <2>1
<1>6. \A i \in 1 .. Len(e) + Len(o) : (e \o o)[i] = IF i <= Len(e) THEN e[i] ELSE o[i - Len(e)]
  BY <1>1, <1>3, ConcatProperties
<1>7. (e \o o)[n + 1] = <<"close", c>>
  <2>1. n + 1 \in 1 .. Len(e) + Len(o) /\ ~(n + 1 <= Len(e)) /\ (n + 1) - Len(e) = 1
    BY <1>1, <1>3
  <2> QED
    BY <1>3, <1>6, <2>1
<1>8. ASSUME NEW i \in 1 .. n PROVE (e \o o)[i] = <<"event", c>>
  BY <1>1, <1>3, <1>6
<1> QED
  BY <1>4, <1>5, <1>7, <1>8

(* record() adds to the count what fits, and never beyond the budget. *)
LEMMA RecordedBounds ==
  ASSUME TypeOK, NEW c \in Conns, NEW n \in Nat
  PROVE  /\ Recorded(c, n) \in Nat /\ Recorded(c, n) - eventCount[c] \in Nat
         /\ Recorded(c, n) <= MaxEvents \/ Recorded(c, n) = eventCount[c]
<1>1. eventCount[c] \in Nat /\ MaxEvents \in Nat
  BY SensorAssumption DEF TypeOK
<1> QED
  BY <1>1 DEF Recorded

(* Every end of a session, whatever ended it, in one form. *)
Ends(c) == \E n \in Nat : \E pc \in {"starting", "serving", "closing", "cancelling"} :
  /\ mainPc = pc /\ todo = <<>> /\ c \in Live
  /\ phase' = [phase EXCEPT ![c] = "ended"]
  /\ eventCount[c] + n \in Nat /\ eventCount' = [eventCount EXCEPT ![c] = eventCount[c] + n]
  /\ n = 0 \/ eventCount[c] + n <= MaxEvents
  /\ todo' = CloseItems(c, n)
  /\ pending' = pending \ {c}
  /\ UNCHANGED <<loggerVars, mainVars, finalCount, threads, checked>>

LEMMA EndIsEnds ==
  ASSUME TypeOK, NEW c \in Conns, NEW reason, End(c, reason)
  PROVE  Ends(c)
<1> DEFINE m == (IF reason = "error" THEN 1 ELSE 0) + 1
           n == Recorded(c, m) - eventCount[c]
<1>1. m \in Nat
  OBVIOUS
<1> HIDE DEF m
<1>2. Recorded(c, m) \in Nat /\ n \in Nat /\ (Recorded(c, m) <= MaxEvents \/ Recorded(c, m) = eventCount[c])
  BY <1>1, RecordedBounds
<1>3. eventCount[c] \in Nat
  BY DEF TypeOK
<1>4. eventCount[c] + n = Recorded(c, m) /\ (n = 0 \/ eventCount[c] + n <= MaxEvents)
  BY <1>2, <1>3
<1>5. /\ todo = <<>> /\ mainPc \in {"starting", "serving", "closing", "cancelling"} /\ c \in Live
      /\ phase' = [phase EXCEPT ![c] = "ended"]
      /\ eventCount' = [eventCount EXCEPT ![c] = Recorded(c, m)]
      /\ todo' = CloseItems(c, n)
      /\ pending' = pending \ {c}
      /\ UNCHANGED <<loggerVars, mainVars, finalCount, threads, checked>>
  BY DEF End, LoopFree, m, TypeOK
<1> HIDE DEF n
<1> QED
  BY <1>2, <1>4, <1>5 DEF Ends

(* Every admission, in the same form. *)
Begins(c) == \E n \in Nat :
  /\ mainPc \in {"starting", "serving", "closing", "cancelling"} /\ todo = <<>>
  /\ phase[c] = "away" /\ ServiceOf[c] \in listening
  /\ phase' = [phase EXCEPT ![c] = "live"]
  /\ eventCount[c] + n \in Nat /\ eventCount' = [eventCount EXCEPT ![c] = eventCount[c] + n]
  /\ n = 0 \/ eventCount[c] + n <= MaxEvents
  /\ todo' = OpenItems(c, n)
  /\ pending' = IF c \in FullMode THEN pending \cup {c} ELSE pending
  /\ UNCHANGED <<loggerVars, mainVars, finalCount, threads, checked>>

LEMMA AdmitIsBegins ==
  ASSUME TypeOK, NEW c \in Conns, Admit(c)
  PROVE  Begins(c)
<1> DEFINE n == Recorded(c, 1) - eventCount[c]
<1>1. Recorded(c, 1) \in Nat /\ n \in Nat /\ (Recorded(c, 1) <= MaxEvents \/ Recorded(c, 1) = eventCount[c])
  BY RecordedBounds
<1>2. eventCount[c] \in Nat /\ eventCount \in [Conns -> Nat]
  BY DEF TypeOK
<1>3. eventCount[c] + n = Recorded(c, 1) /\ (n = 0 \/ eventCount[c] + n <= MaxEvents)
  BY <1>1, <1>2
<1>4. /\ todo = <<>> /\ mainPc \in {"starting", "serving", "closing", "cancelling"}
      /\ phase[c] = "away" /\ ServiceOf[c] \in listening
      /\ phase' = [phase EXCEPT ![c] = "live"]
      /\ eventCount' = [eventCount EXCEPT ![c] = Recorded(c, 1)]
      /\ todo' = OpenItems(c, eventCount'[c] - eventCount[c])
      /\ pending' = IF c \in FullMode THEN pending \cup {c} ELSE pending
      /\ UNCHANGED <<loggerVars, mainVars, finalCount, threads, checked>>
  BY DEF Admit, Arrives, LoopFree, TypeOK
<1>5. todo' = OpenItems(c, n)
  BY <1>2, <1>4
<1> HIDE DEF n
<1> QED
  BY <1>1, <1>3, <1>4, <1>5 DEF Begins

(* A step of the sensor, sorted by what it does to the sessions. *)
LEMMA SensorSteps ==
  ASSUME TypeOK, [Next]_vars
  PROVE  \/ LoopEmit
         \/ \E c \in Conns : Begins(c)
         \/ \E c \in Conns : LoopRecord(c)
         \/ \E c \in Conns : Ends(c)
         \/ \E c \in Conns : ThreadStarts(c)
         \/ \E c \in Conns : ThreadCheck(c)
         \/ \E c \in Conns : ThreadRecord(c)
         \/ \E c \in Conns : ThreadEnds(c)
         \/ UNCHANGED <<sessionVars, todo, threadVars>> /\ (StartLogger \/ BeginStop \/ StopLogger \/ Exit)
         \/ /\ UNCHANGED <<sessionVars, todo, threadVars>>
            /\ \E s \in Services : StartService(s) \/ CloseListener(s) \/ WaitClosed(s)
         \/ UNCHANGED <<sessionVars, todo, threadVars, mainVars>> /\ (UNCHANGED stopPc)
<1>1. CASE StartLogger \/ BeginStop \/ StopLogger \/ Exit
  BY <1>1 DEF StartLogger, BeginStop, StopLogger, Exit, sensorVars
<1>2. CASE WriterStep
  <2>1. Writer /\ UNCHANGED sensorVars
    BY <1>2 DEF WriterStep
  <2>2. UNCHANGED stopPc
    BY <2>1 DEF Writer, GetItem, GetSentinel, GetEmpty, CheckRunning, DrainItem, DrainEmpty,
       FlushBegin, WriteJsonl, WriteJsonlFails, WriterDies, WriteDb, WriteDbFails, WriteNoDb, FlushReturns
  <2> QED
    BY <2>1, <2>2 DEF sensorVars
<1>3. ASSUME NEW c \in Conns, TurnAway(c)
      PROVE  UNCHANGED <<sessionVars, todo, threadVars, mainVars, stopPc>>
  BY <1>3 DEF TurnAway, sensorVars, loggerVars
<1>4. ASSUME NEW c \in Conns, HandlerEnds(c) \/ Timeout(c) \/ Cancel(c)
      PROVE  Ends(c)
  <2>1. \E reason : End(c, reason)
    BY <1>4 DEF HandlerEnds, Timeout, Cancel
  <2> QED
    BY <2>1, EndIsEnds
<1>5. ASSUME NEW s \in Services, StartService(s) \/ CloseListener(s) \/ WaitClosed(s)
      PROVE  UNCHANGED <<sessionVars, todo, threadVars>>
  BY <1>5 DEF StartService, CloseListener, WaitClosed
<1>6. CASE UNCHANGED vars
  BY <1>6 DEF vars, sensorVars, loggerVars
<1> QED
  BY <1>1, <1>2, <1>3, <1>4, <1>5, <1>6, AdmitIsBegins DEF Next

-----------------------------------------------------------------------------
(* Types, and where everybody is *)

(* One step of the sensor keeps its types. *)
LEMMA SensorTypeStep ==
  ASSUME TypeOK, RegistryTypeOK', [Next]_vars
  PROVE  TypeOK'
<1>0. /\ LoggerTypeOK
      /\ mainPc \in {"starting", "serving", "closing", "logger", "cancelling", "exited"}
      /\ listening \subseteq Services /\ waiting \subseteq Services
      /\ phase \in [Conns -> {"away", "live", "ended"}]
      /\ eventCount \in [Conns -> Nat] /\ finalCount \in [Conns -> Nat]
      /\ todo \in Seq(Jobs)
      /\ pending \subseteq FullMode /\ threads \subseteq FullMode
      /\ checked \in [FullMode -> {0, 1, 2}]
  <2>1. 0 .. Recorders = {0, 1, 2}
    BY DEF Recorders
  <2> QED
    BY <2>1 DEF TypeOK, Jobs
<1>1. LoggerTypeOK'
  BY <1>0, SensorDrivesLogger, TypeStep
<1>2. /\ mainPc' \in {"starting", "serving", "closing", "logger", "cancelling", "exited"}
      /\ listening' \subseteq Services /\ waiting' \subseteq Services
  BY <1>0 DEF Next, vars, sensorVars, mainVars, LoopEmit, StartLogger, BeginStop, StopLogger, Exit,
     WriterStep, TurnAway, Admit, LoopRecord, HandlerEnds, Timeout, ThreadStarts, ThreadCheck,
     ThreadRecord, ThreadEnds, Cancel, End, StartService, CloseListener, WaitClosed
<1>3. /\ phase' \in [Conns -> {"away", "live", "ended"}]
      /\ eventCount' \in [Conns -> Nat] /\ finalCount' \in [Conns -> Nat]
      /\ todo' \in Seq(Jobs)
      /\ pending' \subseteq FullMode /\ threads' \subseteq FullMode
      /\ checked' \in [FullMode -> {0, 1, 2}]
  <2> USE DEF sessionVars, threadVars
  <2>1. CASE LoopEmit
    <3>1. todo' \in Seq(Jobs)
      BY <2>1, HeadOfTodo DEF LoopEmit, Jobs
    <3>2. finalCount' \in [Conns -> Nat]
      BY <1>0, <2>1, HeadOfTodo DEF LoopEmit
    <3> QED
      BY <1>0, <2>1, <3>1, <3>2 DEF LoopEmit
  <2>2. ASSUME NEW c \in Conns, Begins(c) \/ Ends(c) PROVE <1>3!:
    <3>1. todo' \in Seq(Jobs)
      BY <2>2, OpenItemsShape, CloseItemsShape DEF Begins, Ends
    <3>2. eventCount' \in [Conns -> Nat]
      BY <1>0, <2>2 DEF Begins, Ends
    <3> QED
      BY <1>0, <2>2, <3>1, <3>2 DEF Begins, Ends
  <2>3. ASSUME NEW c \in Conns, LoopRecord(c) PROVE <1>3!:
    <3>1. todo' \in Seq(Jobs)
      BY <2>3, EventsForShape DEF LoopRecord
    <3>2. eventCount' \in [Conns -> Nat]
      BY <1>0, <2>3 DEF LoopRecord
    <3> QED
      BY <1>0, <2>3, <3>1, <3>2 DEF LoopRecord
  <2>4. ASSUME NEW c \in Conns, ThreadStarts(c) \/ ThreadEnds(c) PROVE <1>3!:
    BY <1>0, <2>4 DEF ThreadStarts, ThreadEnds
  <2>5. ASSUME NEW c \in Conns, ThreadCheck(c) PROVE <1>3!:
    <3>1. c \in FullMode /\ checked[c] \in {0, 1}
      BY <1>0, <2>5 DEF ThreadCheck, Recorders
    <3> QED
      BY <1>0, <2>5, <3>1 DEF ThreadCheck
  <2>6. ASSUME NEW c \in Conns, ThreadRecord(c) PROVE <1>3!:
    <3>1. c \in FullMode /\ checked[c] \in {1, 2} /\ eventCount[c] \in Nat
      BY <1>0, <2>6 DEF ThreadRecord
    <3> QED
      BY <1>0, <2>6, <3>1 DEF ThreadRecord
  <2>7. CASE UNCHANGED <<sessionVars, todo, threadVars>>
    BY <1>0, <2>7
  <2> QED
    BY <2>1, <2>2, <2>3, <2>4, <2>5, <2>6, <2>7, SensorSteps
<1>4. {0, 1, 2} = 0 .. Recorders
  BY DEF Recorders
<1> QED
  BY <1>1, <1>2, <1>3, <1>4 DEF TypeOK, Jobs

(* One step keeps run() and the logger's stop() in step. *)
LEMMA MainPlaceStep ==
  ASSUME TypeOK, MainPlace, TypeOK', [Next]_vars
  PROVE  MainPlace'
<1> USE DEF mainVars, sessionVars, threadVars, Live
<1>0. /\ phase \in [Conns -> {"away", "live", "ended"}]
      /\ mainPc \in {"starting", "serving", "closing", "logger", "cancelling", "exited"}
  BY DEF TypeOK
<1>1. CASE LoopEmit
  <2>1. UNCHANGED <<mainVars, phase, stopPc>> /\ todo # <<>>
    BY <1>1 DEF LoopEmit, Emit
  <2>2. WaitsForClients => mainPc \notin {"logger", "cancelling", "exited"}
    BY <2>1 DEF MainPlace
  <2> QED
    BY <2>1, <2>2 DEF MainPlace
<1>2. ASSUME NEW c \in Conns, Begins(c) PROVE MainPlace'
  <2>1. /\ UNCHANGED <<mainVars, stopPc>> /\ ServiceOf[c] \in listening
        /\ phase' = [phase EXCEPT ![c] = "live"]
    BY <1>2 DEF Begins, loggerVars
  <2>2. mainPc \notin {"logger", "cancelling", "exited"}
    BY <2>1 DEF MainPlace
  <2> QED
    BY <1>0, <2>1, <2>2 DEF MainPlace
<1>3. ASSUME NEW c \in Conns, Ends(c) PROVE MainPlace'
  <2>1. /\ UNCHANGED <<mainVars, stopPc>> /\ c \in Live
        /\ phase' = [phase EXCEPT ![c] = "ended"]
    BY <1>3 DEF Ends, loggerVars
  <2>2. WaitsForClients => mainPc \notin {"logger", "cancelling", "exited"}
    BY <2>1 DEF MainPlace
  <2> QED
    BY <1>0, <2>1, <2>2 DEF MainPlace
<1>4. ASSUME NEW c \in Conns, LoopRecord(c) PROVE MainPlace'
  <2>1. UNCHANGED <<mainVars, stopPc, phase>> /\ c \in Live
    BY <1>4 DEF LoopRecord, loggerVars
  <2>2. WaitsForClients => mainPc \notin {"logger", "cancelling", "exited"}
    BY <2>1 DEF MainPlace
  <2> QED
    BY <2>1, <2>2 DEF MainPlace
<1>5. ASSUME NEW c \in Conns, ThreadStarts(c) \/ ThreadCheck(c) \/ ThreadRecord(c) \/ ThreadEnds(c)
      PROVE  MainPlace'
  <2>1. UNCHANGED <<mainVars, stopPc, phase, todo>>
    BY <1>5 DEF ThreadStarts, ThreadCheck, ThreadRecord, ThreadEnds, Emit, loggerVars
  <2> QED
    BY <2>1 DEF MainPlace
<1>6. CASE UNCHANGED <<sessionVars, todo, threadVars>> /\ (StartLogger \/ BeginStop \/ StopLogger \/ Exit)
  <2>1. CASE StartLogger
    BY <1>6, <2>1 DEF StartLogger, Start, sensorVars, MainPlace
  <2>2. CASE BeginStop
    BY <1>6, <2>2 DEF BeginStop, loggerVars, MainPlace
  <2>3. CASE Exit
    BY <1>6, <2>3 DEF Exit, loggerVars, MainPlace
  <2>4. CASE StopLogger /\ mainPc = "closing"
    <3>1. /\ stopPc' = "clear" /\ mainPc' = "logger" /\ todo = <<>>
          /\ listening = {} /\ waiting = {} /\ UNCHANGED <<listening, waiting, phase, todo>>
      BY <1>6, <2>4 DEF StopLogger, StopClear, LoopFree
    <3> QED
      BY <3>1 DEF MainPlace
  <2>5. CASE StopLogger /\ mainPc # "closing"
    <3>1. /\ mainPc = "logger" /\ stopPc \notin {"idle", "up", "stopped"} /\ Stop
          /\ mainPc' = IF stopPc' = "stopped" THEN "cancelling" ELSE mainPc
          /\ UNCHANGED <<listening, waiting, phase, todo>>
      BY <1>6, <2>5 DEF StopLogger, MainPlace
    <3>2. stopPc' \notin {"idle", "up"}
      BY <3>1 DEF Stop, StopClear, StopSentinel, StopJoin, StopCloseHandle, StopForgetHandle
    <3> QED
      BY <3>1, <3>2 DEF MainPlace
  <2> QED
    BY <1>6, <2>1, <2>2, <2>3, <2>4, <2>5
<1>7. CASE /\ UNCHANGED <<sessionVars, todo, threadVars>>
           /\ \E s \in Services : StartService(s) \/ CloseListener(s) \/ WaitClosed(s)
  <2> PICK s \in Services : StartService(s) \/ CloseListener(s) \/ WaitClosed(s)
    BY <1>7
  <2>0. UNCHANGED <<phase, todo, stopPc>>
    BY <1>7 DEF StartService, CloseListener, WaitClosed, loggerVars
  <2>1. CASE StartService(s)
    BY <2>0, <2>1 DEF StartService, MainPlace
  <2>2. CASE CloseListener(s)
    BY <2>0, <2>2 DEF CloseListener, MainPlace
  <2>3. CASE WaitClosed(s)
    BY <2>0, <2>3 DEF WaitClosed, MainPlace
  <2> QED
    BY <2>1, <2>2, <2>3
<1>8. CASE UNCHANGED <<sessionVars, todo, threadVars, mainVars>> /\ UNCHANGED stopPc
  BY <1>8 DEF MainPlace
<1> QED
  BY <1>1, <1>2, <1>3, <1>4, <1>5, <1>6, <1>7, <1>8, SensorSteps

(* One step keeps the sessions, their threads and their budgets in place.    *)
LEMMA SessionPlaceStep ==
  ASSUME TypeOK, SessionPlace, active' = Live', [Next]_vars
  PROVE  SessionPlace'
<1> USE DEF sessionVars, threadVars
<1>0. /\ phase \in [Conns -> {"away", "live", "ended"}] /\ eventCount \in [Conns -> Nat]
      /\ pending \subseteq FullMode /\ threads \subseteq FullMode /\ FullMode \subseteq Conns
      /\ MaxEvents \in Nat /\ checked \in [FullMode -> 0 .. 2] /\ Recorders = 2
  BY SensorAssumption DEF TypeOK, Recorders
<1>1. CASE LoopEmit
  BY <1>1 DEF LoopEmit, SessionPlace, Live
<1>2. ASSUME NEW c \in Conns, Begins(c) PROVE SessionPlace'
  <2>1. PICK n \in Nat : /\ phase[c] = "away" /\ phase' = [phase EXCEPT ![c] = "live"]
                         /\ eventCount' = [eventCount EXCEPT ![c] = eventCount[c] + n]
                         /\ n = 0 \/ eventCount[c] + n <= MaxEvents
                         /\ pending' = IF c \in FullMode THEN pending \cup {c} ELSE pending
                         /\ UNCHANGED <<threads, checked>>
    BY <1>2 DEF Begins
  <2> QED
    BY <1>0, <2>1 DEF SessionPlace, Live
<1>3. ASSUME NEW c \in Conns, Ends(c) PROVE SessionPlace'
  <2>1. PICK n \in Nat : /\ c \in Live /\ phase' = [phase EXCEPT ![c] = "ended"]
                         /\ eventCount' = [eventCount EXCEPT ![c] = eventCount[c] + n]
                         /\ n = 0 \/ eventCount[c] + n <= MaxEvents
                         /\ pending' = pending \ {c}
                         /\ UNCHANGED <<threads, checked>>
    BY <1>3 DEF Ends
  <2> QED
    BY <1>0, <2>1 DEF SessionPlace, Live
<1>4. ASSUME NEW c \in Conns, LoopRecord(c) PROVE SessionPlace'
  BY <1>0, <1>4 DEF LoopRecord, SessionPlace, Live
<1>5. ASSUME NEW c \in Conns, ThreadStarts(c) \/ ThreadEnds(c) PROVE SessionPlace'
  BY <1>0, <1>5 DEF ThreadStarts, ThreadEnds, SessionPlace, Live
<1>6. ASSUME NEW c \in Conns, ThreadCheck(c) PROVE SessionPlace'
  BY <1>0, <1>6 DEF ThreadCheck, SessionPlace, Live
<1>7. ASSUME NEW c \in Conns, ThreadRecord(c) PROVE SessionPlace'
  BY <1>0, <1>7 DEF ThreadRecord, SessionPlace, Live
<1>8. CASE UNCHANGED <<sessionVars, todo, threadVars>>
  BY <1>8 DEF SessionPlace, Live
<1> QED
  BY <1>1, <1>2, <1>3, <1>4, <1>5, <1>6, <1>7, <1>8, SensorSteps

(* The rest of todo once its head has been put, and the shape of it. *)
LEMMA TodoTail ==
  ASSUME TypeOK, TodoShape, LoopEmit
  PROVE  /\ todo # <<>> /\ todo' = Tail(todo) /\ Len(todo) \in Nat \ {0}
         /\ DOMAIN todo = 1 .. Len(todo) /\ DOMAIN todo' = 1 .. Len(todo) - 1
         /\ Len(todo') = Len(todo) - 1
         /\ \A i \in DOMAIN todo' : i + 1 \in DOMAIN todo /\ todo'[i] = todo[i + 1]
         /\ \A i \in DOMAIN todo : todo[i][2] = todo[1][2] /\ (i # 1 => todo[i][1] # "open")
         /\ todo' = <<>> <=> Len(todo) = 1
<1>1. todo # <<>> /\ todo' = Tail(todo)
  BY DEF LoopEmit
<1>2. /\ Len(todo) \in Nat /\ Len(todo) >= 1 /\ todo \in Seq(Jobs) /\ todo' \in Seq(Jobs)
      /\ Len(todo') = Len(todo) - 1 /\ \A i \in 1 .. Len(todo) - 1 : todo'[i] = todo[i + 1]
  BY <1>1, HeadOfTodo DEF TypeOK, Jobs
<1>3. DOMAIN todo = 1 .. Len(todo) /\ DOMAIN todo' = 1 .. Len(todo')
  BY <1>2, LenProperties
<1>4. todo' = <<>> <=> Len(todo') = 0
  BY <1>2, EmptySeq
<1>5. \A i \in DOMAIN todo : todo[i][2] = todo[1][2] /\ (i # 1 => todo[i][1] # "open")
  BY DEF TodoShape
<1> QED
  BY <1>1, <1>2, <1>3, <1>4, <1>5

(* One step keeps the running handler's work in shape. *)
LEMMA TodoShapeStep ==
  ASSUME TypeOK, SessionPlace, TodoShape, [Next]_vars
  PROVE  TodoShape'
<1> USE DEF sessionVars, threadVars
<1>0. phase \in [Conns -> {"away", "live", "ended"}]
  BY DEF TypeOK
<1>1. CASE LoopEmit
  <2>1. UNCHANGED <<phase, threads>>
    BY <1>1 DEF LoopEmit
  <2>2. ASSUME NEW i \in DOMAIN todo' PROVE TodoShape!(i)'
    <3>1. /\ i + 1 \in DOMAIN todo /\ todo'[i] = todo[i + 1] /\ i \in Nat /\ i + 1 # 1
          /\ 1 \in DOMAIN todo' /\ todo'[1] = todo[2] /\ todo[2][2] = todo[1][2]
          /\ (i + 1 = Len(todo) => i = Len(todo'))
      BY <1>1, <2>2, TodoTail
    <3> QED
      BY <1>1, <2>1, <3>1 DEF TodoShape
  <2> QED
    BY <2>2 DEF TodoShape
<1>2. ASSUME NEW c \in Conns, Begins(c) PROVE TodoShape'
  <2>1. PICK n \in Nat : phase[c] = "away" /\ phase' = [phase EXCEPT ![c] = "live"]
                         /\ todo' = OpenItems(c, n) /\ UNCHANGED threads
    BY <1>2 DEF Begins
  <2>2. todo' \in Seq(Jobs) /\ Len(todo') = n + 1
    BY <2>1, OpenItemsShape
  <2>3. DOMAIN todo' = 1 .. n + 1
    BY <2>2, LenProperties
  <2>4. todo'[1] = <<"open", c>> /\ \A i \in DOMAIN todo' : i = 1 \/ todo'[i] = <<"event", c>>
    <3>1. \A i \in 1 .. n + 1 : i = 1 \/ i \in 2 .. n + 1
      OBVIOUS
    <3>2. todo'[1] = <<"open", c>> /\ \A i \in 2 .. n + 1 : todo'[i] = <<"event", c>>
      BY <2>1, OpenItemsShape
    <3> QED
      BY <2>3, <3>1, <3>2
  <2>5. c \notin threads' /\ phase'[c] = "live"
    BY <1>0, <2>1 DEF SessionPlace
  <2>6. 1 \in DOMAIN todo' /\ \A i \in DOMAIN todo' :
          todo'[i][2] = c /\ todo'[i][1] # "close" /\ (todo'[i][1] = "open" => i = 1)
    BY <2>3, <2>4
  <2> QED
    BY <2>5, <2>6 DEF TodoShape
<1>3. ASSUME NEW c \in Conns, Ends(c) PROVE TodoShape'
  <2>1. PICK n \in Nat : phase' = [phase EXCEPT ![c] = "ended"] /\ todo' = CloseItems(c, n)
    BY <1>3 DEF Ends
  <2>2. todo' \in Seq(Jobs) /\ Len(todo') = n + 1
    BY <2>1, CloseItemsShape
  <2>3. DOMAIN todo' = 1 .. n + 1
    BY <2>2, LenProperties
  <2>4. \A i \in DOMAIN todo' : todo'[i] = <<"event", c>> \/ (i = n + 1 /\ todo'[i] = <<"close", c>>)
    <3>1. \A i \in 1 .. n + 1 : i = n + 1 \/ i \in 1 .. n
      OBVIOUS
    <3>2. todo'[n + 1] = <<"close", c>> /\ \A i \in 1 .. n : todo'[i] = <<"event", c>>
      BY <2>1, CloseItemsShape
    <3> QED
      BY <2>3, <3>1, <3>2
  <2>5. phase'[c] = "ended" /\ 1 \in DOMAIN todo'
    BY <1>0, <2>1, <2>3
  <2>6. \A i \in DOMAIN todo' :
          todo'[i][2] = c /\ todo'[i][1] # "open" /\ (todo'[i][1] = "close" => i = Len(todo'))
    BY <2>2, <2>4
  <2> QED
    BY <2>5, <2>6 DEF TodoShape
<1>4. ASSUME NEW c \in Conns, LoopRecord(c) PROVE TodoShape'
  <2>1. phase[c] = "live" /\ UNCHANGED phase /\ todo' = EventsFor(c, 1)
    BY <1>4 DEF LoopRecord, Live
  <2>2. todo' \in Seq(Jobs) /\ Len(todo') = 1 /\ \A i \in 1 .. 1 : todo'[i] = <<"event", c>>
    BY <2>1, EventsForShape
  <2>3. DOMAIN todo' = 1 .. 1
    BY <2>2, LenProperties
  <2> QED
    BY <2>1, <2>2, <2>3 DEF TodoShape
<1>5. ASSUME NEW c \in Conns, ThreadStarts(c) PROVE TodoShape'
  BY <1>5 DEF ThreadStarts, TodoShape
<1>6. ASSUME NEW c \in Conns, ThreadCheck(c) \/ ThreadRecord(c) \/ ThreadEnds(c) PROVE TodoShape'
  BY <1>6 DEF ThreadCheck, ThreadRecord, ThreadEnds, TodoShape
<1>7. CASE UNCHANGED <<sessionVars, todo, threadVars>>
  BY <1>7 DEF TodoShape
<1> QED
  BY <1>1, <1>2, <1>3, <1>4, <1>5, <1>6, <1>7, SensorSteps

-----------------------------------------------------------------------------
(* The queue's history *)

(* A call of emit that was not counted as a drop put its item behind all     *)
(* others.                                                                   *)
LEMMA EmitPuts ==
  ASSUME LoggerTypeOK, NEW kind \in Kinds, NEW c \in Sids, Emit(kind, c), dropped' = 0
  PROVE  /\ dropped = 0
         /\ \E x \in Things : /\ x # Sentinel /\ x.kind = kind /\ x.sid = c
                              /\ accepted' = Append(accepted, x)
<1>1. dropped \in Nat /\ offered' \in Nat
  BY DEF LoggerTypeOK, Emit
<1>2. ~(dropped' = dropped + 1)
  BY <1>1
<1> DEFINE x == [id |-> offered', kind |-> kind, sid |-> c]
<1>3. dropped' = dropped /\ accepted' = Append(accepted, x)
  BY <1>2 DEF Emit, Put
<1>4. x \in Items /\ x.kind = kind /\ x.sid = c
  BY <1>1 DEF Items
<1>5. x \in Things /\ x # Sentinel
  BY <1>4, LoggerAssumption DEF Things
<1> QED
  BY <1>3, <1>4, <1>5

(* Nobody else puts anything but the sentinel. *)
LEMMA OthersPutSentinel ==
  ASSUME Start \/ Stop \/ Writer \/ UNCHANGED loggerVars
  PROVE  /\ dropped' = dropped
         /\ accepted' = accepted \/ accepted' = Append(accepted, Sentinel)
<1> USE DEF fields
<1>1. CASE Start \/ Stop
  BY <1>1 DEF Start, Stop, StopClear, StopSentinel, StopJoin, StopCloseHandle, StopForgetHandle, Put
<1>2. CASE Writer
  BY <1>2 DEF Writer, GetItem, GetSentinel, GetEmpty, CheckRunning, DrainItem, DrainEmpty,
     FlushBegin, WriteJsonl, WriteJsonlFails, WriterDies, WriteDb, WriteDbFails, WriteNoDb, FlushReturns
<1>3. CASE UNCHANGED loggerVars
  BY <1>3 DEF loggerVars
<1> QED
  BY <1>1, <1>2, <1>3

(* The history after a step without a drop: as it was, or longer by the      *)
(* sentinel, by the head of todo or by an event of a thread.                 *)
LEMMA HistoryGrows ==
  ASSUME TypeOK, [Next]_vars, dropped' = 0
  PROVE  /\ dropped = 0
         /\ \/ ~LoopEmit /\ accepted' = accepted
            \/ ~LoopEmit /\ accepted' = Append(accepted, Sentinel)
            \/ /\ LoopEmit /\ todo # <<>>
               /\ \E x \in Things : /\ x # Sentinel /\ accepted' = Append(accepted, x)
                                    /\ x.kind = todo[1][1] /\ x.sid = todo[1][2]
            \/ \E c \in threads : /\ ThreadRecord(c)
                                  /\ \E x \in Things : /\ x # Sentinel /\ accepted' = Append(accepted, x)
                                                       /\ x.kind = "event" /\ x.sid = c
<1>0. LoggerTypeOK /\ "event" \in Kinds
  BY DEF TypeOK, Kinds
<1>1. CASE /\ LoopEmit /\ todo # <<>>
           /\ Head(todo)[1] \in Kinds /\ Head(todo)[2] \in Sids
           /\ Emit(Head(todo)[1], Head(todo)[2])
  BY <1>0, <1>1, EmitPuts, HeadOfTodo
<1>2. CASE \E c \in threads : ThreadRecord(c) /\ c \in Sids /\ Emit("event", c)
  BY <1>0, <1>2, EmitPuts
<1>3. CASE (Start \/ Stop \/ Writer \/ UNCHANGED loggerVars) /\ ~LoopEmit
  BY <1>3, OthersPutSentinel
<1> QED
  BY <1>1, <1>2, <1>3, WhoEmits, HeadOfTodo, SidsAreConns DEF LoopEmit

(* Appending keeps what the history holds and adds one thing to it. *)
LEMMA HistoryAppend ==
  ASSUME TypeOK, NEW x \in Things, accepted' = Append(accepted, x)
  PROVE  /\ Len(accepted) \in Nat /\ DOMAIN accepted = 1 .. Len(accepted)
         /\ DOMAIN accepted' = DOMAIN accepted \cup {Len(accepted) + 1}
         /\ \A i \in DOMAIN accepted : /\ accepted'[i] = accepted[i] /\ i \in Nat
                                       /\ i < Len(accepted) + 1
         /\ accepted'[Len(accepted) + 1] = x
         /\ Len(accepted) + 1 \notin DOMAIN accepted
<1>1. accepted \in Seq(Things)
  BY DEF TypeOK, LoggerTypeOK, Things
<1>2. Len(accepted) \in Nat /\ DOMAIN accepted = 1 .. Len(accepted)
  BY <1>1, LenProperties
<1> QED
  BY <1>1, <1>2, AppendKeeps

(* Every item that is not a row has its session's row before it. *)
RowBefore ==
  \A i \in DOMAIN accepted :
    accepted[i] # Sentinel /\ accepted[i].kind # "open" =>
      \E j \in DOMAIN accepted : j < i /\ IsItem(accepted[j], "open", accepted[i].sid)

LEMMA AppendOpens ==
  ASSUME TypeOK, RowBefore, NEW x \in Things, accepted' = Append(accepted, x),
         x # Sentinel /\ x.kind # "open" => Opened(x.sid)
  PROVE  /\ RowBefore'
         /\ \A c : Opened(c) => Opened(c)'
         /\ x # Sentinel /\ x.kind = "open" => Opened(x.sid)'
<1> DEFINE n == Len(accepted) + 1
<1>1. /\ DOMAIN accepted' = DOMAIN accepted \cup {n} /\ accepted'[n] = x
      /\ \A i \in DOMAIN accepted : accepted'[i] = accepted[i] /\ i < n
  BY HistoryAppend
<1> HIDE DEF n
<1>2. ASSUME NEW c, Opened(c) PROVE Opened(c)' /\ \E j \in DOMAIN accepted' : j < n /\ IsItem(accepted'[j], "open", c)
  BY <1>1, <1>2 DEF Opened, IsItem
<1>3. x # Sentinel /\ x.kind = "open" => Opened(x.sid)'
  BY <1>1 DEF Opened, IsItem
<1>4. ASSUME NEW i \in DOMAIN accepted', accepted'[i] # Sentinel, accepted'[i].kind # "open"
      PROVE  \E j \in DOMAIN accepted' : j < i /\ IsItem(accepted'[j], "open", accepted'[i].sid)
  <2>1. CASE i = n
    BY <1>1, <1>2, <1>4, <2>1
  <2>2. CASE i \in DOMAIN accepted
    BY <1>1, <1>4, <2>2 DEF RowBefore, IsItem
  <2> QED
    BY <1>1, <2>1, <2>2
<1>5. RowBefore'
  BY <1>4 DEF RowBefore
<1> QED
  BY <1>2, <1>3, <1>5

(* One step keeps the rows in front. *)
LEMMA OpensFirstStep ==
  ASSUME TypeOK, SessionPlace, TodoShape, OpensFirst, [Next]_vars
  PROVE  OpensFirst'
<1> SUFFICES ASSUME dropped' = 0
             PROVE  /\ RowBefore'
                    /\ \A c \in Conns : phase'[c] # "away" =>
                         Opened(c)' \/ (todo' # <<>> /\ todo'[1] = <<"open", c>>)
  BY DEF OpensFirst, RowBefore
<1> DEFINE Begun(c) == Opened(c) \/ (todo # <<>> /\ todo[1] = <<"open", c>>)
<1>0. /\ dropped = 0 /\ phase \in [Conns -> {"away", "live", "ended"}]
      /\ Sentinel \in Things /\ threads \subseteq Conns
  BY HistoryGrows, SensorAssumption DEF TypeOK, Things
<1>1. RowBefore /\ \A c \in Conns : phase[c] # "away" => Begun(c)
  BY <1>0 DEF OpensFirst, RowBefore
<1>2. CASE LoopEmit
  <2>1. PICK x \in Things : /\ x # Sentinel /\ accepted' = Append(accepted, x)
                            /\ x.kind = todo[1][1] /\ x.sid = todo[1][2]
    <3>1. ASSUME NEW c \in threads, ThreadRecord(c) PROVE FALSE
      <4>1. todo' = todo
        BY <3>1 DEF ThreadRecord
      <4> QED
        BY <1>2, <4>1, TodoTail
    <3> QED
      BY <1>2, <3>1, HistoryGrows
  <2>2. 1 \in DOMAIN todo /\ todo # <<>> /\ todo[1][2] \in Conns /\ phase[todo[1][2]] # "away"
    BY <1>2, TodoTail, HeadOfTodo DEF TodoShape
  <2>3. todo[1][1] # "open" => Opened(todo[1][2])
    BY <1>1, <2>2
  <2>4. /\ RowBefore' /\ \A c : Opened(c) => Opened(c)'
        /\ x.kind = "open" => Opened(x.sid)'
    BY <1>1, <2>1, <2>3, AppendOpens
  <2>5. ASSUME NEW c \in Conns, phase'[c] # "away" PROVE Opened(c)'
    <3>1. Begun(c)
      BY <1>1, <1>2, <2>5 DEF LoopEmit
    <3> QED
      BY <2>1, <2>4, <3>1
  <2> QED
    BY <2>4, <2>5
<1>3. CASE ~LoopEmit
  <2>1. RowBefore' /\ \A c : Opened(c) => Opened(c)'
    <3>1. CASE accepted' = accepted
      BY <1>1, <3>1 DEF RowBefore, Opened
    <3>2. CASE accepted' = Append(accepted, Sentinel)
      BY <1>0, <1>1, <3>2, AppendOpens
    <3>3. ASSUME NEW c \in threads, NEW x \in Things, x # Sentinel, accepted' = Append(accepted, x),
                 x.kind = "event", x.sid = c
          PROVE  RowBefore' /\ \A d : Opened(d) => Opened(d)'
      <4>1. c \in Conns /\ phase[c] # "away"
        BY <1>0 DEF SessionPlace
      <4>2. ~(todo # <<>> /\ todo[1] = <<"open", c>>)
        <5> SUFFICES ASSUME todo # <<>>, todo[1] = <<"open", c>> PROVE FALSE
          OBVIOUS
        <5>1. todo \in Seq(Jobs) /\ 1 \in DOMAIN todo
          BY LenProperties, EmptySeq DEF TypeOK, Jobs
        <5> QED
          BY <5>1 DEF TodoShape
      <4>3. Opened(c)
        BY <1>1, <4>1, <4>2
      <4> QED
        BY <1>1, <3>3, <4>3, AppendOpens
    <3> QED
      BY <1>3, <3>1, <3>2, <3>3, HistoryGrows
  <2>2. CASE UNCHANGED <<phase, todo>>
    BY <1>1, <2>1, <2>2
  <2>3. ASSUME NEW c \in Conns, Begins(c)
        PROVE  \A d \in Conns : phase'[d] # "away" => Opened(d)' \/ (todo' # <<>> /\ todo'[1] = <<"open", d>>)
    <3>1. PICK n \in Nat : todo = <<>> /\ todo' = OpenItems(c, n) /\ phase' = [phase EXCEPT ![c] = "live"]
      BY <2>3 DEF Begins
    <3>2. Len(todo') = n + 1 /\ todo'[1] = <<"open", c>> /\ todo' \in Seq(Jobs)
      BY <3>1, OpenItemsShape
    <3>3. todo' # <<>>
      BY <3>2, EmptySeq
    <3>4. \A d \in Conns : d # c => phase'[d] = phase[d]
      BY <1>0, <3>1
    <3> QED
      BY <1>1, <2>1, <3>1, <3>2, <3>3, <3>4
  <2>4. ASSUME NEW c \in Conns, Ends(c) \/ LoopRecord(c)
        PROVE  \A d \in Conns : phase'[d] # "away" => Opened(d)'
    <3>1. todo = <<>> /\ \A d \in Conns : phase'[d] # "away" => phase[d] # "away"
      BY <1>0, <2>4 DEF Ends, LoopRecord, LoopFree, Live
    <3> QED
      BY <1>1, <2>1, <3>1
  <2>5. ASSUME NEW c \in Conns, ThreadStarts(c) \/ ThreadCheck(c) \/ ThreadRecord(c) \/ ThreadEnds(c)
        PROVE  UNCHANGED <<phase, todo>>
    BY <2>5 DEF ThreadStarts, ThreadCheck, ThreadRecord, ThreadEnds, sessionVars
  <2> QED
    BY <1>3, <2>1, <2>2, <2>3, <2>4, <2>5, SensorSteps DEF sessionVars
<1> QED
  BY <1>2, <1>3

(* One step keeps the sessions table in line with the committed batches.     *)
LEMMA RowsKnownStep ==
  ASSUME TypeOK, RowsKnown, [Next]_vars
  PROVE  RowsKnown'
<1>0. /\ LoggerTypeOK /\ [LoggerStep]_loggerVars /\ Sids = Conns
      /\ errors \in Nat /\ errors' \in Nat /\ done \in Seq(Things) /\ Sentinel \in Things
      /\ rows \in [Conns -> {"none", "open", "closed"}] /\ batch \in Seq(Items)
  BY SensorDrivesLogger, SidsAreConns, TypeStep DEF TypeOK, LoggerTypeOK, Things
<1>1. CASE UNCHANGED <<done, settings, tables>> /\ errors' >= errors
  BY <1>0, <1>1 DEF RowsKnown, tables
<1>2. CASE GetSentinel /\ UNCHANGED <<settings, errors, tables>> /\ (done' = done \/ done' = Append(done, Sentinel))
  <2>1. CASE done' = done
    BY <1>2, <2>1 DEF RowsKnown, tables
  <2>2. CASE done' = Append(done, Sentinel)
    <3>1. /\ \A i \in DOMAIN done' : done'[i] = Sentinel \/ (i \in DOMAIN done /\ done'[i] = done[i])
          /\ \A i \in DOMAIN done : i \in DOMAIN done' /\ done'[i] = done[i]
      BY <1>0, <2>2, AppendKeeps
    <3> QED
      BY <1>2, <3>1 DEF RowsKnown, tables, IsItem
  <2> QED
    BY <1>2, <2>1, <2>2
<1>3. ASSUME FlushReturns
      PROVE  /\ \A c \in Conns : (\E i \in DOMAIN done : IsItem(done[i], "close", c))
                                   => \E i \in DOMAIN done' : IsItem(done'[i], "close", c)
             /\ \A j \in DOMAIN batch : batch[j] \in Items /\ batch[j] # Sentinel
  <2>1. \A i \in DOMAIN done : i \in DOMAIN done' /\ done'[i] = done[i]
    BY <1>0, <1>3, FlushPositions
  <2>2. \A j \in DOMAIN batch : batch[j] \in Items
    BY <1>0, ElementOfSeq, LenProperties
  <2> QED
    BY <2>1, <2>2, LoggerAssumption DEF IsItem
<1>4. CASE WriteDb
  <2>1. FlushReturns /\ UNCHANGED <<errors, settings>>
    BY <1>4 DEF WriteDb, FlushReturns
  <2>2. \A s \in Conns : rows'[s] = IF s \in Upserts(batch, "close") THEN "closed"
                                    ELSE IF s \in Upserts(batch, "open") THEN "open" ELSE rows[s]
    BY <1>0, <1>4 DEF WriteDb
  <2>3. ASSUME NEW i \in DOMAIN done', settings.write_to_db, errors = 0,
               done'[i] # Sentinel, done'[i].kind = "open"
        PROVE  rows'[done'[i].sid] # "none"
    <3>1. CASE i \in DOMAIN done /\ done'[i] = done[i]
      <4>1. rows[done[i].sid] # "none"
        BY <2>3, <3>1 DEF RowsKnown
      <4>2. done[i] \in Items
        BY <1>0, <2>3, <3>1, ElementOfSeq, LenProperties DEF Things
      <4>3. done[i].sid \in Conns
        BY <1>0, <4>2 DEF Items
      <4> QED
        BY <2>2, <3>1, <4>1, <4>3
    <3>2. ASSUME NEW j \in DOMAIN batch, done'[i] = batch[j] PROVE rows'[done'[i].sid] # "none"
      <4>1. batch[j].sid \in Upserts(batch, "open") /\ batch[j].sid \in Conns
        BY <1>0, <1>3, <2>1, <2>3, <3>2 DEF Upserts, Items
      <4> QED
        BY <2>2, <3>2, <4>1
    <3> QED
      BY <1>0, <2>1, <2>3, <3>1, <3>2, FlushPositions
  <2>4. ASSUME NEW c \in Conns, rows'[c] = "closed"
        PROVE  \E i \in DOMAIN done' : IsItem(done'[i], "close", c)
    <3>1. CASE rows[c] = "closed"
      BY <1>3, <2>1, <3>1 DEF RowsKnown
    <3>2. CASE rows[c] # "closed"
      <4>1. c \in Upserts(batch, "close")
        BY <2>2, <2>4, <3>2
      <4>2. PICK j \in DOMAIN batch : batch[j].kind = "close" /\ batch[j].sid = c
        BY <4>1 DEF Upserts
      <4>3. Len(done) + j \in DOMAIN done' /\ done'[Len(done) + j] = batch[j]
        BY <1>0, <2>1, FlushPositions
      <4> QED
        BY <1>3, <2>1, <4>2, <4>3 DEF IsItem
    <3> QED
      BY <3>1, <3>2
  <2> QED
    BY <2>1, <2>3, <2>4 DEF RowsKnown
<1>5. CASE WriteDbFails \/ WriteNoDb
  <2>1. FlushReturns /\ UNCHANGED rows /\ ~(settings'.write_to_db /\ errors' = 0)
    BY <1>0, <1>5 DEF WriteDbFails, WriteNoDb, FlushReturns, tables
  <2> QED
    BY <1>3, <2>1 DEF RowsKnown
<1> QED
  BY <1>0, <1>1, <1>2, <1>3, <1>4, <1>5, OnlyFlushesStore

-----------------------------------------------------------------------------
(* The books of a session *)

(* The events of a session come before its closing row. *)
EventsBeforeClose(c) ==
  \A i, j \in DOMAIN accepted :
    IsItem(accepted[i], "event", c) /\ IsItem(accepted[j], "close", c) => i < j

LEMMA EventsFinite ==
  ASSUME TypeOK, NEW c
  PROVE  IsFiniteSet(EventsOf(c)) /\ Cardinality(EventsOf(c)) \in Nat
<1>1. Len(accepted) \in Nat /\ DOMAIN accepted = 1 .. Len(accepted)
  BY LenProperties DEF TypeOK, LoggerTypeOK
<1>2. IsFiniteSet(DOMAIN accepted)
  BY <1>1, FS_Interval
<1> QED
  BY <1>2, FS_Subset, FS_CardinalityType DEF EventsOf

(* What one more thing in the history changes for a session. *)
LEMMA AppendCounts ==
  ASSUME TypeOK, NEW x \in Things, accepted' = Append(accepted, x), NEW c
  PROVE  /\ IsItem(x, "event", c) => Cardinality(EventsOf(c)') = Cardinality(EventsOf(c)) + 1
         /\ ~IsItem(x, "event", c) => EventsOf(c)' = EventsOf(c)
         /\ Closed(c)' <=> Closed(c) \/ IsItem(x, "close", c)
         /\ EventsBeforeClose(c) /\ ~(IsItem(x, "event", c) /\ Closed(c)) => EventsBeforeClose(c)'
<1> DEFINE n == Len(accepted) + 1
<1>1. /\ DOMAIN accepted' = DOMAIN accepted \cup {n} /\ accepted'[n] = x /\ n \notin DOMAIN accepted
      /\ \A i \in DOMAIN accepted : accepted'[i] = accepted[i] /\ i < n
  BY HistoryAppend
<1> HIDE DEF n
<1>2. IsItem(x, "event", c) => EventsOf(c)' = EventsOf(c) \cup {n} /\ n \notin EventsOf(c)
  BY <1>1 DEF EventsOf, IsItem
<1>3. ~IsItem(x, "event", c) => EventsOf(c)' = EventsOf(c)
  BY <1>1 DEF EventsOf, IsItem
<1>4. IsItem(x, "event", c) => Cardinality(EventsOf(c)') = Cardinality(EventsOf(c)) + 1
  BY <1>2, EventsFinite, FS_AddElement
<1>5. Closed(c)' <=> Closed(c) \/ IsItem(x, "close", c)
  BY <1>1 DEF Closed, IsItem
<1>6. EventsBeforeClose(c) /\ ~(IsItem(x, "event", c) /\ Closed(c)) => EventsBeforeClose(c)'
  <2> SUFFICES ASSUME EventsBeforeClose(c), ~(IsItem(x, "event", c) /\ Closed(c)),
                      NEW i \in DOMAIN accepted', NEW j \in DOMAIN accepted',
                      IsItem(accepted'[i], "event", c), IsItem(accepted'[j], "close", c)
               PROVE  i < j
    BY DEF EventsBeforeClose, IsItem
  <2>1. i # j
    BY DEF IsItem
  <2>2. CASE j = n
    BY <1>1, <2>1, <2>2
  <2>3. CASE i = n
    <3>1. j \in DOMAIN accepted /\ accepted'[j] = accepted[j]
      BY <1>1, <2>1, <2>3
    <3> QED
      BY <1>1, <2>3, <3>1 DEF Closed, IsItem
  <2>4. CASE i # n /\ j # n
    BY <1>1, <2>4 DEF EventsBeforeClose
  <2> QED
    BY <2>2, <2>3, <2>4
<1> QED
  BY <1>3, <1>4, <1>5, <1>6

(* The loop's put pays what the handler owes, one event at a time. *)
LEMMA OwedAfterPut ==
  ASSUME TypeOK, TodoShape, LoopEmit, NEW c
  PROVE  /\ Owed(c) \in Int /\ Owed(c)' \in Int
         /\ Owed(c) = Owed(c)' + (IF todo[1][1] = "event" /\ todo[1][2] = c THEN 1 ELSE 0)
<1> DEFINE n == Len(todo)
<1>1. /\ todo # <<>> /\ n \in Nat \ {0} /\ DOMAIN todo = 1 .. n /\ Len(todo') = n - 1
      /\ \A i \in 1 .. n - 1 : todo'[i] = todo[i + 1]
      /\ \A i \in 1 .. n : todo[i][2] = todo[1][2] /\ (i # 1 => todo[i][1] # "open")
      /\ todo' = <<>> <=> n = 1
  BY TodoTail
<1>2. todo[1][1] \in {"open", "event", "close"}
  BY <1>1, HeadOfTodo, SMTT(30) DEF Kinds
<1>3. \A i \in 1 .. n : todo[i][1] = "close" => i = n
  BY <1>1 DEF TodoShape
<1> HIDE DEF n
<1>4. CASE todo[1][2] # c
  <2>1. Owed(c) = 0
    BY <1>4 DEF Owed
  <2>2. todo' = <<>> \/ todo'[1][2] # c
    <3>1. CASE n = 1
      BY <1>1, <3>1
    <3>2. CASE n # 1
      <4>1. 1 \in 1 .. n - 1 /\ 1 + 1 \in 1 .. n /\ 1 + 1 = 2
        BY <1>1, <3>2
      <4> QED
        BY <1>1, <1>4, <4>1
    <3> QED
      BY <3>1, <3>2
  <2>3. Owed(c)' = 0
    BY <2>2 DEF Owed
  <2> QED
    BY <1>4, <2>1, <2>3
<1>5. CASE todo[1][2] = c
  <2>0. Owed(c) = n - (IF todo[1][1] = "open" THEN 1 ELSE 0) - (IF todo[n][1] = "close" THEN 1 ELSE 0)
    BY <1>1, <1>5 DEF Owed, n
  <2>1. CASE n = 1
    <3>1. Owed(c)' = 0
      BY <1>1, <2>1 DEF Owed
    <3> QED
      BY <1>2, <1>5, <2>0, <2>1, <3>1
  <2>2. CASE n # 1
    <3>1. 1 \in 1 .. n - 1 /\ n - 1 \in 1 .. n - 1 /\ 2 \in 1 .. n /\ 2 # 1 /\ 1 + 1 = 2 /\ (n - 1) + 1 = n
      BY <1>1, <2>2
    <3>2. todo'[1] = todo[2] /\ todo'[n - 1] = todo[n] /\ todo[2][2] = c /\ todo[2][1] # "open"
      BY <1>1, <1>5, <3>1
    <3>3. todo' # <<>> /\ Len(todo') = n - 1
      BY <1>1, <2>2
    <3>4. Owed(c)' = (n - 1) - 0 - (IF todo[n][1] = "close" THEN 1 ELSE 0)
      BY <3>2, <3>3 DEF Owed
    <3>5. todo[1][1] # "close"
      BY <1>1, <1>3, <2>2
    <3> QED
      BY <1>1, <1>2, <1>5, <2>0, <3>4, <3>5
  <2> QED
    BY <2>1, <2>2
<1> QED
  BY <1>4, <1>5, SMTT(30)

(* What a handler that starts with an empty todo owes afterwards. *)
LEMMA OwedAtStart ==
  ASSUME NEW c \in Conns, NEW n \in Nat, NEW d
  PROVE  /\ todo = <<>> => Owed(d) = 0
         /\ todo' = OpenItems(c, n) => Owed(d)' = IF d = c THEN n ELSE 0
         /\ todo' = CloseItems(c, n) => Owed(d)' = IF d = c THEN n ELSE 0
         /\ todo' = EventsFor(c, 1) => Owed(d)' = IF d = c THEN 1 ELSE 0
<1>1. todo = <<>> => Owed(d) = 0
  BY DEF Owed
<1>2. ASSUME todo' = OpenItems(c, n) PROVE Owed(d)' = IF d = c THEN n ELSE 0
  <2>1. /\ todo' \in Seq(Jobs) /\ Len(todo') = n + 1 /\ todo'[1] = <<"open", c>>
        /\ \A i \in 2 .. n + 1 : todo'[i] = <<"event", c>>
    BY <1>2, OpenItemsShape
  <2>2. todo' # <<>>
    BY <2>1, EmptySeq
  <2>3. todo'[n + 1][1] # "close"
    <3>1. n + 1 = 1 \/ n + 1 \in 2 .. n + 1
      OBVIOUS
    <3> QED
      BY <2>1, <3>1
  <2>4. todo'[1][2] = c /\ todo'[1][1] = "open"
    BY <2>1
  <2> QED
    BY <2>1, <2>2, <2>3, <2>4 DEF Owed
<1>3. ASSUME todo' = CloseItems(c, n) PROVE Owed(d)' = IF d = c THEN n ELSE 0
  <2>1. /\ todo' \in Seq(Jobs) /\ Len(todo') = n + 1 /\ todo'[n + 1] = <<"close", c>>
        /\ \A i \in 1 .. n : todo'[i] = <<"event", c>>
    BY <1>3, CloseItemsShape
  <2>2. todo' # <<>>
    BY <2>1, EmptySeq
  <2>3. todo'[1][1] # "open" /\ todo'[1][2] = c
    <3>1. n + 1 = 1 \/ 1 \in 1 .. n
      OBVIOUS
    <3> QED
      BY <2>1, <3>1
  <2>4. todo'[n + 1][1] = "close"
    BY <2>1
  <2> QED
    BY <2>1, <2>2, <2>3, <2>4 DEF Owed
<1>4. ASSUME todo' = EventsFor(c, 1) PROVE Owed(d)' = IF d = c THEN 1 ELSE 0
  <2>1. todo' \in Seq(Jobs) /\ Len(todo') = 1 /\ \A i \in 1 .. 1 : todo'[i] = <<"event", c>>
    BY <1>4, EventsForShape
  <2>2. todo' # <<>>
    <3>1. Len(<<>>) = 0 /\ Len(todo') # 0
      BY <2>1
    <3> QED
      BY <3>1
  <2>3. todo'[1] = <<"event", c>>
    <3>1. 1 \in 1 .. 1
      OBVIOUS
    <3> QED
      BY <2>1, <3>1
  <2>4. todo'[1][1] = "event" /\ todo'[1][2] = c
    BY <2>3
  <2> QED
    BY <2>1, <2>2, <2>4 DEF Owed
<1> QED
  BY <1>1, <1>2, <1>3, <1>4

(* The books of one session. *)
BookOf(c) ==
  /\ eventCount[c] = Cardinality(EventsOf(c)) + Owed(c)
  /\ Closed(c) => /\ phase[c] = "ended" /\ finalCount[c] = eventCount[c]
                  /\ \A i \in DOMAIN todo : todo[i][2] # c
  /\ EventsBeforeClose(c)

(* One step keeps the books of a session outside the full mode. *)
LEMMA BookStep ==
  ASSUME TypeOK, SessionPlace, TodoShape, [Next]_vars, dropped' = 0,
         NEW c \in Conns \ FullMode, BookOf(c)
  PROVE  BookOf(c)'
<1> DEFINE Count == Cardinality(EventsOf(c))
<1>0. /\ phase \in [Conns -> {"away", "live", "ended"}] /\ threads \subseteq FullMode
      /\ eventCount \in [Conns -> Nat] /\ finalCount \in [Conns -> Nat]
      /\ Sentinel \in Things /\ Count \in Nat
  BY EventsFinite DEF TypeOK, Things
<1>1. CASE LoopEmit
  <2>1. PICK x \in Things : /\ x # Sentinel /\ accepted' = Append(accepted, x)
                            /\ x.kind = todo[1][1] /\ x.sid = todo[1][2]
    <3>1. ASSUME NEW d \in threads, ThreadRecord(d) PROVE FALSE
      <4>1. todo' = todo
        BY <3>1 DEF ThreadRecord
      <4> QED
        BY <1>1, <4>1, TodoTail
    <3> QED
      BY <1>1, <3>1, HistoryGrows
  <2>2. /\ UNCHANGED <<phase, eventCount>> /\ 1 \in DOMAIN todo /\ Len(todo) \in Nat
        /\ todo[1][2] \in Conns /\ DOMAIN todo = 1 .. Len(todo)
        /\ finalCount' = IF todo[1][1] = "close" THEN [finalCount EXCEPT ![todo[1][2]] = eventCount[todo[1][2]]]
                         ELSE finalCount
    BY <1>1, TodoTail, HeadOfTodo DEF LoopEmit
  <2>3. IsItem(x, "event", c) <=> todo[1][1] = "event" /\ todo[1][2] = c
    BY <2>1 DEF IsItem
  <2>4. IsItem(x, "close", c) <=> todo[1][1] = "close" /\ todo[1][2] = c
    BY <2>1 DEF IsItem
  <2>5. ~(IsItem(x, "event", c) /\ Closed(c))
    BY <2>2, <2>3 DEF BookOf
  <2>6. eventCount'[c] = Cardinality(EventsOf(c)') + Owed(c)'
    BY <1>0, <1>1, <2>1, <2>2, <2>3, AppendCounts, OwedAfterPut DEF BookOf
  <2>7. EventsBeforeClose(c)'
    BY <2>1, <2>5, AppendCounts DEF BookOf
  <2>8. ASSUME Closed(c)'
        PROVE  /\ phase'[c] = "ended" /\ finalCount'[c] = eventCount'[c]
               /\ \A i \in DOMAIN todo' : todo'[i][2] # c
    <3>1. CASE Closed(c)
      <4>1. todo[1][2] # c /\ phase[c] = "ended" /\ finalCount[c] = eventCount[c]
        BY <2>2, <3>1 DEF BookOf
      <4>2. \A i \in DOMAIN todo' : todo'[i][2] = todo[1][2]
        BY <1>1, TodoTail
      <4> QED
        BY <1>0, <2>2, <4>1, <4>2
    <3>2. CASE todo[1][1] = "close" /\ todo[1][2] = c
      <4>1. phase[c] = "ended" /\ 1 = Len(todo)
        BY <2>2, <3>2 DEF TodoShape
      <4>2. DOMAIN todo' = {}
        BY <1>1, <4>1, TodoTail
      <4> QED
        BY <1>0, <2>2, <3>2, <4>1, <4>2
    <3> QED
      BY <2>1, <2>4, <2>8, <3>1, <3>2, AppendCounts
  <2> QED
    BY <2>6, <2>7, <2>8 DEF BookOf
<1>2. CASE ~LoopEmit
  <2>1. /\ Cardinality(EventsOf(c)') = Count
        /\ Closed(c)' <=> Closed(c)
        /\ EventsBeforeClose(c)'
    <3>1. CASE accepted' = accepted
      BY <3>1 DEF BookOf, EventsOf, Closed, EventsBeforeClose
    <3>2. ASSUME NEW x \in Things, accepted' = Append(accepted, x), x = Sentinel \/ x.sid # c
          PROVE  <2>1!:
      <4>1. ~IsItem(x, "event", c) /\ ~IsItem(x, "close", c)
        BY <3>2 DEF IsItem
      <4> QED
        BY <3>2, <4>1, AppendCounts DEF BookOf
    <3> QED
      BY <1>0, <1>2, <3>1, <3>2, HistoryGrows
  <2>2. CASE UNCHANGED <<todo, phase, finalCount>> /\ eventCount'[c] = eventCount[c]
    <3>1. Owed(c)' = Owed(c)
      BY <2>2 DEF Owed
    <3> QED
      BY <2>1, <2>2, <3>1 DEF BookOf
  <2>3. ASSUME NEW d \in Conns, Begins(d) \/ Ends(d) PROVE BookOf(c)'
    <3>1. PICK n \in Nat : /\ todo = <<>>
                           /\ todo' = OpenItems(d, n) \/ todo' = CloseItems(d, n)
                           /\ phase[d] # "ended" /\ UNCHANGED finalCount
                           /\ phase' = [phase EXCEPT ![d] = "live"] \/ phase' = [phase EXCEPT ![d] = "ended"]
                           /\ eventCount' = [eventCount EXCEPT ![d] = eventCount[d] + n]
      BY <2>3 DEF Begins, Ends, Live
    <3>2. Owed(c) = 0 /\ Owed(c)' = IF c = d THEN n ELSE 0
      BY <3>1, OwedAtStart
    <3>3. eventCount'[c] = Cardinality(EventsOf(c)') + Owed(c)'
      BY <1>0, <2>1, <3>1, <3>2 DEF BookOf
    <3>4. Closed(c) => c # d
      BY <3>1 DEF BookOf
    <3>5. \A i \in DOMAIN todo' : todo'[i][2] = d
      <4>1. todo' \in Seq(Jobs) /\ Len(todo') = n + 1
        BY <3>1, OpenItemsShape, CloseItemsShape
      <4>2. DOMAIN todo' = 1 .. n + 1
        BY <4>1, LenProperties
      <4>3. \A i \in 1 .. n + 1 : (i = 1 \/ i \in 2 .. n + 1) /\ (i = n + 1 \/ i \in 1 .. n)
        OBVIOUS
      <4>4. \A i \in 1 .. n + 1 : todo'[i] \in {<<"open", d>>, <<"event", d>>, <<"close", d>>}
        <5>1. CASE todo' = OpenItems(d, n)
          <6>1. todo'[1] = <<"open", d>> /\ \A i \in 2 .. n + 1 : todo'[i] = <<"event", d>>
            BY <5>1, OpenItemsShape
          <6> QED
            BY <4>3, <6>1
        <5>2. CASE todo' = CloseItems(d, n)
          <6>1. todo'[n + 1] = <<"close", d>> /\ \A i \in 1 .. n : todo'[i] = <<"event", d>>
            BY <5>2, CloseItemsShape
          <6> QED
            BY <4>3, <6>1
        <5> QED
          BY <3>1, <5>1, <5>2
      <4> QED
        BY <4>2, <4>4
    <3>6. Closed(c)' => /\ phase'[c] = "ended" /\ finalCount'[c] = eventCount'[c]
                        /\ \A i \in DOMAIN todo' : todo'[i][2] # c
      BY <1>0, <2>1, <3>1, <3>4, <3>5 DEF BookOf
    <3> QED
      BY <2>1, <3>3, <3>6 DEF BookOf
  <2>4. ASSUME NEW d \in Conns, LoopRecord(d) PROVE BookOf(c)'
    <3>1. /\ todo = <<>> /\ todo' = EventsFor(d, 1) /\ phase[d] = "live" /\ UNCHANGED <<phase, finalCount>>
          /\ eventCount' = [eventCount EXCEPT ![d] = @ + 1]
      BY <2>4 DEF LoopRecord, LoopFree, Live
    <3>2. Owed(c) = 0 /\ Owed(c)' = IF c = d THEN 1 ELSE 0
      BY <3>1, OwedAtStart
    <3>3. eventCount'[c] = Cardinality(EventsOf(c)') + Owed(c)'
      BY <1>0, <2>1, <3>1, <3>2 DEF BookOf
    <3>4. Closed(c) => c # d
      BY <3>1 DEF BookOf
    <3>5. \A i \in DOMAIN todo' : todo'[i][2] = d
      <4>1. todo' \in Seq(Jobs) /\ Len(todo') = 1 /\ \A i \in 1 .. 1 : todo'[i] = <<"event", d>>
        BY <3>1, EventsForShape
      <4>2. DOMAIN todo' = 1 .. 1
        BY <4>1, LenProperties
      <4> QED
        BY <4>1, <4>2
    <3>6. Closed(c)' => /\ phase'[c] = "ended" /\ finalCount'[c] = eventCount'[c]
                        /\ \A i \in DOMAIN todo' : todo'[i][2] # c
      BY <1>0, <2>1, <3>1, <3>4, <3>5 DEF BookOf
    <3> QED
      BY <2>1, <3>3, <3>6 DEF BookOf
  <2>5. ASSUME NEW d \in Conns, ThreadRecord(d)
        PROVE  UNCHANGED <<todo, phase, finalCount>> /\ eventCount'[c] = eventCount[c]
    <3>1. d # c
      BY <1>0, <2>5 DEF ThreadRecord
    <3> QED
      BY <1>0, <2>5, <3>1 DEF ThreadRecord
  <2>6. ASSUME NEW d \in Conns, ThreadStarts(d) \/ ThreadCheck(d) \/ ThreadEnds(d)
        PROVE  UNCHANGED <<todo, phase, finalCount, eventCount>>
    BY <2>6 DEF ThreadStarts, ThreadCheck, ThreadEnds, sessionVars
  <2> QED
    BY <1>2, <2>2, <2>3, <2>4, <2>5, <2>6, SensorSteps DEF sessionVars
<1> QED
  BY <1>1, <1>2

-----------------------------------------------------------------------------
(* The invariant and what follows from it *)

(* The inductive invariant of the sensor holds in every reachable state, for *)
(* any interleaving of handlers, SSH threads, the writer thread and stop().  *)
THEOREM SensorInvariant == Spec => []SensorInv
<1>1. Init => SensorInv
  <2> SUFFICES ASSUME Init PROVE SensorInv
    OBVIOUS
  <2>1. LoggerTypeOK /\ LoggerInv
    BY LoggerStarts DEF Init, LoggerInv
  <2>2. RegistryInv
    BY RegistryStarts DEF Init
  <2>3. TypeOK
    <3>1. 0 \in 0 .. Recorders /\ <<>> \in Seq(Kinds \X Conns)
      BY DEF Recorders
    <3> QED
      BY <2>1, <2>2, <3>1 DEF Init, TypeOK, RegistryInv
  <2>4. /\ Live = {} /\ active = {} /\ stopPc = "idle" /\ accepted = <<>> /\ done = <<>>
        /\ rows = [s \in Conns |-> "none"]
    BY SidsAreConns DEF Init, Live, RegistryInit, LoggerInit
  <2>5. DOMAIN <<>> = {}
    OBVIOUS
  <2>6. MainPlace
    BY <2>4 DEF Init, MainPlace
  <2>7. SessionPlace
    BY <2>4, SensorAssumption DEF Init, SessionPlace, Recorders
  <2>8. TodoShape
    BY <2>5 DEF Init, TodoShape
  <2>9. OpensFirst
    BY <2>4, <2>5 DEF Init, OpensFirst
  <2>10. RowsKnown
    BY <2>4, <2>5 DEF RowsKnown
  <2>11. BooksKept
    <3> SUFFICES ASSUME NEW c \in Conns PROVE BookOf(c)
      BY DEF BooksKept, BookOf, EventsBeforeClose
    <3>1. EventsOf(c) = {} /\ ~Closed(c) /\ Owed(c) = 0
      BY <2>4, <2>5 DEF EventsOf, Closed, Owed, Init
    <3>2. Cardinality({}) = 0
      BY FS_EmptySet
    <3> QED
      BY <2>4, <2>5, <3>1, <3>2 DEF BookOf, EventsBeforeClose, Init
  <2> QED
    BY <2>1, <2>2, <2>3, <2>6, <2>7, <2>8, <2>9, <2>10, <2>11 DEF SensorInv, RegistryInv
<1>2. SensorInv /\ [Next]_vars => SensorInv'
  <2> SUFFICES ASSUME SensorInv, [Next]_vars PROVE SensorInv'
    OBVIOUS
  <2>0. /\ TypeOK /\ LoggerInv /\ RegistryInv /\ active = Live /\ MainPlace /\ SessionPlace
        /\ TodoShape /\ OpensFirst /\ RowsKnown /\ BooksKept
    BY DEF SensorInv, RegistryInv, TypeOK, SessionPlace
  <2>1. RegistryInv' /\ active' = Live'
    BY <2>0, RegistryStep
  <2>2. TypeOK'
    BY <2>0, <2>1, SensorTypeStep DEF RegistryInv
  <2>3. [LoggerStep]_loggerVars
    BY <2>0, SensorDrivesLogger
  <2>4. LoggerInv'
    BY <2>0, <2>3, LoggerInvStep
  <2>5. MainPlace' /\ SessionPlace' /\ TodoShape'
    BY <2>0, <2>1, <2>2, MainPlaceStep, SessionPlaceStep, TodoShapeStep
  <2>6. OpensFirst' /\ RowsKnown'
    BY <2>0, OpensFirstStep, RowsKnownStep
  <2>7. BooksKept'
    <3> SUFFICES ASSUME dropped' = 0, NEW c \in Conns \ FullMode PROVE BookOf(c)'
      BY DEF BooksKept, BookOf, EventsBeforeClose
    <3>1. dropped = 0
      BY <2>0, HistoryGrows
    <3>2. BookOf(c)
      BY <2>0, <3>1 DEF BooksKept, BookOf, EventsBeforeClose
    <3> QED
      BY <2>0, <3>2, BookStep
  <2> QED
    BY <2>1, <2>2, <2>4, <2>5, <2>6, <2>7 DEF SensorInv, RegistryInv
<1> QED
  BY <1>1, <1>2, PTL DEF Spec

(* No session emits more than max_events_per_session events, and a full-mode *)
(* SSH session at most two more: its two threads may each be past the test   *)
(* when the loop records the end.                                            *)
THEOREM SensorBudgetKept == Spec => []BudgetKept
<1>1. SensorInv => BudgetKept
  <2> SUFFICES ASSUME SensorInv, NEW c \in Conns
               PROVE  eventCount[c] <= MaxEvents + (IF c \in FullMode THEN 2 ELSE 0)
    BY DEF BudgetKept
  <2>1. TypeOK /\ SessionPlace
    BY DEF SensorInv
  <2>2. eventCount[c] \in Nat /\ MaxEvents \in Nat /\ (c \in FullMode => checked[c] \in 0 .. 2)
    BY <2>1, SensorAssumption DEF TypeOK, Recorders
  <2> QED
    BY <2>1, <2>2 DEF SessionPlace, Recorders
<1> QED
  BY <1>1, SensorInvariant, PTL

(* On an interpreter whose wait_closed waits, no session is left to record   *)
(* its end when logger.stop() begins.                                        *)
THEOREM SensorLoggerOutlivesSessions == Spec => []LoggerOutlivesSessions
<1>1. SensorInv => LoggerOutlivesSessions
  <2> SUFFICES ASSUME SensorInv, WaitsForClients, stopPc \notin {"idle", "up"}
               PROVE  Live = {} /\ todo = <<>>
    BY DEF LoggerOutlivesSessions
  <2>1. TypeOK /\ MainPlace
    BY DEF SensorInv
  <2>2. mainPc \in {"logger", "cancelling", "exited"}
    BY <2>1 DEF TypeOK, MainPlace
  <2> QED
    BY <2>1, <2>2 DEF MainPlace
<1> QED
  BY <1>1, SensorInvariant, PTL

(* Where the items of a batch stand in the queue's history. *)
LEMMA BatchPlaces ==
  ASSUME LoggerTypeOK, Conservation, NEW j \in DOMAIN batch
  PROVE  Len(done) + j \in DOMAIN accepted /\ accepted[Len(done) + j] = batch[j]
<1> DEFINE w == (done \o batch) \o InHand
<1>1. /\ queue \in Seq(Things) /\ done \in Seq(Things) /\ batch \in Seq(Things)
      /\ InHand \in Seq(Things) /\ done \o batch \in Seq(Things) /\ w \in Seq(Things)
      /\ accepted \in Seq(Things)
  BY PartsAreSequences
<1>2. /\ Len(done) \in Nat /\ Len(batch) \in Nat /\ Len(InHand) \in Nat
      /\ Len(queue) \in Nat /\ Len(w) \in Nat
      /\ DOMAIN batch = 1 .. Len(batch) /\ DOMAIN accepted = 1 .. Len(accepted)
  BY <1>1, LenProperties
<1>3. /\ Len(done \o batch) = Len(done) + Len(batch)
      /\ Len(w) = Len(done \o batch) + Len(InHand)
      /\ Len(accepted) = Len(w) + Len(queue)
  BY <1>1, ConcatProperties DEF Conservation
<1> DEFINE i == Len(done) + j
<1>4. /\ i \in 1 .. Len(done) + Len(batch) /\ ~(i <= Len(done)) /\ i - Len(done) = j
      /\ i \in 1 .. Len(done \o batch) + Len(InHand) /\ i <= Len(done \o batch)
      /\ i \in 1 .. Len(w) + Len(queue) /\ i <= Len(w)
  BY <1>2, <1>3
<1>5. (done \o batch)[i] = batch[i - Len(done)]
  BY <1>1, <1>4, ConcatProperties
<1>6. w[i] = (done \o batch)[i]
  BY <1>1, <1>4, ConcatProperties
<1>7. (w \o queue)[i] = w[i]
  BY <1>1, <1>4, ConcatProperties
<1> QED
  BY <1>2, <1>3, <1>4, <1>5, <1>6, <1>7 DEF Conservation

(* The database refuses a batch only after a row got lost: with nothing      *)
(* dropped and no failed transaction, each event and closing upsert of the   *)
(* batch to be committed has its session row stored or earlier in the batch. *)
THEOREM SensorRefusalMeansLoss == Spec => []RefusalMeansLoss
<1>1. SensorInv => RefusalMeansLoss
  <2> SUFFICES ASSUME SensorInv, settings.write_to_db, dropped = 0, errors = 0,
                      NEW i \in DOMAIN batch, batch[i].kind \in {"close", "event"}
               PROVE  HasRow(batch[i].sid, batch, i - 1) /\ HasRow(batch[i].sid, batch, Len(batch))
    BY DEF RefusalMeansLoss, TxnOk
  <2>1. TypeOK /\ LoggerTypeOK /\ Conservation /\ OpensFirst /\ RowsKnown
    BY DEF SensorInv, LoggerInv, TypeOK
  <2>2. /\ batch \in Seq(Items) /\ DOMAIN batch = 1 .. Len(batch) /\ Len(batch) \in Nat
        /\ DOMAIN done = 1 .. Len(done) /\ Len(done) \in Nat /\ DOMAIN accepted = 1 .. Len(accepted)
    BY <2>1, LenProperties DEF LoggerTypeOK
  <2>3. batch[i] # Sentinel
    BY <2>2, ElementOfSeq, LoggerAssumption
  <2>4. PICK j \in DOMAIN accepted : j < Len(done) + i /\ IsItem(accepted[j], "open", batch[i].sid)
    BY <2>1, <2>3, BatchPlaces DEF OpensFirst
  <2>5. CASE j \in DOMAIN done
    BY <2>1, <2>4, <2>5, Places DEF RowsKnown, IsItem, HasRow
  <2>6. CASE j \notin DOMAIN done
    <3>1. j - Len(done) \in 1 .. i - 1 /\ j - Len(done) \in 1 .. Len(batch) /\ Len(done) + (j - Len(done)) = j
      BY <2>2, <2>4, <2>6
    <3>2. batch[j - Len(done)] = accepted[j]
      BY <2>1, <2>2, <3>1, BatchPlaces
    <3> QED
      BY <2>4, <3>1, <3>2 DEF HasRow, IsItem
  <2> QED
    BY <2>5, <2>6
<1> QED
  BY <1>1, SensorInvariant, PTL

(* Types, and the closing row of every session outside SSH's full mode       *)
(* carries the number of its events in the database, unless a loss was       *)
(* counted.                                                                  *)
THEOREM SensorBooksAreSound == Spec => []BooksAreSound
<1>1. SensorInv => BooksAreSound
  <2> SUFFICES ASSUME SensorInv PROVE TypeOK /\ BooksBalance
    BY DEF BooksAreSound
  <2>1. TypeOK /\ LoggerTypeOK /\ Conservation /\ RowsKnown /\ BooksKept
    BY DEF SensorInv, LoggerInv, TypeOK
  <2>2. SUFFICES ASSUME dropped = 0, NEW c \in Conns \ FullMode, rows[c] = "closed"
                 PROVE  finalCount[c] = Cardinality(StoredOf(c))
    BY <2>1 DEF BooksBalance
  <2>3. PICK i \in DOMAIN done : IsItem(done[i], "close", c)
    BY <2>1, <2>2 DEF RowsKnown
  <2>4. i \in DOMAIN accepted /\ IsItem(accepted[i], "close", c)
    BY <2>1, <2>3, Places
  <2>5. BookOf(c) /\ Closed(c)
    BY <2>1, <2>2, <2>4 DEF BooksKept, BookOf, EventsBeforeClose, Closed
  <2>6. DOMAIN done = 1 .. Len(done) /\ Len(done) \in Nat /\ DOMAIN accepted = 1 .. Len(accepted)
    BY <2>1, LenProperties DEF LoggerTypeOK
  <2>7. \A k \in EventsOf(c) : k \in DOMAIN done /\ done[k] = accepted[k]
    <3> SUFFICES ASSUME NEW k \in EventsOf(c) PROVE k \in DOMAIN done /\ done[k] = accepted[k]
      OBVIOUS
    <3>1. k \in DOMAIN accepted /\ k < i
      BY <2>4, <2>5 DEF EventsOf, BookOf, EventsBeforeClose
    <3>2. k \in DOMAIN done
      BY <2>3, <2>6, <3>1
    <3> QED
      BY <2>1, <3>2, Places
  <2>8. StoredOf(c) = EventsOf(c)
    BY <2>1, <2>7, Places DEF StoredOf, EventsOf, IsItem
  <2>9. Owed(c) = 0
    <3>1. CASE todo = <<>>
      BY <3>1 DEF Owed
    <3>2. CASE todo # <<>>
      <4>1. 1 \in DOMAIN todo
        BY <2>1, <3>2, LenProperties, EmptySeq DEF TypeOK
      <4> QED
        BY <2>5, <4>1 DEF BookOf, Owed
    <3> QED
      BY <3>1, <3>2
  <2>10. Cardinality(EventsOf(c)) \in Nat
    BY <2>1, EventsFinite
  <2> QED
    BY <2>5, <2>8, <2>9, <2>10 DEF BookOf
<1> QED
  BY <1>1, SensorInvariant, PTL

=============================================================================
