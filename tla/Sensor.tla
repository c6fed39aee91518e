------------------------------- MODULE Sensor -------------------------------
(***************************************************************************)
(* The sensor process: Honeypot.run (honeypot/main.py), BaseService        *)
(* (honeypot/services/base.py) and HoneypotSession (honeypot/session.py)   *)
(* on top of the registry and the event logger.                            *)
(*                                                                         *)
(* A loop handler runs from one await to the next without another handler  *)
(* in between, but the writer thread and the executor threads of SSH's     *)
(* full mode run all the time.  So a handler that emits leaves its items   *)
(* in todo, the loop puts them on the queue one by one, and no other       *)
(* handler starts before todo is empty.                                    *)
(***************************************************************************)
EXTENDS EventLogger, SessionRegistry

CONSTANTS
  Services,        \* the listeners
  ServiceOf,       \* ServiceOf[c]: the listener connection c arrives at
  FullMode,        \* connections served by _paramiko_session on the executor
  MaxEvents,       \* settings.max_events_per_session
  WaitsForClients  \* Server.wait_closed waits for live connections (Python
                   \* 3.12.1 and later) or returns at once (3.11)

ASSUME SensorAssumption ==
  /\ Sids = Conns
  /\ ServiceOf \in [Conns -> Services]
  /\ FullMode \subseteq Conns
  /\ MaxEvents \in Nat
  /\ WaitsForClients \in BOOLEAN

VARIABLES
  mainPc,      \* where Honeypot.run is
  listening,   \* services whose socket is open
  waiting,     \* services in wait_closed (one at most)
  phase,       \* of _handle_client, per connection
  eventCount,  \* session.event_count
  finalCount,  \* event_count of the closing upsert
  todo,        \* what the running handler still has to put on the queue
  pending,     \* full-mode connections whose executor job has not started
  threads,     \* ... whose executor thread is alive
  checked      \* how many of its recorders are in record(), past the budget test

(* The two threads of a full-mode session that record: the executor thread   *)
(* that serves the shell, and paramiko's transport thread, which calls the   *)
(* check_... methods of _ParamikoHandler.                                    *)
Recorders == 2

sessionVars == <<phase, eventCount, finalCount>>
threadVars == <<pending, threads, checked>>
mainVars == <<mainPc, listening, waiting>>
sensorVars == <<mainVars, sessionVars, todo, threadVars>>
vars == <<loggerVars, registryVars, sensorVars>>

TypeOK ==
  /\ LoggerTypeOK
  /\ RegistryTypeOK
  /\ mainPc \in {"starting", "serving", "closing", "logger", "cancelling", "exited"}
  /\ listening \subseteq Services /\ waiting \subseteq Services
  /\ phase \in [Conns -> {"away", "live", "ended"}]
  /\ eventCount \in [Conns -> Nat] /\ finalCount \in [Conns -> Nat]
  /\ todo \in Seq(Kinds \X Conns)
  /\ pending \subseteq FullMode /\ threads \subseteq FullMode
  /\ checked \in [FullMode -> 0 .. Recorders]

Init ==
  /\ LoggerInit /\ RegistryInit
  /\ mainPc = "starting" /\ listening = {} /\ waiting = {}
  /\ phase = [c \in Conns |-> "away"]
  /\ eventCount = [c \in Conns |-> 0] /\ finalCount = [c \in Conns |-> 0]
  /\ todo = <<>> /\ pending = {} /\ threads = {} /\ checked = [c \in FullMode |-> 0]

(* The loop can run a handler: the last one is done, and the loop is not     *)
(* blocked inside logger.stop().                                             *)
LoopFree == todo = <<>> /\ mainPc \notin {"logger", "exited"}

(* The closing upsert takes event_count when it is built. *)
LoopEmit ==
  /\ todo # <<>>
  /\ LET kind == Head(todo)[1]
         c == Head(todo)[2]
     IN  /\ Emit(kind, c)
         /\ finalCount' = IF kind = "close" THEN [finalCount EXCEPT ![c] = eventCount[c]]
                          ELSE finalCount
  /\ todo' = Tail(todo)
  /\ UNCHANGED <<registryVars, mainVars, phase, eventCount, threadVars>>

-----------------------------------------------------------------------------
(* One connection: _handle_client and HoneypotSession *)

Live == {c \in Conns : phase[c] = "live"}

(* record() appends an event while the budget lasts, n of them in a row.     *)
Recorded(c, n) == IF eventCount[c] + n <= MaxEvents THEN eventCount[c] + n
                  ELSE IF eventCount[c] > MaxEvents THEN eventCount[c]
                  ELSE MaxEvents

EventsFor(c, n) == [i \in 1 .. n |-> <<"event", c>>]

Arrives(c) ==
  /\ LoopFree
  /\ phase[c] = "away"
  /\ ServiceOf[c] \in listening

(* Closed silently; _handle_client returns and the peer may come again.      *)
TurnAway(c) ==
  /\ Arrives(c)
  /\ rejectedGlobal + rejectedPerIp < MaxAttempts
  /\ Reject(c)
  /\ UNCHANGED <<loggerVars, sensorVars>>

(* Mutant: the CONNECT event is queued before the session row. *)
OpenItems_EventFirst(c, n) == EventsFor(c, n) \o <<<<"open", c>>>>

(* HoneypotSession.open: the session row, then CONNECT. *)
OpenItems(c, n) == <<<<"open", c>>>> \o EventsFor(c, n)

(* can_accept, register and open() without an await in between.              *)
Admit(c) ==
  /\ Arrives(c)
  /\ Register(c)
  /\ phase' = [phase EXCEPT ![c] = "live"]
  /\ eventCount' = [eventCount EXCEPT ![c] = Recorded(c, 1)]
  /\ todo' = OpenItems(c, eventCount'[c] - eventCount[c])
  /\ pending' = IF c \in FullMode THEN pending \cup {c} ELSE pending
  /\ UNCHANGED <<loggerVars, mainVars, finalCount, threads, checked>>

(* session.record from a service's handle_session on the loop. *)
LoopRecord(c) ==
  /\ LoopFree
  /\ c \in Live \ FullMode
  /\ eventCount[c] < MaxEvents
  /\ eventCount' = [eventCount EXCEPT ![c] = @ + 1]
  /\ todo' = EventsFor(c, 1)
  /\ UNCHANGED <<loggerVars, registryVars, mainVars, phase, finalCount, threadVars>>

(* Mutant: no DISCONNECT event for the count. *)
CloseItems_NoDisconnect(c, n) == EventsFor(c, n - 1) \o <<<<"close", c>>>>

(* close(): DISCONNECT and what was recorded before it, then the row. *)
CloseItems(c, n) == EventsFor(c, n) \o <<<<"close", c>>>>

(* The finally block of _handle_client: ERROR if handle_session raised,      *)
(* close(reason), unregister.  A job the executor has not started is         *)
(* cancelled with the handler that awaits it.                                *)
End(c, reason) ==
  LET errors_ == IF reason = "error" THEN 1 ELSE 0
      count == Recorded(c, errors_ + 1)
  IN
  /\ LoopFree
  /\ c \in Live
  /\ phase' = [phase EXCEPT ![c] = "ended"]
  /\ eventCount' = [eventCount EXCEPT ![c] = count]
  /\ todo' = CloseItems(c, count - eventCount[c])
  /\ Unregister(c)
  /\ pending' = pending \ {c}
  /\ UNCHANGED <<loggerVars, mainVars, finalCount, threads, checked>>

(* handle_session came back or raised.  The full mode of SSH comes back only *)
(* when its thread has, and catches everything itself.                       *)
HandlerEnds(c) ==
  \/ c \notin pending \cup threads /\ End(c, "client")
  \/ c \notin FullMode /\ \E reason \in {"limit", "error"} : End(c, reason)

(* Mutant: the timeout waits for the thread. *)
Timeout_AwaitsThread(c) == c \notin threads /\ End(c, "timeout")

(* wait_for gave up; an executor thread cannot be cancelled and goes on.     *)
Timeout(c) == End(c, "timeout")

-----------------------------------------------------------------------------
(* The threads of SSH's full mode: record() tests the budget and later       *)
(* counts and emits; the loop or the other thread may record the same        *)
(* session in between.                                                       *)

(* run_in_executor, which the handler reaches once open() is done. *)
ThreadStarts(c) ==
  /\ c \in pending
  /\ \A i \in DOMAIN todo : todo[i][2] # c
  /\ pending' = pending \ {c}
  /\ threads' = threads \cup {c}
  /\ UNCHANGED <<loggerVars, registryVars, mainVars, sessionVars, todo, checked>>

(* Mutant: the budget is not looked at. *)
ThreadCheck_NoBudget(c) ==
  /\ c \in threads
  /\ checked[c] < Recorders
  /\ checked' = [checked EXCEPT ![c] = @ + 1]
  /\ UNCHANGED <<loggerVars, registryVars, mainVars, sessionVars, todo, pending, threads>>

ThreadCheck(c) ==
  /\ c \in threads
  /\ checked[c] < Recorders
  /\ eventCount[c] < MaxEvents
  /\ checked' = [checked EXCEPT ![c] = @ + 1]
  /\ UNCHANGED <<loggerVars, registryVars, mainVars, sessionVars, todo, pending, threads>>

ThreadRecord(c) ==
  /\ c \in threads
  /\ checked[c] > 0
  /\ checked' = [checked EXCEPT ![c] = @ - 1]
  /\ eventCount' = [eventCount EXCEPT ![c] = @ + 1]
  /\ Emit("event", c)
  /\ UNCHANGED <<registryVars, mainVars, phase, finalCount, todo, pending, threads>>

(* Mutant: the thread is never told that its session is over. *)
ThreadEnds_WhileLive(c) ==
  /\ c \in threads \cap Live
  /\ checked[c] = 0
  /\ threads' = threads \ {c}
  /\ UNCHANGED <<loggerVars, registryVars, mainVars, sessionVars, todo, pending, checked>>

(* The peer left, a budget was exhausted or, after the end of the session,   *)
(* the socket is gone; transport.close() joins the transport thread.         *)
ThreadEnds(c) ==
  /\ c \in threads
  /\ checked[c] = 0
  /\ threads' = threads \ {c}
  /\ UNCHANGED <<loggerVars, registryVars, mainVars, sessionVars, todo, pending, checked>>

-----------------------------------------------------------------------------
(* Honeypot.run *)

StartLogger ==
  /\ mainPc = "starting" /\ Start
  /\ UNCHANGED <<registryVars, sensorVars>>

StartService(s) ==
  /\ mainPc = "starting" /\ stopPc = "up" /\ LoopFree
  /\ s \notin listening
  /\ listening' = listening \cup {s}
  /\ mainPc' = IF listening' = Services THEN "serving" ELSE mainPc
  /\ UNCHANGED <<loggerVars, registryVars, waiting, sessionVars, todo, threadVars>>

(* A port is taken (stop what was started), or request_stop() was called.    *)
BeginStop ==
  /\ LoopFree
  /\ \/ mainPc = "starting" /\ stopPc = "up"
     \/ mainPc = "serving"
  /\ mainPc' = "closing"
  /\ UNCHANGED <<loggerVars, registryVars, listening, waiting, sessionVars, todo, threadVars>>

(* service.stop(), one service after the other. *)
CloseListener(s) ==
  /\ mainPc = "closing" /\ LoopFree
  /\ waiting = {} /\ s \in listening
  /\ listening' = listening \ {s}
  /\ waiting' = {s}
  /\ UNCHANGED <<loggerVars, registryVars, mainPc, sessionVars, todo, threadVars>>

(* Mutant: the listener is closed and nobody is waited for. *)
WaitClosed_AtOnce(s) ==
  /\ s \in waiting /\ LoopFree
  /\ waiting' = {}
  /\ UNCHANGED <<loggerVars, registryVars, mainPc, listening, sessionVars, todo, threadVars>>

WaitClosed(s) ==
  /\ s \in waiting /\ LoopFree
  /\ WaitsForClients => \A c \in Live : ServiceOf[c] # s
  /\ waiting' = {}
  /\ UNCHANGED <<loggerVars, registryVars, mainPc, listening, sessionVars, todo, threadVars>>

(* self.logger.stop() blocks the loop until it returns. *)
StopLogger ==
  /\ \/ /\ mainPc = "closing" /\ LoopFree
        /\ listening = {} /\ waiting = {}
        /\ StopClear
        /\ mainPc' = "logger"
     \/ /\ mainPc = "logger" /\ stopPc # "stopped"
        /\ Stop
        /\ mainPc' = IF stopPc' = "stopped" THEN "cancelling" ELSE mainPc
  /\ UNCHANGED <<registryVars, listening, waiting, sessionVars, todo, threadVars>>

(* asyncio.run cancels the handlers that are left ... *)
Cancel(c) == mainPc = "cancelling" /\ End(c, "server")

(* ... joins the executor's threads, and the interpreter ends; the writer is *)
(* a daemon thread.                                                          *)
Exit ==
  /\ mainPc = "cancelling" /\ LoopFree
  /\ Live = {} /\ threads = {}
  /\ mainPc' = "exited"
  /\ UNCHANGED <<loggerVars, registryVars, listening, waiting, sessionVars, todo, threadVars>>

WriterStep == mainPc # "exited" /\ Writer /\ UNCHANGED <<registryVars, sensorVars>>

Next ==
  \/ LoopEmit \/ StartLogger \/ BeginStop \/ StopLogger \/ Exit \/ WriterStep
  \/ \E c \in Conns :
       \/ TurnAway(c) \/ Admit(c) \/ LoopRecord(c) \/ HandlerEnds(c) \/ Timeout(c)
       \/ ThreadStarts(c) \/ ThreadCheck(c) \/ ThreadRecord(c)
       \/ ThreadEnds(c) \/ Cancel(c)
  \/ \E s \in Services : StartService(s) \/ CloseListener(s) \/ WaitClosed(s)

Spec == Init /\ [][Next]_vars

(* wait_for ends every session after session_timeout_s; the loop, the writer *)
(* and the main coroutine are scheduled; a thread whose session is closed    *)
(* finds its socket closed.  Nobody has to connect, to type or to stop the   *)
(* sensor.                                                                   *)
Fairness ==
  /\ WF_vars(LoopEmit) /\ WF_vars(WriterStep)
  /\ WF_vars(StopLogger) /\ WF_vars(Exit)
  /\ \A c \in Conns :
       /\ WF_vars(Timeout(c)) /\ WF_vars(Cancel(c))
       /\ WF_vars(ThreadRecord(c)) /\ WF_vars(phase[c] = "ended" /\ ThreadEnds(c))
  /\ \A s \in Services : WF_vars(CloseListener(s)) /\ WF_vars(WaitClosed(s))

FairSpec == Spec /\ Fairness

-----------------------------------------------------------------------------
(* Properties *)

(* The database refuses a batch only after a row got lost: as long as the    *)
(* queue dropped nothing and no transaction failed, every batch the writer   *)
(* is about to commit has the session row of each of its events and closing  *)
(* upserts, already stored or earlier in the batch.                          *)
RefusalMeansLoss ==
  settings.write_to_db /\ wpc = "db" /\ dropped = 0 /\ errors = 0 => TxnOk(batch)

StoredOf(c) == {i \in DOMAIN done : done[i] # Sentinel /\ done[i].kind = "event"
                                      /\ done[i].sid = c}

(* Once the closing row of a session is stored, its event_count is the       *)
(* number of the session's events in the database, unless a loss was         *)
(* counted.  A full-mode SSH session is excepted: its threads may record     *)
(* after the row was built.                                                  *)
BooksBalance ==
  settings.write_to_db /\ dropped = 0 /\ errors = 0 =>
    \A c \in Conns \ FullMode :
      rows[c] = "closed" => finalCount[c] = Cardinality(StoredOf(c))

(* No session emits more than its budget; the two threads of a full-mode SSH *)
(* session, each past its test when the loop records the end, may overrun it *)
(* by two and never by more.                                                 *)
BudgetKept ==
  \A c \in Conns : eventCount[c] <= MaxEvents + (IF c \in FullMode THEN 2 ELSE 0)

(* When logger.stop() begins no session is left that still has to record its *)
(* end, on an interpreter whose wait_closed waits.                           *)
LoggerOutlivesSessions ==
  WaitsForClients /\ stopPc \notin {"idle", "up"} => Live = {} /\ todo = <<>>

(* Every session ends: a peer cannot hold its slot beyond the timeout. *)
SessionsEnd == \A c \in Conns : phase[c] = "live" ~> phase[c] = "ended"

(* A sensor that was asked to stop, or could not bind, exits. *)
ShutdownEnds == mainPc = "closing" ~> mainPc = "exited"

(* HoneypotSession.close promises to "record the disconnect event and        *)
(* finalise the session row": no session is still open when the writer has   *)
(* been stopped.                                                             *)
CloseIsRecorded == stopPc = "stopped" => Live = {}

(* The books of a session are in order while loop, writer and SSH threads    *)
(* interleave: types and queue bound, and the closing row counts the events. *)
BooksAreSound == TypeOK /\ BooksBalance

-----------------------------------------------------------------------------
(* The inductive invariant behind these properties. *)

(* How far run() has come, by what stop() of the logger has done, and which  *)
(* sessions may be live then.                                                *)
MainPlace ==
  /\ mainPc = "starting" => stopPc \in {"idle", "up"}
  /\ mainPc \in {"serving", "closing"} => stopPc = "up"
  /\ mainPc = "logger" => stopPc \notin {"idle", "up", "stopped"}
  /\ mainPc \in {"cancelling", "exited"} => stopPc = "stopped"
  /\ mainPc \in {"logger", "cancelling", "exited"} => listening = {} /\ waiting = {}
  /\ \A r, s \in waiting : r = s
  /\ WaitsForClients =>
       /\ \A c \in Live : ServiceOf[c] \in listening \cup waiting
       /\ mainPc \in {"logger", "cancelling", "exited"} => todo = <<>>

(* A session has its slot while it is live, its threads only after it began, *)
(* and every recorder past the budget test is already counted against it.    *)
SessionPlace ==
  /\ active = Live
  /\ pending \subseteq Live
  /\ \A c \in Conns : phase[c] = "away" => c \notin threads /\ eventCount[c] = 0
  /\ \A c \in Conns \ FullMode : eventCount[c] <= MaxEvents
  /\ \A c \in FullMode : eventCount[c] + checked[c] <= MaxEvents + Recorders

(* The running handler works for one session that has begun: its row comes   *)
(* first, its closing row last.                                              *)
TodoShape ==
  \A i \in DOMAIN todo :
    /\ todo[i][2] = todo[1][2]
    /\ phase[todo[i][2]] # "away"
    /\ todo[i][1] = "open" => i = 1 /\ todo[i][2] \notin threads
    /\ todo[i][1] = "close" => i = Len(todo) /\ phase[todo[i][2]] = "ended"

IsItem(x, kind, c) == x # Sentinel /\ x.kind = kind /\ x.sid = c

Opened(c) == \E i \in DOMAIN accepted : IsItem(accepted[i], "open", c)
Closed(c) == \E i \in DOMAIN accepted : IsItem(accepted[i], "close", c)

(* Without a drop, the queue has seen the row of a session before anything   *)
(* else of it, the moment between Admit and the first put excepted.          *)
OpensFirst ==
  dropped = 0 =>
    /\ \A i \in DOMAIN accepted :
         accepted[i] # Sentinel /\ accepted[i].kind # "open" =>
           \E j \in DOMAIN accepted : j < i /\ IsItem(accepted[j], "open", accepted[i].sid)
    /\ \A c \in Conns : phase[c] # "away" => Opened(c) \/ (todo # <<>> /\ todo[1] = <<"open", c>>)

(* What the sessions table owes to the batches that were committed. *)
RowsKnown ==
  /\ settings.write_to_db /\ errors = 0 =>
       \A i \in DOMAIN done : done[i] # Sentinel /\ done[i].kind = "open" => rows[done[i].sid] # "none"
  /\ \A c \in Conns : rows[c] = "closed" => \E i \in DOMAIN done : IsItem(done[i], "close", c)

EventsOf(c) == {i \in DOMAIN accepted : IsItem(accepted[i], "event", c)}

(* The events the running handler has counted for c and not yet put. *)
Owed(c) ==
  IF todo = <<>> \/ todo[1][2] # c THEN 0
  ELSE Len(todo) - (IF todo[1][1] = "open" THEN 1 ELSE 0) - (IF todo[Len(todo)][1] = "close" THEN 1 ELSE 0)

(* Without a drop and outside the full mode, event_count counts the events   *)
(* in the queue's history and those the handler still owes it; the closing   *)
(* row comes behind all of them and carries that count.                      *)
BooksKept ==
  dropped = 0 =>
    \A c \in Conns \ FullMode :
      /\ eventCount[c] = Cardinality(EventsOf(c)) + Owed(c)
      /\ Closed(c) => /\ phase[c] = "ended" /\ finalCount[c] = eventCount[c]
                      /\ \A i \in DOMAIN todo : todo[i][2] # c
      /\ \A i, j \in DOMAIN accepted :
           IsItem(accepted[i], "event", c) /\ IsItem(accepted[j], "close", c) => i < j

SensorInv ==
  /\ TypeOK /\ LoggerInv /\ RegistryExact /\ WithinLimits /\ MainPlace /\ SessionPlace
  /\ TodoShape /\ OpensFirst /\ RowsKnown /\ BooksKept

=============================================================================
