---------------------------- MODULE EventLogger ----------------------------
(***************************************************************************)
(* honeypot/logger.py: the bounded queue between the asyncio loop and the  *)
(* single event-writer thread, the writer's batching loop, the JSONL and   *)
(* database sinks, and stop().                                             *)
(*                                                                         *)
(* Three kinds of thread interleave: producers (emit, emit_session), the   *)
(* writer (_run, _drain_remaining, _flush) and the caller of stop().  A    *)
(* step is one call on the queue, one test of a shared field or one write  *)
(* to a sink, because a thread switch between two of those is observable.  *)
(* The database is modelled by the constraints the writer can violate:     *)
(* sessions.service and sessions.src_ip are NOT NULL, events.session_id    *)
(* references sessions.                                                    *)
(***************************************************************************)
EXTENDS Integers, Sequences, FiniteSets

CONSTANTS
  Sids,         \* session ids
  Sentinel,     \* the object stop() puts on the queue
  QueueMax,     \* _QUEUE_MAXSIZE
  BatchSize,    \* _BATCH_SIZE
  Deployments,  \* the settings to consider: which sinks are configured
  MaxEmits,     \* bound of the model: calls of emit and emit_session
  MaxErrors     \* bound of the model: sink failures that are nobody's fault

(* "open" and "close" are the two upserts of emit_session: the first names  *)
(* every NOT NULL column, the second only the closing columns.              *)
Kinds == {"open", "event", "close"}

Items == [id : Nat, kind : Kinds, sid : Sids]

ASSUME LoggerAssumption ==
  /\ Sentinel \notin Items
  /\ QueueMax \in Nat \ {0}
  /\ BatchSize \in Nat \ {0}
  /\ Deployments \subseteq [write_to_db : BOOLEAN, jsonl_path : BOOLEAN]
  /\ MaxEmits \in Nat
  /\ MaxErrors \in Nat

VARIABLES
  settings,     \* self.settings, fixed from the start
  queue,        \* self._queue
  running,      \* self._running.is_set()
  stopPc,       \* how far start()/stop() have come
  handle,       \* self._jsonl_handle: "none", "open", or "closed" but not yet None
  wpc,          \* where the writer thread is
  after,        \* where _flush returns to
  batch,        \* batch of _run, leftover of _drain_remaining
  written, dropped, errors,
  rows,         \* sessions table: no row, a row of an open or of a closed session
  stored,       \* ids of the rows of the events table
  jsonl,        \* ids of the events in the JSONL file
  offered,      \* history: number of calls of emit and emit_session
  stage,        \* history: what each session has emitted so far
  accepted,     \* history: everything put_nowait accepted, in order
  done,         \* history: what the writer has finished with, in order
  atStop        \* history: Len(accepted) when stop() cleared _running

fields == <<written, dropped, errors>>
tables == <<rows, stored>>
produced == <<offered, stage>>
loggerVars == <<queue, running, stopPc, handle, wpc, after, batch, fields,
                tables, jsonl, produced, accepted, done, atStop, settings>>

FlushPcs == {"flush", "jsonl", "db"}
WriterAlive == wpc \in {"get", "check", "drain"} \cup FlushPcs

LoggerTypeOK ==
  /\ settings \in Deployments
  /\ queue \in Seq(Items \cup {Sentinel})
  /\ Len(queue) <= QueueMax
  /\ running \in BOOLEAN
  /\ stopPc \in {"idle", "up", "clear", "join", "close", "null", "stopped"}
  /\ handle \in {"none", "open", "closed"}
  /\ wpc \in {"absent", "get", "check", "drain", "exited", "died"} \cup FlushPcs
  /\ after \in {"get", "check", "drain", "exited"}
  /\ batch \in Seq(Items)
  /\ written \in Nat /\ dropped \in Nat /\ errors \in Nat
  /\ rows \in [Sids -> {"none", "open", "closed"}]
  /\ stored \in SUBSET Nat
  /\ jsonl \in SUBSET Nat
  /\ offered \in Nat
  /\ stage \in [Sids -> {"new", "open", "closed"}]
  /\ accepted \in Seq(Items \cup {Sentinel})
  /\ done \in Seq(Items \cup {Sentinel})
  /\ atStop \in Nat

LoggerInit ==
  /\ settings \in Deployments
  /\ queue = <<>> /\ running = FALSE /\ stopPc = "idle" /\ handle = "none"
  /\ wpc = "absent" /\ after = "get" /\ batch = <<>>
  /\ written = 0 /\ dropped = 0 /\ errors = 0
  /\ rows = [s \in Sids |-> "none"] /\ stored = {} /\ jsonl = {}
  /\ offered = 0 /\ stage = [s \in Sids |-> "new"]
  /\ accepted = <<>> /\ done = <<>> /\ atStop = 0

-----------------------------------------------------------------------------
(* Producers *)

(* Mutant: one item too many. *)
Full_OffByOne == Len(queue) > QueueMax

Full == Len(queue) >= QueueMax

(* put_nowait *)
Put(x) ==
  /\ queue' = Append(queue, x)
  /\ accepted' = Append(accepted, x)

(* emit (kind "event") and emit_session ("open", "close"): the queue takes   *)
(* the item or dropped counts it.  Nothing asks whether the writer still     *)
(* runs.                                                                     *)
Emit(kind, sid) ==
  /\ offered' = offered + 1
  /\ stage' = [stage EXCEPT ![sid] = CASE kind = "open"  -> "open"
                                       [] kind = "close" -> "closed"
                                       [] OTHER          -> @]
  /\ \/ /\ ~Full
        /\ Put([id |-> offered', kind |-> kind, sid |-> sid])
        /\ UNCHANGED dropped
     \/ /\ Full
        /\ dropped' = dropped + 1
        /\ UNCHANGED <<queue, accepted>>
  /\ UNCHANGED <<running, stopPc, handle, wpc, after, batch, written, errors,
                 tables, jsonl, done, atStop, settings>>

-----------------------------------------------------------------------------
(* start() and stop() *)

Start ==
  /\ stopPc = "idle"
  /\ stopPc' = "up"
  /\ handle' = IF settings.jsonl_path THEN "open" ELSE "none"
  /\ running' = TRUE
  /\ wpc' = "get"
  /\ UNCHANGED <<queue, after, batch, fields, tables, jsonl, produced,
                 accepted, done, atStop, settings>>

StopClear ==
  /\ stopPc = "up"
  /\ stopPc' = "clear"
  /\ running' = FALSE
  /\ atStop' = Len(accepted)
  /\ UNCHANGED <<queue, handle, wpc, after, batch, fields, tables, jsonl,
                 produced, accepted, done, settings>>

(* put_nowait(_SENTINEL); queue.Full is ignored. *)
StopSentinel ==
  /\ stopPc = "clear"
  /\ stopPc' = "join"
  /\ IF Full THEN UNCHANGED <<queue, accepted>> ELSE Put(Sentinel)
  /\ UNCHANGED <<running, handle, wpc, after, batch, fields, tables, jsonl,
                 produced, done, atStop, settings>>

(* join(timeout): the thread ended, or the ten seconds are over. *)
StopJoin ==
  /\ stopPc = "join"
  /\ stopPc' = "close"
  /\ UNCHANGED <<queue, running, handle, wpc, after, batch, fields, tables,
                 jsonl, produced, accepted, done, atStop, settings>>

StopCloseHandle ==
  /\ stopPc = "close"
  /\ \/ /\ handle = "open"
        /\ handle' = "closed"
        /\ stopPc' = "null"
     \/ /\ handle = "none"
        /\ stopPc' = "stopped"
        /\ UNCHANGED handle
  /\ UNCHANGED <<queue, running, wpc, after, batch, fields, tables, jsonl,
                 produced, accepted, done, atStop, settings>>

StopForgetHandle ==
  /\ stopPc = "null"
  /\ stopPc' = "stopped"
  /\ handle' = "none"
  /\ UNCHANGED <<queue, running, wpc, after, batch, fields, tables, jsonl,
                 produced, accepted, done, atStop, settings>>

Stop == StopClear \/ StopSentinel \/ StopJoin \/ StopCloseHandle \/ StopForgetHandle

-----------------------------------------------------------------------------
(* The writer: _run and _drain_remaining *)

(* Taking the sentinel hands it to the history only once the batch before it *)
(* has been flushed; until then the writer holds it.                         *)
InHand == IF after = "drain" /\ wpc \in FlushPcs \cup {"died"}
            THEN <<Sentinel>> ELSE <<>>

GetItem ==
  /\ wpc = "get"
  /\ queue # <<>> /\ Head(queue) # Sentinel
  /\ queue' = Tail(queue)
  /\ batch' = Append(batch, Head(queue))
  /\ IF Len(batch') >= BatchSize
       THEN wpc' = "flush" /\ after' = "get"
       ELSE UNCHANGED <<wpc, after>>
  /\ UNCHANGED <<running, stopPc, handle, fields, tables, jsonl, produced,
                 accepted, done, atStop, settings>>

(* Mutant: the sentinel ends the loop at once. *)
GetSentinel_Break ==
  /\ wpc = "get"
  /\ queue # <<>> /\ Head(queue) = Sentinel
  /\ queue' = Tail(queue)
  /\ wpc' = "exited"
  /\ done' = Append(done, Sentinel)
  /\ UNCHANGED <<running, stopPc, handle, after, batch, fields, tables, jsonl,
                 produced, accepted, atStop, settings>>

GetSentinel ==
  /\ wpc = "get"
  /\ queue # <<>> /\ Head(queue) = Sentinel
  /\ queue' = Tail(queue)
  /\ after' = "drain"
  /\ \/ batch # <<>> /\ wpc' = "flush" /\ UNCHANGED done
     \/ batch = <<>> /\ wpc' = "drain" /\ done' = Append(done, Sentinel)
  /\ UNCHANGED <<running, stopPc, handle, batch, fields, tables, jsonl,
                 produced, accepted, atStop, settings>>

(* Mutant: a quiet second does not flush the partial batch. *)
GetEmpty_NoFlush ==
  /\ wpc = "get"
  /\ queue = <<>>
  /\ wpc' = "check"
  /\ UNCHANGED <<queue, running, stopPc, handle, after, batch, fields, tables,
                 jsonl, produced, accepted, done, atStop, settings>>

(* get(timeout) raises Empty: what has been collected is flushed first.      *)
GetEmpty ==
  /\ wpc = "get"
  /\ queue = <<>>
  /\ \/ batch # <<>> /\ wpc' = "flush" /\ after' = "check"
     \/ batch = <<>> /\ wpc' = "check" /\ UNCHANGED after
  /\ UNCHANGED <<queue, running, stopPc, handle, batch, fields, tables, jsonl,
                 produced, accepted, done, atStop, settings>>

(* Mutants: the idle writer always stops, and never stops. *)
CheckRunning_Quits ==
  /\ wpc = "check"
  /\ wpc' = "exited"
  /\ UNCHANGED <<queue, running, stopPc, handle, after, batch, fields, tables,
                 jsonl, produced, accepted, done, atStop, settings>>

CheckRunning_Stays ==
  /\ wpc = "check"
  /\ wpc' = "get"
  /\ UNCHANGED <<queue, running, stopPc, handle, after, batch, fields, tables,
                 jsonl, produced, accepted, done, atStop, settings>>

(* Only then is _running looked at. *)
CheckRunning ==
  /\ wpc = "check"
  /\ wpc' = IF running THEN "get" ELSE "exited"
  /\ UNCHANGED <<queue, running, stopPc, handle, after, batch, fields, tables,
                 jsonl, produced, accepted, done, atStop, settings>>

(* get_nowait in _drain_remaining.  stop() puts one sentinel at most, and    *)
(* that one is gone, so the test for a second one is never true here.        *)
DrainItem ==
  /\ wpc = "drain"
  /\ queue # <<>>
  /\ queue' = Tail(queue)
  /\ batch' = IF Head(queue) # Sentinel THEN Append(batch, Head(queue)) ELSE batch
  /\ UNCHANGED <<running, stopPc, handle, wpc, after, fields, tables, jsonl,
                 produced, accepted, done, atStop, settings>>

DrainEmpty ==
  /\ wpc = "drain"
  /\ queue = <<>>
  /\ \/ batch # <<>> /\ wpc' = "flush" /\ after' = "exited"
     \/ batch = <<>> /\ wpc' = "exited" /\ UNCHANGED after
  /\ UNCHANGED <<queue, running, stopPc, handle, batch, fields, tables, jsonl,
                 produced, accepted, done, atStop, settings>>

-----------------------------------------------------------------------------
(* _flush, _write_jsonl, _write_db *)

(* Enrichment comes first and swallows its exceptions; then _flush looks at  *)
(* the handle, which stop() may close and forget before it is used.          *)
FlushBegin ==
  /\ wpc = "flush"
  /\ wpc' = IF handle # "none" THEN "jsonl" ELSE "db"
  /\ UNCHANGED <<queue, running, stopPc, handle, after, batch, fields, tables,
                 jsonl, produced, accepted, done, atStop, settings>>

EventsIn(items) == {j \in DOMAIN items : items[j].kind = "event"}

EventIds(items) == {items[i].id : i \in EventsIn(items)}

WriteJsonl ==
  /\ wpc = "jsonl" /\ handle = "open"
  /\ wpc' = "db"
  /\ jsonl' = jsonl \cup EventIds(batch)
  /\ UNCHANGED <<queue, running, stopPc, handle, after, batch, fields, tables,
                 produced, accepted, done, atStop, settings>>

(* Mutant: the failed write is not counted. *)
WriteJsonlFails_Silent ==
  /\ wpc = "jsonl" /\ handle = "open"
  /\ wpc' = "db"
  /\ UNCHANGED <<queue, running, stopPc, handle, after, batch, fields, tables,
                 jsonl, produced, accepted, done, atStop, settings>>

(* OSError after any prefix of the batch; the database is still tried. *)
WriteJsonlFails ==
  /\ wpc = "jsonl" /\ handle = "open"
  /\ errors < MaxErrors
  /\ wpc' = "db"
  /\ errors' = errors + 1
  /\ \E k \in 0 .. Len(batch) : jsonl' = jsonl \cup EventIds(SubSeq(batch, 1, k))
  /\ UNCHANGED <<queue, running, stopPc, handle, after, batch, written, dropped,
                 tables, produced, accepted, done, atStop, settings>>

(* The handle went away since FlushBegin: ValueError on the closed file or   *)
(* AttributeError on None, neither of which anything catches.                *)
WriterDies ==
  /\ wpc = "jsonl" /\ handle # "open"
  /\ wpc' = "died"
  /\ UNCHANGED <<queue, running, stopPc, handle, after, batch, fields, tables,
                 jsonl, produced, accepted, done, atStop, settings>>

(* Sessions first, in order, then events.  A closing upsert of a session     *)
(* without a row makes a row whose NOT NULL columns are missing; an event    *)
(* without a session row breaks the foreign key.                             *)
HasRow(sid, items, n) ==
  \/ rows[sid] # "none"
  \/ \E j \in 1 .. n : items[j].kind = "open" /\ items[j].sid = sid

TxnOk(items) ==
  \A i \in DOMAIN items :
    /\ items[i].kind = "close" => HasRow(items[i].sid, items, i - 1)
    /\ items[i].kind = "event" => HasRow(items[i].sid, items, Len(items))

Upserts(items, kind) ==
  {items[i].sid : i \in {j \in DOMAIN items : items[j].kind = kind}}

(* Mutant: the batch is not emptied after the flush. *)
FlushReturns_KeepsBatch ==
  /\ written' = written + Cardinality(EventsIn(batch))
  /\ done' = (done \o batch) \o InHand
  /\ wpc' = after
  /\ UNCHANGED <<queue, running, stopPc, handle, after, batch, dropped, jsonl,
                 produced, accepted, atStop, settings>>

(* self.written counts the events of the batch whatever became of them. *)
FlushReturns ==
  /\ written' = written + Cardinality(EventsIn(batch))
  /\ done' = (done \o batch) \o InHand
  /\ batch' = <<>>
  /\ wpc' = after
  /\ UNCHANGED <<queue, running, stopPc, handle, after, dropped, jsonl,
                 produced, accepted, atStop, settings>>

WriteDb ==
  /\ wpc = "db"
  /\ settings.write_to_db /\ TxnOk(batch)
  /\ rows' = [s \in Sids |-> IF s \in Upserts(batch, "close") THEN "closed"
                             ELSE IF s \in Upserts(batch, "open") THEN "open"
                             ELSE rows[s]]
  /\ stored' = stored \cup EventIds(batch)
  /\ UNCHANGED errors
  /\ FlushReturns

(* Mutant: the rollback goes uncounted. *)
WriteDbFails_Silent ==
  /\ wpc = "db"
  /\ settings.write_to_db
  /\ UNCHANGED <<tables, errors>>
  /\ FlushReturns

(* A constraint, or a database that stays locked beyond its busy timeout:    *)
(* the transaction of the whole batch is rolled back and counted once.       *)
WriteDbFails ==
  /\ wpc = "db"
  /\ settings.write_to_db
  /\ TxnOk(batch) => errors < MaxErrors
  /\ errors' = errors + 1
  /\ UNCHANGED tables
  /\ FlushReturns

WriteNoDb ==
  /\ wpc = "db"
  /\ ~settings.write_to_db
  /\ UNCHANGED <<tables, errors>>
  /\ FlushReturns

Writer ==
  \/ GetItem \/ GetSentinel \/ GetEmpty \/ CheckRunning \/ DrainItem \/ DrainEmpty
  \/ FlushBegin \/ WriteJsonl \/ WriteJsonlFails \/ WriterDies
  \/ WriteDb \/ WriteDbFails \/ WriteNoDb

-----------------------------------------------------------------------------
(* A session emits its opening row, then events, then its closing row; the   *)
(* executor thread of an SSH session may still emit events after that.       *)
Session(sid) ==
  \/ stage[sid] = "new" /\ Emit("open", sid)
  \/ stage[sid] # "new" /\ Emit("event", sid)
  \/ stage[sid] = "open" /\ Emit("close", sid)

Producer == stopPc # "idle" /\ offered < MaxEmits /\ \E sid \in Sids : Session(sid)

LoggerNext == Producer \/ Start \/ Stop \/ Writer

LoggerSafety == LoggerInit /\ [][LoggerNext]_loggerVars

(* The writer thread is scheduled and its blocking calls time out; a stop()  *)
(* that has begun runs to its end.  Nobody has to emit or to call stop().    *)
LoggerSpec ==
  /\ LoggerSafety
  /\ WF_loggerVars(Writer)
  /\ WF_loggerVars(StopSentinel \/ StopJoin \/ StopCloseHandle \/ StopForgetHandle)

-----------------------------------------------------------------------------
(* Properties *)

(* Whatever put_nowait accepted is, in that order and exactly once, with the *)
(* writer's finished work, in its batch, in its hand or still in the queue:  *)
(* no interleaving of emit, _run, _drain_remaining and stop() loses, copies  *)
(* or reorders an item.                                                      *)
Conservation == accepted = ((done \o batch) \o InHand) \o queue

(* The writer never leaves its loop while _running is set: the sensor is     *)
(* never up without somebody emptying the queue.                             *)
WriterServes == running => WriterAlive

HoldsSentinel(seq) == \E i \in DOMAIN seq : seq[i] = Sentinel

(* A writer that left through the sentinel has flushed everything accepted   *)
(* before stop() was called, the batch it held at that moment included: that *)
(* many items and the sentinel itself.                                       *)
SentinelDrains == wpc = "exited" /\ HoldsSentinel(done) => atStop < Len(done)

(* Events that went through _flush and are not in the database: errors says  *)
(* that there is a loss (written counts those events all the same).          *)
LossIsCounted ==
  settings.write_to_db /\ (\E i \in DOMAIN done : /\ done[i] # Sentinel /\ done[i].kind = "event"
                                                   /\ done[i].id \notin stored)
    => errors > 0

(* As long as no sink has failed and stop() has not closed the file, the     *)
(* JSONL file and the events table hold the same events, but for the batch   *)
(* that is between the two writes.                                           *)
SinksAgree ==
  settings.write_to_db /\ handle = "open" /\ errors = 0
    => /\ stored \subseteq jsonl
       /\ jsonl \ stored \subseteq EventIds(batch)

(* Everything accepted is flushed in the end, unless stop() lets the writer  *)
(* go or takes the file away from it: a batch smaller than _BATCH_SIZE does  *)
(* not wait for more traffic.                                                *)
AcceptedIsHandled ==
  \A n \in 1 .. MaxEmits : Len(accepted) >= n ~> (Len(done) >= n \/ ~WriterAlive)

(* After stop() the writer thread ends, even when the queue was full and the *)
(* sentinel could not be put.                                                *)
WriterEnds == (stopPc = "join") ~> ~WriterAlive

(* stop() says "Signal the writer to drain and exit": a writer that exited   *)
(* has flushed what was accepted before stop() was called.                   *)
StopDrains == wpc = "exited" => atStop <= Len(done)

-----------------------------------------------------------------------------
(* The inductive invariant behind Conservation, WriterServes and             *)
(* SentinelDrains: where the sentinel is, and where the writer is.           *)
SentinelPlace ==
  /\ stopPc \in {"idle", "up", "clear"} => ~HoldsSentinel(accepted)
  /\ stopPc \in {"idle", "up"} => atStop = 0
  /\ atStop <= Len(accepted)
  /\ \A i \in DOMAIN accepted : accepted[i] = Sentinel => atStop < i
  /\ \A i, j \in DOMAIN accepted :
       accepted[i] = Sentinel /\ accepted[j] = Sentinel => i = j
  /\ wpc = "drain" => HoldsSentinel(done)

WriterPlace ==
  /\ running => stopPc = "up" /\ WriterAlive
  /\ stopPc = "idle" => wpc = "absent"
  /\ stopPc \in {"idle", "up", "clear"} =>
       wpc # "drain" /\ (wpc \in FlushPcs => after \in {"get", "check"})
  /\ stopPc = "up" => handle # "closed" /\ (wpc = "jsonl" => handle = "open")

LoggerInv == LoggerTypeOK /\ Conservation /\ SentinelPlace /\ WriterPlace

(* What SinksAgree rests on: until a sink fails, the file is ahead of the    *)
(* table by the batch between the two writes and by nothing else.            *)
SinksInStep ==
  /\ stopPc = "idle" => stored = {} /\ jsonl = {}
  /\ settings.write_to_db /\ handle = "open" /\ errors = 0
       => jsonl = stored \cup (IF wpc = "db" THEN EventIds(batch) ELSE {})

=============================================================================
