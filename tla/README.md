# A TLA+ model of deception-grid

deception-grid is a honeypot: a sensor process with one asyncio listener per
bait service, a writer thread that stores what the listeners record, a pipeline
that enriches, detects and alerts, and an API with a dashboard. This directory
holds the specifications kept beside that code, the TLC runs that check them on
small instances, and proofs checked by TLAPS. `PROJECT.json` maps every
definition to the lines it models.

## 1. The system

| Component | State | Operations | Talks to |
|---|---|---|---|
| Event logger `honeypot/logger.py` | bounded queue, `_running`, JSONL handle, batch, counters | `start`, `stop`, `emit`, `emit_session`, `_run`, `_drain_remaining`, `_flush` | called by sessions on the loop and by SSH threads; writes the database and a file |
| Session registry `honeypot/session.py` | `_active`, `_per_ip`, counters | `can_accept`, `register`, `unregister` | `_handle_client` |
| Session `honeypot/session.py` | `event_count`, budgets | `open`, `record`, `close`, `count_bytes` | logger |
| Service base `services/base.py` | listening server | `start`, `stop`, `_handle_client` | registry, session, concrete service |
| SSH full mode `services/ssh_service.py` | executor job, paramiko transport thread | `_handle_full`, `_paramiko_session`, `_ParamikoHandler` | session, from other threads |
| Other services `services/*.py` | per-session protocol state | `handle_session` | session |
| Sensor process `honeypot/main.py` | stop event, services | `run`, `request_stop` | everything above |
| Detection `pipeline/detection/rules.py` | alerts table | `evaluate_rules`, `persist_alerts`, `run_detection` | storage, notifier |
| Alerting `pipeline/alerting/notify.py` | channels | `notify_new_alerts` | webhooks |
| Scoring `pipeline/detection/scoring.py`, `coverage.py` | none | `score_attacker`, `classify`, `explain`, `coverage_report` | aggregates, alerts |
| Enrichment `pipeline/enrichment/*` | cached indices and readers | `check_ip`, `lookup`, `reload_indicators` | files, database |
| Analysis `pipeline/analysis/*` | payload analyses, rollups | `cluster`, `store_analysis`, `refresh_rollups` | storage |
| Storage `storage/*` | tables, attackers aggregate | `session_scope`, `list_*`, `rebuild_attackers` | all |
| API `api/*` | none | live feed, alert status, detection trigger | storage, detection |
| Dashboard `dashboard/src` | fetched data per page | `useApi`, live-feed poll | API |
| Tools `tools/*` | none | purge, import, seed | storage |

What is hard here. Three kinds of thread meet in the logger: the loop, the SSH
threads and the writer, with `stop()` on the loop. Shutdown has an order
(listeners, sessions, logger, cancellation, executor) that depends on the
interpreter's `wait_closed`. The queue is bounded, a batch is one transaction,
and the database has constraints a lost row makes later batches violate.
Detection runs may overlap and page before they commit. Caches are read without
their lock. The services parse streams whose reads may come back short, under two
budgets. The attackers table is rebuilt from rows that change meanwhile, and a
purge runs in three transactions under a live sensor. The dashboard polls without
waiting for its answers. `PROJECT.json` lists these hazards with their lines.

What makes the components correct:

* logger: nothing accepted is lost, copied or reordered between `put_nowait`
  and the flush; losses are counted; the writer serves while the sensor is up
  and ends after `stop()`;
* registry: limits hold, and the per-address books equal the live sessions;
* sessions: the row precedes the events, the closing row counts them, the
  budget holds, every session ends;
* sensor: sessions have recorded their end before the logger stops, and a
  sensor asked to stop exits;
* alerts: one row per rule and group, one page per row, no row without its page,
  triage is never undone, and runs that overlap end;
* services: what is acted on is what was sent, logins and payload files are
  explained by events, a flood is cut, every conversation ends;
* detection: the window finds its peak, every justified alert is raised and
  founded, reruns only add, scores move one way, campaigns are components;
* storage: aggregates are true unless rows changed since they were read, pages
  miss nothing that was there throughout, charts agree with totals;
* live feed and hook: rows once, in order, without holes, and no late answers,
  except where the code admits them;
* enrichment: a database is opened once, a lookup sees one load or none.

## 2. Modules

| Module | Models | Uses |
|---|---|---|
| `EventLogger` | the logger, its producers abstracted to sessions that emit | |
| `SessionRegistry` | the registry | |
| `Sensor` | sessions, `_handle_client`, SSH threads, `Honeypot.run` | extends both |
| `AlertStore` | detection runs, notifier, triage and purge on the alerts table | |
| `ServiceSession` | a session and the reading helpers, as a service uses them | |
| `FakeShell` | the shell of `deception/responses.py` | |
| `TelnetService`, `FTPService`, `HTTPService`, `DockerService`, `RedisService`, `MySQLService`, `SSHService` | one service each | extend `ServiceSession`; telnet and SSH `FakeShell`, Docker `HTTPService` |
| `Services` | a conversation with any of them | extends all |
| `Peak` | what `_sliding_peak` promises | |
| `PeakScan` | the two-pointer scan | instantiates `Peak` |
| `RuleEngine` | rules, conditions, detection, coverage report | |
| `Scoring` | score, class, explanation | |
| `Campaigns` | similarity and union-find | |
| `Detection` | composes the four | extends them |
| `EventStore` | the tables and everything that writes them | |
| `EventQueries` | charts and pages over the tables | extends `EventStore` |
| `LiveFeed` | live endpoint and page | extends `EventQueries` |
| `UseApi` | the fetching hook | |
| `Enrichment` | caches and lookups | |
| `Backend` | composes the five | extends them |
| `EventLoggerProofs`, `SessionRegistryProofs`, `SensorProofs`, `AlertStoreProofs`, `DetectionProofs` | theorems | extend their modules and TLAPS |
| `ServicesProofs` | theorems about the conversations | extends `Services` and TLAPS |
| `StoreProofs`, `BackendProofs` | theorems about the tables and pages, and about hook, caches and live feed, as parts of `Backend` | extend `Backend` and TLAPS |
| `MCEventLogger`, `MCSessionRegistry`, `MCSensor`, `MCAlertStore`, `MCServices`, `MCDetection`, `MCBackend`, `MCEventStore` | instances for TLC | |

### EventLogger

A step is one call on the queue, one test of a shared field or one sink write;
a thread switch between two of those can be observed. `wpc` is the writer's
place: `get` (in `queue.get`), `check` (about to read `_running`), `drain`
(`_drain_remaining`), `flush`, `jsonl`, `db` (inside `_flush`), `exited`,
`died`. `stopPc` is the place of the caller of `stop()`. `_running.clear`, the
sentinel, the join, the close of the file and its replacement by `None` are five
steps, so the writer can find the file closed, or gone, between its test of the
handle and the write (`WriterDies`).

The database is its constraints: an event without a session row and a closing
upsert without a row roll back the whole batch (`TxnOk`); a lock that outlives
the busy timeout does the same without a cause in the batch. `settings` ranges
over the deployments with at least one sink. `offered`, `stage`, `accepted`,
`done` and `atStop` are history variables. `InHand` is the sentinel a writer has
taken while it flushes the batch in front of it.

`dropped += 1` and `errors += 1` are one step: between the bytecodes of an
attribute increment CPython 3.11 and 3.12 do not switch threads. The logger is
started and stopped once, as `Honeypot.run` does.

### SessionRegistry

Each method runs on the loop and is one step. `perIp` is a function whose domain
is the dictionary's keys, so a key with a stale count and a missing key differ.

### Sensor

A handler runs between two awaits without another handler, while the writer and
the SSH threads run all the time. What a handler emits is therefore left in
`todo` and put on the queue one item per step, and no other handler starts
before `todo` is empty (`LoopFree`). `End` is the `finally` block with ERROR
recorded if the handler raised. `Timeout` ends a session whose executor thread
lives on. `checked` counts the recorders of a full-mode session (the executor
thread and paramiko's transport thread) that are past the budget test of
`record` and have not counted yet. `WaitsForClients` distinguishes interpreters
whose `Server.wait_closed` waits for live connections (3.12.1 and later) from
those where it returns at once (3.11). Listeners start and stop in any order;
the code takes the order of its settings.

Abstracted: the text of events, `auth_attempts`, `commands_run` and `bytes_in`;
`count_bytes` is the session end with reason `limit`.

### AlertStore

A run of `run_detection` is a database session: it looks its payloads up one by
one, and each lookup autoflushes the row the previous one left `dirty` into the
transaction `tx`, so locks are taken row by row. `Lookup` reads what is committed
then (READ COMMITTED on PostgreSQL; on SQLite reads before the first write are
autocommitted, and after it nobody else writes). `Holders` says whom a flush has
to wait for; a wait ends with the holder, the busy timeout or deadlock detection
(`GiveUp`). `FlushFails` is the unique constraint, or an UPDATE whose row the
purge has deleted; `gen` tells a row from a later one with the same key. An
UPDATE writes only the columns that changed: `written = 0` is an UPDATE without
`hit_count`. `Send` is one webhook call whatever it returns, `SendRaises` the
exception that `post_webhook` lets through. `Commit` is `run_now`,
`NobodyCommits` is `make detect`, and `Fails` a crash or failed commit at any
point. What a run finds is arbitrary, because runs read different windows at
different times. A triage request and the purge's DELETE are one statement and
one step each, and wait for the locks of runs.

Abstracted: the evaluation of rules, the order of payloads, every column but
`hit_count` and `status`, notes, and the wording of messages.

### Services

A step runs from one await on the peer to the next. The stream is a sequence of
tokens: a line, bytes without a newline, or a line beyond the buffer. `read_line`
lets bytes run into the line behind them and, after an overlong line, returns
whatever follows; `read_bytes` may return all, a part or nothing. `wire` is what
has been sent and not read, `loc` the locals of `handle_session`, `sess` the
`HoneypotSession` with its emitted events as `log`, `files` the payload directory.
`peer` is history: what the peer meant, what the handler acted on, how many
answers it got after `record()` refused. A login that the code decides with a
random number is a choice. `SSHService` has both modes: the banner and KEXINIT of
fingerprint mode, and paramiko's callbacks (paramiko itself is external) with the
fake shell. `Leaves` is a hang-up, a timeout or the shutdown; `OverLimit` is
`SessionLimitExceeded` out of any read. Handlers of different sessions share only
the registry, the logger and the executor, which `Sensor` models, so one
conversation is enough.

### Detection

`PeakScan` keeps the loop of `_sliding_peak`: `Take` one event on the right,
`Shrink` from the left, `Compare` with the best. `Peak` answers in one step with
the largest measure of any span within the window, and `PeakScan` is shown to
implement it (`Oracle == INSTANCE Peak WITH answer <- ...`). `RuleEngine` runs
rule files over a table in which rows may come late; `Orders` is every order the
query may return rows of one timestamp in, and a group, or a span of one, is a
set of places in that order. Rule files have all four types, every
operator, and a condition with an unknown one, which passes `load_rules` and
raises at evaluation. `Scoring` counts points in thousandths with tables for the
logarithms and the exponential, in units of 15 days. `Campaigns` compares pair
after pair in the order of `cluster`; path halving is part of `Union`.

### EventStore and what reads it

A step is a transaction, or a SELECT in front of one, since SQLite takes its lock
at the first write. `build` holds the rebuilds of the API, of the purge and of
the import: a rebuild reads the attackers, reads the events, and flushes, and the
flush fails if a row it means to insert is there or one it means to update is
gone. `purge_events` is three transactions with a crash between any two.
`hist.stale` is the set of addresses whose rows changed after the rebuild that
wrote their aggregate had read them. `EventQueries` has the listing with its
offset, the time series, the heat map, the top lists and the summary. In
`LiveFeed` a poll is sent, answered and applied in three steps, and nothing keeps
a second one from starting in between. In `UseApi` only the load of the effect
has a signal that somebody aborts. In `Enrichment` a step ends at a lock or
between two accesses to an unlocked global.

Abstracted: the scores in the aggregate (see `Scoring`), columns no property
tells apart, parsers of foreign logs, the content of payload analyses.

## 3. Runs

| Run | Instance | Shows |
|---|---|---|
| `logger` | one session, queue 2, batch 2, four emits, four sink failures | conservation, the writer serves and ends, counted losses, agreement of the sinks, every accepted item is flushed |
| `logger_stop_race` | the same | `stop()` may leave an accepted event behind (finding) |
| `registry` | six connections, three addresses, limits 3 and 2, eight attempts | exact books, limits |
| `sensor` | telnet and SSH session, ignored address, queue 4, budget 2 | refused batches of a deployment with a database imply a counted loss, closing rows count stored events, the logger outlives the sessions |
| `sensor_shutdown` | one SSH session with two threads, queue 2 | budget overrun of at most two, sessions end, shutdown ends |
| `sensor_py311` | two sessions, `wait_closed` returns at once | sessions may be open when the writer is gone (finding) |
| `alerts` | two alerts of different severity, two overlapping runs of three, cap 1, one purge, SQLite and PostgreSQL | no stored alert without its page, extra pages explained, triage kept, counters drop only by a stale write, runs end |
| `alerts_repage` | the same without crashes | `make detect` pages again at every call (finding) |
| `services` | one conversation with each service, four events, five reads | logins explained, uploads after logins, floods cut, statuses true, payload files referenced, what is heard is what was meant, shell consistent, every talk ends |
| `detection` | every sequence of four events; rule files over a growing table; an attacker's events; four sources with any of the fingerprints | the scan implements `Peak`, alerts complete and founded and only growing, coverage is evidence, scores bounded and monotone, roots are components |
| `backend` | two connections, three rows, one import, purge and rebuild; two polls; three loads; two threads and one reload | aggregates true unless stale, losses need a purge, charts agree, pages and feed complete, only quiet loads late, caches opened once and seen whole, the writer's enrichment always returns |
| `purge_cascade` | one connection, two rows, one purge | a purge takes events newer than its cutoff (finding) |

Bounds. Four emits on a queue of two overflow it and leave a partial batch; a
full queue at `stop()` loses the sentinel. One session is enough for the
constraints: a batch is refused through the rows of a single session. Six
connections reach both limits, alone and together. The `sensor` run follows a
behaviour up to its first counted loss, because the invariants about rows say
nothing beyond it and the others do not depend on losses; `sensor_shutdown` has
no such limit. `MaxEmits`, `MaxErrors` and `MaxAttempts` are bounds of the
models, not of the code. In `alerts` a third run meets the row a first one stored
while a second one overlaps it, which a stale read needs; two keys are enough for
a deadlock and for an alert over the cap; the purge lets a key return. `MaxHit`,
`MaxTriggers` and `MaxPurges` are bounds of the model. In `services`, four events
are CONNECT, a login and one more, so that the budget is met during a login,
between the login and its success, and at the first request; five reads are a
login with two commands or a request with its headers and body; three headers
are one below, at and above `MAX_HEADERS`. In `detection`, four events at up to
four times have spans below, at and above the window, values that leave on the
left and return, and ties. Four sources are the fewest on which path halving
moves a parent. In `backend` two connections of different addresses are needed
for a batch that one of them fails; three rows with a purge in between leave one
on each side of a cutoff; with a page of one row and three rows, an offset
crosses rows that arrive or go; three loads are a mount, a later mount and a
quiet one. Its behaviours are about one topic each (`topic`), because the topics
share only tables and the product of their states adds no interaction. `MaxRows`,
`MaxImports`, `MaxRebuilds`, `MaxSeen`, `MaxDay`, `MaxDeps`, `MaxLookups`,
`MaxReloads` and `MaxRefreshes` are bounds of the models. Deadlock is not checked
where the system may stop: a stopped sensor, a closed conversation, a finished
computation.

Fairness. The writer is a thread whose blocking calls time out, and `stop()`
once begun runs to its end (weak fairness of each). In `Sensor`, `wait_for` ends
every session after `session_timeout_s`, the main coroutine and the loop are
scheduled, and a thread whose session has ended finds its socket closed, because
`_handle_full` closes the duplicate in its `finally`. Nobody has to connect,
type, emit or ask for the stop. In `AlertStore` each run is weakly fair: a webhook
call has a timeout and a lock wait ends as above. Crashes and requests are not fair.
`Services` assumes the opposite of help: a peer that always sends and never hangs
up (`ChattySpec`), so that only the code's own limits can end the talk. In `Enrichment` each
thread that has begun a lookup is scheduled, and a reload that has taken the lock
goes on; nobody has to begin or to reload.

### Findings

* `StopDrains`: the writer sees `Empty`, an event is accepted, `stop()` clears
  `_running`, the writer reads it and leaves. The event is in the queue, uncounted.
  `SentinelDrains` is the part of the promise that does hold.
* `CloseIsRecorded`: on Python 3.11 live sessions are cancelled after
  `logger.stop()`, so their DISCONNECT and closing row go nowhere.
* `RunsDoNotRepage`: `make detect` takes its session from
  `session_scope().__enter__()` and nobody commits it. The webhook is called, the
  rows are rolled back, and the next call pages again. `PagesBounded` is the part
  of the promise that holds: further pages come from runs that did not commit.

* `PurgeSparesRecent`: the purge deletes sessions by the time they began, and the
  foreign key takes all their events with them, the recent ones too.

Several properties are conjunctions of named parts, which fail separately:
`LoginsAreExplained` and `RecordedAsServed` in `Services`, `AlertsAreJustified` and
`DetectionOnlyAdds` in `RuleEngine`, `ScoresMoveOneWay`, `CampaignsAreComponents`,
`TablesAreTrue`, `FeedIsFaithful`, `HookIsHonest`, `CachesAreSound`,
`BooksAreSound` and `TriageIsSafe`. The type invariant of a module is such a part.
`RegistryTypeOK` is part of the proved `RegistryInv`.

More behaviours show in what the parts allow: `DropsOnlyIfStale` admits
that a run overtaken by another lowers `hit_count`, and `ToldWhenStored` exempts
the alerts left unsent when `post_webhook` raises. `FloodIsCut` counts the answers
given after the budget is spent (FTP, Redis and MySQL are not in it: their logins
ignore the refusal). `StatusIsTrue` exempts the Docker exec recorded as 200 and
answered with 201, `ExplanationAddsUp` events from the future,
`OnlyQuietLoadsAreLate` polls and refreshes, `FeedShowsOnce` and `FeedHasNoHoles`
overlapping polls, late rows and bursts beyond the limit of a poll, and
`IntelIsWhole` lookups that met a reload.

## 4. Proofs

`EventLoggerProofs` assumes `LoggerAssumption` only (positive sizes, a sentinel
that is no item), for any set of sessions and any number of calls.

* `LoggerTypes`: one lemma per shape of step (put, take, flush), then a case per
  action.
* `LoggerInvariant`: `LoggerInv` is types, `Conservation`, `SentinelPlace` and
  `WriterPlace`. `Conservation` alone is not inductive: `_drain_remaining` throws
  sentinels away, so a second sentinel in the queue would break it. `SentinelPlace`
  says that there is at most one in all that was accepted, behind position
  `atStop`, and that a draining writer has put it behind; `WriterPlace` says where
  the writer can be before the sentinel was put.
* `LoggerConservation`, `LoggerWriterServes`, `LoggerSentinelDrains` follow.
* `LoggerLossIsCounted` and `LoggerSinksAgree` add to it what a flush leaves behind
  (`SinksInStep`): while no error was counted, what has been flushed is stored,
  and the file is ahead of the tables only by the batch between its two writes.

`SessionRegistryProofs` assumes `RegistryAssumption`. The limits are inductive
only together with the books, since `can_accept` reads the books:
`RegistryInvariant`, from it `RegistryBooks` and `RegistryLimits`.

`SensorProofs` assumes `SensorAssumption` and those of the two modules it extends,
for any set of connections, services and full-mode sessions, and either behaviour
of `wait_closed`. `SensorInv` contains `LoggerInv` and the registry's books, and:
`MainPlace`, how far `run()` is by what `stop()` has done, with every live session
on a service that listens or is waited for; `SessionPlace`, the slots and the
recorders past the budget test, each counted already; `TodoShape`, that a handler
works for one session, whose row comes first and whose closing row last;
`OpensFirst` and `RowsKnown`, from which a refused batch needs a loss; and
`BooksKept`, that `event_count` is the events put plus those the handler still
owes. `BooksBalance` says nothing before the closing row is stored, so it needs
the last of these to be inductive. The steps of the logger and the registry are
covered by their own invariants, whose proofs are reused. From `SensorInvariant`
follow `SensorBudgetKept`, `SensorLoggerOutlivesSessions`, `SensorRefusalMeansLoss`
and `SensorBooksAreSound`.

`AlertStoreProofs` assumes `AlertStoreAssumption`, for any keys, ranks, statuses,
cap and number of overlapping runs, on both databases. `AlertInv` says what a run
holds by its place (`RunPlace`, `RowsOfRun`), what its locks guarantee until it
ends (`LocksHold`: a flushed INSERT keeps its key free, a flushed UPDATE its row),
that no eligible alert falls out between creation and commit (`NobodyForgotten`),
and that every page is accounted for by a row, a run, a failure or a purge
(`PagesCounted`). `PagesBounded` is not inductive without the last, nor that
without the locks. `AlertTriageIsSafe`, `AlertToldWhenStored`, `AlertPagesBounded`
and the action property `AlertDropsOnlyIfStale` follow.

`ServicesProofs` assumes `ServiceAssumption` (sizes), `TelnetAssumption` and
`SshAssumption` (what stands for `None` is not a name somebody types), for any
set of services, any names, lines, requests and commands, and any budgets. Besides
the properties, `ServicesInv` says where each handler may be (`InPlace`), what
telnet has on the wire at its prompts (`TelnetWire`), what each service knows of
the login (`LoginState`) and how many answers it has left (`FloodState`). None can be
missed: `ShellIsConsistent` says nothing before the shell starts, so it needs that
there was no success up to then and that the name kept is the one that succeeded;
`UploadsFollowLogin` needs that `loc.authenticated` of FTP stands for a logged
success; `FloodIsCut` of telnet needs one answer in reserve for the attempt at hand.
The shapes of `loc`, which differ per service and place, are in `Shapes`. The
argument: `record` either appends an event and counts it or refuses, and then the
session is spent (`Records`, `Follows`); an attempt followed by its success
explains a login (`LoginGranted`, used by FTP, telnet and SSH alike); and one
lemma per read of each service puts them together. `ServicesInvariant` gives
`ServicesLoginsAreExplained`, `ServicesRecordedAsServed` and `ServicesFloodIsCut`.

`ServicesHeardAsMeant` needs a second invariant on top of that one, `HeardInv`:
while the frame is not lost, the stream holds exactly what the handler has yet to
hear (`InStep`). At each place of each service either all that was meant has been
heard (`Even`), or one thing is owed (`Owes`) and the stream is what is left of it:
`Rest` of an HTTP request after the headers read so far, the words of a Redis array
behind those in `parts`, a line of telnet. Two cases are easy to miss: a peer that
sends a new request where it had announced a body (it is on the stream at `body`, and
no read of bytes takes it for that body without breaking the frame), and Redis lines
that are well formed and no commands. It assumes in addition `RequestAssumption`
and `DockerAssumption` (a body that is sent is announced by a header) and
`CommandAssumption` (commands have one or two words, within `MAX_ARRAY_LEN`, and
none looks like the head of an array). That `strip_telnet_control` returns what was
typed, `StripsToTyped`, is a hypothesis of the theorem: it is a recursion over the
bytes of a line, which TLC evaluates on the lines of the run and the prover cannot.

`StoreProofs` assumes `StoreAssumption` (there is a connection) and
`QueryAssumption`, and is about `BackendSpec` with any number of connections,
rows, imports, rebuilds and purges. `StoreParts` is `StoreInv` of `EventStore` with
the shapes of its records. Its heart is `BuildsAreRight`: a rebuild that has read
is right about every address not marked `dirty` since, which every writer,
purge and reset must maintain for all rebuilds under way, and without which the
truth of a flushed aggregate is not inductive. `StoreTablesAreTrue` follows;
`StoreLossNeedsPurge` rests on `LiveHasSessions`, that an open connection has its
row until a purge takes one. For `StorePagesMissNothing`, `UnseenIsAhead` says that
a row of the start that was not seen has at least as many rows before it as the
offset; `ListingPlaces` shows that the place of a row on any listing is the number
of rows before it, by counting (a listing without repetitions of as many places
as rows has every row). `BoundedMax`, that a bounded set of integers has a
maximum, is proved with the pigeonhole principle instead of an induction.

`BackendProofs` assumes `HookAssumption` (a first load) and `EnrichAssumption`
(the names for no thread and for the reload are not threads, and `NoIndex` is not
an index). `HookInv`: the effect has one load that is not aborted, for the
parameters of the moment. `EnrichInv`: the holder of a reader's lock is the thread
that opens it and the only one (`ReaderState`); the two indices are of one load
whenever their lock is free (`IndexState`); and what a lookup that met no reload
may rely on at each place (`LookupState`). From them `BackendHookIsHonest` and
`BackendCachesAreSound`. The live feed's part rests on the tables of `StoreProofs`
(rows have distinct ids and are ordered) and on `FeedAssumption`: a poll asks for,
and the page keeps, at least one row. `FeedIsFaithful` speaks of what is shown
and is not inductive; `FeedInv` adds what is under way. `FeedIsWhole`: unless polls
overlapped or the table was skewed, one poll is under way, its cursor is the
row at the top, and its answer put before the rows shown is again a part of the
listing without holes. `FilterKept`: an answer has the filter of its poll, which is the
page's unless that changed meanwhile. `TopContinues` (the answer down to the
cursor continues the rows upwards), `PrefixOfWhole` (cutting at `MAX_ROWS`
makes no hole) and `WholeStays` (rows that come on top make none) carry the
proof of `BackendFeedIsFaithful`.

Each inductive invariant was first checked by TLC as an invariant of its module's run;
since it is proved, the configurations do not repeat it.

`DetectionProofs` has two parts. The first, on `PeakScan`, assumes `ScanAssumption`
only, for any finite sequence of events, any window and any values. `ScanInv` is `ScanTypeOK`, where the pointers are (`PointersInv`), that the
Counter is the number of occurrences in the span (`CounterInv`: `del` at zero is
right only because of it), and that the best so far is a peak of the spans that
end at or before the last event compared (`BestInv`). The step that matters is
`Compare`: because timestamps are ordered, the span the scan holds contains every
span within the window that ends at the same event, so its measure is the
largest of them. `SpanTight` and `EvidenceHolds` follow, and `ScanRefinesPeak`:
every step of the scan is a step of `Peak` or leaves its answer unchanged.

The second part, on `RuleEngine`, assumes `RuleAssumption`: timestamps are integers
and the rules of a file have the fields of `Rule`. Rule files, conditions and rows
are otherwise arbitrary; a file need not load. `RuleInv` adds to `AlertsAreJustified`
the shapes of rules and alerts and `AlertsHaveRules`: an alert is there only if the
file loads and has a rule of its id. Without it a switched rule could change which
rows `GroupOf` takes an alert to be about. The argument for `Detect`: `OrdersList` shows
that a result of the query has every row at one place, so places can be counted for
rows (`PlacesAreRows`); `PeakIs`, that no widest span has a larger measure than the
one returned; `BurstFires`, that any rows within one window lie in the widest span
ending at the last of them, hence `FiresIfShould`: `_test_group` triggers whenever
`ShouldFire`, which speaks of rows and not of places, says so. The other direction is
`EachAlert` (an alert says what its evidence shows) and `MergedIs` (merging two
founded alerts gives one that extends the old one). `RulesAlertsAreJustified` and the
action property `RulesOnlyAdd` follow. The proof asked for one correction: `Healthy`
has to include the `numerator_where` of a ratio rule, since a condition there that raises
takes away all alerts of the rule just as one of `where` does.

Only model-checked: `CampaignsAreComponents`, because what `find` returns is a
recursion over the parents and the closure it is compared with is another;
`ChartsAgree`, whose sums are folds over sets; both need induction over data.
`ScoresMoveOneWay`, because the logarithms are tables of the values that occur within
the bounds, so that a theorem would say little more than the run. And the liveness
properties, which this prover does not handle.

## 5. Not modelled, and the plan

Left out:

* rendering of the dashboard, reports, digests and exports, and the response
  schemas of the API: formatting of query results;
* static payload analysis, signature tags of requests, HASSH, the parsers of
  foreign logs: pure functions over bytes or text, without state;
* the attack simulator, seeding and benchmarks: drivers outside the running system;
* listings of sessions, attackers and payloads: reads like the listing of events
  (`list_payloads` filters tags after LIMIT, so its pages may come back short);
* a feed file with a part of its lines: `refresh_indicators` overwrites it in place,
  and `RefreshFeed` of `Enrichment` leaves it either truncated or whole;
* configuration: read once, its limits are constants here;
* the fleet: a description without code.

The plan, in this order:

1. An abstract "page once per row" for the alert store.
2. A proof that `find` ends at a root, with a function built from the smallest source
   upwards in place of the recursion.
