----------------------------- MODULE AlertStore -----------------------------
(***************************************************************************)
(* The alerts table and everybody who writes to it: detection runs         *)
(* (run_detection: persist_alerts, then the notifier, then the caller's    *)
(* commit), the triage endpoint and the retention tool.                    *)
(*                                                                         *)
(* A run is one database session.  Its SELECTs read what is committed at   *)
(* that moment (READ COMMITTED on PostgreSQL; autocommitted reads before   *)
(* the first write on SQLite, and no other writer after it).  A lookup     *)
(* first flushes the row the previous one left dirty, so at most one row   *)
(* of a session is dirty.  What is flushed is locked until the session     *)
(* ends: on SQLite the whole database, on PostgreSQL the row or, for an    *)
(* INSERT, the unique key.                                                 *)
(***************************************************************************)
EXTENDS Naturals, FiniteSets, Functions, Relation
LOCAL INSTANCE FiniteSetsExt

CONSTANTS Keys,         \* dedupe keys: a rule and a group
          Rank,         \* [Keys -> Nat], the rank of the rule's severity
          Statuses,     \* of AlertStatus: "new" and what an analyst can set
          Runs,         \* database sessions that may run detection at once
          Callers,      \* subset of {"api", "make"}: who calls run_detection
          Deployments,  \* records [engine, webhook, min_rank, max_per_run]
          MaxHit,       \* bound: largest hit_count an evaluation reports
          MaxTriggers,  \* bound: number of runs started
          MaxPurges,    \* bound: number of calls of purge_events
          MayFail       \* crashes and failed commits happen

ASSUME AlertStoreAssumption ==
  /\ Rank \in [Keys -> Nat]
  /\ "new" \in Statuses
  /\ Callers \subseteq {"api", "make"}
  /\ Deployments \subseteq [engine : {"sqlite", "postgres"}, webhook : BOOLEAN,
                            min_rank : Nat, max_per_run : Nat]
  /\ MaxHit \in Nat \ {0}
  /\ MaxTriggers \in Nat /\ MaxPurges \in Nat /\ MayFail \in BOOLEAN

VARIABLES
  deployment,  \* chosen once
  alerts,      \* the committed rows: a function on the keys that have one
  pc,          \* per run: "idle", "persist", "notify", "commit"
  todo,        \* per run: payloads not looked up yet, key -> hit_count
  dirty,       \* per run: the row added or changed and not flushed yet
  tx,          \* per run: the rows flushed and not committed
  created,     \* per run: keys of created_payloads
  toSend,      \* per run: alerts of to_send without a call yet
  overflow,    \* per run: eligible alerts over the cap
  triggers, purges,  \* counters for the bounds
  \* History: what the properties are about.
  paged,       \* per run: keys the webhook was called for
  silent,      \* per run: keys an exception kept from being sent
  told,        \* stored keys whose run called the webhook for them
  silenced,    \* stored keys whose run was kept from calling
  attempts,    \* per key: calls of the webhook
  wasted,      \* per key: calls by runs that did not store the alert
  purged,      \* per key: rows deleted
  triage       \* per key: the status last given to its row

runVars == <<pc, todo, dirty, tx, created, toSend, overflow, paged, silent>>
bounds == <<triggers, purges>>
history == <<told, silenced, attempts, wasted, purged, triage>>
vars == <<deployment, alerts, runVars, bounds, history>>

None == <<>>                \* the function with an empty domain

\* The one row of key k, and rows written on top of others.
Row(k, row) == [j \in {k} |-> row]
OnTop(f, g) == [j \in DOMAIN f \cup DOMAIN g |-> IF j \in DOMAIN f THEN f[j] ELSE g[j]]

-----------------------------------------------------------------------------
(* Transactions *)

\* The runs whose locks a statement of r on row k has to wait for.
Holders(r, k) ==
  {q \in Runs \ {r} : IF deployment.engine = "sqlite"
                      THEN tx[q] # None ELSE k \in DOMAIN tx[q]}

\* A statement of nobody's run: the triage endpoint, the retention tool.
Locked(k) ==
  \E q \in Runs : IF deployment.engine = "sqlite"
                  THEN tx[q] # None ELSE k \in DOMAIN tx[q]

WaitsFor == [q, p \in Runs |-> \E k \in DOMAIN dirty[q] : p \in Holders(q, k)]

\* PostgreSQL aborts one transaction of a cycle of waiting ones.
Deadlocked(r) == TransitiveClosure(WaitsFor, Runs)[r, r]

\* The dirty row can be written: an INSERT finds no row with its key, an
\* UPDATE finds the row it was loaded from.  SQLite may give the id of a
\* deleted row to a new one.
Writable(r, k) ==
  LET row == dirty[r][k] IN
  IF row.new THEN k \notin DOMAIN alerts
             ELSE k \in DOMAIN alerts /\ (row.gen = purged[k] \/ deployment.engine = "sqlite")

\* The UPDATE's target is gone (StaleDataError), or the key is taken
\* (IntegrityError).
Refused(r, k) ==
  LET row == dirty[r][k] IN
  IF row.new THEN k \in DOMAIN alerts
             ELSE k \notin DOMAIN alerts \/ row.gen # purged[k]

\* An update puts a closed alert back in the list of new ones.
Stored_Reopens(r, k) ==
  LET row == tx[r][k] IN
  [hit_count |-> IF row.written = 0 THEN alerts[k].hit_count ELSE row.written,
   status |-> "new"]

\* The row after the transaction: an INSERT has the default status, an UPDATE
\* writes the columns that changed.
Stored(r, k) ==
  LET row == tx[r][k] IN
  IF row.new THEN [hit_count |-> row.written, status |-> "new"]
  ELSE IF row.written = 0 THEN alerts[k]
  ELSE [alerts[k] EXCEPT !.hit_count = row.written]

\* The session ends: get_db closes it, and whatever was not committed goes.
Ends(r) ==
  /\ pc' = [pc EXCEPT ![r] = "idle"]
  /\ todo' = [todo EXCEPT ![r] = None]
  /\ dirty' = [dirty EXCEPT ![r] = None]
  /\ tx' = [tx EXCEPT ![r] = None]
  /\ created' = [created EXCEPT ![r] = {}]
  /\ toSend' = [toSend EXCEPT ![r] = {}]
  /\ overflow' = [overflow EXCEPT ![r] = {}]
  /\ paged' = [paged EXCEPT ![r] = {}]
  /\ silent' = [silent EXCEPT ![r] = {}]
  /\ UNCHANGED <<deployment, triggers, purges, attempts, purged>>

\* A request that fails leaves its session open, and its locks held.
Rollback_KeepsSession(r) ==
  /\ pc' = [pc EXCEPT ![r] = "idle"]
  /\ todo' = [todo EXCEPT ![r] = None]
  /\ dirty' = [dirty EXCEPT ![r] = None]
  /\ UNCHANGED <<deployment, alerts, tx, created, toSend, overflow, paged, silent,
                 triggers, purges, history>>

Rollback(r) ==
  /\ Ends(r)
  /\ wasted' = [k \in Keys |-> wasted[k] + (IF k \in paged[r] THEN 1 ELSE 0)]
  /\ UNCHANGED <<alerts, told, silenced, triage>>

-----------------------------------------------------------------------------
(* persist_alerts *)

\* A run starts: evaluate_rules has found some alerts, each key once.  Which
\* ones depends on the events and on the window the caller asked for.
Trigger(r) ==
  /\ pc[r] = "idle" /\ triggers < MaxTriggers
  /\ triggers' = triggers + 1
  /\ pc' = [pc EXCEPT ![r] = "persist"]
  /\ \E K \in SUBSET Keys : \E found \in [K -> 1..MaxHit] :
       todo' = [todo EXCEPT ![r] = found]
  /\ UNCHANGED <<deployment, alerts, dirty, tx, created, toSend, overflow, paged,
                 silent, purges, history>>

\* The counter follows the last run instead of the largest.
Merged_Last(k, hit) ==
  [new |-> FALSE, gen |-> purged[k], was |-> alerts[k].hit_count,
   written |-> IF hit # alerts[k].hit_count THEN hit ELSE 0]

\* existing.hit_count = max(...): the column is written only if that changes
\* it.  "written" is 0 when it does not.
Merged(k, hit) ==
  [new |-> FALSE, gen |-> purged[k], was |-> alerts[k].hit_count,
   written |-> IF hit > alerts[k].hit_count THEN hit ELSE 0]

\* What an update of an existing row leaves to flush.  A row none of whose
\* columns changes is not flushed at all.
UpdateOf(k, hit) ==
  {Row(k, Merged(k, hit))} \cup (IF Merged(k, hit).written = 0 THEN {None} ELSE {})

Lookup(r, k) ==
  /\ pc[r] = "persist" /\ k \in DOMAIN todo[r] /\ dirty[r] = None
  /\ todo' = [todo EXCEPT ![r] = Restrict(@, DOMAIN @ \ {k})]
  /\ \/ /\ k \notin DOMAIN alerts
        /\ dirty' = [dirty EXCEPT ![r] =
             Row(k, [new |-> TRUE, gen |-> purged[k], was |-> 0, written |-> todo[r][k]])]
        /\ created' = [created EXCEPT ![r] = @ \cup {k}]
     \/ /\ k \in DOMAIN alerts
        /\ \E d \in UpdateOf(k, todo[r][k]) : dirty' = [dirty EXCEPT ![r] = d]
        /\ UNCHANGED created
  /\ UNCHANGED <<deployment, alerts, pc, tx, toSend, overflow, paged, silent,
                 bounds, history>>

\* The autoflush of the next lookup, or the flush at the end.
Flush(r) ==
  \E k \in DOMAIN dirty[r] :
    /\ Holders(r, k) = {}
    /\ Writable(r, k)
    /\ tx' = [tx EXCEPT ![r] = OnTop(@, dirty[r])]
    /\ dirty' = [dirty EXCEPT ![r] = None]
    /\ UNCHANGED <<deployment, alerts, pc, todo, created, toSend, overflow, paged,
                   silent, bounds, history>>

FlushFails(r) ==
  \E k \in DOMAIN dirty[r] :
    /\ Holders(r, k) = {}
    /\ Refused(r, k)
    /\ Rollback(r)

\* The busy timeout of SQLite, or PostgreSQL's deadlock detection.
GiveUp(r) ==
  \E k \in DOMAIN dirty[r] :
    /\ Holders(r, k) # {}
    /\ deployment.engine = "sqlite" \/ Deadlocked(r)
    /\ Rollback(r)

-----------------------------------------------------------------------------
(* The notifier *)

Passes(k) == Rank[k] >= deployment.min_rank

\* eligible, of the alerts the run has created.
Eligible(r) == {k \in created[r] : Passes(k)}

\* A choice of to_send: the most severe of the eligible, up to the cap.  Among
\* equals the order of the payloads decides.
Capped(E) ==
  {S \in SUBSET E :
     /\ Cardinality(S) = Min({Cardinality(E), deployment.max_per_run})
     /\ \A a \in S, b \in E \ S : Rank[a] >= Rank[b]}

\* No flush at the end of persist_alerts: the last row waits for the commit.
Persisted_NoFlush(r) == pc[r] = "persist" /\ todo[r] = None

\* persist_alerts returns once nothing is left to look up or to flush.
Persisted(r) == pc[r] = "persist" /\ todo[r] = None /\ dirty[r] = None

\* The run commits before it notifies.
BeginNotify_CommitsFirst(r) ==
  /\ Persisted(r)
  /\ \E S \in Capped(Eligible(r)) :
       /\ toSend' = [toSend EXCEPT ![r] = S]
       /\ overflow' = [overflow EXCEPT ![r] = Eligible(r) \ S]
  /\ pc' = [pc EXCEPT ![r] = "notify"]
  /\ alerts' = OnTop([k \in DOMAIN tx[r] |-> Stored(r, k)], alerts)
  /\ tx' = [tx EXCEPT ![r] = None]
  /\ UNCHANGED <<deployment, todo, dirty, created, paged, silent, bounds, history>>

BeginNotify(r) ==
  /\ Persisted(r)
  /\ \/ /\ deployment.webhook /\ created[r] # {}
        /\ \E S \in Capped(Eligible(r)) :
             /\ toSend' = [toSend EXCEPT ![r] = S]
             /\ overflow' = [overflow EXCEPT ![r] = Eligible(r) \ S]
        /\ pc' = [pc EXCEPT ![r] = "notify"]
     \/ /\ ~(deployment.webhook /\ created[r] # {})
        /\ pc' = [pc EXCEPT ![r] = "commit"]
        /\ UNCHANGED <<toSend, overflow>>
  /\ UNCHANGED <<deployment, alerts, todo, dirty, tx, created, paged, silent,
                 bounds, history>>

\* post_webhook returns True or False: the answer is only counted.
Send(r, k) ==
  /\ pc[r] = "notify" /\ k \in toSend[r]
  /\ \A j \in toSend[r] : Rank[k] >= Rank[j]
  /\ toSend' = [toSend EXCEPT ![r] = @ \ {k}]
  /\ paged' = [paged EXCEPT ![r] = @ \cup {k}]
  /\ attempts' = [attempts EXCEPT ![k] = @ + 1]
  /\ UNCHANGED <<deployment, alerts, pc, todo, dirty, tx, created, overflow, silent,
                 bounds, told, silenced, wasted, purged, triage>>

\* An answer that is not HTTP raises http.client.HTTPException, which
\* post_webhook does not catch.  run_detection does: the rest is not sent.
SendRaises(r, k) ==
  /\ pc[r] = "notify" /\ k \in toSend[r]
  /\ \A j \in toSend[r] : Rank[k] >= Rank[j]
  /\ pc' = [pc EXCEPT ![r] = "commit"]
  /\ paged' = [paged EXCEPT ![r] = @ \cup {k}]
  /\ attempts' = [attempts EXCEPT ![k] = @ + 1]
  /\ silent' = [silent EXCEPT ![r] = (toSend[r] \ {k}) \cup overflow[r]]
  /\ toSend' = [toSend EXCEPT ![r] = {}]
  /\ overflow' = [overflow EXCEPT ![r] = {}]
  /\ UNCHANGED <<deployment, alerts, todo, dirty, tx, created, bounds, told,
                 silenced, wasted, purged, triage>>

\* The "+N more" message, if there is anything over the cap.
SendSummary(r) ==
  /\ pc[r] = "notify" /\ toSend[r] = {}
  /\ pc' = [pc EXCEPT ![r] = "commit"]
  /\ UNCHANGED <<deployment, alerts, todo, dirty, tx, created, toSend, overflow,
                 paged, silent, bounds, history>>

-----------------------------------------------------------------------------
(* The caller of run_detection *)

Commit(r) ==
  /\ pc[r] = "commit" /\ "api" \in Callers
  /\ alerts' = OnTop([k \in DOMAIN tx[r] |-> Stored(r, k)], alerts)
  /\ told' = told \cup paged[r] \cup overflow[r]
  /\ silenced' = silenced \cup silent[r]
  /\ triage' = [k \in Keys |-> IF k \in created[r] THEN "new" ELSE triage[k]]
  /\ Ends(r)
  /\ UNCHANGED wasted

\* "make detect" enters session_scope without leaving it: nobody commits.
NobodyCommits(r) ==
  /\ pc[r] = "commit" /\ "make" \in Callers
  /\ Rollback(r)

\* The process dies, the connection goes, or the commit fails.
Fails(r) ==
  /\ pc[r] # "idle" /\ MayFail
  /\ Rollback(r)

-----------------------------------------------------------------------------
(* Triage and retention *)

UpdateAlert(k, status) ==
  /\ k \in DOMAIN alerts /\ ~Locked(k)
  /\ alerts' = [alerts EXCEPT ![k].status = status]
  /\ triage' = [triage EXCEPT ![k] = status]
  /\ UNCHANGED <<deployment, runVars, bounds, told, silenced, attempts, wasted, purged>>

\* The alerts whose last_seen is before the cutoff.
PurgeAlerts ==
  /\ purges < MaxPurges
  /\ purges' = purges + 1
  /\ \E old \in SUBSET DOMAIN alerts \ {{}} :
       /\ \A k \in old : ~Locked(k)
       /\ alerts' = Restrict(alerts, DOMAIN alerts \ old)
       /\ told' = told \ old
       /\ silenced' = silenced \ old
       /\ purged' = [k \in Keys |-> purged[k] + (IF k \in old THEN 1 ELSE 0)]
       /\ triage' = [k \in Keys |-> IF k \in old THEN "new" ELSE triage[k]]
  /\ UNCHANGED <<deployment, runVars, triggers, attempts, wasted>>

-----------------------------------------------------------------------------
Init ==
  /\ deployment \in Deployments
  /\ alerts = None
  /\ pc = [r \in Runs |-> "idle"]
  /\ todo = [r \in Runs |-> None]
  /\ dirty = [r \in Runs |-> None]
  /\ tx = [r \in Runs |-> None]
  /\ created = [r \in Runs |-> {}]
  /\ toSend = [r \in Runs |-> {}]
  /\ overflow = [r \in Runs |-> {}]
  /\ paged = [r \in Runs |-> {}]
  /\ silent = [r \in Runs |-> {}]
  /\ triggers = 0 /\ purges = 0
  /\ told = {} /\ silenced = {}
  /\ attempts = [k \in Keys |-> 0]
  /\ wasted = [k \in Keys |-> 0]
  /\ purged = [k \in Keys |-> 0]
  /\ triage = [k \in Keys |-> "new"]

\* A run's own progress, as opposed to what befalls it.
RunStep(r) ==
  \/ \E k \in Keys : Lookup(r, k) \/ Send(r, k) \/ SendRaises(r, k)
  \/ Flush(r) \/ FlushFails(r) \/ GiveUp(r)
  \/ BeginNotify(r) \/ SendSummary(r) \/ Commit(r) \/ NobodyCommits(r)

Next ==
  \/ \E r \in Runs : Trigger(r) \/ RunStep(r) \/ Fails(r)
  \/ \E k \in Keys, status \in Statuses : UpdateAlert(k, status)
  \/ PurgeAlerts

\* Every call a run makes returns or raises: the webhook has a timeout, a lock
\* is waited for at most the busy timeout or until the holder ends.
Spec == Init /\ [][Next]_vars /\ \A r \in Runs : WF_vars(RunStep(r))

-----------------------------------------------------------------------------
(* Properties *)

\* Rows, sessions and histories have their shape; in particular a session has
\* at most one dirty row, and the counter of a row stays within what a single
\* evaluation can report, however often detection is run over the same events
\* (persist_alerts takes the maximum).
AlertTypeOK ==
  /\ deployment \in Deployments
  /\ DOMAIN alerts \subseteq Keys
  /\ \A k \in DOMAIN alerts : alerts[k] \in [hit_count : 1..MaxHit, status : Statuses]
  /\ pc \in [Runs -> {"idle", "persist", "notify", "commit"}]
  /\ \A r \in Runs :
       /\ DOMAIN todo[r] \subseteq Keys /\ Range(todo[r]) \subseteq 1..MaxHit
       /\ Cardinality(DOMAIN dirty[r]) <= 1
       /\ \A f \in {dirty[r], tx[r]} :
            /\ DOMAIN f \subseteq Keys
            /\ Range(f) \subseteq [new : BOOLEAN, gen : 0..MaxPurges, was : 0..MaxHit,
                                   written : 0..MaxHit]
  /\ \A S \in {created, toSend, overflow, paged, silent} : S \in [Runs -> SUBSET Keys]
  /\ told \subseteq Keys /\ silenced \subseteq Keys
  /\ \A n \in {attempts, wasted, purged} : n \in [Keys -> Nat]
  /\ triage \in [Keys -> Statuses]

\* Nobody loses a page by a crash: when an alert of sufficient severity is in
\* the table, the webhook has been called for it or for the "+N more" message
\* that counts it, unless an exception out of post_webhook ended the sending.
\* Later runs find the row and never page, so a row stored before its page
\* would stay silent for good.
ToldWhenStored ==
  \A k \in DOMAIN alerts :
    deployment.webhook /\ Rank[k] >= deployment.min_rank => k \in told \cup silenced

\* Overlapping and repeated runs page once for a row: every further call of
\* the webhook for a key is explained by a run that paged and then did not
\* commit, or by the deletion of the row.  Of two runs that both found no row,
\* only the one whose INSERT got through reaches the notifier.
PagesBounded ==
  \A k \in Keys : attempts[k] <= 1 + wasted[k] + purged[k]

\* What an analyst set stays: a run that read the row before the triage
\* request and writes it afterwards leaves the status alone.
TriageSurvives ==
  \A k \in DOMAIN alerts : alerts[k].status = triage[k]

\* hit_count drops only through a commit whose lookup read less than the row
\* now has: a run that no other overtakes can only raise it.
DropsOnlyIfStale ==
  [][\A k \in DOMAIN alerts \cap DOMAIN alerts' :
       alerts'[k].hit_count < alerts[k].hit_count =>
         \E r \in Runs : /\ pc[r] = "commit" /\ pc'[r] = "idle"
                         /\ k \in DOMAIN tx[r]
                         /\ tx[r][k].was < alerts[k].hit_count]_vars

\* Every run ends: overlapping runs that wait for each other's rows do not wait
\* for ever, and a run that failed holds nobody up.
RunsEnd == \A r \in Runs : pc[r] # "idle" ~> pc[r] = "idle"

\* persist_alerts, of what it returns: "the pipeline notifies on exactly those,
\* so repeated idempotent runs don't re-page".
RunsDoNotRepage ==
  \A k \in Keys : attempts[k] <= 1 + purged[k]

(* The alerts table under overlapping runs: one well-formed row per key, and *)
(* triage that no run undoes.                                                *)
TriageIsSafe == AlertTypeOK /\ TriageSurvives

-----------------------------------------------------------------------------
(* The inductive invariant behind these properties. *)

\* The generation of a row is the number of deletions before it.
PurgesKept == purges \in 0..MaxPurges /\ \A k \in Keys : purged[k] <= purges

\* What a run holds, by how far it is: each payload is in todo, dirty or
\* flushed, once, and the notifier works on what persist_alerts created.
RunPlace(r) ==
  /\ pc[r] # "persist" => todo[r] = None /\ dirty[r] = None
  /\ pc[r] = "idle" => tx[r] = None
  /\ pc[r] \in {"idle", "persist"} => toSend[r] \cup overflow[r] \cup paged[r] \cup silent[r] = {}
  /\ pc[r] # "notify" => toSend[r] = {}
  /\ pc[r] # "commit" => silent[r] = {}
  /\ toSend[r] \cup overflow[r] \cup paged[r] \cup silent[r] \subseteq created[r]
  /\ toSend[r] \cap paged[r] = {}

\* The rows of a run: the new ones are those it has created, and an update
\* carries more than what its lookup read.
RowsOfRun(r) ==
  /\ DOMAIN todo[r] \cap DOMAIN dirty[r] = {}
  /\ DOMAIN todo[r] \cap DOMAIN tx[r] = {}
  /\ DOMAIN dirty[r] \cap DOMAIN tx[r] = {}
  /\ \A k \in Keys :
       k \in created[r] <=> \/ k \in DOMAIN dirty[r] /\ dirty[r][k].new
                            \/ k \in DOMAIN tx[r] /\ tx[r][k].new
  /\ \A f \in {dirty[r], tx[r]} : \A k \in DOMAIN f :
       /\ f[k].new => f[k].written # 0
       /\ ~f[k].new => f[k].written = 0 \/ f[k].was < f[k].written

\* A flushed INSERT keeps its key free in the table, a flushed UPDATE its row
\* there, until the run ends: that is what the locks are for.
LocksHold ==
  \A r \in Runs :
    /\ \A k \in DOMAIN tx[r] : tx[r][k].new <=> k \notin DOMAIN alerts
    /\ \A q \in Runs \ {r} : DOMAIN tx[r] \cap DOMAIN tx[q] = {}

\* Every eligible alert of a run has been, will be or is kept from being sent.
NobodyForgotten ==
  \A r \in Runs : deployment.webhook /\ pc[r] \in {"notify", "commit"} =>
    Eligible(r) \subseteq toSend[r] \cup overflow[r] \cup paged[r] \cup silent[r]

\* One page of a key is accounted for by its row or by the run that will
\* store it.
PagesCounted ==
  \A k \in Keys :
    attempts[k] <= wasted[k] + purged[k]
                   + (IF k \in DOMAIN alerts \/ \E r \in Runs : k \in paged[r] THEN 1 ELSE 0)

AlertInv ==
  /\ AlertTypeOK /\ DOMAIN todo = Runs /\ DOMAIN dirty = Runs /\ DOMAIN tx = Runs
  /\ PurgesKept /\ LocksHold /\ NobodyForgotten /\ PagesCounted
  /\ \A r \in Runs : RunPlace(r) /\ RowsOfRun(r)
  /\ ToldWhenStored /\ TriageSurvives

=============================================================================
