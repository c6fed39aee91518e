----------------------------- MODULE EventStore -----------------------------
(***************************************************************************)
(* The tables of storage/models.py and who writes them: the logger's       *)
(* batches, the import of foreign logs, the rebuild of the attackers       *)
(* aggregate (storage/queries.py), the analysis of payload files           *)
(* (pipeline/analysis/store.py) and the purge (tools/reset_db.py).  A step *)
(* is a transaction, or a SELECT outside of one: SQLite takes its lock at  *)
(* the first write, so a rebuild reads before it owns anything.            *)
(***************************************************************************)
EXTENDS Integers, Sequences, FiniteSets, FiniteSetsExt

CONSTANTS
  Conns,        \* connections, which are session ids
  IpOf,         \* source address of a connection
  Bodies,       \* payload digests
  NoSha,        \* NULL in payload_sha256
  Keep,         \* --older-than
  MaxTime, MaxRows, MaxImports, MaxPurges, MaxRebuilds   \* bounds

ASSUME StoreAssumption ==
  Conns # {} /\ Keep \in Nat /\ MaxTime \in Nat /\ MaxRows \in Nat

VARIABLES
  clock,      \* utcnow()
  events,     \* rows [id, ts, ip, session, type, sha]
  sessions,   \* session_id -> started_at
  attackers,  \* src_ip -> aggregate
  payloads,   \* sha256 -> roll-up
  disk,       \* payload_dir
  live,       \* the sensor: open connection -> started_at
  purge,      \* purge_events: what it does next, and its cutoff
  build,      \* rebuild_attackers in each process that may run it
  hist        \* history, see NewHistory

storevars == <<clock, events, sessions, attackers, payloads, disk, live, purge, build, hist>>

Ips == {IpOf[c] : c \in Conns}
Builders == {"api", "purge", "import"}

(* next: the last id; imports, purges, rebuilds: counted for the bounds;     *)
(* stale: addresses whose rows changed since their aggregate was read; lost: *)
(* a batch failed; orphaned: open connections whose row a purge deleted;     *)
(* purged: events were deleted; taken: one of them newer than the cutoff.    *)
NewHistory == [next |-> 0, imports |-> 0, purges |-> 0, rebuilds |-> 0, stale |-> {},
               lost |-> FALSE, orphaned |-> {}, taken |-> FALSE, purged |-> FALSE]

Idle == [pc |-> "idle", ips |-> {}, existing |-> {}, rows |-> <<>>, dirty |-> {}]

StoreInit ==
  /\ clock = 0 /\ events = {} /\ sessions = <<>> /\ attackers = <<>> /\ payloads = <<>>
  /\ disk = {} /\ live = <<>>
  /\ purge = [pc |-> "idle", cutoff |-> 0]
  /\ build = [b \in Builders |-> Idle]
  /\ hist = NewHistory

Put(f, k, v) == [x \in DOMAIN f \cup {k} |-> IF x = k THEN v ELSE f[x]]
Without(f, S) == [x \in DOMAIN f \ S |-> f[x]]

(* The rows of these addresses have changed: for every rebuild that has read *)
(* them, too.                                                                *)
After(b, ips) == [b EXCEPT !.dirty = IF b.pc = "flush" THEN @ \cup ips ELSE @]
Changed(ips) == build' = [b \in Builders |-> After(build[b], ips)]

-----------------------------------------------------------------------------
(* The logger.  _write_db commits a batch or loses all of it.                *)

Row(id, t, c, type, sha) == [id |-> id, ts |-> t, ip |-> IpOf[c], session |-> c, type |-> type, sha |-> sha]

(* Mutant: the events of a batch are added before its sessions. *)
Parents_Late(upserts) == DOMAIN sessions

(* "Sessions first: events carry a FK to session_id." *)
Parents(upserts) == DOMAIN sessions \cup upserts

(* Rows that belong to the connections cs, with the session rows of upserts. *)
WriteDb(new, upserts, starts) ==
  LET cs == {e.session : e \in new}
      ips == {e.ip : e \in new}
  IN  IF cs \subseteq Parents(upserts)
      THEN /\ events' = events \cup new
           /\ sessions' = [c \in DOMAIN sessions \cup upserts |->
                             IF c \in upserts THEN starts[c] ELSE sessions[c]]
           /\ hist' = [hist EXCEPT !.next = @ + Cardinality(new), !.stale = @ \cup ips]
           /\ Changed(ips)
      ELSE /\ hist' = [hist EXCEPT !.next = @ + Cardinality(new), !.lost = TRUE]
           /\ UNCHANGED <<events, sessions, build>>

HasRoom(n) == hist.next + n <= MaxRows

(* open(): the session and its CONNECT, maybe in one batch with an event of  *)
(* another connection.                                                       *)
ConnOpens(c) ==
  /\ c \notin DOMAIN live \cup DOMAIN sessions
  /\ \E others \in {{}} \cup {{d} : d \in DOMAIN live} :
       /\ HasRoom(1 + Cardinality(others))
       /\ live' = Put(live, c, clock)
       /\ WriteDb({Row(hist.next + 1, clock, c, "connect", NoSha)}
                    \cup {Row(hist.next + 2, clock, d, "auth", NoSha) : d \in others}, {c}, live')
  /\ UNCHANGED <<clock, attackers, payloads, disk, purge>>

(* record(); save_payload has written the body before.                       *)
ConnRecords(c, sha) ==
  /\ c \in DOMAIN live /\ HasRoom(1)
  /\ WriteDb({Row(hist.next + 1, clock, c, IF sha = NoSha THEN "auth" ELSE "upload", sha)}, {}, live)
  /\ disk' = disk \cup ({sha} \ {NoSha})
  /\ UNCHANGED <<clock, attackers, payloads, live, purge>>

(* close(): the session row once more, whole, and DISCONNECT. *)
ConnCloses(c) ==
  /\ c \in DOMAIN live /\ HasRoom(1)
  /\ WriteDb({Row(hist.next + 1, clock, c, "disconnect", NoSha)}, {c}, live)
  /\ live' = Without(live, {c})
  /\ UNCHANGED <<clock, attackers, payloads, disk, purge>>

(* import_public_logs: create_missing_sessions, and events of any age; the   *)
(* rebuild of their addresses is due in a transaction of its own.            *)
Import(c, t) ==
  /\ hist.imports < MaxImports /\ HasRoom(1) /\ c \notin DOMAIN live
  /\ build["import"].pc = "idle"
  /\ events' = events \cup {Row(hist.next + 1, t, c, "auth", NoSha)}
  /\ sessions' = IF c \in DOMAIN sessions THEN sessions ELSE Put(sessions, c, t)
  /\ hist' = [hist EXCEPT !.next = @ + 1, !.imports = @ + 1, !.stale = @ \cup {IpOf[c]}]
  /\ build' = [b \in Builders |->
                 IF b = "import" THEN [Idle EXCEPT !.pc = "due", !.ips = {IpOf[c]}]
                 ELSE After(build[b], {IpOf[c]})]
  /\ UNCHANGED <<clock, attackers, payloads, disk, live, purge>>

Tick ==
  /\ clock < MaxTime /\ clock' = clock + 1
  /\ UNCHANGED <<events, sessions, attackers, payloads, disk, live, purge, build, hist>>

-----------------------------------------------------------------------------
(* rebuild_attackers *)

Group(ip) == {e \in events : e.ip = ip}

(* The row _rebuild_group makes of the events of one address. *)
Aggregate(group) ==
  [event_count |-> Cardinality(group),
   session_count |-> Cardinality({e.session : e \in group}),
   auth_attempts |-> Cardinality({e \in group : e.type = "auth"}),
   first_seen |-> Min({e.ts : e \in group}), last_seen |-> Max({e.ts : e \in group})]

(* SELECT of the attackers: all of them, or those of some addresses.         *)
RebuildStart(b, ips) ==
  /\ build[b].pc = "idle" /\ hist.rebuilds < MaxRebuilds
  /\ build' = [build EXCEPT ![b] = [Idle EXCEPT !.pc = "scan", !.ips = ips,
                                                !.existing = DOMAIN attackers \cap ips]]
  /\ hist' = [hist EXCEPT !.rebuilds = @ + 1]
  /\ UNCHANGED <<clock, events, sessions, attackers, payloads, disk, live, purge>>

ImportRebuilds ==
  /\ build["import"].pc = "due"
  /\ build' = [build EXCEPT !["import"].pc = "scan",
                            !["import"].existing = DOMAIN attackers \cap build["import"].ips]
  /\ UNCHANGED <<clock, events, sessions, attackers, payloads, disk, live, purge, hist>>

(* SELECT of the events, ordered by address.                                 *)
RebuildScan(b) ==
  /\ build[b].pc = "scan"
  /\ LET found == {ip \in build[b].ips : \E e \in events : e.ip = ip} IN
     build' = [build EXCEPT ![b].pc = "flush", ![b].dirty = {},
                            ![b].rows = [ip \in found |-> Aggregate(Group(ip))]]
  /\ UNCHANGED <<clock, events, sessions, attackers, payloads, disk, live, purge, hist>>

(* flush and commit: an UPDATE of a row that is gone, or an INSERT of one    *)
(* that is there, fails the whole of it.  Rows of addresses without events   *)
(* stay.                                                                     *)
Conflict(b) ==
  \E ip \in DOMAIN build[b].rows : ~ (ip \in build[b].existing <=> ip \in DOMAIN attackers)

Flushes(b) ==
  IF Conflict(b) THEN UNCHANGED <<attackers, hist>>
  ELSE LET done == DOMAIN build[b].rows IN
       /\ attackers' = [ip \in DOMAIN attackers \cup done |->
                          IF ip \in done THEN build[b].rows[ip] ELSE attackers[ip]]
       /\ hist' = [hist EXCEPT !.stale = (@ \ done) \cup (done \cap build[b].dirty)]

RebuildCommit(b) ==
  /\ build[b].pc = "flush"
  /\ Flushes(b)
  /\ build' = [build EXCEPT ![b] = Idle]
  /\ UNCHANGED <<clock, events, sessions, payloads, disk, live, purge>>

-----------------------------------------------------------------------------
(* purge_events *)

(* Transaction 1.  Events of the deleted sessions go with them, whatever     *)
(* their age: ondelete="CASCADE", and PRAGMA foreign_keys=ON.                *)
PurgeDelete ==
  LET cutoff == clock - Keep
      old == {c \in DOMAIN sessions : sessions[c] < cutoff}
      gone == {e \in events : e.ts < cutoff \/ e.session \in old}
  IN
  /\ purge.pc = "idle" /\ build["purge"].pc = "idle" /\ hist.purges < MaxPurges
  /\ purge' = [pc |-> "clear", cutoff |-> cutoff]
  /\ events' = events \ gone
  /\ sessions' = Without(sessions, old)
  /\ Changed({e.ip : e \in gone})
  /\ hist' = [hist EXCEPT !.purges = @ + 1, !.stale = @ \cup {e.ip : e \in gone},
                          !.orphaned = @ \cup (old \cap DOMAIN live), !.purged = @ \/ gone # {},
                          !.taken = @ \/ \E e \in gone : e.ts >= cutoff]
  /\ UNCHANGED <<clock, attackers, payloads, disk, live>>

(* Mutant: the attackers are left to the rebuild. *)
Cleared_Not(table) == table

(* "rebuild rather than delete-by-date, or its counters would still include  *)
(* the events we just removed"                                               *)
Cleared(table) == <<>>

(* Transaction 2. *)
PurgeClear ==
  /\ purge.pc = "clear"
  /\ purge' = [purge EXCEPT !.pc = "rebuild"]
  /\ attackers' = Cleared(attackers)
  /\ hist' = [hist EXCEPT !.stale = {e.ip : e \in events}]
  /\ Changed(Ips)
  /\ UNCHANGED <<clock, events, sessions, payloads, disk, live>>

(* Transaction 3 is a rebuild of everything. *)
PurgeRebuilds ==
  /\ purge.pc = "rebuild" /\ build["purge"].pc = "idle"
  /\ build' = [build EXCEPT !["purge"] = [Idle EXCEPT !.pc = "scan", !.ips = Ips,
                                                      !.existing = DOMAIN attackers]]
  /\ UNCHANGED <<clock, events, sessions, attackers, payloads, disk, live, purge, hist>>

PurgeCommit ==
  /\ build["purge"].pc = "flush"
  /\ Flushes("purge")
  /\ build' = [build EXCEPT !["purge"] = Idle]
  /\ purge' = [purge EXCEPT !.pc = "idle"]
  /\ UNCHANGED <<clock, events, sessions, payloads, disk, live>>

(* The tool is stopped between two transactions. *)
PurgeCrash ==
  /\ purge.pc # "idle"
  /\ purge' = [purge EXCEPT !.pc = "idle"]
  /\ build' = [build EXCEPT !["purge"] = Idle]
  /\ UNCHANGED <<clock, events, sessions, attackers, payloads, disk, live, hist>>

(* drop_everything, and init_db behind it.  The sensor goes on. *)
DropEverything ==
  /\ purge.pc = "idle" /\ hist.purges < MaxPurges /\ events # {}
  /\ events' = {} /\ sessions' = <<>> /\ attackers' = <<>> /\ payloads' = <<>>
  /\ hist' = [hist EXCEPT !.purges = @ + 1, !.stale = {}, !.purged = TRUE,
                          !.orphaned = @ \cup DOMAIN live]
  /\ Changed(Ips)
  /\ UNCHANGED <<clock, disk, live, purge>>

-----------------------------------------------------------------------------
(* The payload store *)

Sightings(sha) == {e \in events : e.sha = sha}

(* _rollup; -1 is NULL: an artefact without sightings is no error. *)
Rollup(sha) == [event_count |-> Cardinality(Sightings(sha)),
                last_seen |-> Max({0 - 1} \cup {e.ts : e \in Sightings(sha)})]

(* scan_and_store: files it knows are skipped, unless it is to reanalyse;    *)
(* files it cannot read too.                                                 *)
ScanAndStore ==
  \E readable \in SUBSET disk, reanalyse \in BOOLEAN :
    LET new == {sha \in readable : reanalyse \/ sha \notin DOMAIN payloads} IN
    /\ new # {}
    /\ payloads' = [sha \in DOMAIN payloads \cup new |->
                      IF sha \in new THEN Rollup(sha) ELSE payloads[sha]]
    /\ UNCHANGED <<clock, events, sessions, attackers, disk, live, purge, build, hist>>

refresh_rollups ==
  /\ payloads' = [sha \in DOMAIN payloads |-> Rollup(sha)]
  /\ UNCHANGED <<clock, events, sessions, attackers, disk, live, purge, build, hist>>

-----------------------------------------------------------------------------
Writes ==
  \E c \in Conns : ConnOpens(c) \/ ConnCloses(c) \/ \E sha \in Bodies \cup {NoSha} : ConnRecords(c, sha)

(* Foreign logs may be of any age, and of a clock that is ahead. *)
Imports == \E c \in Conns, t \in 0 .. clock + 1 : Import(c, t)

Rebuilds ==
  \/ \E ips \in {Ips} \cup {{ip} : ip \in Ips} : RebuildStart("api", ips)
  \/ ImportRebuilds
  \/ \E b \in Builders : RebuildScan(b)
  \/ \E b \in {"api", "import"} : RebuildCommit(b)

Purges == PurgeDelete \/ PurgeClear \/ PurgeRebuilds \/ PurgeCommit \/ PurgeCrash

Analyses == ScanAndStore \/ refresh_rollups

StoreNext == Tick \/ Writes \/ Imports \/ Rebuilds \/ Purges \/ DropEverything \/ Analyses

StoreSpec == StoreInit /\ [][StoreNext]_storevars

-----------------------------------------------------------------------------
StoreTypeOK ==
  /\ clock \in 0 .. MaxTime /\ DOMAIN sessions \subseteq Conns
  /\ \A e \in events : e.id \in 1 .. hist.next /\ e.session \in DOMAIN sessions
  /\ \A d, e \in events : d.id = e.id => d = e
  /\ DOMAIN attackers \subseteq Ips /\ DOMAIN payloads \subseteq disk

(* The attackers table is "a derived aggregate, never the source of truth",  *)
(* and rebuilding is "safe to run at any time" (api/routes/attackers.py):    *)
(* the row of an address is right, and is there exactly if it has events,    *)
(* unless those changed since the rebuild that wrote it read them.           *)
TruthUnlessStale ==
  \A ip \in Ips \ hist.stale :
    IF Group(ip) = {} THEN ip \notin DOMAIN attackers
    ELSE ip \in DOMAIN attackers /\ attackers[ip] = Aggregate({e \in events : e.ip = ip})

(* A batch of the logger is lost to the foreign key, with the events of all  *)
(* the connections in it, only after a purge deleted the row of a session    *)
(* that was still open.                                                      *)
LossNeedsPurge ==
  hist.lost => hist.orphaned # {}

(* A payload's roll-up never claims a sighting that was not there: until     *)
(* events are deleted it is at most what the table has.                      *)
RollupsAreSightings ==
  ~ hist.purged => \A sha \in DOMAIN payloads :
    /\ payloads[sha].event_count <= Cardinality(Sightings(sha))
    /\ payloads[sha].event_count > 0 => \E e \in Sightings(sha) : e.ts = payloads[sha].last_seen

(* purge_events: "Delete events older than N days".  No other event goes.    *)
PurgeSparesRecent == ~ hist.taken

(* The derived tables say of the events what is true, as far as their        *)
(* rebuilds promise: aggregates unless rows changed behind them, roll-ups    *)
(* until rows are deleted, and no event without its session.                 *)
TablesAreTrue == StoreTypeOK /\ TruthUnlessStale /\ RollupsAreSightings

-----------------------------------------------------------------------------
(* The inductive invariant behind these properties. *)

(* A row is one of Row, with a timestamp of the clock or of an import.       *)
RowsAreRows ==
  /\ IsFiniteSet(events)
  /\ \A e \in events : /\ e.session \in Conns /\ e.ip = IpOf[e.session] /\ e.ts \in 0 .. MaxTime + 1
                       /\ e.type \in {"connect", "auth", "upload", "disconnect"}

(* A rebuild that has read is right about the addresses nobody has touched   *)
(* since.                                                                    *)
BuildsAreRight ==
  \A b \in Builders :
    /\ build[b].ips \subseteq Ips
    /\ build[b].pc = "flush" =>
         /\ DOMAIN build[b].rows \subseteq Ips
         /\ \A ip \in DOMAIN build[b].rows \ build[b].dirty :
              Group(ip) # {} /\ build[b].rows[ip] = Aggregate(Group(ip))

(* Every open connection has its session row until a purge takes one.        *)
LiveHasSessions ==
  /\ DOMAIN live \subseteq Conns
  /\ hist.orphaned = {} => DOMAIN live \subseteq DOMAIN sessions

StoreInv == TablesAreTrue /\ LossNeedsPurge /\ RowsAreRows /\ BuildsAreRight /\ LiveHasSessions

=============================================================================
