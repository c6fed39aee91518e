----------------------------- MODULE Enrichment -----------------------------
(***************************************************************************)
(* pipeline/enrichment: the lookups that the logger's writer thread and    *)
(* the API's request threads make, and the caches they share: the readers  *)
(* of geoip.py and asn.py, the prefix table of asn.py and the two indices  *)
(* of threat_intel.py.  A step ends where another thread may have run: at  *)
(* a lock, and between two accesses to a global that is not locked.        *)
(***************************************************************************)
EXTENDS Naturals, Sequences, FiniteSets

CONSTANTS
  Threads,      \* "writer" calls enrich_event, the others enrich_ip
  CityDbs,      \* what _candidate_city_dbs finds: sequences of BOOLEAN, readable or not
  Feeds,        \* contents the indicator files may have: sets of entries
  Address,      \* the source address that is looked up
  NoIndex,      \* None
  MaxLookups, MaxReloads, MaxRefreshes   \* bounds

ASSUME EnrichAssumption ==
  /\ {"nobody", "reload"} \cap Threads = {}
  /\ NoIndex \notin [load : Nat, entries : SUBSET UNION Feeds]

VARIABLES
  dbs,        \* the databases in data/geolite2, and whether asn.py finds one: [geo, asn]
  cache,      \* reader, _reader_attempted and lock of geoip and asn
  table,      \* _prefix_table is loaded
  index,      \* _ip_index, _cidr_index and _lock of threat_intel
  feed_file,  \* data/indicators: the entries on disk
  thread,     \* each thread's place and locals
  done        \* history: [opens, loads, reloads, refreshes]

enrichvars == <<dbs, cache, table, index, feed_file, thread, done>>

Nobody == "nobody"
Reader == [attempted |-> FALSE, reader |-> FALSE, lock |-> Nobody]
NewThread == [pc |-> "idle", runs |-> 0, geo |-> "none", asn |-> "none", ip |-> NoIndex, cidr |-> NoIndex,
              answer |-> NoIndex, met |-> FALSE, reloaded |-> FALSE]

EnrichInit ==
  /\ dbs \in [geo : CityDbs, asn : {<<>>, <<TRUE>>}]
  /\ cache = [k \in {"geo", "asn"} |-> Reader]
  /\ table = FALSE
  /\ index = [ip |-> NoIndex, cidr |-> NoIndex, lock |-> Nobody]
  /\ feed_file \in Feeds
  /\ thread = [t \in Threads |-> NewThread]
  /\ done = [geo |-> 0, asn |-> 0, loads |-> 0, reloads |-> 0, refreshes |-> 0]

(* enrich_event or enrich_ip begins.  Bogons and invalid addresses need no   *)
(* reader, and are left out.                                                 *)
Begin(t) ==
  /\ thread[t].pc \in {"idle", "done", "raised"} /\ thread[t].runs < MaxLookups
  /\ thread' = [thread EXCEPT ![t] = [NewThread EXCEPT !.pc = "geo", !.runs = thread[t].runs + 1]]
  /\ UNCHANGED <<dbs, cache, table, index, feed_file, done>>

-----------------------------------------------------------------------------
(* _get_reader, k being geo or asn.  After it: asn, or the prefix table.     *)

Locking == [geo |-> "geo-lock", asn |-> "asn-lock"]
Opening == [geo |-> "geo-open", asn |-> "asn-open"]

AfterReader(k, reader) == IF k = "geo" THEN "asn" ELSE IF reader THEN "intel" ELSE "table"

Has(t, k, reader) ==
  [thread[t] EXCEPT !.pc = AfterReader(k, reader),
                    !.geo = IF k = "geo" THEN (IF reader THEN "found" ELSE "unavailable") ELSE @,
                    !.asn = IF k = "asn" THEN (IF reader THEN "found" ELSE "unavailable") ELSE @,
                    !.met = @ \/ (~ reader /\ cache[k].lock # Nobody)]

(* The test without the lock. *)
ReaderFast(t, k) ==
  /\ thread[t].pc = k
  /\ thread' = [thread EXCEPT ![t] = IF cache[k].reader \/ cache[k].attempted THEN Has(t, k, cache[k].reader)
                                     ELSE [@ EXCEPT !.pc = Locking[k]]]
  /\ UNCHANGED <<dbs, cache, table, index, feed_file, done>>

(* Mutant: no second test under the lock. *)
Recheck_Not(k) == FALSE

Recheck(k) == cache[k].attempted

(* The test with the lock; _reader_attempted is set before the file is open. *)
ReaderLock(t, k) ==
  /\ thread[t].pc = Locking[k] /\ cache[k].lock = Nobody
  /\ IF Recheck(k)
     THEN thread' = [thread EXCEPT ![t] = Has(t, k, cache[k].reader)] /\ UNCHANGED cache
     ELSE /\ thread' = [thread EXCEPT ![t].pc = Opening[k]]
          /\ cache' = [cache EXCEPT ![k].attempted = TRUE, ![k].lock = t]
  /\ UNCHANGED <<dbs, table, index, feed_file, done>>

(* geoip tries the candidates in turn; asn has one. *)
Opens(k) == \E i \in DOMAIN dbs[k] : dbs[k][i]

ReaderOpen(t, k) ==
  /\ thread[t].pc = Opening[k]
  /\ cache' = [cache EXCEPT ![k].reader = Opens(k), ![k].lock = Nobody]
  /\ thread' = [thread EXCEPT ![t] = [Has(t, k, Opens(k)) EXCEPT !.met = thread[t].met]]
  /\ done' = [done EXCEPT ![k] = @ + 1]
  /\ UNCHANGED <<dbs, table, index, feed_file>>

(* _get_prefix_table, under the lock of asn; the table is assigned whole.    *)
PrefixTable(t) ==
  /\ thread[t].pc = "table" /\ (table \/ cache["asn"].lock = Nobody)
  /\ table' = TRUE
  /\ thread' = [thread EXCEPT ![t].pc = "intel"]
  /\ UNCHANGED <<dbs, cache, index, feed_file, done>>

-----------------------------------------------------------------------------
(* _load_indices *)

(* An index is what one load made: the entries of a kind, and which load.    *)
IndexOf(kind) == [load |-> done.loads + 1, entries |-> {e \in feed_file : e.kind = kind}]

Loaded == index.ip # NoIndex /\ index.cidr # NoIndex

(* "if _ip_index is not None and _cidr_index is not None" *)
IntelFast(t) ==
  /\ thread[t].pc = "intel"
  /\ thread' = [thread EXCEPT ![t].pc = IF Loaded THEN "read-ip" ELSE "intel-lock"]
  /\ UNCHANGED <<dbs, cache, table, index, feed_file, done>>

(* "return _ip_index, _cidr_index" reads the globals again, one by one.      *)
ReadIp(t) ==
  /\ thread[t].pc = "read-ip"
  /\ thread' = [thread EXCEPT ![t].ip = index.ip, ![t].pc = "read-cidr"]
  /\ UNCHANGED <<dbs, cache, table, index, feed_file, done>>

ReadCidr(t) ==
  /\ thread[t].pc = "read-cidr"
  /\ thread' = [thread EXCEPT ![t].cidr = index.cidr, ![t].pc = "check"]
  /\ UNCHANGED <<dbs, cache, table, index, feed_file, done>>

(* Under the lock: what is loaded, or a load of the files and the table.     *)
IntelLock(t) ==
  /\ thread[t].pc = "intel-lock" /\ index.lock = Nobody
  /\ IF Loaded
     THEN /\ thread' = [thread EXCEPT ![t].ip = index.ip, ![t].cidr = index.cidr, ![t].pc = "check"]
          /\ UNCHANGED <<index, done>>
     ELSE /\ thread' = [thread EXCEPT ![t].ip = IndexOf("ip"), ![t].cidr = IndexOf("cidr"), ![t].pc = "set-cidr"]
          /\ index' = [index EXCEPT !.ip = IndexOf("ip"), !.lock = t]
          /\ done' = [done EXCEPT !.loads = @ + 1]
  /\ UNCHANGED <<dbs, cache, table, feed_file>>

(* The second half of "_ip_index, _cidr_index = ip_index, cidr_index". *)
SetCidr(t) ==
  /\ thread[t].pc = "set-cidr"
  /\ index' = [index EXCEPT !.cidr = thread[t].cidr, !.lock = Nobody]
  /\ thread' = [thread EXCEPT ![t].pc = "check"]
  /\ UNCHANGED <<dbs, cache, table, feed_file, done>>

-----------------------------------------------------------------------------
(* check_ip: every source that lists the address, then the longest prefix,   *)
(* which adds nothing if its source is there already.                        *)
SCORE_EXACT_IP == 40
SCORE_CIDR == 25

Exact(entries) == {e.source : e \in {x \in entries : Address \in x.net}}

(* Of networks that are equal, the one of the first file. *)
Better(d, e) == d.prefix > e.prefix \/ (d.prefix = e.prefix /\ d.source < e.source)

BestNet(entries) ==
  LET m == {e \in entries : Address \in e.net} IN {e \in m : \A d \in m : ~ Better(d, e)}

CheckIp(ip, cidr) ==
  LET exact == Exact(ip.entries)
      nets == IF cidr = NoIndex THEN {} ELSE {e.source : e \in BestNet(cidr.entries)} \ exact
  IN  [score |-> SCORE_EXACT_IP * Cardinality(exact) + (IF nets = {} THEN 0 ELSE SCORE_CIDR),
       tags |-> exact \cup nets]

(* Mutant: enrich_event does not catch what the lookup raises. *)
Survives_Not(t) == FALSE

(* "except Exception" of enrich_event; enrich_ip has none.                   *)
Survives(t) == t = "writer"

(* None has no get(): the lookup raises, and the event goes without a score. *)
Check(t) ==
  /\ thread[t].pc = "check"
  /\ thread' = [thread EXCEPT
       ![t].answer = IF thread[t].ip = NoIndex THEN NoIndex ELSE CheckIp(thread[t].ip, thread[t].cidr),
       ![t].pc = IF thread[t].ip = NoIndex /\ ~ Survives(t) THEN "raised" ELSE "done"]
  /\ UNCHANGED <<dbs, cache, table, index, feed_file, done>>

(* reload_indicators, as refresh_from_file calls it; both under the lock.    *)
Under == {t \in Threads : thread[t].pc \notin {"idle", "done", "raised"}}

ReloadIp ==
  /\ done.reloads < MaxReloads /\ index.lock = Nobody
  /\ index' = [index EXCEPT !.ip = NoIndex, !.lock = "reload"]
  /\ done' = [done EXCEPT !.reloads = @ + 1]
  /\ thread' = [t \in Threads |-> [thread[t] EXCEPT !.reloaded = @ \/ t \in Under]]
  /\ UNCHANGED <<dbs, cache, table, feed_file>>

ReloadCidr ==
  /\ index.lock = "reload"
  /\ index' = [index EXCEPT !.cidr = NoIndex, !.lock = Nobody]
  /\ thread' = [t \in Threads |-> [thread[t] EXCEPT !.reloaded = @ \/ t \in Under]]
  /\ UNCHANGED <<dbs, cache, table, feed_file, done>>

(* refresh_feed of tools/refresh_indicators, in a process of its own: the    *)
(* file is truncated, then written.  No running process is told.             *)
RefreshFeed ==
  /\ done.refreshes < MaxRefreshes
  /\ feed_file' \in (Feeds \cup {{}}) \ {feed_file}
  /\ done' = [done EXCEPT !.refreshes = @ + 1]
  /\ UNCHANGED <<dbs, cache, table, index, thread>>

ThreadStep(t) ==
  \/ \E k \in {"geo", "asn"} : ReaderFast(t, k) \/ ReaderLock(t, k) \/ ReaderOpen(t, k)
  \/ PrefixTable(t)
  \/ IntelFast(t) \/ ReadIp(t) \/ ReadCidr(t) \/ IntelLock(t) \/ SetCidr(t) \/ Check(t)

EnrichNext ==
  \/ \E t \in Threads : Begin(t) \/ ThreadStep(t)
  \/ ReloadIp \/ ReloadCidr \/ RefreshFeed

-----------------------------------------------------------------------------
(* "Open the MaxMind reader once per process": whatever the threads do, a    *)
(* database is opened at most once.                                          *)
OpenedOnce == done["geo"] <= 1 /\ done["asn"] <= 1

(* A lookup goes without the city database only if none can be read, or it   *)
(* met the thread that was opening it: _reader_attempted is set before.      *)
MissesMeetTheOpener ==
  \A t \in Threads : thread[t].geo = "unavailable" /\ ~ thread[t].met => \A i \in DOMAIN dbs.geo : ~ dbs.geo[i]

(* The two indices a lookup uses are of one load, unless a reload came       *)
(* between; the answer then names only sources that list the address, and    *)
(* it is the longest prefix that counts.                                     *)
IntelIsWhole ==
  \A t \in Threads : thread[t].pc \in {"done", "raised"} /\ ~ thread[t].reloaded =>
    /\ thread[t].pc = "done" /\ thread[t].ip # NoIndex /\ thread[t].cidr # NoIndex
    /\ thread[t].ip.load = thread[t].cidr.load
    /\ \A e \in thread[t].cidr.entries :
         Address \in e.net /\ thread[t].answer.tags \cap {e.source} = {} =>
           \E d \in thread[t].cidr.entries : Address \in d.net /\ Better(d, e)

(* Enrichment never keeps the writer from the event: its lookups end, and    *)
(* without an exception.                                                     *)
WriterGoesOn ==
  /\ [](\A t \in Threads : thread[t].pc = "raised" => t # "writer")
  /\ \A t \in Threads : (thread[t].pc = "geo") ~> (thread[t].pc \in {"done", "raised"})

(* The shared caches under concurrent first use and reload: opened once,     *)
(* and a lookup that met neither the opener nor a reload sees all of them.   *)
CachesAreSound == OpenedOnce /\ MissesMeetTheOpener /\ IntelIsWhole

-----------------------------------------------------------------------------
(* The inductive invariant behind it. *)

Index == [load : Nat, entries : SUBSET UNION Feeds]

(* The thread that holds the lock of a reader opens it, and nobody has       *)
(* before; afterwards the reader is what the files give.                     *)
ReaderState(k) ==
  /\ \A t \in Threads : thread[t].pc = Opening[k] <=> cache[k].lock = t
  /\ cache[k].lock \in Threads => cache[k].attempted
  /\ cache[k].attempted /\ cache[k].lock = Nobody => (cache[k].reader <=> Opens(k))
  /\ ~ cache[k].attempted => ~ cache[k].reader
  /\ done[k] = IF cache[k].attempted /\ cache[k].lock = Nobody THEN 1 ELSE 0

(* The halves of the indicator cache are of one load whenever its lock is    *)
(* free; who holds it has one of them still to set or to clear.              *)
IndexState ==
  /\ index.lock = Nobody =>
       \/ index.ip = NoIndex /\ index.cidr = NoIndex
       \/ index.ip # NoIndex /\ index.cidr # NoIndex /\ index.ip.load = index.cidr.load
  /\ index.lock = "reload" => index.ip = NoIndex
  /\ \A t \in Threads : thread[t].pc = "set-cidr" <=> index.lock = t
  /\ index.lock \in Threads =>
       index.cidr = NoIndex /\ index.ip = thread[index.lock].ip /\ index.ip # NoIndex

OfOneLoad(t) ==
  thread[t].ip # NoIndex /\ thread[t].cidr # NoIndex /\ thread[t].ip.load = thread[t].cidr.load

(* What a lookup that no reload has met may rely on, by how far it is.       *)
LookupState(t) ==
  /\ thread[t].pc = "set-cidr" => OfOneLoad(t)
  /\ ~ thread[t].reloaded =>
       /\ thread[t].pc = "read-ip" => Loaded
       /\ thread[t].pc = "read-cidr" => Loaded /\ thread[t].ip = index.ip
       /\ thread[t].pc \in {"check", "done", "raised"} => OfOneLoad(t)
       /\ thread[t].pc # "raised"
  /\ thread[t].pc = "done" /\ thread[t].ip # NoIndex =>
       thread[t].answer = CheckIp(thread[t].ip, thread[t].cidr)

EnrichInv ==
  /\ \A k \in {"geo", "asn"} : ReaderState(k)
  /\ IndexState /\ \A t \in Threads : LookupState(t)
  /\ MissesMeetTheOpener

=============================================================================
