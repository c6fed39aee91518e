--------------------------- MODULE BackendProofs ----------------------------
(***************************************************************************)
(* Proofs about the parts of Backend that keep copies: the dashboard's     *)
(* fetching hook, for every number of loads under way, the enrichment      *)
(* caches, for every set of threads, databases and feeds, and the live     *)
(* feed over the tables of StoreProofs, for every limit and number of      *)
(* polls.  A step of another topic leaves their variables alone.           *)
(***************************************************************************)
EXTENDS StoreProofs

-----------------------------------------------------------------------------
(* useApi *)

LoadType == [kind : {"none", "mount", "quiet"}, of : Nat, aborted : BOOLEAN]

LEMMA HookShape == HookTyped <=> /\ deps \in Nat /\ mounted \in BOOLEAN /\ loading \in BOOLEAN
                                 /\ loads \in [Loads -> LoadType]
BY DEF HookTyped, LoadType

LEMMA HookStarts == HookInit => HookInv
<1> SUFFICES ASSUME HookInit PROVE HookInv
  OBVIOUS
<1> DEFINE first == [kind |-> "mount", of |-> 0, aborted |-> FALSE]
<1>1. NoLoad \in LoadType /\ NoLoad.kind = "none"
  BY DEF NoLoad, LoadType
<1>2. first \in LoadType
  BY DEF LoadType
<1>3. loads = [l \in Loads |-> IF l = 1 THEN first ELSE NoLoad] /\ deps = 0 /\ late = {}
  BY <1>1 DEF HookInit
<1>4. HookTyped
  <2>1. loads \in [Loads -> LoadType]
    BY <1>1, <1>2, <1>3
  <2> QED
    BY <2>1, HookShape DEF HookInit
<1>5. MountsAreCurrent
  BY <1>1, <1>3 DEF MountsAreCurrent
<1>6. LoadingHasALoad
  BY <1>3, HookAssumption DEF LoadingHasALoad
<1> QED
  BY <1>3, <1>4, <1>5, <1>6 DEF HookInv, HookIsHonest, OnlyQuietLoadsAreLate

(* The cleanup of the effect aborts the loads of the effect and no other.    *)
LEMMA AbortedLoads ==
  ASSUME HookTyped
  PROVE  /\ Aborted(loads) \in [Loads -> LoadType]
         /\ \A l \in Loads : Aborted(loads)[l].kind = loads[l].kind
                             /\ (loads[l].kind = "mount" => Aborted(loads)[l].aborted)
BY DEF HookTyped, Aborted, LoadType

LEMMA DepsChangeKeeps == HookInv /\ DepsChange => HookInv'
<1> SUFFICES ASSUME HookInv, DepsChange PROVE HookInv'
  OBVIOUS
<1>0. HookTyped /\ MountsAreCurrent /\ late \subseteq {"quiet"}
  BY DEF HookInv, HookIsHonest, OnlyQuietLoadsAreLate
<1>1. PICK l \in Free : loads' = [Aborted(loads) EXCEPT ![l] = Load("mount")]
  BY DEF DepsChange
<1>2. /\ deps' = deps + 1 /\ deps' \in Nat /\ loading' = TRUE /\ UNCHANGED <<mounted, late>>
      /\ l \in Loads /\ Load("mount") = [kind |-> "mount", of |-> deps', aborted |-> FALSE]
  BY <1>0 DEF DepsChange, HookTyped, Free, Load
<1>3. /\ loads' \in [Loads -> LoadType]
      /\ loads'[l] = [kind |-> "mount", of |-> deps', aborted |-> FALSE]
      /\ \A m \in Loads : m # l => loads'[m] = Aborted(loads)[m]
  <2>1. Load("mount") \in LoadType
    <3>1. deps' \in Nat
      BY <1>2
    <3> QED
      BY <3>1 DEF LoadType, Load
  <2>2. Aborted(loads) \in [Loads -> LoadType]
    BY <1>0, AbortedLoads
  <2>3. loads' \in [Loads -> LoadType]
    BY <1>1, <2>1, <2>2
  <2>4. loads'[l] = Load("mount") /\ \A m \in Loads : m # l => loads'[m] = Aborted(loads)[m]
    BY <1>1, <1>2, <2>2
  <2> QED
    BY <1>2, <2>3, <2>4
<1>4. HookTyped'
  BY <1>0, <1>2, <1>3, HookShape DEF HookTyped, LoadType
<1>5. MountsAreCurrent'
  BY <1>0, <1>2, <1>3, AbortedLoads DEF MountsAreCurrent
<1>6. LoadingHasALoad'
  BY <1>2, <1>3 DEF LoadingHasALoad
<1> QED
  BY <1>0, <1>2, <1>4, <1>5, <1>6 DEF HookInv, HookIsHonest, OnlyQuietLoadsAreLate

LEMMA QuietLoadKeeps == HookInv /\ QuietLoad => HookInv'
<1> SUFFICES ASSUME HookInv, QuietLoad PROVE HookInv'
  OBVIOUS
<1>0. HookTyped /\ MountsAreCurrent /\ late \subseteq {"quiet"} /\ LoadingHasALoad
  BY DEF HookInv, HookIsHonest, OnlyQuietLoadsAreLate
<1>1. PICK l \in Free : loads' = [loads EXCEPT ![l] = Load("quiet")]
  BY DEF QuietLoad
<1>2. /\ UNCHANGED <<deps, mounted, loading, late>> /\ l \in Loads /\ loads[l].kind = "none"
      /\ Load("quiet") = [kind |-> "quiet", of |-> deps, aborted |-> FALSE]
  BY DEF QuietLoad, Free, Load
<1>3. /\ loads' \in [Loads -> LoadType]
      /\ loads'[l].kind = "quiet" /\ \A m \in Loads : m # l => loads'[m] = loads[m]
  <2>1. Load("quiet") \in LoadType
    <3>1. deps' \in Nat
      BY <1>0, <1>2 DEF HookTyped
    <3> QED
      BY <3>1 DEF LoadType, Load
  <2>2. loads \in [Loads -> LoadType]
    BY <1>0, HookShape
  <2>3. loads' \in [Loads -> LoadType]
    BY <1>1, <2>1, <2>2
  <2>4. loads'[l] = Load("quiet") /\ \A m \in Loads : m # l => loads'[m] = loads[m]
    BY <1>1, <1>2, <2>2
  <2> QED
    BY <1>2, <2>3, <2>4
<1>4. HookTyped' /\ MountsAreCurrent'
  BY <1>0, <1>2, <1>3 DEF HookTyped, MountsAreCurrent, LoadType
<1>5. LoadingHasALoad'
  <2> SUFFICES ASSUME mounted, loading
               PROVE  \E m \in Loads : loads'[m] = [kind |-> "mount", of |-> deps, aborted |-> FALSE]
    BY <1>2 DEF LoadingHasALoad
  <2>1. PICK m \in Loads : loads[m] = [kind |-> "mount", of |-> deps, aborted |-> FALSE]
    BY <1>0 DEF LoadingHasALoad
  <2>2. m # l
    BY <1>2, <2>1
  <2> QED
    BY <1>3, <2>1, <2>2
<1> QED
  BY <1>0, <1>2, <1>4, <1>5 DEF HookInv, HookIsHonest, OnlyQuietLoadsAreLate

LEMMA UnmountKeeps == HookInv /\ Unmount => HookInv'
<1> SUFFICES ASSUME HookInv, Unmount PROVE HookInv'
  OBVIOUS
<1>1. HookTyped' /\ ~mounted' /\ UNCHANGED late
  BY AbortedLoads DEF HookInv, HookTyped, Unmount, LoadType
<1> QED
  BY <1>1 DEF HookInv, MountsAreCurrent, HookIsHonest, OnlyQuietLoadsAreLate, LoadingHasALoad

(* An answer ends its load.  Only the load the page waits for, or a quiet    *)
(* one, ends the loading; a load of the effect that may be shown is for the  *)
(* deps of the moment, and so is not late.                                   *)
LEMMA AnswersKeep ==
  ASSUME HookInv, NEW l \in Loads, Resolves(l) \/ Rejects(l)
  PROVE  HookInv'
<1>0. HookTyped /\ MountsAreCurrent /\ late \subseteq {"quiet"} /\ LoadingHasALoad
  BY DEF HookInv, HookIsHonest, OnlyQuietLoadsAreLate
<1>1. /\ loads[l].kind \in {"mount", "quiet"} /\ UNCHANGED <<deps, mounted>>
      /\ loads' = [loads EXCEPT ![l] = NoLoad] /\ loading' = Settled(l)
  BY <1>0 DEF Resolves, Rejects, HookTyped
<1>2. /\ loads' \in [Loads -> LoadType]
      /\ loads'[l].kind = "none" /\ \A m \in Loads : m # l => loads'[m] = loads[m]
  BY <1>0, <1>1 DEF HookTyped, NoLoad, LoadType
<1>3. HookTyped' /\ MountsAreCurrent'
  BY <1>0, <1>1, <1>2 DEF HookTyped, LoadType, MountsAreCurrent, Settled
<1>4. LoadingHasALoad'
  <2> SUFFICES ASSUME mounted, Settled(l)
               PROVE  \E m \in Loads : loads'[m] = [kind |-> "mount", of |-> deps, aborted |-> FALSE]
    BY <1>1 DEF LoadingHasALoad
  <2>1. loads[l].aborted /\ loading
    BY DEF Settled
  <2>2. PICK m \in Loads : loads[m] = [kind |-> "mount", of |-> deps, aborted |-> FALSE]
    BY <1>0, <2>1 DEF LoadingHasALoad
  <2>3. m # l
    BY <2>1, <2>2
  <2> QED
    BY <1>2, <2>2, <2>3
<1>5. late' \subseteq {"quiet"}
  <2>1. CASE UNCHANGED late
    BY <1>0, <2>1
  <2>2. CASE ~ UNCHANGED late
    <3>1. ~ loads[l].aborted /\ mounted /\ loads[l].of < deps /\ late' = late \cup {loads[l].kind}
      BY <2>2 DEF Resolves, Rejects
    <3>2. loads[l].of # deps
      BY <1>0, <3>1 DEF HookTyped
    <3>3. loads[l].kind = "quiet"
      BY <1>0, <1>1, <3>1, <3>2 DEF MountsAreCurrent
    <3> QED
      BY <1>0, <3>1, <3>3
  <2> QED
    BY <2>1, <2>2
<1> QED
  BY <1>3, <1>4, <1>5 DEF HookInv, HookIsHonest, OnlyQuietLoadsAreLate

LEMMA HookStep == HookInv /\ [HookNext]_hookvars => HookInv'
<1>1. ASSUME HookInv, UNCHANGED hookvars PROVE HookInv'
  <2>1. UNCHANGED <<deps, mounted, loads, loading, late>>
    BY <1>1 DEF hookvars
  <2>2. HookTyped' /\ MountsAreCurrent'
    BY <1>1, <2>1 DEF HookInv, HookTyped, MountsAreCurrent
  <2>3. OnlyQuietLoadsAreLate' /\ LoadingHasALoad'
    BY <1>1, <2>1, Zenon DEF HookInv, HookIsHonest, OnlyQuietLoadsAreLate, LoadingHasALoad
  <2> QED
    BY <2>2, <2>3 DEF HookInv, HookIsHonest
<1> QED
  BY <1>1, DepsChangeKeeps, QuietLoadKeeps, UnmountKeeps, AnswersKeep DEF HookNext, Answers

(* useApi.js: an answer that overwrites later data is one of a poll or a     *)
(* refresh, and a page that shows loading has the load of the effect under   *)
(* way, for the filter it has now.                                           *)
THEOREM BackendHookIsHonest == BackendSpec => []HookIsHonest
<1>1. BackendInit => HookInv
  BY HookStarts DEF BackendInit
<1>2. [BackendNext]_backvars => [HookNext]_hookvars
  BY DEF BackendNext, backvars, Aggregates, ImportsLogs, Stores, Pages, Watches, Fetches, Enriches, Others
<1>3. HookInv => HookIsHonest
  BY DEF HookInv
<1> QED
  BY <1>1, <1>2, <1>3, HookStep, PTL DEF BackendSpec

-----------------------------------------------------------------------------
(* Enrichment *)

(* Where a lookup has nothing of the indicator cache yet.                    *)
EarlyPcs == {"idle", "geo", "geo-lock", "geo-open", "asn", "asn-lock", "asn-open", "table", "intel",
             "intel-lock"}
ThreadPcs == EarlyPcs \cup {"read-ip", "read-cidr", "set-cidr", "check", "done", "raised"}

(* A thread's record; the shape of the answer does not matter.               *)
ThreadType(answer) ==
  [pc : ThreadPcs, runs : Nat, geo : {"none", "found", "unavailable"},
   asn : {"none", "found", "unavailable"}, ip : Index \cup {NoIndex}, cidr : Index \cup {NoIndex},
   answer : {answer}, met : BOOLEAN, reloaded : BOOLEAN]

CacheType == [attempted : BOOLEAN, reader : BOOLEAN, lock : Threads \cup {Nobody}]
IndexType == [ip : Index \cup {NoIndex}, cidr : Index \cup {NoIndex},
              lock : Threads \cup {Nobody, "reload"}]
CountsType == [geo : Nat, asn : Nat, loads : Nat, reloads : Nat, refreshes : Nat]

EnrichTyped ==
  /\ cache \in [{"geo", "asn"} -> CacheType]
  /\ index \in IndexType
  /\ feed_file \subseteq UNION Feeds
  /\ done \in CountsType
  /\ DOMAIN thread = Threads
  /\ \A t \in Threads : thread[t] \in ThreadType(thread[t].answer)

(* MissesMeetTheOpener, of one thread. *)
Missed(t) == thread[t].geo = "unavailable" /\ ~ thread[t].met => ~ Opens("geo")

EnrichParts ==
  /\ EnrichTyped /\ ReaderState("geo") /\ ReaderState("asn") /\ IndexState
  /\ \A t \in Threads : LookupState(t) /\ Missed(t)

LEMMA EnrichStarts == EnrichInit => EnrichParts
<1> SUFFICES ASSUME EnrichInit PROVE EnrichParts
  OBVIOUS
<1>1. /\ cache = [k \in {"geo", "asn"} |-> Reader]
      /\ index = [ip |-> NoIndex, cidr |-> NoIndex, lock |-> Nobody]
      /\ feed_file \in Feeds /\ thread = [t \in Threads |-> NewThread]
      /\ done = [geo |-> 0, asn |-> 0, loads |-> 0, reloads |-> 0, refreshes |-> 0]
  BY DEF EnrichInit
<1>2. EnrichTyped
  <2>1. Reader \in CacheType /\ index \in IndexType /\ done \in CountsType
    BY <1>1 DEF Reader, CacheType, IndexType, CountsType
  <2>2. NewThread \in ThreadType(NewThread.answer)
    BY DEF NewThread, ThreadType, ThreadPcs, EarlyPcs
  <2> QED
    BY <1>1, <2>1, <2>2 DEF EnrichTyped
<1>3. \A t \in Threads : /\ thread[t].pc = "idle" /\ thread[t].geo = "none"
                         /\ t # Nobody
  BY <1>1, EnrichAssumption DEF NewThread, Nobody
<1>4. \A t \in Threads : LookupState(t) /\ Missed(t)
  BY <1>3 DEF LookupState, Missed
<1>5. ReaderState("geo") /\ ReaderState("asn")
  BY <1>1, <1>3 DEF ReaderState, Opening, Reader
<1>6. IndexState
  BY <1>1, <1>3, EnrichAssumption DEF IndexState, Nobody
<1> QED
  BY <1>2, <1>4, <1>5, <1>6 DEF EnrichParts

(* The other threads, and the index as they see it. *)
LEMMA OtherLookups ==
  ASSUME NEW t, LookupState(t), Missed(t), UNCHANGED dbs, thread'[t] = thread[t],
         index' = index \/ ~ Loaded \/ (Loaded' /\ index'.ip = index.ip)
  PROVE  LookupState(t)' /\ Missed(t)'
BY DEF LookupState, Missed, Opens, Loaded, OfOneLoad, CheckIp, Exact, BestNet

(* A step that neither takes nor gives up a lock changes one thread only.    *)
LEMMA LocalKeeps ==
  ASSUME EnrichParts, NEW t \in Threads, NEW u, thread' = [thread EXCEPT ![t] = u],
         UNCHANGED <<dbs, cache, index, feed_file, done>>,
         u \in ThreadType(u.answer),
         thread[t].pc \notin {"geo-open", "asn-open", "set-cidr"},
         u.pc \notin {"geo-open", "asn-open", "set-cidr"},
         LookupState(t)', Missed(t)'
  PROVE  EnrichParts'
<1>0. EnrichTyped /\ ReaderState("geo") /\ ReaderState("asn") /\ IndexState
  BY DEF EnrichParts
<1>1. thread'[t] = u /\ \A s \in Threads : s # t => thread'[s] = thread[s]
  BY <1>0 DEF EnrichTyped
<1>2. EnrichTyped'
  BY <1>0, <1>1 DEF EnrichTyped
<1>3. index.lock # t /\ cache["geo"].lock # t /\ cache["asn"].lock # t
  BY <1>0 DEF ReaderState, IndexState, Opening
<1>4. \A k \in {"geo", "asn"} : (Opens(k)' <=> Opens(k)) /\ Opening[k] \in {"geo-open", "asn-open"}
  BY DEF Opens, Opening
<1>5. ReaderState("geo")' /\ ReaderState("asn")'
  BY <1>0, <1>1, <1>3, <1>4 DEF ReaderState
<1>6. IndexState'
  BY <1>0, <1>1, <1>3 DEF IndexState
<1>7. \A s \in Threads : LookupState(s)' /\ Missed(s)'
  BY <1>1, OtherLookups DEF EnrichParts
<1> QED
  BY <1>2, <1>5, <1>6, <1>7 DEF EnrichParts

(* What a thread knows after _get_reader. *)
LEMMA HasFields ==
  ASSUME EnrichTyped, NEW t \in Threads, NEW k \in {"geo", "asn"}, NEW reader_ \in BOOLEAN
  PROVE  /\ Has(t, k, reader_) \in ThreadType(Has(t, k, reader_).answer)
         /\ Has(t, k, reader_).pc \in {"asn", "table", "intel"}
         /\ k = "geo" => /\ Has(t, k, reader_).geo = IF reader_ THEN "found" ELSE "unavailable"
                         /\ ~ reader_ /\ ~ Has(t, k, reader_).met => cache[k].lock = Nobody
         /\ k = "asn" => Has(t, k, reader_).geo = thread[t].geo
         /\ thread[t].met => Has(t, k, reader_).met
<1>1. thread[t] \in ThreadType(thread[t].answer)
  BY DEF EnrichTyped
<1>2. AfterReader(k, reader_) \in {"asn", "table", "intel"}
  BY DEF AfterReader
<1> DEFINE after == AfterReader(k, reader_)
           g == IF k = "geo" THEN (IF reader_ THEN "found" ELSE "unavailable") ELSE thread[t].geo
           a == IF k = "asn" THEN (IF reader_ THEN "found" ELSE "unavailable") ELSE thread[t].asn
           m == thread[t].met \/ (~ reader_ /\ cache[k].lock # Nobody)
<1>3. Has(t, k, reader_) = [thread[t] EXCEPT !.pc = after, !.geo = g, !.asn = a, !.met = m]
  BY <1>1 DEF Has, ThreadType
<1>4. /\ after \in ThreadPcs /\ g \in {"none", "found", "unavailable"}
      /\ a \in {"none", "found", "unavailable"} /\ m \in BOOLEAN
  BY <1>1, <1>2 DEF ThreadType, ThreadPcs, EarlyPcs
<1>5. /\ k = "geo" => g = IF reader_ THEN "found" ELSE "unavailable"
      /\ k = "asn" => g = thread[t].geo
      /\ thread[t].met => m
      /\ ~ reader_ /\ ~ m => cache[k].lock = Nobody
  OBVIOUS
<1> HIDE DEF after, g, a, m
<1>6. /\ Has(t, k, reader_) \in ThreadType(Has(t, k, reader_).answer)
      /\ Has(t, k, reader_).pc = after /\ Has(t, k, reader_).geo = g
      /\ Has(t, k, reader_).met = m
  BY <1>1, <1>3, <1>4 DEF ThreadType
<1> QED
  BY <1>2, <1>5, <1>6 DEF after

(* A lookup that has read nothing of the indicators may rely on nothing.     *)
LEMMA EarlyLookup ==
  ASSUME NEW t, thread'[t].pc \in EarlyPcs
  PROVE  LookupState(t)'
BY DEF LookupState, EarlyPcs

LEMMA BeginKeeps ==
  ASSUME EnrichParts, NEW t \in Threads, Begin(t)
  PROVE  EnrichParts'
<1> DEFINE u == [NewThread EXCEPT !.pc = "geo", !.runs = thread[t].runs + 1]
<1>0. thread[t] \in ThreadType(thread[t].answer) /\ DOMAIN thread = Threads
  BY DEF EnrichParts, EnrichTyped
<1>1. u \in ThreadType(u.answer) /\ u.pc = "geo" /\ u.geo = "none"
  <2>1. /\ NewThread \in ThreadType(NewThread.answer) /\ NewThread.geo = "none"
        /\ thread[t].runs + 1 \in Nat /\ "geo" \in ThreadPcs
    BY <1>0 DEF NewThread, ThreadType, ThreadPcs, EarlyPcs
  <2> QED
    BY <2>1 DEF ThreadType
<1>2. /\ thread' = [thread EXCEPT ![t] = u] /\ UNCHANGED <<dbs, cache, index, feed_file, done>>
      /\ thread[t].pc \in {"idle", "done", "raised"}
  BY DEF Begin
<1> HIDE DEF u
<1>3. thread'[t] = u
  BY <1>0, <1>2
<1>4. LookupState(t)' /\ Missed(t)'
  BY <1>1, <1>3, EarlyLookup DEF Missed, EarlyPcs
<1> QED
  BY <1>1, <1>2, <1>4, LocalKeeps

(* A reader that is there, or that nobody is opening any more, is what the   *)
(* files give.                                                               *)
LEMMA ReaderFound ==
  ASSUME EnrichParts, NEW t \in Threads, NEW k \in {"geo", "asn"}, cache[k].attempted \/ cache[k].reader,
         thread[t].pc \in EarlyPcs \ {"geo-open", "asn-open"},
         thread' = [thread EXCEPT ![t] = Has(t, k, cache[k].reader)],
         UNCHANGED <<dbs, cache, index, feed_file, done>>
  PROVE  EnrichParts'
<1> DEFINE u == Has(t, k, cache[k].reader)
<1>0. EnrichTyped /\ ReaderState(k) /\ Missed(t) /\ cache[k].reader \in BOOLEAN /\ DOMAIN thread = Threads
  BY DEF EnrichParts, EnrichTyped, CacheType
<1>1. /\ u \in ThreadType(u.answer) /\ u.pc \in {"asn", "table", "intel"}
      /\ k = "geo" => /\ u.geo = IF cache[k].reader THEN "found" ELSE "unavailable"
                      /\ ~ cache[k].reader /\ ~ u.met => cache[k].lock = Nobody
      /\ k = "asn" => u.geo = thread[t].geo
      /\ thread[t].met => u.met
  BY <1>0, HasFields
<1>2. thread' = [thread EXCEPT ![t] = u]
  OBVIOUS
<1> HIDE DEF u
<1>3. thread'[t] = u
  BY <1>0, <1>2
<1>4. LookupState(t)'
  BY <1>1, <1>3, EarlyLookup DEF EarlyPcs
<1>5. Missed(t)'
  <2> SUFFICES ASSUME u.geo = "unavailable", ~ u.met PROVE ~ Opens("geo")
    BY <1>3 DEF Missed, Opens
  <2>1. CASE k = "geo"
    BY <1>0, <1>1, <2>1 DEF ReaderState
  <2>2. CASE k = "asn"
    BY <1>0, <1>1, <2>2 DEF Missed
  <2> QED
    BY <2>1, <2>2
<1> QED
  BY <1>1, <1>2, <1>4, <1>5, LocalKeeps DEF EarlyPcs

(* A thread that moves on and has learnt nothing about the city database.    *)
LEMMA MovesOn ==
  ASSUME EnrichParts, NEW t \in Threads, NEW p \in ThreadPcs \ {"geo-open", "asn-open", "set-cidr"},
         thread' = [thread EXCEPT ![t] = [thread[t] EXCEPT !.pc = p]],
         thread[t].pc \notin {"geo-open", "asn-open", "set-cidr"},
         UNCHANGED <<dbs, cache, index, feed_file, done>>,
         LookupState(t)'
  PROVE  EnrichParts'
<1> DEFINE u == [thread[t] EXCEPT !.pc = p]
<1>0. thread[t] \in ThreadType(thread[t].answer) /\ DOMAIN thread = Threads /\ Missed(t)
  BY DEF EnrichParts, EnrichTyped
<1>1. u \in ThreadType(u.answer) /\ u.pc = p /\ u.geo = thread[t].geo /\ u.met = thread[t].met
  BY <1>0 DEF ThreadType
<1>2. thread' = [thread EXCEPT ![t] = u]
  OBVIOUS
<1> HIDE DEF u
<1>3. Missed(t)'
  BY <1>0, <1>1, <1>2 DEF Missed, Opens
<1> QED
  BY <1>1, <1>2, <1>3, LocalKeeps

LEMMA ReaderFastKeeps ==
  ASSUME EnrichParts, NEW t \in Threads, NEW k \in {"geo", "asn"}, ReaderFast(t, k)
  PROVE  EnrichParts'
<1>0. /\ thread[t].pc = k /\ UNCHANGED <<dbs, cache, index, feed_file, done>> /\ DOMAIN thread = Threads
      /\ thread[t] \in ThreadType(thread[t].answer)
  BY DEF ReaderFast, EnrichParts, EnrichTyped
<1>1. CASE cache[k].reader \/ cache[k].attempted
  <2>1. thread' = [thread EXCEPT ![t] = Has(t, k, cache[k].reader)]
    BY <1>1 DEF ReaderFast
  <2> QED
    BY <1>0, <1>1, <2>1, ReaderFound DEF EarlyPcs
<1>2. CASE ~ (cache[k].reader \/ cache[k].attempted)
  <2>1. thread' = [thread EXCEPT ![t] = [thread[t] EXCEPT !.pc = Locking[k]]]
    BY <1>0, <1>2 DEF ReaderFast
  <2>2. Locking[k] \in {"geo-lock", "asn-lock"}
    BY DEF Locking
  <2>3. thread'[t].pc = Locking[k]
    BY <1>0, <2>1 DEF ThreadType
  <2>4. LookupState(t)'
    BY <2>2, <2>3, EarlyLookup DEF EarlyPcs
  <2> QED
    BY <1>0, <2>1, <2>2, <2>4, MovesOn DEF ThreadPcs, EarlyPcs
<1> QED
  BY <1>1, <1>2

LEMMA PrefixTableKeeps ==
  ASSUME EnrichParts, NEW t \in Threads, PrefixTable(t)
  PROVE  EnrichParts'
<1>0. /\ thread[t].pc = "table" /\ UNCHANGED <<dbs, cache, index, feed_file, done>>
      /\ thread' = [thread EXCEPT ![t] = [thread[t] EXCEPT !.pc = "intel"]]
      /\ DOMAIN thread = Threads /\ thread[t] \in ThreadType(thread[t].answer)
  BY DEF PrefixTable, EnrichParts, EnrichTyped
<1>1. thread'[t].pc = "intel"
  BY <1>0 DEF ThreadType
<1>2. LookupState(t)'
  BY <1>1, EarlyLookup DEF EarlyPcs
<1> QED
  BY <1>0, <1>2, MovesOn DEF ThreadPcs, EarlyPcs

LEMMA IntelFastKeeps ==
  ASSUME EnrichParts, NEW t \in Threads, IntelFast(t)
  PROVE  EnrichParts'
<1>0. /\ thread[t].pc = "intel" /\ UNCHANGED <<dbs, cache, index, feed_file, done>>
      /\ thread' = [thread EXCEPT ![t] = [thread[t] EXCEPT !.pc = IF Loaded THEN "read-ip" ELSE "intel-lock"]]
      /\ DOMAIN thread = Threads /\ thread[t] \in ThreadType(thread[t].answer)
  BY DEF IntelFast, EnrichParts, EnrichTyped
<1> DEFINE p == IF Loaded THEN "read-ip" ELSE "intel-lock"
<1>1. thread'[t].pc = p
  BY <1>0 DEF ThreadType
<1>2. LookupState(t)'
  <2>1. CASE Loaded
    BY <1>0, <1>1, <2>1 DEF LookupState, Loaded
  <2>2. CASE ~ Loaded
    BY <1>1, <2>2, EarlyLookup DEF EarlyPcs
  <2> QED
    BY <2>1, <2>2
<1>3. p \in ThreadPcs \ {"geo-open", "asn-open", "set-cidr"} /\ thread' = [thread EXCEPT ![t] = [thread[t] EXCEPT !.pc = p]]
  BY <1>0 DEF ThreadPcs, EarlyPcs
<1> HIDE DEF p
<1> QED
  BY <1>0, <1>2, <1>3, MovesOn

LEMMA ReadIpKeeps ==
  ASSUME EnrichParts, NEW t \in Threads, ReadIp(t)
  PROVE  EnrichParts'
<1> DEFINE u == [thread[t] EXCEPT !.ip = index.ip, !.pc = "read-cidr"]
<1>0. /\ thread[t].pc = "read-ip" /\ UNCHANGED <<dbs, cache, index, feed_file, done>>
      /\ thread' = [thread EXCEPT ![t] = u] /\ index.ip \in Index \cup {NoIndex}
      /\ DOMAIN thread = Threads /\ thread[t] \in ThreadType(thread[t].answer)
      /\ LookupState(t) /\ Missed(t)
  BY DEF ReadIp, EnrichParts, EnrichTyped, IndexType
<1>1. /\ u \in ThreadType(u.answer) /\ u.pc = "read-cidr" /\ u.ip = index.ip
      /\ u.geo = thread[t].geo /\ u.met = thread[t].met /\ u.reloaded = thread[t].reloaded
  BY <1>0 DEF ThreadType, ThreadPcs
<1> HIDE DEF u
<1>2. thread'[t] = u
  BY <1>0
<1>3. LookupState(t)'
  BY <1>0, <1>1, <1>2 DEF LookupState, Loaded
<1>4. Missed(t)'
  BY <1>0, <1>1, <1>2 DEF Missed, Opens
<1> QED
  BY <1>0, <1>1, <1>3, <1>4, LocalKeeps

(* The halves of a loaded index are of one load: who holds the lock has one  *)
(* of them empty.                                                            *)
LEMMA LoadedIsOne ==
  ASSUME EnrichParts, Loaded
  PROVE  index.lock = Nobody /\ index.ip.load = index.cidr.load
BY DEF EnrichParts, EnrichTyped, IndexType, IndexState, Loaded

LEMMA ReadCidrKeeps ==
  ASSUME EnrichParts, NEW t \in Threads, ReadCidr(t)
  PROVE  EnrichParts'
<1> DEFINE u == [thread[t] EXCEPT !.cidr = index.cidr, !.pc = "check"]
<1>0. /\ thread[t].pc = "read-cidr" /\ UNCHANGED <<dbs, cache, index, feed_file, done>>
      /\ thread' = [thread EXCEPT ![t] = u] /\ index.cidr \in Index \cup {NoIndex}
      /\ DOMAIN thread = Threads /\ thread[t] \in ThreadType(thread[t].answer)
      /\ LookupState(t) /\ Missed(t)
  BY DEF ReadCidr, EnrichParts, EnrichTyped, IndexType
<1>1. /\ u \in ThreadType(u.answer) /\ u.pc = "check" /\ u.cidr = index.cidr /\ u.ip = thread[t].ip
      /\ u.geo = thread[t].geo /\ u.met = thread[t].met /\ u.reloaded = thread[t].reloaded
  BY <1>0 DEF ThreadType, ThreadPcs
<1> HIDE DEF u
<1>2. thread'[t] = u
  BY <1>0
<1>3. ~ u.reloaded => u.ip # NoIndex /\ u.cidr # NoIndex /\ u.ip.load = u.cidr.load
  BY <1>0, <1>1, LoadedIsOne DEF LookupState, Loaded
<1>4. LookupState(t)'
  BY <1>1, <1>2, <1>3 DEF LookupState, OfOneLoad
<1>5. Missed(t)'
  BY <1>0, <1>1, <1>2 DEF Missed, Opens
<1> QED
  BY <1>0, <1>1, <1>4, <1>5, LocalKeeps

LEMMA CheckKeeps ==
  ASSUME EnrichParts, NEW t \in Threads, Check(t)
  PROVE  EnrichParts'
<1> DEFINE a == IF thread[t].ip = NoIndex THEN NoIndex ELSE CheckIp(thread[t].ip, thread[t].cidr)
           p == IF thread[t].ip = NoIndex /\ ~ Survives(t) THEN "raised" ELSE "done"
           u == [thread[t] EXCEPT !.answer = a, !.pc = p]
<1>0. /\ thread[t].pc = "check" /\ UNCHANGED <<dbs, cache, index, feed_file, done>>
      /\ thread' = [thread EXCEPT ![t] = u]
      /\ DOMAIN thread = Threads /\ thread[t] \in ThreadType(thread[t].answer)
      /\ LookupState(t) /\ Missed(t)
  BY DEF Check, EnrichParts, EnrichTyped
<1>1. /\ p \in {"done", "raised"} /\ (p = "raised" => thread[t].ip = NoIndex)
      /\ thread[t].ip # NoIndex => a = CheckIp(thread[t].ip, thread[t].cidr)
  OBVIOUS
<1> HIDE DEF a, p
<1>2. /\ u \in ThreadType(u.answer) /\ u.pc = p /\ u.cidr = thread[t].cidr /\ u.ip = thread[t].ip
      /\ u.answer = a /\ u.geo = thread[t].geo /\ u.met = thread[t].met
      /\ u.reloaded = thread[t].reloaded
  BY <1>0, <1>1 DEF ThreadType, ThreadPcs
<1> HIDE DEF u
<1>3. thread'[t] = u
  BY <1>0
<1>4. ~ u.reloaded => u.ip # NoIndex /\ u.cidr # NoIndex /\ u.ip.load = u.cidr.load
  BY <1>0, <1>2 DEF LookupState, OfOneLoad
<1>5. CheckIp(thread[t].ip, thread[t].cidr) = CheckIp(thread'[t].ip, thread'[t].cidr)
  BY <1>2, <1>3
<1>6. LookupState(t)'
  BY <1>1, <1>2, <1>3, <1>4, <1>5 DEF LookupState, OfOneLoad
<1>7. Missed(t)'
  BY <1>0, <1>2, <1>3 DEF Missed, Opens
<1> QED
  BY <1>0, <1>1, <1>2, <1>6, <1>7, LocalKeeps

(* The lock of reader k is taken or given up by t; the other reader, the     *)
(* index and the other threads are as before.                                *)
LEMMA ReaderStepKeeps ==
  ASSUME EnrichParts, NEW t \in Threads, NEW k \in {"geo", "asn"}, NEW u,
         thread' = [thread EXCEPT ![t] = u], u \in ThreadType(u.answer), u.pc # "set-cidr",
         u.pc \in EarlyPcs, \A j \in {"geo", "asn"} : j # k => u.pc # Opening[j],
         thread[t].pc \in {Locking[k], Opening[k]},
         UNCHANGED <<dbs, index, feed_file>>,
         EnrichTyped', \A j \in {"geo", "asn"} : j # k => cache'[j] = cache[j] /\ done'[j] = done[j],
         ReaderState(k)', Missed(t)'
  PROVE  EnrichParts'
<1>0. EnrichTyped /\ ReaderState("geo") /\ ReaderState("asn") /\ IndexState
  BY DEF EnrichParts
<1>1. thread'[t] = u /\ \A s \in Threads : s # t => thread'[s] = thread[s]
  BY <1>0 DEF EnrichTyped
<1>2. ASSUME NEW j \in {"geo", "asn"}, j # k PROVE ReaderState(j)'
  <2>1. (Opens(j)' <=> Opens(j)) /\ thread[t].pc # Opening[j]
    BY <1>2 DEF Opens, Opening, Locking
  <2>2. ReaderState(j) /\ cache'[j] = cache[j] /\ done'[j] = done[j]
    BY <1>0, <1>2
  <2> QED
    BY <1>1, <1>2, <2>1, <2>2 DEF ReaderState
<1>3. IndexState'
  <2>1. thread[t].pc # "set-cidr"
    BY DEF Locking, Opening
  <2> QED
    BY <1>0, <1>1, <2>1 DEF IndexState
<1>4. \A s \in Threads : LookupState(s)' /\ Missed(s)'
  BY <1>1, OtherLookups, EarlyLookup DEF EnrichParts
<1> QED
  BY <1>2, <1>3, <1>4 DEF EnrichParts

LEMMA ReaderLockKeeps ==
  ASSUME EnrichParts, NEW t \in Threads, NEW k \in {"geo", "asn"}, ReaderLock(t, k)
  PROVE  EnrichParts'
<1>0. /\ EnrichTyped /\ thread[t].pc = Locking[k] /\ cache[k].lock = Nobody /\ DOMAIN thread = Threads
      /\ thread[t] \in ThreadType(thread[t].answer) /\ ReaderState(k) /\ Missed(t)
      /\ UNCHANGED <<dbs, index, feed_file, done>>
  BY DEF ReaderLock, EnrichParts, EnrichTyped
<1>1. CASE cache[k].attempted
  <2>1. thread' = [thread EXCEPT ![t] = Has(t, k, cache[k].reader)] /\ UNCHANGED cache
    BY <1>1 DEF ReaderLock, Recheck
  <2>2. Locking[k] \in EarlyPcs \ {"geo-open", "asn-open"}
    BY DEF Locking, EarlyPcs
  <2> QED
    BY <1>0, <1>1, <2>1, <2>2, ReaderFound
<1>2. CASE ~ cache[k].attempted
  <2> DEFINE u == [thread[t] EXCEPT !.pc = Opening[k]]
             c == [cache[k] EXCEPT !.attempted = TRUE, !.lock = t]
  <2>1. thread' = [thread EXCEPT ![t] = u] /\ cache' = [cache EXCEPT ![k] = c]
    BY <1>0, <1>2 DEF ReaderLock, Recheck
  <2>2. Opening[k] \in {"geo-open", "asn-open"} /\ Opening[k] \in EarlyPcs \cap ThreadPcs
    BY DEF Opening, EarlyPcs, ThreadPcs
  <2>3. /\ u \in ThreadType(u.answer) /\ u.pc = Opening[k] /\ u.geo = thread[t].geo
        /\ u.met = thread[t].met
    BY <1>0, <2>2 DEF ThreadType
  <2>4. cache[k] \in CacheType /\ cache \in [{"geo", "asn"} -> CacheType]
    BY <1>0 DEF EnrichTyped
  <2>5. c \in CacheType /\ c.attempted /\ c.lock = t /\ (c.reader <=> cache[k].reader)
    BY <2>4 DEF CacheType
  <2> HIDE DEF u, c
  <2>6. /\ thread'[t] = u /\ (\A s \in Threads : s # t => thread'[s] = thread[s])
        /\ cache' \in [{"geo", "asn"} -> CacheType] /\ cache'[k] = c
        /\ \A j \in {"geo", "asn"} : j # k => cache'[j] = cache[j]
    BY <1>0, <2>1, <2>4, <2>5
  <2>7. EnrichTyped'
    BY <1>0, <2>1, <2>3, <2>6 DEF EnrichTyped
  <2>8. ReaderState(k)'
    <3>1. t # Nobody /\ done[k] = 0 /\ \A s \in Threads : s # Nobody
      BY <1>0, <1>2, EnrichAssumption DEF ReaderState, Nobody
    <3>2. \A s \in Threads : thread[s].pc # Opening[k]
      BY <1>0, <3>1 DEF ReaderState
    <3> QED
      BY <1>0, <2>3, <2>5, <2>6, <3>1, <3>2 DEF ReaderState
  <2>9. Missed(t)'
    BY <1>0, <2>3, <2>6 DEF Missed, Opens
  <2>10. \A j \in {"geo", "asn"} : j # k => u.pc # Opening[j]
    BY <2>3 DEF Opening
  <2> QED
    BY <1>0, <2>1, <2>2, <2>3, <2>6, <2>7, <2>8, <2>9, <2>10, ReaderStepKeeps
<1> QED
  BY <1>1, <1>2

LEMMA ReaderOpenKeeps ==
  ASSUME EnrichParts, NEW t \in Threads, NEW k \in {"geo", "asn"}, ReaderOpen(t, k)
  PROVE  EnrichParts'
<1> DEFINE h == Has(t, k, Opens(k))
           u == [h EXCEPT !.met = thread[t].met]
           c == [cache[k] EXCEPT !.reader = Opens(k), !.lock = Nobody]
<1>0. /\ EnrichTyped /\ thread[t].pc = Opening[k] /\ DOMAIN thread = Threads
      /\ thread[t] \in ThreadType(thread[t].answer) /\ ReaderState(k) /\ Missed(t)
      /\ UNCHANGED <<dbs, index, feed_file>> /\ thread' = [thread EXCEPT ![t] = u]
      /\ cache' = [cache EXCEPT ![k] = c] /\ done' = [done EXCEPT ![k] = done[k] + 1]
      /\ cache[k] \in CacheType /\ cache \in [{"geo", "asn"} -> CacheType] /\ done \in CountsType
  BY DEF ReaderOpen, EnrichParts, EnrichTyped
<1>1. Opens(k) \in BOOLEAN
  BY DEF Opens
<1>2. /\ h \in ThreadType(h.answer) /\ h.pc \in {"asn", "table", "intel"}
      /\ k = "geo" => h.geo = IF Opens(k) THEN "found" ELSE "unavailable"
      /\ k = "asn" => h.geo = thread[t].geo
  BY <1>0, <1>1, HasFields
<1>3. cache[k].lock = t /\ cache[k].attempted /\ t # Nobody /\ done[k] = 0
  BY <1>0, EnrichAssumption DEF ReaderState, Nobody
<1>4. c \in CacheType /\ c.attempted /\ c.lock = Nobody /\ (c.reader <=> Opens(k))
  BY <1>0, <1>1, <1>3 DEF CacheType
<1> HIDE DEF h, c
<1>5. /\ u \in ThreadType(u.answer) /\ u.pc = h.pc /\ u.geo = h.geo /\ (u.met <=> thread[t].met)
  BY <1>0, <1>2 DEF ThreadType
<1> HIDE DEF u
<1>6. /\ thread'[t] = u /\ (\A s \in Threads : s # t => thread'[s] = thread[s])
      /\ cache' \in [{"geo", "asn"} -> CacheType] /\ cache'[k] = c
      /\ \A j \in {"geo", "asn"} : j # k => cache'[j] = cache[j]
  BY <1>0, <1>4
<1>7. /\ done' \in CountsType /\ done'[k] = 1
      /\ \A j \in {"geo", "asn"} : j # k => done'[j] = done[j]
  <2>1. CASE k = "geo"
    BY <1>0, <1>3, <2>1 DEF CountsType
  <2>2. CASE k = "asn"
    BY <1>0, <1>3, <2>2 DEF CountsType
  <2> QED
    BY <2>1, <2>2
<1>8. EnrichTyped'
  BY <1>0, <1>5, <1>6, <1>7 DEF EnrichTyped
<1>9. ReaderState(k)'
  <2>1. Opens(k)' <=> Opens(k)
    BY <1>0 DEF Opens
  <2>2. \A s \in Threads : thread'[s].pc # Opening[k]
    BY <1>0, <1>2, <1>3, <1>5, <1>6 DEF ReaderState, Opening
  <2>3. \A s \in Threads : s # Nobody
    BY EnrichAssumption DEF Nobody
  <2> QED
    BY <1>4, <1>6, <1>7, <2>1, <2>2, <2>3 DEF ReaderState
<1>10. Missed(t)'
  <2> SUFFICES ASSUME u.geo = "unavailable", ~ u.met PROVE ~ Opens("geo")
    BY <1>0, <1>6 DEF Missed, Opens
  <2>1. CASE k = "geo"
    BY <1>2, <1>5, <2>1
  <2>2. CASE k = "asn"
    BY <1>0, <1>2, <1>5, <2>2 DEF Missed
  <2> QED
    BY <2>1, <2>2
<1>11. u.pc \in EarlyPcs /\ u.pc # "set-cidr" /\ \A j \in {"geo", "asn"} : u.pc # Opening[j]
  BY <1>2, <1>5 DEF EarlyPcs, Opening
<1> QED
  BY <1>0, <1>5, <1>6, <1>7, <1>8, <1>9, <1>10, <1>11, ReaderStepKeeps

(* A step that has nothing to do with the readers. *)
LEMMA ReadersKeep ==
  ASSUME EnrichParts, UNCHANGED <<dbs, cache>>, done'["geo"] = done["geo"], done'["asn"] = done["asn"],
         \A s \in Threads : \A p \in {"geo-open", "asn-open"} : thread'[s].pc = p <=> thread[s].pc = p
  PROVE  ReaderState("geo")' /\ ReaderState("asn")'
<1>1. \A k \in {"geo", "asn"} : (Opens(k)' <=> Opens(k)) /\ Opening[k] \in {"geo-open", "asn-open"}
  BY DEF Opens, Opening
<1> QED
  BY <1>1 DEF EnrichParts, ReaderState

(* An index is not None. *)
LEMMA IndexIsThere ==
  ASSUME EnrichTyped, NEW kind
  PROVE  IndexOf(kind) \in Index /\ IndexOf(kind) # NoIndex /\ IndexOf(kind).load = done.loads + 1
<1>1. done.loads + 1 \in Nat /\ {e \in feed_file : e.kind = kind} \in SUBSET UNION Feeds
  BY DEF EnrichTyped, CountsType
<1>2. IndexOf(kind) \in Index
  BY <1>1 DEF IndexOf, Index
<1> QED
  BY <1>2, EnrichAssumption DEF Index, IndexOf

(* Under the lock: what is there, of one load, or a load of the files.       *)
LEMMA IntelLockKeeps ==
  ASSUME EnrichParts, NEW t \in Threads, IntelLock(t)
  PROVE  EnrichParts'
<1>0. /\ EnrichTyped /\ thread[t].pc = "intel-lock" /\ index.lock = Nobody /\ DOMAIN thread = Threads
      /\ thread[t] \in ThreadType(thread[t].answer) /\ LookupState(t) /\ Missed(t) /\ IndexState
      /\ UNCHANGED <<dbs, cache, feed_file>> /\ index \in IndexType /\ done \in CountsType
  BY DEF IntelLock, EnrichParts, EnrichTyped
<1>1. CASE Loaded
  <2> DEFINE u == [thread[t] EXCEPT !.ip = index.ip, !.cidr = index.cidr, !.pc = "check"]
  <2>1. thread' = [thread EXCEPT ![t] = u] /\ UNCHANGED <<index, done>>
    BY <1>1 DEF IntelLock
  <2>2. /\ u \in ThreadType(u.answer) /\ u.pc = "check" /\ u.ip = index.ip /\ u.cidr = index.cidr
        /\ u.geo = thread[t].geo /\ u.met = thread[t].met
    BY <1>0 DEF ThreadType, ThreadPcs, IndexType
  <2> HIDE DEF u
  <2>3. thread'[t] = u
    BY <1>0, <2>1
  <2>4. LookupState(t)'
    BY <1>1, <2>2, <2>3, LoadedIsOne DEF LookupState, OfOneLoad, Loaded
  <2>5. Missed(t)'
    BY <1>0, <2>2, <2>3 DEF Missed, Opens
  <2> QED
    BY <1>0, <2>1, <2>2, <2>4, <2>5, LocalKeeps
<1>2. CASE ~ Loaded
  <2> DEFINE i == IndexOf("ip")
             c == IndexOf("cidr")
             u == [thread[t] EXCEPT !.ip = i, !.cidr = c, !.pc = "set-cidr"]
             x == [index EXCEPT !.ip = i, !.lock = t]
             d == [done EXCEPT !.loads = done.loads + 1]
  <2>1. thread' = [thread EXCEPT ![t] = u] /\ index' = x /\ done' = d
    BY <1>0, <1>2 DEF IntelLock
  <2>2. /\ i \in Index /\ c \in Index /\ i # NoIndex /\ c # NoIndex /\ i.load = c.load
    BY <1>0, IndexIsThere
  <2> HIDE DEF i, c
  <2>3. /\ u \in ThreadType(u.answer) /\ u.pc = "set-cidr" /\ u.ip = i /\ u.cidr = c
        /\ u.geo = thread[t].geo /\ u.met = thread[t].met
    BY <1>0, <2>2 DEF ThreadType, ThreadPcs
  <2>4. x \in IndexType /\ x.ip = i /\ x.lock = t /\ x.cidr = index.cidr
    BY <1>0, <2>2 DEF IndexType
  <2>5. d \in CountsType /\ d["geo"] = done["geo"] /\ d["asn"] = done["asn"]
    BY <1>0 DEF CountsType
  <2> HIDE DEF u, x, d
  <2>6. thread'[t] = u /\ (\A s \in Threads : s # t => thread'[s] = thread[s])
    BY <1>0, <2>1
  <2>7. EnrichTyped'
    BY <1>0, <2>1, <2>3, <2>4, <2>5, <2>6 DEF EnrichTyped
  <2>8. ReaderState("geo")' /\ ReaderState("asn")'
    BY <1>0, <2>1, <2>3, <2>5, <2>6, ReadersKeep
  <2>9. IndexState'
    <3>1. index.cidr = NoIndex /\ t # Nobody /\ t # "reload" /\ \A s \in Threads : s # Nobody
      BY <1>0, <1>2, EnrichAssumption DEF IndexState, Loaded, Nobody
    <3>2. \A s \in Threads : thread[s].pc # "set-cidr"
      BY <1>0, <3>1 DEF IndexState
    <3>3. \A s \in Threads : thread'[s].pc = "set-cidr" <=> index'.lock = s
      BY <2>1, <2>3, <2>4, <2>6, <3>2
    <3> QED
      BY <2>1, <2>2, <2>3, <2>4, <2>6, <3>1, <3>3 DEF IndexState
  <2>10. LookupState(t)'
    BY <2>2, <2>3, <2>6 DEF LookupState, OfOneLoad
  <2>11. Missed(t)'
    BY <1>0, <2>3, <2>6 DEF Missed, Opens
  <2>12. \A s \in Threads : s # t => LookupState(s)' /\ Missed(s)'
    BY <1>0, <1>2, <2>6, OtherLookups DEF EnrichParts
  <2> QED
    BY <2>7, <2>8, <2>9, <2>10, <2>11, <2>12 DEF EnrichParts
<1> QED
  BY <1>1, <1>2

(* The second half of the assignment, and the lock is free: the index is     *)
(* whole again.                                                              *)
LEMMA SetCidrKeeps ==
  ASSUME EnrichParts, NEW t \in Threads, SetCidr(t)
  PROVE  EnrichParts'
<1> DEFINE u == [thread[t] EXCEPT !.pc = "check"]
           x == [index EXCEPT !.cidr = thread[t].cidr, !.lock = Nobody]
<1>0. /\ EnrichTyped /\ thread[t].pc = "set-cidr" /\ DOMAIN thread = Threads
      /\ thread[t] \in ThreadType(thread[t].answer) /\ LookupState(t) /\ Missed(t) /\ IndexState
      /\ UNCHANGED <<dbs, cache, feed_file, done>> /\ index \in IndexType
      /\ thread' = [thread EXCEPT ![t] = u] /\ index' = x
  BY DEF SetCidr, EnrichParts, EnrichTyped
<1>1. /\ u \in ThreadType(u.answer) /\ u.pc = "check" /\ u.ip = thread[t].ip /\ u.cidr = thread[t].cidr
      /\ u.geo = thread[t].geo /\ u.met = thread[t].met
  BY <1>0 DEF ThreadType, ThreadPcs
<1>2. x \in IndexType /\ x.ip = index.ip /\ x.cidr = thread[t].cidr /\ x.lock = Nobody
  BY <1>0 DEF IndexType, ThreadType
<1> HIDE DEF u, x
<1>3. thread'[t] = u /\ (\A s \in Threads : s # t => thread'[s] = thread[s])
  BY <1>0
<1>4. OfOneLoad(t) /\ index.lock = t /\ index.ip = thread[t].ip /\ index.cidr = NoIndex
  BY <1>0 DEF LookupState, IndexState
<1>5. EnrichTyped'
  BY <1>0, <1>1, <1>2, <1>3 DEF EnrichTyped
<1>6. ReaderState("geo")' /\ ReaderState("asn")'
  BY <1>0, <1>1, <1>3, ReadersKeep
<1>7. IndexState'
  <2>1. \A s \in Threads : s # Nobody
    BY EnrichAssumption DEF Nobody
  <2>2. \A s \in Threads : thread'[s].pc # "set-cidr"
    BY <1>0, <1>1, <1>3, <1>4 DEF IndexState
  <2>3. Nobody # "reload"
    BY DEF Nobody
  <2> QED
    BY <1>0, <1>2, <1>4, <2>1, <2>2, <2>3 DEF IndexState, OfOneLoad
<1>8. LookupState(t)'
  BY <1>1, <1>3, <1>4 DEF LookupState, OfOneLoad
<1>9. Missed(t)'
  BY <1>0, <1>1, <1>3 DEF Missed, Opens
<1>10. \A s \in Threads : s # t => LookupState(s)' /\ Missed(s)'
  <2>1. ~ Loaded
    BY <1>4 DEF Loaded
  <2> QED
    BY <1>0, <1>3, <2>1, OtherLookups DEF EnrichParts
<1> QED
  BY <1>5, <1>6, <1>7, <1>8, <1>9, <1>10 DEF EnrichParts

(* reload_indicators: whoever is under way has met it.                       *)
LEMMA ReloadKeeps ==
  ASSUME EnrichParts, ReloadIp \/ ReloadCidr
  PROVE  EnrichParts'
<1> DEFINE mark(t) == [thread[t] EXCEPT !.reloaded = thread[t].reloaded \/ t \in Under]
<1>0. /\ EnrichTyped /\ IndexState /\ index \in IndexType /\ done \in CountsType /\ DOMAIN thread = Threads
      /\ UNCHANGED <<dbs, cache, feed_file>>
  BY DEF EnrichParts, EnrichTyped, ReloadIp, ReloadCidr
<1>1. thread' = [t \in Threads |-> mark(t)]
  BY <1>0 DEF ReloadIp, ReloadCidr
<1>2. \A t \in Threads :
        /\ thread[t] \in ThreadType(thread[t].answer)
        /\ mark(t) \in ThreadType(mark(t).answer) /\ mark(t).pc = thread[t].pc
        /\ mark(t).ip = thread[t].ip /\ mark(t).cidr = thread[t].cidr /\ mark(t).geo = thread[t].geo
        /\ mark(t).met = thread[t].met /\ mark(t).answer = thread[t].answer
        /\ mark(t).reloaded <=> thread[t].reloaded \/ t \in Under
  <2> SUFFICES ASSUME NEW t \in Threads PROVE <1>2!(t)
    OBVIOUS
  <2>1. thread[t] \in ThreadType(thread[t].answer)
    BY <1>0 DEF EnrichTyped
  <2> DEFINE b == thread[t].reloaded \/ t \in Under
  <2>2. b \in BOOLEAN
    BY <2>1 DEF ThreadType
  <2>3. mark(t) = [thread[t] EXCEPT !.reloaded = b] /\ (b <=> thread[t].reloaded \/ t \in Under)
    OBVIOUS
  <2> HIDE DEF b, mark
  <2> QED
    BY <2>1, <2>2, <2>3 DEF ThreadType
<1> HIDE DEF mark
<1>3. \A t \in Threads :
        /\ thread'[t] \in ThreadType(thread'[t].answer) /\ thread'[t].pc = thread[t].pc
        /\ thread'[t].ip = thread[t].ip /\ thread'[t].cidr = thread[t].cidr
        /\ thread'[t].geo = thread[t].geo /\ thread'[t].met = thread[t].met
        /\ thread'[t].answer = thread[t].answer
        /\ thread'[t].reloaded <=> thread[t].reloaded \/ t \in Under
  BY <1>1, <1>2
<1>4. /\ index' \in IndexType /\ done' \in CountsType
      /\ done'["geo"] = done["geo"] /\ done'["asn"] = done["asn"]
      /\ \/ index.lock = Nobody /\ index'.ip = NoIndex /\ index'.lock = "reload"
         \/ /\ index.lock = "reload" /\ index'.ip = index.ip /\ index'.cidr = NoIndex
            /\ index'.lock = Nobody
  <2>1. CASE ReloadIp
    <3>1. /\ index.lock = Nobody /\ index' = [index EXCEPT !.ip = NoIndex, !.lock = "reload"]
          /\ done' = [done EXCEPT !.reloads = done.reloads + 1]
      BY <1>0, <2>1 DEF ReloadIp, CountsType
    <3>2. index' \in IndexType /\ index'.ip = NoIndex /\ index'.lock = "reload"
      BY <1>0, <3>1 DEF IndexType
    <3>3. done' \in CountsType /\ done'["geo"] = done["geo"] /\ done'["asn"] = done["asn"]
      BY <1>0, <3>1 DEF CountsType
    <3> QED
      BY <3>1, <3>2, <3>3
  <2>2. CASE ReloadCidr
    <3>1. /\ index.lock = "reload" /\ index' = [index EXCEPT !.cidr = NoIndex, !.lock = Nobody]
          /\ done' = done
      BY <2>2 DEF ReloadCidr
    <3>2. /\ index' \in IndexType /\ index'.cidr = NoIndex /\ index'.lock = Nobody
          /\ index'.ip = index.ip
      BY <1>0, <3>1 DEF IndexType
    <3> QED
      BY <1>0, <3>1, <3>2
  <2> QED
    BY <2>1, <2>2
<1>5. EnrichTyped'
  BY <1>0, <1>1, <1>3, <1>4 DEF EnrichTyped
<1>6. ReaderState("geo")' /\ ReaderState("asn")'
  BY <1>0, <1>3, <1>4, ReadersKeep
<1>7. \A s \in Threads : s # Nobody /\ s # "reload"
  BY EnrichAssumption DEF Nobody
<1>8. IndexState'
  <2>1. \A s \in Threads : thread'[s].pc # "set-cidr"
    BY <1>0, <1>3, <1>4, <1>7 DEF IndexState
  <2>2. index.lock = "reload" => index.ip = NoIndex
    BY <1>0 DEF IndexState
  <2>3. "reload" # Nobody
    BY DEF Nobody
  <2> QED
    BY <1>4, <1>7, <2>1, <2>2, <2>3 DEF IndexState
<1>9. ASSUME NEW t \in Threads PROVE LookupState(t)'
  <2>0. LookupState(t)
    BY DEF EnrichParts
  <2>1. t \in Under <=> thread[t].pc \notin {"idle", "done", "raised"}
    BY DEF Under
  <2>2. OfOneLoad(t)' <=> OfOneLoad(t)
    BY <1>3 DEF OfOneLoad
  <2>3. CheckIp(thread'[t].ip, thread'[t].cidr) = CheckIp(thread[t].ip, thread[t].cidr)
    BY <1>3
  <2>4. CASE t \in Under
    <3>1. thread'[t].reloaded /\ thread'[t].pc # "done"
      BY <1>3, <2>1, <2>4
    <3> QED
      BY <1>3, <2>0, <2>2, <3>1 DEF LookupState
  <2>5. CASE t \notin Under
    <3>1. thread[t].pc \in {"idle", "done", "raised"} /\ (thread'[t].reloaded <=> thread[t].reloaded)
      BY <1>3, <2>1, <2>5
    <3> QED
      BY <1>3, <2>0, <2>2, <2>3, <3>1 DEF LookupState
  <2> QED
    BY <2>4, <2>5
<1>10. ASSUME NEW t \in Threads PROVE Missed(t)'
  BY <1>0, <1>3 DEF EnrichParts, Missed, Opens
<1> QED
  BY <1>5, <1>6, <1>8, <1>9, <1>10 DEF EnrichParts

(* A refresh of the files reaches no running process. *)
LEMMA RefreshFeedKeeps ==
  ASSUME EnrichParts, RefreshFeed
  PROVE  EnrichParts'
<1>0. /\ EnrichTyped /\ done \in CountsType /\ UNCHANGED <<dbs, cache, index, thread>>
      /\ done' = [done EXCEPT !.refreshes = done.refreshes + 1]
      /\ feed_file' \in Feeds \cup {{}}
  BY DEF EnrichParts, EnrichTyped, RefreshFeed, CountsType
<1>1. done' \in CountsType /\ done'["geo"] = done["geo"] /\ done'["asn"] = done["asn"]
  BY <1>0 DEF CountsType
<1>2. EnrichTyped'
  BY <1>0, <1>1 DEF EnrichTyped
<1>3. ReaderState("geo")' /\ ReaderState("asn")'
  BY <1>0, <1>1, ReadersKeep
<1>4. IndexState'
  BY <1>0 DEF EnrichParts, IndexState
<1>5. \A s \in Threads : LookupState(s)' /\ Missed(s)'
  BY <1>0, OtherLookups DEF EnrichParts
<1> QED
  BY <1>2, <1>3, <1>4, <1>5 DEF EnrichParts

LEMMA EnrichStep == EnrichParts /\ [EnrichNext]_enrichvars => EnrichParts'
<1> SUFFICES ASSUME EnrichParts, [EnrichNext]_enrichvars PROVE EnrichParts'
  OBVIOUS
<1>1. ASSUME NEW t \in Threads, ThreadStep(t) PROVE EnrichParts'
  <2>1. ASSUME NEW k \in {"geo", "asn"}, ReaderFast(t, k) \/ ReaderLock(t, k) \/ ReaderOpen(t, k)
        PROVE  EnrichParts'
    BY <2>1, ReaderFastKeeps, ReaderLockKeeps, ReaderOpenKeeps
  <2> QED
    BY <1>1, <2>1, PrefixTableKeeps, IntelFastKeeps, ReadIpKeeps, ReadCidrKeeps, IntelLockKeeps,
       SetCidrKeeps, CheckKeeps DEF ThreadStep
<1>2. ASSUME NEW t \in Threads, Begin(t) PROVE EnrichParts'
  BY <1>2, BeginKeeps
<1>3. CASE ReloadIp \/ ReloadCidr \/ RefreshFeed
  BY <1>3, ReloadKeeps, RefreshFeedKeeps
<1>4. CASE UNCHANGED enrichvars
  <2>1. UNCHANGED <<dbs, cache, index, feed_file, thread, done>>
    BY <1>4 DEF enrichvars
  <2>2. EnrichTyped'
    BY <2>1 DEF EnrichParts, EnrichTyped
  <2>3. ReaderState("geo")' /\ ReaderState("asn")'
    BY <2>1, ReadersKeep
  <2>4. IndexState'
    BY <2>1 DEF EnrichParts, IndexState
  <2>5. \A s \in Threads : LookupState(s)' /\ Missed(s)'
    BY <2>1, OtherLookups DEF EnrichParts
  <2> QED
    BY <2>2, <2>3, <2>4, <2>5 DEF EnrichParts
<1> QED
  BY <1>1, <1>2, <1>3, <1>4 DEF EnrichNext

(* check_ip: the longest prefix adds its source unless it is there already,  *)
(* so a network that is not among the tags has a better one.                 *)
LEMMA LongestPrefixCounts ==
  ASSUME NEW ip, NEW cidr, cidr # NoIndex, NEW e \in cidr.entries, Address \in e.net,
         CheckIp(ip, cidr).tags \cap {e.source} = {}
  PROVE  \E d \in cidr.entries : Address \in d.net /\ Better(d, e)
<1>1. CheckIp(ip, cidr).tags =
        Exact(ip.entries) \cup ({b.source : b \in BestNet(cidr.entries)} \ Exact(ip.entries))
  BY DEF CheckIp
<1>2. e \notin BestNet(cidr.entries)
  BY <1>1
<1> QED
  BY <1>2 DEF BestNet

(* The enrichment caches, whichever threads look up at once and whenever the *)
(* indicators are reloaded: a database is opened at most once per process, a *)
(* lookup misses a readable one only if it met the thread that was opening   *)
(* it, and the two indices it uses are of one load unless a reload came      *)
(* between.                                                                  *)
THEOREM BackendCachesAreSound == BackendSpec => []CachesAreSound
<1>1. BackendInit => EnrichParts
  BY EnrichStarts DEF BackendInit
<1>2. [BackendNext]_backvars => [EnrichNext]_enrichvars
  BY DEF BackendNext, backvars, Aggregates, ImportsLogs, Stores, Pages, Watches, Fetches, Enriches, Others
<1>3. EnrichParts => CachesAreSound
  <2> SUFFICES ASSUME EnrichParts PROVE CachesAreSound
    OBVIOUS
  <2>1. OpenedOnce
    BY DEF EnrichParts, ReaderState, OpenedOnce
  <2>2. MissesMeetTheOpener
    BY DEF EnrichParts, Missed, Opens, MissesMeetTheOpener
  <2>3. IntelIsWhole
    <3> SUFFICES ASSUME NEW t \in Threads, thread[t].pc \in {"done", "raised"}, ~ thread[t].reloaded
                 PROVE  /\ thread[t].pc = "done" /\ OfOneLoad(t)
                        /\ \A e \in thread[t].cidr.entries :
                             Address \in e.net /\ thread[t].answer.tags \cap {e.source} = {} =>
                               \E d \in thread[t].cidr.entries : Address \in d.net /\ Better(d, e)
      BY DEF IntelIsWhole, OfOneLoad
    <3>1. thread[t].pc = "done" /\ OfOneLoad(t)
      BY DEF EnrichParts, LookupState
    <3>2. thread[t].answer = CheckIp(thread[t].ip, thread[t].cidr) /\ thread[t].cidr # NoIndex
      BY <3>1 DEF EnrichParts, LookupState, OfOneLoad
    <3> QED
      BY <3>1, <3>2, LongestPrefixCounts
  <2> QED
    BY <2>1, <2>2, <2>3 DEF CachesAreSound
<1> QED
  BY <1>1, <1>2, <1>3, EnrichStep, PTL DEF BackendSpec

-----------------------------------------------------------------------------
(* The live feed.  First what is about rows and sequences alone. *)

(* Rows that Before orders. *)
Ordered(E) ==
  /\ \A e \in E : e.ts \in Int /\ e.id \in Int
  /\ \A d, e \in E : d.id = e.id => d = e

LEMMA BeforeOrders ==
  ASSUME NEW E, Ordered(E), NEW d \in E, NEW e \in E
  PROVE  /\ Before(d, e) => ~ Before(e, d)
         /\ d # e => Before(d, e) \/ Before(e, d)
         /\ \A f \in E : Before(d, e) /\ Before(e, f) => Before(d, f)
<1>1. d.ts \in Int /\ d.id \in Int /\ e.ts \in Int /\ e.id \in Int /\ (d # e => d.id # e.id)
  BY DEF Ordered
<1>2. Before(d, e) => ~ Before(e, d)
  BY <1>1 DEF Before
<1>3. d # e => Before(d, e) \/ Before(e, d)
  BY <1>1 DEF Before
<1>4. ASSUME NEW f \in E, Before(d, e), Before(e, f) PROVE Before(d, f)
  <2>1. f.ts \in Int /\ f.id \in Int
    BY DEF Ordered
  <2> QED
    BY <1>1, <1>4, <2>1 DEF Before
<1> QED
  BY <1>2, <1>3, <1>4

IsTuple(s) == s \in Seq(Range(s))

LEMMA TupleFacts ==
  ASSUME NEW s, IsTuple(s)
  PROVE  /\ Len(s) \in Nat /\ DOMAIN s = 1 .. Len(s) /\ (s = <<>> <=> Len(s) = 0)
         /\ \A S : (\A i \in DOMAIN s : s[i] \in S) => s \in Seq(S)
<1>1. Len(s) \in Nat /\ DOMAIN s = 1 .. Len(s) /\ (s = <<>> <=> Len(s) = 0)
  BY DEF IsTuple
<1>2. ASSUME NEW S, \A i \in DOMAIN s : s[i] \in S PROVE s \in Seq(S)
  BY <1>2 DEF IsTuple
<1> QED
  BY <1>1, <1>2

LEMMA TupleMember ==
  ASSUME NEW S, NEW s \in Seq(S)
  PROVE  IsTuple(s)
<1>1. \A i \in DOMAIN s : s[i] \in Range(s)
  BY DEF Range
<1> QED
  BY <1>1 DEF IsTuple

LEMMA TupleConcat ==
  ASSUME NEW a, NEW b, IsTuple(a), IsTuple(b)
  PROVE  /\ IsTuple(a \o b) /\ Len(a \o b) = Len(a) + Len(b)
         /\ \A i \in 1 .. Len(a) : (a \o b)[i] = a[i]
         /\ \A i \in 1 .. Len(b) : (a \o b)[Len(a) + i] = b[i]
<1> DEFINE S == Range(a) \cup Range(b)
<1>1. a \in Seq(S) /\ b \in Seq(S)
  <2>1. (\A i \in DOMAIN a : a[i] \in S) /\ (\A i \in DOMAIN b : b[i] \in S)
    BY DEF Range
  <2> HIDE DEF S
  <2> QED
    BY <2>1, TupleFacts
<1> HIDE DEF S
<1>2. /\ a \o b \in Seq(S) /\ Len(a \o b) = Len(a) + Len(b)
      /\ \A i \in 1 .. Len(a) + Len(b) : (a \o b)[i] = IF i <= Len(a) THEN a[i] ELSE b[i - Len(a)]
  BY <1>1, ConcatProperties
<1>3. IsTuple(a \o b)
  BY <1>2, TupleMember
<1>4. Len(a) \in Nat /\ Len(b) \in Nat
  BY <1>1
<1>5. ASSUME NEW i \in 1 .. Len(a) PROVE (a \o b)[i] = a[i]
  <2>1. i \in 1 .. Len(a) + Len(b) /\ i <= Len(a)
    BY <1>4
  <2> QED
    BY <1>2, <2>1
<1>6. ASSUME NEW i \in 1 .. Len(b) PROVE (a \o b)[Len(a) + i] = b[i]
  <2>1. Len(a) + i \in 1 .. Len(a) + Len(b) /\ ~ (Len(a) + i <= Len(a)) /\ (Len(a) + i) - Len(a) = i
    BY <1>4
  <2> QED
    BY <1>2, <2>1
<1> QED
  BY <1>2, <1>3, <1>5, <1>6

LEMMA TuplePrefix ==
  ASSUME NEW a, IsTuple(a), NEW k \in 0 .. Len(a)
  PROVE  /\ IsTuple(SubSeq(a, 1, k)) /\ Len(SubSeq(a, 1, k)) = k
         /\ \A i \in 1 .. k : SubSeq(a, 1, k)[i] = a[i]
<1>1. Len(a) \in Nat /\ DOMAIN a = 1 .. Len(a)
  BY TupleFacts
<1>2. \A i \in 1 .. k : a[i] \in Range(a)
  BY <1>1 DEF Range
<1>3. /\ SubSeq(a, 1, k) \in Seq(Range(a))
      /\ Len(SubSeq(a, 1, k)) = IF 1 <= k THEN k - 1 + 1 ELSE 0
      /\ \A i \in 1 .. k - 1 + 1 : SubSeq(a, 1, k)[i] = a[1 + i - 1]
  BY <1>1, <1>2, SubSeqProperties
<1>4. IsTuple(SubSeq(a, 1, k))
  BY <1>3, TupleMember
<1>5. k - 1 + 1 = k /\ \A i \in 1 .. k : 1 + i - 1 = i
  BY <1>1
<1>6. Len(SubSeq(a, 1, k)) = k
  BY <1>1, <1>3
<1> QED
  BY <1>3, <1>4, <1>5, <1>6

-----------------------------------------------------------------------------
(* Whole, for any set of rows; and the top of a listing, before which there  *)
(* is nothing else.                                                          *)
WholeOf(M, s) ==
  /\ \A i \in DOMAIN s : s[i] \in M
  /\ \A i, j \in DOMAIN s : i < j => Before(s[i], s[j])
  /\ s # <<>> =>
       \A e \in M : (e = s[1] \/ Before(s[1], e)) /\ Before(e, s[Len(s)]) => \E i \in DOMAIN s : s[i] = e

TopOf(M, s) ==
  /\ \A i \in DOMAIN s : s[i] \in M
  /\ \A i, j \in DOMAIN s : i < j => Before(s[i], s[j])
  /\ \A e \in M : \A k \in DOMAIN s : Before(e, s[k]) => \E i \in DOMAIN s : s[i] = e

LEMMA TopIsWhole ==
  ASSUME NEW M, NEW s, IsTuple(s), TopOf(M, s)
  PROVE  WholeOf(M, s)
<1>1. s # <<>> => Len(s) \in DOMAIN s
  BY TupleFacts
<1> QED
  BY <1>1 DEF WholeOf, TopOf

(* A row before another one has a lower place. *)
LEMMA PlaceOf ==
  ASSUME NEW M, Ordered(M), NEW s, IsTuple(s), \A i \in DOMAIN s : s[i] \in M,
         \A i, j \in DOMAIN s : i < j => Before(s[i], s[j]),
         NEW i \in DOMAIN s, NEW j \in DOMAIN s, Before(s[i], s[j])
  PROVE  i < j
<1>1. ~ Before(s[j], s[i]) /\ i # j
  BY BeforeOrders
<1>2. i \in Int /\ j \in Int
  BY TupleFacts
<1>3. ~ (j < i)
  BY <1>1
<1> QED
  BY <1>1, <1>2, <1>3

LEMMA PrefixOfTop ==
  ASSUME NEW M, Ordered(M), NEW s, IsTuple(s), TopOf(M, s), NEW k \in 0 .. Len(s)
  PROVE  TopOf(M, SubSeq(s, 1, k))
<1> DEFINE p == SubSeq(s, 1, k)
<1>1. IsTuple(p) /\ Len(p) = k /\ \A i \in 1 .. k : p[i] = s[i]
  BY TuplePrefix
<1>2. Len(s) \in Nat /\ DOMAIN s = 1 .. Len(s) /\ DOMAIN p = 1 .. k
  BY <1>1, TupleFacts
<1> HIDE DEF p
<1>3. DOMAIN p \subseteq DOMAIN s
  BY <1>2
<1>4. ASSUME NEW e \in M, NEW j \in DOMAIN p, Before(e, p[j]) PROVE \E i \in DOMAIN p : p[i] = e
  <2>1. PICK i \in DOMAIN s : s[i] = e
    BY <1>1, <1>2, <1>3, <1>4 DEF TopOf
  <2>2. Before(s[i], s[j]) /\ j \in DOMAIN s
    BY <1>1, <1>2, <1>3, <1>4, <2>1
  <2>3. i < j
    BY <2>1, <2>2, PlaceOf DEF TopOf
  <2>4. i \in DOMAIN p
    BY <1>2, <2>1, <2>3
  <2> QED
    BY <1>1, <1>2, <2>1, <2>4
<1> QED
  BY <1>1, <1>2, <1>3, <1>4 DEF TopOf, p

LEMMA PrefixOfWhole ==
  ASSUME NEW M, Ordered(M), NEW s, IsTuple(s), WholeOf(M, s), NEW k \in 0 .. Len(s)
  PROVE  WholeOf(M, SubSeq(s, 1, k))
<1> DEFINE p == SubSeq(s, 1, k)
<1>1. IsTuple(p) /\ Len(p) = k /\ \A i \in 1 .. k : p[i] = s[i]
  BY TuplePrefix
<1>2. Len(s) \in Nat /\ DOMAIN s = 1 .. Len(s) /\ DOMAIN p = 1 .. k
  BY <1>1, TupleFacts
<1> HIDE DEF p
<1>3. DOMAIN p \subseteq DOMAIN s
  BY <1>2
<1>4. ASSUME p # <<>>, NEW e \in M, e = p[1] \/ Before(p[1], e), Before(e, p[Len(p)])
      PROVE  \E i \in DOMAIN p : p[i] = e
  <2>1. k # 0 /\ 1 \in DOMAIN p /\ k \in DOMAIN p /\ s # <<>>
    BY <1>1, <1>2, <1>4, TupleFacts
  <2>2. Before(e, s[k]) /\ (e = s[1] \/ Before(s[1], e))
    BY <1>1, <1>2, <1>4, <2>1
  <2>3. Before(e, s[Len(s)])
    <3>1. CASE k = Len(s)
      BY <2>2, <3>1
    <3>2. CASE k # Len(s)
      <4>1. k < Len(s) /\ Len(s) \in DOMAIN s /\ k \in DOMAIN s
        BY <1>2, <2>1, <3>2
      <4>2. Before(s[k], s[Len(s)]) /\ s[k] \in M /\ s[Len(s)] \in M
        BY <4>1 DEF WholeOf
      <4> QED
        BY <2>2, <4>2, BeforeOrders
    <3> QED
      BY <3>1, <3>2
  <2>4. PICK i \in DOMAIN s : s[i] = e
    BY <2>1, <2>2, <2>3 DEF WholeOf
  <2>5. i < k
    BY <1>3, <2>1, <2>2, <2>4, PlaceOf DEF WholeOf
  <2>6. i \in DOMAIN p
    BY <1>2, <2>4, <2>5
  <2> QED
    BY <1>1, <1>2, <2>4, <2>6
<1>5. /\ \A i \in DOMAIN p : p[i] \in M
      /\ \A i, j \in DOMAIN p : i < j => Before(p[i], p[j])
  BY <1>1, <1>2, <1>3 DEF WholeOf
<1> QED
  BY <1>4, <1>5 DEF WholeOf, p

(* Rows that come on top of all others leave a whole part whole. *)
LEMMA WholeStays ==
  ASSUME NEW E, NEW E2, Ordered(E2), E \subseteq E2, NEW M \in SUBSET E, NEW M2 \in SUBSET E2,
         M \subseteq M2, M2 \cap E \subseteq M,
         \A e \in E2 \ E, d \in E : ~ Before(d, e),
         NEW s, IsTuple(s), WholeOf(M, s)
  PROVE  WholeOf(M2, s)
<1>1. ASSUME s # <<>>, NEW e \in M2, e = s[1] \/ Before(s[1], e), Before(e, s[Len(s)])
      PROVE  \E i \in DOMAIN s : s[i] = e
  <2>1. 1 \in DOMAIN s
    BY <1>1, TupleFacts
  <2>2. s[1] \in E
    BY <2>1 DEF WholeOf
  <2>3. e \in E
    BY <1>1, <2>2
  <2> QED
    BY <1>1, <2>3 DEF WholeOf
<1> QED
  BY <1>1 DEF WholeOf

(* What is newer than the first row shown continues it upwards. *)
LEMMA TopContinues ==
  ASSUME NEW M, Ordered(M), NEW p, IsTuple(p), TopOf(M, p), NEW r, IsTuple(r), WholeOf(M, r), r # <<>>,
         NEW at \in DOMAIN p, p[at] = r[1]
  PROVE  WholeOf(M, SubSeq(p, 1, at - 1) \o r)
<1> DEFINE q == SubSeq(p, 1, at - 1)
           s == q \o r
<1>1. Len(p) \in Nat /\ DOMAIN p = 1 .. Len(p) /\ at - 1 \in 0 .. Len(p)
  BY TupleFacts
<1>2. /\ IsTuple(q) /\ Len(q) = at - 1 /\ \A i \in 1 .. at - 1 : q[i] = p[i]
      /\ TopOf(M, q)
  BY <1>1, TuplePrefix, PrefixOfTop
<1>3. DOMAIN q = 1 .. at - 1 /\ Len(r) \in Nat /\ Len(r) > 0 /\ DOMAIN r = 1 .. Len(r)
  BY <1>2, TupleFacts
<1> HIDE DEF q
<1>4. /\ IsTuple(s) /\ Len(s) = (at - 1) + Len(r)
      /\ \A i \in 1 .. at - 1 : s[i] = q[i]
      /\ \A i \in 1 .. Len(r) : s[(at - 1) + i] = r[i]
  BY <1>2, TupleConcat
<1>5. DOMAIN s = 1 .. (at - 1) + Len(r)
  BY <1>4, TupleFacts
<1> HIDE DEF s
<1>6. \A i \in DOMAIN s : \/ i \in DOMAIN q /\ s[i] = q[i]
                          \/ /\ i - (at - 1) \in DOMAIN r /\ i \notin DOMAIN q
                             /\ s[i] = r[i - (at - 1)]
  <2> SUFFICES ASSUME NEW i \in DOMAIN s, i \notin DOMAIN q
               PROVE  i - (at - 1) \in DOMAIN r /\ s[i] = r[i - (at - 1)]
    BY <1>3, <1>4
  <2>1. i - (at - 1) \in DOMAIN r /\ (at - 1) + (i - (at - 1)) = i
    BY <1>1, <1>3, <1>5
  <2> QED
    BY <1>3, <1>4, <2>1
<1>7. \A i \in DOMAIN s : s[i] \in M
  BY <1>2, <1>6 DEF TopOf, WholeOf
<1>8. \A i \in DOMAIN q : Before(q[i], r[1])
  <2> SUFFICES ASSUME NEW i \in DOMAIN q PROVE Before(q[i], r[1])
    OBVIOUS
  <2>1. i \in DOMAIN p /\ i < at /\ q[i] = p[i]
    BY <1>1, <1>2, <1>3
  <2> QED
    BY <2>1 DEF TopOf
<1>9. \A i \in DOMAIN q, j \in DOMAIN r : Before(q[i], r[j])
  <2> SUFFICES ASSUME NEW i \in DOMAIN q, NEW j \in DOMAIN r PROVE Before(q[i], r[j])
    OBVIOUS
  <2>1. CASE j = 1
    BY <1>8, <2>1
  <2>2. CASE j # 1
    <3>1. 1 \in DOMAIN r /\ 1 < j
      BY <1>3, <2>2
    <3>2. Before(r[1], r[j]) /\ r[1] \in M /\ r[j] \in M /\ q[i] \in M
      BY <1>2, <3>1 DEF WholeOf, TopOf
    <3> QED
      BY <1>8, <3>2, BeforeOrders
  <2> QED
    BY <2>1, <2>2
<1>10. \A i, j \in DOMAIN s : i < j => Before(s[i], s[j])
  <2> SUFFICES ASSUME NEW i \in DOMAIN s, NEW j \in DOMAIN s, i < j PROVE Before(s[i], s[j])
    OBVIOUS
  <2>1. CASE j \in DOMAIN q
    <3>1. i \in DOMAIN q
      BY <1>1, <1>3, <1>5, <2>1
    <3> QED
      BY <1>2, <1>6, <2>1, <3>1 DEF TopOf
  <2>2. CASE i \in DOMAIN q /\ j \notin DOMAIN q
    BY <1>6, <1>9, <2>2
  <2>3. CASE i \notin DOMAIN q /\ j \notin DOMAIN q
    <3>1. /\ i - (at - 1) \in DOMAIN r /\ j - (at - 1) \in DOMAIN r
          /\ s[i] = r[i - (at - 1)] /\ s[j] = r[j - (at - 1)]
      BY <1>6, <2>3
    <3>2. i - (at - 1) < j - (at - 1)
      BY <1>1, <1>5
    <3> QED
      BY <3>1, <3>2 DEF WholeOf
  <2> QED
    BY <2>1, <2>2, <2>3
<1>11. ASSUME NEW e \in M, Before(e, s[Len(s)]) PROVE \E i \in DOMAIN s : s[i] = e
  <2>1. Len(s) - (at - 1) = Len(r) /\ Len(s) \in DOMAIN s /\ (at - 1) + Len(r) = Len(s)
    BY <1>1, <1>3, <1>4, <1>5
  <2>2. s[Len(s)] = r[Len(r)]
    BY <1>3, <1>4, <2>1
  <2>3. CASE Before(e, r[1])
    <3>1. PICK i \in DOMAIN p : p[i] = e
      BY <2>3 DEF TopOf
    <3>2. i < at
      BY <2>3, <3>1, PlaceOf DEF TopOf
    <3>3. i \in DOMAIN q /\ q[i] = e /\ i \in DOMAIN s
      BY <1>1, <1>2, <1>3, <1>5, <3>1, <3>2
    <3> QED
      BY <1>4, <1>3, <3>3
  <2>4. CASE ~ Before(e, r[1])
    <3>1. 1 \in DOMAIN r /\ r[1] \in M
      BY <1>3 DEF WholeOf
    <3>2. e = r[1] \/ Before(r[1], e)
      BY <2>4, <3>1, BeforeOrders
    <3>3. PICK i \in DOMAIN r : r[i] = e
      BY <1>11, <2>2, <3>2 DEF WholeOf
    <3>4. (at - 1) + i \in DOMAIN s
      BY <1>1, <1>3, <1>5, <3>3
    <3> QED
      BY <1>3, <1>4, <3>3, <3>4
  <2> QED
    BY <2>3, <2>4
<1> QED
  BY <1>7, <1>10, <1>11 DEF WholeOf, s, q

-----------------------------------------------------------------------------
(* The page and its polls *)

FeedType(f) ==
  [rows : {f.rows}, cursor : {f.cursor}, filter : {0, 1}, paused : BOOLEAN,
   overlapped : BOOLEAN, mixed : BOOLEAN, skewed : BOOLEAN]

PollType(p) == [pc : {"idle", "sent", "answered"}, cursor : {p.cursor}, filter : {0, 1}, fresh : {p.fresh}]

FeedShape ==
  /\ feed \in FeedType(feed) /\ IsTuple(feed.rows)
  /\ DOMAIN polls = Slots
  /\ \A s \in Slots : polls[s] \in PollType(polls[s]) /\ IsTuple(polls[s].fresh)

FeedParts == FeedShape /\ FeedTypeOK /\ FeedIsWhole /\ FilterKept /\ FeedIsFiltered

LEMMA EmptyIsTuple == IsTuple(<<>>) /\ Len(<<>>) = 0 /\ DOMAIN <<>> = {}
<1>1. <<>> \in Seq({}) /\ Len(<<>>) = 0 /\ DOMAIN <<>> = {}
  OBVIOUS
<1>2. IsTuple(<<>>)
  BY <1>1, TupleMember
<1> QED
  BY <1>1, <1>2

LEMMA SentIsTyped ==
  ASSUME NEW f \in {0, 1}, NEW c
  PROVE  /\ Sent(f, c) \in PollType(Sent(f, c)) /\ Sent(f, c).pc = "sent" /\ Sent(f, c).filter = f
         /\ Sent(f, c).cursor = c /\ Sent(f, c).fresh = <<>>
         /\ NoPoll \in PollType(NoPoll) /\ NoPoll.pc = "idle" /\ NoPoll.fresh = <<>>
BY DEF Sent, NoPoll, PollType

LEMMA TableIsOrdered ==
  ASSUME StoreParts
  PROVE  /\ Ordered(events) /\ \A e \in events : e.id # NoCursor
         /\ \A f : Matching(f) \in SUBSET events /\ Ordered(Matching(f))
<1>1. \A e \in events : e.ts \in Int
  BY StoreAssumption DEF StoreParts, RowsAreRows
<1>2. \A e \in events : e.id \in Int /\ e.id # NoCursor
  BY DEF StoreParts, StoreTypeOK, StoreShape, HistType, NoCursor
<1>3. Ordered(events)
  BY <1>1, <1>2 DEF Ordered, StoreParts, StoreTypeOK
<1> QED
  BY <1>2, <1>3 DEF Matching, Ordered

(* FeedIsWhole, without the primes of the table. *)
LEMMA WholeNext ==
  ASSUME UNCHANGED events,
         ~ feed'.overlapped /\ ~ feed'.skewed =>
           /\ \A s, t \in Slots : polls'[s].pc # "idle" /\ polls'[t].pc # "idle" => s = t
           /\ feed'.cursor = IF feed'.rows = <<>> THEN NoCursor ELSE feed'.rows[1].id
           /\ \A s \in Slots : polls'[s].pc # "idle" =>
                polls'[s].filter = feed'.filter /\ polls'[s].cursor = feed'.cursor
           /\ WholeOf(Matching(feed'.filter), feed'.rows)
           /\ \A s \in Slots : polls'[s].pc = "answered" =>
                WholeOf(Matching(feed'.filter), polls'[s].fresh \o feed'.rows)
  PROVE  FeedIsWhole'
<1>1. /\ Whole(feed.rows, feed.filter)' <=> WholeOf(Matching(feed'.filter), feed'.rows)
      /\ \A s \in Slots : Whole(polls[s].fresh \o feed.rows, feed.filter)'
                            <=> WholeOf(Matching(feed'.filter), polls'[s].fresh \o feed'.rows)
  BY DEF Whole, WholeOf, Matching, Before
<1> QED
  BY <1>1 DEF FeedIsWhole, Busy, NoCursor

LEMMA WholeNow ==
  ASSUME FeedIsWhole, ~ feed.overlapped, ~ feed.skewed
  PROVE  /\ \A s, t \in Slots : polls[s].pc # "idle" /\ polls[t].pc # "idle" => s = t
         /\ feed.cursor = IF feed.rows = <<>> THEN NoCursor ELSE feed.rows[1].id
         /\ \A s \in Slots : polls[s].pc # "idle" =>
              polls[s].filter = feed.filter /\ polls[s].cursor = feed.cursor
         /\ WholeOf(Matching(feed.filter), feed.rows)
         /\ \A s \in Slots : polls[s].pc = "answered" =>
              WholeOf(Matching(feed.filter), polls[s].fresh \o feed.rows)
BY DEF FeedIsWhole, Busy, Whole, WholeOf

LEMMA EmptyIsWhole == \A M : WholeOf(M, <<>>)
BY EmptyIsTuple DEF WholeOf

(* What the page does by itself: it may send a poll, and it keeps its rows   *)
(* or resets them.                                                           *)
LEMMA PageActs ==
  ASSUME FeedParts, UNCHANGED events, feed' \in FeedType(feed'),
         ~ feed'.overlapped => ~ feed.overlapped, ~ feed'.skewed => ~ feed.skewed,
         \/ polls' = polls
         \/ /\ ~ feed'.overlapped => Busy = {}
            /\ \E s \in Slots \ Busy : polls' = [polls EXCEPT ![s] = Sent(feed'.filter, feed'.cursor)],
         \/ /\ feed'.rows = feed.rows /\ feed'.cursor = feed.cursor /\ feed'.filter = feed.filter
            /\ ~ feed'.mixed => ~ feed.mixed
         \/ /\ feed'.rows = <<>> /\ feed'.cursor = NoCursor
            /\ ~ feed'.mixed => ~ feed.mixed /\ Busy = {}
            /\ ~ feed'.overlapped => Busy = {}
  PROVE  FeedParts'
<1> DEFINE keeps == /\ feed'.rows = feed.rows /\ feed'.cursor = feed.cursor /\ feed'.filter = feed.filter
                    /\ ~ feed'.mixed => ~ feed.mixed
           resets == /\ feed'.rows = <<>> /\ feed'.cursor = NoCursor
                     /\ ~ feed'.mixed => ~ feed.mixed /\ Busy = {}
                     /\ ~ feed'.overlapped => Busy = {}
<1>1. feed'.filter \in {0, 1} /\ FeedShape /\ FilterKept
  BY DEF FeedParts, FeedType
<1>2. /\ DOMAIN polls' = Slots
      /\ \A t \in Slots : \/ polls'[t] = polls[t]
                          \/ /\ polls'[t] = Sent(feed'.filter, feed'.cursor)
                             /\ ~ feed'.overlapped => Busy = {}
  BY <1>1 DEF FeedShape
<1>3. /\ Sent(feed'.filter, feed'.cursor) \in PollType(Sent(feed'.filter, feed'.cursor))
      /\ Sent(feed'.filter, feed'.cursor).pc = "sent"
      /\ Sent(feed'.filter, feed'.cursor).filter = feed'.filter
      /\ Sent(feed'.filter, feed'.cursor).cursor = feed'.cursor
      /\ Sent(feed'.filter, feed'.cursor).fresh = <<>>
  BY <1>1, SentIsTyped
<1>4. IsTuple(feed'.rows) /\ Len(feed'.rows) <= MAX_ROWS
  <2>1. CASE keeps
    BY <2>1 DEF FeedParts, FeedShape, FeedTypeOK
  <2>2. CASE resets
    BY <2>2, EmptyIsTuple, FeedAssumption
  <2> QED
    BY <2>1, <2>2
<1>5. ASSUME NEW t \in Slots
      PROVE  /\ polls'[t] \in PollType(polls'[t]) /\ IsTuple(polls'[t].fresh)
             /\ Len(polls'[t].fresh) <= LiveLimit
             /\ \A i \in DOMAIN polls'[t].fresh :
                  severity[polls'[t].fresh[i].type] >= polls'[t].filter
  <2>1. CASE polls'[t] = polls[t]
    BY <2>1 DEF FeedParts, FeedShape, FeedTypeOK, FilterKept
  <2>2. CASE polls'[t] = Sent(feed'.filter, feed'.cursor)
    BY <1>3, <2>2, EmptyIsTuple, FeedAssumption
  <2> QED
    BY <1>2, <2>1, <2>2
<1>6. FeedShape'
  BY <1>2, <1>4, <1>5 DEF FeedShape, FeedType, PollType
<1>7. FeedTypeOK'
  BY <1>4, <1>5 DEF FeedTypeOK, PollType
<1>8. FilterKept'
  <2>1. ASSUME ~ feed'.mixed, NEW t \in Slots, polls'[t].pc # "idle"
        PROVE  polls'[t].filter = feed'.filter
    BY <1>2, <1>3, <2>1 DEF FeedParts, FilterKept, Busy
  <2> QED
    BY <1>5, <2>1 DEF FilterKept, Busy, severity
<1>9. FeedIsFiltered'
  <2>1. CASE keeps
    BY <2>1 DEF FeedParts, FeedIsFiltered, severity
  <2>2. CASE resets
    BY <2>2, EmptyIsTuple DEF FeedIsFiltered
  <2> QED
    BY <2>1, <2>2
<1>10. FeedIsWhole'
  <2> SUFFICES ASSUME ~ feed'.overlapped, ~ feed'.skewed
               PROVE  /\ \A s, t \in Slots : polls'[s].pc # "idle" /\ polls'[t].pc # "idle" => s = t
                      /\ feed'.cursor = IF feed'.rows = <<>> THEN NoCursor ELSE feed'.rows[1].id
                      /\ \A s \in Slots : polls'[s].pc # "idle" =>
                           polls'[s].filter = feed'.filter /\ polls'[s].cursor = feed'.cursor
                      /\ WholeOf(Matching(feed'.filter), feed'.rows)
                      /\ \A s \in Slots : polls'[s].pc = "answered" =>
                           WholeOf(Matching(feed'.filter), polls'[s].fresh \o feed'.rows)
    BY WholeNext
  <2>1. /\ \A s, t \in Slots : polls[s].pc # "idle" /\ polls[t].pc # "idle" => s = t
        /\ feed.cursor = IF feed.rows = <<>> THEN NoCursor ELSE feed.rows[1].id
        /\ \A s \in Slots : polls[s].pc # "idle" =>
             polls[s].filter = feed.filter /\ polls[s].cursor = feed.cursor
        /\ WholeOf(Matching(feed.filter), feed.rows)
        /\ \A s \in Slots : polls[s].pc = "answered" =>
             WholeOf(Matching(feed.filter), polls[s].fresh \o feed.rows)
    BY WholeNow DEF FeedParts
  <2>2. \A s, t \in Slots : polls'[s].pc # "idle" /\ polls'[t].pc # "idle" => s = t
    <3>1. CASE polls' = polls
      BY <2>1, <3>1
    <3>2. CASE /\ Busy = {}
               /\ \E s \in Slots \ Busy : polls' = [polls EXCEPT ![s] = Sent(feed'.filter, feed'.cursor)]
      BY <1>1, <3>2 DEF Busy, FeedShape
    <3> QED
      BY <3>1, <3>2
  <2>3. /\ feed'.cursor = IF feed'.rows = <<>> THEN NoCursor ELSE feed'.rows[1].id
        /\ WholeOf(Matching(feed'.filter), feed'.rows)
    <3>1. CASE keeps
      BY <2>1, <3>1
    <3>2. CASE resets
      BY <3>2, EmptyIsWhole
    <3> QED
      BY <3>1, <3>2
  <2>4. ASSUME NEW s \in Slots, polls'[s].pc # "idle"
        PROVE  /\ polls'[s].filter = feed'.filter /\ polls'[s].cursor = feed'.cursor
               /\ polls'[s].pc = "answered" =>
                    WholeOf(Matching(feed'.filter), polls'[s].fresh \o feed'.rows)
    <3>1. CASE polls'[s] = Sent(feed'.filter, feed'.cursor)
      BY <1>3, <3>1
    <3>2. CASE polls'[s] = polls[s]
      <4>1. s \in Busy
        BY <2>4, <3>2 DEF Busy
      <4>2. keeps
        BY <4>1
      <4> QED
        BY <2>1, <2>4, <3>2, <4>2
    <3> QED
      BY <1>2, <3>1, <3>2
  <2> QED
    BY <2>2, <2>3, <2>4
<1> QED
  BY <1>6, <1>7, <1>8, <1>9, <1>10 DEF FeedParts

LEMMA PageActions ==
  ASSUME FeedParts, PollStarts \/ FilterChanges \/ TogglesPause
  PROVE  FeedParts'
<1>1. feed \in FeedType(feed)
  BY DEF FeedParts, FeedShape
<1>2. UNCHANGED events
  BY DEF PollStarts, FilterChanges, TogglesPause, queryvars, storevars
<1> DEFINE busy == Busy # {}
           over == feed.overlapped \/ busy
           mix == feed.mixed \/ busy
<1>3. CASE PollStarts
  <2>1. /\ feed' = [feed EXCEPT !.overlapped = over]
        /\ \E s \in Slots \ Busy : polls' = [polls EXCEPT ![s] = Sent(feed.filter, feed.cursor)]
    BY <1>3 DEF PollStarts
  <2>2. /\ feed' \in FeedType(feed') /\ (feed'.overlapped <=> over) /\ feed'.skewed = feed.skewed
        /\ feed'.mixed = feed.mixed /\ feed'.rows = feed.rows /\ feed'.cursor = feed.cursor
        /\ feed'.filter = feed.filter
    <3>1. over \in BOOLEAN
      OBVIOUS
    <3> HIDE DEF over
    <3> QED
      BY <1>1, <2>1, <3>1 DEF FeedType
  <2> QED
    BY <1>2, <2>1, <2>2, PageActs
<1>4. CASE FilterChanges
  <2>1. PICK f \in {0, 1} \ {feed.filter} :
          /\ IF feed.paused THEN UNCHANGED polls
             ELSE \E s \in Slots \ Busy : polls' = [polls EXCEPT ![s] = Sent(f, NoCursor)]
          /\ feed' = [feed EXCEPT !.filter = f, !.rows = <<>>, !.cursor = NoCursor,
                                  !.overlapped = over, !.mixed = mix]
    BY <1>4 DEF FilterChanges, Reset
  <2>2. /\ feed' \in FeedType(feed') /\ (feed'.overlapped <=> over) /\ feed'.skewed = feed.skewed
        /\ (feed'.mixed <=> mix) /\ feed'.rows = <<>> /\ feed'.cursor = NoCursor /\ feed'.filter = f
    <3>1. over \in BOOLEAN /\ mix \in BOOLEAN
      OBVIOUS
    <3> HIDE DEF over, mix
    <3> QED
      BY <1>1, <2>1, <3>1 DEF FeedType
  <2>3. /\ ~ feed'.overlapped => ~ feed.overlapped /\ Busy = {}
        /\ ~ feed'.mixed => ~ feed.mixed /\ Busy = {}
        /\ ~ feed'.skewed => ~ feed.skewed
    BY <2>2
  <2>4. \/ polls' = polls
        \/ /\ ~ feed'.overlapped => Busy = {}
           /\ \E s \in Slots \ Busy : polls' = [polls EXCEPT ![s] = Sent(feed'.filter, feed'.cursor)]
    BY <2>1, <2>2, <2>3
  <2>5. feed' \in FeedType(feed') /\ feed'.rows = <<>> /\ feed'.cursor = NoCursor
    BY <2>2
  <2> QED
    BY <1>2, <2>3, <2>4, <2>5, PageActs, ZenonT(40)
<1>5. CASE TogglesPause
  <2> DEFINE o == feed.overlapped \/ (feed.paused /\ busy)
             p == ~ feed.paused
  <2>1. /\ feed' = [feed EXCEPT !.paused = p, !.overlapped = o]
        /\ IF feed.paused
           THEN \E s \in Slots \ Busy : polls' = [polls EXCEPT ![s] = Sent(feed.filter, feed.cursor)]
           ELSE polls' = polls
    BY <1>5 DEF TogglesPause
  <2>2. /\ feed' \in FeedType(feed') /\ (feed'.overlapped <=> o) /\ feed'.skewed = feed.skewed
        /\ feed'.mixed = feed.mixed /\ feed'.rows = feed.rows /\ feed'.cursor = feed.cursor
        /\ feed'.filter = feed.filter
    <3>1. o \in BOOLEAN /\ p \in BOOLEAN
      OBVIOUS
    <3> HIDE DEF o, p
    <3> QED
      BY <1>1, <2>1, <3>1 DEF FeedType
  <2> QED
    BY <1>2, <2>1, <2>2, PageActs
<1> QED
  BY <1>3, <1>4, <1>5

(* live_events: the top of the listing, down to the cursor. *)
LEMMA AnswerIsTop ==
  ASSUME StoreParts, NEW f, NEW cursor, NEW listing \in Listings(Matching(f))
  PROVE  LET rows == Newest(listing)
             fresh == NewerThan(rows, cursor)
         IN  /\ IsTuple(rows) /\ TopOf(Matching(f), rows) /\ IsTuple(fresh)
             /\ Len(fresh) <= LiveLimit
             /\ \A i \in DOMAIN fresh : fresh[i] \in Matching(f)
             /\ \/ (\A i \in DOMAIN rows : rows[i].id # cursor) /\ fresh = rows
                \/ \E i \in DOMAIN rows : rows[i].id = cursor /\ fresh = SubSeq(rows, 1, i - 1)
<1> DEFINE M == Matching(f)
           n == Cardinality(M)
           k == IF Len(listing) < LiveLimit THEN Len(listing) ELSE LiveLimit
           rows == Newest(listing)
           fresh == NewerThan(rows, cursor)
           at == {i \in DOMAIN rows : rows[i].id = cursor}
<1>1. M \in SUBSET events /\ Ordered(M)
  BY TableIsOrdered
<1>2. /\ n \in Nat /\ listing \in [1 .. n -> M]
      /\ \A i, j \in 1 .. n : i < j => Before(listing[i], listing[j])
      /\ \A e \in M : \E i \in 1 .. n : listing[i] = e
  <2> HIDE DEF M
  <2>1. listing \in Listings(M)
    BY DEF M
  <2> QED
    BY <1>1, <2>1, ListingIsAll
<1> HIDE DEF M, n
<1>3. listing \in Seq(M) /\ Len(listing) = n /\ DOMAIN listing = 1 .. n
  BY <1>2
<1>4. IsTuple(listing)
  BY <1>3, TupleMember
<1>5. TopOf(M, listing)
  BY <1>2, <1>3 DEF TopOf
<1>6. k \in 0 .. Len(listing) /\ k <= LiveLimit /\ LiveLimit \in Nat /\ k \in Nat
  BY <1>2, <1>3, FeedAssumption
<1>7. rows = SubSeq(listing, 1, k)
  BY DEF Newest
<1> HIDE DEF k, rows
<1>8. IsTuple(rows) /\ Len(rows) = k /\ TopOf(M, rows)
  BY <1>1, <1>4, <1>5, <1>6, <1>7, TuplePrefix, PrefixOfTop
<1>9. CASE at = {}
  <2>1. fresh = rows /\ \A i \in DOMAIN rows : rows[i].id # cursor
    BY <1>9 DEF NewerThan
  <2> QED
    BY <1>6, <1>8, <2>1 DEF TopOf, M, rows
<1>10. CASE at # {}
  <2> DEFINE i == CHOOSE j \in at : TRUE
  <2>1. i \in at
    BY <1>10
  <2>2. fresh = SubSeq(rows, 1, i - 1)
    BY <1>10 DEF NewerThan
  <2>3. i \in DOMAIN rows /\ rows[i].id = cursor
    BY <2>1
  <2> HIDE DEF i, fresh
  <2>4. i - 1 \in 0 .. Len(rows) /\ i - 1 <= LiveLimit
    BY <1>6, <1>8, <2>3, TupleFacts
  <2>5. IsTuple(fresh) /\ Len(fresh) = i - 1 /\ TopOf(M, fresh)
    BY <1>1, <1>8, <2>2, <2>4, TuplePrefix, PrefixOfTop
  <2> QED
    BY <1>8, <2>2, <2>3, <2>4, <2>5 DEF TopOf, M, rows, fresh
<1> QED
  BY <1>9, <1>10

LEMMA AnswerKeeps ==
  ASSUME StoreParts, FeedParts, NEW s \in Slots, live_events(s)
  PROVE  FeedParts'
<1> DEFINE f == polls[s].filter
           c == polls[s].cursor
<1>1. PICK listing \in Listings(Matching(f)) :
        LET rows == Newest(listing)
            known == \E i \in DOMAIN rows : rows[i].id = c
        IN  /\ polls' = [polls EXCEPT ![s].pc = "answered", ![s].fresh = NewerThan(rows, c)]
            /\ feed' = [feed EXCEPT !.skewed = @ \/ (c # NoCursor /\ ~ known)]
  BY DEF live_events
<1> DEFINE rows == Newest(listing)
           fresh == NewerThan(rows, c)
           known == \E i \in DOMAIN rows : rows[i].id = c
           sk == feed.skewed \/ (c # NoCursor /\ ~ known)
           P == [polls[s] EXCEPT !.pc = "answered", !.fresh = fresh]
<1>2. /\ IsTuple(rows) /\ TopOf(Matching(f), rows) /\ IsTuple(fresh)
      /\ Len(fresh) <= LiveLimit
      /\ \A i \in DOMAIN fresh : fresh[i] \in Matching(f)
      /\ \/ (\A i \in DOMAIN rows : rows[i].id # c) /\ fresh = rows
         \/ \E i \in DOMAIN rows : rows[i].id = c /\ fresh = SubSeq(rows, 1, i - 1)
  BY AnswerIsTop
<1>3. /\ FeedShape /\ feed \in FeedType(feed) /\ polls[s] \in PollType(polls[s]) /\ polls[s].pc = "sent"
      /\ UNCHANGED events
  BY DEF FeedParts, FeedShape, live_events, queryvars, storevars
<1>4. feed' = [feed EXCEPT !.skewed = sk] /\ polls' = [polls EXCEPT ![s] = P]
  BY <1>1
<1>5. /\ feed' \in FeedType(feed') /\ (feed'.skewed <=> sk) /\ feed'.rows = feed.rows
      /\ feed'.cursor = feed.cursor /\ feed'.filter = feed.filter
      /\ feed'.overlapped = feed.overlapped /\ feed'.mixed = feed.mixed
  <2>1. sk \in BOOLEAN
    OBVIOUS
  <2> HIDE DEF sk
  <2> QED
    BY <1>3, <1>4, <2>1 DEF FeedType
<1>6. P \in PollType(P) /\ P.pc = "answered" /\ P.fresh = fresh /\ P.filter = f /\ P.cursor = c
  <2> HIDE DEF fresh
  <2> QED
    BY <1>3 DEF PollType
<1>7. DOMAIN polls' = Slots /\ polls'[s] = P /\ \A t \in Slots \ {s} : polls'[t] = polls[t]
  <2> HIDE DEF P
  <2> QED
    BY <1>3, <1>4 DEF FeedShape
<1> HIDE DEF P, rows, fresh
<1>8. FeedShape' /\ FeedTypeOK'
  BY <1>2, <1>3, <1>5, <1>6, <1>7 DEF FeedParts, FeedShape, FeedTypeOK, FeedType, PollType
<1>9. FilterKept' /\ FeedIsFiltered'
  <2>1. \A i \in DOMAIN P.fresh : severity[P.fresh[i].type] >= P.filter
    BY <1>2, <1>6 DEF Matching
  <2>2. \A t \in Slots : \A i \in DOMAIN polls'[t].fresh :
          severity[polls'[t].fresh[i].type] >= polls'[t].filter
    BY <1>7, <2>1 DEF FeedParts, FilterKept
  <2>3. ASSUME ~ feed'.mixed, NEW t \in Slots, polls'[t].pc # "idle"
        PROVE  polls'[t].filter = feed'.filter
    BY <1>3, <1>5, <1>6, <1>7, <2>3 DEF FeedParts, FilterKept, Busy
  <2>4. FilterKept'
    BY <2>2, <2>3 DEF FilterKept, Busy, severity
  <2>5. FeedIsFiltered'
    BY <1>5 DEF FeedParts, FeedIsFiltered, severity
  <2> QED
    BY <2>4, <2>5
<1>10. FeedIsWhole'
  <2> SUFFICES ASSUME ~ feed'.overlapped, ~ feed'.skewed
               PROVE  /\ \A q, t \in Slots : polls'[q].pc # "idle" /\ polls'[t].pc # "idle" => q = t
                      /\ feed'.cursor = IF feed'.rows = <<>> THEN NoCursor ELSE feed'.rows[1].id
                      /\ \A q \in Slots : polls'[q].pc # "idle" =>
                           polls'[q].filter = feed'.filter /\ polls'[q].cursor = feed'.cursor
                      /\ WholeOf(Matching(feed'.filter), feed'.rows)
                      /\ \A q \in Slots : polls'[q].pc = "answered" =>
                           WholeOf(Matching(feed'.filter), polls'[q].fresh \o feed'.rows)
    BY <1>3, WholeNext
  <2>1. /\ \A q, t \in Slots : polls[q].pc # "idle" /\ polls[t].pc # "idle" => q = t
        /\ feed.cursor = IF feed.rows = <<>> THEN NoCursor ELSE feed.rows[1].id
        /\ \A q \in Slots : polls[q].pc # "idle" =>
             polls[q].filter = feed.filter /\ polls[q].cursor = feed.cursor
        /\ WholeOf(Matching(feed.filter), feed.rows)
    BY <1>5, WholeNow DEF FeedParts
  <2>2. f = feed.filter /\ c = feed.cursor /\ (c = NoCursor \/ known)
    BY <1>3, <1>5, <2>1 DEF rows
  <2>3. \A q \in Slots \ {s} : polls'[q].pc = "idle"
    BY <1>3, <1>7, <2>1
  <2>4. WholeOf(Matching(f), fresh \o feed.rows)
    <3>0. /\ Ordered(events) /\ \A e \in events : e.id # NoCursor
      BY TableIsOrdered
    <3>00. Matching(f) \in SUBSET events /\ Ordered(Matching(f))
      BY TableIsOrdered
    <3>1. CASE feed.rows = <<>>
      <4>1. \A i \in DOMAIN rows : rows[i].id # c
        BY <1>2, <2>1, <2>2, <3>0, <3>00, <3>1 DEF TopOf
      <4>2. fresh = rows
        BY <1>2, <4>1
      <4>3. fresh \o feed.rows = fresh
        BY <1>2, <3>1, ConcatEmptySeq DEF IsTuple
      <4> QED
        BY <1>2, <4>2, <4>3, TopIsWhole
    <3>2. CASE feed.rows # <<>>
      <4>1. IsTuple(feed.rows) /\ 1 \in DOMAIN feed.rows
        BY <1>3, <3>2, TupleFacts DEF FeedShape
      <4>2. feed.rows[1] \in Matching(f) /\ c = feed.rows[1].id
        BY <2>1, <2>2, <3>2, <4>1 DEF WholeOf
      <4>3. c # NoCursor
        BY <3>0, <3>00, <4>2
      <4>4. PICK i \in DOMAIN rows : rows[i].id = c /\ fresh = SubSeq(rows, 1, i - 1)
        BY <1>2, <2>2, <4>3 DEF rows
      <4>5. rows[i] = feed.rows[1]
        BY <1>2, <3>00, <4>2, <4>4 DEF TopOf, Ordered
      <4> QED
        BY <1>2, <2>1, <2>2, <3>00, <3>2, <4>1, <4>4, <4>5, TopContinues
    <3> QED
      BY <3>1, <3>2
  <2>5. \A q, t \in Slots : polls'[q].pc # "idle" /\ polls'[t].pc # "idle" => q = t
    BY <2>3
  <2>6. ASSUME NEW q \in Slots, polls'[q].pc # "idle"
        PROVE  /\ polls'[q].filter = feed'.filter /\ polls'[q].cursor = feed'.cursor
               /\ WholeOf(Matching(feed'.filter), polls'[q].fresh \o feed'.rows)
    <3>1. q = s
      BY <2>3, <2>6
    <3> QED
      BY <1>5, <1>6, <1>7, <2>2, <2>4, <3>1
  <2>7. /\ feed'.cursor = IF feed'.rows = <<>> THEN NoCursor ELSE feed'.rows[1].id
        /\ WholeOf(Matching(feed'.filter), feed'.rows)
    BY <1>5, <2>1
  <2> QED
    BY <2>5, <2>6, <2>7
<1> QED
  BY <1>8, <1>9, <1>10 DEF FeedParts

(* The answer is applied, or the poll has failed. *)
LEMMA PollEnds ==
  ASSUME StoreParts, FeedParts, NEW s \in Slots, PollApplies(s) \/ PollFails(s)
  PROVE  FeedParts'
<1> DEFINE fresh == polls[s].fresh
           all == fresh \o feed.rows
           k == IF Len(all) < MAX_ROWS THEN Len(all) ELSE MAX_ROWS
<1>1. /\ FeedShape /\ feed \in FeedType(feed) /\ UNCHANGED events
      /\ polls' = [polls EXCEPT ![s] = NoPoll]
      /\ \/ feed' = feed
         \/ /\ polls[s].pc = "answered" /\ fresh # <<>>
            /\ feed' = [feed EXCEPT !.cursor = fresh[1].id, !.rows = SubSeq(all, 1, k)]
  BY DEF FeedParts, FeedShape, PollApplies, PollFails, queryvars, storevars, NextCursor, Kept
<1>2. DOMAIN polls' = Slots /\ polls'[s] = NoPoll /\ \A t \in Slots \ {s} : polls'[t] = polls[t]
  BY <1>1 DEF FeedShape
<1>3. NoPoll \in PollType(NoPoll) /\ NoPoll.pc = "idle" /\ NoPoll.fresh = <<>>
  BY SentIsTyped
<1>4. ASSUME NEW t \in Slots
      PROVE  /\ polls'[t] \in PollType(polls'[t]) /\ IsTuple(polls'[t].fresh)
             /\ Len(polls'[t].fresh) <= LiveLimit
             /\ \A i \in DOMAIN polls'[t].fresh :
                  severity[polls'[t].fresh[i].type] >= polls'[t].filter
             /\ polls'[t].pc # "idle" => t # s /\ polls'[t] = polls[t]
  <2>1. CASE t = s
    BY <1>2, <1>3, <2>1, EmptyIsTuple, FeedAssumption
  <2>2. CASE t # s
    BY <1>2, <2>2 DEF FeedParts, FeedShape, FeedTypeOK, FilterKept
  <2> QED
    BY <2>1, <2>2
<1>5. /\ IsTuple(fresh) /\ IsTuple(feed.rows) /\ IsTuple(all) /\ Len(all) = Len(fresh) + Len(feed.rows)
      /\ \A i \in 1 .. Len(fresh) : all[i] = fresh[i]
      /\ \A i \in 1 .. Len(feed.rows) : all[Len(fresh) + i] = feed.rows[i]
  <2>1. IsTuple(fresh) /\ IsTuple(feed.rows)
    BY <1>1 DEF FeedShape
  <2> HIDE DEF fresh
  <2> QED
    BY <2>1, TupleConcat
<1>6. /\ Len(fresh) \in Nat /\ Len(feed.rows) \in Nat /\ Len(all) \in Nat
      /\ DOMAIN fresh = 1 .. Len(fresh) /\ DOMAIN feed.rows = 1 .. Len(feed.rows)
      /\ DOMAIN all = 1 .. Len(all) /\ (fresh = <<>> <=> Len(fresh) = 0)
  BY <1>5, TupleFacts
<1>7. k \in 0 .. Len(all) /\ k <= MAX_ROWS /\ k \in Nat /\ (fresh # <<>> => k >= 1)
  <2> HIDE DEF all, fresh
  <2> QED
    BY <1>5, <1>6, FeedAssumption
<1> HIDE DEF fresh, all, k
<1>8. /\ IsTuple(SubSeq(all, 1, k)) /\ Len(SubSeq(all, 1, k)) = k
      /\ \A i \in 1 .. k : SubSeq(all, 1, k)[i] = all[i]
  BY <1>5, <1>7, TuplePrefix
<1>9. CASE feed' = feed
  <2>1. FeedShape' /\ FeedTypeOK'
    BY <1>1, <1>2, <1>4, <1>9 DEF FeedParts, FeedShape, FeedTypeOK, PollType, FeedType
  <2>2. FilterKept' /\ FeedIsFiltered'
    BY <1>4, <1>9 DEF FeedParts, FilterKept, FeedIsFiltered, Busy, severity
  <2>3. FeedIsWhole'
    <3>1. ASSUME ~ feed.overlapped, ~ feed.skewed
          PROVE  /\ \A q, t \in Slots : polls[q].pc # "idle" /\ polls[t].pc # "idle" => q = t
                 /\ feed.cursor = IF feed.rows = <<>> THEN NoCursor ELSE feed.rows[1].id
                 /\ \A q \in Slots : polls[q].pc # "idle" =>
                      polls[q].filter = feed.filter /\ polls[q].cursor = feed.cursor
                 /\ WholeOf(Matching(feed.filter), feed.rows)
                 /\ \A q \in Slots : polls[q].pc = "answered" =>
                      WholeOf(Matching(feed.filter), polls[q].fresh \o feed.rows)
      BY <3>1, WholeNow DEF FeedParts
    <3> QED
      BY <1>1, <1>4, <1>9, <3>1, WholeNext
  <2> QED
    BY <2>1, <2>2, <2>3 DEF FeedParts
<1>10. CASE /\ polls[s].pc = "answered" /\ fresh # <<>>
            /\ feed' = [feed EXCEPT !.cursor = fresh[1].id, !.rows = SubSeq(all, 1, k)]
  <2> DEFINE rows == SubSeq(all, 1, k)
  <2>1. /\ feed' \in FeedType(feed') /\ feed'.rows = rows /\ feed'.cursor = fresh[1].id
        /\ feed'.filter = feed.filter /\ feed'.overlapped = feed.overlapped
        /\ feed'.mixed = feed.mixed /\ feed'.skewed = feed.skewed
    BY <1>1, <1>10 DEF FeedType
  <2>2. IsTuple(rows) /\ Len(rows) = k /\ DOMAIN rows = 1 .. k /\ \A i \in 1 .. k : rows[i] = all[i]
    BY <1>8, TupleFacts
  <2> HIDE DEF rows
  <2>3. FeedShape' /\ FeedTypeOK'
    BY <1>2, <1>4, <1>7, <2>1, <2>2 DEF FeedParts, FeedShape, FeedTypeOK, PollType, FeedType
  <2>4. ASSUME ~ feed.mixed, NEW i \in DOMAIN all PROVE severity[all[i].type] >= feed.filter
    <3>1. polls[s].filter = feed.filter
      BY <1>10, <2>4 DEF FeedParts, FilterKept, Busy
    <3>2. CASE i <= Len(fresh)
      <4>1. i \in DOMAIN fresh /\ all[i] = fresh[i]
        BY <1>5, <1>6, <3>2
      <4> QED
        BY <3>1, <4>1 DEF FeedParts, FilterKept, fresh
    <3>3. CASE ~ (i <= Len(fresh))
      <4>1. i - Len(fresh) \in 1 .. Len(feed.rows) /\ Len(fresh) + (i - Len(fresh)) = i
        BY <1>5, <1>6, <3>3
      <4>2. all[i] = feed.rows[i - Len(fresh)] /\ i - Len(fresh) \in DOMAIN feed.rows
        BY <1>5, <1>6, <4>1
      <4> QED
        BY <2>4, <4>2 DEF FeedParts, FeedIsFiltered
    <3> QED
      BY <3>2, <3>3
  <2>5. FeedIsFiltered'
    <3>1. ASSUME ~ feed'.mixed, NEW i \in DOMAIN feed'.rows
          PROVE  severity[feed'.rows[i].type] >= feed'.filter
      <4>1. i \in DOMAIN all /\ feed'.rows[i] = all[i]
        BY <1>6, <1>7, <2>1, <2>2, <3>1
      <4> QED
        BY <2>1, <2>4, <3>1, <4>1
    <3> QED
      BY <3>1 DEF FeedIsFiltered, severity
  <2>6. FilterKept'
    BY <1>4, <2>1 DEF FeedParts, FilterKept, Busy, severity
  <2>7. FeedIsWhole'
    <3> SUFFICES ASSUME ~ feed'.overlapped, ~ feed'.skewed
                 PROVE  /\ \A q \in Slots : polls'[q].pc = "idle"
                        /\ feed'.rows # <<>> /\ feed'.cursor = feed'.rows[1].id
                        /\ WholeOf(Matching(feed'.filter), feed'.rows)
      BY <1>1, WholeNext
    <3>1. /\ \A q, t \in Slots : polls[q].pc # "idle" /\ polls[t].pc # "idle" => q = t
          /\ \A q \in Slots : polls[q].pc = "answered" =>
               WholeOf(Matching(feed.filter), polls[q].fresh \o feed.rows)
      BY <2>1, WholeNow DEF FeedParts
    <3>2. \A q \in Slots : polls'[q].pc = "idle"
      BY <1>2, <1>3, <1>10, <3>1
    <3>3. WholeOf(Matching(feed.filter), all)
      BY <1>10, <3>1 DEF all, fresh
    <3>4. Ordered(Matching(feed.filter))
      BY TableIsOrdered
    <3>5. WholeOf(Matching(feed.filter), rows)
      BY <1>5, <1>7, <3>3, <3>4, PrefixOfWhole DEF rows
    <3>6. k >= 1 /\ 1 \in 1 .. k /\ 1 \in 1 .. Len(fresh)
      BY <1>6, <1>7, <1>10
    <3>7. rows # <<>> /\ rows[1] = fresh[1]
      BY <1>5, <2>2, <3>6, TupleFacts
    <3> QED
      BY <2>1, <3>2, <3>5, <3>7
  <2> QED
    BY <2>3, <2>5, <2>6, <2>7 DEF FeedParts
<1> QED
  BY <1>1, <1>9, <1>10 DEF fresh, all, k


(* The rows of the table that a filter lets through, in any state. *)
Through(E, f) == {e \in E : severity[e.type] >= f}

LEMMA WholeThen ==
  ASSUME ~ feed'.overlapped /\ ~ feed'.skewed =>
           /\ \A s, t \in Slots : polls'[s].pc # "idle" /\ polls'[t].pc # "idle" => s = t
           /\ feed'.cursor = IF feed'.rows = <<>> THEN NoCursor ELSE feed'.rows[1].id
           /\ \A s \in Slots : polls'[s].pc # "idle" =>
                polls'[s].filter = feed'.filter /\ polls'[s].cursor = feed'.cursor
           /\ WholeOf(Through(events', feed'.filter), feed'.rows)
           /\ \A s \in Slots : polls'[s].pc = "answered" =>
                WholeOf(Through(events', feed'.filter), polls'[s].fresh \o feed'.rows)
  PROVE  FeedIsWhole'
<1>1. /\ Whole(feed.rows, feed.filter)' <=> WholeOf(Through(events', feed'.filter), feed'.rows)
      /\ \A s \in Slots : Whole(polls[s].fresh \o feed.rows, feed.filter)'
                            <=> WholeOf(Through(events', feed'.filter), polls'[s].fresh \o feed'.rows)
  BY DEF Whole, WholeOf, Matching, Through, severity, Before
<1> QED
  BY <1>1 DEF FeedIsWhole, Busy, NoCursor

(* The others write to the tables while the page is watched. *)
LEMMA FeedSeesKeeps ==
  ASSUME StoreParts, StoreParts', FeedParts, FeedSees
  PROVE  FeedParts'
<1> DEFINE sk == feed.skewed \/ events \ events' # {} \/ \E e \in events' \ events, d \in events : Before(d, e)
<1>1. /\ FeedShape /\ feed \in FeedType(feed) /\ polls' = polls
      /\ feed' = [feed EXCEPT !.skewed = sk]
  BY DEF FeedParts, FeedShape, FeedSees
<1>2. /\ feed' \in FeedType(feed') /\ (feed'.skewed <=> sk) /\ feed'.rows = feed.rows
      /\ feed'.cursor = feed.cursor /\ feed'.filter = feed.filter
      /\ feed'.overlapped = feed.overlapped /\ feed'.mixed = feed.mixed
  <2>1. sk \in BOOLEAN
    OBVIOUS
  <2> HIDE DEF sk
  <2> QED
    BY <1>1, <2>1 DEF FeedType
<1>3. FeedShape' /\ FeedTypeOK' /\ FilterKept' /\ FeedIsFiltered'
  <2>1. FeedShape' /\ FeedTypeOK'
    BY <1>1, <1>2 DEF FeedParts, FeedShape, FeedTypeOK, PollType, FeedType
  <2>2. FilterKept' /\ FeedIsFiltered'
    BY <1>1, <1>2 DEF FeedParts, FilterKept, FeedIsFiltered, Busy, severity
  <2> QED
    BY <2>1, <2>2
<1>4. FeedIsWhole'
  <2> DEFINE M == Through(events, feed.filter)
             M2 == Through(events', feed.filter)
  <2>1. M = Matching(feed.filter)
    BY DEF Matching, Through
  <2>2. M \in SUBSET events /\ M2 \in SUBSET events' /\ M2 \cap events \subseteq M
    BY DEF Through
  <2>3. Ordered(events')
    <3>1. Ordered(events)'
      BY TableIsOrdered, PTL
    <3> QED
      BY <3>1 DEF Ordered
  <2>4. ASSUME ~ feed'.overlapped, ~ feed'.skewed
        PROVE  /\ \A s, t \in Slots : polls[s].pc # "idle" /\ polls[t].pc # "idle" => s = t
               /\ feed.cursor = IF feed.rows = <<>> THEN NoCursor ELSE feed.rows[1].id
               /\ \A s \in Slots : polls[s].pc # "idle" =>
                    polls[s].filter = feed.filter /\ polls[s].cursor = feed.cursor
               /\ WholeOf(M2, feed.rows)
               /\ \A s \in Slots : polls[s].pc = "answered" => WholeOf(M2, polls[s].fresh \o feed.rows)
    <3>1. ~ feed.overlapped /\ ~ feed.skewed
      BY <1>2, <2>4
    <3>2. events \subseteq events' /\ \A e \in events' \ events, d \in events : ~ Before(d, e)
      BY <1>2, <2>4
    <3>3. M \subseteq M2
      BY <3>2 DEF Through
    <3> HIDE DEF M, M2
    <3>4. \A r : IsTuple(r) /\ WholeOf(M, r) => WholeOf(M2, r)
      BY <2>2, <2>3, <3>2, <3>3, WholeStays
    <3>5. /\ \A s, t \in Slots : polls[s].pc # "idle" /\ polls[t].pc # "idle" => s = t
          /\ feed.cursor = IF feed.rows = <<>> THEN NoCursor ELSE feed.rows[1].id
          /\ \A s \in Slots : polls[s].pc # "idle" =>
               polls[s].filter = feed.filter /\ polls[s].cursor = feed.cursor
          /\ WholeOf(M, feed.rows)
          /\ \A s \in Slots : polls[s].pc = "answered" => WholeOf(M, polls[s].fresh \o feed.rows)
      BY <2>1, <3>1, WholeNow DEF FeedParts
    <3>6. IsTuple(feed.rows) /\ \A s \in Slots : IsTuple(polls[s].fresh \o feed.rows)
      BY <1>1, TupleConcat DEF FeedShape
    <3> QED
      BY <3>4, <3>5, <3>6
  <2> QED
    BY <1>1, <1>2, <2>4, WholeThen
<1> QED
  BY <1>3, <1>4 DEF FeedParts

(* Nothing is polled under another topic. *)
FeedElsewhere == topic # "feed" => feed.rows = <<>> /\ \A s \in Slots : polls[s].pc # "answered"

(* A page that shows nothing and has no answer is right about any table. *)
LEMMA EmptyPageKeeps ==
  ASSUME FeedParts, UNCHANGED feedvars, feed.rows = <<>>, \A s \in Slots : polls[s].pc # "answered"
  PROVE  FeedParts'
<1>1. feed' = feed /\ polls' = polls
  BY DEF feedvars
<1>2. FeedShape' /\ FeedTypeOK' /\ FilterKept' /\ FeedIsFiltered'
  BY <1>1 DEF FeedParts, FeedShape, FeedTypeOK, PollType, FeedType, FilterKept, FeedIsFiltered, Busy, severity
<1>3. FeedIsWhole'
  <2>1. ASSUME ~ feed.overlapped, ~ feed.skewed
        PROVE  /\ \A q, t \in Slots : polls[q].pc # "idle" /\ polls[t].pc # "idle" => q = t
               /\ feed.cursor = IF feed.rows = <<>> THEN NoCursor ELSE feed.rows[1].id
               /\ \A q \in Slots : polls[q].pc # "idle" =>
                    polls[q].filter = feed.filter /\ polls[q].cursor = feed.cursor
    BY <2>1, WholeNow DEF FeedParts
  <2> QED
    BY <1>1, <2>1, EmptyIsWhole, WholeThen
<1> QED
  BY <1>2, <1>3 DEF FeedParts

LEMMA FeedStarts ==
  ASSUME FeedInit
  PROVE  FeedParts /\ FeedElsewhere
<1> DEFINE rec == [rows |-> <<>>, cursor |-> NoCursor, filter |-> 0, paused |-> FALSE,
                   overlapped |-> FALSE, mixed |-> FALSE, skewed |-> FALSE]
<1>1. feed = rec /\ polls = [s \in Slots |-> IF s = FirstSlot THEN Sent(0, NoCursor) ELSE NoPoll]
  BY DEF FeedInit
<1>2. /\ feed \in FeedType(feed) /\ feed.rows = <<>> /\ feed.cursor = NoCursor /\ feed.filter = 0
  BY <1>1 DEF FeedType
<1>3. ASSUME NEW s \in Slots
      PROVE  /\ polls[s] \in PollType(polls[s]) /\ polls[s].fresh = <<>> /\ polls[s].pc # "answered"
             /\ polls[s].pc # "idle" => s = FirstSlot /\ polls[s].filter = 0 /\ polls[s].cursor = NoCursor
  <2>1. polls[s] = Sent(0, NoCursor) \/ polls[s] = NoPoll
    BY <1>1
  <2>2. polls[s] = Sent(0, NoCursor) => s = FirstSlot
    BY <1>1, SentIsTyped
  <2> QED
    BY <2>1, <2>2, SentIsTyped
<1>4. FeedShape /\ FeedTypeOK
  BY <1>1, <1>2, <1>3, EmptyIsTuple, FeedAssumption DEF FeedShape, FeedTypeOK, PollType
<1>5. FilterKept /\ FeedIsFiltered
  BY <1>2, <1>3, EmptyIsTuple DEF FilterKept, FeedIsFiltered, Busy
<1>6. FeedIsWhole
  <2>1. Whole(<<>>, 0)
    BY EmptyIsTuple DEF Whole
  <2> QED
    BY <1>2, <1>3, <2>1 DEF FeedIsWhole, Busy
<1> QED
  BY <1>2, <1>3, <1>4, <1>5, <1>6 DEF FeedParts, FeedElsewhere

LEMMA FeedStep ==
  ASSUME StoreParts, StoreParts', FeedParts, FeedElsewhere, [BackendNext]_backvars
  PROVE  FeedParts' /\ FeedElsewhere'
<1>1. CASE UNCHANGED <<feedvars, topic>> /\ topic # "feed"
  BY <1>1, EmptyPageKeeps DEF FeedElsewhere, feedvars
<1>2. CASE Watches
  <2>1. topic' = "feed"
    BY <1>2 DEF Watches, Others
  <2>2. FeedParts'
    <3>1. FeedSees \/ FeedNext
      BY <1>2 DEF Watches
    <3>2. CASE FeedSees
      BY <3>2, FeedSeesKeeps
    <3>3. CASE FeedNext
      <4>1. CASE PollStarts \/ FilterChanges \/ TogglesPause
        BY <4>1, PageActions
      <4>2. CASE \E s \in Slots : live_events(s)
        BY <4>2, AnswerKeeps
      <4>3. CASE \E s \in Slots : PollApplies(s) \/ PollFails(s)
        BY <4>3, PollEnds
      <4> QED
        BY <3>3, <4>1, <4>2, <4>3 DEF FeedNext
    <3> QED
      BY <3>1, <3>2, <3>3
  <2> QED
    BY <2>1, <2>2 DEF FeedElsewhere
<1>3. CASE UNCHANGED backvars /\ topic = "feed"
  <2>1. UNCHANGED <<feedvars, events, topic>>
    <3>1. UNCHANGED <<topic, queryvars, feedvars>>
      BY <1>3, SMTT(20) DEF backvars
    <3> QED
      BY <3>1 DEF queryvars, storevars
  <2>2. FeedParts'
    <3>1. feed' = feed /\ polls' = polls /\ events' = events
      BY <2>1 DEF feedvars
    <3> QED
      BY <3>1 DEF FeedParts, FeedShape, FeedTypeOK, PollType, FeedType, FilterKept, FeedIsFiltered, Busy,
                  severity, FeedIsWhole, Whole, Matching, Before, NoCursor
  <2> QED
    BY <1>3, <2>1, <2>2 DEF FeedElsewhere
<1>4. \/ UNCHANGED <<feedvars, topic>> /\ topic # "feed"
      \/ Watches
      \/ UNCHANGED backvars /\ topic = "feed"
  BY DEF BackendNext, Aggregates, ImportsLogs, Stores, Pages, Fetches, Enriches, Others, backvars
<1> QED
  BY <1>1, <1>2, <1>3, <1>4

LEMMA FeedPartsAreFaithful ==
  ASSUME StoreParts, FeedParts
  PROVE  FeedIsFaithful
<1>1. FeedTypeOK /\ FeedIsFiltered
  BY DEF FeedParts
<1>2. FeedHasNoHoles
  BY DEF FeedParts, FeedIsWhole, Whole, FeedHasNoHoles
<1>3. FeedShowsOnce
  <2> SUFFICES ASSUME ~ feed.overlapped, ~ feed.skewed, NEW i \in DOMAIN feed.rows,
                      NEW j \in DOMAIN feed.rows, feed.rows[i].id = feed.rows[j].id
               PROVE  i = j
    BY DEF FeedShowsOnce
  <2>1. Ordered(Matching(feed.filter)) /\ WholeOf(Matching(feed.filter), feed.rows)
    BY TableIsOrdered, WholeNow DEF FeedParts
  <2>2. feed.rows[i] = feed.rows[j]
    BY <2>1 DEF Ordered, WholeOf
  <2>3. ~ (i < j) /\ ~ (j < i)
    BY <2>1, <2>2, BeforeOrders DEF WholeOf
  <2>4. i \in Int /\ j \in Int
    BY TupleFacts DEF FeedParts, FeedShape
  <2> QED
    BY <2>3, <2>4
<1> QED
  BY <1>1, <1>2, <1>3 DEF FeedIsFaithful

(* The live feed under every interleaving of its polls, failures, filters    *)
(* and pauses with what is written to the table: a row is shown once, in     *)
(* order and without holes, unless polls overlapped or rows were deleted,    *)
(* late or too many, and never below the filter unless it changed under way. *)
THEOREM BackendFeedIsFaithful == BackendSpec => []FeedIsFaithful
<1>1. BackendInit => StoreParts /\ FeedParts /\ FeedElsewhere
  BY StoreStarts, FeedStarts DEF BackendInit
<1>2. StoreParts /\ [BackendNext]_backvars => StoreParts'
  BY StoreStep, BackendIsStore
<1>3. StoreParts /\ FeedParts /\ FeedElsewhere /\ [BackendNext]_backvars
        => StoreParts' /\ FeedParts' /\ FeedElsewhere'
  BY <1>2, FeedStep
<1> QED
  BY <1>1, <1>3, FeedPartsAreFaithful, PTL DEF BackendSpec

=============================================================================
