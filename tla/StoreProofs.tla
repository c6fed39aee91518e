---------------------------- MODULE StoreProofs -----------------------------
(***************************************************************************)
(* Proofs about the tables and the queries of Backend, for every set of    *)
(* connections, bodies and bounds: the derived tables tell the truth       *)
(* unless rows changed behind them, a batch is lost only after a purge,    *)
(* and paging misses no row.                                               *)
(***************************************************************************)
EXTENDS Backend, FiniteSetTheorems, SequenceTheorems, TLAPS

(* The shape of the records the actions update. *)
HistType ==
  [next : Nat, imports : Nat, purges : Nat, rebuilds : Nat, stale : SUBSET Ips,
   lost : BOOLEAN, orphaned : SUBSET Conns, taken : BOOLEAN, purged : BOOLEAN]

BuildType(rows) ==
  [pc : {"idle", "due", "scan", "flush"}, ips : SUBSET Ips, existing : SUBSET Ips, rows : {rows},
   dirty : SUBSET Ips]

StoreShape ==
  /\ hist \in HistType /\ DOMAIN build = Builders
  /\ \A b \in Builders : build[b] \in BuildType(build[b].rows)
  /\ \A sha \in DOMAIN payloads : payloads[sha].event_count \in Nat

StoreParts ==
  /\ StoreShape /\ StoreTypeOK /\ RowsAreRows /\ TruthUnlessStale /\ RollupsAreSightings
  /\ BuildsAreRight /\ LiveHasSessions /\ LossNeedsPurge

-----------------------------------------------------------------------------
(* Operators *)

(* A set of integers that is bounded has a largest element: otherwise the    *)
(* successor would map those below some element into fewer.                  *)
LEMMA BoundedMax ==
  ASSUME NEW n \in Int, NEW m \in Int, NEW T \in SUBSET (m .. n), T # {}
  PROVE  \E x \in T : \A y \in T : x >= y
<1> SUFFICES ASSUME \A x \in T : \E y \in T : ~ (x >= y) PROVE FALSE
  OBVIOUS
<1> DEFINE D == {k \in m .. n : \E x \in T : x >= k}
           f == [k \in D |-> k + 1]
<1>1. IsFiniteSet(m .. n)
  BY FS_Interval
<1>2. IsFiniteSet(D) /\ m \in D
  <2>1. D \in SUBSET (m .. n)
    OBVIOUS
  <2>2. PICK x \in T : TRUE
    OBVIOUS
  <2>3. x \in m .. n /\ x >= m /\ m \in m .. n
    BY <2>2
  <2>4. m \in D
    BY <2>2, <2>3
  <2>5. IsFiniteSet(D)
    <3> HIDE DEF D
    <3> QED
      BY <1>1, <2>1, FS_Subset
  <2> QED
    BY <2>4, <2>5
<1>3. /\ IsFiniteSet(D \ {m}) /\ Cardinality(D \ {m}) = Cardinality(D) - 1
      /\ Cardinality(D) \in Nat
  BY <1>2, FS_RemoveElement, FS_CardinalityType
<1>4. ASSUME NEW k \in D PROVE k + 1 \in D \ {m}
  <2>1. PICK x \in T : x >= k
    OBVIOUS
  <2>2. PICK y \in T : ~ (x >= y)
    OBVIOUS
  <2>3. y >= k + 1
    BY <2>1, <2>2
  <2> QED
    BY <2>3
<1>5. f \in [D -> D \ {m}]
  BY <1>4
<1>6. Cardinality(D \ {m}) < Cardinality(D)
  BY <1>3
<1>7. \E x, y \in D : x # y /\ f[x] = f[y]
  <2> HIDE DEF D, f
  <2> QED
    BY <1>2, <1>3, <1>5, <1>6, FS_PigeonHole
<1> QED
  BY <1>7

LEMMA MaxIsThere ==
  ASSUME NEW n \in Int, NEW m \in Int, NEW T \in SUBSET (m .. n), T # {}
  PROVE  Max(T) \in T /\ \A y \in T : Max(T) >= y
BY BoundedMax DEF Max

(* What analyze_payload_file stores of a payload: as many sightings as the   *)
(* table has, the last of them.                                              *)
LEMMA RollupIsTrue ==
  ASSUME RowsAreRows, NEW sha
  PROVE  /\ Rollup(sha).event_count = Cardinality(Sightings(sha))
         /\ Rollup(sha).event_count \in Nat
         /\ Rollup(sha).event_count > 0 => \E e \in Sightings(sha) : e.ts = Rollup(sha).last_seen
<1> DEFINE S == Sightings(sha)
           T == {0 - 1} \cup {e.ts : e \in S}
<1>1. Rollup(sha).event_count = Cardinality(S) /\ Rollup(sha).last_seen = Max(T)
  BY DEF Rollup
<1>2. IsFiniteSet(S) /\ Cardinality(S) \in Nat
  <2>1. S \in SUBSET events
    BY DEF Sightings
  <2> QED
    BY <2>1, FS_Subset, FS_CardinalityType DEF RowsAreRows
<1>3. T \in SUBSET ((0 - 1) .. (MaxTime + 1)) /\ T # {} /\ MaxTime + 1 \in Int /\ 0 - 1 \in Int
  BY StoreAssumption DEF Sightings, RowsAreRows
<1>4. Max(T) \in T /\ \A y \in T : Max(T) >= y
  <2> HIDE DEF T
  <2> QED
    BY <1>3, MaxIsThere
<1>5. ASSUME Cardinality(S) > 0 PROVE \E e \in S : e.ts = Max(T)
  <2>1. S # {}
    BY <1>5, FS_EmptySet
  <2>2. PICK e \in S : TRUE
    BY <2>1
  <2>3. e.ts \in T /\ e.ts >= 0 /\ e.ts \in Int
    BY <2>2, StoreAssumption DEF Sightings, RowsAreRows
  <2>4. Max(T) # 0 - 1
    <3> HIDE DEF T
    <3>1. Max(T) >= e.ts
      BY <1>4, <2>3
    <3> QED
      BY <2>3, <3>1
  <2> QED
    BY <1>4, <2>4
<1> QED
  BY <1>1, <1>2, <1>5

(* Rows that come leave a roll-up behind, never ahead.                       *)
LEMMA RollupsLag ==
  ASSUME RollupsAreSightings, StoreShape, RowsAreRows', events \subseteq events',
         UNCHANGED payloads, hist'.purged = hist.purged
  PROVE  RollupsAreSightings'
<1> SUFFICES ASSUME ~ hist.purged, NEW sha \in DOMAIN payloads
             PROVE  /\ payloads[sha].event_count <= Cardinality(Sightings(sha)')
                    /\ payloads[sha].event_count > 0 =>
                         \E e \in Sightings(sha)' : e.ts = payloads[sha].last_seen
  BY DEF RollupsAreSightings
<1> DEFINE S == Sightings(sha)
           U == Sightings(sha)'
<1>1. S \in SUBSET U /\ U \in SUBSET events' /\ IsFiniteSet(events')
  BY DEF Sightings, RowsAreRows
<1>2. IsFiniteSet(U)
  BY <1>1, FS_Subset
<1>3. Cardinality(S) <= Cardinality(U) /\ Cardinality(S) \in Nat /\ Cardinality(U) \in Nat
  <2> HIDE DEF S, U
  <2> QED
    BY <1>1, <1>2, FS_Subset, FS_CardinalityType
<1>4. /\ payloads[sha].event_count <= Cardinality(S) /\ payloads[sha].event_count \in Nat
      /\ payloads[sha].event_count > 0 => \E e \in S : e.ts = payloads[sha].last_seen
  BY DEF RollupsAreSightings, StoreShape
<1> QED
  BY <1>1, <1>3, <1>4

(* The rows of some addresses change, and every rebuild that has read them   *)
(* is told, or begins anew.                                                  *)
BuildsTyped == DOMAIN build = Builders /\ \A b \in Builders : build[b] \in BuildType(build[b].rows)

LEMMA ChangedIsTold ==
  ASSUME BuildsTyped, BuildsAreRight, NEW ips \in SUBSET Ips, DOMAIN build' = Builders,
         \A b \in Builders : \/ build'[b] = After(build[b], ips)
                             \/ build'[b] \in BuildType(build'[b].rows) /\ build'[b].pc # "flush",
         \A ip \in Ips \ ips : Group(ip)' = Group(ip)
  PROVE  BuildsAreRight' /\ BuildsTyped'
<1>1. ASSUME NEW b \in Builders, build'[b] = After(build[b], ips)
      PROVE  /\ build'[b] \in BuildType(build'[b].rows)
             /\ build'[b].pc = build[b].pc /\ build'[b].ips = build[b].ips
             /\ build'[b].rows = build[b].rows
             /\ build[b].pc = "flush" => build'[b].dirty = build[b].dirty \cup ips
  <2> DEFINE d == IF build[b].pc = "flush" THEN build[b].dirty \cup ips ELSE build[b].dirty
  <2>1. build[b] \in BuildType(build[b].rows)
    BY DEF BuildsTyped
  <2>2. d \in SUBSET Ips /\ (build[b].pc = "flush" => d = build[b].dirty \cup ips)
    BY <2>1 DEF BuildType
  <2>3. build'[b] = [build[b] EXCEPT !.dirty = d]
    BY <1>1 DEF After
  <2> HIDE DEF d
  <2> QED
    BY <2>1, <2>2, <2>3 DEF BuildType
<1>2. ASSUME NEW b \in Builders
      PROVE  /\ build'[b].ips \subseteq Ips
             /\ build'[b].pc = "flush" =>
                  /\ DOMAIN build'[b].rows \subseteq Ips
                  /\ \A ip \in DOMAIN build'[b].rows \ build'[b].dirty :
                       Group(ip)' # {} /\ build'[b].rows[ip] = Aggregate(Group(ip)')
  <2>1. CASE build'[b] = After(build[b], ips)
    BY <1>1, <2>1 DEF BuildsAreRight
  <2>2. CASE build'[b] \in BuildType(build'[b].rows) /\ build'[b].pc # "flush"
    BY <2>2 DEF BuildType
  <2> QED
    BY <2>1, <2>2
<1>3. BuildsAreRight'
  BY <1>2 DEF BuildsAreRight, Aggregate
<1>4. BuildsTyped'
  BY <1>1 DEF BuildsTyped
<1> QED
  BY <1>3, <1>4

(* An aggregate is true while the rows of its address are the same.          *)
LEMMA TruthStays ==
  ASSUME TruthUnlessStale, UNCHANGED attackers, hist.stale \subseteq hist'.stale,
         \A ip \in Ips \ hist'.stale : Group(ip)' = Group(ip)
  PROVE  TruthUnlessStale'
<1> SUFFICES ASSUME NEW ip \in Ips \ hist'.stale
             PROVE  IF Group(ip)' = {} THEN ip \notin DOMAIN attackers
                    ELSE ip \in DOMAIN attackers /\ attackers[ip] = Aggregate(Group(ip)')
  BY DEF TruthUnlessStale, Group
<1>1. Group(ip)' = Group(ip) /\ ip \in Ips \ hist.stale
  OBVIOUS
<1> QED
  BY <1>1 DEF TruthUnlessStale, Group

-----------------------------------------------------------------------------
(* Rows come: a batch of the logger, or an import. *)

NewRows(new) ==
  /\ IsFiniteSet(new)
  /\ \A e \in new : /\ e.session \in Conns /\ e.ip = IpOf[e.session] /\ e.ts \in 0 .. MaxTime + 1
                    /\ e.type \in {"connect", "auth", "upload", "disconnect"}
                    /\ e.id \in hist.next + 1 .. hist.next + Cardinality(new)
  /\ \A d, e \in new : d.id = e.id => d = e

LEMMA RowsCome ==
  ASSUME StoreParts, NEW new, NewRows(new), events' = events \cup new,
         DOMAIN sessions \subseteq DOMAIN sessions', DOMAIN sessions' \subseteq Conns,
         {e.session : e \in new} \subseteq DOMAIN sessions',
         hist'.next = hist.next + Cardinality(new), hist'.purged = hist.purged,
         UNCHANGED <<clock, attackers, payloads>>, disk \subseteq disk'
  PROVE  /\ StoreTypeOK' /\ RowsAreRows' /\ RollupsAreSightings'
         /\ {e.ip : e \in new} \in SUBSET Ips
         /\ \A ip \in Ips \ {e.ip : e \in new} : Group(ip)' = Group(ip)
<1>1. RowsAreRows'
  <2>1. IsFiniteSet(events')
    BY FS_Union DEF StoreParts, RowsAreRows, NewRows
  <2> QED
    BY <2>1 DEF StoreParts, RowsAreRows, NewRows
<1>2. Cardinality(new) \in Nat /\ hist.next \in Nat
  BY FS_CardinalityType DEF NewRows, StoreParts, StoreShape, HistType
<1>3. \A e \in events' : e.id \in 1 .. hist'.next /\ e.session \in DOMAIN sessions'
  <2> SUFFICES ASSUME NEW e \in events'
               PROVE  e.id \in 1 .. hist'.next /\ e.session \in DOMAIN sessions'
    OBVIOUS
  <2>1. CASE e \in events
    <3>1. e.id \in 1 .. hist.next /\ e.session \in DOMAIN sessions
      BY <2>1 DEF StoreParts, StoreTypeOK
    <3> QED
      BY <1>2, <3>1
  <2>2. CASE e \in new
    <3>1. e.id \in hist.next + 1 .. hist.next + Cardinality(new)
      BY <2>2 DEF NewRows
    <3> QED
      BY <1>2, <2>2, <3>1
  <2> QED
    BY <2>1, <2>2
<1>4. \A d, e \in events' : d.id = e.id => d = e
  <2>1. ASSUME NEW d \in events, NEW e \in new PROVE d.id # e.id
    <3>1. d.id \in 1 .. hist.next /\ e.id \in hist.next + 1 .. hist.next + Cardinality(new)
      BY DEF StoreParts, StoreTypeOK, NewRows
    <3> QED
      BY <1>2, <3>1
  <2> QED
    BY <2>1 DEF StoreParts, StoreTypeOK, NewRows
<1>5. StoreTypeOK'
  BY <1>3, <1>4 DEF StoreParts, StoreTypeOK
<1>6. RollupsAreSightings'
  BY <1>1, RollupsLag DEF StoreParts
<1> QED
  BY <1>1, <1>5, <1>6 DEF NewRows, Ips, Group

LEMMA BatchKeeps ==
  ASSUME StoreParts, NEW new, NewRows(new), NEW upserts \in SUBSET Conns, NEW starts,
         WriteDb(new, upserts, starts),
         {e.session : e \in new} \ upserts \subseteq DOMAIN live,
         DOMAIN live' \subseteq DOMAIN live \cup upserts,
         UNCHANGED <<clock, attackers, payloads>>, disk \subseteq disk'
  PROVE  StoreParts'
<1> DEFINE cs == {e.session : e \in new}
           ips == {e.ip : e \in new}
           n == hist.next + Cardinality(new)
<1>1. hist \in HistType /\ n \in Nat /\ ips \in SUBSET Ips
  BY FS_CardinalityType DEF StoreParts, StoreShape, HistType, NewRows, Ips
<1>2. CASE cs \subseteq Parents(upserts)
  <2> DEFINE st == hist.stale \cup ips
  <2>1. /\ events' = events \cup new /\ DOMAIN sessions' = DOMAIN sessions \cup upserts
        /\ hist' = [hist EXCEPT !.next = n, !.stale = st] /\ Changed(ips)
    BY <1>2 DEF WriteDb
  <2>2. st \in SUBSET Ips
    BY <1>1 DEF HistType
  <2>3. /\ hist' \in HistType /\ hist'.next = n /\ hist'.stale = st /\ hist'.purged = hist.purged
        /\ hist'.orphaned = hist.orphaned /\ hist'.lost = hist.lost
    <3> HIDE DEF n, st
    <3> QED
      BY <1>1, <2>1, <2>2 DEF HistType
  <2>4. cs \subseteq DOMAIN sessions' /\ DOMAIN sessions' \subseteq Conns
    BY <1>2, <2>1 DEF Parents, StoreParts, StoreTypeOK
  <2>5. /\ StoreTypeOK' /\ RowsAreRows' /\ RollupsAreSightings'
        /\ \A ip \in Ips \ ips : Group(ip)' = Group(ip)
    BY <2>1, <2>3, <2>4, RowsCome
  <2>6. TruthUnlessStale'
    BY <2>3, <2>5, TruthStays DEF StoreParts
  <2>7. DOMAIN build' = Builders /\ \A b \in Builders : build'[b] = After(build[b], ips)
    BY <2>1 DEF Changed
  <2>8. BuildsAreRight' /\ BuildsTyped'
    BY <1>1, <2>5, <2>7, ChangedIsTold DEF StoreParts, StoreShape, BuildsTyped
  <2>9. LiveHasSessions' /\ LossNeedsPurge'
    BY <2>1, <2>3 DEF StoreParts, LiveHasSessions, LossNeedsPurge
  <2>10. StoreShape'
    BY <2>3, <2>8 DEF StoreParts, StoreShape, BuildsTyped
  <2> QED
    BY <2>5, <2>6, <2>8, <2>9, <2>10 DEF StoreParts
<1>3. CASE ~ (cs \subseteq Parents(upserts))
  <2>1. /\ hist' = [hist EXCEPT !.next = n, !.lost = TRUE]
        /\ UNCHANGED <<events, sessions, build>>
    BY <1>3 DEF WriteDb
  <2>2. /\ hist' \in HistType /\ hist'.next = n /\ hist'.stale = hist.stale
        /\ hist'.purged = hist.purged /\ hist'.orphaned = hist.orphaned
    <3> HIDE DEF n
    <3> QED
      BY <1>1, <2>1 DEF HistType
  <2>3. hist.orphaned # {}
    BY <1>3 DEF Parents, StoreParts, LiveHasSessions
  <2>4. hist.next \in Nat /\ Cardinality(new) \in Nat
    BY FS_CardinalityType DEF StoreParts, StoreShape, HistType, NewRows
  <2>5. \A e \in events : e.id \in 1 .. hist'.next
    <3> SUFFICES ASSUME NEW e \in events PROVE e.id \in 1 .. hist'.next
      OBVIOUS
    <3>1. e.id \in 1 .. hist.next
      BY DEF StoreParts, StoreTypeOK
    <3> QED
      BY <2>2, <2>4, <3>1
  <2>6. StoreTypeOK' /\ StoreShape' /\ RowsAreRows'
    BY <2>1, <2>2, <2>5 DEF StoreParts, StoreTypeOK, StoreShape, RowsAreRows
  <2>7. TruthUnlessStale' /\ RollupsAreSightings'
    BY <2>1, <2>2 DEF StoreParts, TruthUnlessStale, RollupsAreSightings, Group, Sightings, Aggregate
  <2>8. BuildsAreRight'
    BY <2>1 DEF StoreParts, BuildsAreRight, Group, Aggregate
  <2>9. LiveHasSessions' /\ LossNeedsPurge'
    BY <2>2, <2>3 DEF StoreParts, LiveHasSessions, LossNeedsPurge
  <2> QED
    BY <2>6, <2>7, <2>8, <2>9 DEF StoreParts
<1> QED
  BY <1>2, <1>3

(* One row of a connection, with the next id. *)
LEMMA OneRow ==
  ASSUME StoreParts, NEW c \in Conns, NEW t \in 0 .. MaxTime + 1, NEW sha,
         NEW type \in {"connect", "auth", "upload", "disconnect"},
         NEW r, r = Row(hist.next + 1, t, c, type, sha)
  PROVE  /\ NewRows({r}) /\ Cardinality({r}) = 1
         /\ {e.session : e \in {r}} = {c} /\ {e.ip : e \in {r}} = {IpOf[c]}
<1>1. hist.next \in Nat
  BY DEF StoreParts, StoreShape, HistType
<1>2. r.id = hist.next + 1 /\ r.session = c /\ r.ip = IpOf[c] /\ r.ts = t /\ r.type = type
  BY DEF Row
<1>3. IsFiniteSet({r}) /\ Cardinality({r}) = 1
  BY FS_Singleton
<1>4. r.id \in hist.next + 1 .. hist.next + Cardinality({r})
  BY <1>1, <1>2, <1>3
<1>5. NewRows({r})
  BY <1>2, <1>3, <1>4 DEF NewRows
<1>6. {e.session : e \in {r}} = {c} /\ {e.ip : e \in {r}} = {IpOf[c]}
  BY <1>2
<1> QED
  BY <1>3, <1>5, <1>6

(* open() may share its batch with an event of another connection. *)
LEMMA TwoRows ==
  ASSUME StoreParts, NEW c \in Conns, NEW d \in Conns
  PROVE  LET new == {Row(hist.next + 1, clock, c, "connect", NoSha)}
                      \cup {Row(hist.next + 2, clock, d, "auth", NoSha)}
         IN  NewRows(new) /\ {e.session : e \in new} = {c, d}
<1> DEFINE r == Row(hist.next + 1, clock, c, "connect", NoSha)
           s == Row(hist.next + 2, clock, d, "auth", NoSha)
           new == {r} \cup {s}
<1>1. hist.next \in Nat /\ clock \in 0 .. MaxTime + 1
  BY StoreAssumption DEF StoreParts, StoreShape, HistType, StoreTypeOK
<1>2. /\ r.id = hist.next + 1 /\ r.session = c /\ r.ip = IpOf[c] /\ r.ts = clock /\ r.type = "connect"
      /\ s.id = hist.next + 2 /\ s.session = d /\ s.ip = IpOf[d] /\ s.ts = clock /\ s.type = "auth"
  BY DEF Row
<1> HIDE DEF r, s
<1>3. r.id # s.id
  BY <1>1, <1>2
<1>4. IsFiniteSet({r}) /\ Cardinality({r}) = 1 /\ s \notin {r} /\ new = {r} \cup {s}
  BY <1>3, FS_Singleton
<1>5. IsFiniteSet(new) /\ Cardinality(new) = 2
  <2>1. IsFiniteSet({r} \cup {s}) /\ Cardinality({r} \cup {s}) = Cardinality({r}) + 1
    BY <1>4, FS_AddElement
  <2> QED
    BY <1>4, <2>1
<1>6. \A e \in new : e.id \in hist.next + 1 .. hist.next + Cardinality(new)
  BY <1>1, <1>2, <1>5
<1>7. NewRows(new)
  <2>1. \A e \in new : /\ e.session \in Conns /\ e.ip = IpOf[e.session] /\ e.ts \in 0 .. MaxTime + 1
                       /\ e.type \in {"connect", "auth", "upload", "disconnect"}
    BY <1>1, <1>2
  <2>2. \A x, y \in new : x.id = y.id => x = y
    BY <1>3
  <2> QED
    BY <1>5, <1>6, <2>1, <2>2 DEF NewRows
<1>8. {e.session : e \in new} = {c, d}
  BY <1>2
<1> QED
  BY <1>7, <1>8 DEF r, s

LEMMA ConnOpensKeeps ==
  ASSUME StoreParts, NEW c \in Conns, ConnOpens(c)
  PROVE  StoreParts'
<1>1. PICK others \in {{}} \cup {{d} : d \in DOMAIN live} :
        /\ live' = Put(live, c, clock)
        /\ WriteDb({Row(hist.next + 1, clock, c, "connect", NoSha)}
                     \cup {Row(hist.next + 2, clock, d, "auth", NoSha) : d \in others}, {c}, live')
  BY DEF ConnOpens
<1>2. UNCHANGED <<clock, attackers, payloads, disk>> /\ DOMAIN live' = DOMAIN live \cup {c}
  BY <1>1 DEF ConnOpens, Put
<1>3. clock \in 0 .. MaxTime + 1 /\ DOMAIN live \subseteq Conns
  BY StoreAssumption DEF StoreParts, StoreTypeOK, LiveHasSessions
<1> DEFINE r == Row(hist.next + 1, clock, c, "connect", NoSha)
<1>4. CASE others = {}
  <2>1. NewRows({r}) /\ {e.session : e \in {r}} = {c}
    <3>1. r = Row(hist.next + 1, clock, c, "connect", NoSha)
      OBVIOUS
    <3> HIDE DEF r
    <3> QED
      BY <1>3, <3>1, OneRow
  <2>2. WriteDb({r}, {c}, live')
    <3>1. {r} \cup {Row(hist.next + 2, clock, d, "auth", NoSha) : d \in others} = {r}
      BY <1>4
    <3> QED
      BY <1>1, <3>1
  <2> HIDE DEF r
  <2> QED
    BY <1>2, <2>1, <2>2, BatchKeeps
<1>5. CASE others # {}
  <2>1. PICK d \in DOMAIN live : others = {d}
    BY <1>5
  <2> DEFINE s == Row(hist.next + 2, clock, d, "auth", NoSha)
  <2>2. d \in Conns
    BY <1>3
  <2>3. NewRows({r} \cup {s}) /\ {e.session : e \in {r} \cup {s}} = {c, d}
    BY <2>2, TwoRows
  <2>4. WriteDb({r} \cup {s}, {c}, live')
    <3>1. {Row(hist.next + 2, clock, x, "auth", NoSha) : x \in others} = {s}
      BY <2>1
    <3> QED
      BY <1>1, <3>1
  <2> HIDE DEF r, s
  <2> QED
    BY <1>2, <2>3, <2>4, BatchKeeps
<1> QED
  BY <1>4, <1>5

LEMMA ConnRecordsKeeps ==
  ASSUME StoreParts, NEW c \in Conns, NEW sha, ConnRecords(c, sha)
  PROVE  StoreParts'
<1> DEFINE type == IF sha = NoSha THEN "auth" ELSE "upload"
           r == Row(hist.next + 1, clock, c, type, sha)
<1>1. /\ WriteDb({r}, {}, live) /\ c \in DOMAIN live
      /\ UNCHANGED <<clock, attackers, payloads, live>> /\ disk \subseteq disk'
  BY DEF ConnRecords
<1>2. clock \in 0 .. MaxTime + 1
  BY StoreAssumption DEF StoreParts, StoreTypeOK
<1>3. NewRows({r}) /\ {e.session : e \in {r}} = {c}
  <2>1. r = Row(hist.next + 1, clock, c, "auth", sha) \/ r = Row(hist.next + 1, clock, c, "upload", sha)
    OBVIOUS
  <2> HIDE DEF r
  <2>2. CASE r = Row(hist.next + 1, clock, c, "auth", sha)
    BY <1>2, <2>2, OneRow
  <2>3. CASE r = Row(hist.next + 1, clock, c, "upload", sha)
    BY <1>2, <2>3, OneRow
  <2> QED
    BY <2>1, <2>2, <2>3
<1> HIDE DEF r
<1> QED
  BY <1>1, <1>3, BatchKeeps

LEMMA ConnClosesKeeps ==
  ASSUME StoreParts, NEW c \in Conns, ConnCloses(c)
  PROVE  StoreParts'
<1> DEFINE r == Row(hist.next + 1, clock, c, "disconnect", NoSha)
<1>1. /\ WriteDb({r}, {c}, live) /\ DOMAIN live' \subseteq DOMAIN live
      /\ UNCHANGED <<clock, attackers, payloads, disk>>
  BY DEF ConnCloses, Without
<1>2. clock \in 0 .. MaxTime + 1
  BY StoreAssumption DEF StoreParts, StoreTypeOK
<1>3. NewRows({r}) /\ {e.session : e \in {r}} = {c}
  <2>1. r = Row(hist.next + 1, clock, c, "disconnect", NoSha)
    OBVIOUS
  <2> HIDE DEF r
  <2> QED
    BY <1>2, <2>1, OneRow
<1> HIDE DEF r
<1> QED
  BY <1>1, <1>3, BatchKeeps

LEMMA ImportKeeps ==
  ASSUME StoreParts, NEW c \in Conns, NEW t \in 0 .. clock + 1, Import(c, t)
  PROVE  StoreParts'
<1> DEFINE r == Row(hist.next + 1, t, c, "auth", NoSha)
           n == hist.next + 1
           i == hist.imports + 1
           st == hist.stale \cup {IpOf[c]}
<1>1. t \in 0 .. MaxTime + 1
  BY StoreAssumption DEF StoreParts, StoreTypeOK
<1>2. /\ NewRows({r}) /\ Cardinality({r}) = 1 /\ {e.session : e \in {r}} = {c}
      /\ {e.ip : e \in {r}} = {IpOf[c]}
  <2>1. r = Row(hist.next + 1, t, c, "auth", NoSha)
    OBVIOUS
  <2> HIDE DEF r
  <2> QED
    BY <1>1, <2>1, OneRow
<1>3. /\ events' = events \cup {r} /\ DOMAIN sessions' = DOMAIN sessions \cup {c}
      /\ UNCHANGED <<clock, attackers, payloads, disk, live>>
  BY DEF Import, Put
<1>4. n \in Nat /\ i \in Nat /\ st \in SUBSET Ips /\ hist \in HistType
  BY DEF StoreParts, StoreShape, HistType, Ips
<1>5. hist' = [hist EXCEPT !.next = n, !.imports = i, !.stale = st]
  BY DEF Import
<1>6. /\ hist' \in HistType /\ hist'.next = n /\ hist'.stale = st /\ hist'.purged = hist.purged
      /\ hist'.orphaned = hist.orphaned /\ hist'.lost = hist.lost
  <2> HIDE DEF n, i, st
  <2> QED
    BY <1>4, <1>5 DEF HistType
<1> HIDE DEF r
<1>7. /\ StoreTypeOK' /\ RowsAreRows' /\ RollupsAreSightings'
      /\ \A ip \in Ips \ {IpOf[c]} : Group(ip)' = Group(ip)
  <2>1. DOMAIN sessions' \subseteq Conns
    BY <1>3 DEF StoreParts, StoreTypeOK
  <2>2. hist'.next = hist.next + Cardinality({r})
    BY <1>2, <1>6
  <2> QED
    BY <1>2, <1>3, <1>6, <2>1, <2>2, RowsCome
<1>8. TruthUnlessStale'
  BY <1>3, <1>6, <1>7, TruthStays DEF StoreParts
<1>9. BuildsAreRight' /\ BuildsTyped'
  <2>1. {IpOf[c]} \in SUBSET Ips
    BY DEF Ips
  <2>2. build' = [b \in Builders |->
                    IF b = "import" THEN [Idle EXCEPT !.pc = "due", !.ips = {IpOf[c]}]
                    ELSE After(build[b], {IpOf[c]})]
    BY DEF Import
  <2>3. build'["import"] = [Idle EXCEPT !.pc = "due", !.ips = {IpOf[c]}] /\ DOMAIN build' = Builders
    BY <2>2 DEF Builders
  <2>4. build'["import"] \in BuildType(build'["import"].rows) /\ build'["import"].pc # "flush"
    BY <2>1, <2>3 DEF Idle, BuildType
  <2>5. \A b \in Builders : \/ build'[b] = After(build[b], {IpOf[c]})
                            \/ build'[b] \in BuildType(build'[b].rows) /\ build'[b].pc # "flush"
    BY <2>2, <2>4
  <2> QED
    BY <1>7, <2>1, <2>3, <2>5, ChangedIsTold DEF StoreParts, StoreShape, BuildsTyped
<1>10. LiveHasSessions' /\ LossNeedsPurge'
  BY <1>3, <1>6 DEF StoreParts, LiveHasSessions, LossNeedsPurge
<1>11. StoreShape'
  BY <1>3, <1>6, <1>9 DEF StoreParts, StoreShape, BuildsTyped
<1> QED
  BY <1>7, <1>8, <1>9, <1>10, <1>11 DEF StoreParts

-----------------------------------------------------------------------------
(* The rebuild *)

(* Only the derived table and its rebuilds change. *)
SourcesStay ==
  /\ UNCHANGED <<clock, events, sessions, payloads, disk, live>>
  /\ hist' \in HistType /\ DOMAIN attackers' \subseteq Ips
  /\ hist'.next = hist.next /\ hist'.purged = hist.purged
  /\ hist'.orphaned = hist.orphaned /\ hist'.lost = hist.lost

LEMMA DerivedKeeps ==
  ASSUME StoreParts, SourcesStay, TruthUnlessStale', BuildsAreRight', BuildsTyped'
  PROVE  StoreParts'
<1>1. StoreShape' /\ StoreTypeOK' /\ RowsAreRows'
  BY DEF SourcesStay, StoreParts, StoreShape, StoreTypeOK, RowsAreRows, BuildsTyped
<1>2. RollupsAreSightings' /\ LiveHasSessions' /\ LossNeedsPurge'
  BY DEF SourcesStay, StoreParts, RollupsAreSightings, Sightings, LiveHasSessions, LossNeedsPurge
<1> QED
  BY <1>1, <1>2 DEF StoreParts

(* A rebuild begins, ends or is given up. *)
LEMMA BuildsStay ==
  ASSUME BuildsTyped, BuildsAreRight, UNCHANGED events, DOMAIN build' = Builders,
         \A b \in Builders : \/ build'[b] = build[b]
                             \/ build'[b] \in BuildType(build'[b].rows) /\ build'[b].pc # "flush"
  PROVE  BuildsAreRight' /\ BuildsTyped'
<1>1. BuildsTyped'
  BY DEF BuildsTyped
<1>2. ASSUME NEW b \in Builders
      PROVE  /\ build'[b].ips \subseteq Ips
             /\ build'[b].pc = "flush" => build'[b] = build[b]
  BY DEF BuildType, BuildsAreRight
<1>3. \A ip : Group(ip)' = Group(ip)
  BY DEF Group
<1> QED
  BY <1>1, <1>2, <1>3 DEF BuildsAreRight, Aggregate

LEMMA IdleIsTyped ==
  /\ Idle \in BuildType(Idle.rows) /\ Idle.pc # "flush"
  /\ \A ips \in SUBSET Ips, existing \in SUBSET Ips :
       LET scan == [Idle EXCEPT !.pc = "scan", !.ips = ips, !.existing = existing]
       IN  scan \in BuildType(scan.rows) /\ scan.pc # "flush"
BY DEF Idle, BuildType

LEMMA RebuildStartKeeps ==
  ASSUME StoreParts, NEW b \in Builders, NEW ips \in SUBSET Ips, RebuildStart(b, ips)
  PROVE  StoreParts'
<1> DEFINE n == hist.rebuilds + 1
           scan == [Idle EXCEPT !.pc = "scan", !.ips = ips, !.existing = DOMAIN attackers \cap ips]
<1>1. n \in Nat /\ hist \in HistType /\ BuildsTyped
  BY DEF StoreParts, StoreShape, HistType, BuildsTyped
<1>2. /\ hist' = [hist EXCEPT !.rebuilds = n] /\ build' = [build EXCEPT ![b] = scan]
      /\ UNCHANGED <<clock, events, sessions, attackers, payloads, disk, live>>
  BY DEF RebuildStart
<1>3. scan \in BuildType(scan.rows) /\ scan.pc # "flush"
  BY IdleIsTyped
<1>4. SourcesStay /\ hist'.stale = hist.stale
  <2> HIDE DEF n
  <2> QED
    BY <1>1, <1>2 DEF HistType, SourcesStay, StoreParts, StoreTypeOK
<1>5. TruthUnlessStale'
  BY <1>2, <1>4, TruthStays DEF StoreParts, Group
<1>6. BuildsAreRight' /\ BuildsTyped'
  <2> HIDE DEF scan
  <2>1. DOMAIN build' = Builders /\ build'[b] = scan /\ \A c \in Builders \ {b} : build'[c] = build[c]
    BY <1>1, <1>2 DEF BuildsTyped
  <2>2. \A c \in Builders : \/ build'[c] = build[c]
                            \/ build'[c] \in BuildType(build'[c].rows) /\ build'[c].pc # "flush"
    BY <1>3, <2>1
  <2> QED
    BY <1>1, <1>2, <2>1, <2>2, BuildsStay DEF StoreParts
<1> QED
  BY <1>4, <1>5, <1>6, DerivedKeeps

LEMMA ImportRebuildsKeeps ==
  ASSUME StoreParts, ImportRebuilds
  PROVE  StoreParts'
<1> DEFINE i == build["import"]
           scan == [i EXCEPT !.pc = "scan", !.existing = DOMAIN attackers \cap i.ips]
<1>1. BuildsTyped /\ i \in BuildType(i.rows) /\ hist \in HistType
  BY DEF StoreParts, StoreShape, BuildsTyped, Builders
<1>2. UNCHANGED <<clock, events, sessions, attackers, payloads, disk, live, hist>>
  BY DEF ImportRebuilds
<1>3. build' = [build EXCEPT !["import"] = scan]
  BY DEF ImportRebuilds
<1>4. scan \in BuildType(scan.rows) /\ scan.pc # "flush"
  <2> HIDE DEF i
  <2> QED
    BY <1>1 DEF BuildType
<1>5. SourcesStay
  BY <1>1, <1>2 DEF SourcesStay, StoreParts, StoreTypeOK
<1>6. TruthUnlessStale'
  BY <1>2, TruthStays DEF StoreParts, Group
<1>7. BuildsAreRight' /\ BuildsTyped'
  <2> HIDE DEF scan
  <2>1. /\ DOMAIN build' = Builders /\ build'["import"] = scan
        /\ \A c \in Builders \ {"import"} : build'[c] = build[c]
    BY <1>1, <1>3 DEF BuildsTyped, Builders
  <2>2. \A c \in Builders : \/ build'[c] = build[c]
                            \/ build'[c] \in BuildType(build'[c].rows) /\ build'[c].pc # "flush"
    BY <1>4, <2>1
  <2> QED
    BY <1>1, <1>2, <2>1, <2>2, BuildsStay DEF StoreParts
<1> QED
  BY <1>5, <1>6, <1>7, DerivedKeeps

(* The scan reads what is there: nothing is dirty yet. *)
LEMMA RebuildScanKeeps ==
  ASSUME StoreParts, NEW b \in Builders, RebuildScan(b)
  PROVE  StoreParts'
<1> DEFINE i == build[b]
           found == {ip \in i.ips : \E e \in events : e.ip = ip}
           rows == [ip \in found |-> Aggregate(Group(ip))]
           flush == [i EXCEPT !.pc = "flush", !.dirty = {}, !.rows = rows]
<1>1. BuildsTyped /\ i \in BuildType(i.rows) /\ hist \in HistType /\ BuildsAreRight
  BY DEF StoreParts, StoreShape, BuildsTyped
<1>2. UNCHANGED <<clock, events, sessions, attackers, payloads, disk, live, hist>>
  BY DEF RebuildScan
<1>3. build' = [build EXCEPT ![b] = flush]
  BY DEF RebuildScan
<1>4. /\ flush \in BuildType(flush.rows) /\ flush.rows = rows /\ flush.dirty = {}
      /\ flush.ips = i.ips
  <2> HIDE DEF i, rows
  <2> QED
    BY <1>1 DEF BuildType
<1>5. \A ip \in DOMAIN rows : ip \in Ips /\ Group(ip) # {} /\ rows[ip] = Aggregate(Group(ip))
  BY <1>1 DEF BuildType, Group
<1>6. SourcesStay
  BY <1>1, <1>2 DEF SourcesStay, StoreParts, StoreTypeOK
<1>7. TruthUnlessStale'
  BY <1>2, TruthStays DEF StoreParts, Group
<1> HIDE DEF flush, rows
<1>8. DOMAIN build' = Builders /\ build'[b] = flush /\ \A c \in Builders \ {b} : build'[c] = build[c]
  BY <1>1, <1>3 DEF BuildsTyped
<1>9. BuildsTyped'
  BY <1>1, <1>4, <1>8 DEF BuildsTyped
<1>10. BuildsAreRight'
  <2>1. \A ip : Group(ip)' = Group(ip)
    BY <1>2 DEF Group
  <2> SUFFICES ASSUME NEW c \in Builders
               PROVE  /\ build'[c].ips \subseteq Ips
                      /\ build'[c].pc = "flush" =>
                           /\ DOMAIN build'[c].rows \subseteq Ips
                           /\ \A ip \in DOMAIN build'[c].rows \ build'[c].dirty :
                                Group(ip) # {} /\ build'[c].rows[ip] = Aggregate(Group(ip))
    BY <2>1 DEF BuildsAreRight, Aggregate
  <2>2. CASE c = b
    BY <1>1, <1>4, <1>5, <1>8, <2>2 DEF BuildsAreRight
  <2>3. CASE c # b
    BY <1>1, <1>8, <2>3 DEF BuildsAreRight
  <2> QED
    BY <2>2, <2>3
<1> QED
  BY <1>6, <1>7, <1>9, <1>10, DerivedKeeps

(* The flush: what was read is written, or the whole of it fails. *)
LEMMA FlushesKeeps ==
  ASSUME StoreParts, NEW b \in Builders, build[b].pc = "flush", Flushes(b),
         build' = [build EXCEPT ![b] = Idle],
         UNCHANGED <<clock, events, sessions, payloads, disk, live>>
  PROVE  StoreParts'
<1> DEFINE i == build[b]
           fin == DOMAIN i.rows
           st == (hist.stale \ fin) \cup (fin \cap i.dirty)
<1>1. BuildsTyped /\ i \in BuildType(i.rows) /\ hist \in HistType /\ BuildsAreRight
  BY DEF StoreParts, StoreShape, BuildsTyped
<1>2. /\ fin \subseteq Ips
      /\ \A ip \in fin \ i.dirty : Group(ip) # {} /\ i.rows[ip] = Aggregate(Group(ip))
  BY <1>1 DEF BuildsAreRight
<1>3. BuildsAreRight' /\ BuildsTyped'
  <2>1. DOMAIN build' = Builders /\ build'[b] = Idle /\ \A c \in Builders \ {b} : build'[c] = build[c]
    BY <1>1 DEF BuildsTyped
  <2>2. \A c \in Builders : \/ build'[c] = build[c]
                            \/ build'[c] \in BuildType(build'[c].rows) /\ build'[c].pc # "flush"
    BY <2>1, IdleIsTyped
  <2> QED
    BY <1>1, <2>1, <2>2, BuildsStay DEF StoreParts
<1>4. CASE Conflict(b)
  <2>1. UNCHANGED <<attackers, hist>>
    BY <1>4 DEF Flushes
  <2>2. SourcesStay
    BY <1>1, <2>1 DEF SourcesStay, StoreParts, StoreTypeOK
  <2>3. TruthUnlessStale'
    BY <2>1, TruthStays DEF StoreParts, Group
  <2> QED
    BY <1>3, <2>2, <2>3, DerivedKeeps
<1>5. CASE ~ Conflict(b)
  <2>1. /\ attackers' = [ip \in DOMAIN attackers \cup fin |->
                           IF ip \in fin THEN i.rows[ip] ELSE attackers[ip]]
        /\ hist' = [hist EXCEPT !.stale = st]
    BY <1>5 DEF Flushes
  <2>2. st \in SUBSET Ips
    BY <1>1 DEF HistType, BuildType
  <2>3. SourcesStay /\ hist'.stale = st
    <3>1. DOMAIN attackers' \subseteq Ips
      BY <1>2, <2>1 DEF StoreParts, StoreTypeOK
    <3> HIDE DEF st
    <3> QED
      BY <1>1, <2>1, <2>2, <3>1 DEF SourcesStay, HistType
  <2>4. TruthUnlessStale'
    <3>1. \A ip : Group(ip)' = Group(ip)
      BY DEF Group
    <3> SUFFICES ASSUME NEW ip \in Ips \ hist'.stale
                 PROVE  IF Group(ip) = {} THEN ip \notin DOMAIN attackers'
                        ELSE ip \in DOMAIN attackers' /\ attackers'[ip] = Aggregate(Group(ip))
      BY <3>1 DEF TruthUnlessStale, Group, Aggregate
    <3>2. CASE ip \in fin
      BY <1>2, <2>1, <2>3, <3>2
    <3>3. CASE ip \notin fin
      <4>1. ip \in Ips \ hist.stale
        BY <2>3, <3>3
      <4> QED
        BY <2>1, <3>3, <4>1 DEF StoreParts, TruthUnlessStale, Group
    <3> QED
      BY <3>2, <3>3
  <2> QED
    BY <1>3, <2>3, <2>4, DerivedKeeps
<1> QED
  BY <1>4, <1>5

-----------------------------------------------------------------------------
(* The purge, and the reset *)

LEMMA PurgeDeleteKeeps ==
  ASSUME StoreParts, PurgeDelete
  PROVE  StoreParts'
<1> DEFINE cutoff == clock - Keep
           old == {c \in DOMAIN sessions : sessions[c] < cutoff}
           gone == {e \in events : e.ts < cutoff \/ e.session \in old}
           ips == {e.ip : e \in gone}
           n == hist.purges + 1
           st == hist.stale \cup ips
           or == hist.orphaned \cup (old \cap DOMAIN live)
           pu == hist.purged \/ gone # {}
           tk == hist.taken \/ \E e \in gone : e.ts >= cutoff
<1>1. /\ events' = events \ gone /\ sessions' = Without(sessions, old) /\ Changed(ips)
      /\ hist' = [hist EXCEPT !.purges = n, !.stale = st, !.orphaned = or, !.purged = pu, !.taken = tk]
      /\ UNCHANGED <<clock, attackers, payloads, disk, live>>
  BY DEF PurgeDelete
<1>2. hist \in HistType /\ ips \in SUBSET Ips
  BY DEF StoreParts, StoreShape, RowsAreRows, Ips
<1>3. n \in Nat /\ st \in SUBSET Ips /\ or \in SUBSET Conns /\ pu \in BOOLEAN /\ tk \in BOOLEAN
  <2>1. n \in Nat /\ st \in SUBSET Ips
    BY <1>2 DEF HistType
  <2>2. or \in SUBSET Conns
    BY <1>2 DEF HistType, StoreParts, LiveHasSessions
  <2> QED
    BY <2>1, <2>2
<1>4. /\ hist' \in HistType /\ hist'.next = hist.next /\ hist'.stale = st /\ hist'.orphaned = or
      /\ hist'.lost = hist.lost /\ hist'.purged = pu
  <2> HIDE DEF n, st, or, pu, tk
  <2> QED
    BY <1>1, <1>2, <1>3 DEF HistType
<1>5. \A ip \in Ips \ ips : Group(ip)' = Group(ip)
  BY <1>1 DEF Group
<1>6. RowsAreRows'
  <2>1. events' \in SUBSET events
    BY <1>1
  <2>2. IsFiniteSet(events')
    BY <2>1, FS_Subset DEF StoreParts, RowsAreRows
  <2> QED
    BY <2>1, <2>2 DEF StoreParts, RowsAreRows
<1>7. StoreTypeOK'
  <2>1. DOMAIN sessions' = DOMAIN sessions \ old
    BY <1>1 DEF Without
  <2>2. \A e \in events' : e.id \in 1 .. hist'.next /\ e.session \in DOMAIN sessions'
    BY <1>1, <1>4, <2>1 DEF StoreParts, StoreTypeOK
  <2>3. \A d, e \in events' : d.id = e.id => d = e
    BY <1>1 DEF StoreParts, StoreTypeOK
  <2> QED
    BY <1>1, <2>1, <2>2, <2>3 DEF StoreParts, StoreTypeOK
<1>8. TruthUnlessStale'
  BY <1>1, <1>4, <1>5, TruthStays DEF StoreParts
<1>9. BuildsAreRight' /\ BuildsTyped'
  <2>1. DOMAIN build' = Builders /\ \A b \in Builders : build'[b] = After(build[b], ips)
    BY <1>1 DEF Changed
  <2> HIDE DEF ips
  <2> QED
    BY <1>2, <1>5, <2>1, ChangedIsTold DEF StoreParts, StoreShape, BuildsTyped
<1>10. RollupsAreSightings'
  <2>1. CASE gone = {}
    <3>1. events' = events
      BY <1>1, <2>1
    <3>2. hist'.purged => hist.purged
      BY <1>4, <2>1
    <3>3. hist.purged => hist'.purged
      BY <1>4
    <3> HIDE DEF gone, pu, ips, old
    <3> QED
      BY <1>1, <3>1, <3>2, <3>3 DEF StoreParts, RollupsAreSightings, Sightings
  <2>2. CASE gone # {}
    BY <1>4, <2>2 DEF RollupsAreSightings
  <2> QED
    BY <2>1, <2>2
<1>11. LiveHasSessions' /\ LossNeedsPurge'
  <2>1. hist'.orphaned = {} => DOMAIN live' \subseteq DOMAIN sessions'
    BY <1>1, <1>4 DEF StoreParts, LiveHasSessions, Without
  <2> QED
    BY <1>1, <1>4, <2>1 DEF StoreParts, LiveHasSessions, LossNeedsPurge
<1>12. StoreShape'
  BY <1>1, <1>4, <1>9 DEF StoreParts, StoreShape, BuildsTyped
<1> QED
  BY <1>6, <1>7, <1>8, <1>9, <1>10, <1>11, <1>12 DEF StoreParts

(* Every rebuild under way has read what is no longer so. *)
LEMMA AllChanged ==
  ASSUME BuildsTyped, BuildsAreRight, Changed(Ips)
  PROVE  BuildsAreRight' /\ BuildsTyped'
<1>1. DOMAIN build' = Builders /\ \A b \in Builders : build'[b] = After(build[b], Ips)
  BY DEF Changed
<1>2. Ips \in SUBSET Ips /\ \A ip \in Ips \ Ips : Group(ip)' = Group(ip)
  OBVIOUS
<1> QED
  BY <1>1, <1>2, ChangedIsTold

LEMMA PurgeClearKeeps ==
  ASSUME StoreParts, PurgeClear
  PROVE  StoreParts'
<1> DEFINE st == {e.ip : e \in events}
<1>1. /\ attackers' = <<>> /\ hist' = [hist EXCEPT !.stale = st] /\ Changed(Ips)
      /\ UNCHANGED <<clock, events, sessions, payloads, disk, live>>
  BY DEF PurgeClear, Cleared
<1>2. hist \in HistType /\ st \in SUBSET Ips
  BY DEF StoreParts, StoreShape, RowsAreRows, Ips
<1>3. SourcesStay /\ hist'.stale = st
  <2>1. DOMAIN attackers' \subseteq Ips
    BY <1>1
  <2> HIDE DEF st
  <2> QED
    BY <1>1, <1>2, <2>1 DEF SourcesStay, HistType
<1>4. TruthUnlessStale'
  BY <1>1, <1>3 DEF TruthUnlessStale, Group
<1>5. BuildsAreRight' /\ BuildsTyped'
  BY <1>1, AllChanged DEF StoreParts, StoreShape, BuildsTyped
<1> QED
  BY <1>3, <1>4, <1>5, DerivedKeeps

LEMMA PurgeRebuildsKeeps ==
  ASSUME StoreParts, PurgeRebuilds
  PROVE  StoreParts'
<1> DEFINE scan == [Idle EXCEPT !.pc = "scan", !.ips = Ips, !.existing = DOMAIN attackers]
<1>1. /\ build' = [build EXCEPT !["purge"] = scan] /\ BuildsTyped
      /\ UNCHANGED <<clock, events, sessions, attackers, payloads, disk, live, hist>>
  BY DEF PurgeRebuilds, StoreParts, StoreShape, BuildsTyped
<1>2. DOMAIN attackers \in SUBSET Ips /\ hist \in HistType
  BY DEF StoreParts, StoreTypeOK, StoreShape
<1>3. scan \in BuildType(scan.rows) /\ scan.pc # "flush"
  BY <1>2, IdleIsTyped
<1>4. SourcesStay
  BY <1>1, <1>2 DEF SourcesStay
<1>5. TruthUnlessStale'
  BY <1>1, TruthStays DEF StoreParts, Group
<1>6. BuildsAreRight' /\ BuildsTyped'
  <2> HIDE DEF scan
  <2>1. /\ DOMAIN build' = Builders /\ build'["purge"] = scan
        /\ \A c \in Builders \ {"purge"} : build'[c] = build[c]
    BY <1>1 DEF BuildsTyped, Builders
  <2>2. \A c \in Builders : \/ build'[c] = build[c]
                            \/ build'[c] \in BuildType(build'[c].rows) /\ build'[c].pc # "flush"
    BY <1>3, <2>1
  <2> QED
    BY <1>1, <2>1, <2>2, BuildsStay DEF StoreParts
<1> QED
  BY <1>4, <1>5, <1>6, DerivedKeeps

LEMMA PurgeCrashKeeps ==
  ASSUME StoreParts, PurgeCrash
  PROVE  StoreParts'
<1>1. /\ build' = [build EXCEPT !["purge"] = Idle] /\ BuildsTyped
      /\ UNCHANGED <<clock, events, sessions, attackers, payloads, disk, live, hist>>
  BY DEF PurgeCrash, StoreParts, StoreShape, BuildsTyped
<1>2. SourcesStay
  BY <1>1 DEF SourcesStay, StoreParts, StoreTypeOK, StoreShape
<1>3. TruthUnlessStale'
  BY <1>1, TruthStays DEF StoreParts, Group
<1>4. BuildsAreRight' /\ BuildsTyped'
  <2>1. /\ DOMAIN build' = Builders /\ build'["purge"] = Idle
        /\ \A c \in Builders \ {"purge"} : build'[c] = build[c]
    BY <1>1 DEF BuildsTyped, Builders
  <2>2. \A c \in Builders : \/ build'[c] = build[c]
                            \/ build'[c] \in BuildType(build'[c].rows) /\ build'[c].pc # "flush"
    BY <2>1, IdleIsTyped
  <2> QED
    BY <1>1, <2>1, <2>2, BuildsStay DEF StoreParts
<1> QED
  BY <1>2, <1>3, <1>4, DerivedKeeps

LEMMA DropEverythingKeeps ==
  ASSUME StoreParts, DropEverything
  PROVE  StoreParts'
<1> DEFINE n == hist.purges + 1
           or == hist.orphaned \cup DOMAIN live
<1>1. /\ events' = {} /\ sessions' = <<>> /\ attackers' = <<>> /\ payloads' = <<>>
      /\ hist' = [hist EXCEPT !.purges = n, !.stale = {}, !.purged = TRUE, !.orphaned = or]
      /\ Changed(Ips) /\ UNCHANGED <<clock, disk, live>>
  BY DEF DropEverything
<1>2. hist \in HistType /\ n \in Nat /\ or \in SUBSET Conns
  BY DEF StoreParts, StoreShape, HistType, LiveHasSessions
<1>3. /\ hist' \in HistType /\ hist'.purged = TRUE /\ hist'.orphaned = or
      /\ hist'.lost = hist.lost
  <2> HIDE DEF n, or
  <2> QED
    BY <1>1, <1>2 DEF HistType
<1>4. DOMAIN sessions' = {} /\ DOMAIN attackers' = {} /\ DOMAIN payloads' = {} /\ IsFiniteSet(events')
  BY <1>1, FS_EmptySet
<1>5. BuildsAreRight' /\ BuildsTyped'
  BY <1>1, AllChanged DEF StoreParts, StoreShape, BuildsTyped
<1>6. StoreTypeOK' /\ RowsAreRows' /\ StoreShape'
  BY <1>1, <1>3, <1>4, <1>5 DEF StoreParts, StoreTypeOK, RowsAreRows, StoreShape, BuildsTyped
<1>7. TruthUnlessStale' /\ RollupsAreSightings'
  BY <1>1, <1>3, <1>4 DEF TruthUnlessStale, RollupsAreSightings, Group
<1>8. LiveHasSessions' /\ LossNeedsPurge'
  BY <1>1, <1>3, <1>4 DEF StoreParts, LiveHasSessions, LossNeedsPurge
<1> QED
  BY <1>5, <1>6, <1>7, <1>8 DEF StoreParts

-----------------------------------------------------------------------------
(* The payload store *)

LEMMA RollupsKeep ==
  ASSUME StoreParts, NEW new \in SUBSET disk,
         payloads' = [sha \in DOMAIN payloads \cup new |->
                        IF sha \in new THEN Rollup(sha) ELSE payloads[sha]],
         UNCHANGED <<clock, events, sessions, attackers, disk, live, purge, build, hist>>
  PROVE  StoreParts'
<1>1. RowsAreRows /\ RollupsAreSightings /\ StoreShape
  BY DEF StoreParts
<1>2. \A sha \in DOMAIN payloads' : payloads'[sha].event_count \in Nat
  BY <1>1, RollupIsTrue DEF StoreShape
<1>3. RollupsAreSightings'
  <2> SUFFICES ASSUME ~ hist.purged, NEW sha \in DOMAIN payloads'
               PROVE  /\ payloads'[sha].event_count <= Cardinality(Sightings(sha))
                      /\ payloads'[sha].event_count > 0 =>
                           \E e \in Sightings(sha) : e.ts = payloads'[sha].last_seen
    BY DEF RollupsAreSightings, Sightings
  <2>1. CASE sha \in new
    BY <1>1, <2>1, RollupIsTrue
  <2>2. CASE sha \notin new
    BY <1>1, <2>2 DEF RollupsAreSightings
  <2> QED
    BY <2>1, <2>2
<1>4. StoreTypeOK' /\ RowsAreRows' /\ StoreShape'
  BY <1>2 DEF StoreParts, StoreTypeOK, RowsAreRows, StoreShape
<1>5. TruthUnlessStale' /\ BuildsAreRight'
  BY DEF StoreParts, TruthUnlessStale, BuildsAreRight, Group, Aggregate
<1>6. LiveHasSessions' /\ LossNeedsPurge'
  BY DEF StoreParts, LiveHasSessions, LossNeedsPurge
<1> QED
  BY <1>3, <1>4, <1>5, <1>6 DEF StoreParts

LEMMA AnalysesKeep ==
  ASSUME StoreParts, Analyses
  PROVE  StoreParts'
<1>1. CASE ScanAndStore
  <2>1. PICK readable \in SUBSET disk, reanalyse \in BOOLEAN :
          LET new == {sha \in readable : reanalyse \/ sha \notin DOMAIN payloads} IN
          /\ payloads' = [sha \in DOMAIN payloads \cup new |->
                            IF sha \in new THEN Rollup(sha) ELSE payloads[sha]]
          /\ UNCHANGED <<clock, events, sessions, attackers, disk, live, purge, build, hist>>
    BY <1>1 DEF ScanAndStore
  <2> DEFINE new == {sha \in readable : reanalyse \/ sha \notin DOMAIN payloads}
  <2>2. new \in SUBSET disk
    OBVIOUS
  <2>3. payloads' = [sha \in DOMAIN payloads \cup new |->
                       IF sha \in new THEN Rollup(sha) ELSE payloads[sha]]
    BY <2>1
  <2>4. UNCHANGED <<clock, events, sessions, attackers, disk, live, purge, build, hist>>
    BY <2>1
  <2> HIDE DEF new
  <2> QED
    BY <2>2, <2>3, <2>4, RollupsKeep
<1>2. CASE refresh_rollups
  <2> DEFINE new == DOMAIN payloads
  <2>1. payloads' = [sha \in new \cup new |-> IF sha \in new THEN Rollup(sha) ELSE payloads[sha]]
    BY <1>2 DEF refresh_rollups
  <2>2. new \in SUBSET disk
    BY DEF StoreParts, StoreTypeOK
  <2> QED
    BY <1>2, <2>1, <2>2, RollupsKeep DEF refresh_rollups
<1> QED
  BY <1>1, <1>2 DEF Analyses

-----------------------------------------------------------------------------
LEMMA StoreStarts ==
  ASSUME StoreInit
  PROVE  StoreParts
<1>1. hist \in HistType /\ hist = NewHistory
  BY DEF StoreInit, NewHistory, HistType
<1>2. /\ events = {} /\ DOMAIN sessions = {} /\ DOMAIN attackers = {} /\ DOMAIN payloads = {}
      /\ DOMAIN live = {} /\ clock \in 0 .. MaxTime
  BY StoreAssumption DEF StoreInit
<1>3. BuildsTyped /\ \A b \in Builders : build[b].ips \subseteq Ips /\ build[b].pc # "flush"
  <2>1. DOMAIN build = Builders /\ \A b \in Builders : build[b] = Idle
    BY DEF StoreInit
  <2> QED
    BY <2>1, IdleIsTyped DEF BuildsTyped, BuildType
<1>4. StoreShape /\ StoreTypeOK
  BY <1>1, <1>2, <1>3 DEF StoreShape, StoreTypeOK, BuildsTyped
<1>5. RowsAreRows
  BY <1>2, FS_EmptySet DEF RowsAreRows
<1>6. TruthUnlessStale /\ RollupsAreSightings /\ BuildsAreRight
  BY <1>2, <1>3 DEF TruthUnlessStale, RollupsAreSightings, BuildsAreRight, Group
<1>7. LiveHasSessions /\ LossNeedsPurge
  BY <1>1, <1>2 DEF LiveHasSessions, LossNeedsPurge, NewHistory
<1> QED
  BY <1>4, <1>5, <1>6, <1>7 DEF StoreParts

LEMMA TickKeeps ==
  ASSUME StoreParts, UNCHANGED <<events, sessions, attackers, payloads, disk, live, build, hist>>,
         Tick \/ UNCHANGED clock
  PROVE  StoreParts'
<1>1. clock' \in 0 .. MaxTime
  BY StoreAssumption DEF Tick, StoreParts, StoreTypeOK
<1>2. StoreShape' /\ StoreTypeOK' /\ RowsAreRows'
  BY <1>1 DEF StoreParts, StoreShape, StoreTypeOK, RowsAreRows
<1>3. TruthUnlessStale' /\ BuildsAreRight'
  BY DEF StoreParts, TruthUnlessStale, BuildsAreRight, Group, Aggregate
<1>4. RollupsAreSightings' /\ LiveHasSessions' /\ LossNeedsPurge'
  BY DEF StoreParts, RollupsAreSightings, Sightings, LiveHasSessions, LossNeedsPurge
<1> QED
  BY <1>2, <1>3, <1>4 DEF StoreParts

LEMMA RebuildsKeep ==
  ASSUME StoreParts, Rebuilds
  PROVE  StoreParts'
<1>1. CASE \E ips \in {Ips} \cup {{ip} : ip \in Ips} : RebuildStart("api", ips)
  <2>1. PICK ips \in {Ips} \cup {{ip} : ip \in Ips} : RebuildStart("api", ips)
    BY <1>1
  <2>2. ips \in SUBSET Ips /\ "api" \in Builders
    BY DEF Builders
  <2> QED
    BY <2>1, <2>2, RebuildStartKeeps
<1>2. CASE \E b \in {"api", "import"} : RebuildCommit(b)
  <2>1. PICK b \in {"api", "import"} : RebuildCommit(b)
    BY <1>2
  <2> QED
    BY <2>1, FlushesKeeps DEF RebuildCommit, Builders
<1> QED
  BY <1>1, <1>2, ImportRebuildsKeeps, RebuildScanKeeps DEF Rebuilds

LEMMA StoreStep ==
  ASSUME StoreParts, [StoreNext]_storevars
  PROVE  StoreParts'
<1>1. CASE Tick
  BY <1>1, TickKeeps DEF Tick
<1>2. CASE Writes
  BY <1>2, ConnOpensKeeps, ConnClosesKeeps, ConnRecordsKeeps DEF Writes
<1>3. CASE Imports
  BY <1>3, ImportKeeps DEF Imports
<1>4. CASE Purges
  <2>1. CASE PurgeCommit
    BY <2>1, FlushesKeeps DEF PurgeCommit, Builders
  <2> QED
    BY <1>4, <2>1, PurgeDeleteKeeps, PurgeClearKeeps, PurgeRebuildsKeeps, PurgeCrashKeeps DEF Purges
<1>5. CASE UNCHANGED storevars
  BY <1>5, TickKeeps DEF storevars
<1> QED
  BY <1>1, <1>2, <1>3, <1>4, <1>5, RebuildsKeep, DropEverythingKeeps, AnalysesKeep DEF StoreNext

(* The topics of Backend do nothing to the tables but the steps of the store. *)
LEMMA BackendIsStore == [BackendNext]_backvars => [StoreNext]_storevars
<1>1. SomeoneWrites => Writes
  <2>1. (CHOOSE d \in Conns : TRUE) \in Conns
    BY StoreAssumption
  <2> QED
    BY <2>1 DEF SomeoneWrites, Writes
<1>2. Aggregates \/ ImportsLogs => StoreNext
  BY DEF Aggregates, ImportsLogs, StoreNext, Writes
<1>3. Stores => StoreNext
  BY DEF Stores, StoreNext, Purges
<1>4. Pages => [StoreNext]_storevars
  <2>1. Pages => Tick \/ Writes \/ Imports \/ PurgeDelete \/ UNCHANGED storevars
    BY <1>1 DEF Pages, ReadPage
  <2> QED
    BY <2>1 DEF StoreNext, Purges
<1>5. Watches => [StoreNext]_storevars
  BY <1>1 DEF Watches, StoreNext, FeedNext, PollStarts, FilterChanges, TogglesPause, live_events,
              PollApplies, PollFails, queryvars
<1>6. Fetches \/ Enriches \/ UNCHANGED backvars => UNCHANGED storevars
  BY DEF Fetches, Enriches, backvars, queryvars
<1> QED
  BY <1>2, <1>3, <1>4, <1>5, <1>6 DEF BackendNext

(* The tables under every interleaving of the sensor, imports, rebuilds, the *)
(* purge and its crashes, the reset and the analysis: every event has its    *)
(* session and its own id, the aggregate of an address is that of its events *)
(* unless they changed since the rebuild read them, and a payload's roll-up  *)
(* claims no sighting that was not there.                                    *)
THEOREM StoreTablesAreTrue == BackendSpec => []TablesAreTrue
<1>1. BackendInit => StoreParts
  BY StoreStarts DEF BackendInit
<1>2. StoreParts => TablesAreTrue
  BY DEF StoreParts, TablesAreTrue
<1> QED
  BY <1>1, <1>2, StoreStep, BackendIsStore, PTL DEF BackendSpec

(* _write_db loses a batch to the foreign key only after purge_events or     *)
(* drop_everything took the row of a session that was open.                  *)
THEOREM StoreLossNeedsPurge == BackendSpec => []LossNeedsPurge
<1>1. BackendInit => StoreParts
  BY StoreStarts DEF BackendInit
<1>2. StoreParts => LossNeedsPurge
  BY DEF StoreParts
<1> QED
  BY <1>1, <1>2, StoreStep, BackendIsStore, PTL DEF BackendSpec

-----------------------------------------------------------------------------
(* The listing of events *)

LEMMA BeforeIsStrict ==
  ASSUME StoreParts, NEW d \in events, NEW e \in events, Before(d, e)
  PROVE  ~ Before(e, d)
<1>1. d.ts \in Int /\ e.ts \in Int
  BY StoreAssumption DEF StoreParts, RowsAreRows
<1>2. d.id \in Int /\ e.id \in Int
  BY DEF StoreParts, StoreTypeOK, StoreShape, HistType
<1> QED
  BY <1>1, <1>2 DEF Before

(* Every row that is asked for is on the listing, in order: as many places   *)
(* without repetitions as rows.                                              *)
LEMMA ListingIsAll ==
  ASSUME StoreParts, NEW rows \in SUBSET events, NEW s \in Listings(rows)
  PROVE  /\ Cardinality(rows) \in Nat /\ s \in [1 .. Cardinality(rows) -> rows]
         /\ \A i, j \in 1 .. Cardinality(rows) : i < j => Before(s[i], s[j])
         /\ \A i, j \in 1 .. Cardinality(rows) : s[i] = s[j] => i = j
         /\ \A e \in rows : \E i \in 1 .. Cardinality(rows) : s[i] = e
<1> DEFINE n == Cardinality(rows)
<1>1. IsFiniteSet(rows) /\ n \in Nat
  <2>1. IsFiniteSet(rows)
    BY FS_Subset DEF StoreParts, RowsAreRows
  <2> QED
    BY <2>1, FS_CardinalityType
<1>2. /\ s \in [1 .. n -> rows]
      /\ \A i, j \in 1 .. n : i < j => s[i] # s[j] /\ Before(s[i], s[j])
  BY DEF Listings
<1>3. \A i, j \in 1 .. n : s[i] = s[j] => i = j
  <2> SUFFICES ASSUME NEW i \in 1 .. n, NEW j \in 1 .. n, s[i] = s[j], i # j PROVE FALSE
    OBVIOUS
  <2>1. i < j \/ j < i
    BY <1>1
  <2> QED
    BY <1>2, <2>1
<1> HIDE DEF n
<1>4. s \in Injection(1 .. n, rows)
  BY <1>2, <1>3 DEF Injection, IsInjective
<1>5. IsFiniteSet(1 .. n) /\ Cardinality(1 .. n) = n
  BY <1>1, FS_Interval
<1>6. s \in Surjection(1 .. n, rows)
  <2>1. Cardinality(1 .. n) = Cardinality(rows)
    BY <1>5 DEF n
  <2> QED
    BY <1>1, <1>4, <2>1, FS_Injection
<1>7. \A e \in rows : \E i \in 1 .. n : s[i] = e
  BY <1>6 DEF Surjection
<1> QED
  BY <1>1, <1>2, <1>3, <1>7 DEF n

(* The place of a row is the number of rows before it. *)
LEMMA ListingPlaces ==
  ASSUME StoreParts, NEW s \in Listings(events)
  PROVE  /\ Cardinality(events) \in Nat /\ s \in [1 .. Cardinality(events) -> events]
         /\ \A e \in events : \E i \in 1 .. Cardinality(events) :
              s[i] = e /\ Cardinality({d \in events : Before(d, e)}) = i - 1
<1> DEFINE n == Cardinality(events)
<1>1. n \in Nat
  BY ListingIsAll
<1>2. s \in [1 .. n -> events] /\ \A i, j \in 1 .. n : i < j => Before(s[i], s[j])
  BY ListingIsAll
<1>3. \A i, j \in 1 .. n : s[i] = s[j] => i = j
  BY ListingIsAll
<1>4. \A e \in events : \E i \in 1 .. n : s[i] = e
  BY ListingIsAll
<1> HIDE DEF n
<1>5. ASSUME NEW e \in events
      PROVE  \E i \in 1 .. n : s[i] = e /\ Cardinality({d \in events : Before(d, e)}) = i - 1
  <2>1. PICK i \in 1 .. n : s[i] = e
    BY <1>4
  <2> DEFINE front == {d \in events : Before(d, e)}
             f == [j \in 1 .. i - 1 |-> s[j]]
  <2>2. i - 1 \in Nat /\ \A j \in 1 .. i - 1 : j \in 1 .. n /\ j < i
    BY <1>1
  <2>3. \A j \in 1 .. i - 1 : s[j] \in front
    BY <1>2, <2>1, <2>2
  <2>4. \A d \in front : \E j \in 1 .. i - 1 : s[j] = d
    <3> SUFFICES ASSUME NEW d \in front PROVE \E j \in 1 .. i - 1 : s[j] = d
      OBVIOUS
    <3>1. PICK j \in 1 .. n : s[j] = d
      BY <1>4
    <3>2. Before(s[j], s[i]) /\ ~ Before(s[i], s[j])
      BY <2>1, <3>1, BeforeIsStrict
    <3>3. ~ (i < j) /\ i # j
      BY <1>2, <3>2
    <3>4. j \in 1 .. i - 1
      BY <1>1, <3>3
    <3> QED
      BY <3>1, <3>4
  <2> HIDE DEF front
  <2>5. f \in Bijection(1 .. i - 1, front)
    <3>1. f \in [1 .. i - 1 -> front]
      BY <2>3
    <3>2. \A j, k \in 1 .. i - 1 : f[j] = f[k] => j = k
      BY <1>3, <2>2
    <3>3. \A d \in front : \E j \in 1 .. i - 1 : f[j] = d
      BY <2>4
    <3> HIDE DEF f
    <3> QED
      BY <3>1, <3>2, <3>3 DEF Bijection, Injection, Surjection, IsInjective
  <2>6. Cardinality(front) = i - 1
    <3> HIDE DEF f
    <3>1. ExistsBijection(1 .. i - 1, front)
      BY <2>5 DEF ExistsBijection
    <3> QED
      BY <2>2, <3>1, FS_CountingElements
  <2> QED
    BY <2>1, <2>6 DEF front
<1> QED
  BY <1>1, <1>2, <1>5 DEF n

(* What one page holds: the rows from offset on, as many as fit. *)
LEMMA PageHolds ==
  ASSUME StoreParts, NEW s \in Listings(events), NEW offset \in Nat
  PROVE  LET n == Cardinality(events)
             page == Page(s, offset)
         IN  /\ n \in Nat /\ Len(page) \in Nat
             /\ Len(page) < Limit => n <= offset + Limit
             /\ {page[i].id : i \in DOMAIN page} \in SUBSET Nat
             /\ \A i \in 1 .. n : i > offset /\ i <= offset + Limit =>
                  s[i].id \in {page[k].id : k \in DOMAIN page}
<1> DEFINE n == Cardinality(events)
           page == Page(s, offset)
           last == IF offset + Limit < n THEN offset + Limit ELSE n
<1>1. n \in Nat /\ s \in [1 .. n -> events]
  BY ListingPlaces
<1>2. Limit \in Nat /\ Limit > 0
  BY QueryAssumption
<1>3. last \in Nat /\ last <= n /\ (last < offset + Limit => last = n) /\ last <= offset + Limit
  <2> HIDE DEF n
  <2> QED
    BY <1>1, <1>2
<1>4. page = SubSeq(s, offset + 1, last)
  <2>1. Len(s) = n
    <3> HIDE DEF n
    <3> QED
      BY <1>1
  <2> QED
    BY <2>1 DEF Page
<1> HIDE DEF n, page, last
<1>5. \A i \in offset + 1 .. last : s[i] \in events
  BY <1>1, <1>3
<1>6. /\ page \in Seq(events)
      /\ Len(page) = IF offset + 1 <= last THEN last - (offset + 1) + 1 ELSE 0
      /\ \A i \in 1 .. last - (offset + 1) + 1 : page[i] = s[offset + 1 + i - 1]
  <2>1. offset + 1 \in Int /\ last \in Int
    BY <1>3
  <2> QED
    BY <1>4, <1>5, <2>1, SubSeqProperties
<1>7. Len(page) \in Nat /\ DOMAIN page = 1 .. Len(page) /\ \A i \in DOMAIN page : page[i] \in events
  BY <1>6
<1>8. {page[i].id : i \in DOMAIN page} \in SUBSET Nat
  <2>1. \A e \in events : e.id \in Nat
    BY DEF StoreParts, StoreTypeOK, StoreShape, HistType
  <2> QED
    BY <1>7, <2>1
<1>9. Len(page) < Limit => n <= offset + Limit
  BY <1>1, <1>2, <1>3, <1>6
<1>10. ASSUME NEW i \in 1 .. n, i > offset, i <= offset + Limit
       PROVE  s[i].id \in {page[k].id : k \in DOMAIN page}
  <2>1. i <= last
    BY <1>1, <1>2, <1>3, <1>10
  <2>2. i - offset \in 1 .. last - (offset + 1) + 1 /\ offset + 1 + (i - offset) - 1 = i
    BY <1>1, <1>3, <1>10, <2>1
  <2>3. page[i - offset] = s[i]
    BY <1>6, <2>2
  <2>4. i - offset \in DOMAIN page
    BY <1>3, <1>6, <1>7, <2>2
  <2> QED
    BY <2>3, <2>4
<1> QED
  BY <1>1, <1>7, <1>8, <1>9, <1>10 DEF n, page

(* The reader, and what it has not seen. *)
ReaderType ==
  [pc : {"idle", "more", "done"}, offset : Nat, start : SUBSET Nat, seen : SUBSET Nat, shifted : BOOLEAN]

ReaderParts == reader \in ReaderType /\ ReaderInv

LEMMA ReadPageKeeps ==
  ASSUME StoreParts, ReaderParts, ReadPage
  PROVE  ReaderParts'
<1>1. Matching(0) = events
  BY SMTT(30) DEF Matching, severity, StoreParts, RowsAreRows
<1>2. PICK s \in Listings(events) :
        LET page == Page(s, reader.offset) IN
        reader' = [reader EXCEPT !.pc = IF Len(page) < Limit THEN "done" ELSE "more",
                                 !.offset = @ + Limit,
                                 !.start = IF reader.pc = "idle" THEN {e.id : e \in events} ELSE @,
                                 !.seen = @ \cup {page[i].id : i \in DOMAIN page}]
  BY <1>1 DEF ReadPage
<1> DEFINE n == Cardinality(events)
           page == Page(s, reader.offset)
           ids == {page[i].id : i \in DOMAIN page}
           pc == IF Len(page) < Limit THEN "done" ELSE "more"
           o == reader.offset + Limit
           st == IF reader.pc = "idle" THEN {e.id : e \in events} ELSE reader.start
           se == reader.seen \cup ids
<1>3. reader' = [reader EXCEPT !.pc = pc, !.offset = o, !.start = st, !.seen = se]
  BY <1>2
<1>4. /\ reader \in ReaderType /\ reader.offset \in Nat /\ reader.pc # "done" /\ Limit \in Nat
      /\ UNCHANGED events
  BY QueryAssumption DEF ReaderParts, ReaderType, ReadPage, storevars
<1>5. /\ n \in Nat /\ Len(page) \in Nat /\ ids \in SUBSET Nat
      /\ Len(page) < Limit => n <= o
      /\ \A i \in 1 .. n : i > reader.offset /\ i <= o => s[i].id \in ids
  BY <1>4, PageHolds
<1>6. pc \in {"more", "done"} /\ o \in Nat /\ st \in SUBSET Nat /\ se \in SUBSET Nat
  <2>1. \A e \in events : e.id \in Nat
    BY DEF StoreParts, StoreTypeOK, StoreShape, HistType
  <2>2. st \in SUBSET Nat
    BY <1>4, <2>1 DEF ReaderType
  <2> QED
    BY <1>4, <1>5, <2>2 DEF ReaderType
<1>7. /\ reader' \in ReaderType /\ reader'.pc = pc /\ reader'.offset = o /\ reader'.start = st
      /\ reader'.seen = se /\ reader'.shifted = reader.shifted
  <2> HIDE DEF pc, o, st, se
  <2> QED
    BY <1>3, <1>4, <1>6 DEF ReaderType
<1>8. ASSUME ~ reader.shifted
      PROVE  /\ st \subseteq {e.id : e \in events}
             /\ \A e \in events : e.id \in st \ se =>
                  Cardinality({d \in events : Before(d, e)}) >= o
             /\ n <= o => st \subseteq se
  <2>1. /\ st \subseteq {e.id : e \in events}
        /\ \A e \in events : e.id \in st \ reader.seen =>
             Cardinality({d \in events : Before(d, e)}) >= reader.offset
    <3>1. CASE reader.pc = "idle"
      <4>1. reader.offset = 0
        BY <3>1 DEF ReaderParts, ReaderInv
      <4>2. \A e \in events : Cardinality({d \in events : Before(d, e)}) >= 0
        <5> SUFFICES ASSUME NEW e \in events PROVE Cardinality({d \in events : Before(d, e)}) >= 0
          OBVIOUS
        <5>1. PICK i \in 1 .. n : Cardinality({d \in events : Before(d, e)}) = i - 1
          BY ListingPlaces
        <5> HIDE DEF n
        <5> QED
          BY <1>5, <5>1
      <4> QED
        BY <3>1, <4>1, <4>2
    <3>2. CASE reader.pc = "more"
      BY <1>8, <3>2 DEF ReaderParts, ReaderInv, UnseenIsAhead
    <3> QED
      BY <1>4, <3>1, <3>2 DEF ReaderType
  <2>2. ASSUME NEW e \in events, e.id \in st \ se
        PROVE  Cardinality({d \in events : Before(d, e)}) >= o /\ ~ (n <= o)
    <3>1. PICK i \in 1 .. n : s[i] = e /\ Cardinality({d \in events : Before(d, e)}) = i - 1
      BY ListingPlaces
    <3>2. i - 1 >= reader.offset
      BY <2>1, <2>2, <3>1
    <3>3. ~ (i > reader.offset /\ i <= o)
      BY <1>5, <2>2, <3>1
    <3> HIDE DEF n
    <3>4. i > reader.offset
      BY <1>4, <1>5, <3>2
    <3>5. i > o
      BY <1>4, <1>5, <3>3, <3>4
    <3> QED
      BY <1>4, <1>5, <3>1, <3>5
  <2>3. n <= o => st \subseteq se
    BY <2>1, <2>2
  <2> QED
    BY <2>1, <2>2, <2>3
<1> HIDE DEF st, se, o, n
<1>9. UnseenIsAhead'
  <2>1. {e.id : e \in events'} = {e.id : e \in events}
    BY <1>4
  <2>2. \A e : {d \in events' : Before(d, e)} = {d \in events : Before(d, e)}
    BY <1>4
  <2> SUFFICES ASSUME ~ reader.shifted
               PROVE  /\ st \subseteq {e.id : e \in events}
                      /\ \A e \in events : e.id \in st \ se =>
                           Cardinality({d \in events : Before(d, e)}) >= o
    BY <1>4, <1>7, <2>1 DEF UnseenIsAhead, Before
  <2> QED
    BY <1>8
<1>10. PagesMissNothing'
  BY <1>5, <1>7, <1>8 DEF PagesMissNothing
<1> QED
  BY <1>6, <1>7, <1>9, <1>10 DEF ReaderParts, ReaderInv

(* The others write or purge between two pages. *)
LEMMA ReaderSeesKeeps ==
  ASSUME StoreParts, StoreParts', ReaderParts, ReaderSees
  PROVE  ReaderParts'
<1> DEFINE sh == reader.shifted \/ events \ events' # {}
<1>1. reader' = [reader EXCEPT !.shifted = sh] /\ reader \in ReaderType /\ sh \in BOOLEAN
  BY DEF ReaderSees, ReaderParts
<1>2. /\ reader' \in ReaderType /\ reader'.pc = reader.pc /\ reader'.offset = reader.offset
      /\ reader'.start = reader.start /\ reader'.seen = reader.seen /\ reader'.shifted = sh
  <2> HIDE DEF sh
  <2> QED
    BY <1>1 DEF ReaderType
<1>3. UnseenIsAhead'
  <2> SUFFICES ASSUME reader.pc = "more", ~ sh
               PROVE  /\ reader.start \subseteq {e.id : e \in events'}
                      /\ \A e \in events' : e.id \in reader.start \ reader.seen =>
                           Cardinality({d \in events' : Before(d, e)}) >= reader.offset
    BY <1>2 DEF UnseenIsAhead, Before
  <2>1. events \subseteq events' /\ ~ reader.shifted
    OBVIOUS
  <2>2. /\ reader.start \subseteq {e.id : e \in events}
        /\ \A e \in events : e.id \in reader.start \ reader.seen =>
             Cardinality({d \in events : Before(d, e)}) >= reader.offset
    BY <2>1 DEF ReaderParts, ReaderInv, UnseenIsAhead
  <2>3. ASSUME NEW e \in events', e.id \in reader.start \ reader.seen
        PROVE  Cardinality({d \in events' : Before(d, e)}) >= reader.offset
    <3>1. PICK x \in events : x.id = e.id
      BY <2>2, <2>3
    <3>2. e \in events
      BY <2>1, <3>1 DEF StoreParts, StoreTypeOK
    <3> DEFINE S == {d \in events : Before(d, e)}
               U == {d \in events' : Before(d, e)}
    <3>3. S \in SUBSET U /\ U \in SUBSET events' /\ IsFiniteSet(events')
      BY <2>1 DEF StoreParts, RowsAreRows
    <3>4. Cardinality(S) >= reader.offset
      BY <2>2, <2>3, <3>2
    <3> HIDE DEF S, U
    <3>5. IsFiniteSet(U)
      BY <3>3, FS_Subset
    <3>6. IsFiniteSet(S) /\ Cardinality(S) <= Cardinality(U)
      BY <3>3, <3>5, FS_Subset
    <3>7. Cardinality(S) \in Nat /\ Cardinality(U) \in Nat /\ reader.offset \in Nat
      BY <1>1, <3>5, <3>6, FS_CardinalityType DEF ReaderType
    <3>8. Cardinality(U) >= reader.offset
      BY <3>4, <3>6, <3>7
    <3> QED
      BY <3>8 DEF U
  <2> QED
    BY <2>1, <2>2, <2>3
<1>4. PagesMissNothing'
  BY <1>2 DEF ReaderParts, ReaderInv, PagesMissNothing
<1> QED
  BY <1>2, <1>3, <1>4 DEF ReaderParts, ReaderInv

(* Nobody else reads pages. *)
ReaderElsewhere == topic # "pages" => reader = NoReader

LEMMA NoReaderIsFine == reader = NoReader => ReaderParts
BY DEF NoReader, ReaderParts, ReaderType, ReaderInv, UnseenIsAhead, PagesMissNothing

LEMMA ReaderStep ==
  ASSUME StoreParts, StoreParts', ReaderParts, ReaderElsewhere, [BackendNext]_backvars
  PROVE  ReaderParts' /\ ReaderElsewhere'
<1>1. UNCHANGED topic
  BY DEF BackendNext, backvars, Aggregates, ImportsLogs, Stores, Pages, Watches, Fetches, Enriches, Others
<1>2. CASE topic # "pages"
  <2>1. UNCHANGED reader
    BY <1>2 DEF BackendNext, backvars, Aggregates, ImportsLogs, Stores, Pages, Watches, Fetches, Enriches,
                queryvars, FeedNext, PollStarts, FilterChanges, TogglesPause, live_events, PollApplies, PollFails
  <2>2. reader' = NoReader
    BY <1>2, <2>1 DEF ReaderElsewhere
  <2> QED
    BY <1>1, <1>2, <2>2, NoReaderIsFine DEF ReaderElsewhere, ReaderParts, NoReader, ReaderType, ReaderInv,
                                            UnseenIsAhead, PagesMissNothing
<1>3. CASE topic = "pages"
  <2>1. Pages \/ UNCHANGED backvars
    BY <1>3 DEF BackendNext, Aggregates, ImportsLogs, Stores, Watches, Fetches, Enriches
  <2>2. CASE ReaderSees
    BY <1>1, <1>3, <2>2, ReaderSeesKeeps DEF ReaderElsewhere
  <2>3. CASE ReadPage
    BY <1>1, <1>3, <2>3, ReadPageKeeps DEF ReaderElsewhere
  <2>4. CASE UNCHANGED backvars
    BY <1>1, <1>3, <2>4 DEF backvars, queryvars, storevars, ReaderElsewhere, ReaderParts, ReaderInv,
                            UnseenIsAhead, PagesMissNothing, Before
  <2> QED
    BY <2>1, <2>2, <2>3, <2>4 DEF Pages
<1> QED
  BY <1>2, <1>3

(* A client that pages through list_events to a page that is not full has    *)
(* seen every row that was there when it began, whatever is written in the   *)
(* meantime and however late its timestamps are, unless a purge came         *)
(* between.                                                                  *)
THEOREM StorePagesMissNothing == BackendSpec => []PagesMissNothing
<1> DEFINE I == StoreParts /\ ReaderParts /\ ReaderElsewhere
<1>1. BackendInit => I
  BY StoreStarts, NoReaderIsFine DEF BackendInit, ReaderElsewhere
<1>2. I /\ [BackendNext]_backvars => I'
  BY StoreStep, BackendIsStore, ReaderStep
<1>3. I => PagesMissNothing
  BY DEF ReaderParts, ReaderInv
<1> QED
  BY <1>1, <1>2, <1>3, PTL DEF BackendSpec

=============================================================================
