-------------------------- MODULE AlertStoreProofs --------------------------
(***************************************************************************)
(* Proofs about AlertStore, for every set of keys, ranks, runs, callers    *)
(* and deployments.  A step is a step of one run: the others keep their    *)
(* state, and the locks keep what they have flushed valid while the step   *)
(* changes the table.                                                      *)
(***************************************************************************)
EXTENDS AlertStore, FiniteSetTheorems, TLAPS

RowType == [new : BOOLEAN, gen : 0..MaxPurges, was : 0..MaxHit, written : 0..MaxHit]
AlertType == [hit_count : 1..MaxHit, status : Statuses]
RunPcs == {"idle", "persist", "notify", "commit"}

(* The parts of the invariant, sorted by what a step of one run can disturb: *)
(* the shape of the variables, the state of a run, the table, the books.     *)
Shape ==
  /\ deployment \in Deployments /\ pc \in [Runs -> RunPcs]
  /\ DOMAIN todo = Runs /\ DOMAIN dirty = Runs /\ DOMAIN tx = Runs
  /\ created \in [Runs -> SUBSET Keys] /\ toSend \in [Runs -> SUBSET Keys]
  /\ overflow \in [Runs -> SUBSET Keys] /\ paged \in [Runs -> SUBSET Keys]
  /\ silent \in [Runs -> SUBSET Keys]
  /\ told \subseteq Keys /\ silenced \subseteq Keys
  /\ attempts \in [Keys -> Nat] /\ wasted \in [Keys -> Nat] /\ purged \in [Keys -> Nat]
  /\ triage \in [Keys -> Statuses]

RunType(r) ==
  /\ DOMAIN todo[r] \subseteq Keys /\ \A k \in DOMAIN todo[r] : todo[r][k] \in 1..MaxHit
  /\ dirty[r] = None \/ \E k \in Keys : DOMAIN dirty[r] = {k}
  /\ \A k \in DOMAIN dirty[r] : dirty[r][k] \in RowType
  /\ DOMAIN tx[r] \subseteq Keys /\ \A k \in DOMAIN tx[r] : tx[r][k] \in RowType

Remembered(r) ==
  deployment.webhook /\ pc[r] \in {"notify", "commit"} =>
    Eligible(r) \subseteq toSend[r] \cup overflow[r] \cup paged[r] \cup silent[r]

RunInv(r) == RunType(r) /\ RunPlace(r) /\ RowsOfRun(r) /\ Remembered(r)

TableType == DOMAIN alerts \subseteq Keys /\ \A k \in DOMAIN alerts : alerts[k] \in AlertType

Parts ==
  /\ Shape /\ PurgesKept /\ LocksHold /\ PagesCounted
  /\ TableType /\ ToldWhenStored /\ TriageSurvives
  /\ \A r \in Runs : RunInv(r)

LEMMA NoneEmpty == DOMAIN None = {}
BY DEF None

(* At most one dirty row, in terms of the key it has. *)
LEMMA AtMostOne ==
  ASSUME NEW f
  PROVE  f = None \/ (\E k \in Keys : DOMAIN f = {k}) => Cardinality(DOMAIN f) <= 1
<1>1. Cardinality({}) = 0
  BY FS_EmptySet
<1>2. \A k : Cardinality({k}) = 1
  BY FS_Singleton
<1>3. CASE f = None
  <2>1. Cardinality(DOMAIN f) = 0
    BY <1>1, <1>3, NoneEmpty
  <2> QED
    BY <2>1
<1>4. ASSUME NEW k \in Keys, DOMAIN f = {k} PROVE Cardinality(DOMAIN f) <= 1
  <2>1. Cardinality(DOMAIN f) = 1
    BY <1>2, <1>4
  <2> QED
    BY <2>1
<1> QED
  BY <1>3, <1>4

LEMMA PartsTyped == Parts => AlertTypeOK
<1> SUFFICES ASSUME Parts PROVE AlertTypeOK
  OBVIOUS
<1>0. Shape /\ TableType /\ \A r \in Runs : RunType(r)
  BY DEF Parts, RunInv
<1>1. ASSUME NEW r \in Runs
      PROVE  /\ DOMAIN todo[r] \subseteq Keys /\ Range(todo[r]) \subseteq 1..MaxHit
             /\ Cardinality(DOMAIN dirty[r]) <= 1
             /\ DOMAIN dirty[r] \subseteq Keys /\ Range(dirty[r]) \subseteq RowType
             /\ DOMAIN tx[r] \subseteq Keys /\ Range(tx[r]) \subseteq RowType
  <2>1. RunType(r)
    BY <1>0
  <2>2. Cardinality(DOMAIN dirty[r]) <= 1 /\ DOMAIN dirty[r] \subseteq Keys
    BY <2>1, AtMostOne, NoneEmpty DEF RunType
  <2> QED
    BY <2>1, <2>2 DEF RunType, Range
<1> QED
  BY <1>0, <1>1 DEF AlertTypeOK, Shape, TableType, AlertType, RunPcs, RowType

(* A step of another run, which leaves this one's state alone. *)
Untouched(q) ==
  /\ deployment' = deployment /\ pc'[q] = pc[q] /\ todo'[q] = todo[q] /\ dirty'[q] = dirty[q]
  /\ tx'[q] = tx[q] /\ created'[q] = created[q] /\ toSend'[q] = toSend[q]
  /\ overflow'[q] = overflow[q] /\ paged'[q] = paged[q] /\ silent'[q] = silent[q]

LEMMA UntouchedKeeps ==
  ASSUME NEW q, RunInv(q), Untouched(q)
  PROVE  RunInv(q)'
BY DEF RunInv, RunType, RunPlace, RowsOfRun, Remembered, Eligible, Passes, Untouched

(* The locks hold as long as no row of this table comes or goes and no run   *)
(* flushes one.                                                              *)
LEMMA LocksKeep ==
  ASSUME LocksHold, UNCHANGED tx, DOMAIN alerts' = DOMAIN alerts
  PROVE  LocksHold'
BY DEF LocksHold

-----------------------------------------------------------------------------
(* persist_alerts *)

LEMMA TriggerKeeps ==
  ASSUME Parts, NEW r \in Runs, Trigger(r)
  PROVE  Parts'
<1> USE DEF bounds, history
<1>0. Shape /\ RunInv(r)
  BY DEF Parts
<1> PICK K \in SUBSET Keys : \E found \in [K -> 1..MaxHit] : todo' = [todo EXCEPT ![r] = found]
  BY DEF Trigger
<1>1. PICK found \in [K -> 1..MaxHit] : todo' = [todo EXCEPT ![r] = found]
  OBVIOUS
<1>2. /\ pc[r] = "idle" /\ pc' = [pc EXCEPT ![r] = "persist"]
      /\ UNCHANGED <<deployment, alerts, dirty, tx, created, toSend, overflow, paged, silent, purges,
                     told, silenced, attempts, wasted, purged, triage>>
  BY DEF Trigger
<1>3. Shape'
  BY <1>0, <1>1, <1>2 DEF Shape, RunPcs
<1>4. \A q \in Runs : RunInv(q)'
  <2>1. ASSUME NEW q \in Runs, q # r PROVE RunInv(q)'
    <3>1. Untouched(q)
      BY <1>0, <1>1, <1>2, <2>1 DEF Shape, Untouched
    <3> QED
      BY <3>1, UntouchedKeeps DEF Parts
  <2>2. RunInv(r)'
    <3>1. todo'[r] = found /\ pc'[r] = "persist"
      BY <1>0, <1>1, <1>2 DEF Shape
    <3>2. DOMAIN dirty[r] = {} /\ DOMAIN tx[r] = {}
      BY <1>0, <1>2, NoneEmpty DEF RunInv, RunPlace
    <3> QED
      BY <1>0, <1>2, <3>1, <3>2 DEF RunInv, RunType, RunPlace, RowsOfRun, Remembered
  <2> QED
    BY <2>1, <2>2
<1>5. LocksHold' /\ PagesCounted' /\ PurgesKept' /\ TableType' /\ ToldWhenStored' /\ TriageSurvives'
  BY <1>2 DEF Parts, LocksHold, PagesCounted, PurgesKept, TableType, ToldWhenStored, TriageSurvives
<1> QED
  BY <1>3, <1>4, <1>5 DEF Parts

(* A lookup: the payload becomes the dirty row of a new alert or of an       *)
(* update that raises the counter, or nothing.                               *)
LEMMA LookupKeeps ==
  ASSUME Parts, NEW r \in Runs, NEW k \in Keys, Lookup(r, k)
  PROVE  Parts'
<1> USE DEF bounds, history
<1>0. Shape /\ RunInv(r) /\ TableType /\ PurgesKept /\ MaxHit \in Nat /\ MaxPurges \in Nat
  BY AlertStoreAssumption DEF Parts
<1>1. /\ pc[r] = "persist" /\ k \in DOMAIN todo[r] /\ dirty[r] = None
      /\ todo' = [todo EXCEPT ![r] = Restrict(todo[r], DOMAIN todo[r] \ {k})]
      /\ UNCHANGED <<deployment, alerts, pc, tx, toSend, overflow, paged, silent, purges,
                     told, silenced, attempts, wasted, purged, triage>>
  BY <1>0 DEF Lookup, Shape
<1>2. PICK d : dirty' = [dirty EXCEPT ![r] = d]
               /\ \/ /\ k \notin DOMAIN alerts
                     /\ d = Row(k, [new |-> TRUE, gen |-> purged[k], was |-> 0, written |-> todo[r][k]])
                     /\ created' = [created EXCEPT ![r] = created[r] \cup {k}]
                  \/ k \in DOMAIN alerts /\ d \in UpdateOf(k, todo[r][k]) /\ UNCHANGED created
  BY <1>0 DEF Lookup, Shape
<1>3. todo[r][k] \in 1..MaxHit /\ purged[k] \in 0..MaxPurges
  BY <1>0, <1>1 DEF RunInv, RunType, PurgesKept, Shape
<1>4. \/ d = None /\ UNCHANGED created
      \/ /\ DOMAIN d = {k} /\ d[k] \in RowType
         /\ \/ /\ d[k].new /\ d[k].written # 0
               /\ created' = [created EXCEPT ![r] = created[r] \cup {k}]
            \/ /\ ~d[k].new /\ UNCHANGED created
               /\ d[k].written = 0 \/ d[k].was < d[k].written
  <2>1. CASE k \notin DOMAIN alerts
    <3> DEFINE row == [new |-> TRUE, gen |-> purged[k], was |-> 0, written |-> todo[r][k]]
    <3>1. row \in RowType /\ row.new /\ row.written # 0
      BY <1>0, <1>3 DEF RowType
    <3>2. d = Row(k, row) /\ created' = [created EXCEPT ![r] = created[r] \cup {k}]
      BY <1>2, <2>1
    <3> HIDE DEF row
    <3> QED
      BY <3>1, <3>2 DEF Row
  <2>2. CASE k \in DOMAIN alerts
    <3>1. alerts[k].hit_count \in 1..MaxHit
      BY <1>0, <2>2 DEF TableType, AlertType
    <3>2. /\ Merged(k, todo[r][k]) \in RowType /\ ~Merged(k, todo[r][k]).new
          /\ Merged(k, todo[r][k]).written = 0
             \/ Merged(k, todo[r][k]).was < Merged(k, todo[r][k]).written
      BY <1>0, <1>3, <3>1 DEF Merged, RowType
    <3>3. d = None \/ d = Row(k, Merged(k, todo[r][k]))
      BY <1>2, <2>2 DEF UpdateOf
    <3> QED
      BY <1>2, <2>2, <3>2, <3>3 DEF Row
  <2> QED
    BY <2>1, <2>2
<1>5. created' \in [Runs -> SUBSET Keys]
  BY <1>0, <1>4 DEF Shape
<1>6. Shape'
  BY <1>0, <1>1, <1>2, <1>5 DEF Shape
<1>7. \A q \in Runs : RunInv(q)'
  <2>1. ASSUME NEW q \in Runs, q # r PROVE RunInv(q)'
    <3>1. Untouched(q)
      BY <1>0, <1>1, <1>2, <1>4, <2>1 DEF Shape, Untouched
    <3> QED
      BY <3>1, UntouchedKeeps DEF Parts
  <2>2. RunInv(r)'
    <3>1. /\ dirty'[r] = d /\ DOMAIN todo'[r] = DOMAIN todo[r] \ {k}
          /\ \A j \in DOMAIN todo'[r] : todo'[r][j] = todo[r][j]
      BY <1>0, <1>1, <1>2 DEF Shape, Restrict
    <3>2. DOMAIN dirty[r] = {} /\ DOMAIN None = {}
      BY <1>1, NoneEmpty
    <3>3. k \notin created[r] /\ k \notin DOMAIN tx[r]
      BY <1>0, <1>1, <3>2 DEF RunInv, RowsOfRun
    <3> DEFINE D == dirty'[r]
               C == created'[r]
    <3>4. /\ RunType(r) /\ RunPlace(r) /\ RowsOfRun(r) /\ tx'[r] = tx[r] /\ pc'[r] = "persist"
          /\ \/ DOMAIN D = {} /\ D = None /\ C = created[r]
             \/ /\ DOMAIN D = {k} /\ D[k] \in RowType
                /\ \/ D[k].new /\ D[k].written # 0 /\ C = created[r] \cup {k}
                   \/ /\ ~D[k].new /\ C = created[r]
                      /\ D[k].written = 0 \/ D[k].was < D[k].written
      BY <1>0, <1>1, <1>4, <3>1, <3>2 DEF RunInv, Shape
    <3>5. RunType(r)' /\ RunPlace(r)'
      <4>1. RunType(r)'
        BY <3>1, <3>4 DEF RunType
      <4>2. created[r] \subseteq C
        BY <3>4
      <4>3. RunPlace(r)'
        BY <1>1, <3>4, <4>2 DEF RunPlace
      <4> QED
        BY <4>1, <4>3
    <3>6. RowsOfRun(r)'
      <4>1. /\ DOMAIN todo'[r] \cap DOMAIN D = {} /\ DOMAIN todo'[r] \cap DOMAIN tx'[r] = {}
            /\ DOMAIN D \cap DOMAIN tx'[r] = {}
        BY <3>1, <3>3, <3>4 DEF RowsOfRun
      <4>2. \A j \in Keys : j \in created[r] <=> j \in DOMAIN tx[r] /\ tx[r][j].new
        BY <3>2, <3>4 DEF RowsOfRun
      <4>3. \A j \in Keys : j \in C <=> \/ j \in DOMAIN D /\ D[j].new
                                        \/ j \in DOMAIN tx'[r] /\ tx'[r][j].new
        BY <3>3, <3>4, <4>2
      <4>4. \A j \in DOMAIN tx[r] : /\ tx[r][j].new => tx[r][j].written # 0
                                   /\ ~tx[r][j].new => \/ tx[r][j].written = 0
                                                       \/ tx[r][j].was < tx[r][j].written
        BY <3>4 DEF RowsOfRun
      <4>5. \A j \in DOMAIN D : /\ D[j].new => D[j].written # 0
                                /\ ~D[j].new => D[j].written = 0 \/ D[j].was < D[j].written
        BY <3>4
      <4> QED
        BY <3>4, <4>1, <4>3, <4>4, <4>5 DEF RowsOfRun
    <3>7. Remembered(r)'
      BY <1>1 DEF Remembered
    <3> QED
      BY <3>5, <3>6, <3>7 DEF RunInv
  <2> QED
    BY <2>1, <2>2
<1>8. LocksHold' /\ PagesCounted' /\ PurgesKept' /\ TableType' /\ ToldWhenStored' /\ TriageSurvives'
  BY <1>1 DEF Parts, LocksHold, PagesCounted, PurgesKept, TableType, ToldWhenStored, TriageSurvives
<1> QED
  BY <1>6, <1>7, <1>8 DEF Parts

(* A flush takes the lock of its row: nobody else has it, and an INSERT      *)
(* finds the key free, an UPDATE its row there.                              *)
LEMMA FlushKeeps ==
  ASSUME Parts, NEW r \in Runs, Flush(r)
  PROVE  Parts'
<1> USE DEF bounds, history
<1>0. Shape /\ RunInv(r) /\ LocksHold
  BY DEF Parts
<1>1. PICK k \in DOMAIN dirty[r] : Holders(r, k) = {} /\ Writable(r, k)
  BY DEF Flush
<1>2. /\ tx' = [tx EXCEPT ![r] = OnTop(tx[r], dirty[r])] /\ dirty' = [dirty EXCEPT ![r] = None]
      /\ UNCHANGED <<deployment, alerts, pc, todo, created, toSend, overflow, paged, silent, purges,
                     told, silenced, attempts, wasted, purged, triage>>
  BY <1>0 DEF Flush, Shape
<1>3. DOMAIN dirty[r] = {k} /\ k \in Keys /\ dirty[r][k] \in RowType /\ k \notin DOMAIN tx[r]
  BY <1>0, <1>1, NoneEmpty DEF RunInv, RunType, RowsOfRun
<1>4. /\ dirty'[r] = None /\ DOMAIN tx'[r] = DOMAIN tx[r] \cup {k} /\ tx'[r][k] = dirty[r][k]
      /\ \A j \in DOMAIN tx[r] : tx'[r][j] = tx[r][j]
      /\ \A q \in Runs : q # r => tx'[q] = tx[q]
  BY <1>0, <1>2, <1>3 DEF Shape, OnTop
<1>5. \A q \in Runs \ {r} : k \notin DOMAIN tx[q]
  BY <1>1, NoneEmpty DEF Holders
<1>6. dirty[r][k].new <=> k \notin DOMAIN alerts
  BY <1>1, <1>3 DEF Writable, RowType
<1>7. Shape'
  BY <1>0, <1>2 DEF Shape
<1>8. \A q \in Runs : RunInv(q)'
  <2>1. ASSUME NEW q \in Runs, q # r PROVE RunInv(q)'
    <3>1. Untouched(q)
      BY <1>0, <1>2, <1>4, <2>1 DEF Shape, Untouched
    <3> QED
      BY <3>1, UntouchedKeeps DEF Parts
  <2>2. RunInv(r)'
    <3>1. DOMAIN None = {}
      BY NoneEmpty
    <3>2. pc[r] = "persist"
      BY <1>0, <1>1, <3>1 DEF RunInv, RunPlace, Shape
    <3>3. RunType(r)'
      BY <1>0, <1>2, <1>3, <1>4, <3>1 DEF RunInv, RunType
    <3>4. RunPlace(r)'
      BY <1>0, <1>2, <3>2 DEF RunInv, RunPlace
    <3>5. RowsOfRun(r)'
      BY <1>0, <1>2, <1>3, <1>4, <3>1 DEF RunInv, RowsOfRun
    <3>6. Remembered(r)'
      BY <1>2, <3>2 DEF Remembered
    <3> QED
      BY <3>3, <3>4, <3>5, <3>6 DEF RunInv
  <2> QED
    BY <2>1, <2>2
<1>9. LocksHold'
  BY <1>0, <1>2, <1>4, <1>5, <1>6 DEF LocksHold
<1>10. PagesCounted' /\ PurgesKept' /\ TableType' /\ ToldWhenStored' /\ TriageSurvives'
  BY <1>2 DEF Parts, PagesCounted, PurgesKept, TableType, ToldWhenStored, TriageSurvives
<1> QED
  BY <1>7, <1>8, <1>9, <1>10 DEF Parts

-----------------------------------------------------------------------------
(* The notifier *)

(* A step of the notifier changes what run r has sent and will send; the     *)
(* rows, the table and the other runs stay as they are.                      *)
NotifierFrame(r) ==
  /\ UNCHANGED <<deployment, alerts, todo, dirty, tx, created, purges, told, silenced, wasted,
                 purged, triage>>
  /\ \A q \in Runs : q # r => /\ pc'[q] = pc[q] /\ toSend'[q] = toSend[q]
                              /\ overflow'[q] = overflow[q] /\ paged'[q] = paged[q]
                              /\ silent'[q] = silent[q]

LEMMA NotifierKeeps ==
  ASSUME Parts, NEW r \in Runs, NotifierFrame(r), Shape', RunPlace(r)', Remembered(r)',
         PagesCounted'
  PROVE  Parts'
<1>0. NotifierFrame(r)!1
  BY DEF NotifierFrame
<1>1. ASSUME NEW q \in Runs, q # r PROVE RunInv(q)'
  <2>1. Untouched(q)
    BY <1>1 DEF NotifierFrame, Untouched
  <2> QED
    BY <2>1, UntouchedKeeps DEF Parts
<1>2. RunInv(r)'
  <2>1. RunType(r) /\ RowsOfRun(r)
    BY DEF Parts, RunInv
  <2>2. RunType(r)' /\ RowsOfRun(r)'
    BY <1>0, <2>1 DEF RunType, RowsOfRun
  <2> QED
    BY <2>2 DEF RunInv
<1>3. LocksHold' /\ PurgesKept' /\ TableType' /\ ToldWhenStored' /\ TriageSurvives'
  BY <1>0 DEF Parts, LocksHold, PurgesKept, TableType, ToldWhenStored, TriageSurvives
<1> QED
  BY <1>1, <1>2, <1>3 DEF Parts

(* persist_alerts is done: every eligible alert goes to to_send or counts as *)
(* overflow.                                                                 *)
LEMMA BeginNotifyKeeps ==
  ASSUME Parts, NEW r \in Runs, BeginNotify(r)
  PROVE  Parts'
<1> USE DEF bounds, history
<1>0. Shape /\ RunPlace(r) /\ RunInv(r)
  BY DEF Parts, RunInv
<1>1. /\ pc[r] = "persist" /\ todo[r] = None /\ dirty[r] = None
      /\ UNCHANGED <<deployment, alerts, todo, dirty, tx, created, paged, silent, purges,
                     told, silenced, attempts, wasted, purged, triage>>
  BY DEF BeginNotify, Persisted
<1>2. toSend[r] = {} /\ overflow[r] = {} /\ paged[r] = {} /\ silent[r] = {}
  BY <1>0, <1>1 DEF RunPlace
<1>3. PagesCounted'
  BY <1>1 DEF Parts, PagesCounted
<1>4. CASE deployment.webhook /\ created[r] # {}
  <2>1. PICK S \in SUBSET Eligible(r) :
               /\ toSend' = [toSend EXCEPT ![r] = S]
               /\ overflow' = [overflow EXCEPT ![r] = Eligible(r) \ S]
    BY <1>4 DEF BeginNotify, Capped
  <2>2. pc' = [pc EXCEPT ![r] = "notify"]
    BY <1>4 DEF BeginNotify
  <2>3. Eligible(r) \subseteq created[r] /\ created[r] \subseteq Keys
    BY <1>0 DEF Eligible, Shape
  <2>4. Shape'
    BY <1>0, <1>1, <2>1, <2>2, <2>3 DEF Shape, RunPcs
  <2>5. toSend'[r] = S /\ overflow'[r] = Eligible(r) \ S /\ pc'[r] = "notify"
    BY <1>0, <2>1, <2>2 DEF Shape
  <2>6. RunPlace(r)'
    BY <1>1, <1>2, <2>1, <2>3, <2>5 DEF RunPlace
  <2>7. Eligible(r)' = Eligible(r)
    BY <1>1 DEF Eligible, Passes
  <2>8. Remembered(r)'
    BY <2>1, <2>5, <2>7 DEF Remembered
  <2>9. NotifierFrame(r)
    BY <1>0, <1>1, <2>1, <2>2 DEF NotifierFrame, Shape
  <2> QED
    BY <1>3, <2>4, <2>6, <2>8, <2>9, NotifierKeeps
<1>5. CASE ~(deployment.webhook /\ created[r] # {})
  <2>1. pc' = [pc EXCEPT ![r] = "commit"] /\ UNCHANGED <<toSend, overflow>>
    BY <1>5 DEF BeginNotify
  <2>2. Shape'
    BY <1>0, <1>1, <2>1 DEF Shape, RunPcs
  <2>3. pc'[r] = "commit"
    BY <1>0, <2>1 DEF Shape
  <2>4. RunPlace(r)'
    BY <1>0, <1>1, <1>2, <2>1, <2>3 DEF RunPlace
  <2>5. deployment'.webhook => Eligible(r)' = {}
    BY <1>1, <1>5 DEF Eligible
  <2>6. Remembered(r)'
    BY <2>5 DEF Remembered
  <2>7. NotifierFrame(r)
    BY <1>0, <1>1, <2>1 DEF NotifierFrame, Shape
  <2> QED
    BY <1>3, <2>2, <2>4, <2>6, <2>7, NotifierKeeps
<1> QED
  BY <1>4, <1>5

(* A call for a key: its INSERT is flushed, so the table has no row of it    *)
(* and no other run can have called for it.                                  *)
LEMMA NobodyElsePaged ==
  ASSUME Parts, NEW r \in Runs, NEW k \in Keys, pc[r] = "notify", k \in toSend[r]
  PROVE  k \notin DOMAIN alerts /\ \A q \in Runs : k \notin paged[q]
<1>1. ASSUME NEW q \in Runs, k \in created[q], pc[q] \in {"notify", "commit"}
      PROVE  k \in DOMAIN tx[q] /\ tx[q][k].new
  <2>1. RunPlace(q) /\ RowsOfRun(q)
    BY DEF Parts, RunInv
  <2>2. DOMAIN dirty[q] = {}
    BY <1>1, <2>1, NoneEmpty DEF RunPlace
  <2> QED
    BY <1>1, <2>1, <2>2 DEF RowsOfRun
<1>2. \A q \in Runs : RunPlace(q) /\ pc[q] \in RunPcs
  BY DEF Parts, RunInv, Shape
<1>3. k \in created[r] /\ k \notin paged[r]
  BY <1>2 DEF RunPlace
<1>4. k \in DOMAIN tx[r] /\ tx[r][k].new
  BY <1>1, <1>3
<1>5. k \notin DOMAIN alerts
  BY <1>4 DEF Parts, LocksHold
<1>6. ASSUME NEW q \in Runs, q # r, k \in paged[q] PROVE FALSE
  <2>1. k \in created[q] /\ pc[q] \in {"notify", "commit"}
    BY <1>2, <1>6 DEF RunPlace, RunPcs
  <2>2. k \in DOMAIN tx[q]
    BY <1>1, <2>1
  <2>3. DOMAIN tx[r] \cap DOMAIN tx[q] = {}
    BY <1>6 DEF Parts, LocksHold
  <2> QED
    BY <1>4, <2>2, <2>3
<1> QED
  BY <1>3, <1>5, <1>6

LEMMA CallIsCounted ==
  ASSUME Parts, NEW r \in Runs, NEW k \in Keys, pc[r] = "notify", k \in toSend[r],
         UNCHANGED <<alerts, wasted, purged>>,
         paged' = [paged EXCEPT ![r] = paged[r] \cup {k}],
         attempts' = [attempts EXCEPT ![k] = attempts[k] + 1]
  PROVE  PagesCounted'
<1>0. Shape
  BY DEF Parts
<1> SUFFICES ASSUME NEW j \in Keys
             PROVE  attempts'[j] <= wasted'[j] + purged'[j]
                      + (IF j \in DOMAIN alerts' \/ \E q \in Runs : j \in paged'[q] THEN 1 ELSE 0)
  BY DEF PagesCounted
<1>1. attempts[j] <= wasted[j] + purged[j]
                     + (IF j \in DOMAIN alerts \/ \E q \in Runs : j \in paged[q] THEN 1 ELSE 0)
  BY DEF Parts, PagesCounted
<1>2. attempts[j] \in Nat /\ wasted[j] \in Nat /\ purged[j] \in Nat
  BY <1>0 DEF Shape
<1>3. paged'[r] = paged[r] \cup {k} /\ \A q \in Runs : q # r => paged'[q] = paged[q]
  BY <1>0 DEF Shape
<1>4. CASE j = k
  <2>1. attempts'[j] = attempts[j] + 1
    BY <1>0, <1>4 DEF Shape
  <2>2. ~(j \in DOMAIN alerts \/ \E q \in Runs : j \in paged[q])
    BY <1>4, NobodyElsePaged
  <2>3. j \in paged'[r]
    BY <1>3, <1>4
  <2> QED
    BY <1>1, <1>2, <2>1, <2>2, <2>3
<1>5. CASE j # k
  <2>1. attempts'[j] = attempts[j]
    BY <1>0, <1>5 DEF Shape
  <2>2. (\E q \in Runs : j \in paged[q]) => \E q \in Runs : j \in paged'[q]
    BY <1>3
  <2> QED
    BY <1>1, <1>2, <2>1, <2>2
<1> QED
  BY <1>4, <1>5

LEMMA SendKeeps ==
  ASSUME Parts, NEW r \in Runs, NEW k \in Keys, Send(r, k) \/ SendRaises(r, k)
  PROVE  Parts'
<1> USE DEF bounds, history
<1>0. Shape /\ RunPlace(r) /\ Remembered(r) /\ created[r] \subseteq Keys
  BY DEF Parts, RunInv, Shape
<1>1. /\ pc[r] = "notify" /\ k \in toSend[r]
      /\ paged' = [paged EXCEPT ![r] = paged[r] \cup {k}]
      /\ attempts' = [attempts EXCEPT ![k] = attempts[k] + 1]
      /\ UNCHANGED <<deployment, alerts, todo, dirty, tx, created, purges, told, silenced,
                     wasted, purged, triage>>
  BY <1>0 DEF Send, SendRaises, Shape
<1>2. PagesCounted'
  BY <1>1, CallIsCounted
<1>3. paged'[r] = paged[r] \cup {k} /\ Eligible(r)' = Eligible(r)
  BY <1>0, <1>1 DEF Shape, Eligible, Passes
<1>4. CASE Send(r, k)
  <2>1. toSend' = [toSend EXCEPT ![r] = toSend[r] \ {k}] /\ UNCHANGED <<pc, overflow, silent>>
    BY <1>0, <1>4 DEF Send, Shape
  <2>2. Shape'
    BY <1>0, <1>1, <2>1 DEF Shape
  <2>3. toSend'[r] = toSend[r] \ {k}
    BY <1>0, <2>1 DEF Shape
  <2>4. RunPlace(r)'
    BY <1>0, <1>1, <1>3, <2>1, <2>3 DEF RunPlace
  <2>5. Remembered(r)'
    BY <1>0, <1>1, <1>3, <2>1, <2>3 DEF Remembered
  <2>6. NotifierFrame(r)
    BY <1>0, <1>1, <2>1 DEF NotifierFrame, Shape
  <2> QED
    BY <1>2, <2>2, <2>4, <2>5, <2>6, NotifierKeeps
<1>5. CASE SendRaises(r, k)
  <2>1. /\ toSend' = [toSend EXCEPT ![r] = {}] /\ overflow' = [overflow EXCEPT ![r] = {}]
        /\ silent' = [silent EXCEPT ![r] = (toSend[r] \ {k}) \cup overflow[r]]
        /\ pc' = [pc EXCEPT ![r] = "commit"]
    BY <1>5 DEF SendRaises
  <2>2. Shape'
    BY <1>0, <1>1, <2>1 DEF Shape, RunPcs
  <2>3. /\ toSend'[r] = {} /\ overflow'[r] = {} /\ silent'[r] = (toSend[r] \ {k}) \cup overflow[r]
        /\ pc'[r] = "commit"
    BY <1>0, <2>1 DEF Shape
  <2>4. RunPlace(r)'
    BY <1>0, <1>1, <1>3, <2>3 DEF RunPlace
  <2>5. Remembered(r)'
    <3>1. silent[r] = {}
      BY <1>0, <1>1 DEF RunPlace
    <3> QED
      BY <1>0, <1>1, <1>3, <2>3, <3>1 DEF Remembered
  <2>6. NotifierFrame(r)
    BY <1>0, <1>1, <2>1 DEF NotifierFrame, Shape
  <2> QED
    BY <1>2, <2>2, <2>4, <2>5, <2>6, NotifierKeeps
<1> QED
  BY <1>4, <1>5

LEMMA SendSummaryKeeps ==
  ASSUME Parts, NEW r \in Runs, SendSummary(r)
  PROVE  Parts'
<1> USE DEF bounds, history
<1>0. Shape /\ RunPlace(r) /\ Remembered(r)
  BY DEF Parts, RunInv
<1>1. /\ pc[r] = "notify" /\ toSend[r] = {} /\ pc' = [pc EXCEPT ![r] = "commit"]
      /\ UNCHANGED <<deployment, alerts, todo, dirty, tx, created, toSend, overflow, paged, silent,
                     purges, told, silenced, attempts, wasted, purged, triage>>
  BY DEF SendSummary
<1>2. Shape'
  BY <1>0, <1>1 DEF Shape, RunPcs
<1>3. pc'[r] = "commit" /\ Eligible(r)' = Eligible(r)
  BY <1>0, <1>1 DEF Shape, Eligible, Passes
<1>4. RunPlace(r)' /\ Remembered(r)'
  BY <1>0, <1>1, <1>3 DEF RunPlace, Remembered
<1>5. NotifierFrame(r)
  BY <1>0, <1>1 DEF NotifierFrame, Shape
<1>6. PagesCounted'
  BY <1>1 DEF Parts, PagesCounted
<1> QED
  BY <1>2, <1>4, <1>5, <1>6, NotifierKeeps

-----------------------------------------------------------------------------
(* The end of a run *)

(* A session that ends leaves its run idle and holds nothing; the others     *)
(* notice only that its locks are gone.                                      *)
LEMMA EndsLeavesNothing ==
  ASSUME Parts, NEW r \in Runs, Ends(r)
  PROVE  /\ \A q \in Runs : RunInv(q)'
         /\ pc' \in [Runs -> RunPcs] /\ pc'[r] = "idle"
         /\ DOMAIN todo' = Runs /\ DOMAIN dirty' = Runs /\ DOMAIN tx' = Runs
         /\ created' \in [Runs -> SUBSET Keys] /\ toSend' \in [Runs -> SUBSET Keys]
         /\ overflow' \in [Runs -> SUBSET Keys] /\ paged' \in [Runs -> SUBSET Keys]
         /\ silent' \in [Runs -> SUBSET Keys]
         /\ DOMAIN tx'[r] = {} /\ paged'[r] = {}
         /\ \A q \in Runs : q # r => tx'[q] = tx[q] /\ paged'[q] = paged[q]
<1>0. Shape
  BY DEF Parts
<1>1. /\ pc'[r] = "idle" /\ todo'[r] = None /\ dirty'[r] = None /\ tx'[r] = None
      /\ created'[r] = {} /\ toSend'[r] = {} /\ overflow'[r] = {} /\ paged'[r] = {}
      /\ silent'[r] = {}
  BY <1>0 DEF Ends, Shape
<1>2. DOMAIN None = {}
  BY NoneEmpty
<1>3. RunInv(r)'
  BY <1>1, <1>2 DEF RunInv, RunType, RunPlace, RowsOfRun, Remembered
<1>4. ASSUME NEW q \in Runs, q # r
      PROVE  RunInv(q)' /\ tx'[q] = tx[q] /\ paged'[q] = paged[q]
  <2>1. Untouched(q)
    BY <1>0, <1>4 DEF Ends, Shape, Untouched
  <2>2. RunInv(q)'
    BY <2>1, UntouchedKeeps DEF Parts
  <2> QED
    BY <2>1, <2>2 DEF Untouched
<1>5. /\ pc' \in [Runs -> RunPcs]
      /\ DOMAIN todo' = Runs /\ DOMAIN dirty' = Runs /\ DOMAIN tx' = Runs
      /\ created' \in [Runs -> SUBSET Keys] /\ toSend' \in [Runs -> SUBSET Keys]
      /\ overflow' \in [Runs -> SUBSET Keys] /\ paged' \in [Runs -> SUBSET Keys]
      /\ silent' \in [Runs -> SUBSET Keys]
  BY <1>0 DEF Ends, Shape, RunPcs
<1> QED
  BY <1>1, <1>2, <1>3, <1>4, <1>5

(* Whoever does not commit: a refused flush, a wait given up, "make detect", *)
(* a crash.  The calls of the webhook it has made are wasted.                *)
LEMMA RollbackKeeps ==
  ASSUME Parts, NEW r \in Runs, Rollback(r)
  PROVE  Parts'
<1>0. Shape /\ Ends(r)
  BY DEF Parts, Rollback
<1>1. UNCHANGED <<deployment, alerts, triggers, purges, told, silenced, attempts, purged, triage>>
      /\ wasted' = [k \in Keys |-> wasted[k] + (IF k \in paged[r] THEN 1 ELSE 0)]
  BY DEF Rollback, Ends
<1>2. Shape'
  BY <1>0, <1>1, EndsLeavesNothing DEF Shape
<1>3. LocksHold'
  <2>1. /\ DOMAIN tx'[r] = {} /\ alerts' = alerts
        /\ \A q \in Runs : q # r => tx'[q] = tx[q]
    BY <1>0, <1>1, EndsLeavesNothing
  <2>2. LocksHold
    BY DEF Parts
  <2> QED
    BY <2>1, <2>2 DEF LocksHold
<1>4. PagesCounted'
  <2> SUFFICES ASSUME NEW k \in Keys
               PROVE  attempts'[k] <= wasted'[k] + purged'[k]
                        + (IF k \in DOMAIN alerts' \/ \E q \in Runs : k \in paged'[q] THEN 1 ELSE 0)
    BY DEF PagesCounted
  <2>1. attempts[k] <= wasted[k] + purged[k]
                       + (IF k \in DOMAIN alerts \/ \E q \in Runs : k \in paged[q] THEN 1 ELSE 0)
    BY DEF Parts, PagesCounted
  <2>2. attempts[k] \in Nat /\ wasted[k] \in Nat /\ purged[k] \in Nat
    BY <1>0 DEF Shape
  <2>3. \A q \in Runs : q # r => paged'[q] = paged[q]
    BY <1>0, EndsLeavesNothing
  <2>4. CASE k \in paged[r]
    <3>1. wasted'[k] = wasted[k] + 1
      BY <1>1, <2>4
    <3> QED
      BY <1>1, <2>1, <2>2, <3>1
  <2>5. CASE k \notin paged[r]
    <3>1. wasted'[k] = wasted[k] + 0
      BY <1>1, <2>5
    <3>2. (\E q \in Runs : k \in paged[q]) => \E q \in Runs : k \in paged'[q]
      BY <2>3, <2>5
    <3> QED
      BY <1>1, <2>1, <2>2, <3>1, <3>2
  <2> QED
    BY <2>4, <2>5
<1>5. PurgesKept' /\ TableType' /\ ToldWhenStored' /\ TriageSurvives'
  BY <1>1 DEF Parts, PurgesKept, TableType, ToldWhenStored, TriageSurvives
<1> QED
  BY <1>0, <1>2, <1>3, <1>4, <1>5, EndsLeavesNothing DEF Parts

(* What a commit writes: the new rows are the alerts the run has created,    *)
(* with the default status; an update leaves the status alone.               *)
LEMMA CommittedRows ==
  ASSUME Parts, NEW r \in Runs, Commit(r)
  PROVE  /\ \A k \in Keys : k \in created[r] <=> k \in DOMAIN tx[r] /\ k \notin DOMAIN alerts
         /\ DOMAIN alerts' = DOMAIN alerts \cup DOMAIN tx[r]
         /\ \A k \in DOMAIN tx[r] :
              /\ alerts'[k] = Stored(r, k) /\ alerts'[k] \in AlertType
              /\ alerts'[k].status = IF k \in created[r] THEN "new" ELSE alerts[k].status
         /\ \A k \in DOMAIN alerts \ DOMAIN tx[r] : alerts'[k] = alerts[k]
<1>0. RunType(r) /\ RunPlace(r) /\ RowsOfRun(r) /\ TableType /\ MaxHit \in Nat /\ "new" \in Statuses
  BY AlertStoreAssumption DEF Parts, RunInv
<1>1. DOMAIN dirty[r] = {}
  BY <1>0, NoneEmpty DEF Commit, RunPlace
<1>2. \A k \in DOMAIN tx[r] : k \in Keys /\ tx[r][k] \in RowType
                              /\ (tx[r][k].new <=> k \notin DOMAIN alerts)
  BY <1>0 DEF RunType, Parts, LocksHold
<1>3. \A k \in Keys : k \in created[r] <=> k \in DOMAIN tx[r] /\ k \notin DOMAIN alerts
  BY <1>0, <1>1, <1>2 DEF RowsOfRun
<1>4. alerts' = OnTop([k \in DOMAIN tx[r] |-> Stored(r, k)], alerts)
  BY DEF Commit
<1>5. /\ DOMAIN alerts' = DOMAIN alerts \cup DOMAIN tx[r]
      /\ \A k \in DOMAIN tx[r] : alerts'[k] = Stored(r, k)
      /\ \A k \in DOMAIN alerts \ DOMAIN tx[r] : alerts'[k] = alerts[k]
  BY <1>4 DEF OnTop
<1>6. ASSUME NEW k \in DOMAIN tx[r]
      PROVE  Stored(r, k) \in AlertType
             /\ Stored(r, k).status = IF k \in created[r] THEN "new" ELSE alerts[k].status
  <2>1. CASE tx[r][k].new
    <3>1. tx[r][k].written \in 1..MaxHit
      BY <1>0, <1>2, <2>1 DEF RowsOfRun, RowType
    <3>2. Stored(r, k) = [hit_count |-> tx[r][k].written, status |-> "new"] /\ k \in created[r]
      BY <1>2, <1>3, <2>1 DEF Stored
    <3> QED
      BY <1>0, <3>1, <3>2 DEF AlertType
  <2>2. CASE ~tx[r][k].new
    <3>1. alerts[k] \in AlertType /\ k \notin created[r]
      BY <1>0, <1>2, <1>3, <2>2 DEF TableType
    <3>2. tx[r][k].written = 0 => Stored(r, k) = alerts[k]
      BY <2>2 DEF Stored
    <3>3. tx[r][k].written # 0 =>
            /\ Stored(r, k) = [alerts[k] EXCEPT !.hit_count = tx[r][k].written]
            /\ tx[r][k].written \in 1..MaxHit
      BY <1>0, <1>2, <2>2 DEF Stored, RowType
    <3> QED
      BY <3>1, <3>2, <3>3 DEF AlertType
  <2> QED
    BY <2>1, <2>2
<1> QED
  BY <1>3, <1>5, <1>6

LEMMA CommitKeeps ==
  ASSUME Parts, NEW r \in Runs, Commit(r)
  PROVE  Parts'
<1>0. Shape /\ RunPlace(r) /\ Remembered(r) /\ RunType(r) /\ Ends(r) /\ "new" \in Statuses
  BY AlertStoreAssumption DEF Parts, RunInv, Commit
<1>1. /\ told' = told \cup paged[r] \cup overflow[r] /\ silenced' = silenced \cup silent[r]
      /\ triage' = [k \in Keys |-> IF k \in created[r] THEN "new" ELSE triage[k]]
      /\ UNCHANGED <<deployment, triggers, purges, attempts, wasted, purged>> /\ pc[r] = "commit"
  BY DEF Commit, Ends
<1>2. Shape'
  <2>1. told' \subseteq Keys /\ silenced' \subseteq Keys /\ triage' \in [Keys -> Statuses]
    BY <1>0, <1>1 DEF Shape
  <2> QED
    BY <1>0, <1>1, <2>1, EndsLeavesNothing DEF Shape
<1> DEFINE T == DOMAIN tx[r]
           A == DOMAIN alerts
<1>3. /\ DOMAIN alerts' = A \cup T /\ T \subseteq Keys
      /\ \A k \in Keys : k \in created[r] <=> k \in T /\ k \notin A
  BY <1>0, CommittedRows DEF RunType
<1>4. \A k \in T : alerts'[k] \in AlertType
                   /\ alerts'[k].status = IF k \in created[r] THEN "new" ELSE alerts[k].status
  BY CommittedRows
<1>5. \A k \in A \ T : alerts'[k] = alerts[k]
  BY CommittedRows
<1>6. A \subseteq Keys /\ \A k \in A : alerts[k] \in AlertType /\ alerts[k].status = triage[k]
  BY DEF Parts, TableType, TriageSurvives
<1>7. TableType'
  <2>1. \A k \in A \cup T : alerts'[k] \in AlertType
    BY <1>4, <1>5, <1>6
  <2> QED
    BY <1>3, <1>6, <2>1 DEF TableType, AlertType
<1>8. TriageSurvives'
  <2> SUFFICES ASSUME NEW k \in A \cup T PROVE alerts'[k].status = triage'[k]
    BY <1>3 DEF TriageSurvives
  <2>1. CASE k \in T
    BY <1>1, <1>3, <1>4, <1>6, <2>1
  <2>2. CASE k \in A \ T
    BY <1>1, <1>3, <1>5, <1>6, <2>2
  <2> QED
    BY <2>1, <2>2
<1>9. LocksHold'
  <2>1. /\ DOMAIN tx'[r] = {} /\ \A q \in Runs : q # r => tx'[q] = tx[q]
    BY <1>0, EndsLeavesNothing
  <2>2. /\ \A q \in Runs : \A k \in DOMAIN tx[q] : tx[q][k].new <=> k \notin A
        /\ \A q \in Runs : q # r => DOMAIN tx[q] \cap T = {}
        /\ \A p, q \in Runs : p # q => DOMAIN tx[p] \cap DOMAIN tx[q] = {}
    BY DEF Parts, LocksHold
  <2> QED
    BY <1>3, <2>1, <2>2 DEF LocksHold
<1>10. PagesCounted'
  <2> SUFFICES ASSUME NEW k \in Keys
               PROVE  attempts'[k] <= wasted'[k] + purged'[k]
                        + (IF k \in DOMAIN alerts' \/ \E q \in Runs : k \in paged'[q] THEN 1 ELSE 0)
    BY DEF PagesCounted
  <2>1. attempts[k] <= wasted[k] + purged[k]
                       + (IF k \in A \/ \E q \in Runs : k \in paged[q] THEN 1 ELSE 0)
    BY DEF Parts, PagesCounted
  <2>2. attempts[k] \in Nat /\ wasted[k] \in Nat /\ purged[k] \in Nat
    BY <1>0 DEF Shape
  <2>3. \A q \in Runs : q # r => paged'[q] = paged[q]
    BY <1>0, EndsLeavesNothing
  <2>4. k \in paged[r] => k \in T
    BY <1>0, <1>3 DEF RunPlace
  <2>5. k \in A \/ (\E q \in Runs : k \in paged[q])
          => k \in DOMAIN alerts' \/ \E q \in Runs : k \in paged'[q]
    BY <1>3, <2>3, <2>4
  <2> QED
    BY <1>1, <2>1, <2>2, <2>5
<1>11. ToldWhenStored'
  <2> SUFFICES ASSUME NEW k \in A \cup T, deployment.webhook, Rank[k] >= deployment.min_rank
               PROVE  k \in told' \cup silenced'
    BY <1>1, <1>3 DEF ToldWhenStored
  <2>1. CASE k \in A
    BY <1>1, <2>1 DEF Parts, ToldWhenStored
  <2>2. CASE k \notin A
    <3>1. k \in Eligible(r)
      BY <1>3, <2>2 DEF Eligible, Passes
    <3>2. toSend[r] = {}
      BY <1>0, <1>1 DEF RunPlace
    <3>3. k \in overflow[r] \cup paged[r] \cup silent[r]
      BY <1>0, <1>1, <3>1, <3>2 DEF Remembered
    <3> QED
      BY <1>1, <3>3
  <2> QED
    BY <2>1, <2>2
<1>12. PurgesKept'
  BY <1>1 DEF Parts, PurgesKept
<1> QED
  BY <1>0, <1>2, <1>7, <1>8, <1>9, <1>10, <1>11, <1>12, EndsLeavesNothing DEF Parts

-----------------------------------------------------------------------------
(* Triage and retention *)

LEMMA UpdateAlertKeeps ==
  ASSUME Parts, NEW k \in Keys, NEW status \in Statuses, UpdateAlert(k, status)
  PROVE  Parts'
<1> USE DEF bounds, history, runVars
<1>0. Shape /\ TableType
  BY DEF Parts
<1>1. /\ k \in DOMAIN alerts /\ alerts' = [alerts EXCEPT ![k].status = status]
      /\ triage' = [triage EXCEPT ![k] = status]
      /\ UNCHANGED <<deployment, pc, todo, dirty, tx, created, toSend, overflow, paged, silent,
                     purges, told, silenced, attempts, wasted, purged>>
  BY DEF UpdateAlert
<1>2. /\ DOMAIN alerts' = DOMAIN alerts /\ alerts'[k] = [alerts[k] EXCEPT !.status = status]
      /\ \A j \in DOMAIN alerts \ {k} : alerts'[j] = alerts[j]
  BY <1>1
<1>3. Shape'
  BY <1>0, <1>1 DEF Shape
<1>4. TableType'
  <2>1. alerts'[k] \in AlertType
    BY <1>0, <1>1, <1>2 DEF TableType, AlertType
  <2>2. \A j \in DOMAIN alerts : alerts'[j] \in AlertType
    BY <1>0, <1>2, <2>1 DEF TableType
  <2> QED
    BY <1>0, <1>2, <2>2 DEF TableType, AlertType
<1>5. TriageSurvives'
  <2>1. alerts'[k].status = status /\ triage'[k] = status
    BY <1>0, <1>1, <1>2 DEF Shape, TableType, AlertType
  <2>2. \A j \in DOMAIN alerts \ {k} : triage'[j] = triage[j]
    BY <1>0, <1>1 DEF Shape, TableType
  <2> QED
    BY <1>2, <2>1, <2>2 DEF Parts, TriageSurvives
<1>6. \A q \in Runs : RunInv(q)'
  <2> SUFFICES ASSUME NEW q \in Runs PROVE RunInv(q)'
    OBVIOUS
  <2>1. Untouched(q)
    BY <1>1 DEF Untouched
  <2> QED
    BY <2>1, UntouchedKeeps DEF Parts
<1>7. LocksHold' /\ PagesCounted' /\ ToldWhenStored' /\ PurgesKept'
  BY <1>1, <1>2 DEF Parts, LocksHold, PagesCounted, ToldWhenStored, PurgesKept
<1> QED
  BY <1>3, <1>4, <1>5, <1>6, <1>7 DEF Parts

(* The retention tool waits for the runs that have flushed a row it deletes. *)
LEMMA PurgeKeeps ==
  ASSUME Parts, PurgeAlerts
  PROVE  Parts'
<1> USE DEF bounds, history, runVars
<1>0. Shape /\ TableType /\ LocksHold /\ PurgesKept /\ MaxPurges \in Nat /\ "new" \in Statuses
  BY AlertStoreAssumption DEF Parts
<1>1. /\ purges < MaxPurges /\ purges' = purges + 1
      /\ UNCHANGED <<deployment, pc, todo, dirty, tx, created, toSend, overflow, paged, silent,
                     triggers, attempts, wasted>>
  BY DEF PurgeAlerts
<1>2. PICK old \in SUBSET DOMAIN alerts :
             /\ \A k \in old : ~Locked(k)
             /\ alerts' = Restrict(alerts, DOMAIN alerts \ old)
             /\ told' = told \ old /\ silenced' = silenced \ old
             /\ purged' = [k \in Keys |-> purged[k] + (IF k \in old THEN 1 ELSE 0)]
             /\ triage' = [k \in Keys |-> IF k \in old THEN "new" ELSE triage[k]]
  BY DEF PurgeAlerts
<1>3. /\ DOMAIN alerts' = DOMAIN alerts \ old
      /\ \A k \in DOMAIN alerts \ old : alerts'[k] = alerts[k]
  BY <1>2 DEF Restrict
<1>4. \A k \in Keys : purged[k] \in Nat
                      /\ purged'[k] = IF k \in old THEN purged[k] + 1 ELSE purged[k]
  BY <1>0, <1>2 DEF Shape
<1>5. Shape'
  <2>1. purged' \in [Keys -> Nat]
    BY <1>2, <1>4
  <2>2. triage' \in [Keys -> Statuses]
    BY <1>0, <1>2 DEF Shape
  <2> QED
    BY <1>0, <1>1, <1>2, <2>1, <2>2 DEF Shape
<1>6. PurgesKept'
  <2>1. purges \in 0..MaxPurges /\ \A k \in Keys : purged[k] <= purges
    BY <1>0 DEF PurgesKept
  <2>2. \A k \in Keys : purged'[k] <= purges + 1
    BY <1>4, <2>1
  <2> QED
    BY <1>0, <1>1, <2>1, <2>2 DEF PurgesKept
<1>7. TableType' /\ TriageSurvives' /\ ToldWhenStored'
  <2>1. \A k \in DOMAIN alerts \ old : k \in Keys /\ triage'[k] = triage[k]
    BY <1>0, <1>2 DEF TableType
  <2> QED
    BY <1>0, <1>1, <1>2, <1>3, <2>1 DEF Parts, TableType, TriageSurvives, ToldWhenStored, AlertType
<1>8. LocksHold'
  <2>1. \A q \in Runs : \A k \in old : k \notin DOMAIN tx[q]
    BY <1>2, NoneEmpty DEF Locked
  <2> QED
    BY <1>0, <1>1, <1>3, <2>1 DEF LocksHold
<1>9. \A q \in Runs : RunInv(q)'
  <2> SUFFICES ASSUME NEW q \in Runs PROVE RunInv(q)'
    OBVIOUS
  <2>1. Untouched(q)
    BY <1>1 DEF Untouched
  <2> QED
    BY <2>1, UntouchedKeeps DEF Parts
<1>10. PagesCounted'
  <2> SUFFICES ASSUME NEW k \in Keys
               PROVE  attempts'[k] <= wasted'[k] + purged'[k]
                        + (IF k \in DOMAIN alerts' \/ \E q \in Runs : k \in paged'[q] THEN 1 ELSE 0)
    BY DEF PagesCounted
  <2>1. attempts[k] <= wasted[k] + purged[k]
                       + (IF k \in DOMAIN alerts \/ \E q \in Runs : k \in paged[q] THEN 1 ELSE 0)
    BY DEF Parts, PagesCounted
  <2>2. attempts[k] \in Nat /\ wasted[k] \in Nat /\ purged[k] \in Nat
    BY <1>0 DEF Shape
  <2>3. CASE k \in old
    BY <1>1, <1>4, <2>1, <2>2, <2>3
  <2>4. CASE k \notin old
    <3>1. k \in DOMAIN alerts => k \in DOMAIN alerts'
      BY <1>3, <2>4
    <3> QED
      BY <1>1, <1>4, <2>1, <2>2, <2>4, <3>1
  <2> QED
    BY <2>3, <2>4
<1> QED
  BY <1>5, <1>6, <1>7, <1>8, <1>9, <1>10 DEF Parts

-----------------------------------------------------------------------------
(* The theorems *)

LEMMA AlertsStart == Init => Parts
<1> SUFFICES ASSUME Init PROVE Parts
  OBVIOUS
<1>0. DOMAIN None = {} /\ MaxPurges \in Nat /\ "new" \in Statuses
  BY NoneEmpty, AlertStoreAssumption
<1>1. Shape
  BY <1>0 DEF Init, Shape, RunPcs
<1>2. \A r \in Runs : RunInv(r)
  BY <1>0 DEF Init, RunInv, RunType, RunPlace, RowsOfRun, Remembered
<1>3. PurgesKept /\ LocksHold /\ PagesCounted
  BY <1>0 DEF Init, PurgesKept, LocksHold, PagesCounted
<1>4. TableType /\ ToldWhenStored /\ TriageSurvives
  BY <1>0 DEF Init, TableType, ToldWhenStored, TriageSurvives
<1> QED
  BY <1>1, <1>2, <1>3, <1>4 DEF Parts

LEMMA AlertsStep == Parts /\ [Next]_vars => Parts'
<1> SUFFICES ASSUME Parts, [Next]_vars PROVE Parts'
  OBVIOUS
<1>1. ASSUME NEW r \in Runs, RunStep(r) PROVE Parts'
  <2>1. ASSUME NEW k \in Keys, Lookup(r, k) \/ Send(r, k) \/ SendRaises(r, k) PROVE Parts'
    BY <2>1, LookupKeeps, SendKeeps
  <2>2. CASE Flush(r)
    BY <2>2, FlushKeeps
  <2>3. CASE FlushFails(r) \/ GiveUp(r) \/ NobodyCommits(r)
    <3>1. Rollback(r)
      BY <2>3 DEF FlushFails, GiveUp, NobodyCommits
    <3> QED
      BY <3>1, RollbackKeeps
  <2>4. CASE BeginNotify(r)
    BY <2>4, BeginNotifyKeeps
  <2>5. CASE SendSummary(r)
    BY <2>5, SendSummaryKeeps
  <2>6. CASE Commit(r)
    BY <2>6, CommitKeeps
  <2> QED
    BY <1>1, <2>1, <2>2, <2>3, <2>4, <2>5, <2>6 DEF RunStep
<1>2. ASSUME NEW r \in Runs, Trigger(r) \/ Fails(r) PROVE Parts'
  BY <1>2, TriggerKeeps, RollbackKeeps DEF Fails
<1>3. ASSUME NEW k \in Keys, NEW status \in Statuses, UpdateAlert(k, status) PROVE Parts'
  BY <1>3, UpdateAlertKeeps
<1>4. CASE PurgeAlerts
  BY <1>4, PurgeKeeps
<1>5. CASE UNCHANGED vars
  <2>1. UNCHANGED <<deployment, alerts, pc, todo, dirty, tx, created, toSend, overflow, paged,
                    silent, purges, told, silenced, attempts, wasted, purged, triage>>
    BY <1>5 DEF vars, runVars, bounds, history
  <2>2. \A q \in Runs : RunInv(q)'
    <3> SUFFICES ASSUME NEW q \in Runs PROVE RunInv(q)'
      OBVIOUS
    <3>1. Untouched(q)
      BY <2>1 DEF Untouched
    <3> QED
      BY <3>1, UntouchedKeeps DEF Parts
  <2> QED
    BY <2>1, <2>2 DEF Parts, Shape, PurgesKept, LocksHold, PagesCounted, TableType, ToldWhenStored,
                      TriageSurvives
<1> QED
  BY <1>1, <1>2, <1>3, <1>4, <1>5 DEF Next

LEMMA AlertsAlways == Spec => []Parts
BY AlertsStart, AlertsStep, PTL DEF Spec

(* The inductive invariant of the alerts table: what a run holds at each     *)
(* point of run_detection, the locks its flushed rows take, the alerts the   *)
(* notifier has still to send, and the pages counted so far.                 *)
THEOREM AlertInvariant == Spec => []AlertInv
<1>1. Parts => AlertInv
  <2> SUFFICES ASSUME Parts PROVE AlertInv
    OBVIOUS
  <2>1. NobodyForgotten /\ \A r \in Runs : RunPlace(r) /\ RowsOfRun(r)
    BY DEF Parts, RunInv, Remembered, NobodyForgotten
  <2>2. DOMAIN todo = Runs /\ DOMAIN dirty = Runs /\ DOMAIN tx = Runs
    BY DEF Parts, Shape
  <2> QED
    BY <2>1, <2>2, PartsTyped DEF Parts, AlertInv
<1> QED
  BY <1>1, AlertsAlways, PTL

(* persist_alerts and update_alert: rows stay well formed, hit_count within  *)
(* what one evaluation can report, and the status an analyst set is the one  *)
(* in the table, whichever runs overlap the request.                         *)
THEOREM AlertTriageIsSafe == Spec => []TriageIsSafe
<1>1. Parts => TriageIsSafe
  BY PartsTyped DEF Parts, TriageIsSafe
<1> QED
  BY <1>1, AlertsAlways, PTL

(* run_detection notifies before its caller commits: no alert of sufficient  *)
(* severity is in the table without a call of the webhook, a place in the    *)
(* "+N more" message, or an exception that ended the sending.                *)
THEOREM AlertToldWhenStored == Spec => []ToldWhenStored
<1>1. Parts => ToldWhenStored
  BY DEF Parts
<1> QED
  BY <1>1, AlertsAlways, PTL

(* The lock a flushed INSERT holds lets one run at a time reach the notifier *)
(* with a key: each further call is owed to a run that did not commit or to  *)
(* the deletion of the row.                                                  *)
THEOREM AlertPagesBounded == Spec => []PagesBounded
<1>1. Parts => PagesBounded
  <2> SUFFICES ASSUME Parts, NEW k \in Keys PROVE attempts[k] <= 1 + wasted[k] + purged[k]
    BY DEF PagesBounded
  <2>1. attempts[k] <= wasted[k] + purged[k]
                       + (IF k \in DOMAIN alerts \/ \E r \in Runs : k \in paged[r] THEN 1 ELSE 0)
    BY DEF Parts, PagesCounted
  <2>2. attempts[k] \in Nat /\ wasted[k] \in Nat /\ purged[k] \in Nat
    BY DEF Parts, Shape
  <2> QED
    BY <2>1, <2>2
<1> QED
  BY <1>1, AlertsAlways, PTL

(* The maximum of persist_alerts is taken over what the lookup read: the     *)
(* counter of a row falls only in the commit of a run that another overtook. *)
THEOREM AlertDropsOnlyIfStale == Spec => DropsOnlyIfStale
<1> DEFINE Falls(k) == /\ k \in DOMAIN alerts \cap DOMAIN alerts'
                       /\ alerts'[k].hit_count < alerts[k].hit_count
           Stale(k) == \E r \in Runs : /\ pc[r] = "commit" /\ pc'[r] = "idle"
                                       /\ k \in DOMAIN tx[r]
                                       /\ tx[r][k].was < alerts[k].hit_count
<1>1. ASSUME Parts, NEW r \in Runs, Commit(r), NEW k, Falls(k) PROVE Stale(k)
  <2>1. k \in DOMAIN tx[r]
    <3>1. k \notin DOMAIN tx[r] => alerts'[k] = alerts[k]
      BY <1>1, CommittedRows
    <3>2. alerts[k].hit_count \in Nat
      BY <1>1, AlertStoreAssumption DEF Parts, TableType, AlertType
    <3> QED
      BY <1>1, <3>1, <3>2
  <2>2. /\ alerts'[k] = Stored(r, k) /\ ~tx[r][k].new /\ tx[r][k] \in RowType
        /\ alerts[k] \in AlertType
    BY <1>1, <2>1, CommittedRows DEF Parts, LocksHold, RunInv, RunType, TableType
  <2>3. tx[r][k].written = 0 \/ tx[r][k].was < tx[r][k].written
    BY <1>1, <2>1, <2>2 DEF Parts, RunInv, RowsOfRun
  <2>4. tx[r][k].written # 0
    <3>1. tx[r][k].written = 0 => alerts'[k] = alerts[k]
      BY <2>2 DEF Stored
    <3>2. alerts[k].hit_count \in Nat
      BY <2>2, AlertStoreAssumption DEF AlertType
    <3> QED
      BY <1>1, <3>1, <3>2
  <2>5. alerts'[k].hit_count = tx[r][k].written
    BY <2>2, <2>4 DEF Stored, AlertType
  <2>6. /\ tx[r][k].was \in Nat /\ tx[r][k].written \in Nat /\ alerts[k].hit_count \in Nat
    BY <2>2, AlertStoreAssumption DEF RowType, AlertType
  <2>7. tx[r][k].was < alerts[k].hit_count
    BY <1>1, <2>3, <2>4, <2>5, <2>6
  <2>8. pc[r] = "commit" /\ pc'[r] = "idle"
    BY <1>1, EndsLeavesNothing DEF Commit
  <2> QED
    BY <2>1, <2>7, <2>8
<1>2. ASSUME Parts, [Next]_vars, ~ \E r \in Runs : Commit(r), NEW k, Falls(k) PROVE FALSE
  <2>1. alerts[k].hit_count \in Nat
    BY <1>2, AlertStoreAssumption DEF Parts, TableType, AlertType
  <2>2. alerts'[k].hit_count = alerts[k].hit_count
    <3>1. CASE UNCHANGED alerts
      BY <3>1
    <3>2. ASSUME NEW j \in Keys, NEW status \in Statuses, UpdateAlert(j, status)
          PROVE  alerts'[k].hit_count = alerts[k].hit_count
      <4>1. alerts' = [alerts EXCEPT ![j].status = status] /\ alerts[k] \in AlertType
        BY <1>2, <3>2 DEF UpdateAlert, Parts, TableType
      <4> QED
        BY <1>2, <4>1 DEF AlertType
    <3>3. CASE PurgeAlerts
      <4>1. PICK old \in SUBSET DOMAIN alerts : alerts' = Restrict(alerts, DOMAIN alerts \ old)
        BY <3>3 DEF PurgeAlerts
      <4> QED
        BY <1>2, <4>1 DEF Restrict
    <3>4. ASSUME NEW r \in Runs, Trigger(r) \/ RunStep(r) \/ Fails(r) PROVE UNCHANGED alerts
      BY <1>2, <3>4 DEF Trigger, RunStep, Fails, Lookup, Send, SendRaises, Flush, FlushFails, GiveUp,
                        BeginNotify, SendSummary, NobodyCommits, Rollback
    <3>5. CASE UNCHANGED vars
      BY <3>1, <3>5 DEF vars
    <3> QED
      BY <1>2, <3>1, <3>2, <3>3, <3>4, <3>5 DEF Next
  <2> QED
    BY <1>2, <2>1, <2>2
<1>3. Parts /\ [Next]_vars =>
        [\A k \in DOMAIN alerts \cap DOMAIN alerts' :
           alerts'[k].hit_count < alerts[k].hit_count => Stale(k)]_vars
  BY <1>1, <1>2
<1> QED
  BY <1>3, AlertsAlways, PTL DEF Spec, DropsOnlyIfStale

=============================================================================
