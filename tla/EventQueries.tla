---------------------------- MODULE EventQueries ----------------------------
(***************************************************************************)
(* The reading half of storage/queries.py, over the tables of EventStore:  *)
(* the charts of the overview, each a query of its own over the same       *)
(* window, and the listing of events that clients page through.            *)
(***************************************************************************)
EXTENDS EventStore

CONSTANTS
  Bucket,   \* length of a bucket, one of BUCKETS
  Hours,    \* since_hours
  Limit     \* rows of a page

ASSUME QueryAssumption == Bucket \in Nat \ {0} /\ Hours \in Nat /\ Limit \in Nat \ {0}

VARIABLE reader   \* a client that pages through the events

queryvars == <<storevars, reader>>

-----------------------------------------------------------------------------
(* _floor, and the integer division of _bucket_index_expr. *)
BucketIndex(t) == t \div Bucket
Floor(t) == Bucket * BucketIndex(t)

(* _since *)
Since == clock - Hours

InWindow == {e \in events : e.ts >= Since}

(* counts of events_timeseries: bucket -> series -> n *)
BucketCounts(by) ==
  [k \in {Bucket * BucketIndex(e.ts) : e \in InWindow} |->
     [name \in {e[by] : e \in InWindow} |-> Cardinality({e \in InWindow : Floor(e.ts) = k /\ e[by] = name})]]

(* Mutant: the first point is at the start of the window itself. *)
FirstPoint_Exact == Since

FirstPoint == Floor(Since)

(* The buckets a chart draws, empty ones included. *)
Points == {t \in FirstPoint .. Floor(clock) : (t - FirstPoint) % Bucket = 0}

(* events_timeseries: the total of each point. *)
Timeseries(by) ==
  LET counts == BucketCounts(by)
      of(t) == IF t \in DOMAIN counts THEN counts[t] ELSE <<>>
  IN  [t \in Points |-> MapThenSumSet(LAMBDA name : of(t)[name], DOMAIN of(t))]

(* hour_weekday_heatmap *)
Cell(t) == <<(t \div 24) % 7, t % 24>>
Heatmap == [cell \in {Cell(e.ts) : e \in InWindow} |-> Cardinality({e \in InWindow : Cell(e.ts) = cell})]

(* _top, service_breakdown and the other GROUP BYs: counts of the values     *)
(* that are there.                                                           *)
CountBy(field) ==
  [v \in {e[field] : e \in InWindow} \ {NoSha} |-> Cardinality({e \in InWindow : e[field] = v})]

SumOf(counts) == MapThenSumSet(LAMBDA k : counts[k], DOMAIN counts)

(* summary_stats *)
Summary ==
  [total_events |-> Cardinality(InWindow), unique_attackers |-> Cardinality({e.ip : e \in InWindow}),
   auth_attempts |-> Cardinality({e \in InWindow : e.type = "auth"}),
   sessions |-> Cardinality({c \in DOMAIN sessions : sessions[c] >= Since})]

-----------------------------------------------------------------------------
(* Mutant: no tie-break. *)
Before_Tied(d, e) == d.ts >= e.ts

(* ORDER BY ts DESC, id DESC *)
Before(d, e) == d.ts > e.ts \/ (d.ts = e.ts /\ d.id > e.id)

(* The results list_events may return: the order is all that SQL promises.   *)
Listings(rows) ==
  {s \in [1 .. Cardinality(rows) -> rows] : \A i, j \in DOMAIN s : i < j => s[i] # s[j] /\ Before(s[i], s[j])}

severity == [connect |-> 0, disconnect |-> 0, auth |-> 1, upload |-> 2]

(* The filters: one of them stands for all, they are conjoined. *)
Matching(min_severity) == {e \in events : severity[e.type] >= min_severity}

(* limit and offset *)
Page(listing, offset) ==
  SubSeq(listing, offset + 1, IF offset + Limit < Len(listing) THEN offset + Limit ELSE Len(listing))

(* start: the rows at the first page; seen: on the pages so far; shifted: a  *)
(* purge came between two pages.                                             *)
NoReader == [pc |-> "idle", offset |-> 0, start |-> {}, seen |-> {}, shifted |-> FALSE]

(* One request: a page, until one comes back that is not full. *)
ReadPage ==
  /\ reader.pc # "done"
  /\ \E listing \in Listings(Matching(0)) :
       LET page == Page(listing, reader.offset) IN
       reader' = [reader EXCEPT !.pc = IF Len(page) < Limit THEN "done" ELSE "more",
                                !.offset = @ + Limit,
                                !.start = IF reader.pc = "idle" THEN {e.id : e \in events} ELSE @,
                                !.seen = @ \cup {page[i].id : i \in DOMAIN page}]
  /\ UNCHANGED storevars

(* What the others do to the tables, as the reader sees it. *)
ReaderSees == reader' = [reader EXCEPT !.shifted = @ \/ events \ events' # {}]

-----------------------------------------------------------------------------
(* The charts of one moment agree with each other: the points of a series,   *)
(* whatever it is split by, add up to the headline, every event at the edge  *)
(* of the window included and only those of a later bucket than the present  *)
(* left out; the heatmap and the breakdowns add up to it too.                *)
ChartsAgree ==
  /\ \A by \in {"type", "ip"} :
       SumOf(Timeseries(by)) = Cardinality({e \in InWindow : Floor(e.ts) <= Floor(clock)})
  /\ SumOf(Heatmap) = Summary.total_events
  /\ SumOf(CountBy("ip")) = Summary.total_events
  /\ Cardinality(DOMAIN CountBy("ip")) = Summary.unique_attackers
  /\ Summary.auth_attempts <= Summary.total_events

(* A client that reads to the last page has seen every row that was there    *)
(* when it began, whatever was written in between, late or not: rows that    *)
(* arrive push others back, where they are read again.  Only a purge can     *)
(* make it miss one.                                                         *)
PagesMissNothing == reader.pc = "done" /\ ~ reader.shifted => reader.start \subseteq reader.seen

(* Why: a row of the start that has not been seen has at least as many rows  *)
(* in front of it as have been skipped.                                      *)
UnseenIsAhead ==
  reader.pc = "more" /\ ~ reader.shifted =>
    /\ reader.start \subseteq {e.id : e \in events}
    /\ \A e \in events : e.id \in reader.start \ reader.seen =>
         Cardinality({d \in events : Before(d, e)}) >= reader.offset

ReaderInv ==
  /\ reader.pc = "idle" => reader.offset = 0 /\ reader.start = {} /\ reader.seen = {}
  /\ UnseenIsAhead /\ PagesMissNothing

=============================================================================
