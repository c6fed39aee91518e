-------------------------- MODULE DetectionProofs ---------------------------
(***************************************************************************)
(* Proofs about the detection.  PeakScan, for groups of any length, any    *)
(* timestamps and values and every window: the two-pointer scan returns    *)
(* the peak; the inductive part says what lies to the left of the span     *)
(* (TooWide), what the Counter counts, and that best bounds every span     *)
(* that ended before.  RuleEngine, for any table, rule file and operator:  *)
(* RuleInv is inductive, the one step that needs an argument is Detect.    *)
(***************************************************************************)
EXTENDS Detection, FiniteSetTheorems, SequenceTheorems, TLAPS

(* Part 1: the scan *)

(* The events of the span that have the value v. *)
With(v) == {k \in left .. right : val[k] = v}

(* The last event whose spans have been compared. *)
Scanned == IF pc = "shrink" THEN right - 1 ELSE right

(* Where the pointers are. *)
PointersInv ==
  /\ left <= right \/ (right = 0 /\ left = 1)
  /\ pc = "shrink" => right > 0
  /\ pc = "done" => right = Len(ts)
  /\ \A i \in 1 .. right : i < left => TooWide(i, right)
  /\ pc # "shrink" /\ right > 0 => ~ TooWide(left, right)

(* What the Counter counts. *)
CounterInv == distinct => \A v \in Values : counter[v] = Cardinality(With(v))

(* best bounds the spans of the past, and one of them has it. *)
BestInv ==
  /\ \A s \in Oracle!Spans : s[2] <= Scanned => Oracle!Measure(s[1], s[2]) <= best
  /\ best > 0 => /\ best_span \in Oracle!Spans
                 /\ Oracle!Measure(best_span[1], best_span[2]) = best

ScanInv == ScanTypeOK /\ PointersInv /\ CounterInv /\ BestInv

-----------------------------------------------------------------------------
(* The cardinality that Peak speaks of is the one of this module. *)
LEMMA SameCardinality == \A S : Oracle!Cardinality(S) = Cardinality(S)
  BY DEF Cardinality, Oracle!Cardinality

(* The values of a span are finitely many, and no more than its events. *)
LEMMA ValuesBounded ==
  ASSUME NEW i \in Int, NEW j \in Int, i <= j
  PROVE  /\ IsFiniteSet(Oracle!ValuesIn(i, j))
         /\ Cardinality(Oracle!ValuesIn(i, j)) \in 0 .. j - i + 1
<1> DEFINE img == {val[k] : k \in i .. j}
<1> DEFINE f == [k \in i .. j |-> val[k]]
<1>1. IsFiniteSet(i .. j) /\ Cardinality(i .. j) = j - i + 1
  BY FS_Interval
<1>2. f \in Surjection(i .. j, img)
  BY DEF Surjection
<1> HIDE DEF f
<1>3. IsFiniteSet(img) /\ Cardinality(img) <= j - i + 1
  BY <1>1, <1>2, FS_Surjection
<1>4. Oracle!ValuesIn(i, j) \in SUBSET img
  BY DEF Oracle!ValuesIn
<1> HIDE DEF img
<1>5. IsFiniteSet(Oracle!ValuesIn(i, j)) /\ Cardinality(Oracle!ValuesIn(i, j)) <= Cardinality(img)
  BY <1>3, <1>4, FS_Subset
<1>6. Cardinality(img) \in Nat /\ Cardinality(Oracle!ValuesIn(i, j)) \in Nat
  BY <1>3, <1>5, FS_CardinalityType
<1> QED
  BY <1>3, <1>5, <1>6

(* The measure of a span is a number from 0 to its length. *)
LEMMA MeasureBounded ==
  ASSUME NEW i \in Int, NEW j \in Int, i <= j
  PROVE  Oracle!Measure(i, j) \in 0 .. j - i + 1
<1>1. CASE distinct
  BY <1>1, ValuesBounded, SameCardinality DEF Oracle!Measure
<1>2. CASE ~ distinct
  BY <1>2 DEF Oracle!Measure
<1> QED
  BY <1>1, <1>2

(* A span within another has no larger measure. *)
LEMMA MeasureGrows ==
  ASSUME NEW h \in Int, NEW i \in Int, NEW j \in Int, h <= i, i <= j
  PROVE  Oracle!Measure(i, j) <= Oracle!Measure(h, j)
<1>1. CASE distinct
  <2>1. IsFiniteSet(Oracle!ValuesIn(h, j))
    BY ValuesBounded
  <2>2. Oracle!ValuesIn(i, j) \in SUBSET Oracle!ValuesIn(h, j)
    BY DEF Oracle!ValuesIn
  <2>3. Cardinality(Oracle!ValuesIn(i, j)) <= Cardinality(Oracle!ValuesIn(h, j))
    BY <2>1, <2>2, FS_Subset
  <2> QED
    BY <1>1, <2>3, SameCardinality DEF Oracle!Measure
<1>2. CASE ~ distinct
  BY <1>2 DEF Oracle!Measure
<1> QED
  BY <1>1, <1>2

(* The events of a span that have a value are finitely many. *)
LEMMA WithFinite ==
  ASSUME ScanTypeOK, NEW v
  PROVE  IsFiniteSet(With(v)) /\ Cardinality(With(v)) \in Nat
<1>1. IsFiniteSet(left .. right)
  BY FS_Interval DEF ScanTypeOK
<1>2. With(v) \in SUBSET (left .. right)
  BY DEF With
<1>3. IsFiniteSet(With(v))
  BY <1>1, <1>2, FS_Subset
<1> QED
  BY <1>3, FS_CardinalityType

(* The keys of the Counter are the values of the span. *)
LEMMA KeysAreValues ==
  ASSUME ScanTypeOK, CounterInv, distinct
  PROVE  Keys = Oracle!ValuesIn(left, right)
<1>1. \A v \in Values : counter[v] > 0 <=> With(v) # {}
  <2> TAKE v \in Values
  <2>1. IsFiniteSet(With(v)) /\ Cardinality(With(v)) \in Nat
    BY WithFinite
  <2>2. counter[v] = Cardinality(With(v))
    BY DEF CounterInv
  <2>3. Cardinality(With(v)) = 0 <=> With(v) = {}
    BY <2>1, FS_EmptySet
  <2> QED
    BY <2>1, <2>2, <2>3
<1>2. \A k \in left .. right : k \in 1 .. Len(val) /\ val[k] \in Values \cup {NoValue}
  BY DEF ScanTypeOK
<1>3. \A v \in Values : With(v) # {} <=> v \in Oracle!ValuesIn(left, right)
  BY ScanAssumption DEF With, Oracle!ValuesIn
<1>4. Oracle!ValuesIn(left, right) \subseteq Values
  BY <1>2 DEF Oracle!ValuesIn
<1> QED
  BY <1>1, <1>3, <1>4 DEF Keys

(* The scan compares the measure of its span. *)
LEMMA CurrentIsMeasure ==
  ASSUME ScanTypeOK, CounterInv
  PROVE  Current = Oracle!Measure(left, right)
<1>1. CASE distinct
  BY <1>1, KeysAreValues, SameCardinality DEF Current, Oracle!Measure
<1>2. CASE ~ distinct
  BY <1>2 DEF Current, Oracle!Measure
<1> QED
  BY <1>1, <1>2

(* Spans and measures are of the input, which no step changes. *)
LEMMA InputsFixed ==
  ASSUME UNCHANGED inputs
  PROVE  /\ Oracle!Spans' = Oracle!Spans
         /\ \A i, j : Oracle!Measure(i, j)' = Oracle!Measure(i, j)
<1>1. ts' = ts /\ val' = val /\ distinct' = distinct
  BY DEF inputs
<1>2. \A i, j : Oracle!ValuesIn(i, j)' = Oracle!ValuesIn(i, j)
  BY <1>1 DEF Oracle!ValuesIn
<1> QED
  BY <1>1, <1>2 DEF Oracle!Spans, Oracle!Measure

(* A step that leaves best and Scanned alone keeps what is said of them. *)
LEMMA BestUnchanged ==
  ASSUME BestInv, UNCHANGED <<inputs, best, best_span, Scanned>>
  PROVE  BestInv'
<1>1. /\ Oracle!Spans' = Oracle!Spans
      /\ \A i, j : Oracle!Measure(i, j)' = Oracle!Measure(i, j)
  BY InputsFixed
<1> QED
  BY <1>1 DEF BestInv

-----------------------------------------------------------------------------
(* The initial states. *)
LEMMA ScanInvInit == ScanInit => ScanInv
<1> SUFFICES ASSUME ScanInit PROVE ScanInv
  OBVIOUS
<1>1. PICK n \in 0 .. MaxEvents : ts \in [1 .. n -> Times] /\ val \in [1 .. n -> Values \cup {NoValue}]
  BY DEF ScanInit
<1>2. n \in Nat /\ ts \in [1 .. n -> Int]
  <2>1. Times \subseteq Int /\ MaxEvents \in Nat
    BY ScanAssumption
  <2>2. ts \in [1 .. n -> Times]
    BY <1>1
  <2>3. \A i \in 1 .. n : ts[i] \in Int
    BY <2>1, <2>2
  <2> QED
    BY <2>1, <2>2, <2>3
<1>3. ts \in Seq(Int) /\ Len(ts) = n
  BY <1>2
<1>4. val \in Seq(Values \cup {NoValue}) /\ Len(val) = n
  BY <1>1, <1>2
<1>5. ScanTypeOK
  BY <1>2, <1>3, <1>4 DEF ScanInit, ScanStart, ScanTypeOK
<1>6. PointersInv
  BY DEF ScanInit, ScanStart, PointersInv
<1>7. CounterInv
  <2>1. \A v : With(v) = {}
    BY DEF With, ScanInit, ScanStart
  <2> QED
    BY <2>1, FS_EmptySet DEF CounterInv, ScanInit, ScanStart
<1>8. BestInv
  BY <1>2 DEF BestInv, Scanned, Oracle!Spans, ScanInit, ScanStart
<1> QED
  BY <1>5, <1>6, <1>7, <1>8 DEF ScanInv

(* An event enters on the right. *)
LEMMA TakePreserves == ScanInv /\ Take => ScanInv'
<1> SUFFICES ASSUME ScanInv, Take PROVE ScanInv'
  OBVIOUS
<1> USE DEF ScanInv
<1>a. Window \in Nat /\ NoValue \notin Values
  BY ScanAssumption
<1>b. ts \in [1 .. Len(ts) -> Int] /\ val \in [1 .. Len(ts) -> Values \cup {NoValue}] /\ Len(ts) \in Nat
  BY LenProperties DEF ScanTypeOK
<1>c. right \in Nat /\ left \in Nat /\ right' = right + 1 /\ right' \in 1 .. Len(ts) /\ left' = left
  BY <1>b DEF ScanTypeOK, Take
<1>d. val[right'] \in Values \cup {NoValue}
  BY <1>b, <1>c
<1>1. ScanTypeOK'
  BY <1>b, <1>c, <1>d DEF ScanTypeOK, Take, Ordered
<1>2. PointersInv'
  <2>1. \A i \in 1 .. right : TooWide(i, right) => ts[right'] - ts[i] > Window
    <3> SUFFICES ASSUME NEW i \in 1 .. right, TooWide(i, right) PROVE ts[right'] - ts[i] > Window
      OBVIOUS
    <3>1. ts[i] \in Int /\ ts[right] \in Int /\ ts[right'] \in Int
      BY <1>b, <1>c
    <3>2. ts[right] <= ts[right']
      <4>1. right \in DOMAIN ts /\ right' \in DOMAIN ts /\ right <= right'
        BY <1>b, <1>c
      <4> QED
        BY <4>1 DEF ScanTypeOK, Ordered
    <3> QED
      BY <1>a, <3>1, <3>2 DEF TooWide
  <2> QED
    BY <1>c, <2>1 DEF PointersInv, Take, TooWide
<1>3. CounterInv'
  <2> SUFFICES ASSUME distinct, NEW v \in Values
               PROVE  counter'[v] = Cardinality({k \in left .. right' : val[k] = v})
    BY DEF CounterInv, With, Take
  <2> DEFINE old == With(v)
  <2> DEFINE new == {k \in left .. right' : val[k] = v}
  <2>1. IsFiniteSet(old) /\ Cardinality(old) \in Nat
    BY WithFinite
  <2>2. counter[v] = Cardinality(old)
    BY DEF CounterInv
  <2>3. CASE val[right'] = v
    <3>1. new = old \cup {right'} /\ right' \notin old
      BY <1>c, <2>3 DEF With, PointersInv
    <3>2. counter'[v] = counter[v] + 1
      BY <1>a, <1>c, <2>3 DEF Take, ScanTypeOK
    <3> HIDE DEF new, old
    <3>3. Cardinality(new) = Cardinality(old) + 1
      BY <2>1, <3>1, FS_AddElement
    <3> QED
      BY <2>2, <3>2, <3>3 DEF new
  <2>4. CASE val[right'] # v
    <3>1. new = old
      BY <1>c, <2>4 DEF With
    <3>2. counter'[v] = counter[v]
      BY <1>c, <2>4 DEF Take, ScanTypeOK
    <3> QED
      BY <2>2, <3>1, <3>2
  <2> QED
    BY <2>3, <2>4
<1>4. BestInv'
  <2>1. Scanned' = Scanned
    BY <1>c DEF Scanned, Take
  <2> QED
    BY <2>1, BestUnchanged DEF Take, inputs
<1> QED
  BY <1>1, <1>2, <1>3, <1>4

(* An event leaves on the left. *)
LEMMA ShrinkPreserves == ScanInv /\ Shrink => ScanInv'
<1> SUFFICES ASSUME ScanInv, Shrink PROVE ScanInv'
  OBVIOUS
<1> USE DEF ScanInv
<1>a. Window \in Nat /\ NoValue \notin Values
  BY ScanAssumption
<1>b. ts \in [1 .. Len(ts) -> Int] /\ val \in [1 .. Len(ts) -> Values \cup {NoValue}] /\ Len(ts) \in Nat
  BY LenProperties DEF ScanTypeOK
<1>c. right \in 1 .. Len(ts) /\ left \in 1 .. right /\ left' = left + 1 /\ right' = right
  BY <1>b DEF ScanTypeOK, PointersInv, Shrink
<1>d. left < right
  <2>1. ts[left] \in Int /\ ts[right] \in Int
    BY <1>b, <1>c
  <2>2. left # right
    BY <1>a, <2>1 DEF Shrink, TooWide
  <2> QED
    BY <1>c, <2>2
<1>e. val[left] \in Values \cup {NoValue}
  BY <1>b, <1>c
<1>f. distinct => \A v \in Values : counter'[v] = Cardinality({k \in left + 1 .. right : val[k] = v})
                                  /\ counter'[v] \in Nat
  <2> SUFFICES ASSUME distinct, NEW v \in Values
               PROVE  /\ counter'[v] = Cardinality({k \in left + 1 .. right : val[k] = v})
                      /\ counter'[v] \in Nat
    OBVIOUS
  <2> DEFINE old == With(v)
  <2> DEFINE new == {k \in left + 1 .. right : val[k] = v}
  <2>1. IsFiniteSet(old) /\ Cardinality(old) \in Nat
    BY WithFinite
  <2>2. counter[v] = Cardinality(old)
    BY DEF CounterInv
  <2>3. CASE val[left] = v
    <3>1. new = old \ {left} /\ left \in old
      BY <1>c, <2>3 DEF With
    <3>2. counter'[v] = counter[v] - 1
      BY <1>a, <2>3 DEF Shrink, Forgotten, ScanTypeOK
    <3> HIDE DEF new, old
    <3>3. IsFiniteSet(new) /\ Cardinality(new) = Cardinality(old) - 1
      BY <2>1, <3>1, FS_RemoveElement
    <3>4. Cardinality(new) \in Nat
      BY <3>3, FS_CardinalityType
    <3> QED
      BY <2>2, <3>2, <3>3, <3>4 DEF new
  <2>4. CASE val[left] # v
    <3>1. new = old
      BY <1>c, <2>4 DEF With
    <3>2. counter'[v] = counter[v]
      BY <1>e, <2>4 DEF Shrink, Forgotten, ScanTypeOK
    <3> QED
      BY <2>1, <2>2, <3>1, <3>2
  <2> QED
    BY <2>3, <2>4
<1>g. counter' \in [Values -> Nat]
  <2>1. CASE distinct
    <3>1. \E f : counter' = [v \in Values |-> f[v]]
      BY <2>1, <1>e DEF Shrink, Forgotten, ScanTypeOK
    <3> QED
      BY <2>1, <1>f, <3>1
  <2>2. CASE ~ distinct
    BY <2>2 DEF Shrink, Forgotten, ScanTypeOK
  <2> QED
    BY <2>1, <2>2
<1>1. ScanTypeOK'
  BY <1>b, <1>c, <1>d, <1>g DEF ScanTypeOK, Shrink, Ordered
<1>2. PointersInv'
  BY <1>c, <1>d DEF PointersInv, Shrink, TooWide
<1>3. CounterInv'
  BY <1>c, <1>f DEF CounterInv, With, Shrink
<1>4. BestInv'
  <2>1. Scanned' = Scanned
    BY DEF Scanned, Shrink
  <2> QED
    BY <2>1, BestUnchanged DEF Shrink, inputs
<1> QED
  BY <1>1, <1>2, <1>3, <1>4

(* Every span that ends at the right pointer lies in the scan's own, once    *)
(* that fits the window: ts is ordered, and what is left of it is too wide.  *)
LEMMA SpansEndingHere ==
  ASSUME ScanInv, right > 0, ~ TooWide(left, right)
  PROVE  /\ <<left, right>> \in Oracle!Spans
         /\ \A s \in Oracle!Spans : s[2] = right => s[1] \in left .. right
<1> USE DEF ScanInv
<1>a. ts \in [1 .. Len(ts) -> Int] /\ Len(ts) \in Nat /\ Window \in Nat
  BY LenProperties, ScanAssumption DEF ScanTypeOK
<1>b. right \in 1 .. Len(ts) /\ left \in 1 .. right
  BY <1>a DEF ScanTypeOK, PointersInv
<1>1. <<left, right>> \in Oracle!Spans
  <2>1. ts[left] \in Int /\ ts[right] \in Int /\ left \in DOMAIN ts /\ right \in DOMAIN ts
    BY <1>a, <1>b
  <2> QED
    BY <1>a, <1>b, <2>1 DEF Oracle!Spans, TooWide
<1>2. ASSUME NEW s \in Oracle!Spans, s[2] = right
      PROVE  s[1] \in left .. right
  <2>1. s[1] \in 1 .. right /\ ts[s[2]] - ts[s[1]] <= Window
    BY <1>a, <1>b, <1>2 DEF Oracle!Spans
  <2>2. ts[s[1]] \in Int /\ ts[right] \in Int
    BY <1>a, <1>b, <2>1
  <2>3. ~ TooWide(s[1], right)
    BY <1>a, <1>2, <2>1, <2>2 DEF TooWide
  <2> QED
    BY <1>b, <2>1, <2>3 DEF PointersInv
<1> QED
  BY <1>1, <1>2

(* The span is compared with the best. *)
LEMMA ComparePreserves == ScanInv /\ Compare => ScanInv'
<1> SUFFICES ASSUME ScanInv, Compare PROVE ScanInv'
  OBVIOUS
<1> USE DEF ScanInv
<1>a. ts \in [1 .. Len(ts) -> Int] /\ Len(ts) \in Nat
  BY LenProperties DEF ScanTypeOK
<1>b. right \in 1 .. Len(ts) /\ left \in 1 .. right
  BY <1>a DEF ScanTypeOK, PointersInv, Compare
<1>c. Current = Oracle!Measure(left, right) /\ Current \in 0 .. right - left + 1
  BY <1>b, CurrentIsMeasure, MeasureBounded
<1>d. best \in Nat /\ best' \in Nat /\ Current <= best' /\ best <= best' /\ best' \in 0 .. Len(ts)
  BY <1>a, <1>b, <1>c DEF Compare, ScanTypeOK
<1>1. ScanTypeOK'
  <2>1. best_span' \in Nat \X Nat
    BY <1>b DEF Compare, ScanTypeOK
  <2> QED
    BY <1>d, <2>1 DEF ScanTypeOK, Compare, Ordered
<1>2. PointersInv'
  BY <1>b DEF PointersInv, Compare, TooWide
<1>3. CounterInv'
  BY DEF CounterInv, With, Compare
<1>4. BestInv'
  <2>1. /\ Oracle!Spans' = Oracle!Spans
        /\ \A i, j : Oracle!Measure(i, j)' = Oracle!Measure(i, j)
    BY InputsFixed DEF Compare, inputs
  <2>2. Scanned = right - 1 /\ Scanned' = right
    BY DEF Scanned, Compare
  <2>3. /\ <<left, right>> \in Oracle!Spans
        /\ \A s \in Oracle!Spans : s[2] = right => s[1] \in left .. right
    BY <1>b, SpansEndingHere DEF Compare
  <2>4. ASSUME NEW s \in Oracle!Spans, s[2] <= right
        PROVE  Oracle!Measure(s[1], s[2]) <= best'
    <3>1. s[1] \in Int /\ s[2] \in Int /\ s[1] <= s[2]
      BY <1>a DEF Oracle!Spans
    <3>2. Oracle!Measure(s[1], s[2]) \in Int
      <4>1. Oracle!Measure(s[1], s[2]) \in 0 .. s[2] - s[1] + 1
        BY <3>1, MeasureBounded
      <4> QED
        BY <3>1, <4>1
    <3>3. CASE s[2] = right
      <4>1. s[1] \in left .. right
        BY <2>3, <3>3
      <4>2. Oracle!Measure(s[1], right) <= Oracle!Measure(left, right)
        BY <1>b, <4>1, MeasureGrows
      <4> QED
        BY <1>c, <1>d, <3>2, <3>3, <4>2
    <3>4. CASE s[2] # right
      <4>1. s[2] <= Scanned
        BY <1>b, <2>2, <2>4, <3>1, <3>4
      <4>2. Oracle!Measure(s[1], s[2]) <= best
        BY <4>1 DEF BestInv
      <4> QED
        BY <1>d, <3>2, <4>2
    <3> QED
      BY <3>3, <3>4
  <2>5. best' > 0 => /\ best_span' \in Oracle!Spans
                     /\ Oracle!Measure(best_span'[1], best_span'[2]) = best'
    <3>1. CASE Current > best
      BY <1>c, <2>3, <3>1 DEF Compare
    <3>2. CASE ~ (Current > best)
      BY <3>2 DEF Compare, BestInv
    <3> QED
      BY <3>1, <3>2
  <2>6. \A s \in Oracle!Spans' : s[2] <= Scanned' => Oracle!Measure(s[1], s[2])' <= best'
    BY <2>1, <2>2, <2>4
  <2>7. best' > 0 => /\ best_span' \in Oracle!Spans'
                     /\ Oracle!Measure(best_span[1], best_span[2])' = best'
    BY <2>1, <2>5
  <2> QED
    BY <2>6, <2>7 DEF BestInv
<1> QED
  BY <1>1, <1>2, <1>3, <1>4

(* The scan ends, or nothing happens. *)
LEMMA ReturnPreserves == ScanInv /\ (Return \/ UNCHANGED scanvars) => ScanInv'
<1> SUFFICES ASSUME ScanInv, Return \/ UNCHANGED scanvars PROVE ScanInv'
  OBVIOUS
<1> USE DEF ScanInv
<1>1. /\ UNCHANGED <<ts, val, distinct, left, right, counter, best, best_span>>
      /\ pc' = pc \/ (pc = "next" /\ pc' = "done" /\ right = Len(ts))
  BY DEF Return, scanvars
<1>2. ScanTypeOK'
  BY <1>1 DEF ScanTypeOK, Ordered
<1>3. PointersInv'
  BY <1>1 DEF PointersInv, TooWide
<1>4. CounterInv'
  BY <1>1 DEF CounterInv, With
<1>5. BestInv'
  <2>1. Scanned' = Scanned
    BY <1>1 DEF Scanned
  <2> QED
    BY <1>1, <2>1, BestUnchanged DEF inputs
<1> QED
  BY <1>2, <1>3, <1>4, <1>5

(* Every step of the scan. *)
LEMMA ScanInvStep == ScanInv /\ [ScanNext]_scanvars => ScanInv'
  BY TakePreserves, ShrinkPreserves, ComparePreserves, ReturnPreserves DEF ScanNext

(* The inductive invariant of the scan. *)
THEOREM ScanInvariant == ScanSpec => []ScanInv
  BY ScanInvInit, ScanInvStep, PTL DEF ScanSpec

-----------------------------------------------------------------------------
(* Between two events the span of _sliding_peak is the widest that fits the  *)
(* window, and the keys of its Counter are the values in it.                 *)
THEOREM SpanTight == ScanSpec => []SpanIsTight
<1>1. ScanInv => SpanIsTight
  <2> SUFFICES ASSUME ScanInv, pc = "next" PROVE SpanIsTight
    BY DEF SpanIsTight
  <2> USE DEF ScanInv
  <2>a. ts \in [1 .. Len(ts) -> Int] /\ Len(ts) \in Nat /\ Window \in Nat
    BY LenProperties, ScanAssumption DEF ScanTypeOK
  <2>1. ASSUME NEW i \in 1 .. right PROVE i >= left <=> ~ TooWide(i, right)
    <3>1. right \in 1 .. Len(ts) /\ left \in 1 .. right /\ i \in 1 .. Len(ts)
      BY <2>a, <2>1 DEF ScanTypeOK, PointersInv
    <3>2. ts[i] \in Int /\ ts[left] \in Int /\ ts[right] \in Int
      BY <2>a, <3>1
    <3>3. CASE i < left
      BY <3>1, <3>3 DEF PointersInv
    <3>4. CASE i >= left
      <4>1. ts[left] <= ts[i]
        <5>1. left \in DOMAIN ts /\ i \in DOMAIN ts /\ left <= i
          BY <2>a, <3>1, <3>4
        <5> QED
          BY <5>1 DEF ScanTypeOK, Ordered
      <4>2. ~ TooWide(left, right)
        BY <3>1 DEF PointersInv
      <4> QED
        BY <2>a, <3>2, <3>4, <4>1, <4>2 DEF TooWide
    <3> QED
      BY <3>1, <3>3, <3>4
  <2>2. distinct => Keys = Oracle!ValuesIn(left, right)
    BY KeysAreValues
  <2> QED
    BY <2>1, <2>2 DEF SpanIsTight
<1> QED
  BY <1>1, ScanInvariant, PTL

(* The span that _sliding_peak returns with its count fits the window, and   *)
(* has that count.                                                           *)
THEOREM EvidenceHolds == ScanSpec => []EvidenceIsPeak
<1>1. ScanInv => EvidenceIsPeak
  BY DEF ScanInv, BestInv, EvidenceIsPeak
<1> QED
  BY <1>1, ScanInvariant, PTL

(* _sliding_peak implements its specification: what it returns is the        *)
(* largest count of any span of the window, for every group of events.       *)
THEOREM ScanRefinesPeak == ScanSpec => ScanFindsPeak
<1>1. ScanInit => Oracle!PeakInit
  BY DEF ScanInit, ScanStart, Oracle!PeakInit
<1>2. ScanInv /\ [ScanNext]_scanvars => [Oracle!Answer]_(Oracle!peakvars)
  <2> SUFFICES ASSUME ScanInv, [ScanNext]_scanvars
               PROVE  Oracle!Answer \/ UNCHANGED Oracle!peakvars
    OBVIOUS
  <2> USE DEF ScanInv
  <2>1. CASE Return
    <3>1. best \in 0 .. Len(ts) /\ best # NoAnswer /\ best' = best /\ Len(ts) \in Nat
      BY <2>1, ScanAssumption, LenProperties DEF Return, ScanTypeOK
    <3>2. \A s \in Oracle!Spans : Oracle!Measure(s[1], s[2]) <= best
      <4> SUFFICES ASSUME NEW s \in Oracle!Spans PROVE Oracle!Measure(s[1], s[2]) <= best
        OBVIOUS
      <4>1. DOMAIN ts = 1 .. Len(ts)
        BY LenProperties DEF ScanTypeOK
      <4>2. s[2] <= Len(ts)
        BY <3>1, <4>1 DEF Oracle!Spans
      <4>3. Scanned = Len(ts)
        BY <2>1 DEF Return, Scanned
      <4> QED
        BY <4>2, <4>3 DEF BestInv
    <3>3. best = 0 \/ \E s \in Oracle!Spans : Oracle!Measure(s[1], s[2]) = best
      BY <3>1 DEF BestInv
    <3>4. Oracle!IsPeak(best)
      BY <3>2, <3>3 DEF Oracle!IsPeak
    <3> QED
      BY <2>1, <3>1, <3>4 DEF Oracle!Answer, Return
  <2>2. CASE Take \/ Shrink \/ Compare
    BY <2>2 DEF Take, Shrink, Compare, Oracle!peakvars
  <2>3. CASE UNCHANGED scanvars
    BY <2>3 DEF scanvars, Oracle!peakvars
  <2> QED
    BY <2>1, <2>2, <2>3 DEF ScanNext
<1> QED
  BY <1>1, <1>2, ScanInvariant, PTL DEF ScanSpec, ScanFindsPeak, Oracle!PeakSpec


-----------------------------------------------------------------------------
(* Part 2: the rules *)

(* A bounded set of integers has a largest and a smallest element: counting  *)
(* one up from each element would put a set into a smaller one.              *)
LEMMA HasLargest ==
  ASSUME NEW m \in Int, NEW n \in Int, NEW T \in SUBSET (m .. n), T # {}
  PROVE  \E x \in T : \A y \in T : x >= y
<1> SUFFICES ASSUME \A x \in T : \E y \in T : ~ (x >= y) PROVE FALSE
  OBVIOUS
<1> DEFINE D == {k \in m .. n : \E x \in T : x >= k}
           up == [k \in D |-> k + 1]
<1>0. PICK x \in T : x \in m .. n
  OBVIOUS
<1>1. D \in SUBSET (m .. n) /\ m \in D
  <2>1. x >= m /\ m \in m .. n
    BY <1>0
  <2> QED
    BY <1>0, <2>1
<1>2. ASSUME NEW k \in D PROVE up[k] \in D \ {m} /\ up[k] = k + 1
  <2>1. PICK u \in T : u >= k
    OBVIOUS
  <2>2. PICK y \in T : ~ (u >= y)
    OBVIOUS
  <2> QED
    BY <2>1, <2>2
<1>3. up \in [D -> D \ {m}]
  BY <1>2
<1>4. \A j, k \in D : up[j] = up[k] => j = k
  BY <1>1, <1>2
<1> HIDE DEF D, up
<1>5. IsFiniteSet(D)
  BY <1>1, FS_Interval, FS_Subset
<1>6. IsFiniteSet(D \ {m}) /\ Cardinality(D \ {m}) = Cardinality(D) - 1 /\ Cardinality(D) \in Nat
  BY <1>1, <1>5, FS_RemoveElement, FS_CardinalityType
<1>7. Cardinality(D \ {m}) < Cardinality(D)
  BY <1>6
<1> QED
  BY <1>3, <1>4, <1>5, <1>6, <1>7, FS_PigeonHole

(* Max and Min of FiniteSetsExt, for bounded sets of integers. *)
LEMMA MaxIs ==
  ASSUME NEW m \in Int, NEW n \in Int, NEW T \in SUBSET (m .. n), T # {}
  PROVE  Max(T) \in T /\ \A y \in T : Max(T) >= y
BY HasLargest DEF Max

LEMMA MinIs ==
  ASSUME NEW m \in Int, NEW n \in Int, NEW T \in SUBSET (m .. n), T # {}
  PROVE  Min(T) \in T /\ \A y \in T : Min(T) <= y
<1> DEFINE U == {k \in (0 - n) .. (0 - m) : 0 - k \in T}
<1>1. U \in SUBSET ((0 - n) .. (0 - m)) /\ 0 - n \in Int /\ 0 - m \in Int
  OBVIOUS
<1>2. \A x \in T : x \in Int /\ 0 - x \in U
  OBVIOUS
<1>3. U # {}
  BY <1>2
<1>4. \A u \in U : u \in Int /\ 0 - u \in T
  OBVIOUS
<1> HIDE DEF U
<1>5. PICK u \in U : \A y \in U : u >= y
  BY <1>1, <1>3, HasLargest
<1>6. 0 - u \in T /\ \A y \in T : 0 - u <= y
  BY <1>2, <1>4, <1>5
<1>7. \E x \in T : \A y \in T : x <= y
  BY <1>6
<1> QED
  BY <1>7 DEF Min

LEMMA OfTwo ==
  ASSUME NEW x \in Int, NEW y \in Int
  PROVE  /\ Max({x, y}) \in {x, y} /\ Max({x, y}) >= x /\ Max({x, y}) >= y
         /\ Min({x, y}) \in {x, y} /\ Min({x, y}) <= x /\ Min({x, y}) <= y
<1>1. \E z \in {x, y} : \A u \in {x, y} : z >= u
  <2>1. x >= y \/ y >= x
    OBVIOUS
  <2> QED
    BY <2>1
<1>2. \E z \in {x, y} : \A u \in {x, y} : z <= u
  <2>1. x >= y \/ y >= x
    OBVIOUS
  <2> QED
    BY <2>1
<1>3. Max({x, y}) \in {x, y} /\ \A u \in {x, y} : Max({x, y}) >= u
  BY <1>1, Zenon DEF Max
<1>4. Min({x, y}) \in {x, y} /\ \A u \in {x, y} : Min({x, y}) <= u
  BY <1>2, Zenon DEF Min
<1> QED
  BY <1>3, <1>4

-----------------------------------------------------------------------------
(* The result of the query: every row of table R once, ordered. *)
Lists(o, n, R) ==
  /\ n \in Nat /\ o \in [1 .. n -> R]
  /\ \A e \in R : e.ts \in Int /\ \E k \in 1 .. n : o[k] = e
  /\ \A i, j \in 1 .. n : i < j => o[i] # o[j] /\ o[i].ts <= o[j].ts

(* An order of the query has as many places as the table has rows, and no   *)
(* row twice, so it has them all.                                            *)
LEMMA OrdersList ==
  ASSUME NEW R, IsFiniteSet(R), \A e \in R : e.ts \in Int, NEW o \in Orders(R)
  PROVE  Lists(o, Cardinality(R), R)
<1> DEFINE n == Cardinality(R)
<1>1. n \in Nat
  BY FS_CardinalityType
<1>2. o \in [1 .. n -> R] /\ \A i, j \in DOMAIN o : i < j => o[i] # o[j] /\ o[i].ts <= o[j].ts
  BY DEF Orders
<1> HIDE DEF n
<1>3. DOMAIN o = 1 .. n
  BY <1>2
<1>4. \A i, j \in 1 .. n : o[i] = o[j] => i = j
  <2> SUFFICES ASSUME NEW i \in 1 .. n, NEW j \in 1 .. n, i # j PROVE o[i] # o[j]
    OBVIOUS
  <2>1. i < j \/ j < i
    OBVIOUS
  <2> QED
    BY <1>2, <1>3, <2>1
<1>5. o \in Injection(1 .. n, R)
  BY <1>2, <1>4 DEF Injection, IsInjective
<1>6. Cardinality(1 .. n) = n
  BY <1>1, FS_Interval
<1>7. o \in Surjection(1 .. n, R)
  BY <1>5, <1>6, FS_Injection DEF n
<1>8. \A e \in R : \E k \in 1 .. n : o[k] = e
  BY <1>7 DEF Surjection
<1> QED
  BY <1>1, <1>2, <1>3, <1>8 DEF Lists, n

(* Places of the result are as many as the rows there. *)
LEMMA PlacesAreRows ==
  ASSUME NEW o, NEW n, NEW R, Lists(o, n, R), NEW G \in SUBSET (1 .. n)
  PROVE  /\ IsFiniteSet(G) /\ Cardinality(G) \in 0 .. n
         /\ Cardinality({o[k] : k \in G}) = Cardinality(G)
<1> DEFINE S == {o[k] : k \in G}
           f == [k \in G |-> o[k]]
<1>1. n \in Nat /\ IsFiniteSet(1 .. n) /\ Cardinality(1 .. n) = n
  BY FS_Interval DEF Lists
<1>2. IsFiniteSet(G) /\ Cardinality(G) <= n /\ Cardinality(G) \in Nat
  BY <1>1, FS_Subset, FS_CardinalityType
<1>3. \A i, j \in G : o[i] = o[j] => i = j
  <2> SUFFICES ASSUME NEW i \in G, NEW j \in G, i # j PROVE o[i] # o[j]
    OBVIOUS
  <2>1. i < j \/ j < i
    OBVIOUS
  <2> QED
    BY <2>1 DEF Lists
<1>4. f \in [G -> S] /\ (\A i, j \in G : f[i] = f[j] => i = j) /\ \A s \in S : \E k \in G : f[k] = s
  BY <1>3
<1> HIDE DEF f, S
<1>5. f \in Surjection(G, S) /\ f \in Injection(G, S)
  BY <1>4 DEF Surjection, Injection, IsInjective
<1>6. Cardinality(S) = Cardinality(G)
  BY <1>2, <1>5, FS_Surjection
<1> QED
  BY <1>1, <1>2, <1>6 DEF S

-----------------------------------------------------------------------------
(* Spans *)

(* There are no more distinct values than rows. *)
LEMMA DistinctAre ==
  ASSUME NEW o, NEW n, NEW R, Lists(o, n, R), NEW S \in SUBSET (1 .. n), NEW field
  PROVE  IsFiniteSet(Distinct(o, S, field)) /\ Cardinality(Distinct(o, S, field)) \in 0 .. n
<1> DEFINE img == {o[k][field] : k \in S}
           f == [k \in S |-> o[k][field]]
           D == Distinct(o, S, field)
<1>1. IsFiniteSet(S) /\ Cardinality(S) \in 0 .. n /\ n \in Nat
  BY PlacesAreRows DEF Lists
<1>2. f \in [S -> img] /\ \A s \in img : \E k \in S : f[k] = s
  OBVIOUS
<1>3. D \in SUBSET img
  BY DEF Distinct
<1> HIDE DEF f, img, D
<1>4. f \in Surjection(S, img)
  BY <1>2 DEF Surjection
<1>5. IsFiniteSet(img) /\ Cardinality(img) <= Cardinality(S)
  BY <1>1, <1>4, FS_Surjection
<1>6. IsFiniteSet(D) /\ Cardinality(D) <= Cardinality(img)
  BY <1>3, <1>5, FS_Subset
<1>7. Cardinality(img) \in Nat /\ Cardinality(D) \in Nat
  BY <1>5, <1>6, FS_CardinalityType
<1>8. Cardinality(D) \in 0 .. n
  <2> DEFINE a == Cardinality(D)
             b == Cardinality(img)
             c == Cardinality(S)
  <2>1. a \in Nat /\ b \in Nat /\ c \in 0 .. n /\ a <= b /\ b <= c /\ n \in Nat
    BY <1>1, <1>5, <1>6, <1>7
  <2> HIDE DEF a, b, c
  <2>2. a \in 0 .. n
    BY <2>1
  <2> QED
    BY <2>2 DEF a
<1> QED
  BY <1>6, <1>8 DEF D

(* The measure of a span is bounded, and grows with the span. *)
LEMMA MeasureIs ==
  ASSUME NEW o, NEW n, NEW R, Lists(o, n, R), NEW rule, NEW S \in SUBSET (1 .. n)
  PROVE  MeasureOf(rule, o, S) \in 0 .. n
BY PlacesAreRows, DistinctAre DEF MeasureOf

LEMMA WiderMeasuresMore ==
  ASSUME NEW o, NEW n, NEW R, Lists(o, n, R), NEW rule, NEW T \in SUBSET (1 .. n), NEW S \in SUBSET T
  PROVE  MeasureOf(rule, o, S) <= MeasureOf(rule, o, T)
<1>1. CASE rule.type = "distinct"
  <2>1. Distinct(o, S, rule.distinct_field) \in SUBSET Distinct(o, T, rule.distinct_field)
    BY DEF Distinct
  <2>2. IsFiniteSet(Distinct(o, T, rule.distinct_field))
    BY DistinctAre
  <2>3. Cardinality(Distinct(o, S, rule.distinct_field)) <= Cardinality(Distinct(o, T, rule.distinct_field))
    BY <2>1, <2>2, FS_Subset
  <2> QED
    BY <1>1, <2>3 DEF MeasureOf
<1>2. CASE rule.type # "distinct"
  <2>1. IsFiniteSet(T)
    BY PlacesAreRows
  <2>2. Cardinality(S) <= Cardinality(T)
    BY <2>1, FS_Subset
  <2> QED
    BY <1>2, <2>2 DEF MeasureOf
<1> QED
  BY <1>1, <1>2

(* The span that is returned is a part of the group, not empty, and none of  *)
(* the widest spans has a larger measure.                                    *)
LEMMA PeakIs ==
  ASSUME NEW o, NEW n, NEW R, Lists(o, n, R), NEW rule, rule.window_minutes \in Int,
         rule.window_minutes > 0, NEW G \in SUBSET (1 .. n), G # {}
  PROVE  LET span == PeakSpan(rule, o, G) IN
         /\ span \in SUBSET G /\ span # {}
         /\ \A j \in G : MeasureOf(rule, o, Widest(rule, o, G, j)) <= MeasureOf(rule, o, span)
<1> DEFINE M(j) == MeasureOf(rule, o, Widest(rule, o, G, j))
           ms == {M(j) : j \in G}
           most == Max(ms)
           js == {j \in G : M(j) = most}
           first == Min(js)
           span == Widest(rule, o, G, first)
<1>1. PeakSpan(rule, o, G) = span
  BY DEF PeakSpan
<1>2. \A j \in G : M(j) \in 0 .. n
  <2>1. \A j \in G : Widest(rule, o, G, j) \in SUBSET (1 .. n)
    BY DEF Widest
  <2> QED
    BY <2>1, MeasureIs
<1>3. n \in Nat /\ 0 \in Int /\ n \in Int /\ 1 \in Int
  BY DEF Lists
<1>4. \A j \in G : Widest(rule, o, G, j) \in SUBSET G /\ Widest(rule, o, G, j) # {}
  <2> SUFFICES ASSUME NEW j \in G PROVE Widest(rule, o, G, j) \in SUBSET G /\ Widest(rule, o, G, j) # {}
    OBVIOUS
  <2>1. o[j].ts \in Int /\ j \in Int
    BY DEF Lists
  <2>2. j <= j /\ o[j].ts - o[j].ts <= rule.window_minutes
    BY <2>1
  <2>3. j \in Widest(rule, o, G, j)
    BY <2>2 DEF Widest
  <2> QED
    BY <2>3 DEF Widest
<1> HIDE DEF M
<1>5. ms \in SUBSET (0 .. n) /\ ms # {}
  BY <1>2
<1>6. \A j \in G : M(j) \in ms
  OBVIOUS
<1>7. \A x \in ms : \E j \in G : M(j) = x
  OBVIOUS
<1> HIDE DEF ms
<1>8. most \in ms /\ \A y \in ms : most >= y
  BY <1>3, <1>5, MaxIs
<1>9. js \in SUBSET (1 .. n) /\ js # {}
  BY <1>7, <1>8
<1> HIDE DEF most
<1>10. \A j \in js : j \in G /\ M(j) = most
  OBVIOUS
<1> HIDE DEF js
<1>11. first \in js
  BY <1>3, <1>9, MinIs
<1> HIDE DEF first
<1>12. first \in G /\ M(first) = most
  BY <1>10, <1>11
<1>13. span \in SUBSET G /\ span # {}
  BY <1>4, <1>12
<1>14. \A j \in G : M(j) <= M(first)
  BY <1>2, <1>6, <1>8, <1>12
<1>15. \A j \in G : MeasureOf(rule, o, Widest(rule, o, G, j)) <= MeasureOf(rule, o, span)
  BY <1>14 DEF M
<1> HIDE DEF span
<1> QED
  BY <1>1, <1>13, <1>15

-----------------------------------------------------------------------------
(* The test of a group *)

Sound(rule) == IsRule(rule) /\ Valid(rule)

(* What load_rules has made sure of. *)
LEMMA SoundIs ==
  ASSUME NEW rule, Sound(rule)
  PROVE  /\ rule.window_minutes \in Int /\ rule.window_minutes > 0 /\ rule.threshold \in Int
         /\ rule.type \in {"threshold", "distinct", "match", "ratio"}
BY DEF Sound, IsRule, Valid, VALID_TYPES

(* The evidence of _test_group is a part of the group, and not empty. *)
LEMMA TestedIs ==
  ASSUME NEW o, NEW n, NEW R, Lists(o, n, R), NEW rule, Sound(rule), NEW G \in SUBSET (1 .. n), G # {}
  PROVE  TestGroup(rule, o, G)[3] \in SUBSET G /\ TestGroup(rule, o, G)[3] # {}
<1> DEFINE span == PeakSpan(rule, o, G)
           peak == MeasureOf(rule, o, span)
           per == Percent(rule, o, G)
<1>1. span \in SUBSET G /\ span # {}
  BY SoundIs, PeakIs
<1>2. CASE rule.type \in {"threshold", "distinct"}
  <2>1. TestGroup(rule, o, G) = <<peak, peak >= rule.threshold, IF peak = 0 THEN G ELSE span>>
    BY <1>2 DEF TestGroup
  <2> HIDE DEF peak, span
  <2> QED
    BY <1>1, <2>1
<1>3. CASE rule.type = "match"
  <2>1. TestGroup(rule, o, G) = <<Cardinality(G), TRUE, G>>
    BY <1>3 DEF TestGroup
  <2> QED
    BY <2>1
<1>4. CASE rule.type = "ratio"
  <2>1. TestGroup(rule, o, G) = <<per, per >= rule.threshold, G>>
    BY <1>4 DEF TestGroup
  <2> HIDE DEF per
  <2> QED
    BY <2>1
<1> QED
  BY <1>2, <1>3, <1>4, SoundIs

(* Any part of the group within one window counts. *)
LEMMA BurstFires ==
  ASSUME NEW o, NEW n, NEW R, Lists(o, n, R), NEW rule, Sound(rule),
         rule.type \in {"threshold", "distinct"}, NEW G \in SUBSET (1 .. n),
         NEW S \in SUBSET G, S # {}, \A i, j \in S : o[j].ts - o[i].ts <= rule.window_minutes,
         MeasureOf(rule, o, S) >= rule.threshold
  PROVE  TestGroup(rule, o, G)[2]
<1> DEFINE last == Max(S)
           W == Widest(rule, o, G, last)
           span == PeakSpan(rule, o, G)
           peak == MeasureOf(rule, o, span)
<1>1. n \in Int /\ 1 \in Int
  BY DEF Lists
<1>2. last \in S /\ \A i \in S : last >= i
  BY <1>1, MaxIs
<1> HIDE DEF last
<1>3. S \in SUBSET W /\ W \in SUBSET (1 .. n)
  BY <1>2 DEF Widest
<1>4. G # {} /\ last \in G
  BY <1>2
<1>5. MeasureOf(rule, o, W) <= peak /\ span \in SUBSET (1 .. n)
  BY <1>4, SoundIs, PeakIs
<1>6. MeasureOf(rule, o, S) <= MeasureOf(rule, o, W)
  BY <1>3, WiderMeasuresMore
<1>7. MeasureOf(rule, o, S) \in 0 .. n /\ MeasureOf(rule, o, W) \in 0 .. n /\ peak \in 0 .. n
  BY <1>3, <1>5, MeasureIs
<1>8. TestGroup(rule, o, G) = <<peak, peak >= rule.threshold, IF peak = 0 THEN G ELSE span>>
  BY DEF TestGroup
<1> HIDE DEF W, span, peak
<1>9. peak >= rule.threshold
  <2> DEFINE a == MeasureOf(rule, o, S)
             b == MeasureOf(rule, o, W)
  <2>1. a \in 0 .. n /\ b \in 0 .. n /\ a <= b /\ b <= peak /\ a >= rule.threshold
    BY <1>5, <1>6, <1>7
  <2> HIDE DEF a, b
  <2> QED
    BY <1>1, <1>7, <2>1, SoundIs
<1> DEFINE b == peak >= rule.threshold
           e == IF peak = 0 THEN G ELSE span
<1>10. b = TRUE
  BY <1>9
<1>11. TestGroup(rule, o, G) = <<peak, b, e>>
  BY <1>8
<1> HIDE DEF b, e
<1>12. TestGroup(rule, o, G)[2] = b
  BY <1>11
<1> QED
  BY <1>10, <1>12

(* Division that rounds down keeps an integer bound. *)
LEMMA Quotient ==
  ASSUME NEW a \in Nat, NEW m \in Nat \ {0}, NEW t \in Int, a >= t * m
  PROVE  a \div m >= t
<1> DEFINE q == a \div m
<1>1. q \in Int /\ m * q <= a /\ a < m * q + m
  OBVIOUS
<1> HIDE DEF q
<1>2. SUFFICES ASSUME q < t PROVE FALSE
  BY <1>1 DEF q
<1>3. q + 1 <= t
  BY <1>1, <1>2
<1>4. m * (q + 1) <= m * t
  BY <1>1, <1>3
<1>5. m * (q + 1) = m * q + m /\ m * t = t * m
  BY <1>1
<1> QED
  BY <1>1, <1>4, <1>5

(* A ratio rule fires if its share reaches the threshold, rounded or not. *)
LEMMA ShareFires ==
  ASSUME NEW o, NEW n, NEW R, Lists(o, n, R), NEW rule, Sound(rule), rule.type = "ratio",
         NEW G \in SUBSET (1 .. n), G # {},
         100 * Cardinality({k \in G : Matches(o[k], rule.numerator_where)})
           >= rule.threshold * Cardinality(G)
  PROVE  TestGroup(rule, o, G)[2]
<1> DEFINE H == {k \in G : Matches(o[k], rule.numerator_where)}
           c == Cardinality(H)
           m == Cardinality(G)
           per == Percent(rule, o, G)
<1>1. H \in SUBSET (1 .. n)
  OBVIOUS
<1>2. c \in Nat /\ m \in Nat
  <2> HIDE DEF H
  <2> QED
    BY <1>1, PlacesAreRows, FS_CardinalityType
<1>3. m # 0
  BY PlacesAreRows, FS_EmptySet
<1>4. per = (100 * c) \div m
  BY DEF Percent
<1>5. 100 * c >= rule.threshold * m
  OBVIOUS
<1>6. TestGroup(rule, o, G) = <<per, per >= rule.threshold, G>>
  BY DEF TestGroup
<1> HIDE DEF c, m, per, H
<1>7. 100 * c \in Nat /\ m \in Nat \ {0} /\ rule.threshold \in Int
  BY <1>2, <1>3, SoundIs
<1>8. per >= rule.threshold
  BY <1>4, <1>5, <1>7, Quotient
<1> DEFINE b == per >= rule.threshold
<1>9. b = TRUE
  BY <1>8
<1>10. TestGroup(rule, o, G) = <<per, b, G>>
  BY <1>6
<1> HIDE DEF b
<1>11. TestGroup(rule, o, G)[2] = b
  BY <1>10
<1> QED
  BY <1>9, <1>11

(* The places of some of the rows. *)
LEMMA RowsAtPlaces ==
  ASSUME NEW o, NEW n, NEW R, Lists(o, n, R), NEW W \in SUBSET R
  PROVE  LET I == {k \in 1 .. n : o[k] \in W} IN
         /\ {o[k] : k \in I} = W /\ Cardinality(I) = Cardinality(W) /\ (W # {} => I # {})
<1> DEFINE I == {k \in 1 .. n : o[k] \in W}
<1>1. I \in SUBSET (1 .. n)
  OBVIOUS
<1>2. {o[k] : k \in I} = W
  BY DEF Lists
<1>3. W # {} => I # {}
  BY DEF Lists
<1>4. Cardinality({o[k] : k \in I}) = Cardinality(I)
  <2> HIDE DEF I
  <2> QED
    BY <1>1, PlacesAreRows
<1> QED
  BY <1>2, <1>3, <1>4

(* The rows that rule i would put into one group. *)
RowsOf(i, key) == {e \in rows : Matches(e, file[i].where) /\ e[file[i].group_by] = key}

(* A group is the places of the rows it stands for. *)
LEMMA GroupIs ==
  ASSUME NEW o, NEW n, Lists(o, n, rows), NEW i, NEW key
  PROVE  /\ Group(file[i], o, key) = {k \in 1 .. n : o[k] \in RowsOf(i, key)}
         /\ Group(file[i], o, key) \in SUBSET (1 .. n)
<1>1. DOMAIN o = 1 .. n /\ \A k \in 1 .. n : o[k] \in rows
  BY DEF Lists
<1> QED
  BY <1>1 DEF Group, Candidates, RowsOf

(* _test_group triggers wherever the rows justify it. *)
LEMMA FiresIfShould ==
  ASSUME NEW o, NEW n, Lists(o, n, rows), NEW i \in DOMAIN file, Sound(file[i]), NEW key, ShouldFire(i, key)
  PROVE  LET G == Group(file[i], o, key) IN G # {} /\ TestGroup(file[i], o, G)[2]
<1> DEFINE rule == file[i]
           Q == RowsOf(i, key)
           G == Group(rule, o, key)
<1>1. G = {k \in 1 .. n : o[k] \in Q} /\ G \in SUBSET (1 .. n)
  BY GroupIs
<1>2. Q # {} /\ Q \in SUBSET rows
  BY DEF ShouldFire, RowsOf
<1>3. G # {} /\ Cardinality(G) = Cardinality(Q)
  BY <1>1, <1>2, RowsAtPlaces
<1>4. CASE rule.type = "match"
  <2>1. TestGroup(rule, o, G) = <<Cardinality(G), TRUE, G>>
    BY <1>4 DEF TestGroup
  <2> QED
    BY <1>3, <2>1
<1>5. CASE rule.type \in {"threshold", "distinct"}
  <2> DEFINE In(a) == {e \in Q : e.ts >= a.ts /\ e.ts - a.ts <= rule.window_minutes}
             Size(s) == IF rule.type = "distinct"
                        THEN Cardinality({e[rule.distinct_field] : e \in s} \ {Null}) ELSE Cardinality(s)
  <2>1. PICK a \in Q : Size(In(a)) >= rule.threshold
    BY <1>5 DEF ShouldFire, RowsOf
  <2> DEFINE W == In(a)
             S == {k \in 1 .. n : o[k] \in W}
  <2>2. W \in SUBSET rows /\ W \in SUBSET Q
    BY <1>2
  <2>3. \A e \in rows : e.ts \in Int
    BY DEF Lists
  <2>4. a \in W
    BY <1>2, <2>3, SoundIs
  <2>5. \A d, e \in W : e.ts - d.ts <= rule.window_minutes
    BY <2>2, <2>3, <1>2, SoundIs
  <2>6. Size(W) >= rule.threshold
    BY <2>1
  <2> HIDE DEF W
  <2>7. {o[k] : k \in S} = W /\ Cardinality(S) = Cardinality(W) /\ S # {}
    BY <2>2, <2>4, RowsAtPlaces
  <2>8. S \in SUBSET G
    BY <1>1, <2>2
  <2>9. \A j, k \in S : o[k].ts - o[j].ts <= rule.window_minutes
    BY <2>5
  <2>10. Distinct(o, S, rule.distinct_field) = {e[rule.distinct_field] : e \in W} \ {Null}
    BY <2>7 DEF Distinct
  <2>11. MeasureOf(rule, o, S) = Size(W)
    BY <2>7, <2>10 DEF MeasureOf
  <2>12. MeasureOf(rule, o, S) >= rule.threshold
    BY <2>6, <2>11
  <2> HIDE DEF S, G, Q
  <2>13. TestGroup(rule, o, G)[2]
    BY <1>1, <1>5, <2>7, <2>8, <2>9, <2>12, BurstFires
  <2> QED
    BY <1>3, <2>13 DEF G
<1>6. CASE rule.type = "ratio"
  <2> DEFINE X == {e \in Q : Matches(e, rule.numerator_where)}
             H == {k \in G : Matches(o[k], rule.numerator_where)}
  <2>1. 100 * Cardinality(X) >= rule.threshold * Cardinality(Q)
    BY <1>6 DEF ShouldFire, RowsOf
  <2>2. H = {k \in 1 .. n : o[k] \in X}
    BY <1>1
  <2>3. X \in SUBSET rows
    BY <1>2
  <2>4. Cardinality(H) = Cardinality(X)
    <3> HIDE DEF X, H
    <3> QED
      BY <2>2, <2>3, RowsAtPlaces
  <2>5. 100 * Cardinality(H) >= rule.threshold * Cardinality(G)
    BY <1>3, <2>1, <2>4
  <2> HIDE DEF G, Q
  <2>6. TestGroup(rule, o, G)[2]
    BY <1>1, <1>3, <1>6, <2>5, ShareFires
  <2> QED
    BY <1>3, <2>6 DEF G
<1> QED
  BY <1>4, <1>5, <1>6, SoundIs

-----------------------------------------------------------------------------
(* Alerts *)

(* What an alert of rule i for one group says of the rows. *)
Attests(a, i, key, n) ==
  /\ a.key = <<file[i].id, key>> /\ AlertShape(a) /\ a.first_seen <= a.last_seen
  /\ a.hit_count \in 1 .. n /\ a.hit_count <= Cardinality(RowsOf(i, key))
  /\ \E e \in RowsOf(i, key) : e.ts = a.first_seen
  /\ \E e \in RowsOf(i, key) : e.ts = a.last_seen

(* _build_alert says no more than its evidence shows. *)
LEMMA AlertIs ==
  ASSUME NEW o, NEW n, Lists(o, n, rows), NEW i, NEW key, NEW E \in SUBSET Group(file[i], o, key), E # {},
         NEW observed, NEW a, a = BuildAlert(file[i], o, key, E, observed)
  PROVE  Attests(a, i, key, n)
<1> DEFINE G == Group(file[i], o, key)
           Q == RowsOf(i, key)
           T == {o[k].ts : k \in E}
           c == Cardinality(E)
           lo == Min(T)
           hi == Max(T)
<1>0. Q \in SUBSET rows
  BY DEF RowsOf
<1>1. G = {k \in 1 .. n : o[k] \in Q} /\ G \in SUBSET (1 .. n) /\ Q \in SUBSET rows
  BY <1>0, GroupIs
<1>2. n \in Int /\ 1 \in Int
  BY DEF Lists
<1>3. E \in SUBSET (1 .. n) /\ \A k \in E : o[k] \in Q
  BY <1>1
<1>4. Cardinality(G) = Cardinality(Q)
  BY <1>1, RowsAtPlaces
<1>5. c \in 1 .. n /\ c <= Cardinality(Q)
  <2>1. IsFiniteSet(G) /\ IsFiniteSet(E) /\ c \in 0 .. n
    BY <1>1, <1>3, PlacesAreRows
  <2>2. c <= Cardinality(G) /\ c # 0
    BY <2>1, FS_Subset, FS_EmptySet
  <2> HIDE DEF c, G, Q
  <2> QED
    BY <1>2, <1>4, <2>1, <2>2
<1>6. /\ lo \in T /\ hi \in T /\ lo \in Int /\ hi \in Int /\ lo <= hi
  <2> DEFINE x == Min(E)
             y == Max(E)
  <2>1. x \in E /\ y \in E /\ (\A k \in E : x <= k) /\ \A k \in E : y >= k
    BY <1>2, <1>3, MinIs, MaxIs
  <2> HIDE DEF x, y
  <2>2. \A k \in E : o[k].ts \in Int
    BY <1>3 DEF Lists
  <2>3. \A j, k \in E : j <= k => o[j].ts <= o[k].ts
    <3> SUFFICES ASSUME NEW j \in E, NEW k \in E, j <= k PROVE o[j].ts <= o[k].ts
      OBVIOUS
    <3>1. j = k \/ j < k
      BY <1>3
    <3> QED
      BY <1>3, <2>2, <3>1 DEF Lists
  <2>4. \A k \in E : o[x].ts <= o[k].ts /\ o[k].ts <= o[y].ts
    BY <1>3, <2>1, <2>3
  <2>5. T \in SUBSET (o[x].ts .. o[y].ts) /\ T # {} /\ o[x].ts \in Int /\ o[y].ts \in Int
    BY <2>1, <2>2, <2>4
  <2>6. \A t \in T : t \in Int
    BY <2>2
  <2> HIDE DEF T
  <2>7. lo \in T /\ hi \in T /\ \A t \in T : lo <= t
    BY <2>5, MinIs, MaxIs
  <2> QED
    BY <2>6, <2>7
<1>7. \A t \in T : \E e \in Q : e.ts = t
  BY <1>3
<1> HIDE DEF T, c, lo, hi, G, Q
<1>8. a = [key |-> <<file[i].id, key>>, hit_count |-> c, observed |-> observed,
           src_ip |-> IF file[i].group_by = "src_ip" THEN key ELSE o[Min(E)].src_ip,
           first_seen |-> lo, last_seen |-> hi, severity |-> file[i].severity, mitre |-> file[i].mitre]
  BY DEF BuildAlert, T, c, lo, hi
<1>9. c \in Nat
  BY <1>2, <1>5
<1>10. a.key = <<file[i].id, key>> /\ a.hit_count = c /\ a.first_seen = lo /\ a.last_seen = hi /\ AlertShape(a)
  BY <1>6, <1>8, <1>9 DEF AlertShape
<1>11. /\ a.key = <<file[i].id, key>> /\ AlertShape(a) /\ a.first_seen <= a.last_seen
       /\ a.hit_count \in 1 .. n /\ a.hit_count <= Cardinality(Q)
       /\ (\E e \in Q : e.ts = a.first_seen) /\ \E e \in Q : e.ts = a.last_seen
  BY <1>5, <1>6, <1>7, <1>10
<1> QED
  BY <1>11 DEF Q, Attests

(* What holds of an alert under key k. *)
Founded(a, k) ==
  /\ a.key = k /\ AlertShape(a) /\ a.hit_count \in 1 .. MaxRows /\ a.first_seen <= a.last_seen
  /\ k[2] # Null
  /\ \E i \in DOMAIN file : file[i].id = k[1]
  /\ \E e \in GroupOf(k) : e.ts = a.first_seen
  /\ \E e \in GroupOf(k) : e.ts = a.last_seen
  /\ a.hit_count <= Cardinality(GroupOf(k))

(* Ids are unique in a file that loads, so a key names one rule. *)
LEMMA RuleOfKey ==
  ASSUME Loads(file), NEW i \in DOMAIN file, NEW k, file[i].id = k[1]
  PROVE  RuleOf(k) = i /\ GroupOf(k) = RowsOf(i, k[2])
<1>1. \A j \in DOMAIN file : file[j].id = k[1] => j = i
  BY DEF Loads
<1>2. RuleOf(k) \in DOMAIN file /\ file[RuleOf(k)].id = k[1]
  BY DEF RuleOf
<1>3. RuleOf(k) = i
  BY <1>1, <1>2
<1> QED
  BY <1>3 DEF GroupOf, RowsOf

(* The rows of the table, as RuleInv has them. *)
TableIsFine == IsFiniteSet(rows) /\ rows \subseteq EventKinds /\ Cardinality(rows) <= MaxRows
               /\ \A i \in DOMAIN file : IsRule(file[i])

(* What evaluate_rules returns is founded. *)
LEMMA EachAlert ==
  ASSUME TableIsFine, Loads(file), NEW o \in Orders(rows), NEW a \in EvaluateRules(file, o)
  PROVE  Founded(a, a.key)
<1> DEFINE n == Cardinality(rows)
<1>1. Lists(o, n, rows)
  BY OrdersList, RuleAssumption DEF TableIsFine
<1>2. n \in Nat /\ n <= MaxRows /\ MaxRows \in Nat
  BY <1>1, RuleAssumption DEF TableIsFine, Lists
<1> HIDE DEF n
<1>3. PICK i \in DOMAIN file : a \in EvaluateRule(file[i], o)
  BY DEF EvaluateRules
<1>4. PICK key \in GroupKeys(file[i], o) :
        a = BuildAlert(file[i], o, key, TestGroup(file[i], o, Group(file[i], o, key))[3],
                       TestGroup(file[i], o, Group(file[i], o, key))[1])
  BY <1>3 DEF EvaluateRule
<1> DEFINE G == Group(file[i], o, key)
           E == TestGroup(file[i], o, G)[3]
           obs == TestGroup(file[i], o, G)[1]
<1>5. G # {} /\ key # Null
  BY DEF GroupKeys, Group
<1>6. Sound(file[i])
  BY DEF Loads, Sound, TableIsFine
<1>7. G \in SUBSET (1 .. n)
  BY <1>1, GroupIs
<1>8. E \in SUBSET G /\ E # {}
  <2> HIDE DEF G
  <2> QED
    BY <1>1, <1>5, <1>6, <1>7, TestedIs
<1>9. a = BuildAlert(file[i], o, key, E, obs)
  BY <1>4
<1> HIDE DEF E, obs
<1>10. Attests(a, i, key, n)
  BY <1>1, <1>8, <1>9, AlertIs, Zenon DEF G
<1> DEFINE k == a.key
<1>11. k[1] = file[i].id /\ k[2] = key
  BY <1>10 DEF Attests
<1> HIDE DEF k
<1>12. GroupOf(k) = RowsOf(i, key)
  BY <1>11, RuleOfKey
<1>13. a.hit_count \in 1 .. MaxRows
  BY <1>2, <1>10 DEF Attests
<1>14. Founded(a, k)
  <2>1. a.key = k
    BY DEF k
  <2> QED
    BY <1>5, <1>10, <1>11, <1>12, <1>13, <2>1 DEF Founded, Attests
<1> QED
  BY <1>14 DEF k

(* A merged alert is as well founded as the two it comes from, and takes     *)
(* nothing back from the old one.                                            *)
Extends(new, old) ==
  /\ new.hit_count >= old.hit_count /\ new.first_seen <= old.first_seen /\ new.last_seen >= old.last_seen
  /\ new.mitre = old.mitre

LEMMA MergedIs ==
  ASSUME NEW old, NEW new, NEW k, Founded(old, k), Founded(new, k)
  PROVE  Founded(Merged(old, new), k) /\ Extends(Merged(old, new), old)
<1> DEFINE c == Max({new.hit_count, old.hit_count})
           lo == Min({new.first_seen, old.first_seen})
           hi == Max({new.last_seen, old.last_seen})
           m == Merged(old, new)
           ip == old.src_ip
           mi == old.mitre
<1>1. /\ new.hit_count \in Nat /\ new.first_seen \in Int /\ new.last_seen \in Int
      /\ new \in [key : {new.key}, hit_count : Nat, observed : {new.observed}, src_ip : {new.src_ip},
                  first_seen : Int, last_seen : Int, severity : {new.severity}, mitre : {new.mitre}]
  BY DEF Founded, AlertShape
<1>2. old.hit_count \in Nat /\ old.first_seen \in Int /\ old.last_seen \in Int
  BY DEF Founded, AlertShape
<1>3. c \in {new.hit_count, old.hit_count} /\ c >= new.hit_count /\ c >= old.hit_count
  BY <1>1, <1>2, OfTwo
<1>4. lo \in {new.first_seen, old.first_seen} /\ lo <= new.first_seen /\ lo <= old.first_seen
  BY <1>1, <1>2, OfTwo
<1>5. hi \in {new.last_seen, old.last_seen} /\ hi >= new.last_seen /\ hi >= old.last_seen
  BY <1>1, <1>2, OfTwo
<1>6. m = [new EXCEPT !.hit_count = c, !.first_seen = lo, !.last_seen = hi, !.src_ip = ip, !.mitre = mi]
  BY <1>1 DEF Merged
<1> HIDE DEF c, lo, hi, m, ip, mi
<1>7. c \in Nat /\ lo \in Int /\ hi \in Int
  BY <1>1, <1>2, <1>3, <1>4, <1>5
<1>8. /\ m.key = new.key /\ m.hit_count = c /\ m.first_seen = lo /\ m.last_seen = hi /\ m.mitre = mi
      /\ AlertShape(m)
  BY <1>1, <1>6, <1>7 DEF AlertShape
<1>9. lo <= hi
  BY <1>1, <1>2, <1>4, <1>5, <1>7 DEF Founded
<1>10. Founded(m, k)
  <2>1. m.key = k /\ k[2] # Null /\ \E i \in DOMAIN file : file[i].id = k[1]
    BY <1>8 DEF Founded
  <2>2. m.hit_count \in 1 .. MaxRows /\ m.hit_count <= Cardinality(GroupOf(k))
    BY <1>3, <1>8 DEF Founded
  <2>3. \E e \in GroupOf(k) : e.ts = m.first_seen
    BY <1>4, <1>8 DEF Founded
  <2>4. \E e \in GroupOf(k) : e.ts = m.last_seen
    BY <1>5, <1>8 DEF Founded
  <2> QED
    BY <1>8, <1>9, <2>1, <2>2, <2>3, <2>4 DEF Founded
<1>11. Extends(m, old)
  BY <1>3, <1>4, <1>5, <1>8 DEF Extends, mi
<1> QED
  BY <1>10, <1>11 DEF m

LEMMA KeptIs ==
  ASSUME NEW old, NEW k, Founded(old, k)
  PROVE  Extends(old, old)
BY DEF Founded, AlertShape, Extends

(* The table after a run. *)
LEMMA PersistedIs ==
  ASSUME NEW alerts, NEW table, \A k \in DOMAIN table : Founded(table[k], k),
         \A a \in alerts : Founded(a, a.key), NEW new, new = Persisted(table, alerts)
  PROVE  /\ DOMAIN new = DOMAIN table \cup {a.key : a \in alerts}
         /\ \A k \in DOMAIN new : Founded(new[k], k)
         /\ \A k \in DOMAIN table : Extends(new[k], table[k])
<1>1. DOMAIN new = DOMAIN table \cup {a.key : a \in alerts}
  BY DEF Persisted
<1>2. ASSUME NEW k \in DOMAIN new PROVE Founded(new[k], k) /\ (k \in DOMAIN table => Extends(new[k], table[k]))
  <2>1. CASE \E a \in alerts : a.key = k
    <3> DEFINE b == CHOOSE a \in alerts : a.key = k
    <3>1. b \in alerts /\ b.key = k
      BY <2>1
    <3>2. Founded(b, k)
      BY <3>1
    <3>3. new[k] = IF k \in DOMAIN table THEN Merged(table[k], b) ELSE b
      BY <1>1, <2>1 DEF Persisted
    <3> HIDE DEF b
    <3>4. CASE k \in DOMAIN table
      BY <3>2, <3>3, <3>4, MergedIs, Zenon
    <3>5. CASE k \notin DOMAIN table
      BY <3>2, <3>3, <3>5, Zenon
    <3> QED
      BY <3>4, <3>5
  <2>2. CASE ~ \E a \in alerts : a.key = k
    <3>1. k \in DOMAIN table /\ new[k] = table[k]
      BY <1>1, <2>2 DEF Persisted
    <3> QED
      BY <3>1, KeptIs, Zenon
  <2> QED
    BY <2>1, <2>2
<1> QED
  BY <1>1, <1>2, Zenon

(* A healthy rule that should fire for a group has an alert for it. *)
LEMMA AlertThere ==
  ASSUME TableIsFine, Loads(file), NEW o \in Orders(rows), NEW i \in DOMAIN file, Healthy(i),
         NEW key, key # Null, ShouldFire(i, key)
  PROVE  \E a \in EvaluateRules(file, o) : a.key = <<file[i].id, key>>
<1> DEFINE n == Cardinality(rows)
           rule == file[i]
           G == Group(rule, o, key)
           t == TestGroup(rule, o, G)
           a == BuildAlert(rule, o, key, t[3], t[1])
<1>1. Lists(o, n, rows)
  BY OrdersList, RuleAssumption DEF TableIsFine
<1> HIDE DEF n
<1>2. DOMAIN o = 1 .. n /\ \A k \in 1 .. n : o[k] \in rows
  BY <1>1 DEF Lists
<1>3. Sound(rule)
  BY DEF Loads, Sound, TableIsFine
<1>4. G # {} /\ t[2]
  BY <1>1, <1>3, FiresIfShould
<1>5. rule.enabled /\ ~ Fails(rule, o)
  BY <1>2 DEF Healthy, Fails, Candidates
<1>6. key \in GroupKeys(rule, o)
  BY <1>4 DEF GroupKeys, Group
<1>7. a \in EvaluateRule(rule, o)
  BY <1>4, <1>6 DEF EvaluateRule
<1>8. a \in EvaluateRules(file, o)
  BY <1>5, <1>7 DEF EvaluateRules
<1>9. a.key = <<rule.id, key>>
  BY DEF BuildAlert
<1> QED
  BY <1>8, <1>9

-----------------------------------------------------------------------------
(* Steps *)

AllFounded == \A k \in DOMAIN store : Founded(store[k], k)

Unspoilt == \A k \in DOMAIN store : k \in DOMAIN store' /\ Extends(store'[k], store[k])

LEMMA RuleInvIs ==
  ASSUME RuleInv
  PROVE  TableIsFine /\ AllFounded
BY DEF RuleInv, RuleShapes, AlertsHaveRules, AlertsAreJustified, RuleTypeOK, AlertsAreFounded,
       TableIsFine, AllFounded, Founded

LEMMA DetectStep ==
  ASSUME RuleInv, Detect
  PROVE  RuleInv' /\ Unspoilt
<1>1. TableIsFine /\ AllFounded
  BY RuleInvIs
<1>2. Loads(file) /\ rows' = rows /\ file' = file /\ current' = TRUE
  BY DEF Detect
<1>3. PICK o \in Orders(rows) : store' = Persisted(store, EvaluateRules(file, o))
  BY DEF Detect
<1> DEFINE alerts == EvaluateRules(file, o)
<1>4. \A a \in alerts : Founded(a, a.key)
  BY <1>1, <1>2, EachAlert
<1>5. \A i \in DOMAIN file : \A key : Healthy(i) /\ key # Null /\ ShouldFire(i, key)
         => \E a \in alerts : a.key = <<file[i].id, key>>
  BY <1>1, <1>2, AlertThere
<1> HIDE DEF alerts
<1>6. store' = Persisted(store, alerts)
  BY <1>3 DEF alerts
<1> DEFINE new == store'
<1>7. /\ DOMAIN new = DOMAIN store \cup {a.key : a \in alerts}
      /\ \A k \in DOMAIN new : Founded(new[k], k)
      /\ \A k \in DOMAIN store : Extends(new[k], store[k])
  <2>1. \A k \in DOMAIN store : Founded(store[k], k)
    BY <1>1 DEF AllFounded
  <2>2. new = Persisted(store, alerts)
    BY <1>6
  <2> HIDE DEF new
  <2> QED
    BY <1>4, <2>1, <2>2, PersistedIs
<1>8. \A k : GroupOf(k)' = GroupOf(k)
  BY <1>2 DEF GroupOf, RuleOf
<1>9. RuleShapes'
  BY <1>1, <1>2, <1>7 DEF RuleShapes, TableIsFine, Founded
<1>10. AlertsHaveRules'
  BY <1>2, <1>7 DEF AlertsHaveRules, Founded
<1>11. RuleTypeOK'
  BY <1>1, <1>2, <1>7 DEF RuleTypeOK, TableIsFine, Founded
<1>12. AlertsAreFounded'
  BY <1>7, <1>8 DEF AlertsAreFounded, Founded
<1>13. DetectionIsComplete'
  <2>1. \A i \in DOMAIN file : Healthy(i)' = Healthy(i)
    BY <1>2 DEF Healthy
  <2>2. \A i \in DOMAIN file : \A key : ShouldFire(i, key)' = ShouldFire(i, key)
    BY <1>2 DEF ShouldFire
  <2>3. \A i \in DOMAIN file : \A key : Healthy(i) /\ key # Null /\ ShouldFire(i, key)
          => <<file[i].id, key>> \in DOMAIN store'
    BY <1>5, <1>7
  <2> QED
    BY <1>2, <2>1, <2>2, <2>3 DEF DetectionIsComplete
<1>14. Unspoilt
  BY <1>7 DEF Unspoilt
<1> QED
  BY <1>9, <1>10, <1>11, <1>12, <1>13, <1>14 DEF RuleInv, AlertsAreJustified

(* Steps that leave the alerts alone. *)
LEMMA KeptStep ==
  ASSUME RuleInv, store' = store
  PROVE  Unspoilt
BY RuleInvIs, KeptIs DEF Unspoilt, AllFounded

(* A late row only adds to the evidence. *)
LEMMA ArriveStep ==
  ASSUME RuleInv, Arrive
  PROVE  RuleInv'
<1>1. PICK e \in EventKinds \ rows : rows' = rows \cup {e}
  BY DEF Arrive
<1>2. Cardinality(rows) < MaxRows /\ file' = file /\ store' = store /\ current' = FALSE
  BY DEF Arrive
<1>3. TableIsFine
  BY RuleInvIs
<1>4. IsFiniteSet(rows') /\ Cardinality(rows') = Cardinality(rows) + 1 /\ Cardinality(rows) \in Nat
  BY <1>1, <1>3, FS_AddElement, FS_CardinalityType DEF TableIsFine
<1>5. rows' \subseteq EventKinds /\ Cardinality(rows') <= MaxRows
  BY <1>1, <1>2, <1>3, <1>4, RuleAssumption DEF TableIsFine
<1>6. ASSUME NEW k \in DOMAIN store
      PROVE  /\ GroupOf(k) \subseteq GroupOf(k)'
             /\ store[k].hit_count <= Cardinality(GroupOf(k)')
  <2> DEFINE A == GroupOf(k)
             B == GroupOf(k)'
             c == store[k].hit_count
  <2>1. A \subseteq B /\ A \subseteq rows /\ B \subseteq rows'
    BY <1>1, <1>2 DEF GroupOf, RuleOf
  <2>2. c \in Nat /\ c <= Cardinality(A)
    BY DEF RuleInv, RuleShapes, AlertShape, AlertsAreJustified, AlertsAreFounded
  <2> HIDE DEF A, B, c
  <2>3. IsFiniteSet(B) /\ IsFiniteSet(A)
    BY <1>4, <2>1, <1>3, FS_Subset DEF TableIsFine
  <2>4. Cardinality(A) <= Cardinality(B) /\ Cardinality(A) \in Nat /\ Cardinality(B) \in Nat
    BY <2>1, <2>3, FS_Subset, FS_CardinalityType
  <2>5. c <= Cardinality(B)
    BY <2>2, <2>4
  <2> QED
    BY <2>1, <2>5 DEF A, B, c
<1>7. AlertsAreFounded'
  BY <1>2, <1>6 DEF RuleInv, AlertsAreJustified, AlertsAreFounded
<1>8. RuleTypeOK'
  BY <1>2, <1>5 DEF RuleInv, AlertsAreJustified, RuleTypeOK
<1>9. RuleShapes' /\ AlertsHaveRules'
  BY <1>2, <1>4 DEF RuleInv, RuleShapes, AlertsHaveRules
<1>10. DetectionIsComplete'
  BY <1>2 DEF DetectionIsComplete
<1> QED
  BY <1>7, <1>8, <1>9, <1>10 DEF RuleInv, AlertsAreJustified

(* Switching a rule changes neither which rows it looks at nor its name. *)
LEMMA ToggleStep ==
  ASSUME RuleInv, Toggle
  PROVE  RuleInv'
<1>1. PICK s \in DOMAIN file : file' = [file EXCEPT ![s].enabled = ~ @]
  BY DEF Toggle
<1>2. rows' = rows /\ store' = store /\ current' = FALSE
  BY DEF Toggle
<1>3. \A i \in DOMAIN file : IsRule(file[i])
  BY DEF RuleInv, RuleShapes
<1> DEFINE on == ~ file[s].enabled
           old == file[s]
           new == [old EXCEPT !.enabled = on]
<1>4. file' = [file EXCEPT ![s] = new]
  BY <1>1
<1>5. IsRule(old) /\ on \in BOOLEAN
  BY <1>3
<1> HIDE DEF on, old
<1>6. /\ IsRule(new) /\ new.id = old.id /\ new.where = old.where /\ new.group_by = old.group_by
      /\ Valid(new) = Valid(old)
  <2>1. /\ new.id = old.id /\ new.where = old.where /\ new.group_by = old.group_by
        /\ new.type = old.type /\ new.distinct_field = old.distinct_field
        /\ new.numerator_where = old.numerator_where /\ new.window_minutes = old.window_minutes
        /\ new.threshold = old.threshold /\ new.severity = old.severity /\ new.mitre = old.mitre
    BY <1>5 DEF IsRule
  <2>2. IsRule(new)
    BY <1>5 DEF IsRule
  <2>3. Valid(new) = Valid(old)
    <3> HIDE DEF new
    <3> QED
      BY <2>1 DEF Valid
  <2> QED
    BY <2>1, <2>2, <2>3
<1> HIDE DEF new
<1>7. DOMAIN file' = DOMAIN file /\ \A i \in DOMAIN file : file'[i] = IF i = s THEN new ELSE file[i]
  BY <1>4
<1>8. \A i \in DOMAIN file :
        /\ IsRule(file'[i]) /\ file'[i].id = file[i].id /\ file'[i].where = file[i].where
        /\ file'[i].group_by = file[i].group_by /\ Valid(file'[i]) = Valid(file[i])
  BY <1>3, <1>6, <1>7 DEF old
<1>9. RuleShapes'
  BY <1>2, <1>7, <1>8 DEF RuleInv, RuleShapes
<1>10. Loads(file) => Loads(file')
  BY <1>7, <1>8 DEF Loads
<1>11. AlertsHaveRules'
  BY <1>2, <1>7, <1>8, <1>10 DEF RuleInv, AlertsHaveRules
<1>12. ASSUME NEW k \in DOMAIN store PROVE GroupOf(k)' = GroupOf(k)
  <2>1. PICK i \in DOMAIN file : file[i].id = k[1]
    BY DEF RuleInv, AlertsHaveRules
  <2>2. Loads(file)
    BY DEF RuleInv, AlertsHaveRules
  <2>3. \A j \in DOMAIN file : file[j].id = k[1] <=> j = i
    BY <2>1, <2>2 DEF Loads
  <2>4. \A j \in DOMAIN file' : file'[j].id = k[1] <=> j = i
    BY <1>7, <1>8, <2>3
  <2>5. RuleOf(k) = i /\ i \in DOMAIN file
    BY <2>1, <2>3 DEF RuleOf
  <2>6. RuleOf(k)' = i
    BY <1>7, <2>1, <2>4 DEF RuleOf
  <2> QED
    BY <1>2, <1>8, <2>5, <2>6 DEF GroupOf
<1>13. AlertsAreFounded'
  BY <1>2, <1>12 DEF RuleInv, AlertsAreJustified, AlertsAreFounded
<1>14. RuleTypeOK'
  BY <1>2 DEF RuleInv, AlertsAreJustified, RuleTypeOK
<1>15. DetectionIsComplete'
  BY <1>2 DEF DetectionIsComplete
<1> QED
  BY <1>9, <1>11, <1>13, <1>14, <1>15 DEF RuleInv, AlertsAreJustified

LEMMA RuleStutters ==
  ASSUME RuleInv, UNCHANGED rulevars
  PROVE  RuleInv'
<1>1. rows' = rows /\ file' = file /\ store' = store /\ current' = current
  BY DEF rulevars
<1>2. RuleShapes' /\ AlertsHaveRules' /\ RuleTypeOK'
  BY <1>1 DEF RuleInv, RuleShapes, AlertsHaveRules, AlertsAreJustified, RuleTypeOK
<1>3. AlertsAreFounded'
  <2>1. \A k : GroupOf(k)' = GroupOf(k)
    BY <1>1 DEF GroupOf, RuleOf
  <2> QED
    BY <1>1, <2>1 DEF RuleInv, AlertsAreJustified, AlertsAreFounded
<1>4. DetectionIsComplete'
  <2>1. \A i \in DOMAIN file : Healthy(i)' = Healthy(i)
    BY <1>1 DEF Healthy
  <2>2. \A i \in DOMAIN file : \A key : ShouldFire(i, key)' = ShouldFire(i, key)
    BY <1>1 DEF ShouldFire
  <2> QED
    BY <1>1, <2>1, <2>2 DEF RuleInv, AlertsAreJustified, DetectionIsComplete
<1> QED
  BY <1>2, <1>3, <1>4 DEF RuleInv, AlertsAreJustified

LEMMA RuleStarts ==
  ASSUME DetectionInit
  PROVE  RuleInv
<1>1. rows = {} /\ store = <<>> /\ current = FALSE
  BY DEF DetectionInit, RuleInit
<1>2. \A i \in DOMAIN file : IsRule(file[i])
  BY RuleAssumption DEF DetectionInit, RuleInit
<1>3. DOMAIN store = {} /\ IsFiniteSet(rows) /\ Cardinality(rows) = 0 /\ 0 <= MaxRows
  BY <1>1, FS_EmptySet, RuleAssumption
<1>4. RuleShapes /\ AlertsHaveRules /\ AlertsAreFounded
  BY <1>2, <1>3 DEF RuleShapes, AlertsHaveRules, AlertsAreFounded
<1>5. RuleTypeOK
  <2>1. current \in BOOLEAN /\ rows \subseteq EventKinds
    BY <1>1
  <2> QED
    BY <1>3, <2>1 DEF RuleTypeOK
<1>6. DetectionIsComplete
  BY <1>1 DEF DetectionIsComplete
<1> QED
  BY <1>4, <1>5, <1>6 DEF RuleInv, AlertsAreJustified

LEMMA RuleSteps ==
  ASSUME RuleInv, [DetectionNext]_detvars
  PROVE  RuleInv' /\ Unspoilt
<1>1. CASE Arrive
  BY <1>1, ArriveStep, KeptStep DEF Arrive
<1>2. CASE Toggle
  BY <1>2, ToggleStep, KeptStep DEF Toggle
<1>3. CASE Detect
  BY <1>3, DetectStep
<1>4. CASE UNCHANGED rulevars
  BY <1>4, RuleStutters, KeptStep DEF rulevars
<1>5. Arrive \/ Toggle \/ Detect \/ UNCHANGED rulevars
  BY DEF DetectionNext, Scans, Evaluates, Scores, Clusters, RuleNext, detvars
<1> QED
  BY <1>1, <1>2, <1>3, <1>4, <1>5

(* For any event kinds, rule files and number of rows, under every           *)
(* interleaving of late rows, switched rules and runs of run_detection:      *)
(* RuleInv holds.                                                            *)
THEOREM RulesInvariant == DetectionSpec => []RuleInv
<1>1. DetectionInit => RuleInv
  BY RuleStarts
<1>2. RuleInv /\ [DetectionNext]_detvars => RuleInv'
  BY RuleSteps
<1> QED
  BY <1>1, <1>2, PTL DEF DetectionSpec

(* After a run of run_detection every group that the data justifies has its  *)
(* alert, in whatever order rows of one timestamp are returned and whichever *)
(* other rule raises; and no alert of persist_alerts says more than the rows *)
(* of its group show.                                                        *)
THEOREM RulesAlertsAreJustified == DetectionSpec => []AlertsAreJustified
<1>1. RuleInv => AlertsAreJustified
  BY DEF RuleInv
<1> QED
  BY <1>1, RulesInvariant, PTL

(* The status of a technique tells whether it was ever hit. *)
LEMMA ObservedIsHit ==
  ASSUME NEW t
  PROVE  /\ Status(t) \in {"observed", "orphaned"} <=> t \in Hits
         /\ Status(t)' \in {"observed", "orphaned"} <=> t \in Hits'
BY DEF Status

LEMMA CoverageStep ==
  ASSUME Unspoilt, NEW t
  PROVE  /\ Status(t) \in {"observed", "orphaned"} => Status(t)' \in {"observed", "orphaned"}
         /\ (Status(t) = "rule-only" /\ Status(t)' = "observed")
              => \E k \in DOMAIN store' : k \notin DOMAIN store /\ t \in store'[k].mitre
<1>1. t \in Hits => t \in Hits'
  BY DEF Hits, Unspoilt, Extends
<1>2. t \in Hits' /\ t \notin Hits => \E k \in DOMAIN store' : k \notin DOMAIN store /\ t \in store'[k].mitre
  BY DEF Hits, Unspoilt, Extends
<1>3. Status(t) = "rule-only" => Status(t) \notin {"observed", "orphaned"}
  OBVIOUS
<1> QED
  BY <1>1, <1>2, <1>3, ObservedIsHit

(* Running the detection again takes nothing back: persist_alerts only       *)
(* raises counts and widens spans, and a technique that coverage_report has  *)
(* as observed never goes back to rule-only.                                 *)
THEOREM RulesOnlyAdd == DetectionSpec => DetectionOnlyAdds
<1>1. RuleInv /\ [DetectionNext]_detvars
      => [\A k \in DOMAIN store :
            /\ k \in DOMAIN store'
            /\ store'[k].hit_count >= store[k].hit_count
            /\ store'[k].first_seen <= store[k].first_seen
            /\ store'[k].last_seen >= store[k].last_seen]_rulevars
  BY RuleSteps DEF Unspoilt, Extends
<1>2. RuleInv /\ [DetectionNext]_detvars
      => [\A t \in Techniques :
            /\ Status(t) \in {"observed", "orphaned"} => Status(t)' \in {"observed", "orphaned"}
            /\ (Status(t) = "rule-only" /\ Status(t)' = "observed")
                 => \E k \in DOMAIN store' : k \notin DOMAIN store /\ t \in store'[k].mitre]_rulevars
  BY RuleSteps, CoverageStep
<1> QED
  BY <1>1, <1>2, RulesInvariant, PTL DEF DetectionSpec, DetectionOnlyAdds, AlertsOnlyGrow, CoverageIsEvidence

=============================================================================
