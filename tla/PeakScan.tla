------------------------------ MODULE PeakScan ------------------------------
(***************************************************************************)
(* _sliding_peak of pipeline/detection/rules.py: the two-pointer scan over *)
(* the events of one group.  One action per pass of its loops.             *)
(***************************************************************************)
EXTENDS Integers, Sequences, FiniteSets

CONSTANTS
  Times,     \* timestamps an event may have, in minutes
  Values,    \* values of distinct_field
  NoValue,   \* None
  NoAnswer,
  Window,    \* window_minutes
  MaxEvents  \* events of a group

ASSUME ScanAssumption ==
  /\ Times \subseteq Int /\ Window \in Nat /\ MaxEvents \in Nat
  /\ NoValue \notin Values /\ NoAnswer \notin Int
  /\ IsFiniteSet(Values)

VARIABLES
  ts, val, distinct,   \* the input, ordered by sorted()
  left, right,         \* the span is left .. right
  counter,             \* a key is in the Counter when its count is positive
  best, best_span,
  pc

inputs == <<ts, val, distinct>>
scanvars == <<ts, val, distinct, left, right, counter, best, best_span, pc>>

Ordered(s) == \A i, j \in DOMAIN s : i <= j => s[i] <= s[j]

ScanStart ==
  /\ left = 1 /\ right = 0
  /\ counter = [v \in Values |-> 0]
  /\ best = 0 /\ best_span = <<1, 0>>
  /\ pc = "next"

ScanInit ==
  /\ \E n \in 0 .. MaxEvents : ts \in [1 .. n -> Times] /\ val \in [1 .. n -> Values \cup {NoValue}]
  /\ Ordered(ts)
  /\ distinct \in BOOLEAN
  /\ ScanStart

Keys == {v \in Values : counter[v] > 0}

(* The event enters on the right. *)
Take ==
  /\ pc = "next" /\ right < Len(ts)
  /\ right' = right + 1
  /\ counter' = IF distinct /\ val[right + 1] # NoValue
                THEN [counter EXCEPT ![val[right + 1]] = @ + 1] ELSE counter
  /\ pc' = "shrink"
  /\ UNCHANGED <<ts, val, distinct, left, best, best_span>>

(* Mutant: values that leave on the left are not forgotten. *)
Forgotten_Not(c, v) == c

Forgotten(c, v) == IF distinct /\ v # NoValue THEN [c EXCEPT ![v] = @ - 1] ELSE c

(* Mutant: an event exactly one window old leaves too. *)
TooWide_Closed(i, j) == ts[j] - ts[i] >= Window /\ i < j

TooWide(i, j) == ts[j] - ts[i] > Window

(* Events leave on the left until the span fits the window. *)
Shrink ==
  /\ pc = "shrink" /\ TooWide(left, right)
  /\ counter' = Forgotten(counter, val[left])
  /\ left' = left + 1
  /\ UNCHANGED <<ts, val, distinct, right, best, best_span, pc>>

Current == IF distinct THEN Cardinality(Keys) ELSE right - left + 1

Compare ==
  /\ pc = "shrink" /\ ~ TooWide(left, right)
  /\ best' = IF Current > best THEN Current ELSE best
  /\ best_span' = IF Current > best THEN <<left, right>> ELSE best_span
  /\ pc' = "next"
  /\ UNCHANGED <<ts, val, distinct, left, right, counter>>

Return ==
  /\ pc = "next" /\ right = Len(ts)
  /\ pc' = "done"
  /\ UNCHANGED <<ts, val, distinct, left, right, counter, best, best_span>>

ScanNext == Take \/ Shrink \/ Compare \/ Return

ScanSpec == ScanInit /\ [][ScanNext]_scanvars

-----------------------------------------------------------------------------
ScanTypeOK ==
  /\ ts \in Seq(Int) /\ val \in Seq(Values \cup {NoValue}) /\ Len(val) = Len(ts)
  /\ Ordered(ts) /\ distinct \in BOOLEAN
  /\ right \in 0 .. Len(ts) /\ left \in 1 .. Len(ts) + 1
  /\ counter \in [Values -> Nat]
  /\ best \in 0 .. Len(ts) /\ best_span \in Nat \X Nat
  /\ pc \in {"next", "shrink", "done"}

Oracle == INSTANCE Peak WITH answer <- IF pc = "done" THEN best ELSE NoAnswer

(* The scan implements Peak: whatever it returns is the largest count of any *)
(* span that fits the window, a span of exactly window_minutes included.     *)
ScanFindsPeak == Oracle!PeakSpec

(* Between two events the span is the widest that ends at the last one and   *)
(* fits the window, and the Counter has a key for each value in it.          *)
SpanIsTight ==
  pc = "next" =>
    /\ \A i \in 1 .. right : i >= left <=> ~ TooWide(i, right)
    /\ distinct => Keys = Oracle!ValuesIn(left, right)

(* The events shown as evidence are a span of the window that has the count  *)
(* the alert reports.                                                        *)
EvidenceIsPeak ==
  pc = "done" /\ best > 0 =>
    /\ best_span \in Oracle!Spans
    /\ Oracle!Measure(best_span[1], best_span[2]) = best

=============================================================================
