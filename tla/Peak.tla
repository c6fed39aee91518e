-------------------------------- MODULE Peak --------------------------------
(***************************************************************************)
(* What _sliding_peak of pipeline/detection/rules.py promises: the largest *)
(* number of events, or of distinct values, in any span of the window.     *)
(***************************************************************************)
EXTENDS Integers, Sequences, FiniteSets

CONSTANTS
  Window,    \* window_minutes
  NoValue,   \* None
  NoAnswer

VARIABLES
  ts,        \* timestamps of the events, in their order
  val,       \* their values of distinct_field
  distinct,  \* whether distinct_field is given
  answer     \* the peak, once it is known

(* The distinct values of the events i to j. *)
ValuesIn(i, j) == {val[k] : k \in i .. j} \ {NoValue}

Measure(i, j) == IF distinct THEN Cardinality(ValuesIn(i, j)) ELSE j - i + 1

Spans == {s \in (DOMAIN ts) \X (DOMAIN ts) : s[1] <= s[2] /\ ts[s[2]] - ts[s[1]] <= Window}

(* n is reached by a span and exceeded by none; 0 if there is none at all.   *)
IsPeak(n) ==
  /\ \A s \in Spans : Measure(s[1], s[2]) <= n
  /\ n = 0 \/ \E s \in Spans : Measure(s[1], s[2]) = n

peakvars == <<ts, val, distinct, answer>>

PeakInit == answer = NoAnswer

Answer ==
  /\ answer = NoAnswer
  /\ answer' \in 0 .. Len(ts) /\ IsPeak(answer')
  /\ UNCHANGED <<ts, val, distinct>>

PeakSpec == PeakInit /\ [][Answer]_peakvars

=============================================================================
