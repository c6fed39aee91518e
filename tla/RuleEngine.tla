----------------------------- MODULE RuleEngine -----------------------------
(***************************************************************************)
(* pipeline/detection/rules.py and coverage.py: a rule file, the events    *)
(* table, runs of the detection over it, and the report on what the rules  *)
(* cover.  AlertStore models how runs overlap; here one run is one step,   *)
(* and what a span of the window holds is what PeakScan computes.          *)
(***************************************************************************)
EXTENDS Integers, Sequences, FiniteSets, FiniteSetsExt

CONSTANTS
  EventKinds,  \* rows that may be written: records of the columns rules look at
  RuleFiles,   \* rule files: sequences of rules
  Null,        \* NULL
  MaxRows      \* rows of the table

IsRule(r) ==
  r \in [id : {r.id}, type : {r.type}, enabled : BOOLEAN, window_minutes : Int, group_by : {r.group_by},
         threshold : Int, distinct_field : {r.distinct_field}, where : {r.where},
         numerator_where : {r.numerator_where}, severity : {r.severity}, mitre : {r.mitre}]

ASSUME RuleAssumption ==
  /\ MaxRows \in Nat
  /\ \A e \in EventKinds : e.ts \in Int
  /\ \A f \in RuleFiles : \A i \in DOMAIN f : IsRule(f[i])

VARIABLES
  rows,        \* the events table, a set: rows with equal ts come in any order
  file,        \* rules.yaml
  store,       \* the alerts table: dedupe_key -> row
  current      \* no row was written and no rule switched since the last run

rulevars == <<rows, file, store, current>>

(* validate() and the checks of load_rules; the conditions are not looked at.*)
VALID_TYPES == {"threshold", "distinct", "match", "ratio"}

Valid(rule) ==
  /\ rule.type \in VALID_TYPES
  /\ rule.type = "distinct" => rule.distinct_field # Null
  /\ rule.type = "ratio" => rule.numerator_where # <<>>
  /\ rule.window_minutes > 0

(* The first bad rule fails the whole file: no rules, and an exception. *)
Loads(rules) ==
  /\ \A i \in DOMAIN rules : Valid(rules[i])
  /\ \A i, j \in DOMAIN rules : rules[i].id = rules[j].id => i = j

(* One condition <<field, operator, expected>> of a where block; text is the *)
(* set of the words in it.                                                   *)
Holds(event, c) ==
  LET actual == event[c[1]] IN
  CASE c[2] = "eq"       -> actual = c[3]
    [] c[2] = "one of"   -> actual \in c[3]
    [] c[2] = "contains" -> actual # Null /\ c[3] \in actual
    [] c[2] = "in_tags"  -> c[3] \in actual
    [] c[2] = "gte"      -> actual # Null /\ actual >= c[3]
    [] c[2] = "lte"      -> actual # Null /\ actual <= c[3]
    [] c[2] = "isnull"   -> (actual = Null) = c[3]

Operators == {"eq", "one of", "contains", "in_tags", "gte", "lte", "isnull"}

(* matches(): the conditions are tried in order, up to the first that fails  *)
(* or has an operator nobody knows.                                          *)
Stops(event, conditions) ==
  {i \in DOMAIN conditions : conditions[i][2] \notin Operators \/ ~ Holds(event, conditions[i])}

Raises(event, conditions) ==
  LET s == Stops(event, conditions) IN s # {} /\ conditions[Min(s)][2] \notin Operators

Matches(event, conditions) == Stops(event, conditions) = {}

-----------------------------------------------------------------------------
(* Evaluation.  events is the result of the query; a group, and a span of    *)
(* one, is a set of places in it.                                            *)

Distinct(events, span, field) == {events[k][field] : k \in span} \ {Null}

MeasureOf(rule, events, span) ==
  IF rule.type = "distinct" THEN Cardinality(Distinct(events, span, rule.distinct_field))
  ELSE Cardinality(span)

(* The widest span of the group that ends at j. *)
Widest(rule, events, group, j) ==
  {i \in group : i <= j /\ events[j].ts - events[i].ts <= rule.window_minutes}

(* _sliding_peak: the first of the best spans. *)
PeakSpan(rule, events, group) ==
  LET measure(j) == MeasureOf(rule, events, Widest(rule, events, group, j))
      most == Max({measure(j) : j \in group})
  IN  Widest(rule, events, group, Min({j \in group : measure(j) = most}))

Percent(rule, events, group) ==
  (100 * Cardinality({k \in group : Matches(events[k], rule.numerator_where)})) \div Cardinality(group)

(* _test_group: <<observed, triggered, evidence>>.  match and ratio take the *)
(* whole group, whatever the window.                                         *)
TestGroup(rule, events, group) ==
  CASE rule.type = "match" -> <<Cardinality(group), TRUE, group>>
    [] rule.type \in {"threshold", "distinct"} ->
         LET span == PeakSpan(rule, events, group)
             peak == MeasureOf(rule, events, span)
         IN  <<peak, peak >= rule.threshold, IF peak = 0 THEN group ELSE span>>
    [] rule.type = "ratio" ->
         <<Percent(rule, events, group), Percent(rule, events, group) >= rule.threshold, group>>

(* _build_alert: the columns that detection goes back to. *)
BuildAlert(rule, events, key, evidence, observed) ==
  [key |-> <<rule.id, key>>,
   hit_count |-> Cardinality(evidence), observed |-> observed,
   src_ip |-> IF rule.group_by = "src_ip" THEN key ELSE events[Min(evidence)].src_ip,
   first_seen |-> Min({events[k].ts : k \in evidence}),
   last_seen |-> Max({events[k].ts : k \in evidence}),
   severity |-> rule.severity, mitre |-> rule.mitre]

Candidates(rule, events) == {k \in DOMAIN events : Matches(events[k], rule.where)}

(* Rows without a value of group_by are left out. *)
GroupKeys(rule, events) == {events[k][rule.group_by] : k \in Candidates(rule, events)} \ {Null}

Group(rule, events, key) == {k \in Candidates(rule, events) : events[k][rule.group_by] = key}

(* evaluate_rule, as a set of alerts. *)
EvaluateRule(rule, events) ==
  LET tested(key) == TestGroup(rule, events, Group(rule, events, key))
  IN  {BuildAlert(rule, events, key, tested(key)[3], tested(key)[1]) :
         key \in {k \in GroupKeys(rule, events) : tested(k)[2]}}

(* A rule that raises for any event has no alerts at all. *)
Fails(rule, events) ==
  \/ \E k \in DOMAIN events : Raises(events[k], rule.where)
  \/ rule.type = "ratio" /\ \E k \in Candidates(rule, events) : Raises(events[k], rule.numerator_where)

(* Mutant: the first rule that raises ends the loop. *)
EvaluateRules_Stops(rules, events) ==
  LET runs == {i \in DOMAIN rules : rules[i].enabled}
      bad == {i \in runs : Fails(rules[i], events)}
  IN  UNION {EvaluateRule(rules[i], events) : i \in {k \in runs : \A b \in bad : k < b}}

(* evaluate_rules: enabled rules, one by one, the broken ones skipped. *)
EvaluateRules(rules, events) ==
  UNION {EvaluateRule(rules[i], events) :
           i \in {k \in DOMAIN rules : rules[k].enabled /\ ~ Fails(rules[k], events)}}

(* SELECT ... ORDER BY ts: the order of equal timestamps is not given.       *)
Orders(table) ==
  {s \in [1 .. Cardinality(table) -> table] :
     /\ \A i, j \in DOMAIN s : i < j => s[i] # s[j] /\ s[i].ts <= s[j].ts}

(* Mutant: an alert is overwritten. *)
Merged_Replaced(old, new) == new

(* persist_alerts on a row that exists: extremes are kept, evidence is new.  *)
Merged(old, new) ==
  [new EXCEPT !.hit_count = Max({@, old.hit_count}),
              !.first_seen = Min({@, old.first_seen}), !.last_seen = Max({@, old.last_seen}),
              !.src_ip = old.src_ip, !.mitre = old.mitre]

(* persist_alerts *)
Persisted(table, alerts) ==
  [k \in DOMAIN table \cup {a.key : a \in alerts} |->
     IF \E a \in alerts : a.key = k
     THEN LET new == CHOOSE a \in alerts : a.key = k
          IN  IF k \in DOMAIN table THEN Merged(table[k], new) ELSE new
     ELSE table[k]]

-----------------------------------------------------------------------------
RuleInit == rows = {} /\ file \in RuleFiles /\ store = <<>> /\ current = FALSE

(* The logger writes a row; late rows may be older than those before.        *)
Arrive ==
  /\ Cardinality(rows) < MaxRows
  /\ \E e \in EventKinds \ rows : rows' = rows \cup {e}
  /\ current' = FALSE
  /\ UNCHANGED <<file, store>>

(* An operator switches a rule on or off. *)
Toggle ==
  /\ \E i \in DOMAIN file : file' = [file EXCEPT ![i].enabled = ~ @]
  /\ current' = FALSE
  /\ UNCHANGED <<rows, store>>

(* run_detection over all of the table. *)
Detect ==
  /\ Loads(file)
  /\ \E order \in Orders(rows) : store' = Persisted(store, EvaluateRules(file, order))
  /\ current' = TRUE
  /\ UNCHANGED <<rows, file>>

RuleNext == Arrive \/ Toggle \/ Detect

-----------------------------------------------------------------------------
(* coverage.py *)

Claims == UNION {file[i].mitre : i \in {k \in DOMAIN file : file[k].enabled}}

(* _alert_hits over all of history. *)
Hits == UNION {store[k].mitre : k \in DOMAIN store}

(* coverage_report *)
Status(t) ==
  IF t \in Claims THEN IF t \in Hits THEN "observed" ELSE "rule-only"
  ELSE IF t \in Hits THEN "orphaned" ELSE "none"

Techniques == UNION {file[i].mitre : i \in DOMAIN file} \cup Hits

-----------------------------------------------------------------------------
RuleTypeOK ==
  /\ current \in BOOLEAN
  /\ rows \subseteq EventKinds /\ Cardinality(rows) <= MaxRows
  /\ \A k \in DOMAIN store :
       /\ store[k].key = k /\ store[k].hit_count \in 1 .. MaxRows
       /\ store[k].first_seen <= store[k].last_seen

(* The rule of an alert, and the rows that it is about. *)
RuleOf(k) == CHOOSE i \in DOMAIN file : file[i].id = k[1]
GroupOf(k) == {e \in rows : Matches(e, file[RuleOf(k)].where) /\ e[file[RuleOf(k)].group_by] = k[2]}

(* "The rule fires if any N-minute span in the data satisfies it", said over *)
(* sets of rows: for which windows and groups, ties in ts notwithstanding.   *)
ShouldFire(i, key) ==
  LET rule == file[i]
      group == {e \in rows : Matches(e, rule.where) /\ e[rule.group_by] = key}
      inWindow(a) == {e \in group : e.ts >= a.ts /\ e.ts - a.ts <= rule.window_minutes}
      measure(s) == IF rule.type = "distinct" THEN Cardinality({e[rule.distinct_field] : e \in s} \ {Null})
                    ELSE Cardinality(s)
  IN  /\ group # {}
      /\ CASE rule.type = "match" -> TRUE
           [] rule.type \in {"threshold", "distinct"} -> \E a \in group : measure(inWindow(a)) >= rule.threshold
           [] rule.type = "ratio" ->
                100 * Cardinality({e \in group : Matches(e, rule.numerator_where)})
                  >= rule.threshold * Cardinality(group)

(* The rule is on, and no row makes it raise. *)
Healthy(i) ==
  /\ file[i].enabled
  /\ \A e \in rows :
       /\ ~ Raises(e, file[i].where)
       /\ file[i].type = "ratio" /\ Matches(e, file[i].where) => ~ Raises(e, file[i].numerator_where)

(* After a run there is an alert for every group the data justifies, however *)
(* late its rows came, in whatever order rows of one timestamp are returned, *)
(* and whatever another rule of the file raised.                             *)
DetectionIsComplete ==
  current =>
    \A i \in DOMAIN file : Healthy(i) =>
      \A key \in {e[file[i].group_by] : e \in rows} \ {Null} :
        ShouldFire(i, key) => <<file[i].id, key>> \in DOMAIN store

(* There is no alert without its evidence: a group of rows that have the     *)
(* value of group_by, and rows at the times the alert says it was first and  *)
(* last seen.  hit_count is never less than what the evidence shows.         *)
AlertsAreFounded ==
  \A k \in DOMAIN store :
    /\ k[2] # Null
    /\ \E e \in GroupOf(k) : e.ts = store[k].first_seen
    /\ \E e \in GroupOf(k) : e.ts = store[k].last_seen
    /\ store[k].hit_count <= Cardinality(GroupOf(k))

(* Detection can be run again at any time: counts only ratchet up, and the   *)
(* span an alert covers only grows.                                          *)
AlertsOnlyGrow ==
  [][\A k \in DOMAIN store :
       /\ k \in DOMAIN store'
       /\ store'[k].hit_count >= store[k].hit_count
       /\ store'[k].first_seen <= store[k].first_seen
       /\ store'[k].last_seen >= store[k].last_seen]_rulevars

(* "A rule that exists but has never fired is not coverage": a technique is  *)
(* observed only with an alert behind it, and once it was it never goes back *)
(* to rule-only, whichever rules are switched.                               *)
CoverageIsEvidence ==
  [][\A t \in Techniques :
       /\ Status(t) \in {"observed", "orphaned"} => Status(t)' \in {"observed", "orphaned"}
       /\ (Status(t) = "rule-only" /\ Status(t)' = "observed")
            => \E k \in DOMAIN store' : k \notin DOMAIN store /\ t \in store'[k].mitre]_rulevars

(* After a run, whatever the order of rows, of runs and of broken rules:     *)
(* every alert the data justifies is there, and none that it does not.       *)
AlertsAreJustified == RuleTypeOK /\ DetectionIsComplete /\ AlertsAreFounded

(* Running again over more data, or with other rules switched on, takes      *)
(* nothing back: neither from an alert nor from the coverage.                *)
DetectionOnlyAdds == AlertsOnlyGrow /\ CoverageIsEvidence

-----------------------------------------------------------------------------
(* The inductive invariant behind them: what alerts and rules look like, and *)
(* that an alert has a rule of a file that loads, whatever was switched.     *)
AlertShape(a) ==
  a \in [key : {a.key}, hit_count : Nat, observed : {a.observed}, src_ip : {a.src_ip},
         first_seen : Int, last_seen : Int, severity : {a.severity}, mitre : {a.mitre}]

RuleShapes ==
  /\ IsFiniteSet(rows)
  /\ \A i \in DOMAIN file : IsRule(file[i])
  /\ \A k \in DOMAIN store : AlertShape(store[k])

AlertsHaveRules == \A k \in DOMAIN store : Loads(file) /\ \E i \in DOMAIN file : file[i].id = k[1]

RuleInv == RuleShapes /\ AlertsHaveRules /\ AlertsAreJustified

=============================================================================
