----------------------------- MODULE Detection ------------------------------
(***************************************************************************)
(* The detection pipeline's four computations side by side: the scan of a  *)
(* window, the rules over a growing table, the score of an attacker, and   *)
(* the clustering of attackers.  Each works on rows that it only reads.    *)
(***************************************************************************)
EXTENDS PeakScan, RuleEngine, Scoring, Campaigns

VARIABLE topic   \* the computation this behaviour is about

detvars == <<topic, scanvars, rulevars, scorevars, campvars>>

DetectionInit ==
  /\ topic \in {"scan", "rules", "score", "campaigns"}
  /\ IF topic = "scan" THEN ScanInit ELSE ts = <<>> /\ val = <<>> /\ distinct = FALSE /\ ScanStart
  /\ IF topic = "rules" THEN RuleInit ELSE rows = {} /\ file = <<>> /\ store = <<>> /\ current = FALSE
  /\ ScoreInit
  /\ IF topic = "campaigns" THEN CampInit
     ELSE usable = <<>> /\ parent = <<>> /\ at = NoPair /\ edges = <<>> /\ found = {}

Scans == topic = "scan" /\ ScanNext /\ UNCHANGED <<topic, rulevars, scorevars, campvars>>
Evaluates == topic = "rules" /\ RuleNext /\ UNCHANGED <<topic, scanvars, scorevars, campvars>>
Scores == topic = "score" /\ ScoreNext /\ UNCHANGED <<topic, scanvars, rulevars, campvars>>
Clusters == topic = "campaigns" /\ CampNext /\ UNCHANGED <<topic, scanvars, rulevars, scorevars>>

DetectionNext == Scans \/ Evaluates \/ Scores \/ Clusters

DetectionSpec == DetectionInit /\ [][DetectionNext]_detvars

=============================================================================
