------------------------------ MODULE Scoring -------------------------------
(***************************************************************************)
(* pipeline/detection/scoring.py: the score and the class of one attacker, *)
(* recomputed from its events whenever rebuild_attackers runs.  Points are *)
(* in thousandths, time in units of 15 days; logarithms are tables.        *)
(***************************************************************************)
EXTENDS Integers, Sequences, FiniteSets, FiniteSetsExt

CONSTANTS
  SeenKinds,      \* events an attacker may cause, with a day each
  NoText,         \* None
  MaxSeen,        \* events
  MaxDay,         \* units of time that pass
  ManyCommands, ManyAttempts, ManyPasswords, ManyPaths, ManyServices, ManyEvents
                  \* the thresholds of classify

VARIABLES
  seen,       \* the events of the attacker
  today       \* utcnow()

scorevars == <<seen, today>>

(* 1000 * log10(n + 1), 1000 * ln(n + 1), and 1000 * ln(hours + 1).          *)
Log10 == <<301, 477, 602, 699, 778, 845>>
Log1p(n) == IF n = 0 THEN 0 ELSE <<693, 1099, 1386, 1609, 1792, 1946>>[n]
Log1pHours(days) == IF days = 0 THEN 0 ELSE <<5889, 6581, 6986, 7273>>[days]

Clamp(points, ceiling) == Max({0, Min({points, 1000 * ceiling})})

Of(field) == {seen[k][field] : k \in DOMAIN seen} \ {NoText}
Tags == UNION {seen[k].tags : k \in DOMAIN seen}
Count(type) == Cardinality({k \in DOMAIN seen : seen[k].type = type})

Days == {seen[k].day : k \in DOMAIN seen}
Ranks == {seen[k].rank : k \in DOMAIN seen}
HIGH == 3

(* score_breakdown *)
Volume == Clamp(5 * Log10[Len(seen)], 15)
Persistence ==
  Clamp(3 * Log1pHours(Max(Days) - Min(Days)) + 2 * Log1p(Cardinality(Of("session"))), 12)
CredentialBreadth ==
  Clamp(4 * Log1p(Cardinality(Of("username"))) + (5 * Log1p(Cardinality(Of("password")))) \div 2, 18)
ServiceBreadth == Clamp(3000 * (Cardinality(Of("service")) - 1), 8)
SeverityPoints ==
  Clamp(5000 * Max(Ranks) + 3 * Log1p(Cardinality({k \in DOMAIN seen : seen[k].rank >= HIGH})), 25)
Fetches == Cardinality({k \in DOMAIN seen : seen[k].tags \cap {"payload-fetch", "second-stage-url"} # {}})
PostExploitation ==
  Clamp(8000 * Count("auth_success") + 6 * Log1p(Count("command")) + 10000 * Fetches
          + 6000 * Count("file_upload"), 30)
ThreatIntel == Clamp(400 * Max({seen[k].threat : k \in DOMAIN seen}), 20)

Raw == Volume + Persistence + CredentialBreadth + ServiceBreadth + SeverityPoints
         + PostExploitation + ThreatIntel

LastSeen == Max(Days)

(* 100 * exp(-age / 30).  An event from the future gives more than 100.      *)
Exp(age) == IF age < 0 THEN 165 ELSE <<100, 61, 37, 22, 14>>[age + 1]

(* Mutant: no floor. *)
Decay_NoFloor == Exp(Max({0, today - LastSeen}))

(* score_attacker clamps the age at 0. *)
Decay == Max({40, Exp(Max({0, today - LastSeen}))})

(* explain does not. *)
ExplainedDecay == Max({40, Exp(today - LastSeen)})

Score == IF seen = <<>> THEN 0 ELSE (Clamp(Raw, 100) * Decay) \div 100

Exploits == {"log4shell", "sql-injection"}
BotnetTags == {"mirai-signature", "iot-default-credential"}

CLASSIFICATIONS ==
  <<"botnet-loader", "targeted-intrusion", "exploit-attempt", "credential-bruteforce",
    "web-scanner", "recon-scanner", "opportunistic-probe", "low-signal">>

(* The tests of classify, in its order. *)
Shows(class) ==
  CASE class = "botnet-loader" -> Tags \cap BotnetTags # {}
    [] class = "targeted-intrusion" -> Count("command") >= ManyCommands /\ Count("auth_success") > 0
    [] class = "exploit-attempt" -> Tags \cap Exploits # {}
    [] class = "credential-bruteforce" ->
         Count("auth_attempt") >= ManyAttempts \/ Cardinality(Of("password")) >= ManyPasswords
    [] class = "web-scanner" -> "http" \in Of("service") /\ Cardinality(Of("path")) >= ManyPaths
    [] class = "recon-scanner" -> Cardinality(Of("service")) >= ManyServices
    [] class = "opportunistic-probe" -> Len(seen) >= ManyEvents \/ Count("auth_attempt") >= 1
    [] class = "low-signal" -> TRUE

(* classify: the first that holds, as its place in CLASSIFICATIONS. *)
ClassRank == Min({r \in DOMAIN CLASSIFICATIONS : Shows(CLASSIFICATIONS[r])})

(* severity_for_score *)
SeverityForScore(score) ==
  CASE score >= 80000 -> 4 [] score \in 60000 .. 79999 -> 3 [] score \in 35000 .. 59999 -> 2
    [] score \in 15000 .. 34999 -> 1 [] OTHER -> 0

ScoreInit == seen = <<>> /\ today = 0

Observe ==
  /\ Len(seen) < MaxSeen
  /\ \E e \in SeenKinds : seen' = Append(seen, e)
  /\ UNCHANGED today

DayPasses == today < MaxDay /\ today' = today + 1 /\ UNCHANGED seen

ScoreNext == Observe \/ DayPasses

-----------------------------------------------------------------------------
(* The score stays in 0 .. 100, and its band fits the class of what was      *)
(* seen: an attacker that fetched a payload or logged in is never "info" on  *)
(* the day it did.                                                           *)
ScoreFits ==
  /\ Score \in 0 .. 100000
  /\ (seen # <<>> /\ LastSeen >= today /\ (Fetches > 0 \/ Count("auth_success") > 0))
       => SeverityForScore(Score) > 0

(* More evidence never helps an attacker: at one time, a further event never *)
(* lowers the score, whether it is the latest or one that came late, and     *)
(* never gives a milder class.                                               *)
EvidenceCountsAgainst ==
  Observe => Score' >= Score /\ (seen # <<>> => ClassRank' <= ClassRank)

(* Time alone never raises a score nor takes it below 40% of what was earned. *)
ScoresOnlyFade ==
  DayPasses /\ seen # <<>> => Score' <= Score /\ 100 * Score' >= 40 * Clamp(Raw, 100) - 100

(* The justification that explain gives adds up to the score, unless the     *)
(* last event is from the future.                                            *)
ExplanationAddsUp ==
  seen # <<>> /\ LastSeen <= today => Score = (Clamp(Raw, 100) * ExplainedDecay) \div 100

(* After every event and every day: the score is in range, fits what was     *)
(* seen and adds up as explained, has risen with evidence or faded with time. *)
ScoresMoveOneWay ==
  [][ScoreFits' /\ ExplanationAddsUp' /\ EvidenceCountsAgainst /\ ScoresOnlyFade]_scorevars

=============================================================================
