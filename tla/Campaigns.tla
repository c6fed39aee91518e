----------------------------- MODULE Campaigns ------------------------------
(***************************************************************************)
(* pipeline/analysis/campaigns.py: attackers that behave alike are one     *)
(* campaign.  cluster() compares every pair of fingerprints and joins the  *)
(* similar ones in a union-find; one action per pair.                      *)
(***************************************************************************)
EXTENDS Integers, Sequences, FiniteSets, FiniteSetsExt, Relation

CONSTANTS
  Fingerprints,  \* records of facet sets that an attacker may have
  MaxSources     \* attackers

ASSUME SourcesAssumption == MaxSources \in Nat \ {0}

VARIABLES
  usable,   \* fingerprints, in the order of event_count
  parent,   \* _UnionFind
  at,       \* the pair that is compared next
  edges,    \* edge_scores
  found     \* the campaigns, as sets of indices, with their cohesion

campvars == <<usable, parent, at, edges, found>>

(* FACET_WEIGHTS, in quarters. *)
FACET_WEIGHTS ==
  [payloads |-> 12, credentials |-> 10, paths |-> 6, usernames |-> 4, tags |-> 4, services |-> 1]

is_empty(f) == f.credentials = {} /\ f.paths = {} /\ f.payloads = {} /\ f.usernames = {}

(* jaccard, in sixtieths; two empty sets share nothing.                      *)
Jaccard(a, b) ==
  IF a = {} \/ b = {} THEN 0
  ELSE (60 * Cardinality(a \cap b)) \div Cardinality(a \cup b)

Facets(l, r) == {f \in DOMAIN FACET_WEIGHTS : l[f] # {} \/ r[f] # {}}

(* similarity, in per cent: the weighted mean over the facets either has.    *)
Similarity(l, r) ==
  LET weights == MapThenSumSet(LAMBDA f : FACET_WEIGHTS[f], Facets(l, r))
      total == MapThenSumSet(LAMBDA f : FACET_WEIGHTS[f] * Jaccard(l[f], r[f]), Facets(l, r))
  IN  IF weights = 0 THEN 0 ELSE (100 * total) \div (60 * weights)

DEFAULT_THRESHOLD == 35
MIN_CAMPAIGN_SIZE == 2

Sources == 1 .. Len(usable)

(* find: the root, every second node on the way now pointing two further up. *)
Root(p, i) ==
  LET up[k \in DOMAIN p] == IF p[k] = k THEN k ELSE up[p[p[k]]] IN up[i]

Way(p, i) ==
  LET on[k \in DOMAIN p] == IF p[k] = k THEN {} ELSE {k} \cup on[p[p[k]]] IN on[i]

Halved(p, i) == [k \in DOMAIN p |-> IF k \in Way(p, i) THEN p[p[k]] ELSE p[k]]

(* Mutant: the node is hung up, not its root. *)
Union_Node(p, i, j) ==
  LET q == Halved(Halved(p, i), j) IN [q EXCEPT ![j] = Root(p, i)]

(* union: the smaller root becomes the parent of the other. *)
Union(p, i, j) ==
  LET q == Halved(Halved(p, i), j)
      ri == Root(p, i)
      rj == Root(p, j)
  IN  IF ri = rj THEN q ELSE [q EXCEPT ![Max({ri, rj})] = Min({ri, rj})]

-----------------------------------------------------------------------------
NoPair == <<0, 0>>

(* build_fingerprints, without those that show nothing. *)
CampInit ==
  /\ \E n \in 0 .. MaxSources : usable \in [1 .. n -> {f \in Fingerprints : ~ is_empty(f)}]
  /\ parent = [i \in Sources |-> i]
  /\ at = IF Len(usable) < 2 THEN NoPair ELSE <<1, 2>>
  /\ edges = <<>> /\ found = {}

After(pair) ==
  IF pair[2] < Len(usable) THEN <<pair[1], pair[2] + 1>>
  ELSE IF pair[1] + 1 < Len(usable) THEN <<pair[1] + 1, pair[1] + 2>>
  ELSE NoPair

ComparePair ==
  /\ at # NoPair /\ at[1] < at[2]
  /\ LET score == Similarity(usable[at[1]], usable[at[2]]) IN
     IF score >= DEFAULT_THRESHOLD
     THEN /\ parent' = Union(parent, at[1], at[2])
          /\ edges' = [e \in DOMAIN edges \cup {at} |-> IF e = at THEN score ELSE edges[e]]
     ELSE UNCHANGED <<parent, edges>>
  /\ at' = After(at)
  /\ UNCHANGED <<usable, found>>

Members(i) == {k \in Sources : Root(parent, k) = Root(parent, i)}

EdgesIn(m) == {e \in DOMAIN edges : e[1] \in m /\ e[2] \in m}

(* _summarise *)
Campaign(m) ==
  [members |-> m,
   shared |-> {c \in UNION {usable[i].credentials : i \in m} : \A i \in m : c \in usable[i].credentials},
   cohesion |-> MapThenSumSet(LAMBDA e : edges[e], EdgesIn(m)) \div Cardinality(EdgesIn(m))]

Summarise ==
  /\ at = NoPair /\ Len(usable) >= 2
  /\ found' = {Campaign(m) : m \in {s \in {Members(i) : i \in Sources} : Cardinality(s) >= MIN_CAMPAIGN_SIZE}}
  /\ at' = <<1, 1>>
  /\ UNCHANGED <<usable, parent, edges>>

CampNext == ComparePair \/ Summarise

-----------------------------------------------------------------------------
CampTypeOK ==
  /\ parent \in [Sources -> Sources]
  /\ DOMAIN edges \subseteq Sources \X Sources
  /\ found # {} => at = <<1, 1>>

(* Following parents always goes down, so that find ends. *)
ParentsDescend == \A i \in Sources : parent[i] <= i

(* After any number of pairs, two sources have one root if and only if they  *)
(* are connected by pairs that were similar, however often paths have been   *)
(* halved.                                                                   *)
RootsAreComponents ==
  LET linked(i, j) == i = j \/ <<i, j>> \in DOMAIN edges \/ <<j, i>> \in DOMAIN edges
      closure == TransitiveClosure([i, j \in Sources |-> linked(i, j)], Sources)
  IN  \A i, j \in Sources : Root(parent, i) = Root(parent, j) <=> closure[i, j]

(* A campaign has a reason: each of its sources is similar to another one in *)
(* it, no source of a campaign is similar to one outside, and the cohesion   *)
(* that is reported reaches the threshold.                                   *)
CampaignsAreClosed ==
  \A c \in found :
    /\ c.cohesion >= DEFAULT_THRESHOLD
    /\ \A i \in c.members, j \in Sources :
         i # j /\ Similarity(usable[i], usable[j]) >= DEFAULT_THRESHOLD => j \in c.members
    /\ \A i \in c.members : \E j \in c.members \ {i} :
         Similarity(usable[i], usable[j]) >= DEFAULT_THRESHOLD

(* Union-find with path halving computes the connected components of the     *)
(* similar pairs at every point, and the campaigns are those of two or more. *)
CampaignsAreComponents == CampTypeOK /\ ParentsDescend /\ RootsAreComponents /\ CampaignsAreClosed

=============================================================================
