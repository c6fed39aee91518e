------------------------------ MODULE Backend -------------------------------
(***************************************************************************)
(* What lies behind the sensor: the tables and who writes them, the        *)
(* queries and the live feed that read them while they change, the         *)
(* dashboard's fetching hook, and the enrichment of an event.  A behaviour *)
(* is about one topic; the tables are shared by five of them.              *)
(***************************************************************************)
EXTENDS LiveFeed, UseApi, Enrichment

VARIABLE topic

backvars == <<topic, queryvars, feedvars, hookvars, enrichvars>>

NoDbs == [geo |-> <<>>, asn |-> <<>>]

BackendInit ==
  /\ topic \in {"aggregate", "import", "payloads", "pages", "feed", "hook", "enrichment"}
  /\ StoreInit /\ reader = NoReader /\ FeedInit /\ HookInit
  /\ EnrichInit /\ (topic # "enrichment" => dbs = NoDbs /\ feed_file = CHOOSE f \in Feeds : TRUE)

Others == <<topic, hookvars, enrichvars>>

(* The aggregate: connections that stay open and leave no bodies. *)
Aggregates ==
  /\ topic = "aggregate"
  /\ Tick \/ Rebuilds \/ Purges \/ \E c \in Conns : ConnOpens(c) \/ ConnRecords(c, NoSha)
  /\ UNCHANGED <<reader, feedvars, Others>>

(* An import, and its rebuild against the API's. *)
ImportsLogs ==
  /\ topic = "import" /\ (Tick \/ Imports \/ Rebuilds \/ \E c \in Conns : ConnOpens(c))
  /\ UNCHANGED <<reader, feedvars, Others>>

Stores ==
  /\ topic = "payloads" /\ (Tick \/ Writes \/ Imports \/ Analyses \/ PurgeDelete \/ DropEverything)
  /\ UNCHANGED <<reader, feedvars, Others>>

(* One connection is enough to fill a page or a feed. *)
SomeoneWrites == LET c == CHOOSE d \in Conns : TRUE IN ConnOpens(c) \/ ConnRecords(c, NoSha)

Pages ==
  /\ topic = "pages"
  /\ \/ (Tick \/ SomeoneWrites \/ Imports \/ PurgeDelete) /\ ReaderSees
     \/ ReadPage
  /\ UNCHANGED <<feedvars, Others>>

Watches ==
  /\ topic = "feed"
  /\ \/ (SomeoneWrites \/ Imports \/ DropEverything) /\ FeedSees /\ UNCHANGED reader
     \/ FeedNext
  /\ UNCHANGED Others

Fetches == topic = "hook" /\ HookNext /\ UNCHANGED <<topic, queryvars, feedvars, enrichvars>>

Enriches == topic = "enrichment" /\ EnrichNext /\ UNCHANGED <<topic, queryvars, feedvars, hookvars>>

BackendNext == Aggregates \/ ImportsLogs \/ Stores \/ Pages \/ Watches \/ Fetches \/ Enriches

(* Every thread that enriches is scheduled. *)
BackendSpec ==
  /\ BackendInit /\ [][BackendNext]_backvars
  /\ \A t \in Threads : WF_backvars(Enriches /\ ThreadStep(t))
  /\ WF_backvars(Enriches /\ ReloadCidr)

=============================================================================
