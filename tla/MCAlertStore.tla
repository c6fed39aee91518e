---------------------------- MODULE MCAlertStore ----------------------------
(* Two overlapping runs over two rules of different severity.  The threshold *)
(* is at the lower or at the higher one, the cap at one message.             *)
EXTENDS AlertStore
CONSTANTS k1, k2, r1, r2
MCKeys == {k1, k2}
MCRank == [k \in Keys |-> IF k = k1 THEN 3 ELSE 2]
MCRuns == {r1, r2}
MCDeployments ==
  {[engine |-> "sqlite", webhook |-> TRUE, min_rank |-> 2, max_per_run |-> 1],
   [engine |-> "postgres", webhook |-> TRUE, min_rank |-> 3, max_per_run |-> 1]}
=============================================================================
