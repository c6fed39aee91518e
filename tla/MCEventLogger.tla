--------------------------- MODULE MCEventLogger ---------------------------
(* One session, a queue of two, batches of two: the queue overflows, both   *)
(* the size and the timeout flush occur, and stop() can find the queue full. *)
(* Every combination of sinks but none at all.                              *)
EXTENDS EventLogger
CONSTANTS s1
MCSids == {s1}
MCDeployments ==
  {d \in [write_to_db : BOOLEAN, jsonl_path : BOOLEAN] : d.write_to_db \/ d.jsonl_path}
=============================================================================
