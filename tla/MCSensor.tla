------------------------------ MODULE MCSensor ------------------------------
(* A telnet and a full-mode SSH session at two listeners, and a connection   *)
(* from an ignored address.  The second set of connections is for liveness.  *)
(* The run with two sessions follows a behaviour up to its first loss: two   *)
(* of its invariants say nothing beyond it, the others are about sessions    *)
(* and the order of the shutdown, which no loss can change, and the number   *)
(* of losses would multiply the states.  The run with one session has no     *)
(* such limit.                                                               *)
EXTENDS Sensor
CONSTANTS t, s, x, ipA, ipB
MCConns == {t, s, x}
MCConnsOne == {s, x}
MCIPs == {ipA, ipB}
MCSrcIp == [c \in Conns |-> IF c = x THEN ipB ELSE ipA]
MCIgnoreIps == {ipB}
MCServices == {"telnet", "ssh"}
MCServiceOf == [c \in Conns |-> IF c = s THEN "ssh" ELSE "telnet"]
MCFullMode == {s}
MCDeployments == {[write_to_db |-> TRUE, jsonl_path |-> FALSE]}
NoLossYet == dropped = 0 /\ errors = 0
=============================================================================
