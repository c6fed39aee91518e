------------------------- MODULE MCSessionRegistry -------------------------
(* Six connections from three addresses, one of them ignored; three live     *)
(* sessions at most and two per address, so both limits are met, by one      *)
(* address and by the two together.                                          *)
EXTENDS SessionRegistry
CONSTANTS ip1, ip2, ip3
MCConns == 1 .. 6
MCIPs == {ip1, ip2, ip3}
MCSrcIp == [c \in MCConns |-> IF c <= 3 THEN ip1 ELSE IF c <= 5 THEN ip2 ELSE ip3]
MCIgnoreIps == {ip3}
=============================================================================
