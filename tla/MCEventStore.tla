---------------------------- MODULE MCEventStore ----------------------------
EXTENDS EventStore

MCIpOf == [c \in Conns |-> "ip1"]
=============================================================================
