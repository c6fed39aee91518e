-------------------------- MODULE SessionRegistry --------------------------
(***************************************************************************)
(* honeypot/session.py, SessionRegistry: admission control and the books   *)
(* of live sessions.  It runs on the asyncio loop only, so each method is  *)
(* one step.  _per_ip is a dictionary: an address without a live session   *)
(* has no key at all.                                                      *)
(***************************************************************************)
EXTENDS Integers, FiniteSets

CONSTANTS
  Conns,           \* connections that may arrive, also their session ids
  IPs,             \* source addresses
  SrcIp,           \* SrcIp[c]: the address connection c comes from
  IgnoreIps,       \* settings.ignore_ips
  MaxConnections,  \* settings.max_connections
  MaxPerIp,        \* settings.max_connections_per_ip
  MaxAttempts      \* bound of the model: connections that are counted

(* Settings.validate checks the order of the two limits, not their sign: a   *)
(* negative limit admits nobody, as zero does.                               *)
ASSUME RegistryAssumption ==
  /\ IsFiniteSet(Conns)
  /\ SrcIp \in [Conns -> IPs]
  /\ IgnoreIps \subseteq IPs
  /\ MaxConnections \in Nat
  /\ MaxPerIp \in 0 .. MaxConnections
  /\ MaxAttempts \in Nat

VARIABLES
  active,          \* DOMAIN self._active
  perIp,           \* self._per_ip
  rejectedGlobal, rejectedPerIp, totalAccepted

registryVars == <<active, perIp, rejectedGlobal, rejectedPerIp, totalAccepted>>

RegistryTypeOK ==
  /\ active \subseteq Conns
  /\ DOMAIN perIp \subseteq IPs
  /\ \A ip \in DOMAIN perIp : perIp[ip] \in Nat \ {0}
  /\ rejectedGlobal \in Nat /\ rejectedPerIp \in Nat /\ totalAccepted \in Nat

RegistryInit ==
  /\ active = {} /\ perIp = [ip \in {} |-> 0]
  /\ rejectedGlobal = 0 /\ rejectedPerIp = 0 /\ totalAccepted = 0

(* self._per_ip.get(ip, default) *)
PerIp(ip, default) == IF ip \in DOMAIN perIp THEN perIp[ip] ELSE default

(* Mutant: one session too many per address. *)
PerIpFull_OffByOne(ip) == PerIp(ip, 0) > MaxPerIp

PerIpFull(ip) == PerIp(ip, 0) >= MaxPerIp

GlobalFull == Cardinality(active) >= MaxConnections

Allowed(ip) == ip \notin IgnoreIps /\ ~GlobalFull /\ ~PerIpFull(ip)

(* can_accept(...) returned False: the first test that applies counts. *)
Reject(c) ==
  LET ip == SrcIp[c] IN
  /\ ~Allowed(ip)
  /\ rejectedGlobal' = IF ip \notin IgnoreIps /\ GlobalFull
                         THEN rejectedGlobal + 1 ELSE rejectedGlobal
  /\ rejectedPerIp' = IF ip \notin IgnoreIps /\ ~GlobalFull
                        THEN rejectedPerIp + 1 ELSE rejectedPerIp
  /\ UNCHANGED <<active, perIp, totalAccepted>>

(* can_accept returned True and register followed without an await between. *)
Register(c) ==
  LET ip == SrcIp[c] IN
  /\ Allowed(ip)
  /\ active' = active \cup {c}
  /\ perIp' = [i \in DOMAIN perIp \cup {ip} |->
                 IF i = ip THEN PerIp(ip, 0) + 1 ELSE perIp[i]]
  /\ totalAccepted' = totalAccepted + 1
  /\ UNCHANGED <<rejectedGlobal, rejectedPerIp>>

(* Mutant: a count that has come down to zero keeps its key. *)
Unregister_KeepsKey(c) ==
  LET ip == SrcIp[c] IN
  /\ active' = active \ {c}
  /\ perIp' = [i \in DOMAIN perIp |-> IF i = ip THEN perIp[i] - 1 ELSE perIp[i]]
  /\ UNCHANGED <<rejectedGlobal, rejectedPerIp, totalAccepted>>

Unregister(c) ==
  LET ip == SrcIp[c]
      remaining == PerIp(ip, 1) - 1
  IN
  /\ active' = active \ {c}
  /\ perIp' = [i \in (IF remaining <= 0 THEN DOMAIN perIp \ {ip}
                      ELSE DOMAIN perIp \cup {ip})
                 |-> IF i = ip THEN remaining ELSE perIp[i]]
  /\ UNCHANGED <<rejectedGlobal, rejectedPerIp, totalAccepted>>

(* _handle_client registers a new connection or turns it away, and           *)
(* unregisters exactly what it registered.  A connection of the model stands *)
(* for every later one from its address; MaxAttempts bounds them all.        *)
RegistryNext ==
  \E c \in Conns :
    \/ /\ c \notin active
       /\ totalAccepted + rejectedGlobal + rejectedPerIp < MaxAttempts
       /\ Reject(c) \/ Register(c)
    \/ c \in active /\ Unregister(c)

RegistrySpec == RegistryInit /\ [][RegistryNext]_registryVars

-----------------------------------------------------------------------------

LiveFrom(ip) == {c \in active : SrcIp[c] = ip}

(* The per-address books agree with the live sessions: exactly the addresses *)
(* with a live session have a key, and it counts them.  A key that stays     *)
(* behind would block its address for good, one removed early would let it   *)
(* exceed its limit.                                                         *)
RegistryExact ==
  /\ DOMAIN perIp = {SrcIp[c] : c \in active}
  /\ \A ip \in DOMAIN perIp : perIp[ip] = Cardinality(LiveFrom(ip))

(* The two limits are never exceeded, and an ignored address has no session. *)
WithinLimits ==
  /\ Cardinality(active) <= MaxConnections
  /\ \A ip \in IPs : Cardinality(LiveFrom(ip)) <= MaxPerIp
  /\ \A c \in active : SrcIp[c] \notin IgnoreIps

=============================================================================
