----------------------- MODULE SessionRegistryProofs -----------------------
(***************************************************************************)
(* Proofs about SessionRegistry, for every set of connections and          *)
(* addresses and every pair of limits.  The books (RegistryExact) are the  *)
(* inductive part: the limits follow because can_accept reads the books.   *)
(***************************************************************************)
EXTENDS SessionRegistry, FiniteSetTheorems, TLAPS

RegistryInv == RegistryTypeOK /\ RegistryExact /\ WithinLimits

(* The live sessions, and those of one address, are finitely many. *)
LEMMA LiveFinite ==
  ASSUME RegistryTypeOK
  PROVE  /\ IsFiniteSet(active) /\ Cardinality(active) \in Nat
         /\ \A ip : IsFiniteSet(LiveFrom(ip)) /\ Cardinality(LiveFrom(ip)) \in Nat
<1>1. IsFiniteSet(active)
  BY FS_Subset, RegistryAssumption DEF RegistryTypeOK
<1>2. \A ip : LiveFrom(ip) \subseteq active
  BY DEF LiveFrom
<1>3. \A ip : IsFiniteSet(LiveFrom(ip))
  BY <1>1, <1>2, FS_Subset
<1> QED
  BY <1>1, <1>3, FS_CardinalityType

(* The books in one formula: get(ip, 0) is the number of live sessions. *)
LEMMA PerIpCounts ==
  ASSUME RegistryTypeOK, RegistryExact, NEW ip
  PROVE  /\ PerIp(ip, 0) = Cardinality(LiveFrom(ip))
         /\ ip \in DOMAIN perIp <=> LiveFrom(ip) # {}
<1>1. CASE ip \in DOMAIN perIp
  BY <1>1 DEF RegistryExact, PerIp, LiveFrom
<1>2. CASE ip \notin DOMAIN perIp
  <2>1. LiveFrom(ip) = {}
    BY <1>2 DEF RegistryExact, LiveFrom
  <2> QED
    BY <1>2, <2>1, FS_EmptySet DEF PerIp
<1> QED
  BY <1>1, <1>2

(* register() after can_accept() said yes. *)
LEMMA RegisterKeeps ==
  ASSUME RegistryInv, NEW c \in Conns, c \notin active, Register(c)
  PROVE  RegistryInv'
<1> DEFINE ip == SrcIp[c]
<1>0. RegistryTypeOK /\ RegistryExact /\ WithinLimits
  BY DEF RegistryInv
<1>1. ip \in IPs /\ Allowed(ip) /\ active' = active \cup {c}
  BY RegistryAssumption DEF Register
<1>2. LiveFrom(ip)' = LiveFrom(ip) \cup {c} /\ c \notin LiveFrom(ip)
  BY <1>1 DEF LiveFrom
<1>3. \A i : i # ip => LiveFrom(i)' = LiveFrom(i)
  BY <1>1 DEF LiveFrom
<1>4. /\ Cardinality(LiveFrom(ip)') = Cardinality(LiveFrom(ip)) + 1
      /\ Cardinality(active') = Cardinality(active) + 1
  BY <1>0, <1>1, <1>2, LiveFinite, FS_AddElement
<1>5. PerIp(ip, 0) = Cardinality(LiveFrom(ip))
  BY <1>0, PerIpCounts
<1>6. /\ DOMAIN perIp' = DOMAIN perIp \cup {ip}
      /\ perIp'[ip] = PerIp(ip, 0) + 1
      /\ \A i \in DOMAIN perIp : i # ip => perIp'[i] = perIp[i]
  BY DEF Register
<1>7. RegistryTypeOK'
  BY <1>0, <1>1, <1>5, <1>6, LiveFinite DEF RegistryTypeOK, Register
<1>8. RegistryExact'
  <2>1. DOMAIN perIp' = {SrcIp[d] : d \in active'}
    BY <1>0, <1>1, <1>6 DEF RegistryExact
  <2>2. ASSUME NEW i \in DOMAIN perIp' PROVE perIp'[i] = Cardinality(LiveFrom(i)')
    <3>1. CASE i = ip
      BY <1>4, <1>5, <1>6, <3>1
    <3>2. CASE i # ip
      <4>1. i \in DOMAIN perIp /\ perIp'[i] = perIp[i]
        BY <1>6, <2>2, <3>2
      <4>2. LiveFrom(i)' = LiveFrom(i)
        BY <1>3, <3>2
      <4> QED
        BY <1>0, <4>1, <4>2 DEF RegistryExact
    <3> QED
      BY <3>1, <3>2
  <2> QED
    BY <2>1, <2>2 DEF RegistryExact, LiveFrom
<1>9. WithinLimits'
  <2>1. Cardinality(active') <= MaxConnections
    BY <1>0, <1>1, <1>4, LiveFinite, RegistryAssumption DEF Allowed, GlobalFull
  <2>2. Cardinality(LiveFrom(ip)') <= MaxPerIp
    BY <1>0, <1>1, <1>4, <1>5, LiveFinite, RegistryAssumption DEF Allowed, PerIpFull
  <2>3. \A i \in IPs : Cardinality(LiveFrom(i)') <= MaxPerIp
    BY <1>0, <1>3, <2>2 DEF WithinLimits
  <2>4. \A d \in active' : SrcIp[d] \notin IgnoreIps
    BY <1>0, <1>1 DEF WithinLimits, Allowed
  <2> QED
    BY <2>1, <2>3, <2>4 DEF WithinLimits, LiveFrom
<1> QED
  BY <1>7, <1>8, <1>9 DEF RegistryInv

(* unregister() of a live session. *)
LEMMA UnregisterKeeps ==
  ASSUME RegistryInv, NEW c \in active, Unregister(c)
  PROVE  RegistryInv'
<1> DEFINE ip == SrcIp[c]
<1>0. RegistryTypeOK /\ RegistryExact /\ WithinLimits
  BY DEF RegistryInv
<1>1. active' = active \ {c} /\ c \in LiveFrom(ip) /\ ip \in DOMAIN perIp
  BY <1>0 DEF Unregister, LiveFrom, RegistryExact
<1>2. LiveFrom(ip)' = LiveFrom(ip) \ {c}
  BY <1>1 DEF LiveFrom
<1>3. \A i : i # ip => LiveFrom(i)' = LiveFrom(i)
  BY <1>1 DEF LiveFrom
<1>4. /\ Cardinality(LiveFrom(ip)') = Cardinality(LiveFrom(ip)) - 1
      /\ Cardinality(active') = Cardinality(active) - 1
      /\ IsFiniteSet(LiveFrom(ip)')
  <2>1. IsFiniteSet(active) /\ IsFiniteSet(LiveFrom(ip))
    BY <1>0, LiveFinite
  <2>2. Cardinality(active \ {c}) = Cardinality(active) - 1
    BY <2>1, FS_RemoveElement
  <2>3. /\ IsFiniteSet(LiveFrom(ip) \ {c})
        /\ Cardinality(LiveFrom(ip) \ {c}) = Cardinality(LiveFrom(ip)) - 1
    BY <1>1, <2>1, FS_RemoveElement
  <2> QED
    BY <1>1, <1>2, <2>2, <2>3
<1>5. PerIp(ip, 1) = Cardinality(LiveFrom(ip)) /\ PerIp(ip, 1) \in Nat
  BY <1>0, <1>1, LiveFinite DEF RegistryExact, PerIp
<1>6. /\ DOMAIN perIp' = {SrcIp[d] : d \in active'}
      /\ DOMAIN perIp' \subseteq DOMAIN perIp
      /\ \A i \in DOMAIN perIp' : /\ perIp'[i] = Cardinality(LiveFrom(i)')
                                  /\ perIp'[i] \in Nat \ {0}
  <2>1. CASE PerIp(ip, 1) - 1 <= 0
    <3>1. /\ DOMAIN perIp' = DOMAIN perIp \ {ip}
          /\ \A i \in DOMAIN perIp' : perIp'[i] = perIp[i]
      BY <2>1 DEF Unregister
    <3>2. Cardinality(LiveFrom(ip)') \in Nat
      BY <1>4, FS_CardinalityType
    <3>3. Cardinality(LiveFrom(ip)') = 0
      BY <1>4, <1>5, <2>1, <3>2
    <3>4. LiveFrom(ip)' = {}
      BY <1>4, <3>3, FS_EmptySet
    <3>5. \A d \in active' : SrcIp[d] # ip
      BY <3>4 DEF LiveFrom
    <3>6. DOMAIN perIp' = {SrcIp[d] : d \in active'}
      BY <1>0, <1>1, <3>1, <3>5 DEF RegistryExact
    <3>7. \A i \in DOMAIN perIp' : perIp'[i] = Cardinality(LiveFrom(i)')
      BY <1>0, <1>3, <3>1 DEF RegistryExact
    <3> QED
      BY <1>0, <3>1, <3>6, <3>7 DEF RegistryTypeOK
  <2>2. CASE ~(PerIp(ip, 1) - 1 <= 0)
    <3>1. /\ DOMAIN perIp' = DOMAIN perIp
          /\ perIp'[ip] = PerIp(ip, 1) - 1
          /\ \A i \in DOMAIN perIp : i # ip => perIp'[i] = perIp[i]
      BY <1>1, <2>2 DEF Unregister
    <3>2. perIp'[ip] = Cardinality(LiveFrom(ip)') /\ perIp'[ip] \in Nat \ {0}
      BY <1>4, <1>5, <2>2, <3>1
    <3>3. LiveFrom(ip)' # {}
      BY <3>2, FS_EmptySet
    <3>4. DOMAIN perIp' = {SrcIp[d] : d \in active'}
      <4>1. PICK d \in active' : SrcIp[d] = ip
        BY <3>3 DEF LiveFrom
      <4> QED
        BY <1>0, <1>1, <3>1, <4>1 DEF RegistryExact
    <3>5. ASSUME NEW i \in DOMAIN perIp', i # ip
          PROVE  perIp'[i] = Cardinality(LiveFrom(i)') /\ perIp'[i] \in Nat \ {0}
      <4>1. i \in DOMAIN perIp /\ perIp'[i] = perIp[i]
        BY <3>1, <3>5
      <4>2. LiveFrom(i)' = LiveFrom(i)
        BY <1>3, <3>5
      <4> QED
        BY <1>0, <4>1, <4>2 DEF RegistryExact, RegistryTypeOK
    <3> QED
      BY <3>1, <3>2, <3>4, <3>5
  <2> QED
    BY <2>1, <2>2
<1>7. RegistryTypeOK'
  BY <1>0, <1>1, <1>6 DEF RegistryTypeOK, Unregister
<1>8. RegistryExact'
  BY <1>6 DEF RegistryExact, LiveFrom
<1>9. WithinLimits'
  <2>1. Cardinality(active') <= MaxConnections
    BY <1>0, <1>4, LiveFinite, RegistryAssumption DEF WithinLimits
  <2>2. \A i \in IPs : Cardinality(LiveFrom(i)') <= MaxPerIp
    <3> SUFFICES ASSUME NEW i \in IPs PROVE Cardinality(LiveFrom(i)') <= MaxPerIp
      OBVIOUS
    <3>1. Cardinality(LiveFrom(i)) <= MaxPerIp /\ Cardinality(LiveFrom(i)) \in Nat
          /\ MaxPerIp \in Int
      BY <1>0, LiveFinite, RegistryAssumption DEF WithinLimits
    <3>2. CASE i = ip
      BY <1>4, <3>1, <3>2
    <3>3. CASE i # ip
      BY <1>3, <3>1, <3>3
    <3> QED
      BY <3>2, <3>3
  <2>3. \A d \in active' : SrcIp[d] \notin IgnoreIps
    BY <1>0, <1>1 DEF WithinLimits
  <2> QED
    BY <2>1, <2>2, <2>3 DEF WithinLimits, LiveFrom
<1> QED
  BY <1>7, <1>8, <1>9 DEF RegistryInv

(* The books of a registry that has seen nobody. *)
LEMMA RegistryStarts == RegistryInit => RegistryInv
<1> SUFFICES ASSUME RegistryInit PROVE RegistryInv
  OBVIOUS
<1>1. active = {} /\ DOMAIN perIp = {}
  BY DEF RegistryInit
<1>2. \A ip : LiveFrom(ip) = {}
  BY <1>1 DEF LiveFrom
<1>3. Cardinality({}) = 0
  BY FS_EmptySet
<1>4. RegistryTypeOK /\ RegistryExact
  BY <1>1 DEF RegistryInit, RegistryTypeOK, RegistryExact
<1>5. WithinLimits
  <2>1. 0 <= MaxConnections /\ 0 <= MaxPerIp
    BY RegistryAssumption
  <2>2. \A ip : Cardinality(LiveFrom(ip)) = 0
    BY <1>2, <1>3
  <2> QED
    BY <1>1, <1>3, <2>1, <2>2 DEF WithinLimits
<1> QED
  BY <1>4, <1>5 DEF RegistryInv

-----------------------------------------------------------------------------
(* Theorems *)

(* Types, books and limits together are inductive. *)
THEOREM RegistryInvariant == RegistrySpec => []RegistryInv
<1>1. RegistryInv /\ [RegistryNext]_registryVars => RegistryInv'
  <2> SUFFICES ASSUME RegistryInv, [RegistryNext]_registryVars PROVE RegistryInv'
    OBVIOUS
  <2>1. CASE UNCHANGED registryVars
    BY <2>1 DEF registryVars, RegistryInv, RegistryTypeOK, RegistryExact,
                WithinLimits, LiveFrom
  <2>2. ASSUME NEW c \in Conns, Reject(c) PROVE RegistryInv'
    <3>1. /\ UNCHANGED <<active, perIp, totalAccepted>>
          /\ rejectedGlobal' \in Nat /\ rejectedPerIp' \in Nat
      BY <2>2 DEF Reject, RegistryInv, RegistryTypeOK
    <3> QED
      BY <3>1 DEF RegistryInv, RegistryTypeOK, RegistryExact, WithinLimits, LiveFrom
  <2> QED
    BY <2>1, <2>2, RegisterKeeps, UnregisterKeeps DEF RegistryNext
<1> QED
  BY <1>1, RegistryStarts, PTL DEF RegistrySpec

(* _per_ip has a key for exactly the addresses with a live session and       *)
(* counts them, after any sequence of connects and disconnects.              *)
THEOREM RegistryBooks == RegistrySpec => []RegistryExact
<1>1. RegistryInv => RegistryExact
  BY DEF RegistryInv
<1> QED
  BY <1>1, RegistryInvariant, PTL

(* max_connections, max_connections_per_ip and ignore_ips are respected in   *)
(* every reachable state.                                                    *)
THEOREM RegistryLimits == RegistrySpec => []WithinLimits
<1>1. RegistryInv => WithinLimits
  BY DEF RegistryInv
<1> QED
  BY <1>1, RegistryInvariant, PTL

=============================================================================
