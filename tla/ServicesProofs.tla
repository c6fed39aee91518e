--------------------------- MODULE ServicesProofs ---------------------------
(***************************************************************************)
(* Proofs about the conversations of Services, for every set of services,  *)
(* names, lines, requests and commands a peer may send, and for all        *)
(* budgets: what the events say of a login, what is stored of a            *)
(* conversation, and where a flood is cut.                                 *)
(***************************************************************************)
EXTENDS Services, SequenceTheorems, TLAPS

(* A sequence, whatever its elements are. *)
Elements(s) == {s[i] : i \in DOMAIN s}
IsTuple(s) == s \in Seq(Elements(s))

(* The shape of the records the actions update. *)
SessionType(s) ==
  [event_count : Nat, auth_attempts : Nat, commands_run : Nat, bytes_in : Nat,
   authenticated : BOOLEAN, username : {s.username},
   closed_by : {"none", "client", "timeout", "limit", "server", "error"}, log : {s.log}]

SessionOK(s) ==
  /\ s \in SessionType(s) /\ IsTuple(s.log)
  /\ s.event_count = Len(s.log) /\ s.event_count <= MaxEvents

PeerType(p) ==
  [meant : {p.meant}, heard : {p.heard}, broken : BOOLEAN, unheard : Nat, status : {p.status}]

ShellType(sh) ==
  [username : {sh.username}, cwd : {sh.cwd}, pwd : {sh.pwd}, history : Nat, downloads : Nat]

LocShape ==
  pc # "idle" =>
    /\ svc = "telnet" => /\ loc \in [attempt : Nat, username : {loc.username}, shell : {loc.shell}]
                         /\ loc.shell \in ShellType(loc.shell)
    /\ svc = "ftp" => loc \in [username : {loc.username}, authenticated : BOOLEAN, cwd : {loc.cwd}]
    /\ svc \in {"http", "docker"} =>
         loc \in [turn : Nat, path : {loc.path}, version : {loc.version}, seen : Nat, headers : {loc.headers}]
    /\ svc = "redis" => loc \in [turn : Nat, want : {loc.want}, parts : {loc.parts}]
    /\ svc = "sshfull" => /\ loc \in [attempts : Nat, shell : {loc.shell}, open : BOOLEAN]
                          /\ loc.shell \in ShellType(loc.shell)

Shapes == SessionOK(sess) /\ peer \in PeerType(peer) /\ LocShape

-----------------------------------------------------------------------------
(* Sequences *)

LEMMA TupleFacts ==
  ASSUME NEW s, IsTuple(s)
  PROVE  Len(s) \in Nat /\ DOMAIN s = 1 .. Len(s) /\ (s = <<>> <=> Len(s) = 0)
BY DEF IsTuple

LEMMA TupleMember ==
  ASSUME NEW S, NEW s \in Seq(S)
  PROVE  IsTuple(s)
<1>1. \A i \in DOMAIN s : s[i] \in Elements(s)
  BY DEF Elements
<1> QED
  BY <1>1 DEF IsTuple

LEMMA EmptyIsTuple == IsTuple(<<>>) /\ Len(<<>>) = 0 /\ DOMAIN <<>> = {}
<1>1. <<>> \in Seq({}) /\ Len(<<>>) = 0 /\ DOMAIN <<>> = {}
  OBVIOUS
<1> QED
  BY <1>1, TupleMember

LEMMA TupleAppend ==
  ASSUME NEW s, IsTuple(s), NEW e
  PROVE  /\ IsTuple(Append(s, e)) /\ Len(Append(s, e)) = Len(s) + 1
         /\ Append(s, e)[Len(s) + 1] = e
         /\ \A i \in DOMAIN s : Append(s, e)[i] = s[i]
         /\ DOMAIN Append(s, e) = 1 .. Len(s) + 1
<1> DEFINE S == Elements(s) \cup {e}
<1>1. s \in Seq(S) /\ e \in S
  <2>1. \A i \in DOMAIN s : s[i] \in S
    BY DEF Elements
  <2> HIDE DEF S
  <2>2. s \in Seq(S)
    BY <2>1 DEF IsTuple
  <2> QED
    BY <2>2 DEF S
<1> HIDE DEF S
<1>2. Append(s, e) \in Seq(S) /\ Len(Append(s, e)) = Len(s) + 1
  BY <1>1
<1>3. IsTuple(Append(s, e))
  BY <1>2, TupleMember
<1>4. Append(s, e)[Len(s) + 1] = e /\ \A i \in DOMAIN s : Append(s, e)[i] = s[i]
  BY <1>1
<1>5. DOMAIN Append(s, e) = 1 .. Len(s) + 1
  BY <1>2
<1> QED
  BY <1>2, <1>3, <1>4, <1>5

-----------------------------------------------------------------------------
(* The session *)

(* The log of t is that of s and maybe more. *)
Longer(s, t) ==
  /\ Len(s.log) <= Len(t.log)
  /\ \A i \in DOMAIN s.log : t.log[i] = s.log[i]
  /\ Spent(s) => t.log = s.log /\ Spent(t)

(* What is more is neither a login nor an upload. *)
Plainly(s, t) ==
  /\ Longer(s, t)
  /\ \A i \in DOMAIN t.log \ DOMAIN s.log : t.log[i].type \notin {"AUTH_SUCCESS", "FILE_UPLOAD"}

Same(s, t) == t.authenticated = s.authenticated /\ t.username = s.username

LEMMA RecordIs ==
  ASSUME NEW s, SessionOK(s), NEW e
  PROVE  LET t == Record(s, e) IN
         /\ SessionOK(t) /\ Longer(s, t) /\ Same(s, t)
         /\ t.bytes_in = s.bytes_in /\ t.closed_by = s.closed_by
         /\ Spent(s) => t = s
         /\ ~ Spent(s) => t.log = Append(s.log, e)
         /\ e.type \notin {"AUTH_SUCCESS", "FILE_UPLOAD"} => Plainly(s, t)
<1> DEFINE t == Record(s, e)
<1>0. Len(s.log) \in Nat /\ DOMAIN s.log = 1 .. Len(s.log) /\ MaxEvents \in Nat
  BY TupleFacts, ServiceAssumption DEF SessionOK
<1>1. CASE Spent(s)
  <2>1. t = s
    BY <1>1 DEF Record
  <2> QED
    BY <1>0, <1>1, <2>1 DEF Longer, Plainly, Same
<1>2. CASE ~ Spent(s)
  <2> DEFINE l == Append(s.log, e)
             a == IF e.type = "AUTH_ATTEMPT" THEN s.auth_attempts + 1 ELSE s.auth_attempts
             c == IF e.type = "COMMAND" THEN s.commands_run + 1 ELSE s.commands_run
             n == s.event_count + 1
  <2>1. t = [s EXCEPT !.log = l, !.event_count = n, !.auth_attempts = a, !.commands_run = c]
    BY <1>2 DEF Record
  <2>2. s \in SessionType(s) /\ n \in Nat /\ a \in Nat /\ c \in Nat /\ n <= MaxEvents
    BY <1>0, <1>2 DEF SessionOK, SessionType, Spent
  <2>3. /\ IsTuple(l) /\ Len(l) = Len(s.log) + 1 /\ l[Len(s.log) + 1] = e
        /\ DOMAIN l = 1 .. Len(s.log) + 1 /\ \A i \in DOMAIN s.log : l[i] = s.log[i]
    BY TupleAppend DEF SessionOK
  <2>4. n = Len(l)
    BY <2>3 DEF SessionOK
  <2> HIDE DEF l, a, c, n, t
  <2>5. /\ t \in SessionType(t) /\ t.log = l /\ t.event_count = n /\ t.bytes_in = s.bytes_in
        /\ t.closed_by = s.closed_by /\ t.authenticated = s.authenticated /\ t.username = s.username
    BY <2>1, <2>2 DEF SessionType
  <2>6. SessionOK(t)
    BY <2>2, <2>3, <2>4, <2>5 DEF SessionOK
  <2>7. Longer(s, t)
    BY <1>0, <1>2, <2>3, <2>5 DEF Longer
  <2>8. DOMAIN t.log \ DOMAIN s.log = {Len(s.log) + 1}
    BY <1>0, <2>3, <2>5
  <2>9. e.type \notin {"AUTH_SUCCESS", "FILE_UPLOAD"} => Plainly(s, t)
    BY <2>3, <2>5, <2>7, <2>8 DEF Plainly
  <2> QED
    BY <1>2, <2>5, <2>6, <2>7, <2>9 DEF t, l, Same
<1> QED
  BY <1>1, <1>2

LEMMA LongerChain ==
  ASSUME NEW s, NEW t, NEW u, SessionOK(s), SessionOK(t), SessionOK(u), Longer(s, t), Longer(t, u)
  PROVE  Longer(s, u) /\ (Plainly(s, t) /\ Plainly(t, u) => Plainly(s, u))
<1>1. /\ Len(s.log) \in Nat /\ DOMAIN s.log = 1 .. Len(s.log)
      /\ Len(t.log) \in Nat /\ DOMAIN t.log = 1 .. Len(t.log)
      /\ Len(u.log) \in Nat /\ DOMAIN u.log = 1 .. Len(u.log)
  BY TupleFacts DEF SessionOK
<1>2. DOMAIN s.log \subseteq DOMAIN t.log /\ Len(s.log) <= Len(u.log)
  BY <1>1 DEF Longer
<1>3. Longer(s, u)
  BY <1>2 DEF Longer
<1>4. ASSUME Plainly(s, t), Plainly(t, u), NEW i \in DOMAIN u.log \ DOMAIN s.log
      PROVE  u.log[i].type \notin {"AUTH_SUCCESS", "FILE_UPLOAD"}
  <2>1. CASE i \in DOMAIN t.log
    BY <1>4, <2>1 DEF Plainly, Longer
  <2>2. CASE i \notin DOMAIN t.log
    BY <1>4, <2>2 DEF Plainly
  <2> QED
    BY <2>1, <2>2
<1> QED
  BY <1>3, <1>4 DEF Plainly

LEMMA LogStays ==
  ASSUME NEW s, NEW t, SessionOK(s), t.log = s.log, t.event_count = s.event_count
  PROVE  Plainly(s, t) /\ Longer(s, t)
<1>1. Len(s.log) \in Nat
  BY TupleFacts DEF SessionOK
<1> QED
  BY <1>1 DEF Plainly, Longer, Spent

LEMMA CountedIs ==
  ASSUME NEW s, SessionOK(s)
  PROVE  /\ SessionOK(Counted(s)) /\ Plainly(s, Counted(s)) /\ Same(s, Counted(s))
         /\ Counted(s).bytes_in = s.bytes_in + 1 /\ Counted(s).log = s.log
         /\ (Spent(Counted(s)) <=> Spent(s)) /\ Counted(s).closed_by = s.closed_by
<1> DEFINE t == Counted(s)
           b == s.bytes_in + 1
<1>1. t = [s EXCEPT !.bytes_in = b]
  BY DEF Counted
<1>2. s \in SessionType(s) /\ b \in Nat
  BY DEF SessionOK, SessionType
<1> HIDE DEF t, b
<1>3. /\ t \in SessionType(t) /\ t.bytes_in = b /\ t.log = s.log /\ t.event_count = s.event_count
      /\ t.authenticated = s.authenticated /\ t.username = s.username /\ t.closed_by = s.closed_by
  BY <1>1, <1>2 DEF SessionType
<1>4. SessionOK(t) /\ Same(s, t) /\ (Spent(t) <=> Spent(s))
  BY <1>3 DEF SessionOK, Same, Spent
<1>5. Plainly(s, t)
  BY <1>3, LogStays
<1> QED
  BY <1>3, <1>4, <1>5 DEF t, b

Reasons == {"client", "timeout", "limit", "server", "error"}

LEMMA ClosesIs ==
  ASSUME NEW s, SessionOK(s), NEW reason \in Reasons, Closes(s, reason)
  PROVE  /\ pc' = "closed" /\ svc' = svc /\ loc' = loc
         /\ SessionOK(sess') /\ Plainly(s, sess') /\ Same(s, sess') /\ sess'.bytes_in = s.bytes_in
<1> DEFINE e == Event("ERROR", NoUser, {"exception"})
           d == Event("DISCONNECT", NoUser, {})
           t == IF reason = "error" THEN Record(s, e) ELSE s
           u == Record(t, d)
<1>1. pc' = "closed" /\ svc' = svc /\ loc' = loc /\ sess' = [u EXCEPT !.closed_by = reason]
  BY DEF Closes
<1>2. e.type = "ERROR" /\ d.type = "DISCONNECT"
  BY DEF Event
<1> HIDE DEF e, d
<1>3. SessionOK(t) /\ Plainly(s, t) /\ Same(s, t) /\ t.bytes_in = s.bytes_in
  BY <1>2, RecordIs, LogStays DEF Same
<1> HIDE DEF t
<1>4. SessionOK(u) /\ Plainly(t, u) /\ Same(t, u) /\ u.bytes_in = t.bytes_in
  BY <1>2, <1>3, RecordIs
<1> HIDE DEF u
<1>5. /\ sess' \in SessionType(sess') /\ sess'.log = u.log /\ sess'.event_count = u.event_count
      /\ sess'.authenticated = u.authenticated /\ sess'.username = u.username
      /\ sess'.bytes_in = u.bytes_in
  BY <1>1, <1>4 DEF SessionOK, SessionType, Reasons
<1>6. SessionOK(sess') /\ Plainly(u, sess')
  BY <1>4, <1>5, LogStays DEF SessionOK
<1>7. Plainly(s, u)
  BY <1>3, <1>4, LongerChain DEF Plainly
<1>8. Plainly(s, sess')
  BY <1>4, <1>6, <1>7, LongerChain DEF Plainly
<1> QED
  BY <1>1, <1>3, <1>4, <1>5, <1>6, <1>8 DEF Same

LEMMA RepliesIs ==
  ASSUME NEW p, p \in PeerType(p), NEW s
  PROVE  /\ Replies(p, s) \in PeerType(Replies(p, s))
         /\ Replies(p, s).unheard \in {p.unheard, p.unheard + 1}
         /\ ~ Spent(s) => Replies(p, s).unheard = p.unheard
         /\ Replies(p, s).meant = p.meant /\ Replies(p, s).heard = p.heard
         /\ Replies(p, s).broken = p.broken /\ Replies(p, s).status = p.status
<1> DEFINE n == p.unheard + (IF Spent(s) /\ p.unheard < 4 THEN 1 ELSE 0)
<1>1. Replies(p, s) = [p EXCEPT !.unheard = n]
  BY DEF Replies
<1>2. n \in Nat /\ n \in {p.unheard, p.unheard + 1} /\ (~ Spent(s) => n = p.unheard)
  BY DEF PeerType
<1> HIDE DEF n
<1> QED
  BY <1>1, <1>2 DEF PeerType

-----------------------------------------------------------------------------
(* What most steps keep.  First what is stored of the conversation: every    *)
(* step that goes on with a longer log, and touches neither the files nor    *)
(* the status.                                                               *)
ProvedInv == Shapes /\ ServicesInv

Advances(t) ==
  /\ SessionOK(t) /\ Longer(sess, t)
  /\ pc' # "closed" => t.bytes_in <= MaxBytes
  /\ t.bytes_in <= MaxBytes + 1

LEMMA PlacesNext == svc' = svc => Places' = Places
BY DEF Places

LEMMA TypeStep ==
  ASSUME ProvedInv, svc' = svc, Advances(sess'), pc' \in Places \cup {"closed"}
  PROVE  InPlace' /\ TypeOK'
<1>1. Places' = Places
  BY PlacesNext
<1>2. "idle" \notin Places
  BY DEF Places
<1>3. InPlace'
  BY <1>1, <1>2 DEF InPlace, Advances
<1>4. /\ sess'.event_count \in 0 .. MaxEvents /\ sess'.bytes_in \in 0 .. MaxBytes + 1
      /\ sess'.event_count = Len(sess'.log)
      /\ sess'.closed_by \in {"none", "client", "timeout", "limit", "server", "error"}
  BY ServiceAssumption DEF Advances, SessionOK, SessionType
<1>5. svc' \in Served
  BY DEF ProvedInv, ServicesInv, RecordedAsServed, TypeOK
<1>6. pc' \in {"login", "password", "shell", "command", "settling", "request", "headers",
               "body", "bulk", "value", "banner", "packet", "auth", "channel", "closed"}
  BY DEF Places
<1> QED
  BY <1>3, <1>4, <1>5, <1>6 DEF TypeOK

LEMMA OldPayloads ==
  ASSUME ProvedInv, pc # "closed", Advances(sess'), NEW body \in files
  PROVE  \E i \in DOMAIN sess'.log : sess'.log[i].payload = body
<1>1. PICK i \in DOMAIN sess.log : sess.log[i].payload = body
  BY DEF ProvedInv, ServicesInv, RecordedAsServed, PayloadsAreReferenced
<1>2. /\ Len(sess.log) \in Nat /\ DOMAIN sess.log = 1 .. Len(sess.log)
      /\ Len(sess'.log) \in Nat /\ DOMAIN sess'.log = 1 .. Len(sess'.log)
  BY TupleFacts DEF ProvedInv, Shapes, SessionOK, Advances
<1>3. i \in DOMAIN sess'.log /\ sess'.log[i] = sess.log[i]
  BY <1>2 DEF Advances, Longer
<1> QED
  BY <1>1, <1>3

LEMMA PayloadsStay ==
  ASSUME ProvedInv, pc # "closed", Advances(sess'), files' = files
  PROVE  PayloadsAreReferenced'
BY OldPayloads DEF PayloadsAreReferenced

LEMMA StoredStep ==
  ASSUME ProvedInv, pc # "closed", svc' = svc, Advances(sess'), pc' \in Places \cup {"closed"},
         files' = files, peer'.status = peer.status
  PROVE  InPlace' /\ RecordedAsServed'
<1>1. StatusIsTrue'
  BY DEF ProvedInv, ServicesInv, RecordedAsServed, StatusIsTrue
<1> QED
  BY <1>1, TypeStep, PayloadsStay DEF RecordedAsServed

(* Logins: a step that leaves the name and the login alone. *)
LEMMA LoginKept ==
  ASSUME ProvedInv, SessionOK(sess'), Longer(sess, sess'), sess'.authenticated = sess.authenticated,
         sess.authenticated => sess'.username = sess.username
  PROVE  /\ LoginIsExplained'
         /\ \A i \in DOMAIN sess.log : i \in DOMAIN sess'.log /\ sess'.log[i] = sess.log[i]
<1>1. /\ Len(sess.log) \in Nat /\ DOMAIN sess.log = 1 .. Len(sess.log)
      /\ Len(sess'.log) \in Nat /\ DOMAIN sess'.log = 1 .. Len(sess'.log)
  BY TupleFacts DEF ProvedInv, Shapes, SessionOK
<1>2. \A i \in DOMAIN sess.log : i \in DOMAIN sess'.log /\ sess'.log[i] = sess.log[i]
  BY <1>1 DEF Longer
<1>3. Spent(sess) => Spent(sess')
  BY DEF Longer
<1>4. LoginIsExplained'
  <2> SUFFICES ASSUME sess'.authenticated, ~ Spent(sess')
               PROVE  \E i, j \in DOMAIN sess'.log :
                        /\ i < j /\ sess'.log[i].type = "AUTH_ATTEMPT" /\ sess'.log[j].type = "AUTH_SUCCESS"
                        /\ "password" \in sess'.log[i].tags
                        /\ sess'.log[i].user = sess'.log[j].user
                        /\ sess'.log[j].user = (IF sess'.username = NoUser THEN <<>> ELSE sess'.username)
    BY DEF LoginIsExplained, Is, Spent, NoUser
  <2>1. sess.authenticated /\ ~ Spent(sess) /\ sess'.username = sess.username
    BY <1>3
  <2>2. PICK i, j \in DOMAIN sess.log :
          /\ i < j /\ sess.log[i].type = "AUTH_ATTEMPT" /\ sess.log[j].type = "AUTH_SUCCESS"
          /\ "password" \in sess.log[i].tags
          /\ sess.log[i].user = sess.log[j].user
          /\ sess.log[j].user = (IF sess.username = NoUser THEN <<>> ELSE sess.username)
    BY <2>1 DEF ProvedInv, ServicesInv, LoginsAreExplained, LoginIsExplained, Is
  <2>3. /\ i \in DOMAIN sess'.log /\ sess'.log[i] = sess.log[i]
        /\ j \in DOMAIN sess'.log /\ sess'.log[j] = sess.log[j]
    BY <1>2
  <2> QED
    BY <2>1, <2>2, <2>3
<1> QED
  BY <1>2, <1>4

LEMMA LoginStays ==
  ASSUME ProvedInv, SessionOK(sess'), Plainly(sess, sess'), sess'.authenticated = sess.authenticated,
         sess.authenticated => sess'.username = sess.username
  PROVE  /\ LoginIsExplained' /\ UploadsFollowLogin'
         /\ \A i \in DOMAIN sess.log : i \in DOMAIN sess'.log /\ sess'.log[i] = sess.log[i]
         /\ \A i \in DOMAIN sess'.log : Is(i, "AUTH_SUCCESS")' => i \in DOMAIN sess.log /\ Is(i, "AUTH_SUCCESS")
         /\ Spent(sess) => Spent(sess')
<1>1. /\ Len(sess.log) \in Nat /\ DOMAIN sess.log = 1 .. Len(sess.log)
      /\ Len(sess'.log) \in Nat /\ DOMAIN sess'.log = 1 .. Len(sess'.log)
  BY TupleFacts DEF ProvedInv, Shapes, SessionOK
<1>2. \A i \in DOMAIN sess.log : i \in DOMAIN sess'.log /\ sess'.log[i] = sess.log[i]
  BY <1>1 DEF Plainly, Longer
<1>3. \A i \in DOMAIN sess'.log :
        sess'.log[i].type \in {"AUTH_SUCCESS", "FILE_UPLOAD"} => i \in DOMAIN sess.log
  BY DEF Plainly
<1>4. Spent(sess) => Spent(sess')
  BY DEF Plainly, Longer
<1>5. LoginIsExplained'
  BY LoginKept DEF Plainly
<1>6. UploadsFollowLogin'
  <2> SUFFICES ASSUME NEW j \in DOMAIN sess'.log, sess'.log[j].type = "FILE_UPLOAD"
               PROVE  \E i \in 1 .. j : sess'.log[i].type = "AUTH_SUCCESS"
    BY DEF UploadsFollowLogin, Is
  <2>1. j \in DOMAIN sess.log /\ sess.log[j].type = "FILE_UPLOAD"
    BY <1>2, <1>3
  <2>2. PICK i \in 1 .. j : sess.log[i].type = "AUTH_SUCCESS"
    BY <2>1 DEF ProvedInv, ServicesInv, LoginsAreExplained, UploadsFollowLogin, Is
  <2>3. i \in DOMAIN sess.log
    BY <1>1, <2>1, <2>2
  <2> QED
    BY <1>2, <2>2, <2>3
<1> QED
  BY <1>2, <1>3, <1>4, <1>5, <1>6 DEF Is

(* The services without a login that succeeds. *)
LEMMA NoLoginStep ==
  ASSUME ProvedInv, svc \in {"http", "docker", "redis", "mysql", "ssh"}, svc' = svc,
         pc' \in Places \cup {"closed"}, SessionOK(sess'), Plainly(sess, sess'),
         sess'.authenticated = sess.authenticated, sess.authenticated => sess'.username = sess.username
  PROVE  TelnetWire' /\ LoginState' /\ LoginsAreExplained'
<1>1. LoginIsExplained' /\ UploadsFollowLogin'
  BY LoginStays
<1>2. pc' # "shell"
  BY DEF Places
<1>3. TelnetWire' /\ ShellIsConsistent'
  BY <1>2 DEF TelnetWire, ShellIsConsistent
<1>4. LoginState'
  BY DEF ProvedInv, ServicesInv, LoginState, Early
<1> QED
  BY <1>1, <1>3, <1>4 DEF LoginsAreExplained

(* Redis, MySQL and the fingerprint mode of SSH. *)
LEMMA OtherStep ==
  ASSUME ProvedInv, pc # "closed", svc \in {"redis", "mysql", "ssh"}, svc' = svc,
         pc' \in Places \cup {"closed"}, Advances(sess'), Plainly(sess, sess'),
         sess'.authenticated = sess.authenticated, sess.authenticated => sess'.username = sess.username,
         files' = files, peer' \in PeerType(peer'), peer'.status = peer.status,
         svc = "redis" => loc' \in [turn : Nat, want : {loc'.want}, parts : {loc'.parts}]
  PROVE  ProvedInv'
<1>1. TelnetWire' /\ LoginState' /\ LoginsAreExplained'
  BY NoLoginStep DEF Advances
<1>2. InPlace' /\ RecordedAsServed'
  BY StoredStep
<1>3. FloodState' /\ FloodIsCut'
  BY DEF FloodState, FloodIsCut
<1>4. SessionOK(sess)' /\ (peer \in PeerType(peer))'
  BY DEF Advances, SessionOK, SessionType, PeerType, IsTuple, Elements
<1>5. LocShape'
  BY DEF LocShape
<1> QED
  BY <1>1, <1>2, <1>3, <1>4, <1>5 DEF ProvedInv, Shapes, ServicesInv

(* A session that a handler has taken on from the one of the last await. *)
Taken(s) == SessionOK(s) /\ Plainly(sess, s) /\ Same(sess, s) /\ s.bytes_in <= MaxBytes + 1

LEMMA TakenChain ==
  ASSUME ProvedInv, NEW s, Taken(s), NEW t, SessionOK(t), Plainly(s, t), Same(s, t), t.bytes_in = s.bytes_in
  PROVE  Taken(t)
<1>1. Plainly(sess, t)
  BY LongerChain DEF Taken, Plainly, ProvedInv, Shapes
<1> QED
  BY <1>1 DEF Taken, Same

LEMMA TakenFirst ==
  ASSUME ProvedInv, pc # "closed"
  PROVE  Taken(sess) /\ Taken(Counted(sess)) /\ sess.bytes_in <= MaxBytes
         /\ sess.bytes_in \in Nat
<1>1. SessionOK(sess) /\ sess.bytes_in \in Nat /\ sess.bytes_in <= MaxBytes /\ MaxBytes \in Nat
  BY ServiceAssumption DEF ProvedInv, Shapes, ServicesInv, InPlace, SessionOK, SessionType
<1>2. Taken(sess)
  BY <1>1, LogStays DEF Taken, Same
<1>3. Taken(Counted(sess))
  BY <1>1, CountedIs DEF Taken
<1> QED
  BY <1>1, <1>2, <1>3

(* handle_session ends with a session it has taken on. *)
LEMMA Ends ==
  ASSUME ProvedInv, pc # "closed", NEW s, Taken(s), NEW reason \in Reasons, Closes(s, reason)
  PROVE  /\ pc' = "closed" /\ svc' = svc /\ loc' = loc
         /\ Advances(sess') /\ Plainly(sess, sess') /\ Same(sess, sess')
<1>1. /\ pc' = "closed" /\ svc' = svc /\ loc' = loc
      /\ SessionOK(sess') /\ Plainly(s, sess') /\ Same(s, sess') /\ sess'.bytes_in = s.bytes_in
  BY ClosesIs DEF Taken
<1>2. Taken(sess')
  BY <1>1, TakenChain
<1> QED
  BY <1>1, <1>2 DEF Taken, Advances, Plainly

LEMMA GoesOn ==
  ASSUME ProvedInv, NEW s, Taken(s), s.bytes_in <= MaxBytes, NEW p, Goes(s, p)
  PROVE  /\ pc' = p /\ svc' = svc /\ sess' = s
         /\ Advances(sess') /\ Plainly(sess, sess') /\ Same(sess, sess')
BY ServiceAssumption DEF Taken, Advances, Plainly, Goes

LEMMA PlainEvents ==
  ASSUME NEW type, NEW user, NEW tags
  PROVE  /\ Event(type, user, tags).type = type /\ Event(type, user, tags).user = user
         /\ Event(type, user, tags).tags = tags /\ Event(type, user, tags).payload = None
BY DEF Event

(* A session taken on, with one more event. *)
LEMMA TakenRecord ==
  ASSUME ProvedInv, NEW s, Taken(s), NEW e, e.type \notin {"AUTH_SUCCESS", "FILE_UPLOAD"}
  PROVE  Taken(Record(s, e)) /\ Record(s, e).bytes_in = s.bytes_in
<1>1. /\ SessionOK(Record(s, e)) /\ Plainly(s, Record(s, e)) /\ Same(s, Record(s, e))
      /\ Record(s, e).bytes_in = s.bytes_in
  BY RecordIs DEF Taken
<1> QED
  BY <1>1, TakenChain

(* open() *)
LEMMA Opens ==
  ASSUME ProvedInv, NEW service, NEW first, NEW locals, Open(service, first, locals)
  PROVE  /\ svc = service /\ pc = "idle" /\ pc' = first /\ svc' = svc /\ loc' = locals
         /\ wire' = wire /\ files' = files /\ peer' = peer
         /\ Advances(sess') /\ Plainly(sess, sess') /\ Same(sess, sess')
<1>1. /\ svc = service /\ pc = "idle" /\ pc' = first /\ svc' = svc /\ loc' = locals
      /\ wire' = wire /\ files' = files /\ peer' = peer
      /\ sess' = Record(sess, Event("CONNECT", NoUser, {}))
  BY DEF Open
<1>2. Taken(sess) /\ sess.bytes_in <= MaxBytes
  BY <1>1, TakenFirst
<1>3. Taken(sess') /\ sess'.bytes_in = sess.bytes_in
  BY <1>1, <1>2, PlainEvents, TakenRecord
<1> QED
  BY <1>1, <1>2, <1>3 DEF Taken, Advances, Plainly

(* The bytes that may be counted at a read. *)
LEMMA ReadCounts ==
  ASSUME ProvedInv, NEW service, NEW p, CanRead(service, p), p # "closed"
  PROVE  /\ svc = service /\ pc = p /\ wire # <<>>
         /\ Taken(sess) /\ Taken(Counted(sess)) /\ Counted(sess).bytes_in <= MaxBytes
         /\ sess.bytes_in <= MaxBytes
         /\ \A data : Taken(CountedData(sess, data)) /\ CountedData(sess, data).bytes_in <= MaxBytes
<1>1. svc = service /\ pc = p /\ wire # <<>> /\ sess.bytes_in < MaxBytes
  BY DEF CanRead
<1>2. Taken(sess) /\ Taken(Counted(sess)) /\ sess.bytes_in <= MaxBytes /\ sess.bytes_in \in Nat
  BY <1>1, TakenFirst
<1>3. Counted(sess).bytes_in = sess.bytes_in + 1
  BY <1>2, CountedIs DEF Taken
<1>4. Counted(sess).bytes_in <= MaxBytes
  BY <1>1, <1>2, <1>3, ServiceAssumption
<1> QED
  BY <1>1, <1>2, <1>4 DEF CountedData

-----------------------------------------------------------------------------
(* The history of the peer *)

LEMMA HeardIs ==
  ASSUME NEW p, p \in PeerType(p), NEW h
  PROVE  LET q == [p EXCEPT !.heard = h] IN
         q \in PeerType(q) /\ q.unheard = p.unheard /\ q.status = p.status
BY DEF PeerType

LEMMA BrokenIs ==
  ASSUME NEW p, p \in PeerType(p), NEW b \in BOOLEAN
  PROVE  LET q == [p EXCEPT !.broken = b] IN
         q \in PeerType(q) /\ q.unheard = p.unheard /\ q.status = p.status
BY DEF PeerType

LEMMA StatusIs ==
  ASSUME NEW p, p \in PeerType(p), NEW h, NEW st
  PROVE  LET q == [p EXCEPT !.heard = h, !.status = st] IN
         q \in PeerType(q) /\ q.unheard = p.unheard /\ q.status = st
BY DEF PeerType

(* A peer that sends leaves all of it alone but the stream. *)
LEMMA SendingKeeps ==
  ASSUME ProvedInv, NEW service, NEW tokens, NEW meaning, NEW w,
         PeerSends(service, tokens, meaning, w), TelnetWire'
  PROVE  ProvedInv'
<1> DEFINE m == peer.meant \o meaning
           b == peer.broken \/ ~ w
<1>1. /\ peer' = [peer EXCEPT !.meant = m, !.broken = b] /\ b \in BOOLEAN
      /\ pc # "idle" /\ svc' = svc /\ pc' = pc /\ sess' = sess /\ loc' = loc /\ files' = files
  BY DEF PeerSends
<1>2. peer \in PeerType(peer)
  BY DEF ProvedInv, Shapes
<1> HIDE DEF m, b
<1>3. (peer \in PeerType(peer))' /\ peer'.unheard = peer.unheard /\ peer'.status = peer.status
  BY <1>1, <1>2 DEF PeerType
<1>4. SessionOK(sess)' /\ LocShape'
  BY <1>1 DEF ProvedInv, Shapes, SessionOK, SessionType, IsTuple, Elements, LocShape, ShellType
<1>5. Places' = Places
  BY <1>1, PlacesNext
<1>6. InPlace'
  BY <1>1, <1>5 DEF ProvedInv, ServicesInv, InPlace
<1>7. LoginState' /\ FloodState' /\ FloodIsCut'
  BY <1>1, <1>3 DEF ProvedInv, ServicesInv, LoginState, FloodState, FloodIsCut, Early, Succeeds, Is, Spent
<1>8. RecordedAsServed'
  BY <1>1, <1>3 DEF ProvedInv, ServicesInv, RecordedAsServed, TypeOK, StatusIsTrue, PayloadsAreReferenced, Spent
<1>9. LoginsAreExplained'
  BY <1>1 DEF ProvedInv, ServicesInv, LoginsAreExplained, LoginIsExplained, UploadsFollowLogin,
              ShellIsConsistent, Is, Spent
<1> QED
  BY <1>3, <1>4, <1>6, <1>7, <1>8, <1>9 DEF ProvedInv, Shapes, ServicesInv

LEMMA OthersSend ==
  ASSUME ProvedInv, NEW service, NEW tokens, NEW meaning, NEW w,
         PeerSends(service, tokens, meaning, w), service # "telnet"
  PROVE  ProvedInv'
<1>1. TelnetWire'
  BY DEF PeerSends, TelnetWire
<1> QED
  BY <1>1, SendingKeeps

-----------------------------------------------------------------------------
(* MySQL *)

LEMMA MySQLKeeps ==
  ASSUME ProvedInv, MySQLStep
  PROVE  ProvedInv'
<1>0. peer \in PeerType(peer)
  BY DEF ProvedInv, Shapes
<1>1. CASE MySQLOpen
  <2>1. /\ svc = "mysql" /\ pc = "idle" /\ pc' = "login" /\ svc' = svc
        /\ files' = files /\ peer' = peer
        /\ Advances(sess') /\ Plainly(sess, sess') /\ Same(sess, sess')
    BY <1>1, Opens DEF MySQLOpen
  <2>2. pc' \in Places
    BY <2>1 DEF Places
  <2> QED
    BY <1>0, <2>1, <2>2, OtherStep DEF Same
<1>2. CASE MySQLSends
  BY <1>2, OthersSend DEF MySQLSends, Sends
<1>3. CASE MySQLLogin
  <2>1. PICK r \in ReadBytes("mysql", "login") :
          LET name == parse_login_username(r[1])
              s == Counted(sess)
          IN
          /\ wire' = r[2] /\ UNCHANGED files
          /\ IF r[1] = <<>> THEN Closes(sess, "client") /\ UNCHANGED peer
             ELSE IF name # NoUser
             THEN /\ Closes(Record([s EXCEPT !.username = name], Event("AUTH_ATTEMPT", name, {})), "client")
                  /\ peer' = [peer EXCEPT !.heard = Append(@, name)]
             ELSE /\ Closes(Record(s, Event("ERROR", NoUser, {"mysql-malformed-login"})), "client")
                  /\ UNCHANGED peer
    BY <1>3 DEF MySQLLogin
  <2>2. CanRead("mysql", "login")
    BY DEF ReadBytes
  <2>3. /\ svc = "mysql" /\ pc = "login" /\ Taken(sess) /\ Taken(Counted(sess))
        /\ Counted(sess).bytes_in <= MaxBytes
    BY <2>2, ReadCounts
  <2> DEFINE name == parse_login_username(r[1])
             n == [Counted(sess) EXCEPT !.username = name]
             e == Event("AUTH_ATTEMPT", name, {})
             d == Event("ERROR", NoUser, {"mysql-malformed-login"})
             h == Append(peer.heard, name)
  <2>4. e.type = "AUTH_ATTEMPT" /\ d.type = "ERROR"
    BY DEF Event
  <2>5. /\ files' = files
        /\ \/ Closes(sess, "client") /\ peer' = peer
           \/ Closes(Record(n, e), "client") /\ peer' = [peer EXCEPT !.heard = h]
           \/ Closes(Record(Counted(sess), d), "client") /\ peer' = peer
    BY <2>1
  <2>6. ~ sess.authenticated /\ sess.authenticated \in BOOLEAN
    BY <2>3 DEF ProvedInv, ServicesInv, LoginState, Taken, SessionOK, SessionType
  <2> HIDE DEF e, d, h
  <2>7. peer' \in PeerType(peer') /\ peer'.status = peer.status
    BY <1>0, <2>5 DEF PeerType
  <2>8. CASE Closes(sess, "client") \/ Closes(Record(Counted(sess), d), "client")
    <3>1. Taken(Record(Counted(sess), d))
      BY <2>3, <2>4, TakenRecord
    <3>2. /\ pc' = "closed" /\ svc' = svc
          /\ Advances(sess') /\ Plainly(sess, sess') /\ Same(sess, sess')
      BY <2>3, <2>8, <3>1, Ends DEF Reasons
    <3> QED
      BY <2>3, <2>5, <2>7, <3>2, OtherStep DEF Same
  <2>9. CASE Closes(Record(n, e), "client")
    <3> DEFINE c == Counted(sess)
    <3>1. SessionOK(c) /\ Plainly(sess, c) /\ Same(sess, c) /\ c.bytes_in <= MaxBytes
      BY <2>3 DEF Taken
    <3> HIDE DEF c, name
    <3>2. n = [c EXCEPT !.username = name]
      BY DEF c
    <3> HIDE DEF n
    <3>3. /\ n \in SessionType(n) /\ n.log = c.log /\ n.event_count = c.event_count
          /\ n.authenticated = c.authenticated /\ n.bytes_in = c.bytes_in
      BY <3>1, <3>2 DEF SessionOK, SessionType
    <3>4. SessionOK(n) /\ Plainly(c, n)
      BY <3>1, <3>3, LogStays DEF SessionOK
    <3> DEFINE t == Record(n, e)
    <3>5. SessionOK(t) /\ Plainly(n, t) /\ Same(n, t) /\ t.bytes_in = n.bytes_in
      BY <2>4, <3>4, RecordIs
    <3> HIDE DEF t
    <3>6. /\ pc' = "closed" /\ svc' = svc
          /\ SessionOK(sess') /\ Plainly(t, sess') /\ Same(t, sess') /\ sess'.bytes_in = t.bytes_in
      <4>1. Closes(t, "client")
        BY <2>9 DEF t
      <4> QED
        BY <3>5, <4>1, ClosesIs DEF Reasons
    <3>7. SessionOK(sess)
      BY DEF ProvedInv, Shapes
    <3>8. Plainly(sess, n)
      BY <3>1, <3>4, <3>7, LongerChain DEF Plainly
    <3>9. Plainly(sess, t)
      BY <3>4, <3>5, <3>7, <3>8, LongerChain DEF Plainly
    <3>10. Plainly(sess, sess')
      BY <3>5, <3>6, <3>7, <3>9, LongerChain DEF Plainly
    <3>11. sess'.authenticated = sess.authenticated /\ sess'.bytes_in <= MaxBytes
      BY <3>1, <3>3, <3>5, <3>6 DEF Same
    <3>12. Advances(sess')
      BY <3>6, <3>10, <3>11, ServiceAssumption DEF Advances, Plainly, SessionOK, SessionType
    <3> QED
      BY <2>3, <2>5, <2>6, <2>7, <3>6, <3>10, <3>11, <3>12, OtherStep
  <2> QED
    BY <2>5, <2>8, <2>9
<1> QED
  BY <1>1, <1>2, <1>3 DEF MySQLStep

-----------------------------------------------------------------------------
(* The fingerprint mode of SSH *)

LEMMA FingerprintKeeps ==
  ASSUME ProvedInv, SshOpen \/ SshSends \/ SshBanner \/ SshPacket
  PROVE  ProvedInv'
<1>0. peer \in PeerType(peer)
  BY DEF ProvedInv, Shapes
<1>1. CASE SshOpen
  <2>1. /\ svc = "ssh" /\ pc = "idle" /\ pc' = "banner" /\ svc' = svc
        /\ files' = files /\ peer' = peer
        /\ Advances(sess') /\ Plainly(sess, sess') /\ Same(sess, sess')
    BY <1>1, Opens DEF SshOpen
  <2>2. pc' \in Places
    BY <2>1 DEF Places
  <2> QED
    BY <1>0, <2>1, <2>2, OtherStep DEF Same
<1>2. CASE SshSends
  BY <1>2, OthersSend DEF SshSends, Sends
<1>3. CASE SshBanner
  <2> DEFINE e == Event("CONNECT", NoUser, {"ssh-version-exchange"})
             t == Record(Counted(sess), e)
  <2>1. /\ CanRead("ssh", "banner") /\ Goes(t, "packet") /\ files' = files /\ peer' = peer
    BY <1>3 DEF SshBanner, ReadLine
  <2>2. e.type = "CONNECT"
    BY DEF Event
  <2> HIDE DEF e
  <2>3. /\ svc = "ssh" /\ pc = "banner" /\ Taken(Counted(sess)) /\ Counted(sess).bytes_in <= MaxBytes
    BY <2>1, ReadCounts
  <2>4. Taken(t) /\ t.bytes_in <= MaxBytes
    BY <2>2, <2>3, TakenRecord
  <2> HIDE DEF t
  <2>5. pc' = "packet" /\ svc' = svc /\ Advances(sess') /\ Plainly(sess, sess') /\ Same(sess, sess')
    BY <2>1, <2>4, GoesOn
  <2>6. pc' \in Places
    BY <2>3, <2>5 DEF Places
  <2> QED
    BY <1>0, <2>1, <2>3, <2>5, <2>6, OtherStep DEF Same
<1>4. CASE SshPacket
  <2> DEFINE e1 == Event("ERROR", NoUser, {"oversized-ssh-packet"})
             e2 == Event("CONNECT", NoUser, {"hassh"})
             e3 == Event("ERROR", NoUser, {"malformed-kexinit"})
  <2>1. /\ CanRead("ssh", "packet") /\ files' = files /\ peer' = peer
        /\ \/ Closes(Record(sess, e1), "client")
           \/ Closes(Counted(sess), "client")
           \/ Closes(Record(Counted(sess), e2), "client")
           \/ Closes(Record(Counted(sess), e3), "client")
    BY <1>4 DEF SshPacket
  <2>2. e1.type = "ERROR" /\ e2.type = "CONNECT" /\ e3.type = "ERROR"
    BY DEF Event
  <2> HIDE DEF e1, e2, e3
  <2>3. svc = "ssh" /\ pc = "packet" /\ Taken(sess) /\ Taken(Counted(sess))
    BY <2>1, ReadCounts
  <2>4. /\ Taken(Record(sess, e1)) /\ Taken(Record(Counted(sess), e2)) /\ Taken(Record(Counted(sess), e3))
    BY <2>2, <2>3, TakenRecord
  <2>5. /\ pc' = "closed" /\ svc' = svc
        /\ Advances(sess') /\ Plainly(sess, sess') /\ Same(sess, sess')
    BY <2>1, <2>3, <2>4, Ends DEF Reasons
  <2> QED
    BY <1>0, <2>1, <2>3, <2>5, OtherStep DEF Same
<1> QED
  BY <1>1, <1>2, <1>3, <1>4

-----------------------------------------------------------------------------
(* Redis *)

LEMMA RedisOther ==
  ASSUME ProvedInv, svc = "redis", svc' = svc, pc # "closed", pc' \in {"command", "bulk", "value", "closed"},
         Advances(sess'), Plainly(sess, sess'), Same(sess, sess'), files' = files,
         peer' \in PeerType(peer'), peer'.status = peer.status,
         loc' \in [turn : Nat, want : {loc'.want}, parts : {loc'.parts}]
  PROVE  ProvedInv'
<1>1. pc' \in Places \cup {"closed"}
  BY DEF Places
<1> QED
  BY <1>1, OtherStep DEF Same

LEMMA RedisLoc ==
  ASSUME ProvedInv, svc = "redis", pc # "idle"
  PROVE  loc \in [turn : Nat, want : {loc.want}, parts : {loc.parts}]
BY DEF ProvedInv, Shapes, LocShape

LEMMA NextCommandKeeps ==
  ASSUME ProvedInv, svc = "redis", pc \in {"command", "bulk", "value"},
         NEW s, Taken(s), s.bytes_in <= MaxBytes, NextCommand(s) \/ Closes(s, "client"), files' = files,
         peer' \in PeerType(peer'), peer'.status = peer.status
  PROVE  ProvedInv'
<1>1. loc \in [turn : Nat, want : {loc.want}, parts : {loc.parts}]
  BY RedisLoc
<1>2. CASE Closes(s, "client")
  <2>1. /\ pc' = "closed" /\ svc' = svc /\ loc' = loc
        /\ Advances(sess') /\ Plainly(sess, sess') /\ Same(sess, sess')
    BY <1>2, Ends DEF Reasons
  <2> QED
    BY <1>1, <2>1, RedisOther
<1>3. CASE Goes(s, "command") /\ loc' = Waits(loc.turn + 1)
  <2>1. pc' = "command" /\ svc' = svc /\ Advances(sess') /\ Plainly(sess, sess') /\ Same(sess, sess')
    BY <1>3, GoesOn
  <2>2. loc' \in [turn : Nat, want : {loc'.want}, parts : {loc'.parts}]
    BY <1>1, <1>3 DEF Waits
  <2> QED
    BY <2>1, <2>2, RedisOther
<1> QED
  BY <1>2, <1>3 DEF NextCommand

LEMMA RedisServesKeeps ==
  ASSUME ProvedInv, svc = "redis", pc \in {"command", "bulk", "value"},
         NEW s, Taken(s), s.bytes_in <= MaxBytes, NEW command,
         NEW p, p \in PeerType(p), p.status = peer.status, RedisServes(s, command, p), files' = files
  PROVE  ProvedInv'
<1> DEFINE verb == command[1]
           e1 == Event("AUTH_ATTEMPT", NoUser, {"password"})
           e2 == Event("COMMAND", NoUser, {verb})
           rp == Replies(p, s)
           h == Append(rp.heard, command)
           heard == [rp EXCEPT !.heard = h]
<1>1. \E t \in {s, Record(s, e1), Record(s, e2)} :
        /\ NextCommand(t) \/ Closes(t, "client")
        /\ peer' = p \/ peer' = heard
  BY DEF RedisServes
<1>2. e1.type = "AUTH_ATTEMPT" /\ e2.type = "COMMAND"
  BY DEF Event
<1> HIDE DEF e1, e2, h
<1>3. rp \in PeerType(rp) /\ rp.status = p.status
  BY RepliesIs
<1> HIDE DEF rp
<1>4. heard \in PeerType(heard) /\ heard.status = p.status
  BY <1>3, HeardIs
<1> HIDE DEF heard
<1>5. peer' \in PeerType(peer') /\ peer'.status = peer.status
  BY <1>1, <1>4
<1>6. \A t \in {s, Record(s, e1), Record(s, e2)} : Taken(t) /\ t.bytes_in <= MaxBytes
  BY <1>2, TakenRecord
<1> QED
  BY <1>1, <1>5, <1>6, NextCommandKeeps

LEMMA HasWordKeeps ==
  ASSUME ProvedInv, svc = "redis", pc = "value",
         NEW s, Taken(s), s.bytes_in <= MaxBytes, NEW word,
         NEW p, p \in PeerType(p), p.status = peer.status, HasWord(s, word, p), files' = files
  PROVE  ProvedInv'
<1> DEFINE parts == Append(loc.parts, word)
<1>1. \/ RedisServes(s, parts, p)
      \/ Goes(s, "bulk") /\ loc' = [loc EXCEPT !.parts = parts] /\ peer' = p
  BY DEF HasWord
<1> HIDE DEF parts
<1>2. CASE RedisServes(s, parts, p)
  BY <1>2, RedisServesKeeps
<1>3. CASE Goes(s, "bulk") /\ loc' = [loc EXCEPT !.parts = parts] /\ peer' = p
  <2>1. pc' = "bulk" /\ svc' = svc /\ Advances(sess') /\ Plainly(sess, sess') /\ Same(sess, sess')
    BY <1>3, GoesOn
  <2>2. loc \in [turn : Nat, want : {loc.want}, parts : {loc.parts}]
    BY RedisLoc
  <2>3. loc' \in [turn : Nat, want : {loc'.want}, parts : {loc'.parts}]
    BY <1>3, <2>2
  <2> QED
    BY <1>3, <2>1, <2>3, RedisOther
<1> QED
  BY <1>1, <1>2, <1>3

LEMMA RedisKeeps ==
  ASSUME ProvedInv, RedisStep
  PROVE  ProvedInv'
<1>0. peer \in PeerType(peer)
  BY DEF ProvedInv, Shapes
<1>1. CASE RedisOpen
  <2>1. /\ svc = "redis" /\ pc = "idle" /\ pc' = "command" /\ svc' = svc /\ loc' = Waits(1)
        /\ files' = files /\ peer' = peer
        /\ Advances(sess') /\ Plainly(sess, sess') /\ Same(sess, sess')
    BY <1>1, Opens DEF RedisOpen
  <2>2. loc' \in [turn : Nat, want : {loc'.want}, parts : {loc'.parts}]
    BY <2>1 DEF Waits
  <2> QED
    BY <1>0, <2>1, <2>2, RedisOther
<1>2. CASE RedisSends
  BY <1>2, OthersSend DEF RedisSends, Sends, SendsOdd
<1>3. CASE RedisCommandLine
  <2> DEFINE s == Counted(sess)
  <2>1. PICK r \in ReadLine("redis", "command") :
          /\ UNCHANGED files
          /\ \/ RedisServes(s, r[1], peer)
             \/ Goes(s, "bulk") /\ loc' = [loc EXCEPT !.want = r[1][2]] /\ UNCHANGED peer
             \/ RedisServes(s, <<>>, peer)
    BY <1>3 DEF RedisCommandLine
  <2>2. svc = "redis" /\ pc = "command" /\ Taken(s) /\ s.bytes_in <= MaxBytes
    BY ReadCounts DEF ReadLine
  <2> HIDE DEF s
  <2>3. CASE RedisServes(s, r[1], peer) \/ RedisServes(s, <<>>, peer)
    BY <1>0, <2>1, <2>2, <2>3, RedisServesKeeps
  <2>4. CASE Goes(s, "bulk") /\ loc' = [loc EXCEPT !.want = r[1][2]] /\ UNCHANGED peer
    <3>1. pc' = "bulk" /\ svc' = svc /\ Advances(sess') /\ Plainly(sess, sess') /\ Same(sess, sess')
      BY <2>2, <2>4, GoesOn
    <3>2. loc \in [turn : Nat, want : {loc.want}, parts : {loc.parts}]
      BY <2>2, RedisLoc
    <3>3. loc' \in [turn : Nat, want : {loc'.want}, parts : {loc'.parts}]
      BY <2>4, <3>2
    <3> QED
      BY <1>0, <2>1, <2>2, <2>4, <3>1, <3>3, RedisOther
  <2> QED
    BY <2>1, <2>3, <2>4
<1>4. CASE RedisBulk
  <2> DEFINE s == Counted(sess)
  <2>1. CASE \E r \in ReadLine("redis", "bulk") :
               /\ UNCHANGED files
               /\ \/ Goes(s, "value") /\ UNCHANGED <<loc, peer>>
                  \/ RedisServes(s, loc.parts, peer)
    <3>1. svc = "redis" /\ pc = "bulk" /\ Taken(s) /\ s.bytes_in <= MaxBytes
      BY <2>1, ReadCounts DEF ReadLine
    <3> HIDE DEF s
    <3>2. CASE RedisServes(s, loc.parts, peer)
      BY <1>0, <2>1, <3>1, <3>2, RedisServesKeeps
    <3>3. CASE Goes(s, "value") /\ UNCHANGED <<loc, peer>>
      <4>1. pc' = "value" /\ svc' = svc /\ Advances(sess') /\ Plainly(sess, sess') /\ Same(sess, sess')
        BY <3>1, <3>3, GoesOn
      <4>2. loc \in [turn : Nat, want : {loc.want}, parts : {loc.parts}]
        BY <3>1, RedisLoc
      <4> QED
        BY <1>0, <2>1, <3>1, <3>3, <4>1, <4>2, RedisOther
    <3> QED
      BY <2>1, <3>2, <3>3
  <2>2. CASE ReadsNone("redis", "bulk") /\ RedisServes(sess, loc.parts, peer) /\ UNCHANGED <<wire, files>>
    <3>1. svc = "redis" /\ pc = "bulk" /\ Taken(sess) /\ sess.bytes_in <= MaxBytes
      BY <2>2, TakenFirst DEF ReadsNone
    <3> QED
      BY <1>0, <2>2, <3>1, RedisServesKeeps
  <2> QED
    BY <1>4, <2>1, <2>2 DEF RedisBulk
<1>5. CASE RedisValue
  <2>1. CASE \E r \in ReadBytes("redis", "value") :
               /\ HasWord(CountedData(sess, r[1]), IF r[1] = <<>> THEN "" ELSE r[1][1],
                          [peer EXCEPT !.broken = @ \/ r[2] # Tail(wire)])
               /\ UNCHANGED files
    <3>1. PICK r \in ReadBytes("redis", "value") :
               /\ HasWord(CountedData(sess, r[1]), IF r[1] = <<>> THEN "" ELSE r[1][1],
                          [peer EXCEPT !.broken = @ \/ r[2] # Tail(wire)])
               /\ UNCHANGED files
      BY <2>1
    <3> DEFINE s == CountedData(sess, r[1])
               word == IF r[1] = <<>> THEN "" ELSE r[1][1]
               b == peer.broken \/ r[2] # Tail(wire)
               p == [peer EXCEPT !.broken = b]
    <3>2. HasWord(s, word, p) /\ b \in BOOLEAN
      BY <3>1
    <3>3. svc = "redis" /\ pc = "value" /\ Taken(s) /\ s.bytes_in <= MaxBytes
      BY ReadCounts DEF ReadBytes
    <3> HIDE DEF s, word, b
    <3>4. p \in PeerType(p) /\ p.status = peer.status
      BY <1>0, <3>2, BrokenIs
    <3> HIDE DEF p
    <3> QED
      BY <3>1, <3>2, <3>3, <3>4, HasWordKeeps
  <2>2. CASE ReadsNone("redis", "value") /\ HasWord(sess, "", peer) /\ UNCHANGED <<wire, files>>
    <3>1. svc = "redis" /\ pc = "value" /\ Taken(sess) /\ sess.bytes_in <= MaxBytes
      BY <2>2, TakenFirst DEF ReadsNone
    <3> QED
      BY <1>0, <2>2, <3>1, HasWordKeeps
  <2> QED
    BY <1>5, <2>1, <2>2 DEF RedisValue
<1> QED
  BY <1>1, <1>2, <1>3, <1>4, <1>5 DEF RedisStep

-----------------------------------------------------------------------------
(* HTTP and Docker *)

WebLoc(q) == q \in [turn : Nat, path : {q.path}, version : {q.version}, seen : Nat, headers : {q.headers}]

LEMMA NextTurn ==
  ASSUME NEW q, WebLoc(q)
  PROVE  WebLoc([NewRequest EXCEPT !.turn = q.turn + 1])
<1> DEFINE n == q.turn + 1
<1>1. n \in Nat
  BY DEF WebLoc
<1> HIDE DEF n
<1>2. WebLoc([NewRequest EXCEPT !.turn = n])
  BY <1>1 DEF WebLoc, NewRequest
<1> QED
  BY <1>2 DEF n

LEMMA NextHeader ==
  ASSUME NEW q, WebLoc(q), NEW h
  PROVE  WebLoc([q EXCEPT !.seen = @ + 1, !.headers = @ \cup {h}])
<1> DEFINE n == q.seen + 1
           hs == q.headers \cup {h}
<1>1. n \in Nat
  BY DEF WebLoc
<1> HIDE DEF n, hs
<1>2. WebLoc([q EXCEPT !.seen = n, !.headers = hs])
  BY <1>1 DEF WebLoc
<1> QED
  BY <1>2 DEF n, hs

LEMMA WebStep ==
  ASSUME ProvedInv, pc # "closed", svc \in {"http", "docker"}, svc' = svc,
         pc' \in {"request", "headers", "body", "closed"}, Advances(sess'), Plainly(sess, sess'),
         Same(sess, sess'), StatusIsTrue', PayloadsAreReferenced',
         peer' \in PeerType(peer'), WebLoc(loc'),
         svc = "docker" => peer'.unheard = 0,
         svc = "http" => peer'.unheard \in {0, 1} /\ (pc' # "closed" => peer'.unheard = 0)
  PROVE  ProvedInv'
<1>0. pc' \in Places \cup {"closed"}
  BY DEF Places
<1>1. TelnetWire' /\ LoginState' /\ LoginsAreExplained'
  BY <1>0, NoLoginStep DEF Advances, Same
<1>2. InPlace' /\ RecordedAsServed'
  BY <1>0, TypeStep DEF RecordedAsServed
<1>3. FloodState' /\ FloodIsCut'
  BY DEF FloodState, FloodIsCut
<1>4. SessionOK(sess)' /\ (peer \in PeerType(peer))'
  BY DEF Advances, SessionOK, SessionType, PeerType, IsTuple, Elements
<1>5. LocShape'
  BY DEF LocShape, WebLoc
<1> QED
  BY <1>1, <1>2, <1>3, <1>4, <1>5 DEF ProvedInv, Shapes, ServicesInv

LEMMA WebFacts ==
  ASSUME ProvedInv, pc # "closed", svc \in {"http", "docker"}
  PROVE  peer \in PeerType(peer) /\ peer.unheard = 0 /\ StatusIsTrue /\ (pc # "idle" => WebLoc(loc))
BY DEF ProvedInv, Shapes, ServicesInv, FloodState, FloodIsCut, LocShape, WebLoc, RecordedAsServed

(* A step that answers nothing, or whose answer was recorded before. *)
LEMMA WebQuiet ==
  ASSUME ProvedInv, pc # "closed", svc \in {"http", "docker"}, svc' = svc,
         pc' \in {"request", "headers", "body", "closed"}, Advances(sess'), Plainly(sess, sess'),
         Same(sess, sess'), files' = files, peer' \in PeerType(peer'), peer'.unheard = 0,
         peer'.status = peer.status, WebLoc(loc')
  PROVE  ProvedInv'
<1>1. StatusIsTrue'
  BY WebFacts DEF StatusIsTrue
<1>2. PayloadsAreReferenced'
  BY PayloadsStay
<1> QED
  BY <1>1, <1>2, WebStep

LEMMA WebCloses ==
  ASSUME ProvedInv, pc \notin {"idle", "closed"}, svc \in {"http", "docker"}, NEW s, Taken(s),
         NEW reason \in Reasons, Closes(s, reason), files' = files,
         peer' \in PeerType(peer'), peer'.unheard = 0, peer'.status = peer.status
  PROVE  ProvedInv'
<1>1. /\ pc' = "closed" /\ svc' = svc /\ loc' = loc
      /\ Advances(sess') /\ Plainly(sess, sess') /\ Same(sess, sess')
  BY Ends
<1>2. WebLoc(loc)
  BY WebFacts
<1> QED
  BY <1>1, <1>2, WebQuiet

LEMMA WebGoes ==
  ASSUME ProvedInv, pc # "closed", svc \in {"http", "docker"}, NEW s, Taken(s), s.bytes_in <= MaxBytes,
         NEW p \in {"request", "headers", "body"}, Goes(s, p), WebLoc(loc'), UNCHANGED <<files, peer>>
  PROVE  ProvedInv'
<1>1. /\ pc' = p /\ svc' = svc
      /\ Advances(sess') /\ Plainly(sess, sess') /\ Same(sess, sess')
  BY GoesOn
<1>2. peer \in PeerType(peer) /\ peer.unheard = 0
  BY WebFacts
<1> QED
  BY <1>1, <1>2, WebQuiet

(* The last event of a session that had room for it. *)
LEMMA LastEvent ==
  ASSUME NEW s, SessionOK(s), ~ Spent(s), NEW e
  PROVE  LET t == Record(s, e) IN
         Len(t.log) \in DOMAIN t.log /\ t.log[Len(t.log)] = e
<1> DEFINE t == Record(s, e)
           n == Len(s.log)
<1>1. t.log = Append(s.log, e) /\ IsTuple(s.log)
  BY RecordIs DEF SessionOK
<1>2. /\ Len(t.log) = n + 1 /\ t.log[n + 1] = e
      /\ DOMAIN t.log = 1 .. n + 1 /\ n \in Nat
  BY <1>1, TupleAppend, TupleFacts
<1> HIDE DEF t, n
<1>3. n + 1 \in 1 .. n + 1
  BY <1>2
<1>4. Len(t.log) \in DOMAIN t.log /\ t.log[Len(t.log)] = e
  BY <1>2, <1>3
<1> QED
  BY <1>4 DEF t

(* What a closing or continuing session keeps of the one at hand. *)
LEMMA GrowsFrom ==
  ASSUME NEW u, SessionOK(u), NEW i \in DOMAIN u.log, NEW v, SessionOK(v), Longer(u, v)
  PROVE  i \in DOMAIN v.log /\ v.log[i] = u.log[i]
<1>1. /\ Len(u.log) \in Nat /\ DOMAIN u.log = 1 .. Len(u.log)
      /\ Len(v.log) \in Nat /\ DOMAIN v.log = 1 .. Len(v.log)
  BY TupleFacts DEF SessionOK
<1> QED
  BY <1>1 DEF Longer

LEMMA HttpEventIs ==
  ASSUME NEW path, NEW body
  PROVE  LET e == HttpEvent(path, body) IN
         /\ e.type = "HTTP_REQUEST" /\ e.status = http_response_for(path)
         /\ body # <<>> => e.payload = body
<1> DEFINE b == IF body = <<>> THEN None ELSE body
           st == http_response_for(path)
           e == HttpEvent(path, body)
<1>1. e = [Event("HTTP_REQUEST", NoUser, {}) EXCEPT !.status = st, !.payload = b]
  BY DEF HttpEvent
<1>2. body # <<>> => b = body
  OBVIOUS
<1> HIDE DEF b, st
<1>3. e.type = "HTTP_REQUEST" /\ e.status = st /\ e.payload = b
  BY <1>1 DEF Event
<1> QED
  BY <1>2, <1>3 DEF st

LEMMA HttpHandlesKeeps ==
  ASSUME ProvedInv, svc = "http", pc \in {"headers", "body"},
         NEW s, Taken(s), s.bytes_in <= MaxBytes, NEW q, WebLoc(q), NEW body,
         NEW p, p \in PeerType(p), p.status = peer.status, p.unheard = 0, HttpHandles(s, q, body, p)
  PROVE  ProvedInv'
<1> DEFINE a == Event("AUTH_ATTEMPT", <<"form">>, {"password"})
           t == IF HasCredentials(q.headers, body) THEN Record(s, a) ELSE s
           e == HttpEvent(q.path, body)
           u == Record(t, e)
           rp == Replies(p, t)
           h == IF Spent(t) THEN rp.heard ELSE Append(rp.heard, <<q.path, body>>)
           st == IF Spent(t) THEN rp.status ELSE <<u.log[Len(u.log)].status, http_response_for(q.path)>>
           stop == Spent(t) \/ ~ KeepAlive(q) \/ q.turn = MaxRequests
<1>1. /\ files' = files \cup ({body} \ {<<>>})
      /\ peer' = [rp EXCEPT !.heard = h, !.status = st]
      /\ IF stop THEN Closes(u, "client")
         ELSE Goes(u, "request") /\ loc' = [NewRequest EXCEPT !.turn = q.turn + 1]
  BY DEF HttpHandles
<1>2. a.type = "AUTH_ATTEMPT" /\ e.type = "HTTP_REQUEST" /\ e.status = http_response_for(q.path)
      /\ (body # <<>> => e.payload = body)
  BY HttpEventIs DEF Event
<1> HIDE DEF a, e
<1>3. Taken(t) /\ t.bytes_in <= MaxBytes
  BY <1>2, TakenRecord
<1> HIDE DEF t
<1>4. Taken(u) /\ u.bytes_in <= MaxBytes
  BY <1>2, <1>3, TakenRecord
<1>5. /\ rp \in PeerType(rp) /\ rp.status = p.status /\ rp.unheard \in {0, 1}
      /\ ~ Spent(t) => rp.unheard = 0
  BY RepliesIs
<1>6. ~ Spent(t) => Len(u.log) \in DOMAIN u.log /\ u.log[Len(u.log)] = e
  BY <1>3, LastEvent DEF Taken
<1>7. ~ Spent(t) => st = <<http_response_for(q.path), http_response_for(q.path)>>
  BY <1>2, <1>6
<1>8. Spent(t) => st = rp.status
  OBVIOUS
<1>9. Spent(t) => Spent(u)
  BY <1>3, RecordIs DEF Taken, Longer
<1> HIDE DEF rp, h, st, u
<1>10. peer' \in PeerType(peer') /\ peer'.unheard = rp.unheard /\ peer'.status = st
  BY <1>1, <1>5 DEF PeerType
<1>11. StatusIsTrue'
  BY <1>5, <1>7, <1>8, <1>10, WebFacts DEF StatusIsTrue
<1>12. ASSUME SessionOK(sess'), Longer(u, sess'), Advances(sess'), Spent(t) => pc' = "closed"
       PROVE  PayloadsAreReferenced'
  <2> SUFFICES ASSUME NEW b \in files'
               PROVE  \/ \E i \in DOMAIN sess'.log : sess'.log[i].payload = b
                      \/ Spent(sess') /\ pc' = "closed"
    BY DEF PayloadsAreReferenced, Spent
  <2>1. CASE b \in files
    BY <1>12, <2>1, OldPayloads
  <2>2. CASE b \notin files /\ Spent(t)
    BY <1>9, <1>12, <2>2 DEF Longer
  <2>3. CASE b \notin files /\ ~ Spent(t)
    <3>1. b = body /\ e.payload = b
      BY <1>1, <1>2, <2>3
    <3>2. PICK i \in DOMAIN u.log : u.log[i] = e
      BY <1>6, <2>3
    <3>3. i \in DOMAIN sess'.log /\ sess'.log[i] = e
      BY <1>4, <1>12, <3>2, GrowsFrom DEF Taken
    <3> QED
      BY <3>1, <3>3
  <2> QED
    BY <2>1, <2>2, <2>3
<1>13. WebLoc(loc)
  BY WebFacts
<1>14. CASE stop
  <2>1. Closes(u, "client")
    BY <1>1, <1>14
  <2>2. /\ pc' = "closed" /\ svc' = svc /\ loc' = loc
        /\ Advances(sess') /\ Plainly(sess, sess') /\ Same(sess, sess')
    BY <1>4, <2>1, Ends DEF Reasons
  <2>3. SessionOK(sess') /\ Longer(u, sess')
    BY <1>4, <2>1, ClosesIs DEF Reasons, Taken, Plainly
  <2>4. PayloadsAreReferenced'
    BY <1>12, <2>2, <2>3
  <2> QED
    BY <1>5, <1>10, <1>11, <1>13, <2>2, <2>4, WebStep
<1>15. CASE ~ stop
  <2>1. Goes(u, "request") /\ loc' = [NewRequest EXCEPT !.turn = q.turn + 1] /\ ~ Spent(t)
    BY <1>1, <1>15
  <2>2. /\ pc' = "request" /\ svc' = svc /\ sess' = u
        /\ Advances(sess') /\ Plainly(sess, sess') /\ Same(sess, sess')
    BY <1>4, <2>1, GoesOn
  <2>3. SessionOK(sess') /\ Longer(u, sess')
    BY <1>4, <2>2, LogStays DEF Taken
  <2>4. PayloadsAreReferenced'
    BY <1>12, <2>1, <2>2, <2>3
  <2>5. WebLoc(loc')
    BY <2>1, NextTurn
  <2> QED
    BY <1>5, <1>10, <1>11, <2>1, <2>2, <2>4, <2>5, WebStep
<1> QED
  BY <1>14, <1>15

LEMMA HttpBodyNextKeeps ==
  ASSUME ProvedInv, svc = "http", pc = "headers",
         NEW s, Taken(s), s.bytes_in <= MaxBytes, NEW q, WebLoc(q), HttpBodyNext(s, q)
  PROVE  ProvedInv'
<1>1. peer \in PeerType(peer) /\ peer.unheard = 0
  BY WebFacts
<1>2. \/ Closes(s, "error") /\ UNCHANGED <<files, peer>>
      \/ Goes(s, "body") /\ loc' = q /\ UNCHANGED <<files, peer>>
      \/ HttpHandles(s, q, <<>>, peer)
  BY DEF HttpBodyNext
<1>3. CASE Closes(s, "error") /\ UNCHANGED <<files, peer>>
  BY <1>1, <1>3, WebCloses DEF Reasons
<1>4. CASE Goes(s, "body") /\ loc' = q /\ UNCHANGED <<files, peer>>
  BY <1>4, WebGoes
<1>5. CASE HttpHandles(s, q, <<>>, peer)
  BY <1>1, <1>5, HttpHandlesKeeps
<1> QED
  BY <1>2, <1>3, <1>4, <1>5

LEMMA HttpMalformedKeeps ==
  ASSUME ProvedInv, svc = "http", pc \in {"request", "headers"}, NEW s, Taken(s), HttpMalformed(s)
  PROVE  ProvedInv'
<1> DEFINE e == Event("ERROR", NoUser, {"malformed-http"})
           u == Record(s, e)
           rp == Replies(peer, s)
<1>1. Closes(u, "client") /\ peer' = [rp EXCEPT !.status = <<400, 400>>] /\ files' = files
  BY DEF HttpMalformed
<1>2. e.type = "ERROR"
  BY DEF Event
<1> HIDE DEF e
<1>3. Taken(u)
  BY <1>2, TakenRecord
<1> HIDE DEF u
<1>4. /\ pc' = "closed" /\ svc' = svc /\ loc' = loc
      /\ Advances(sess') /\ Plainly(sess, sess') /\ Same(sess, sess')
  BY <1>1, <1>3, Ends DEF Reasons
<1>5. peer \in PeerType(peer) /\ peer.unheard = 0 /\ WebLoc(loc)
  BY WebFacts
<1>6. rp \in PeerType(rp) /\ rp.unheard \in {0, 1}
  BY <1>5, RepliesIs
<1> HIDE DEF rp
<1>7. peer' \in PeerType(peer') /\ peer'.unheard = rp.unheard /\ peer'.status = <<400, 400>>
  BY <1>1, <1>6 DEF PeerType
<1>8. StatusIsTrue'
  BY <1>7 DEF StatusIsTrue
<1>9. PayloadsAreReferenced'
  BY <1>1, <1>4, PayloadsStay
<1> QED
  BY <1>4, <1>5, <1>6, <1>7, <1>8, <1>9, WebStep

LEMMA HttpKeeps ==
  ASSUME ProvedInv, HttpStep
  PROVE  ProvedInv'
<1>1. CASE HttpOpen
  <2>1. /\ svc = "http" /\ pc = "idle" /\ pc' = "request" /\ svc' = svc /\ loc' = NewRequest
        /\ files' = files /\ peer' = peer
        /\ Advances(sess') /\ Plainly(sess, sess') /\ Same(sess, sess')
    BY <1>1, Opens DEF HttpOpen
  <2>2. WebLoc(loc')
    BY <2>1 DEF WebLoc, NewRequest
  <2>3. peer \in PeerType(peer) /\ peer.unheard = 0
    BY <2>1, WebFacts
  <2> QED
    BY <2>1, <2>2, <2>3, WebQuiet
<1>2. CASE SendsRequest("http", Requests)
  BY <1>2, OthersSend DEF SendsRequest, SendsOdd
<1>3. CASE HttpRequestLine
  <2> DEFINE s == Counted(sess)
  <2>1. PICK r \in ReadLine("http", "request") :
          \/ Closes(s, "client") /\ UNCHANGED <<files, peer>>
          \/ /\ Goes(s, "headers")
             /\ loc' = [loc EXCEPT !.path = IF r[1] = Junk THEN "junk" ELSE r[1][2],
                                   !.version = IF r[1] = Junk THEN "1.1" ELSE r[1][3]]
             /\ UNCHANGED <<files, peer>>
          \/ HttpMalformed(s)
    BY <1>3 DEF HttpRequestLine
  <2>2. svc = "http" /\ pc = "request" /\ Taken(s) /\ s.bytes_in <= MaxBytes
    BY ReadCounts DEF ReadLine
  <2> HIDE DEF s
  <2>3. peer \in PeerType(peer) /\ peer.unheard = 0 /\ WebLoc(loc)
    BY <2>2, WebFacts
  <2>4. CASE Closes(s, "client") /\ UNCHANGED <<files, peer>>
    BY <2>2, <2>3, <2>4, WebCloses DEF Reasons
  <2>5. CASE /\ Goes(s, "headers")
             /\ loc' = [loc EXCEPT !.path = IF r[1] = Junk THEN "junk" ELSE r[1][2],
                                   !.version = IF r[1] = Junk THEN "1.1" ELSE r[1][3]]
             /\ UNCHANGED <<files, peer>>
    <3>1. WebLoc(loc')
      BY <2>3, <2>5 DEF WebLoc
    <3> QED
      BY <2>2, <2>5, <3>1, WebGoes
  <2>6. CASE HttpMalformed(s)
    BY <2>2, <2>6, HttpMalformedKeeps
  <2> QED
    BY <2>1, <2>4, <2>5, <2>6
<1>4. CASE HttpHeader
  <2> DEFINE s == Counted(sess)
  <2>1. PICK r \in ReadLine("http", "headers") :
          \E q \in {loc, [loc EXCEPT !.seen = @ + 1, !.headers = @ \cup {r[1][Len(r[1])]}]} :
            \/ HttpBodyNext(s, q)
            \/ Goes(s, "headers") /\ loc' = q /\ UNCHANGED <<files, peer>>
            \/ HttpMalformed(s)
    BY <1>4 DEF HttpHeader
  <2>2. svc = "http" /\ pc = "headers" /\ Taken(s) /\ s.bytes_in <= MaxBytes
    BY ReadCounts DEF ReadLine
  <2> HIDE DEF s
  <2>3. WebLoc(loc)
    BY <2>2, WebFacts
  <2>4. PICK q \in {loc, [loc EXCEPT !.seen = @ + 1, !.headers = @ \cup {r[1][Len(r[1])]}]} :
            \/ HttpBodyNext(s, q)
            \/ Goes(s, "headers") /\ loc' = q /\ UNCHANGED <<files, peer>>
            \/ HttpMalformed(s)
    BY <2>1
  <2>5. WebLoc(q)
    <3> DEFINE g == [loc EXCEPT !.seen = @ + 1, !.headers = @ \cup {r[1][Len(r[1])]}]
    <3>1. WebLoc(g)
      BY <2>3, NextHeader
    <3>2. q = loc \/ q = g
      OBVIOUS
    <3> HIDE DEF g
    <3> QED
      BY <2>3, <3>1, <3>2
  <2>6. CASE HttpBodyNext(s, q)
    BY <2>2, <2>5, <2>6, HttpBodyNextKeeps
  <2>7. CASE Goes(s, "headers") /\ loc' = q /\ UNCHANGED <<files, peer>>
    BY <2>2, <2>5, <2>7, WebGoes
  <2>8. CASE HttpMalformed(s)
    BY <2>2, <2>8, HttpMalformedKeeps
  <2> QED
    BY <2>4, <2>6, <2>7, <2>8
<1>5. CASE HttpCut
  <2>1. /\ svc = "http" /\ pc \in {"headers", "body"}
        /\ \/ pc = "headers" /\ HttpBodyNext(sess, loc)
           \/ HttpHandles(sess, loc, <<>>, peer)
    BY <1>5 DEF HttpCut, ReadsNone
  <2>2. Taken(sess) /\ sess.bytes_in <= MaxBytes
    BY <2>1, TakenFirst
  <2>3. peer \in PeerType(peer) /\ peer.unheard = 0 /\ WebLoc(loc)
    BY <2>1, WebFacts
  <2> QED
    BY <2>1, <2>2, <2>3, HttpBodyNextKeeps, HttpHandlesKeeps
<1>6. CASE HttpBody
  <2>1. PICK r \in ReadBytes("http", "body") :
          HttpHandles(CountedData(sess, r[1]), loc, r[1], [peer EXCEPT !.broken = @ \/ r[2] # Tail(wire)])
    BY <1>6 DEF HttpBody
  <2> DEFINE s == CountedData(sess, r[1])
             b == peer.broken \/ r[2] # Tail(wire)
             p == [peer EXCEPT !.broken = b]
  <2>2. HttpHandles(s, loc, r[1], p) /\ b \in BOOLEAN
    BY <2>1
  <2>3. svc = "http" /\ pc = "body" /\ Taken(s) /\ s.bytes_in <= MaxBytes
    BY ReadCounts DEF ReadBytes
  <2>4. peer \in PeerType(peer) /\ peer.unheard = 0 /\ WebLoc(loc)
    BY <2>3, WebFacts
  <2> HIDE DEF s, b
  <2>5. p \in PeerType(p) /\ p.status = peer.status /\ p.unheard = 0
    BY <2>2, <2>4, BrokenIs
  <2> HIDE DEF p
  <2> QED
    BY <2>2, <2>3, <2>4, <2>5, HttpHandlesKeeps
<1> QED
  BY <1>1, <1>2, <1>3, <1>4, <1>5, <1>6 DEF HttpStep

LEMMA DockerStatus ==
  ASSUME NEW path
  PROVE  LET r == Route(path) IN
         Status_for(r) = Responds(r) \/ (Status_for(r) = 200 /\ Responds(r) = 201)
<1> DEFINE r == Route(path)
<1>1. r \in Routes \cup {"other"}
  BY DEF Route
<1> HIDE DEF r
<1>2. r \in {"ping", "version", "info", "containers-list", "images-list", "containers-create",
             "containers-start", "containers-exec", "exec-start", "images-create", "other"}
  BY <1>1 DEF Routes, Recon
<1>3. r \in {"ping", "version", "info", "containers-list", "images-list", "images-create"}
        => Status_for(r) = 200 /\ Responds(r) = 200
  BY DEF Status_for, Responds, Recon
<1>4. (r = "containers-create" => Status_for(r) = 201) /\ (r = "containers-exec" => Status_for(r) = 200)
  BY DEF Status_for
<1>5. r \in {"containers-create", "containers-exec"} => Responds(r) = 201
  BY DEF Responds, Recon
<1>6. r \in {"containers-start", "exec-start"} => Status_for(r) = 204 /\ Responds(r) = 204
  BY DEF Status_for, Responds, Recon
<1>7. r = "other" => Status_for(r) = 404 /\ Responds(r) = 404
  BY DEF Status_for, Responds, Recon
<1>8. Status_for(r) = Responds(r) \/ (Status_for(r) = 200 /\ Responds(r) = 201)
  BY <1>2, <1>3, <1>4, <1>5, <1>6, <1>7
<1> QED
  BY <1>8 DEF r

LEMMA DockerHandlesKeeps ==
  ASSUME ProvedInv, svc = "docker", pc \in {"headers", "body"},
         NEW s, Taken(s), s.bytes_in <= MaxBytes, NEW q, WebLoc(q), NEW body,
         NEW p, p \in PeerType(p), p.status = peer.status, p.unheard = 0, DockerHandles(s, q, body, p)
  PROVE  ProvedInv'
<1> DEFINE route == Route(q.path)
           sf == Status_for(route)
           rs == Responds(route)
           e == [Event("HTTP_REQUEST", NoUser, AssessTags(route)) EXCEPT !.status = sf]
           t == Record(s, e)
           h == Append(p.heard, <<q.path, body>>)
           st == <<t.log[Len(t.log)].status, rs>>
<1>1. /\ files' = files
      /\ \/ Closes(s, "error") /\ peer' = p
         \/ Closes(s, "client") /\ peer' = p
         \/ /\ ~ Spent(s) /\ peer' = [p EXCEPT !.heard = h, !.status = st]
            /\ \/ Closes(t, "client")
               \/ Goes(t, "request") /\ loc' = [NewRequest EXCEPT !.turn = q.turn + 1]
  BY DEF DockerHandles
<1>2. sf = rs \/ (sf = 200 /\ rs = 201)
  BY DockerStatus
<1> HIDE DEF route, sf, rs
<1>3. e.type = "HTTP_REQUEST" /\ e.status = sf
  BY DEF Event
<1> HIDE DEF e
<1>4. Taken(t) /\ t.bytes_in <= MaxBytes
  BY <1>3, TakenRecord
<1>5. ~ Spent(s) => st = <<sf, rs>>
  BY <1>3, LastEvent DEF Taken
<1> HIDE DEF t, h, st
<1>6. CASE \E reason \in {"error", "client"} : Closes(s, reason) /\ peer' = p
  BY <1>1, <1>6, WebCloses DEF Reasons
<1>7. CASE /\ ~ Spent(s) /\ peer' = [p EXCEPT !.heard = h, !.status = st]
           /\ \/ Closes(t, "client")
              \/ Goes(t, "request") /\ loc' = [NewRequest EXCEPT !.turn = q.turn + 1]
  <2>1. peer' \in PeerType(peer') /\ peer'.unheard = 0 /\ peer'.status = <<sf, rs>>
    BY <1>5, <1>7 DEF PeerType
  <2>2. StatusIsTrue' \/ svc' # svc
    BY <1>2, <2>1 DEF StatusIsTrue
  <2>3. CASE Closes(t, "client")
    <3>1. /\ pc' = "closed" /\ svc' = svc /\ loc' = loc
          /\ Advances(sess') /\ Plainly(sess, sess') /\ Same(sess, sess')
      BY <1>4, <2>3, Ends DEF Reasons
    <3>2. PayloadsAreReferenced' /\ WebLoc(loc)
      BY <1>1, <3>1, PayloadsStay, WebFacts
    <3> QED
      BY <2>1, <2>2, <3>1, <3>2, WebStep
  <2>4. CASE Goes(t, "request") /\ loc' = [NewRequest EXCEPT !.turn = q.turn + 1]
    <3>1. /\ pc' = "request" /\ svc' = svc
          /\ Advances(sess') /\ Plainly(sess, sess') /\ Same(sess, sess')
      BY <1>4, <2>4, GoesOn
    <3>2. PayloadsAreReferenced' /\ WebLoc(loc')
      BY <1>1, <2>4, <3>1, PayloadsStay, NextTurn
    <3> QED
      BY <2>1, <2>2, <3>1, <3>2, WebStep
  <2> QED
    BY <1>7, <2>3, <2>4
<1> QED
  BY <1>1, <1>6, <1>7

LEMMA DockerBodyNextKeeps ==
  ASSUME ProvedInv, svc = "docker", pc = "headers",
         NEW s, Taken(s), s.bytes_in <= MaxBytes, NEW q, WebLoc(q), DockerBodyNext(s, q)
  PROVE  ProvedInv'
<1>1. peer \in PeerType(peer) /\ peer.unheard = 0
  BY WebFacts
<1>2. CASE Goes(s, "body") /\ loc' = q /\ UNCHANGED <<files, peer>>
  BY <1>2, WebGoes
<1>3. CASE DockerHandles(s, q, <<>>, peer)
  BY <1>1, <1>3, DockerHandlesKeeps
<1> QED
  BY <1>2, <1>3 DEF DockerBodyNext

LEMMA DockerKeeps ==
  ASSUME ProvedInv, DockerStep
  PROVE  ProvedInv'
<1>1. CASE DockerOpen
  <2>1. /\ svc = "docker" /\ pc = "idle" /\ pc' = "request" /\ svc' = svc /\ loc' = NewRequest
        /\ files' = files /\ peer' = peer
        /\ Advances(sess') /\ Plainly(sess, sess') /\ Same(sess, sess')
    BY <1>1, Opens DEF DockerOpen
  <2>2. WebLoc(loc')
    BY <2>1 DEF WebLoc, NewRequest
  <2>3. peer \in PeerType(peer) /\ peer.unheard = 0
    BY <2>1, WebFacts
  <2> QED
    BY <2>1, <2>2, <2>3, WebQuiet
<1>2. CASE SendsRequest("docker", DockerRequests)
  BY <1>2, OthersSend DEF SendsRequest, SendsOdd
<1>3. CASE DockerRequestLine
  <2> DEFINE s == Counted(sess)
  <2>1. PICK r \in ReadLine("docker", "request") :
          /\ UNCHANGED <<files, peer>>
          /\ \/ Closes(s, "client")
             \/ /\ Goes(s, "headers")
                /\ loc' = [loc EXCEPT !.path = IF r[1] = Junk THEN "junk" ELSE r[1][2]]
    BY <1>3 DEF DockerRequestLine
  <2>2. svc = "docker" /\ pc = "request" /\ Taken(s) /\ s.bytes_in <= MaxBytes
    BY ReadCounts DEF ReadLine
  <2> HIDE DEF s
  <2>3. peer \in PeerType(peer) /\ peer.unheard = 0 /\ WebLoc(loc)
    BY <2>2, WebFacts
  <2>4. CASE Closes(s, "client")
    BY <2>1, <2>2, <2>3, <2>4, WebCloses DEF Reasons
  <2>5. CASE /\ Goes(s, "headers")
             /\ loc' = [loc EXCEPT !.path = IF r[1] = Junk THEN "junk" ELSE r[1][2]]
    <3>1. WebLoc(loc')
      BY <2>3, <2>5 DEF WebLoc
    <3> QED
      BY <2>1, <2>2, <2>5, <3>1, WebGoes
  <2> QED
    BY <2>1, <2>4, <2>5
<1>4. CASE DockerHeader
  <2> DEFINE s == Counted(sess)
  <2>1. PICK r \in ReadLine("docker", "headers") :
          \E q \in {loc, [loc EXCEPT !.seen = @ + 1, !.headers = @ \cup {r[1][Len(r[1])]}]} :
            \/ DockerBodyNext(s, q)
            \/ Goes(s, "headers") /\ loc' = q /\ UNCHANGED <<files, peer>>
    BY <1>4 DEF DockerHeader
  <2>2. svc = "docker" /\ pc = "headers" /\ Taken(s) /\ s.bytes_in <= MaxBytes
    BY ReadCounts DEF ReadLine
  <2> HIDE DEF s
  <2>3. WebLoc(loc)
    BY <2>2, WebFacts
  <2>4. PICK q \in {loc, [loc EXCEPT !.seen = @ + 1, !.headers = @ \cup {r[1][Len(r[1])]}]} :
            \/ DockerBodyNext(s, q)
            \/ Goes(s, "headers") /\ loc' = q /\ UNCHANGED <<files, peer>>
    BY <2>1
  <2>5. WebLoc(q)
    <3> DEFINE g == [loc EXCEPT !.seen = @ + 1, !.headers = @ \cup {r[1][Len(r[1])]}]
    <3>1. WebLoc(g)
      BY <2>3, NextHeader
    <3>2. q = loc \/ q = g
      OBVIOUS
    <3> HIDE DEF g
    <3> QED
      BY <2>3, <3>1, <3>2
  <2>6. CASE DockerBodyNext(s, q)
    BY <2>2, <2>5, <2>6, DockerBodyNextKeeps
  <2>7. CASE Goes(s, "headers") /\ loc' = q /\ UNCHANGED <<files, peer>>
    BY <2>2, <2>5, <2>7, WebGoes
  <2> QED
    BY <2>4, <2>6, <2>7
<1>5. CASE DockerCut
  <2>1. /\ svc = "docker" /\ pc \in {"headers", "body"}
        /\ \/ pc = "headers" /\ DockerBodyNext(sess, loc)
           \/ DockerHandles(sess, loc, <<>>, peer)
    BY <1>5 DEF DockerCut, ReadsNone
  <2>2. Taken(sess) /\ sess.bytes_in <= MaxBytes
    BY <2>1, TakenFirst
  <2>3. peer \in PeerType(peer) /\ peer.unheard = 0 /\ WebLoc(loc)
    BY <2>1, WebFacts
  <2> QED
    BY <2>1, <2>2, <2>3, DockerBodyNextKeeps, DockerHandlesKeeps
<1>6. CASE DockerBody
  <2>1. PICK r \in ReadBytes("docker", "body") :
          DockerHandles(CountedData(sess, r[1]), loc, r[1], [peer EXCEPT !.broken = @ \/ r[2] # Tail(wire)])
    BY <1>6 DEF DockerBody
  <2> DEFINE s == CountedData(sess, r[1])
             b == peer.broken \/ r[2] # Tail(wire)
             p == [peer EXCEPT !.broken = b]
  <2>2. DockerHandles(s, loc, r[1], p) /\ b \in BOOLEAN
    BY <2>1
  <2>3. svc = "docker" /\ pc = "body" /\ Taken(s) /\ s.bytes_in <= MaxBytes
    BY ReadCounts DEF ReadBytes
  <2>4. peer \in PeerType(peer) /\ peer.unheard = 0 /\ WebLoc(loc)
    BY <2>3, WebFacts
  <2> HIDE DEF s, b
  <2>5. p \in PeerType(p) /\ p.status = peer.status /\ p.unheard = 0
    BY <2>2, <2>4, BrokenIs
  <2> HIDE DEF p
  <2> QED
    BY <2>2, <2>3, <2>4, <2>5, DockerHandlesKeeps
<1> QED
  BY <1>1, <1>2, <1>3, <1>4, <1>5, <1>6 DEF DockerStep

-----------------------------------------------------------------------------
(* Logins that succeed *)

(* The log of t is that of s with e, if there was room for it. *)
Follows(s, t, e) ==
  /\ SessionOK(t)
  /\ Spent(s) => t.log = s.log /\ Spent(t)
  /\ ~ Spent(s) => t.log = Append(s.log, e)

LEMMA RecordFollows ==
  ASSUME NEW s, SessionOK(s), NEW e
  PROVE  Follows(s, Record(s, e), e)
BY RecordIs DEF Follows

LEMMA FollowsIs ==
  ASSUME NEW s, SessionOK(s), NEW t, NEW e, Follows(s, t, e)
  PROVE  /\ Longer(s, t)
         /\ \A i \in DOMAIN t.log \ DOMAIN s.log : t.log[i] = e
         /\ ~ Spent(s) => Len(s.log) + 1 \in DOMAIN t.log /\ t.log[Len(s.log) + 1] = e
                          /\ Len(t.log) = Len(s.log) + 1
         /\ e.type \notin {"AUTH_SUCCESS", "FILE_UPLOAD"} => Plainly(s, t)
<1> DEFINE n == Len(s.log)
<1>0. n \in Nat /\ DOMAIN s.log = 1 .. n /\ IsTuple(s.log)
  BY TupleFacts DEF SessionOK
<1>1. CASE Spent(s)
  <2>1. t.log = s.log /\ Spent(t)
    BY <1>1 DEF Follows
  <2> QED
    BY <1>0, <1>1, <2>1 DEF Longer, Plainly
<1>2. CASE ~ Spent(s)
  <2>1. t.log = Append(s.log, e)
    BY <1>2 DEF Follows
  <2>2. /\ Len(t.log) = n + 1 /\ t.log[n + 1] = e /\ DOMAIN t.log = 1 .. n + 1
        /\ \A i \in DOMAIN s.log : t.log[i] = s.log[i]
    BY <1>0, <2>1, TupleAppend
  <2> HIDE DEF n
  <2>3. DOMAIN t.log \ DOMAIN s.log = {n + 1} /\ n + 1 \in DOMAIN t.log /\ n <= n + 1
    BY <1>0, <2>2
  <2>4. Longer(s, t)
    BY <1>2, <2>2, <2>3 DEF Longer, n
  <2> QED
    BY <2>2, <2>3, <2>4 DEF Plainly, n
<1> QED
  BY <1>1, <1>2

(* The attempt, and then the success: what a granted login leaves. *)
LEMMA LoginGranted ==
  ASSUME ProvedInv, NEW s, SessionOK(s), Plainly(sess, s), NEW a, NEW t, Follows(s, t, a),
         NEW b, Follows(t, sess', b),
         a.type = "AUTH_ATTEMPT", "password" \in a.tags, b.type = "AUTH_SUCCESS", a.user = b.user,
         b.user = IF sess'.username = NoUser THEN <<>> ELSE sess'.username
  PROVE  /\ Longer(sess, sess') /\ LoginIsExplained' /\ UploadsFollowLogin'
         /\ \A i \in DOMAIN sess'.log :
              Is(i, "AUTH_SUCCESS")' => \/ sess'.log[i] = b
                                        \/ i \in DOMAIN sess.log /\ sess'.log[i] = sess.log[i]
         /\ Spent(sess') \/ \E i \in DOMAIN sess'.log : Is(i, "AUTH_SUCCESS")'
<1>1. SessionOK(sess) /\ SessionOK(t) /\ SessionOK(sess')
  BY DEF ProvedInv, Shapes, Follows
<1>2. /\ Longer(sess, s) /\ Longer(s, t) /\ Longer(t, sess') /\ Plainly(s, t)
      /\ \A i \in DOMAIN sess'.log \ DOMAIN t.log : sess'.log[i] = b
  BY <1>1, FollowsIs DEF Plainly
<1>3. Longer(sess, t) /\ Plainly(sess, t)
  BY <1>1, <1>2, LongerChain
<1>4. Longer(sess, sess')
  BY <1>1, <1>2, <1>3, LongerChain
<1>5. \A i \in DOMAIN t.log : i \in DOMAIN sess'.log /\ sess'.log[i] = t.log[i]
  BY <1>1, <1>2, GrowsFrom
<1>6. \A i \in DOMAIN sess.log : i \in DOMAIN t.log /\ t.log[i] = sess.log[i]
  BY <1>1, <1>3, GrowsFrom
<1>7. ASSUME NEW i \in DOMAIN sess'.log, sess'.log[i].type \in {"AUTH_SUCCESS", "FILE_UPLOAD"}
      PROVE  sess'.log[i] = b \/ (i \in DOMAIN sess.log /\ sess'.log[i] = sess.log[i])
  <2>1. CASE i \in DOMAIN t.log
    <3>1. i \in DOMAIN sess.log
      BY <1>3, <1>5, <1>7, <2>1 DEF Plainly
    <3> QED
      BY <1>5, <1>6, <3>1
  <2>2. CASE i \notin DOMAIN t.log
    BY <1>2, <2>2
  <2> QED
    BY <2>1, <2>2
<1>8. UploadsFollowLogin'
  <2> SUFFICES ASSUME NEW j \in DOMAIN sess'.log, sess'.log[j].type = "FILE_UPLOAD"
               PROVE  \E i \in 1 .. j : sess'.log[i].type = "AUTH_SUCCESS"
    BY DEF UploadsFollowLogin, Is
  <2>1. j \in DOMAIN sess.log /\ sess.log[j].type = "FILE_UPLOAD"
    BY <1>7
  <2>2. PICK i \in 1 .. j : sess.log[i].type = "AUTH_SUCCESS"
    BY <2>1 DEF ProvedInv, ServicesInv, LoginsAreExplained, UploadsFollowLogin, Is
  <2>3. Len(sess.log) \in Nat /\ DOMAIN sess.log = 1 .. Len(sess.log)
    BY <1>1, TupleFacts DEF SessionOK
  <2>4. i \in DOMAIN sess.log
    BY <2>1, <2>2, <2>3
  <2> QED
    BY <1>5, <1>6, <2>2, <2>4
<1>9. ASSUME ~ Spent(sess')
      PROVE  \E i, j \in DOMAIN sess'.log : i < j /\ sess'.log[i] = a /\ sess'.log[j] = b
  <2>1. ~ Spent(t) /\ ~ Spent(s)
    BY <1>2, <1>9 DEF Longer
  <2> DEFINE n == Len(s.log)
  <2>2. n + 1 \in DOMAIN t.log /\ t.log[n + 1] = a /\ Len(t.log) = n + 1 /\ n \in Nat
    BY <2>1, FollowsIs, TupleFacts DEF SessionOK
  <2>3. Len(t.log) + 1 \in DOMAIN sess'.log /\ sess'.log[Len(t.log) + 1] = b
    BY <1>1, <2>1, FollowsIs
  <2>4. n + 1 \in DOMAIN sess'.log /\ sess'.log[n + 1] = a
    BY <1>5, <2>2
  <2>5. n + 1 + 1 \in DOMAIN sess'.log /\ sess'.log[n + 1 + 1] = b
    BY <2>2, <2>3
  <2> HIDE DEF n
  <2>6. n + 1 < n + 1 + 1
    BY <2>2
  <2> QED
    BY <2>4, <2>5, <2>6
<1>10. LoginIsExplained'
  <2> SUFFICES ASSUME ~ Spent(sess')
               PROVE  \E i, j \in DOMAIN sess'.log :
                        /\ i < j /\ sess'.log[i].type = "AUTH_ATTEMPT" /\ sess'.log[j].type = "AUTH_SUCCESS"
                        /\ "password" \in sess'.log[i].tags
                        /\ sess'.log[i].user = sess'.log[j].user
                        /\ sess'.log[j].user = (IF sess'.username = NoUser THEN <<>> ELSE sess'.username)
    BY DEF LoginIsExplained, Is, Spent, NoUser
  <2> QED
    BY <1>9
<1> QED
  BY <1>4, <1>7, <1>8, <1>9, <1>10 DEF Is

-----------------------------------------------------------------------------
(* FTP *)

FtpLoc(l) == l \in [username : {l.username}, authenticated : BOOLEAN, cwd : {l.cwd}]

LEMMA FtpOther ==
  ASSUME ProvedInv, svc = "ftp", svc' = svc, pc # "closed", pc' \in {"command", "settling", "closed"},
         Advances(sess'), files' = files, peer' \in PeerType(peer'), peer'.status = peer.status,
         FtpLoc(loc'), LoginIsExplained', UploadsFollowLogin',
         loc'.authenticated /\ ~ Spent(sess') => \E i \in DOMAIN sess'.log : Is(i, "AUTH_SUCCESS")'
  PROVE  ProvedInv'
<1>1. pc' \in Places \cup {"closed"}
  BY DEF Places
<1>2. InPlace' /\ RecordedAsServed'
  BY <1>1, StoredStep
<1>3. TelnetWire' /\ ShellIsConsistent' /\ FloodState' /\ FloodIsCut'
  BY DEF TelnetWire, ShellIsConsistent, FloodState, FloodIsCut
<1>4. LoginState'
  BY DEF LoginState, Early, Succeeds, Spent
<1>5. SessionOK(sess)' /\ (peer \in PeerType(peer))'
  BY DEF Advances, SessionOK, SessionType, PeerType, IsTuple, Elements
<1>6. LocShape'
  BY DEF LocShape, FtpLoc
<1> QED
  BY <1>2, <1>3, <1>4, <1>5, <1>6 DEF ProvedInv, Shapes, ServicesInv, LoginsAreExplained

LEMMA FtpPlain ==
  ASSUME ProvedInv, svc = "ftp", svc' = svc, pc # "closed", pc' \in {"command", "settling", "closed"},
         Advances(sess'), Plainly(sess, sess'), Same(sess, sess'), files' = files,
         peer' \in PeerType(peer'), peer'.status = peer.status,
         FtpLoc(loc'), loc'.authenticated => pc # "idle" /\ loc.authenticated
  PROVE  ProvedInv'
<1>1. /\ LoginIsExplained' /\ UploadsFollowLogin'
      /\ \A i \in DOMAIN sess.log : i \in DOMAIN sess'.log /\ sess'.log[i] = sess.log[i]
      /\ Spent(sess) => Spent(sess')
  BY LoginStays DEF Same, Advances
<1>2. ASSUME loc'.authenticated, ~ Spent(sess')
      PROVE  \E i \in DOMAIN sess'.log : Is(i, "AUTH_SUCCESS")'
  <2>1. PICK i \in DOMAIN sess.log : sess.log[i].type = "AUTH_SUCCESS"
    BY <1>1, <1>2 DEF ProvedInv, ServicesInv, LoginState, Succeeds, Is
  <2> QED
    BY <1>1, <2>1 DEF Is
<1> QED
  BY <1>1, <1>2, FtpOther

LEMMA FtpFacts ==
  ASSUME ProvedInv, svc = "ftp", pc # "idle"
  PROVE  peer \in PeerType(peer) /\ FtpLoc(loc)
BY DEF ProvedInv, Shapes, LocShape, FtpLoc

LEMMA FtpGoes ==
  ASSUME ProvedInv, svc = "ftp", pc \in {"command", "settling"}, NEW s, Taken(s), s.bytes_in <= MaxBytes,
         NEW p \in {"command", "settling"}, Goes(s, p), files' = files, NEW by,
         peer' \in {peer, Replies(peer, by)}, FtpLoc(loc'), loc'.authenticated = loc.authenticated
  PROVE  ProvedInv'
<1>1. /\ pc' = p /\ svc' = svc
      /\ Advances(sess') /\ Plainly(sess, sess') /\ Same(sess, sess')
  BY GoesOn
<1>2. peer' \in PeerType(peer') /\ peer'.status = peer.status
  BY FtpFacts, RepliesIs
<1> QED
  BY <1>1, <1>2, FtpPlain

(* PASS that is accepted *)
Accepted(s) ==
  LET t == Record(s, Event("AUTH_ATTEMPT", LoginName, {"password"}))
      accepted == Record(t, Event("AUTH_SUCCESS", LoginName, {}))
  IN  [accepted EXCEPT !.authenticated = TRUE, !.username = loc.username]

LEMMA FtpAccepted ==
  ASSUME ProvedInv, svc = "ftp", pc = "command", NEW s, Taken(s), s.bytes_in <= MaxBytes,
         Goes(Accepted(s), "command"), loc' = [loc EXCEPT !.authenticated = TRUE],
         files' = files, NEW by, peer' = Replies(peer, by)
  PROVE  ProvedInv'
<1> DEFINE a == Event("AUTH_ATTEMPT", LoginName, {"password"})
           b == Event("AUTH_SUCCESS", LoginName, {})
           t == Record(s, a)
           u == Record(t, b)
           v == [u EXCEPT !.authenticated = TRUE, !.username = loc.username]
<1>1. Goes(v, "command")
  BY DEF Accepted
<1>2. /\ a.type = "AUTH_ATTEMPT" /\ a.tags = {"password"} /\ b.type = "AUTH_SUCCESS"
      /\ a.user = LoginName /\ b.user = LoginName
  BY DEF Event
<1> HIDE DEF a, b
<1>3. SessionOK(s) /\ Plainly(sess, s) /\ SessionOK(sess)
  BY DEF Taken, ProvedInv, Shapes
<1>4. SessionOK(t) /\ t.bytes_in = s.bytes_in /\ Follows(s, t, a)
  BY <1>3, RecordIs, RecordFollows
<1> HIDE DEF t
<1>5. SessionOK(u) /\ u.bytes_in = t.bytes_in /\ Follows(t, u, b)
  BY <1>4, RecordIs, RecordFollows
<1> HIDE DEF u
<1>6. /\ SessionOK(v) /\ v.log = u.log /\ v.event_count = u.event_count
      /\ v.bytes_in = u.bytes_in /\ v.username = loc.username
  <2> DEFINE name == loc.username
  <2>1. v = [u EXCEPT !.authenticated = TRUE, !.username = name]
    OBVIOUS
  <2> HIDE DEF name, v
  <2>2. /\ v \in SessionType(v) /\ v.log = u.log /\ v.event_count = u.event_count
        /\ v.bytes_in = u.bytes_in /\ v.username = name
    BY <1>5, <2>1 DEF SessionOK, SessionType
  <2>3. SessionOK(v)
    BY <1>5, <2>2 DEF SessionOK
  <2> QED
    BY <2>2, <2>3 DEF name
<1> HIDE DEF v
<1>7. Follows(t, v, b)
  BY <1>5, <1>6 DEF Follows, Spent
<1>8. sess' = v /\ pc' = "command" /\ svc' = svc
  BY <1>1 DEF Goes
<1>9. b.user = IF sess'.username = NoUser THEN <<>> ELSE sess'.username
  BY <1>2, <1>6, <1>8 DEF LoginName
<1>10. /\ Longer(sess, sess') /\ LoginIsExplained' /\ UploadsFollowLogin'
       /\ Spent(sess') \/ \E i \in DOMAIN sess'.log : Is(i, "AUTH_SUCCESS")'
  <2>1. Follows(t, sess', b) /\ "password" \in a.tags /\ a.user = b.user
    BY <1>2, <1>7, <1>8
  <2> QED
    BY <1>2, <1>3, <1>4, <1>9, <2>1, LoginGranted
<1>11. Advances(sess')
  BY <1>4, <1>5, <1>6, <1>8, <1>10, ServiceAssumption, SMTT(30) DEF Advances, SessionOK, SessionType
<1>12. FtpLoc(loc') /\ peer' \in PeerType(peer') /\ peer'.status = peer.status
  BY <1>1, FtpFacts, RepliesIs DEF FtpLoc
<1> QED
  BY <1>8, <1>10, <1>11, <1>12, FtpOther

(* STOR, which only a login precedes *)
LEMMA FtpUploads ==
  ASSUME ProvedInv, svc = "ftp", pc = "command", loc.authenticated, NEW s, Taken(s), s.bytes_in <= MaxBytes,
         Goes(Record(s, Event("FILE_UPLOAD", NoUser, {})), "command"), loc' = loc,
         files' = files, NEW by, peer' = Replies(peer, by)
  PROVE  ProvedInv'
<1> DEFINE e == Event("FILE_UPLOAD", NoUser, {})
           t == Record(s, e)
<1>1. sess' = t /\ pc' = "command" /\ svc' = svc
  BY DEF Goes
<1>2. e.type = "FILE_UPLOAD"
  BY DEF Event
<1> HIDE DEF e
<1>3. SessionOK(s) /\ Plainly(sess, s) /\ SessionOK(sess) /\ Same(sess, s)
  BY DEF Taken, ProvedInv, Shapes
<1>4. SessionOK(t) /\ t.bytes_in = s.bytes_in /\ Follows(s, t, e) /\ Same(s, t)
  BY <1>3, RecordIs, RecordFollows
<1> HIDE DEF t
<1>5. Longer(s, t) /\ \A i \in DOMAIN t.log \ DOMAIN s.log : t.log[i] = e
  BY <1>3, <1>4, FollowsIs
<1>6. Longer(sess, t) /\ Same(sess, t)
  BY <1>3, <1>4, <1>5, LongerChain DEF Plainly, Same
<1>7. /\ LoginIsExplained'
      /\ \A i \in DOMAIN sess.log : i \in DOMAIN sess'.log /\ sess'.log[i] = sess.log[i]
  BY <1>1, <1>4, <1>6, LoginKept DEF Same
<1>8. \A i \in DOMAIN s.log : i \in DOMAIN t.log /\ t.log[i] = s.log[i]
  BY <1>3, <1>4, <1>5, GrowsFrom
<1>9. Spent(sess) => t.log = sess.log /\ Spent(t)
  BY <1>6 DEF Longer
<1>10. ~ Spent(sess) => \E i \in DOMAIN sess.log : sess.log[i].type = "AUTH_SUCCESS"
  BY DEF ProvedInv, ServicesInv, LoginState, Succeeds, Is
<1>11. UploadsFollowLogin'
  <2> SUFFICES ASSUME NEW j \in DOMAIN t.log, t.log[j].type = "FILE_UPLOAD"
               PROVE  \E i \in 1 .. j : t.log[i].type = "AUTH_SUCCESS"
    BY <1>1 DEF UploadsFollowLogin, Is
  <2>0. Len(sess.log) \in Nat /\ DOMAIN sess.log = 1 .. Len(sess.log)
        /\ Len(t.log) \in Nat /\ DOMAIN t.log = 1 .. Len(t.log)
    BY <1>3, <1>4, TupleFacts DEF SessionOK
  <2>1. CASE j \in DOMAIN sess.log
    <3>1. sess.log[j].type = "FILE_UPLOAD"
      BY <1>1, <1>7, <2>1
    <3>2. PICK i \in 1 .. j : sess.log[i].type = "AUTH_SUCCESS"
      BY <2>1, <3>1 DEF ProvedInv, ServicesInv, LoginsAreExplained, UploadsFollowLogin, Is
    <3>3. i \in DOMAIN sess.log
      BY <2>0, <2>1, <3>2
    <3> QED
      BY <1>1, <1>7, <3>2, <3>3
  <2>2. CASE j \notin DOMAIN sess.log
    <3>1. ~ Spent(sess)
      BY <1>9, <2>2
    <3>2. PICK i \in DOMAIN sess.log : sess.log[i].type = "AUTH_SUCCESS"
      BY <1>10, <3>1
    <3>3. i \in 1 .. j
      BY <2>0, <2>2
    <3> QED
      BY <1>1, <1>7, <3>2, <3>3
  <2> QED
    BY <2>1, <2>2
<1>12. ~ Spent(sess') => \E i \in DOMAIN sess'.log : Is(i, "AUTH_SUCCESS")'
  BY <1>1, <1>7, <1>9, <1>10 DEF Is
<1>13. Advances(sess')
  BY <1>1, <1>4, <1>6, ServiceAssumption DEF Advances, SessionOK, SessionType
<1>14. FtpLoc(loc') /\ peer' \in PeerType(peer') /\ peer'.status = peer.status
  BY FtpFacts, RepliesIs
<1> QED
  BY <1>1, <1>7, <1>11, <1>12, <1>13, <1>14, FtpOther

LEMMA FtpKeeps ==
  ASSUME ProvedInv, FtpStep
  PROVE  ProvedInv'
<1>1. CASE FtpOpen
  <2> DEFINE l == [username |-> NoUser, authenticated |-> FALSE, cwd |-> <<"/">>]
  <2>1. /\ svc = "ftp" /\ pc = "idle" /\ pc' = "command" /\ svc' = svc /\ loc' = l
        /\ files' = files /\ peer' = peer
        /\ Advances(sess') /\ Plainly(sess, sess') /\ Same(sess, sess')
    BY <1>1, Opens DEF FtpOpen
  <2>2. FtpLoc(loc') /\ loc'.authenticated = FALSE
    BY <2>1 DEF FtpLoc
  <2>3. peer \in PeerType(peer)
    BY DEF ProvedInv, Shapes
  <2> QED
    BY <2>1, <2>2, <2>3, FtpPlain
<1>2. CASE FtpSends
  BY <1>2, OthersSend DEF FtpSends, Sends
<1>3. CASE FtpRefuses
  <2>1. CanRead("ftp", "command") /\ Goes(Counted(sess), "settling") /\ UNCHANGED <<loc, files, peer>>
    BY <1>3 DEF FtpRefuses, ReadLine
  <2>2. svc = "ftp" /\ pc = "command" /\ Taken(Counted(sess)) /\ Counted(sess).bytes_in <= MaxBytes
    BY <2>1, ReadCounts
  <2> QED
    BY <2>1, <2>2, FtpFacts, FtpGoes
<1>4. CASE FtpSettles
  <2> DEFINE e == Event("COMMAND", NoUser, {"ftp-preauth-refused"})
             t == Record(sess, e)
  <2>1. /\ svc = "ftp" /\ pc = "settling" /\ Goes(t, "command") /\ UNCHANGED <<loc, files>>
        /\ peer' = Replies(peer, sess)
    BY <1>4 DEF FtpSettles
  <2>2. e.type = "COMMAND" /\ Taken(sess) /\ sess.bytes_in <= MaxBytes
    BY <2>1, TakenFirst DEF Event
  <2> HIDE DEF e
  <2>3. Taken(t) /\ t.bytes_in <= MaxBytes
    BY <2>2, TakenRecord
  <2> HIDE DEF t
  <2> QED
    BY <2>1, <2>3, FtpFacts, FtpGoes
<1>5. CASE FtpCommand
  <2> DEFINE s == Counted(sess)
             arg(r) == IF Len(r[1]) > 1 THEN r[1][2] ELSE <<>>
  <2>1. PICK r \in ReadLine("ftp", "command") :
          /\ loc.authenticated \/ r[1][1] \in PREAUTH_COMMANDS \cup {""}
          /\ UNCHANGED files
          /\ CASE r[1][1] = ""     -> Goes(s, "command") /\ UNCHANGED <<loc, peer>>
               [] r[1][1] = "QUIT" -> Closes(s, "client") /\ UNCHANGED peer
               [] r[1][1] = "PASS" -> Pass(s) /\ peer' = Replies(peer, s)
               [] OTHER ->
                    /\ Goes(FtpRecords(s, r[1][1], arg(r)), "command")
                    /\ peer' = IF r[1][1] \in Unrecorded THEN peer ELSE Replies(peer, s)
                    /\ loc' = CASE r[1][1] = "USER" -> [loc EXCEPT !.username = arg(r)]
                                [] r[1][1] = "CWD" -> [loc EXCEPT !.cwd = Cwd(@, arg(r))]
                                [] OTHER -> loc
    BY <1>5 DEF FtpCommand
  <2> DEFINE command == r[1][1]
             argument == arg(r)
             cwd == Cwd(loc.cwd, argument)
  <2>2. svc = "ftp" /\ pc = "command" /\ Taken(s) /\ s.bytes_in <= MaxBytes
    BY ReadCounts DEF ReadLine
  <2>3. loc.authenticated \/ command \in PREAUTH_COMMANDS \cup {""}
    BY <2>1
  <2>4. \/ Goes(s, "command") /\ UNCHANGED <<loc, peer>>
        \/ Closes(s, "client") /\ UNCHANGED peer
        \/ Pass(s) /\ peer' = Replies(peer, s)
        \/ /\ Goes(FtpRecords(s, command, argument), "command")
           /\ peer' \in {peer, Replies(peer, s)}
           /\ command = "STOR" => peer' = Replies(peer, s) /\ loc' = loc
           /\ loc' \in {loc, [loc EXCEPT !.username = argument], [loc EXCEPT !.cwd = cwd]}
    BY <2>1 DEF Unrecorded
  <2>5. FtpLoc(loc) /\ peer \in PeerType(peer) /\ files' = files
    BY <2>1, <2>2, FtpFacts
  <2> HIDE DEF s, command, argument, cwd
  <2>6. CASE Goes(s, "command") /\ UNCHANGED <<loc, peer>>
    BY <2>2, <2>5, <2>6, FtpGoes
  <2>7. CASE Closes(s, "client") /\ UNCHANGED peer
    <3>1. /\ pc' = "closed" /\ svc' = svc /\ loc' = loc
          /\ Advances(sess') /\ Plainly(sess, sess') /\ Same(sess, sess')
      BY <2>2, <2>7, Ends DEF Reasons
    <3> QED
      BY <2>2, <2>5, <2>7, <3>1, FtpPlain
  <2>8. CASE Pass(s) /\ peer' = Replies(peer, s)
    <3> DEFINE a == Event("AUTH_ATTEMPT", LoginName, {"password"})
               t == Record(s, a)
    <3>1. \/ Goes(Accepted(s), "command") /\ loc' = [loc EXCEPT !.authenticated = TRUE]
          \/ Goes(t, "command") /\ loc' = loc
      BY <2>8 DEF Pass, Accepted
    <3>2. a.type = "AUTH_ATTEMPT"
      BY DEF Event
    <3> HIDE DEF a
    <3>3. Taken(t) /\ t.bytes_in <= MaxBytes
      BY <2>2, <3>2, TakenRecord
    <3> HIDE DEF t
    <3>4. CASE Goes(Accepted(s), "command") /\ loc' = [loc EXCEPT !.authenticated = TRUE]
      BY <2>2, <2>5, <2>8, <3>4, FtpAccepted
    <3>5. CASE Goes(t, "command") /\ loc' = loc
      BY <2>2, <2>5, <2>8, <3>3, <3>5, FtpGoes
    <3> QED
      BY <3>1, <3>4, <3>5
  <2>9. CASE /\ Goes(FtpRecords(s, command, argument), "command")
             /\ peer' \in {peer, Replies(peer, s)}
             /\ command = "STOR" => peer' = Replies(peer, s) /\ loc' = loc
             /\ loc' \in {loc, [loc EXCEPT !.username = argument], [loc EXCEPT !.cwd = cwd]}
    <3>1. CASE command = "STOR"
      <4>1. FtpRecords(s, command, argument) = Record(s, Event("FILE_UPLOAD", NoUser, {}))
        BY <3>1 DEF FtpRecords, Unrecorded
      <4>2. loc.authenticated
        BY <2>3, <3>1 DEF PREAUTH_COMMANDS
      <4> QED
        BY <2>2, <2>5, <2>9, <3>1, <4>1, <4>2, FtpUploads
    <3>2. CASE command # "STOR"
      <4> DEFINE a == Event("AUTH_ATTEMPT", argument, {"ftp-user"})
                 c == Event("COMMAND", NoUser, {})
                 t == FtpRecords(s, command, argument)
      <4>1. t \in {s, Record(s, a), Record(s, c)}
        BY <3>2 DEF FtpRecords
      <4>2. a.type = "AUTH_ATTEMPT" /\ c.type = "COMMAND"
        BY DEF Event
      <4> HIDE DEF a, c, t
      <4>3. Taken(t) /\ t.bytes_in <= MaxBytes
        BY <2>2, <4>1, <4>2, TakenRecord
      <4>4. FtpLoc(loc') /\ loc'.authenticated = loc.authenticated
        BY <2>5, <2>9 DEF FtpLoc
      <4>5. Goes(t, "command")
        BY <2>9 DEF t
      <4> QED
        BY <2>2, <2>5, <2>9, <4>3, <4>4, <4>5, FtpGoes
    <3> QED
      BY <3>1, <3>2
  <2> QED
    BY <2>4, <2>6, <2>7, <2>8, <2>9
<1> QED
  BY <1>1, <1>2, <1>3, <1>4, <1>5 DEF FtpStep

-----------------------------------------------------------------------------
(* The shell *)

LEMMA HandlerIs ==
  ASSUME NEW sh, NEW cmd, NEW arg
  PROVE  \/ Handler(sh, cmd, arg)[1] = sh
         \/ \E to \in FAKE_FS : Handler(sh, cmd, arg)[1] = [sh EXCEPT !.cwd = to, !.pwd = to]
         \/ \E n \in {0, 1} : Handler(sh, cmd, arg)[1] = [sh EXCEPT !.downloads = sh.downloads + n]
<1> DEFINE h == Handler(sh, cmd, arg)
           to == IF arg = NoArg THEN Home(sh.username) ELSE Resolve(sh, arg)
           n == IF arg.from = "url" THEN 1 ELSE 0
<1>1. cmd \in {"wget", "curl", "tftp"} => h[1] = [sh EXCEPT !.downloads = sh.downloads + n]
  BY DEF Handler, Fixed, Silent, Exits
<1>2. cmd = "cd" => \/ h[1] = sh
                    \/ to \in FAKE_FS /\ h[1] = [sh EXCEPT !.cwd = to, !.pwd = to]
  <2> SUFFICES ASSUME cmd = "cd"
               PROVE  h[1] = sh \/ (to \in FAKE_FS /\ h[1] = [sh EXCEPT !.cwd = to, !.pwd = to])
    OBVIOUS
  <2>1. h = IF to \in FAKE_FS THEN <<[sh EXCEPT !.cwd = to, !.pwd = to], "">>
            ELSE <<sh, "no such file">>
    BY DEF Handler, Fixed, Silent, Exits
  <2> HIDE DEF h, to
  <2> QED
    BY <2>1
<1>3. cmd \notin {"wget", "curl", "tftp", "cd"} => h[1] = sh
  BY DEF Handler
<1>4. n \in {0, 1}
  OBVIOUS
<1> HIDE DEF h, to, n
<1>5. \/ h[1] = sh
      \/ \E d \in FAKE_FS : h[1] = [sh EXCEPT !.cwd = d, !.pwd = d]
      \/ \E m \in {0, 1} : h[1] = [sh EXCEPT !.downloads = sh.downloads + m]
  <2>1. CASE cmd \in {"wget", "curl", "tftp"}
    BY <1>1, <1>4, <2>1
  <2>2. CASE cmd = "cd"
    BY <1>2, <2>2
  <2>3. CASE cmd \notin {"wget", "curl", "tftp", "cd"}
    BY <1>3, <2>3
  <2> QED
    BY <2>1, <2>2, <2>3
<1> QED
  BY <1>5 DEF h

LEMMA RunIs ==
  ASSUME NEW sh, sh \in ShellType(sh), NEW line
  PROVE  LET x == Run(sh, line)[1] IN
         /\ x \in ShellType(x) /\ x.username = sh.username
         /\ x.cwd \in FAKE_FS \cup {sh.cwd} /\ (sh.pwd = sh.cwd => x.pwd = x.cwd)
<1> DEFINE n == sh.history + 1
           y == [sh EXCEPT !.history = n]
           x == Run(sh, line)[1]
<1>1. n \in Nat
  BY DEF ShellType
<1>2. x = y \/ x = Handler(y, line.cmd, line.arg)[1]
  BY DEF Run
<1> HIDE DEF n
<1>3. y \in ShellType(y) /\ y.username = sh.username /\ y.cwd = sh.cwd /\ y.pwd = sh.pwd
  BY <1>1 DEF ShellType
<1> HIDE DEF y
<1>4. \/ x = y
      \/ \E to \in FAKE_FS : x = [y EXCEPT !.cwd = to, !.pwd = to]
      \/ \E m \in {0, 1} : x = [y EXCEPT !.downloads = y.downloads + m]
  <2> DEFINE cmd == line.cmd
             arg == line.arg
  <2>1. x = y \/ x = Handler(y, cmd, arg)[1]
    BY <1>2
  <2> HIDE DEF x, cmd, arg
  <2>2. \/ Handler(y, cmd, arg)[1] = y
        \/ \E to \in FAKE_FS : Handler(y, cmd, arg)[1] = [y EXCEPT !.cwd = to, !.pwd = to]
        \/ \E m \in {0, 1} : Handler(y, cmd, arg)[1] = [y EXCEPT !.downloads = y.downloads + m]
    BY HandlerIs, ZenonT(60)
  <2> QED
    BY <2>1, <2>2
<1> HIDE DEF x
<1>5. ASSUME x = y
      PROVE  /\ x \in ShellType(x) /\ x.username = sh.username
             /\ x.cwd \in FAKE_FS \cup {sh.cwd} /\ (sh.pwd = sh.cwd => x.pwd = x.cwd)
  BY <1>3, <1>5
<1>6. ASSUME NEW to \in FAKE_FS, x = [y EXCEPT !.cwd = to, !.pwd = to]
      PROVE  /\ x \in ShellType(x) /\ x.username = sh.username
             /\ x.cwd \in FAKE_FS \cup {sh.cwd} /\ x.pwd = x.cwd
  BY <1>3, <1>6 DEF ShellType
<1>7. ASSUME NEW m \in {0, 1}, x = [y EXCEPT !.downloads = y.downloads + m]
      PROVE  /\ x \in ShellType(x) /\ x.username = sh.username
             /\ x.cwd \in FAKE_FS \cup {sh.cwd} /\ (sh.pwd = sh.cwd => x.pwd = x.cwd)
  <2> DEFINE d == y.downloads + m
  <2>1. d \in Nat /\ x = [y EXCEPT !.downloads = d]
    BY <1>3, <1>7 DEF ShellType
  <2> HIDE DEF d
  <2> QED
    BY <1>3, <2>1 DEF ShellType
<1> QED
  BY <1>4, <1>5, <1>6, <1>7 DEF x

LEMMA NewShellIs ==
  ASSUME NEW user
  PROVE  LET sh == NewShell(user) IN
         sh \in ShellType(sh) /\ sh.username = user /\ sh.cwd = Home(user) /\ sh.pwd = sh.cwd
BY DEF NewShell, ShellType

(* A plain step of the shell that keeps its name and a directory it may stand in. *)
LEMMA ShellStays ==
  ASSUME ProvedInv, pc = "shell", SessionOK(sess'), Plainly(sess, sess'), Same(sess, sess'),
         loc'.shell.username = loc.shell.username, loc'.shell.pwd = loc'.shell.cwd,
         loc'.shell.cwd \in FAKE_FS \cup {loc.shell.cwd}
  PROVE  ShellIsConsistent'
<1>1. /\ \A i \in DOMAIN sess.log : i \in DOMAIN sess'.log /\ sess'.log[i] = sess.log[i]
      /\ \A i \in DOMAIN sess'.log : Is(i, "AUTH_SUCCESS")' => i \in DOMAIN sess.log /\ Is(i, "AUTH_SUCCESS")
      /\ Spent(sess) => Spent(sess')
  BY LoginStays DEF Same
<1>2. /\ loc.shell.cwd \in FAKE_FS \cup {Home(loc.shell.username)}
      /\ \A i \in DOMAIN sess.log : Is(i, "AUTH_SUCCESS") =>
           loc.shell.username = (IF sess.log[i].user = <<>> THEN <<"root">> ELSE sess.log[i].user)
      /\ Spent(sess) \/ \E i \in DOMAIN sess.log : Is(i, "AUTH_SUCCESS")
  BY DEF ProvedInv, ServicesInv, LoginsAreExplained, ShellIsConsistent
<1>3. loc'.shell.cwd \in FAKE_FS \cup {Home(loc'.shell.username)}
  BY <1>2
<1>4. \A i \in DOMAIN sess'.log : Is(i, "AUTH_SUCCESS")' =>
        loc'.shell.username = (IF sess'.log[i].user = <<>> THEN <<"root">> ELSE sess'.log[i].user)
  BY <1>1, <1>2
<1>5. Spent(sess') \/ \E i \in DOMAIN sess'.log : Is(i, "AUTH_SUCCESS")'
  BY <1>1, <1>2 DEF Is
<1> QED
  BY <1>3, <1>4, <1>5 DEF ShellIsConsistent, Home, FAKE_FS, Spent

-----------------------------------------------------------------------------
(* Telnet *)

TelnetLoc(l) ==
  /\ l \in [attempt : Nat, username : {l.username}, shell : {l.shell}]
  /\ l.shell \in ShellType(l.shell) /\ l.username # NoUser

LEMMA TelnetOther ==
  ASSUME ProvedInv, svc = "telnet", svc' = svc, pc # "closed", pc' \in {"login", "password", "shell", "closed"},
         Advances(sess'), files' = files, peer' \in PeerType(peer'), peer'.status = peer.status,
         TelnetLoc(loc'), TelnetWire', LoginIsExplained', UploadsFollowLogin', ShellIsConsistent',
         pc' \in {"login", "password"} =>
           ~ sess'.authenticated /\ \A i \in DOMAIN sess'.log : ~ Is(i, "AUTH_SUCCESS")',
         peer'.unheard <= loc'.attempt,
         pc' \in {"login", "password"} => peer'.unheard < loc'.attempt
  PROVE  ProvedInv'
<1>1. pc' \in Places \cup {"closed"}
  BY DEF Places
<1>2. InPlace' /\ RecordedAsServed'
  BY <1>1, StoredStep
<1>3. FloodState' /\ FloodIsCut'
  BY DEF FloodState, FloodIsCut
<1>4. LoginState'
  BY DEF LoginState, Early, Succeeds, TelnetLoc, NoUser
<1>5. SessionOK(sess)' /\ (peer \in PeerType(peer))'
  BY DEF Advances, SessionOK, SessionType, PeerType, IsTuple, Elements
<1>6. LocShape'
  BY DEF LocShape, TelnetLoc, ShellType
<1> QED
  BY <1>2, <1>3, <1>4, <1>5, <1>6 DEF ProvedInv, Shapes, ServicesInv, LoginsAreExplained

LEMMA TelnetFacts ==
  ASSUME ProvedInv, svc = "telnet", pc # "idle"
  PROVE  /\ peer \in PeerType(peer) /\ TelnetLoc(loc) /\ peer.unheard <= loc.attempt
         /\ pc \in {"login", "password"} =>
              /\ peer.unheard < loc.attempt /\ ~ sess.authenticated
              /\ \A i \in DOMAIN sess.log : ~ Is(i, "AUTH_SUCCESS")
         /\ peer.unheard \in Nat /\ loc.attempt \in Nat
<1>1. peer \in PeerType(peer) /\ TelnetLoc(loc)
  BY DEF ProvedInv, Shapes, ServicesInv, LocShape, TelnetLoc, LoginState
<1>2. peer.unheard \in Nat /\ loc.attempt \in Nat
  BY <1>1 DEF PeerType, TelnetLoc
<1>3. peer.unheard <= loc.attempt
  BY DEF ProvedInv, ServicesInv, FloodIsCut
<1>4. pc \in {"login", "password"} =>
        /\ peer.unheard < loc.attempt /\ ~ sess.authenticated
        /\ \A i \in DOMAIN sess.log : ~ Is(i, "AUTH_SUCCESS")
  BY DEF ProvedInv, ServicesInv, FloodState, LoginState, Early, Succeeds
<1> QED
  BY <1>1, <1>2, <1>3, <1>4

(* A plain step: before the login, in the shell, or the last one. *)
LEMMA TelnetPlain ==
  ASSUME ProvedInv, svc = "telnet", svc' = svc, pc # "closed",
         Advances(sess'), Plainly(sess, sess'), Same(sess, sess'), files' = files,
         peer' \in PeerType(peer'), peer'.status = peer.status, TelnetLoc(loc'),
         \/ pc' = "closed" /\ peer'.unheard <= loc'.attempt
         \/ /\ pc \in {"idle", "login", "password"} /\ pc' \in {"login", "password"}
            /\ wire' = <<>> /\ peer'.unheard < loc'.attempt
         \/ /\ pc = "shell" /\ pc' = "shell" /\ peer'.unheard <= loc'.attempt
            /\ loc'.shell.username = loc.shell.username /\ loc'.shell.pwd = loc'.shell.cwd
            /\ loc'.shell.cwd \in FAKE_FS \cup {loc.shell.cwd}
  PROVE  ProvedInv'
<1>0. SessionOK(sess')
  BY DEF Advances
<1>1. /\ LoginIsExplained' /\ UploadsFollowLogin'
      /\ \A i \in DOMAIN sess'.log : Is(i, "AUTH_SUCCESS")' => i \in DOMAIN sess.log /\ Is(i, "AUTH_SUCCESS")
  BY <1>0, LoginStays DEF Same
<1>2. CASE pc' = "closed" /\ peer'.unheard <= loc'.attempt
  <2>1. TelnetWire' /\ ShellIsConsistent'
    BY <1>2 DEF TelnetWire, ShellIsConsistent
  <2> QED
    BY <1>1, <1>2, <2>1, TelnetOther
<1>3. CASE /\ pc \in {"idle", "login", "password"} /\ pc' \in {"login", "password"}
           /\ wire' = <<>> /\ peer'.unheard < loc'.attempt
  <2>1. TelnetWire' /\ ShellIsConsistent'
    BY <1>3 DEF TelnetWire, ShellIsConsistent
  <2>2. ~ sess.authenticated /\ \A i \in DOMAIN sess.log : ~ Is(i, "AUTH_SUCCESS")
    BY <1>3 DEF ProvedInv, ServicesInv, LoginState, Early, Succeeds
  <2>3. ~ sess'.authenticated /\ \A i \in DOMAIN sess'.log : ~ Is(i, "AUTH_SUCCESS")'
    BY <1>1, <2>2 DEF Same
  <2>4. peer'.unheard <= loc'.attempt
    BY <1>3 DEF PeerType, TelnetLoc
  <2> QED
    BY <1>1, <1>3, <2>1, <2>3, <2>4, TelnetOther
<1>4. CASE /\ pc = "shell" /\ pc' = "shell" /\ peer'.unheard <= loc'.attempt
           /\ loc'.shell.username = loc.shell.username /\ loc'.shell.pwd = loc'.shell.cwd
           /\ loc'.shell.cwd \in FAKE_FS \cup {loc.shell.cwd}
  <2>1. TelnetWire'
    BY <1>4 DEF TelnetWire
  <2>2. ShellIsConsistent'
    BY <1>0, <1>4, ShellStays
  <2> QED
    BY <1>1, <1>4, <2>1, <2>2, TelnetOther
<1> QED
  BY <1>2, <1>3, <1>4

(* handle_session ends. *)
LEMMA TelnetCloses ==
  ASSUME ProvedInv, svc = "telnet", pc \notin {"idle", "closed"}, NEW s, Taken(s), NEW reason \in Reasons,
         Closes(s, reason), files' = files, peer' \in PeerType(peer'), peer'.status = peer.status,
         peer'.unheard <= loc.attempt
  PROVE  ProvedInv'
<1>1. /\ pc' = "closed" /\ svc' = svc /\ loc' = loc
      /\ Advances(sess') /\ Plainly(sess, sess') /\ Same(sess, sess')
  BY Ends
<1>2. TelnetLoc(loc)
  BY TelnetFacts
<1> QED
  BY <1>1, <1>2, TelnetPlain

(* What is read at the prompts is what a peer typed there. *)
LEMMA PromptReads ==
  ASSUME ProvedInv, NEW p \in {"login", "password"}, NEW r \in ReadLine("telnet", p), wire[1].kind # "long"
  PROVE  r[2] = <<>> /\ strip_telnet_control(r[1]) # NoUser
<1>1. svc = "telnet" /\ pc = p /\ wire # <<>> /\ r \in LinesFrom(wire)
  BY DEF ReadLine, CanRead
<1>2. wire = <<Long>> \/ \E segs \in LoginSegs : wire = <<Line(Bytes(segs))>>
  BY <1>1 DEF ProvedInv, ServicesInv, TelnetWire
<1>3. <<Long>>[1].kind = "long"
  BY DEF Long
<1>4. PICK segs \in LoginSegs : wire = <<Line(Bytes(segs))>>
  BY <1>2, <1>3
<1> DEFINE v == Bytes(segs)
           l == Line(v)
<1>5. wire = <<l>> /\ l.kind = "line" /\ l.v = v
  BY <1>4 DEF Line
<1>6. strip_telnet_control(v) # NoUser
  BY TelnetAssumption
<1> HIDE DEF v, l
<1>7. wire[1] = l /\ Tail(wire) = <<>>
  <2>1. <<l>> \in Seq({l}) /\ <<l>>[1] = l
    OBVIOUS
  <2>2. Tail(<<l>>) \in Seq({l}) /\ Len(Tail(<<l>>)) = 0
    BY <2>1
  <2>3. Tail(<<l>>) = <<>>
    BY <2>2
  <2> QED
    BY <1>5, <2>1, <2>3
<1>8. LinesFrom(wire) = {<<wire[1].v, Tail(wire)>>}
  BY <1>5, <1>7 DEF LinesFrom
<1>9. r[1] = v /\ r[2] = <<>>
  BY <1>1, <1>5, <1>7, <1>8
<1> QED
  BY <1>6, <1>9

(* The password is accepted, and the shell begins. *)
LEMMA TelnetGranted ==
  ASSUME ProvedInv, svc = "telnet", pc = "password", NEW c, Taken(c), c.bytes_in <= MaxBytes,
         NEW s, s = Record(c, Event("AUTH_ATTEMPT", loc.username, {"password"})),
         Goes(Record([s EXCEPT !.authenticated = TRUE, !.username = loc.username],
                     Event("AUTH_SUCCESS", loc.username, {})), "shell"),
         loc' = [loc EXCEPT !.shell = NewShell(IF loc.username = <<>> THEN <<"root">> ELSE loc.username)],
         files' = files, peer' \in PeerType(peer'), peer'.status = peer.status,
         peer'.unheard <= loc.attempt
  PROVE  ProvedInv'
<1> DEFINE name == loc.username
           user == IF name = <<>> THEN <<"root">> ELSE name
           sh == NewShell(user)
           a == Event("AUTH_ATTEMPT", name, {"password"})
           b == Event("AUTH_SUCCESS", name, {})
           w == [s EXCEPT !.authenticated = TRUE, !.username = name]
           v == Record(w, b)
<1>1. /\ sess' = v /\ pc' = "shell" /\ svc' = svc /\ loc' = [loc EXCEPT !.shell = sh] /\ s = Record(c, a)
  BY DEF Goes
<1>2. /\ a.type = "AUTH_ATTEMPT" /\ a.tags = {"password"} /\ b.type = "AUTH_SUCCESS"
      /\ a.user = name /\ b.user = name
  BY DEF Event
<1>3. TelnetLoc(loc) /\ name # NoUser /\ \A i \in DOMAIN sess.log : ~ Is(i, "AUTH_SUCCESS")
  BY TelnetFacts DEF TelnetLoc
<1>4. sh \in ShellType(sh) /\ sh.username = user /\ sh.cwd = Home(user) /\ sh.pwd = sh.cwd
  BY NewShellIs
<1> HIDE DEF a, b, sh
<1>5. SessionOK(c) /\ Plainly(sess, c)
  BY DEF Taken
<1>6. SessionOK(s) /\ s.bytes_in = c.bytes_in /\ Follows(c, s, a)
  <2>1. s = Record(c, a)
    BY <1>1
  <2>2. SessionOK(Record(c, a)) /\ Record(c, a).bytes_in = c.bytes_in
    BY <1>5, RecordIs
  <2>3. Follows(c, Record(c, a), a)
    BY <1>5, RecordFollows
  <2> QED
    BY <2>1, <2>2, <2>3
<1>7. /\ SessionOK(w) /\ w.log = s.log /\ w.event_count = s.event_count
      /\ w.bytes_in = s.bytes_in /\ w.username = name
  <2>1. w = [s EXCEPT !.authenticated = TRUE, !.username = name]
    OBVIOUS
  <2> HIDE DEF w, name
  <2>2. /\ w \in SessionType(w) /\ w.log = s.log /\ w.event_count = s.event_count
        /\ w.bytes_in = s.bytes_in /\ w.username = name
    BY <1>6, <2>1 DEF SessionOK, SessionType
  <2>3. SessionOK(w)
    BY <1>6, <2>2 DEF SessionOK
  <2> QED
    BY <2>2, <2>3
<1> HIDE DEF w, name, user
<1>8. Follows(w, v, b) /\ v.bytes_in = w.bytes_in /\ v.username = w.username
  BY <1>7, RecordIs, RecordFollows DEF Same
<1> HIDE DEF v
<1>9. Follows(s, v, b)
  BY <1>7, <1>8 DEF Follows, Spent
<1>10. /\ Longer(sess, sess') /\ LoginIsExplained' /\ UploadsFollowLogin'
       /\ \A i \in DOMAIN sess'.log :
            Is(i, "AUTH_SUCCESS")' => \/ sess'.log[i] = b
                                      \/ i \in DOMAIN sess.log /\ sess'.log[i] = sess.log[i]
       /\ Spent(sess') \/ \E i \in DOMAIN sess'.log : Is(i, "AUTH_SUCCESS")'
  <2>1. Follows(s, sess', b) /\ "password" \in a.tags /\ a.user = b.user
    BY <1>1, <1>2, <1>9
  <2>2. b.user = IF sess'.username = NoUser THEN <<>> ELSE sess'.username
    BY <1>1, <1>2, <1>3, <1>7, <1>8
  <2> QED
    BY <1>2, <1>5, <1>6, <2>1, <2>2, LoginGranted
<1>11. Advances(sess')
  BY <1>1, <1>5, <1>6, <1>7, <1>8, <1>10, ServiceAssumption, SMTT(30) DEF Advances, SessionOK, SessionType, Follows
<1>12. TelnetLoc(loc') /\ loc'.shell = sh /\ loc'.attempt = loc.attempt
  <2>1. /\ loc' \in [attempt : Nat, username : {loc'.username}, shell : {loc'.shell}]
        /\ loc'.shell = sh /\ loc'.attempt = loc.attempt /\ loc'.username = loc.username
    BY <1>1, <1>3 DEF TelnetLoc
  <2> QED
    BY <1>3, <1>4, <2>1 DEF TelnetLoc, name
<1>13. ShellIsConsistent'
  <2>1. loc'.shell.cwd \in FAKE_FS \cup {Home(loc'.shell.username)} /\ loc'.shell.pwd = loc'.shell.cwd
    BY <1>4, <1>12
  <2>2. \A i \in DOMAIN sess'.log : Is(i, "AUTH_SUCCESS")' => sess'.log[i] = b
    BY <1>3, <1>10 DEF Is
  <2>3. \A i \in DOMAIN sess'.log : Is(i, "AUTH_SUCCESS")' =>
          loc'.shell.username = (IF sess'.log[i].user = <<>> THEN <<"root">> ELSE sess'.log[i].user)
    BY <1>2, <1>4, <1>12, <2>2 DEF user
  <2> QED
    BY <1>10, <2>1, <2>3 DEF ShellIsConsistent, Home, FAKE_FS, Spent
<1>14. TelnetWire'
  BY <1>1 DEF TelnetWire
<1> QED
  BY <1>1, <1>10, <1>11, <1>12, <1>13, <1>14, TelnetOther

LEMMA TelnetPasswordKeeps ==
  ASSUME ProvedInv, TelnetPassword
  PROVE  ProvedInv'
<1>1. PICK r \in ReadLine("telnet", "password") :
        LET password == strip_telnet_control(r[1])
            known == <<loc.username, password>> \in IOT_DEFAULT_CREDS
            s == Record(Counted(sess), Event("AUTH_ATTEMPT", loc.username, {"password"}))
            granted == Record([s EXCEPT !.authenticated = TRUE, !.username = loc.username],
                              Event("AUTH_SUCCESS", loc.username, {}))
            user == IF loc.username = <<>> THEN <<"root">> ELSE loc.username
        IN
        /\ wire[1].kind # "long"
        /\ wire' = r[2]
        /\ peer' = [Replies(peer, sess) EXCEPT !.heard = Append(@, password)]
        /\ UNCHANGED files
        /\ \/ Goes(granted, "shell") /\ loc' = [loc EXCEPT !.shell = NewShell(user)]
           \/ /\ ~ known /\ loc.attempt < LastAttempt
              /\ Goes(s, "login") /\ loc' = [loc EXCEPT !.attempt = @ + 1]
           \/ ~ known /\ loc.attempt >= LastAttempt /\ Closes(s, "client")
  BY DEF TelnetPassword
<1> DEFINE c == Counted(sess)
           a == Event("AUTH_ATTEMPT", loc.username, {"password"})
           s == Record(c, a)
           rp == Replies(peer, sess)
           h == Append(rp.heard, strip_telnet_control(r[1]))
<1>2. /\ svc = "telnet" /\ pc = "password" /\ Taken(c) /\ c.bytes_in <= MaxBytes
  BY ReadCounts DEF ReadLine
<1>3. wire' = <<>>
  BY <1>1, PromptReads
<1>4. a.type = "AUTH_ATTEMPT"
  BY DEF Event
<1>5. peer' = [rp EXCEPT !.heard = h] /\ files' = files
  BY <1>1
<1>6. /\ peer \in PeerType(peer) /\ TelnetLoc(loc) /\ peer.unheard < loc.attempt
      /\ peer.unheard \in Nat /\ loc.attempt \in Nat
  BY <1>2, TelnetFacts
<1>7. /\ rp \in PeerType(rp) /\ rp.status = peer.status /\ rp.unheard <= loc.attempt
      /\ rp.unheard \in Nat
  BY <1>6, RepliesIs
<1> HIDE DEF rp, h
<1>8. /\ peer' \in PeerType(peer') /\ peer'.status = peer.status /\ peer'.unheard = rp.unheard
  BY <1>5, <1>7 DEF PeerType
<1>9. /\ \/ /\ Goes(Record([s EXCEPT !.authenticated = TRUE, !.username = loc.username],
                           Event("AUTH_SUCCESS", loc.username, {})), "shell")
            /\ loc' = [loc EXCEPT !.shell = NewShell(IF loc.username = <<>> THEN <<"root">> ELSE loc.username)]
         \/ Goes(s, "login") /\ loc' = [loc EXCEPT !.attempt = @ + 1]
         \/ Closes(s, "client")
      /\ s = Record(c, a)
  BY <1>1
<1> HIDE DEF c
<1>10. CASE /\ Goes(Record([s EXCEPT !.authenticated = TRUE, !.username = loc.username],
                           Event("AUTH_SUCCESS", loc.username, {})), "shell")
            /\ loc' = [loc EXCEPT !.shell = NewShell(IF loc.username = <<>> THEN <<"root">> ELSE loc.username)]
  <2>1. s = Record(c, Event("AUTH_ATTEMPT", loc.username, {"password"}))
    OBVIOUS
  <2> HIDE DEF s
  <2> QED
    BY <1>2, <1>5, <1>7, <1>8, <1>10, <2>1, TelnetGranted
<1> HIDE DEF a
<1>11. Taken(s) /\ s.bytes_in <= MaxBytes
  BY <1>2, <1>4, TakenRecord
<1> HIDE DEF s
<1>12. CASE Goes(s, "login") /\ loc' = [loc EXCEPT !.attempt = @ + 1]
  <2> DEFINE n == loc.attempt + 1
  <2>1. n \in Nat /\ loc' = [loc EXCEPT !.attempt = n] /\ rp.unheard < n
    BY <1>6, <1>7, <1>12
  <2> HIDE DEF n
  <2>2. TelnetLoc(loc') /\ loc'.attempt = n
    BY <1>6, <2>1 DEF TelnetLoc
  <2>3. /\ pc' = "login" /\ svc' = svc
        /\ Advances(sess') /\ Plainly(sess, sess') /\ Same(sess, sess')
    BY <1>11, <1>12, GoesOn
  <2> QED
    BY <1>2, <1>3, <1>5, <1>8, <2>1, <2>2, <2>3, TelnetPlain
<1>13. CASE Closes(s, "client")
  BY <1>2, <1>5, <1>7, <1>8, <1>11, <1>13, TelnetCloses DEF Reasons
<1> QED
  BY <1>9, <1>10, <1>12, <1>13

LEMMA TelnetCommandKeeps ==
  ASSUME ProvedInv, TelnetCommand
  PROVE  ProvedInv'
<1> DEFINE s == Counted(sess)
<1>1. PICK r \in ReadLine("telnet", "shell") :
        LET line == r[1][1]
            ran == Run(loc.shell, line)
            t == Record(s, Event("COMMAND", loc.shell.username, CommandTags(ran[1])))
        IN
        /\ UNCHANGED files
        /\ \/ Goes(s, "shell") /\ UNCHANGED <<loc, peer>>
           \/ /\ ~ Spent(s) /\ Goes(t, "shell") /\ loc' = [loc EXCEPT !.shell = ran[1]]
              /\ peer' = Replies(peer, s)
           \/ Closes(t, "client") /\ UNCHANGED peer
  BY DEF TelnetCommand, Serves
<1> DEFINE line == r[1][1]
           x == Run(loc.shell, line)[1]
           e == Event("COMMAND", loc.shell.username, CommandTags(x))
           t == Record(s, e)
<1>2. \/ Goes(s, "shell") /\ UNCHANGED <<loc, peer>>
      \/ /\ ~ Spent(s) /\ Goes(t, "shell") /\ loc' = [loc EXCEPT !.shell = x]
         /\ peer' = Replies(peer, s)
      \/ Closes(t, "client") /\ UNCHANGED peer
  BY <1>1
<1>3. e.type = "COMMAND" /\ files' = files
  BY <1>1 DEF Event
<1>4. svc = "telnet" /\ pc = "shell" /\ Taken(s) /\ s.bytes_in <= MaxBytes
  BY ReadCounts DEF ReadLine
<1>5. peer \in PeerType(peer) /\ TelnetLoc(loc) /\ peer.unheard <= loc.attempt
  BY <1>4, TelnetFacts
<1>6. loc.shell.pwd = loc.shell.cwd
  BY <1>4 DEF ProvedInv, ServicesInv, LoginsAreExplained, ShellIsConsistent
<1>7. /\ x \in ShellType(x) /\ x.username = loc.shell.username
      /\ x.cwd \in FAKE_FS \cup {loc.shell.cwd} /\ x.pwd = x.cwd
  BY <1>5, <1>6, RunIs DEF TelnetLoc
<1> HIDE DEF e, x, line, s
<1>8. Taken(t) /\ t.bytes_in <= MaxBytes
  BY <1>3, <1>4, TakenRecord
<1> HIDE DEF t
<1>9. CASE Goes(s, "shell") /\ UNCHANGED <<loc, peer>>
  <2>1. /\ pc' = "shell" /\ svc' = svc
        /\ Advances(sess') /\ Plainly(sess, sess') /\ Same(sess, sess')
    BY <1>4, <1>9, GoesOn
  <2> QED
    BY <1>3, <1>4, <1>5, <1>6, <1>9, <2>1, TelnetPlain
<1>10. CASE /\ ~ Spent(s) /\ Goes(t, "shell") /\ loc' = [loc EXCEPT !.shell = x]
            /\ peer' = Replies(peer, s)
  <2>1. /\ pc' = "shell" /\ svc' = svc
        /\ Advances(sess') /\ Plainly(sess, sess') /\ Same(sess, sess')
    BY <1>8, <1>10, GoesOn
  <2>2. /\ loc' \in [attempt : Nat, username : {loc'.username}, shell : {loc'.shell}]
        /\ loc'.shell = x /\ loc'.attempt = loc.attempt /\ loc'.username = loc.username
    BY <1>5, <1>10 DEF TelnetLoc
  <2>3. TelnetLoc(loc')
    BY <1>5, <1>7, <2>2 DEF TelnetLoc
  <2>4. peer' \in PeerType(peer') /\ peer'.status = peer.status /\ peer'.unheard = peer.unheard
    BY <1>5, <1>10, RepliesIs
  <2> QED
    BY <1>3, <1>4, <1>5, <1>7, <2>1, <2>2, <2>3, <2>4, TelnetPlain
<1>11. CASE Closes(t, "client") /\ UNCHANGED peer
  BY <1>3, <1>4, <1>5, <1>8, <1>11, TelnetCloses DEF Reasons
<1> QED
  BY <1>2, <1>9, <1>10, <1>11

LEMMA TelnetKeeps ==
  ASSUME ProvedInv, TelnetStep
  PROVE  ProvedInv'
<1>1. CASE TelnetOpen
  <2> DEFINE sh == NewShell(<<"root">>)
             l == [attempt |-> 1, username |-> <<>>, shell |-> sh]
  <2>1. /\ svc = "telnet" /\ pc = "idle" /\ pc' = "login" /\ svc' = svc /\ loc' = l
        /\ wire' = wire /\ files' = files /\ peer' = peer
        /\ Advances(sess') /\ Plainly(sess, sess') /\ Same(sess, sess')
    BY <1>1, Opens DEF TelnetOpen
  <2>2. sh \in ShellType(sh) /\ <<>> # NoUser
    BY NewShellIs DEF NoUser
  <2> HIDE DEF sh
  <2>3. TelnetLoc(loc') /\ loc'.attempt = 1
    BY <2>1, <2>2 DEF TelnetLoc
  <2>4. wire = <<>> /\ peer = NewPeer
    BY <2>1 DEF ProvedInv, ServicesInv, InPlace
  <2>5. peer \in PeerType(peer) /\ peer.unheard = 0
    BY <2>4 DEF ProvedInv, Shapes, NewPeer
  <2>6. peer'.unheard < loc'.attempt
    BY <2>1, <2>3, <2>5
  <2> QED
    BY <2>1, <2>3, <2>4, <2>5, <2>6, TelnetPlain
<1>2. CASE TelnetSends
  <2>1. CASE pc \in {"login", "password"} /\ \E segs \in LoginSegs :
               Sends("telnet", <<Line(Bytes(segs))>>, <<Meaning(segs)>>)
    <3>1. PICK segs \in LoginSegs :
            PeerSends("telnet", <<Line(Bytes(segs))>>, <<Meaning(segs)>>, TRUE)
      BY <2>1 DEF Sends
    <3>2. TelnetWire'
      BY <3>1 DEF PeerSends, TelnetWire, Line, Long
    <3> QED
      BY <3>1, <3>2, SendingKeeps
  <2>2. CASE pc = "shell" /\ \E line \in ShellLines : Sends("telnet", <<Line(<<line>>)>>, <<>>)
    <3>1. PICK line \in ShellLines : PeerSends("telnet", <<Line(<<line>>)>>, <<>>, TRUE)
      BY <2>2 DEF Sends
    <3>2. TelnetWire'
      BY <2>2, <3>1 DEF PeerSends, TelnetWire
    <3> QED
      BY <3>1, <3>2, SendingKeeps
  <2>3. CASE Sends("telnet", <<Long>>, <<>>)
    <3>1. TelnetWire'
      BY <2>3 DEF Sends, PeerSends, TelnetWire, Long
    <3> QED
      BY <2>3, <3>1, SendingKeeps DEF Sends
  <2> QED
    BY <1>2, <2>1, <2>2, <2>3 DEF TelnetSends
<1>3. CASE TelnetLogin
  <2>1. PICK r \in ReadLine("telnet", "login") :
          /\ wire[1].kind # "long"
          /\ wire' = r[2]
          /\ loc' = [loc EXCEPT !.username = strip_telnet_control(r[1])]
          /\ peer' = Heard(strip_telnet_control(r[1]))
          /\ Goes(Counted(sess), "password")
          /\ UNCHANGED files
    BY <1>3 DEF TelnetLogin
  <2> DEFINE name == strip_telnet_control(r[1])
             h == Append(peer.heard, name)
             c == Counted(sess)
  <2>2. wire' = <<>> /\ name # NoUser
    BY <2>1, PromptReads
  <2>3. loc' = [loc EXCEPT !.username = name] /\ peer' = [peer EXCEPT !.heard = h]
        /\ Goes(c, "password") /\ files' = files
    BY <2>1 DEF Heard
  <2>4. svc = "telnet" /\ pc = "login" /\ Taken(c) /\ c.bytes_in <= MaxBytes
    BY ReadCounts DEF ReadLine
  <2> HIDE DEF name, h, c
  <2>5. /\ pc' = "password" /\ svc' = svc
        /\ Advances(sess') /\ Plainly(sess, sess') /\ Same(sess, sess')
    BY <2>3, <2>4, GoesOn
  <2>6. peer \in PeerType(peer) /\ TelnetLoc(loc) /\ peer.unheard < loc.attempt
    BY <2>4, TelnetFacts
  <2>7. peer' \in PeerType(peer') /\ peer'.status = peer.status /\ peer'.unheard = peer.unheard
    BY <2>3, <2>6 DEF PeerType
  <2>8. TelnetLoc(loc') /\ loc'.attempt = loc.attempt
    BY <2>2, <2>3, <2>6 DEF TelnetLoc
  <2> QED
    BY <2>2, <2>3, <2>4, <2>5, <2>6, <2>7, <2>8, TelnetPlain
<1>4. CASE TelnetTooLong
  <2>1. /\ svc = "telnet" /\ pc # "closed" /\ wire # <<>> /\ Closes(sess, "client")
        /\ files' = files /\ peer' = peer
    BY <1>4 DEF TelnetTooLong
  <2>2. pc # "idle"
    BY <2>1 DEF ProvedInv, ServicesInv, InPlace
  <2>3. Taken(sess) /\ peer \in PeerType(peer) /\ peer.unheard <= loc.attempt
    BY <2>1, <2>2, TakenFirst, TelnetFacts
  <2> QED
    BY <2>1, <2>2, <2>3, TelnetCloses DEF Reasons
<1> QED
  BY <1>1, <1>2, <1>3, <1>4, TelnetPasswordKeeps, TelnetCommandKeeps DEF TelnetStep

-----------------------------------------------------------------------------
(* The full mode of SSH *)

FullLoc(l) == l \in [attempts : Nat, shell : {l.shell}, open : BOOLEAN] /\ l.shell \in ShellType(l.shell)

LEMMA FullOther ==
  ASSUME ProvedInv, svc = "sshfull", svc' = svc, pc # "closed", pc' \in {"auth", "channel", "shell", "closed"},
         Advances(sess'), files' = files, peer' \in PeerType(peer'), peer'.status = peer.status,
         FullLoc(loc'), LoginIsExplained', UploadsFollowLogin', ShellIsConsistent',
         pc' = "auth" => ~ sess'.authenticated /\ \A i \in DOMAIN sess'.log : ~ Is(i, "AUTH_SUCCESS")',
         pc' \in {"channel", "shell"} =>
           /\ sess'.username # NoUser
           /\ \A i \in DOMAIN sess'.log : Is(i, "AUTH_SUCCESS")' => sess'.log[i].user = sess'.username
           /\ Spent(sess') \/ \E i \in DOMAIN sess'.log : Is(i, "AUTH_SUCCESS")'
  PROVE  ProvedInv'
<1>1. pc' \in Places \cup {"closed"}
  BY DEF Places
<1>2. InPlace' /\ RecordedAsServed'
  BY <1>1, StoredStep
<1>3. TelnetWire' /\ FloodState' /\ FloodIsCut'
  BY DEF TelnetWire, FloodState, FloodIsCut
<1>4. LoginState'
  BY DEF LoginState, Early, Succeeds, NoUser, Spent
<1>5. SessionOK(sess)' /\ (peer \in PeerType(peer))'
  BY DEF Advances, SessionOK, SessionType, PeerType, IsTuple, Elements
<1>6. LocShape'
  BY DEF LocShape, FullLoc, ShellType
<1> QED
  BY <1>2, <1>3, <1>4, <1>5, <1>6 DEF ProvedInv, Shapes, ServicesInv, LoginsAreExplained

LEMMA FullFacts ==
  ASSUME ProvedInv, svc = "sshfull", pc # "idle"
  PROVE  /\ peer \in PeerType(peer) /\ FullLoc(loc)
         /\ pc = "auth" => ~ sess.authenticated /\ \A i \in DOMAIN sess.log : ~ Is(i, "AUTH_SUCCESS")
         /\ pc \in {"channel", "shell"} =>
              /\ sess.username # NoUser
              /\ \A i \in DOMAIN sess.log : Is(i, "AUTH_SUCCESS") => sess.log[i].user = sess.username
              /\ Spent(sess) \/ \E i \in DOMAIN sess.log : Is(i, "AUTH_SUCCESS")
<1>1. peer \in PeerType(peer) /\ FullLoc(loc)
  BY DEF ProvedInv, Shapes, LocShape, FullLoc
<1>2. pc = "auth" => ~ sess.authenticated /\ \A i \in DOMAIN sess.log : ~ Is(i, "AUTH_SUCCESS")
  BY DEF ProvedInv, ServicesInv, LoginState, Early, Succeeds
<1>3. pc \in {"channel", "shell"} =>
        /\ sess.username # NoUser
        /\ \A i \in DOMAIN sess.log : Is(i, "AUTH_SUCCESS") => sess.log[i].user = sess.username
        /\ Spent(sess) \/ \E i \in DOMAIN sess.log : Is(i, "AUTH_SUCCESS")
  BY DEF ProvedInv, ServicesInv, LoginState, Succeeds
<1> QED
  BY <1>1, <1>2, <1>3

(* A plain step: before the login, after it, in the shell, or the last one. *)
LEMMA FullPlain ==
  ASSUME ProvedInv, svc = "sshfull", svc' = svc, pc # "closed",
         Advances(sess'), Plainly(sess, sess'), sess'.authenticated = sess.authenticated, files' = files,
         peer' \in PeerType(peer'), peer'.status = peer.status, FullLoc(loc'),
         pc \in {"idle", "auth"} \/ sess'.username = sess.username,
         \/ pc' = "closed" /\ sess'.username = sess.username
         \/ pc \in {"idle", "auth"} /\ pc' = "auth"
         \/ pc = "channel" /\ pc' = "channel"
         \/ /\ pc = "shell" /\ pc' = "shell"
            /\ loc'.shell.username = loc.shell.username /\ loc'.shell.pwd = loc'.shell.cwd
            /\ loc'.shell.cwd \in FAKE_FS \cup {loc.shell.cwd}
  PROVE  ProvedInv'
<1>0. SessionOK(sess') /\ (sess.authenticated => sess'.username = sess.username)
  BY DEF Advances, ProvedInv, ServicesInv, LoginState, Early
<1>1. /\ LoginIsExplained' /\ UploadsFollowLogin'
      /\ \A i \in DOMAIN sess.log : i \in DOMAIN sess'.log /\ sess'.log[i] = sess.log[i]
      /\ \A i \in DOMAIN sess'.log : Is(i, "AUTH_SUCCESS")' => i \in DOMAIN sess.log /\ Is(i, "AUTH_SUCCESS")
      /\ Spent(sess) => Spent(sess')
  BY <1>0, LoginStays
<1>2. CASE pc' = "closed"
  <2>1. ShellIsConsistent'
    BY <1>2 DEF ShellIsConsistent
  <2> QED
    BY <1>1, <1>2, <2>1, FullOther
<1>3. CASE pc \in {"idle", "auth"} /\ pc' = "auth"
  <2>1. ShellIsConsistent'
    BY <1>3 DEF ShellIsConsistent
  <2>2. ~ sess.authenticated /\ \A i \in DOMAIN sess.log : ~ Is(i, "AUTH_SUCCESS")
    BY <1>3 DEF ProvedInv, ServicesInv, LoginState, Early, Succeeds
  <2>3. ~ sess'.authenticated /\ \A i \in DOMAIN sess'.log : ~ Is(i, "AUTH_SUCCESS")'
    BY <1>1, <2>2
  <2> QED
    BY <1>1, <1>3, <2>1, <2>3, FullOther
<1>4. CASE pc \in {"channel", "shell"} /\ pc' = pc
  <2>1. /\ sess.username # NoUser /\ sess'.username = sess.username
        /\ \A i \in DOMAIN sess.log : Is(i, "AUTH_SUCCESS") => sess.log[i].user = sess.username
        /\ Spent(sess) \/ \E i \in DOMAIN sess.log : Is(i, "AUTH_SUCCESS")
    BY <1>4, FullFacts
  <2>2. \A i \in DOMAIN sess'.log : Is(i, "AUTH_SUCCESS")' => sess'.log[i].user = sess'.username
    BY <1>1, <2>1
  <2>3. Spent(sess') \/ \E i \in DOMAIN sess'.log : Is(i, "AUTH_SUCCESS")'
    BY <1>1, <2>1 DEF Is
  <2>4. ShellIsConsistent'
    <3>1. CASE pc = "channel"
      BY <1>4, <3>1 DEF ShellIsConsistent
    <3>2. CASE pc = "shell"
      <4>1. Same(sess, sess')
        BY <2>1 DEF Same
      <4> QED
        BY <1>0, <1>4, <3>2, <4>1, ShellStays
    <3> QED
      BY <1>4, <3>1, <3>2
  <2> QED
    BY <1>1, <1>4, <2>1, <2>2, <2>3, <2>4, FullOther
<1> QED
  BY <1>2, <1>3, <1>4

(* A recording callback: the session with one more plain event. *)
LEMMA FullRecords ==
  ASSUME ProvedInv, svc = "sshfull", pc \in {"auth", "channel", "shell"},
         NEW e, e.type \notin {"AUTH_SUCCESS", "FILE_UPLOAD"}, Goes(Record(sess, e), pc),
         files' = files, peer' = Replies(peer, sess), FullLoc(loc'), loc'.shell = loc.shell
  PROVE  ProvedInv'
<1> DEFINE t == Record(sess, e)
<1>1. Taken(sess) /\ sess.bytes_in <= MaxBytes
  BY TakenFirst
<1>2. Taken(t) /\ t.bytes_in <= MaxBytes
  BY <1>1, TakenRecord
<1> HIDE DEF t
<1>3. Goes(t, pc)
  BY DEF t
<1>4. /\ pc' = pc /\ svc' = svc
      /\ Advances(sess') /\ Plainly(sess, sess') /\ Same(sess, sess')
  BY <1>2, <1>3, GoesOn
<1>5. peer' \in PeerType(peer') /\ peer'.status = peer.status
  BY FullFacts, RepliesIs
<1>6. pc = "shell" => loc.shell.pwd = loc.shell.cwd
  BY DEF ProvedInv, ServicesInv, LoginsAreExplained, ShellIsConsistent
<1> QED
  BY <1>4, <1>5, <1>6, FullPlain DEF Same

LEMMA NameTriedIs ==
  ASSUME NEW s, SessionOK(s), NEW name, NEW ok \in BOOLEAN
  PROVE  /\ SessionOK(NameTried(s, name, ok)) /\ NameTried(s, name, ok).log = s.log
         /\ NameTried(s, name, ok).event_count = s.event_count
         /\ NameTried(s, name, ok).bytes_in = s.bytes_in /\ NameTried(s, name, ok).username = name
         /\ ~ ok => NameTried(s, name, ok).authenticated = s.authenticated
<1> DEFINE b == s.authenticated \/ ok
           t == NameTried(s, name, ok)
<1>1. b \in BOOLEAN /\ t = [s EXCEPT !.username = name, !.authenticated = b] /\ s \in SessionType(s)
  BY DEF NameTried, SessionOK
<1>2. ~ ok => b = s.authenticated
  BY <1>1 DEF SessionType
<1> HIDE DEF b, t
<1>3. /\ t \in SessionType(t) /\ t.log = s.log /\ t.event_count = s.event_count
      /\ t.bytes_in = s.bytes_in /\ t.username = name /\ t.authenticated = b
  BY <1>1 DEF SessionType
<1>4. SessionOK(t)
  BY <1>3 DEF SessionOK
<1> QED
  BY <1>2, <1>3, <1>4 DEF t

LEMMA FullPasswordKeeps ==
  ASSUME ProvedInv, check_auth_password
  PROVE  ProvedInv'
<1>1. PICK u \in SshUsers, ok \in BOOLEAN :
        LET s == Record(sess, Event("AUTH_ATTEMPT", u, {"password"}))
            t == IF ok THEN Record(s, Event("AUTH_SUCCESS", u, {})) ELSE s
        IN  Goes(NameTried(t, u, ok), IF ok THEN "channel" ELSE "auth")
  BY DEF check_auth_password
<1>2. /\ svc = "sshfull" /\ pc = "auth" /\ peer' = Replies(peer, sess) /\ files' = files
      /\ loc' = [loc EXCEPT !.attempts = @ + 1]
  BY DEF check_auth_password, MayAuth, Full
<1> DEFINE a == Event("AUTH_ATTEMPT", u, {"password"})
           b == Event("AUTH_SUCCESS", u, {})
           s == Record(sess, a)
           t == Record(s, b)
<1>3. /\ ok => Goes(NameTried(t, u, ok), "channel")
      /\ ~ ok => Goes(NameTried(s, u, ok), "auth")
  BY <1>1
<1>4. /\ a.type = "AUTH_ATTEMPT" /\ a.tags = {"password"} /\ a.user = u
      /\ b.type = "AUTH_SUCCESS" /\ b.user = u
  BY DEF Event
<1> HIDE DEF a, b
<1>5. /\ peer \in PeerType(peer) /\ FullLoc(loc) /\ ~ sess.authenticated
      /\ \A i \in DOMAIN sess.log : ~ Is(i, "AUTH_SUCCESS")
  BY <1>2, FullFacts
<1>6. peer' \in PeerType(peer') /\ peer'.status = peer.status
  BY <1>2, <1>5, RepliesIs
<1>7. FullLoc(loc')
  <2> DEFINE n == loc.attempts + 1
  <2>1. n \in Nat /\ loc' = [loc EXCEPT !.attempts = n]
    BY <1>2, <1>5 DEF FullLoc
  <2> HIDE DEF n
  <2>2. loc' \in [attempts : Nat, shell : {loc'.shell}, open : BOOLEAN] /\ loc'.shell = loc.shell
    BY <1>5, <2>1 DEF FullLoc
  <2> QED
    BY <1>5, <2>2 DEF FullLoc
<1>8. Taken(sess) /\ SessionOK(sess) /\ sess.bytes_in <= MaxBytes /\ Plainly(sess, sess)
  BY <1>2, TakenFirst DEF Taken
<1>9. /\ Taken(s) /\ SessionOK(s) /\ Plainly(sess, s) /\ Same(sess, s) /\ s.bytes_in = sess.bytes_in
  BY <1>4, <1>8, TakenRecord DEF Taken
<1>10. Follows(sess, s, a)
  BY <1>8, RecordFollows
<1>11. CASE ok
  <2>1. Follows(s, t, b) /\ SessionOK(t) /\ t.bytes_in = s.bytes_in
    BY <1>9, RecordFollows, RecordIs
  <2> HIDE DEF s, t
  <2> DEFINE v == NameTried(t, u, ok)
  <2>2. /\ SessionOK(v) /\ v.log = t.log /\ v.event_count = t.event_count
        /\ v.bytes_in = t.bytes_in /\ v.username = u
    BY <2>1, NameTriedIs
  <2> HIDE DEF v
  <2>3. Goes(v, "channel")
    BY <1>3, <1>11 DEF v
  <2>4. sess' = v /\ pc' = "channel" /\ svc' = svc
    BY <2>3 DEF Goes
  <2>5. Follows(s, v, b)
    BY <2>1, <2>2 DEF Follows, Spent
  <2>6. u # NoUser
    BY SshAssumption
  <2>7. /\ Longer(sess, sess') /\ LoginIsExplained' /\ UploadsFollowLogin'
        /\ \A i \in DOMAIN sess'.log :
             Is(i, "AUTH_SUCCESS")' => \/ sess'.log[i] = b
                                       \/ i \in DOMAIN sess.log /\ sess'.log[i] = sess.log[i]
        /\ Spent(sess') \/ \E i \in DOMAIN sess'.log : Is(i, "AUTH_SUCCESS")'
    <3>1. Follows(s, sess', b) /\ "password" \in a.tags /\ a.user = b.user
      BY <1>4, <2>4, <2>5
    <3>2. b.user = IF sess'.username = NoUser THEN <<>> ELSE sess'.username
      BY <1>4, <2>2, <2>4, <2>6
    <3> QED
      BY <1>4, <1>8, <1>10, <3>1, <3>2, LoginGranted
  <2>8. \A i \in DOMAIN sess'.log : Is(i, "AUTH_SUCCESS")' => sess'.log[i].user = sess'.username
    BY <1>4, <1>5, <2>2, <2>4, <2>7 DEF Is
  <2>9. Advances(sess')
    BY <1>8, <1>9, <2>1, <2>2, <2>4, <2>7, ServiceAssumption, SMTT(30) DEF Advances, SessionOK, SessionType
  <2>10. ShellIsConsistent'
    BY <2>4 DEF ShellIsConsistent
  <2>11. sess'.username # NoUser
    BY <2>2, <2>4, <2>6
  <2> QED
    BY <1>2, <1>6, <1>7, <2>4, <2>7, <2>8, <2>9, <2>10, <2>11, FullOther
<1>12. CASE ~ ok
  <2> HIDE DEF s, t
  <2> DEFINE v == NameTried(s, u, ok)
  <2>1. /\ SessionOK(v) /\ v.log = s.log /\ v.event_count = s.event_count
        /\ v.bytes_in = s.bytes_in /\ v.authenticated = s.authenticated
    BY <1>9, <1>12, NameTriedIs
  <2>2. Goes(v, "auth")
    BY <1>3, <1>12
  <2> HIDE DEF v
  <2>3. sess' = v /\ pc' = "auth" /\ svc' = svc
    BY <2>2 DEF Goes
  <2>4. Plainly(s, v)
    BY <1>9, <2>1, LogStays
  <2>5. Plainly(sess, v)
    BY <1>8, <1>9, <2>1, <2>4, LongerChain DEF Plainly
  <2>6. Advances(sess') /\ sess'.authenticated = sess.authenticated
    BY <1>8, <1>9, <2>1, <2>3, <2>5, ServiceAssumption DEF Advances, SessionOK, SessionType, Plainly, Same
  <2> QED
    BY <1>2, <1>6, <1>7, <2>3, <2>5, <2>6, FullPlain
<1> QED
  BY <1>11, <1>12

LEMMA FullKeyKeeps ==
  ASSUME ProvedInv, check_auth_publickey
  PROVE  ProvedInv'
<1>1. PICK u \in SshUsers : Goes(Record(sess, Event("AUTH_ATTEMPT", u, {})), "auth")
  BY DEF check_auth_publickey
<1>2. /\ svc = "sshfull" /\ pc = "auth" /\ peer' = Replies(peer, sess) /\ files' = files
      /\ loc' = [loc EXCEPT !.attempts = @ + 1]
  BY DEF check_auth_publickey, MayAuth, Full
<1> DEFINE a == Event("AUTH_ATTEMPT", u, {})
           n == loc.attempts + 1
<1>3. a.type = "AUTH_ATTEMPT" /\ Goes(Record(sess, a), pc)
  BY <1>1, <1>2 DEF Event
<1> HIDE DEF a
<1>4. FullLoc(loc)
  BY <1>2, FullFacts
<1>5. n \in Nat /\ loc' = [loc EXCEPT !.attempts = n]
  BY <1>2, <1>4 DEF FullLoc
<1> HIDE DEF n
<1>6. loc' \in [attempts : Nat, shell : {loc'.shell}, open : BOOLEAN] /\ loc'.shell = loc.shell
  BY <1>4, <1>5 DEF FullLoc
<1>7. FullLoc(loc')
  BY <1>4, <1>6 DEF FullLoc
<1> QED
  BY <1>2, <1>3, <1>6, <1>7, FullRecords

LEMMA FullChannelKeeps ==
  ASSUME ProvedInv, check_channel_request
  PROVE  ProvedInv'
<1>1. svc = "sshfull" /\ pc \in {"channel", "shell"} /\ files' = files
  BY DEF check_channel_request, Full
<1>2. /\ peer \in PeerType(peer) /\ FullLoc(loc) /\ sess.username # NoUser
      /\ \A i \in DOMAIN sess.log : Is(i, "AUTH_SUCCESS") => sess.log[i].user = sess.username
      /\ Spent(sess) \/ \E i \in DOMAIN sess.log : Is(i, "AUTH_SUCCESS")
  BY <1>1, FullFacts
<1>3. CASE /\ Goes(Record(sess, Event("CONNECT", NoUser, {"channel-request"})), pc)
           /\ peer' = Replies(peer, sess) /\ UNCHANGED loc
  <2> DEFINE e == Event("CONNECT", NoUser, {"channel-request"})
  <2>1. e.type = "CONNECT" /\ Goes(Record(sess, e), pc)
    BY <1>3 DEF Event
  <2> HIDE DEF e
  <2> QED
    BY <1>1, <1>2, <1>3, <2>1, FullRecords
<1>4. CASE /\ loc' = [loc EXCEPT !.open = TRUE,
                                 !.shell = NewShell(IF sess.username \in {NoUser, <<>>} THEN <<"root">>
                                                    ELSE sess.username)]
           /\ Goes(sess, "shell") /\ UNCHANGED peer
  <2> DEFINE user == IF sess.username = <<>> THEN <<"root">> ELSE sess.username
             sh == NewShell(user)
  <2>1. loc' = [loc EXCEPT !.open = TRUE, !.shell = sh]
    BY <1>2, <1>4
  <2>2. sh \in ShellType(sh) /\ sh.username = user /\ sh.cwd = Home(user) /\ sh.pwd = sh.cwd
    BY NewShellIs
  <2> HIDE DEF sh
  <2>3. loc' \in [attempts : Nat, shell : {loc'.shell}, open : BOOLEAN] /\ loc'.shell = sh
    BY <1>2, <2>1 DEF FullLoc
  <2>4. FullLoc(loc')
    BY <2>2, <2>3 DEF FullLoc
  <2>5. Taken(sess) /\ sess.bytes_in <= MaxBytes
    BY <1>1, TakenFirst
  <2>6. /\ pc' = "shell" /\ svc' = svc /\ sess' = sess
        /\ Advances(sess') /\ Plainly(sess, sess') /\ Same(sess, sess')
    BY <1>4, <2>5, GoesOn
  <2>7. LoginIsExplained' /\ UploadsFollowLogin'
    BY <2>6, LoginStays DEF Same, Advances
  <2>8. ShellIsConsistent'
    <3>1. loc'.shell.cwd \in FAKE_FS \cup {Home(loc'.shell.username)} /\ loc'.shell.pwd = loc'.shell.cwd
      BY <2>2, <2>3
    <3>2. \A i \in DOMAIN sess'.log : Is(i, "AUTH_SUCCESS")' =>
            loc'.shell.username = (IF sess'.log[i].user = <<>> THEN <<"root">> ELSE sess'.log[i].user)
      BY <1>2, <2>2, <2>3, <2>6 DEF Is
    <3>3. Spent(sess') \/ \E i \in DOMAIN sess'.log : Is(i, "AUTH_SUCCESS")'
      BY <1>2, <2>6 DEF Is
    <3> QED
      BY <3>1, <3>2, <3>3 DEF ShellIsConsistent, Home, FAKE_FS, Spent
  <2>9. /\ sess'.username # NoUser
        /\ \A i \in DOMAIN sess'.log : Is(i, "AUTH_SUCCESS")' => sess'.log[i].user = sess'.username
        /\ Spent(sess') \/ \E i \in DOMAIN sess'.log : Is(i, "AUTH_SUCCESS")'
    BY <1>2, <2>6 DEF Is
  <2> QED
    BY <1>1, <1>2, <1>4, <2>4, <2>6, <2>7, <2>8, <2>9, FullOther
<1> QED
  BY <1>3, <1>4 DEF check_channel_request

LEMMA FullExecKeeps ==
  ASSUME ProvedInv, check_channel_exec_request
  PROVE  ProvedInv'
<1> DEFINE e == Event("COMMAND", sess.username, {"ssh-exec"})
<1>1. /\ svc = "sshfull" /\ pc = "shell" /\ files' = files /\ peer' = Replies(peer, sess)
      /\ loc' = loc /\ Goes(Record(sess, e), pc) /\ e.type = "COMMAND"
  BY DEF check_channel_exec_request, Full, Event
<1> HIDE DEF e
<1> QED
  BY <1>1, FullFacts, FullRecords

LEMMA FullLineKeeps ==
  ASSUME ProvedInv, FullLine
  PROVE  ProvedInv'
<1>1. svc = "sshfull" /\ pc = "shell" /\ files' = files /\ peer' = peer
  BY DEF FullLine, Full
<1> DEFINE s == Counted(sess)
           e == Event("COMMAND", sess.username, {"ssh-shell"})
           t == Record(s, e)
<1>2. PICK line \in SshLines :
        \/ Closes(s, "client")
        \/ Closes(t, "client")
        \/ ~ (s.bytes_in > MaxBytes) /\ Goes(s, "shell") /\ loc' = loc
        \/ ~ (s.bytes_in > MaxBytes) /\ Goes(t, "shell") /\ loc' = [loc EXCEPT !.shell = Run(loc.shell, line)[1]]
  BY DEF FullLine
<1> DEFINE x == Run(loc.shell, line)[1]
<1>3. e.type = "COMMAND"
  BY DEF Event
<1>4. Taken(s) /\ (~ (s.bytes_in > MaxBytes) => s.bytes_in <= MaxBytes)
  BY <1>1, TakenFirst, ServiceAssumption DEF Taken, SessionOK, SessionType
<1>5. peer \in PeerType(peer) /\ FullLoc(loc)
  BY <1>1, FullFacts
<1>6. loc.shell.pwd = loc.shell.cwd
  BY <1>1 DEF ProvedInv, ServicesInv, LoginsAreExplained, ShellIsConsistent
<1>7. /\ x \in ShellType(x) /\ x.username = loc.shell.username
      /\ x.cwd \in FAKE_FS \cup {loc.shell.cwd} /\ x.pwd = x.cwd
  BY <1>5, <1>6, RunIs DEF FullLoc
<1>8. \/ Closes(s, "client")
      \/ Closes(t, "client")
      \/ s.bytes_in <= MaxBytes /\ Goes(s, "shell") /\ loc' = loc
      \/ s.bytes_in <= MaxBytes /\ Goes(t, "shell") /\ loc' = [loc EXCEPT !.shell = x]
  BY <1>2, <1>4
<1> HIDE DEF s, e, x
<1>9. Taken(t) /\ t.bytes_in = s.bytes_in
  BY <1>3, <1>4, TakenRecord
<1> HIDE DEF t
<1>10. CASE Closes(s, "client") \/ Closes(t, "client")
  <2>1. /\ pc' = "closed" /\ svc' = svc /\ loc' = loc
        /\ Advances(sess') /\ Plainly(sess, sess') /\ Same(sess, sess')
    BY <1>1, <1>4, <1>9, <1>10, Ends DEF Reasons
  <2> QED
    BY <1>1, <1>5, <2>1, FullPlain DEF Same
<1>11. CASE s.bytes_in <= MaxBytes /\ Goes(s, "shell") /\ loc' = loc
  <2>1. /\ pc' = "shell" /\ svc' = svc
        /\ Advances(sess') /\ Plainly(sess, sess') /\ Same(sess, sess')
    BY <1>4, <1>11, GoesOn
  <2> QED
    BY <1>1, <1>5, <1>6, <1>11, <2>1, FullPlain DEF Same
<1>12. CASE s.bytes_in <= MaxBytes /\ Goes(t, "shell") /\ loc' = [loc EXCEPT !.shell = x]
  <2>1. /\ pc' = "shell" /\ svc' = svc
        /\ Advances(sess') /\ Plainly(sess, sess') /\ Same(sess, sess')
    BY <1>9, <1>12, GoesOn
  <2>2. loc' \in [attempts : Nat, shell : {loc'.shell}, open : BOOLEAN] /\ loc'.shell = x
    BY <1>5, <1>12 DEF FullLoc
  <2>3. FullLoc(loc')
    BY <1>7, <2>2 DEF FullLoc
  <2> QED
    BY <1>1, <1>5, <1>7, <2>1, <2>2, <2>3, FullPlain DEF Same
<1> QED
  BY <1>8, <1>10, <1>11, <1>12

LEMMA SshKeeps ==
  ASSUME ProvedInv, SshStep
  PROVE  ProvedInv'
<1>1. CASE FullOpen
  <2> DEFINE sh == NewShell(<<"root">>)
             l == [attempts |-> 0, shell |-> sh, open |-> FALSE]
  <2>1. /\ svc = "sshfull" /\ pc = "idle" /\ pc' = "auth" /\ svc' = svc /\ loc' = l
        /\ files' = files /\ peer' = peer
        /\ Advances(sess') /\ Plainly(sess, sess') /\ Same(sess, sess')
    BY <1>1, Opens DEF FullOpen
  <2>2. sh \in ShellType(sh) /\ peer \in PeerType(peer)
    BY NewShellIs DEF ProvedInv, Shapes
  <2> HIDE DEF sh
  <2>3. FullLoc(loc')
    BY <2>1, <2>2 DEF FullLoc
  <2> QED
    BY <2>1, <2>2, <2>3, FullPlain DEF Same
<1> QED
  BY <1>1, FingerprintKeeps, FullPasswordKeeps, FullKeyKeeps, FullChannelKeeps, FullExecKeeps, FullLineKeeps
     DEF SshStep

-----------------------------------------------------------------------------
(* Every service *)

LEMMA EndingKeeps ==
  ASSUME ProvedInv, pc \notin {"idle", "closed"}, NEW s, Taken(s), NEW reason \in Reasons,
         Closes(s, reason), UNCHANGED <<wire, files, peer>>
  PROVE  ProvedInv'
<1>1. /\ pc' = "closed" /\ svc' = svc /\ loc' = loc
      /\ Advances(sess') /\ Plainly(sess, sess') /\ Same(sess, sess')
  BY Ends
<1>2. svc \in {"telnet", "ftp", "http", "docker", "redis", "mysql", "ssh", "sshfull"}
  BY DEF ProvedInv, ServicesInv, InPlace, Places
<1>3. peer \in PeerType(peer)
  BY DEF ProvedInv, Shapes
<1>4. CASE svc = "telnet"
  BY <1>3, <1>4, TelnetFacts, TelnetCloses
<1>5. CASE svc = "ftp"
  BY <1>1, <1>3, <1>5, FtpFacts, FtpPlain
<1>6. CASE svc \in {"http", "docker"}
  BY <1>3, <1>6, WebFacts, WebCloses
<1>7. CASE svc \in {"redis", "mysql", "ssh"}
  BY <1>1, <1>3, <1>7, RedisLoc, OtherStep DEF Same
<1>8. CASE svc = "sshfull"
  BY <1>1, <1>3, <1>8, FullFacts, FullPlain DEF Same
<1> QED
  BY <1>2, <1>4, <1>5, <1>6, <1>7, <1>8

LEMMA NextKeeps ==
  ASSUME ProvedInv, Next
  PROVE  ProvedInv'
<1>1. CASE OverLimit
  <2>1. pc \notin {"idle", "closed"} /\ Closes(Counted(sess), "limit") /\ UNCHANGED <<wire, files, peer>>
    BY <1>1 DEF OverLimit
  <2>2. Taken(Counted(sess))
    BY <2>1, TakenFirst
  <2> QED
    BY <2>1, <2>2, EndingKeeps DEF Reasons
<1>2. CASE Leaves
  <2>1. /\ pc \notin {"idle", "closed"} /\ UNCHANGED <<wire, files, peer>>
        /\ \E reason \in {"client", "timeout", "server"} : Closes(sess, reason)
    BY <1>2 DEF Leaves
  <2>2. Taken(sess)
    BY <2>1, TakenFirst
  <2> QED
    BY <2>1, <2>2, EndingKeeps DEF Reasons
<1> QED
  BY <1>1, <1>2, TelnetKeeps, FtpKeeps, HttpKeeps, DockerKeeps, RedisKeeps, MySQLKeeps, SshKeeps
     DEF Next, Talks

LEMMA StutterKeeps ==
  ASSUME ProvedInv, UNCHANGED vars
  PROVE  ProvedInv'
<1>1. /\ svc' = svc /\ pc' = pc /\ sess' = sess /\ loc' = loc
      /\ wire' = wire /\ files' = files /\ peer' = peer
  BY DEF vars
<1>2. Shapes'
  BY <1>1 DEF ProvedInv, Shapes, SessionOK, SessionType, IsTuple, Elements, PeerType, LocShape, ShellType
<1>3. InPlace' /\ TelnetWire' /\ FloodState' /\ FloodIsCut'
  BY <1>1, PlacesNext DEF ProvedInv, ServicesInv, InPlace, TelnetWire, FloodState, FloodIsCut
<1>4. LoginState' /\ LoginsAreExplained'
  BY <1>1 DEF ProvedInv, ServicesInv, LoginState, Early, Succeeds, Is, Spent, LoginsAreExplained,
              LoginIsExplained, UploadsFollowLogin, ShellIsConsistent
<1>5. RecordedAsServed'
  BY <1>1 DEF ProvedInv, ServicesInv, RecordedAsServed, TypeOK, StatusIsTrue, PayloadsAreReferenced, Spent
<1> QED
  BY <1>2, <1>3, <1>4, <1>5 DEF ProvedInv, ServicesInv

LEMMA InitHolds ==
  ASSUME Init
  PROVE  ProvedInv
<1>1. /\ svc \in Served /\ pc = "idle" /\ sess = NewSession
      /\ wire = <<>> /\ files = {} /\ peer = NewPeer
  BY DEF Init, SessionInit
<1>2. /\ sess \in SessionType(sess) /\ sess.log = <<>> /\ sess.event_count = 0
      /\ sess.bytes_in = 0 /\ sess.authenticated = FALSE /\ sess.closed_by = "none"
  BY <1>1 DEF NewSession, SessionType
<1>3. IsTuple(sess.log) /\ Len(sess.log) = 0 /\ DOMAIN sess.log = {}
  BY <1>2, EmptyIsTuple
<1>4. MaxEvents \in Nat \ {0} /\ MaxBytes \in Nat
  BY ServiceAssumption
<1>5. SessionOK(sess)
  BY <1>2, <1>3, <1>4 DEF SessionOK
<1>6. peer \in PeerType(peer) /\ peer.unheard = 0 /\ peer.status = <<0, 0>>
  BY <1>1 DEF NewPeer, PeerType
<1>7. Shapes
  BY <1>1, <1>5, <1>6 DEF Shapes, LocShape
<1>8. InPlace
  BY <1>1, <1>2, <1>4 DEF InPlace
<1>9. LoginState /\ LoginsAreExplained
  BY <1>1, <1>2, <1>3 DEF LoginState, Early, LoginsAreExplained, LoginIsExplained, UploadsFollowLogin,
                          ShellIsConsistent
<1>10. TelnetWire /\ FloodState /\ FloodIsCut
  BY <1>1, <1>6 DEF TelnetWire, FloodState, FloodIsCut
<1>11. TypeOK
  BY <1>1, <1>2, <1>3, <1>4 DEF TypeOK
<1>12. StatusIsTrue /\ PayloadsAreReferenced
  BY <1>1, <1>6 DEF StatusIsTrue, PayloadsAreReferenced
<1> QED
  BY <1>7, <1>8, <1>9, <1>10, <1>11, <1>12 DEF ProvedInv, ServicesInv, RecordedAsServed

(* The invariant of the conversations: every handler keeps it, on every     *)
(* service, whatever the peer sends, and so do the limit and the close.     *)
THEOREM ServicesInvariant == Spec => []ProvedInv
<1>1. Init => ProvedInv
  BY InitHolds
<1>2. ProvedInv /\ [Next]_vars => ProvedInv'
  BY NextKeeps, StutterKeeps
<1> QED
  BY <1>1, <1>2, PTL DEF Spec

(* What the events say of a login is true, for every service: a session     *)
(* marked authenticated has its attempt and its success in the events under *)
(* the right name, no upload precedes a login, and the shell belongs to the *)
(* name that logged in; record() that refuses is the only exception.        *)
THEOREM ServicesLoginsAreExplained == Spec => []LoginsAreExplained
<1>1. ProvedInv => LoginsAreExplained
  BY DEF ProvedInv, ServicesInv
<1> QED
  BY <1>1, ServicesInvariant, PTL

(* What is stored of a conversation is what happened in it: event_count     *)
(* against the events emitted, the status recorded against the one sent by  *)
(* _handle_request and _respond, the payload files against their events.    *)
THEOREM ServicesRecordedAsServed == Spec => []RecordedAsServed
<1>1. ProvedInv => RecordedAsServed
  BY DEF ProvedInv, ServicesInv
<1> QED
  BY <1>1, ServicesInvariant, PTL

(* Once record() refuses, the number of replies a peer still gets is        *)
(* bounded: by the login attempts on telnet, by one on HTTP, by none on     *)
(* Docker, for every budget and every limit on requests.                    *)
THEOREM ServicesFloodIsCut == Spec => []FloodIsCut
<1>1. ProvedInv => FloodIsCut
  BY DEF ProvedInv, ServicesInv
<1> QED
  BY <1>1, ServicesInvariant, PTL

-----------------------------------------------------------------------------
(* What is heard is what was meant *)

Tuples == IsTuple(peer.meant) /\ IsTuple(peer.heard)

(* Part of the invariant of Services, with the shape of the history. *)
HeardWell == Tuples /\ HeardInv

LEMMA TupleConcat ==
  ASSUME NEW s, IsTuple(s)
  PROVE  s \o <<>> = s /\ \A m : s \o <<m>> = Append(s, m)
<1>1. s \in Seq(Elements(s))
  BY DEF IsTuple
<1>2. s \o <<>> = s
  BY <1>1
<1>3. ASSUME NEW m
      PROVE  s \o <<m>> = Append(s, m)
  <2> DEFINE S == Elements(s) \cup {m}
  <2>1. \A i \in DOMAIN s : s[i] \in S
    BY DEF Elements
  <2> HIDE DEF S
  <2>2. s \in Seq(S)
    BY <1>1, <2>1
  <2>3. m \in S
    BY DEF S
  <2> QED
    BY <2>2, <2>3, AppendIsConcat
<1> QED
  BY <1>2, <1>3

LEMMA EvenFollows ==
  ASSUME Tuples, Even
  PROVE  HeardAsMeant
BY TupleFacts DEF Tuples, Even, HeardAsMeant

LEMMA OwingFollows ==
  ASSUME Tuples, NEW m, Owes(m)
  PROVE  HeardAsMeant
BY TupleFacts, TupleAppend DEF Tuples, Owes, HeardAsMeant

(* The history after a step: nothing changes, or what is owed is heard. *)
Still(p, q) == q.meant = p.meant /\ q.heard = p.heard /\ (p.broken => q.broken)

LEMMA StillKeeps ==
  ASSUME HeardWell, Still(peer, peer'), ~ peer.broken /\ ~ peer'.broken => InStep'
  PROVE  HeardWell'
<1>1. Tuples'
  BY DEF HeardWell, Tuples, Still, IsTuple, Elements
<1>2. HeardAsMeant'
  BY DEF HeardWell, HeardInv, HeardAsMeant, Still
<1> QED
  BY <1>1, <1>2 DEF HeardWell, HeardInv, Still

LEMMA HearingKeeps ==
  ASSUME HeardWell, NEW m, peer'.meant = peer.meant, peer'.heard = Append(peer.heard, m),
         peer.broken => peer'.broken,
         ~ peer.broken /\ ~ peer'.broken => Owes(m),
         ~ peer.broken /\ ~ peer'.broken /\ Even' => InStep'
  PROVE  HeardWell'
<1>1. Tuples'
  <2>1. IsTuple(peer'.meant) /\ IsTuple(peer'.heard)
    BY TupleAppend DEF HeardWell, Tuples
  <2> QED
    BY <2>1 DEF Tuples, IsTuple, Elements
<1>2. CASE peer'.broken
  BY <1>1, <1>2 DEF HeardWell, HeardInv, HeardAsMeant
<1>3. CASE ~ peer'.broken
  <2>1. Even'
    BY <1>3 DEF Even, Owes
  <2>2. HeardAsMeant'
    BY <1>1, <2>1, TupleFacts DEF Tuples, Even, HeardAsMeant
  <2> QED
    BY <1>1, <2>1, <2>2 DEF HeardWell, HeardInv
<1> QED
  BY <1>2, <1>3

(* Whoever is closed has nothing left to hear. *)
LEMMA ClosedIsInStep ==
  ASSUME pc' = "closed", svc' = svc, svc \in {"ftp", "ssh", "sshfull"} => Even'
  PROVE  InStep'
BY DEF InStep, TelnetHears, MySQLHears, RedisHears, WebHears, OthersHear

LEMMA ClosingStill ==
  ASSUME HeardWell, Still(peer, peer'), pc' = "closed", svc' = svc
  PROVE  HeardWell'
<1>1. ~ peer.broken => (svc \in {"ftp", "ssh", "sshfull"} => Even')
  BY DEF HeardWell, HeardInv, InStep, OthersHear, Even, Still
<1> QED
  BY <1>1, ClosedIsInStep, StillKeeps

LEMMA PeerFacts ==
  ASSUME ProvedInv
  PROVE  peer \in PeerType(peer)
BY DEF ProvedInv, Shapes

LEMMA ReplyIsStill ==
  ASSUME ProvedInv, NEW s
  PROVE  Still(peer, Replies(peer, s)) /\ Still(peer, peer)
BY PeerFacts, RepliesIs DEF Still

(* A connection that is opened. *)
LEMMA OpeningHears ==
  ASSUME ProvedInv, HeardWell, NEW service, NEW first, NEW locals, Open(service, first, locals),
         ~ peer.broken /\ Even' /\ wire' = <<>> => InStep'
  PROVE  HeardWell'
<1>1. pc = "idle" /\ svc = service /\ svc' = svc /\ pc' = first /\ loc' = locals /\ wire' = wire /\ peer' = peer
  BY DEF Open
<1>2. wire = <<>>
  BY <1>1 DEF ProvedInv, ServicesInv, InPlace
<1>3. ~ peer.broken => Even
  BY <1>1 DEF HeardWell, HeardInv, InStep, OthersHear
<1>4. ~ peer.broken => Even' /\ wire' = <<>>
  BY <1>1, <1>2, <1>3 DEF Even
<1>5. Still(peer, peer')
  BY <1>1 DEF Still
<1> QED
  BY <1>4, <1>5, StillKeeps

(* A peer that sends. *)
LEMMA SendingHears ==
  ASSUME ProvedInv, HeardWell, NEW service, NEW tokens, NEW meaning, NEW w,
         PeerSends(service, tokens, meaning, w), meaning = <<>> \/ \E m : meaning = <<m>>
  PROVE  /\ svc = service /\ wire = <<>> /\ wire' = tokens /\ pc \notin {"idle", "closed", "settling"}
         /\ svc' = svc /\ pc' = pc /\ loc' = loc
         /\ peer'.broken <=> peer.broken \/ ~ w
         /\ meaning = <<>> => Still(peer, peer') /\ (Even => Even')
         /\ \A m : meaning = <<m>> /\ Even => Owes(m)'
         /\ (~ peer.broken /\ ~ peer'.broken => InStep') => HeardWell'
<1> DEFINE mt == peer.meant \o meaning
           b == peer.broken \/ ~ w
<1>1. /\ peer' = [peer EXCEPT !.meant = mt, !.broken = b] /\ b \in BOOLEAN
      /\ svc = service /\ wire = <<>> /\ wire' = tokens /\ pc \notin {"idle", "closed", "settling"}
      /\ svc' = svc /\ pc' = pc /\ loc' = loc
  BY DEF PeerSends
<1>2. IsTuple(peer.meant) /\ IsTuple(peer.heard)
  BY DEF HeardWell, Tuples
<1>3. meaning = <<>> => mt = peer.meant
  BY <1>2, TupleConcat
<1>4. \A m : meaning = <<m>> => mt = Append(peer.meant, m)
  BY <1>2, TupleConcat
<1> HIDE DEF mt
<1>5. peer'.meant = mt /\ peer'.heard = peer.heard /\ peer'.broken = b
  BY <1>1, PeerFacts DEF PeerType
<1>6. meaning = <<>> => Still(peer, peer') /\ (Even => Even')
  BY <1>3, <1>5 DEF Still, Even
<1>7. \A m : meaning = <<m>> /\ Even => Owes(m)'
  BY <1>4, <1>5 DEF Even, Owes
<1>8. /\ IsTuple(mt) /\ Len(peer.meant) <= Len(mt)
      /\ \A i \in DOMAIN peer.meant : mt[i] = peer.meant[i]
  <2>1. Len(peer.meant) \in Nat
    BY <1>2, TupleFacts
  <2>2. CASE meaning = <<>>
    BY <1>2, <1>3, <2>1, <2>2
  <2>3. ASSUME NEW m, meaning = <<m>>
        PROVE  /\ IsTuple(mt) /\ Len(peer.meant) <= Len(mt)
               /\ \A i \in DOMAIN peer.meant : mt[i] = peer.meant[i]
    <3> DEFINE t == Append(peer.meant, m)
    <3>1. mt = t
      BY <1>4, <2>3
    <3>2. IsTuple(t) /\ Len(t) = Len(peer.meant) + 1 /\ \A i \in DOMAIN peer.meant : t[i] = peer.meant[i]
      BY <1>2, TupleAppend
    <3> QED
      BY <2>1, <3>1, <3>2
  <2> QED
    BY <2>2, <2>3
<1>9. Tuples'
  <2>1. IsTuple(peer'.meant) /\ IsTuple(peer'.heard)
    BY <1>2, <1>5, <1>8
  <2> QED
    BY <2>1 DEF Tuples, IsTuple, Elements
<1>10. HeardAsMeant'
  <2>1. /\ Len(peer.meant) \in Nat /\ Len(peer.heard) \in Nat /\ Len(mt) \in Nat
        /\ DOMAIN peer.meant = 1 .. Len(peer.meant) /\ DOMAIN peer.heard = 1 .. Len(peer.heard)
    BY <1>2, <1>8, TupleFacts
  <2>2. ~ peer'.broken => ~ peer.broken
    BY <1>5
  <2>3. ~ peer.broken => /\ Len(peer.heard) <= Len(peer.meant)
                         /\ \A i \in DOMAIN peer.heard : peer.heard[i] = peer.meant[i]
    BY DEF HeardWell, HeardInv, HeardAsMeant
  <2>4. ~ peer.broken => /\ Len(peer.heard) <= Len(mt)
                         /\ \A i \in DOMAIN peer.heard : peer.heard[i] = mt[i]
    BY <1>8, <2>1, <2>3
  <2> QED
    BY <1>5, <2>2, <2>4 DEF HeardAsMeant
<1>11. (~ peer.broken /\ ~ peer'.broken => InStep') => HeardWell'
  BY <1>5, <1>9, <1>10 DEF HeardWell, HeardInv
<1> QED
  BY <1>1, <1>5, <1>6, <1>7, <1>11

-----------------------------------------------------------------------------
(* The services without a part in it *)

Unheard == {"ftp", "ssh", "sshfull"}

LEMMA UnheardStep ==
  ASSUME HeardWell, svc \in Unheard, svc' = svc, Still(peer, peer')
  PROVE  HeardWell'
<1>1. ~ peer.broken => Even'
  BY DEF HeardWell, HeardInv, InStep, OthersHear, Unheard, Even, Still
<1>2. Even' => InStep'
  BY DEF InStep, TelnetHears, MySQLHears, RedisHears, WebHears, OthersHear, Unheard
<1> QED
  BY <1>1, <1>2, StillKeeps

LEMMA FtpHears ==
  ASSUME ProvedInv, HeardWell, FtpStep
  PROVE  HeardWell'
<1>1. CASE FtpSends
  <2>1. PICK tokens : PeerSends("ftp", tokens, <<>>, TRUE)
    BY <1>1 DEF FtpSends, Sends
  <2> QED
    BY <2>1, SendingHears, UnheardStep DEF Unheard
<1>2. CASE FtpOpen
  BY <1>2, UnheardStep DEF FtpOpen, Open, Unheard, Still
<1>3. CASE FtpRefuses \/ FtpSettles
  BY <1>3, UnheardStep, ReplyIsStill DEF FtpRefuses, FtpSettles, Unheard, Goes, Still, ReadLine, CanRead
<1>4. CASE FtpCommand
  <2>1. svc = "ftp" /\ svc' = svc /\ (peer' = peer \/ \E s : peer' = Replies(peer, s))
    BY <1>4 DEF FtpCommand, ReadLine, CanRead, Closes, Goes, Pass
  <2> QED
    BY <2>1, UnheardStep, ReplyIsStill DEF Unheard
<1> QED
  BY <1>1, <1>2, <1>3, <1>4 DEF FtpStep

LEMMA SshHears ==
  ASSUME ProvedInv, HeardWell, SshStep
  PROVE  HeardWell'
<1>1. CASE SshSends
  <2>1. PICK tokens : PeerSends("ssh", tokens, <<>>, TRUE)
    BY <1>1 DEF SshSends, Sends
  <2> QED
    BY <2>1, SendingHears, UnheardStep DEF Unheard
<1>2. CASE SshOpen \/ FullOpen
  BY <1>2, UnheardStep DEF SshOpen, FullOpen, Open, Unheard, Still
<1>3. CASE SshBanner \/ SshPacket
  <2>1. svc = "ssh" /\ svc' = svc /\ peer' = peer
    BY <1>3 DEF SshBanner, SshPacket, ReadLine, CanRead, Closes, Goes
  <2> QED
    BY <2>1, UnheardStep DEF Unheard, Still
<1>4. CASE check_auth_password \/ check_auth_publickey
  BY <1>4, UnheardStep, ReplyIsStill
     DEF check_auth_password, check_auth_publickey, MayAuth, Full, Goes, Unheard
<1>5. CASE check_channel_request \/ check_channel_exec_request
  BY <1>5, UnheardStep, ReplyIsStill
     DEF check_channel_request, check_channel_exec_request, Full, Goes, Unheard
<1>6. CASE FullLine
  <2>1. svc = "sshfull" /\ svc' = svc /\ peer' = peer
    BY <1>6 DEF FullLine, Full, Closes, Goes
  <2> QED
    BY <2>1, UnheardStep DEF Unheard, Still
<1> QED
  BY <1>1, <1>2, <1>3, <1>4, <1>5, <1>6 DEF SshStep

-----------------------------------------------------------------------------
(* MySQL and telnet *)

LEMMA MySQLInStep ==
  ASSUME svc' = "mysql", MySQLHears', pc' # "idle"
  PROVE  InStep'
BY DEF InStep, TelnetHears, RedisHears, WebHears, OthersHear

LEMMA MySQLHearsWell ==
  ASSUME ProvedInv, HeardWell, MySQLStep
  PROVE  HeardWell'
<1>1. CASE MySQLOpen
  <2>1. Open("mysql", "login", <<>>) /\ svc' = "mysql" /\ pc' = "login"
    BY <1>1 DEF MySQLOpen, Open
  <2>2. Even' /\ wire' = <<>> => InStep'
    BY <2>1, MySQLInStep DEF MySQLHears
  <2> QED
    BY <2>1, <2>2, OpeningHears
<1>2. CASE MySQLSends
  <2>1. PICK name \in MySQLNames \cup BadPackets :
          PeerSends("mysql", <<Data(name)>>, IF name \in MySQLNames THEN <<name>> ELSE <<>>, TRUE)
    BY <1>2 DEF MySQLSends, Sends
  <2>2. /\ svc = "mysql" /\ svc' = svc /\ wire = <<>> /\ wire' = <<Data(name)>> /\ pc' = pc
        /\ pc \notin {"idle", "closed"} /\ (peer'.broken <=> peer.broken)
    BY <2>1, SendingHears
  <2>3. ~ peer.broken => Even
    <3>1. pc = "login"
      BY <2>2 DEF ProvedInv, ServicesInv, InPlace, Places
    <3> QED
      BY <2>2, <3>1 DEF HeardWell, HeardInv, InStep, MySQLHears
  <2>4. \/ name \in MySQLNames /\ (Even => Owes(name)')
        \/ name \in BadPackets /\ (Even => Even')
    BY <2>1, SendingHears
  <2>5. ~ peer.broken => InStep'
    BY <2>2, <2>3, <2>4, MySQLInStep DEF MySQLHears
  <2> QED
    BY <2>1, <2>5, SendingHears
<1>3. CASE MySQLLogin
  <2>1. PICK r \in ReadBytes("mysql", "login") :
          LET name == parse_login_username(r[1]) IN
          /\ wire' = r[2] /\ pc' = "closed" /\ svc' = svc
          /\ \/ peer' = peer
             \/ name # NoUser /\ peer' = [peer EXCEPT !.heard = Append(@, name)]
    BY <1>3 DEF MySQLLogin, Closes
  <2>2. svc = "mysql" /\ pc = "login" /\ wire # <<>> /\ r \in BytesFrom(wire)
    BY DEF ReadBytes, CanRead
  <2>3. CASE peer' = peer
    BY <2>1, <2>3, ClosingStill DEF Still
  <2>4. CASE peer' # peer
    <3> DEFINE name == parse_login_username(r[1])
               h == Append(peer.heard, name)
    <3>1. name # NoUser /\ peer' = [peer EXCEPT !.heard = h]
      BY <2>1, <2>4
    <3>2. name = r[1] /\ r[1] \notin BadPackets \cup {Junk, <<>>}
      BY <3>1 DEF parse_login_username
    <3>3. wire[1].kind = "data" /\ r[1] = wire[1].v
      BY <2>2, <3>2 DEF BytesFrom
    <3> HIDE DEF name, h
    <3>4. peer'.meant = peer.meant /\ peer'.heard = h /\ peer'.broken = peer.broken
      BY <3>1, PeerFacts DEF PeerType
    <3>5. ~ peer.broken => Owes(name)
      BY <2>2, <3>2, <3>3 DEF HeardWell, HeardInv, InStep, MySQLHears, Data
    <3>6. InStep'
      BY <2>1, <2>2, ClosedIsInStep
    <3> QED
      BY <3>4, <3>5, <3>6, HearingKeeps DEF h
  <2> QED
    BY <2>3, <2>4
<1> QED
  BY <1>1, <1>2, <1>3 DEF MySQLStep

LEMMA TelnetInStep ==
  ASSUME svc' = "telnet", TelnetHears', pc' # "idle"
  PROVE  InStep'
BY DEF InStep, MySQLHears, RedisHears, WebHears, OthersHear

LEMMA ReadsLine ==
  ASSUME NEW service, NEW p, NEW r \in ReadLine(service, p)
  PROVE  svc = service /\ pc = p /\ wire # <<>> /\ r \in LinesFrom(wire)
BY DEF ReadLine, CanRead

(* A prompt of telnet: the field is what the peer typed. *)
LEMMA FieldIsMeant ==
  ASSUME HeardWell, NEW p \in {"login", "password"}, NEW r \in ReadLine("telnet", p), wire[1].kind # "long",
         StripsToTyped
  PROVE  svc = "telnet" /\ (~ peer.broken => r[2] = <<>> /\ Owes(strip_telnet_control(r[1])))
<1>1. svc = "telnet" /\ pc = p /\ wire # <<>> /\ r \in LinesFrom(wire)
  BY ReadsLine
<1>2. SUFFICES ASSUME ~ peer.broken
               PROVE  r[2] = <<>> /\ Owes(strip_telnet_control(r[1]))
  BY <1>1
<1>3. PICK segs \in LoginSegs : wire = <<Line(Bytes(segs))>> /\ Owes(Meaning(segs))
  BY <1>1, <1>2 DEF HeardWell, HeardInv, InStep, TelnetHears, Long
<1>4. wire[1].kind = "line" /\ wire[1].v = Bytes(segs) /\ Tail(wire) = <<>>
  BY <1>3 DEF Line
<1>5. r = <<wire[1].v, Tail(wire)>>
  BY <1>1, <1>4 DEF LinesFrom
<1> QED
  BY <1>3, <1>4, <1>5 DEF StripsToTyped

LEMMA TelnetHearsWell ==
  ASSUME ProvedInv, HeardWell, TelnetStep,
         StripsToTyped
  PROVE  HeardWell'
<1>1. CASE TelnetOpen
  <2> DEFINE l == [attempt |-> 1, username |-> <<>>, shell |-> NewShell(<<"root">>)]
  <2>1. Open("telnet", "login", l) /\ svc' = "telnet" /\ pc' = "login"
    BY <1>1 DEF TelnetOpen, Open
  <2> HIDE DEF l
  <2>2. Even' /\ wire' = <<>> => InStep'
    BY <2>1, TelnetInStep DEF TelnetHears
  <2> QED
    BY <2>1, <2>2, OpeningHears
<1>2. CASE TelnetSends
  <2>0. pc # "shell" /\ pc \notin {"idle", "closed"} /\ svc = "telnet" => pc \in {"login", "password"}
    BY DEF ProvedInv, ServicesInv, InPlace, Places
  <2>1. \/ /\ pc \in {"login", "password"}
           /\ \E segs \in LoginSegs : PeerSends("telnet", <<Line(Bytes(segs))>>, <<Meaning(segs)>>, TRUE)
        \/ pc = "shell" /\ \E line \in ShellLines : PeerSends("telnet", <<Line(<<line>>)>>, <<>>, TRUE)
        \/ PeerSends("telnet", <<Long>>, <<>>, TRUE)
    BY <1>2 DEF TelnetSends, Sends
  <2>2. ~ peer.broken /\ svc = "telnet" /\ pc \in {"login", "password"} /\ wire = <<>> => Even
    BY DEF HeardWell, HeardInv, InStep, TelnetHears
  <2>3. ASSUME NEW segs \in LoginSegs, pc \in {"login", "password"},
               PeerSends("telnet", <<Line(Bytes(segs))>>, <<Meaning(segs)>>, TRUE)
        PROVE  HeardWell'
    <3>1. /\ svc = "telnet" /\ wire = <<>> /\ wire' = <<Line(Bytes(segs))>> /\ svc' = svc /\ pc' = pc
          /\ Even => Owes(Meaning(segs))'
      BY <2>3, SendingHears
    <3>2. ~ peer.broken => TelnetHears'
      BY <2>2, <2>3, <3>1 DEF TelnetHears
    <3>3. ~ peer.broken => InStep'
      BY <2>3, <3>1, <3>2, TelnetInStep
    <3> QED
      BY <2>3, <3>3, SendingHears
  <2>4. ASSUME NEW line, pc = "shell", PeerSends("telnet", <<Line(<<line>>)>>, <<>>, TRUE)
        PROVE  HeardWell'
    <3>1. InStep'
      BY <2>4, SendingHears, TelnetInStep DEF TelnetHears
    <3> QED
      BY <2>4, <3>1, SendingHears
  <2>5. ASSUME PeerSends("telnet", <<Long>>, <<>>, TRUE)
        PROVE  HeardWell'
    <3>1. ~ peer.broken => InStep'
      BY <2>2, <2>5, SendingHears, TelnetInStep DEF TelnetHears
    <3> QED
      BY <2>5, <3>1, SendingHears
  <2> QED
    BY <2>1, <2>3, <2>4, <2>5
<1>3. CASE TelnetLogin
  <2>1. PICK r \in ReadLine("telnet", "login") :
          LET name == strip_telnet_control(r[1]) IN
          /\ wire[1].kind # "long" /\ wire' = r[2] /\ pc' = "password" /\ svc' = svc
          /\ peer' = [peer EXCEPT !.heard = Append(@, name)]
    BY <1>3 DEF TelnetLogin, Goes, Heard
  <2> DEFINE name == strip_telnet_control(r[1])
             h == Append(peer.heard, name)
  <2>2. svc = "telnet" /\ (~ peer.broken => wire' = <<>> /\ Owes(name))
    BY <2>1, FieldIsMeant
  <2>3. peer' = [peer EXCEPT !.heard = h]
    BY <2>1
  <2> HIDE DEF name, h
  <2>4. peer'.meant = peer.meant /\ peer'.heard = h /\ peer'.broken = peer.broken
    BY <2>3, PeerFacts DEF PeerType
  <2>5. wire' = <<>> /\ Even' => InStep'
    BY <2>1, <2>2, TelnetInStep DEF TelnetHears
  <2> QED
    BY <2>2, <2>4, <2>5, HearingKeeps DEF h
<1>4. CASE TelnetTooLong
  BY <1>4, ClosingStill DEF TelnetTooLong, Closes, Still
<1>5. CASE TelnetPassword
  <2>1. PICK r \in ReadLine("telnet", "password") :
          LET password == strip_telnet_control(r[1]) IN
          /\ wire[1].kind # "long" /\ wire' = r[2] /\ pc' \in {"shell", "login", "closed"} /\ svc' = svc
          /\ peer' = [Replies(peer, sess) EXCEPT !.heard = Append(@, password)]
    BY <1>5 DEF TelnetPassword, Goes, Closes
  <2> DEFINE name == strip_telnet_control(r[1])
             rp == Replies(peer, sess)
             h == Append(peer.heard, name)
  <2>2. svc = "telnet" /\ (~ peer.broken => wire' = <<>> /\ Owes(name))
    BY <2>1, FieldIsMeant
  <2>3. rp \in PeerType(rp) /\ rp.meant = peer.meant /\ rp.heard = peer.heard /\ rp.broken = peer.broken
    BY PeerFacts, RepliesIs
  <2>4. peer' = [rp EXCEPT !.heard = h]
    BY <2>1, <2>3
  <2> HIDE DEF name, h, rp
  <2>5. peer'.meant = peer.meant /\ peer'.heard = h /\ peer'.broken = peer.broken
    BY <2>3, <2>4 DEF PeerType
  <2>6. wire' = <<>> /\ Even' => InStep'
    BY <2>1, <2>2, TelnetInStep DEF TelnetHears
  <2> QED
    BY <2>2, <2>5, <2>6, HearingKeeps DEF h
<1>6. CASE TelnetCommand
  <2>1. /\ svc = "telnet" /\ svc' = svc /\ pc' \in {"shell", "closed"}
        /\ peer' = peer \/ \E s : peer' = Replies(peer, s)
    BY <1>6 DEF TelnetCommand, ReadLine, CanRead, Goes, Closes
  <2>2. InStep'
    BY <2>1, TelnetInStep DEF TelnetHears
  <2> QED
    BY <2>1, <2>2, ReplyIsStill, StillKeeps
<1> QED
  BY <1>1, <1>2, <1>3, <1>4, <1>5, <1>6 DEF TelnetStep

-----------------------------------------------------------------------------
(* Redis *)

LEMMA RedisInStep ==
  ASSUME svc' = "redis", RedisHears', pc' # "idle"
  PROVE  InStep'
BY DEF InStep, TelnetHears, MySQLHears, WebHears, OthersHear

LEMMA FourTokens ==
  ASSUME NEW a, NEW b, NEW c, NEW d
  PROVE  <<a, b>> \o <<c, d>> = <<a, b, c, d>>
<1> DEFINE S == {a, b, c, d}
           s == <<a, b>>
           t == <<c, d>>
           u == <<a, b, c, d>>
<1>1. /\ s \in Seq(S) /\ t \in Seq(S) /\ u \in Seq(S) /\ Len(s) = 2 /\ Len(t) = 2 /\ Len(u) = 4
      /\ s[1] = a /\ s[2] = b /\ t[1] = c /\ t[2] = d /\ u[1] = a /\ u[2] = b /\ u[3] = c /\ u[4] = d
  OBVIOUS
<1> HIDE DEF S, s, t, u
<1>0. /\ s \o t \in Seq(S) /\ Len(s \o t) = Len(s) + Len(t)
      /\ \A i \in 1 .. Len(s) + Len(t) : (s \o t)[i] = IF i <= Len(s) THEN s[i] ELSE t[i - Len(s)]
  BY <1>1, ConcatProperties, Zenon
<1>2. s \o t \in Seq(S) /\ Len(s \o t) = 4
  BY <1>0, <1>1
<1>3. \A i \in 1 .. 4 : (s \o t)[i] = IF i <= 2 THEN s[i] ELSE t[i - 2]
  BY <1>0, <1>1
<1>4. \A i \in 1 .. 4 : (s \o t)[i] = u[i]
  <2>1. (s \o t)[1] = a /\ (s \o t)[2] = b /\ (s \o t)[3] = c /\ (s \o t)[4] = d
    <3>1. 1 \in 1 .. 4 /\ 2 \in 1 .. 4 /\ 3 \in 1 .. 4 /\ 4 \in 1 .. 4 /\ 3 - 2 = 1 /\ 4 - 2 = 2
      OBVIOUS
    <3>2. (s \o t)[1] = s[1] /\ (s \o t)[2] = s[2] /\ (s \o t)[3] = t[1] /\ (s \o t)[4] = t[2]
      <4>1. ASSUME NEW i \in 1 .. 4
            PROVE  (s \o t)[i] = IF i <= 2 THEN s[i] ELSE t[i - 2]
        BY <1>3
      <4>2. 1 <= 2 /\ 2 <= 2 /\ ~ 3 <= 2 /\ ~ 4 <= 2
        OBVIOUS
      <4>3. (s \o t)[3] = t[3 - 2] /\ (s \o t)[4] = t[4 - 2]
        BY <3>1, <4>1, <4>2
      <4> QED
        BY <3>1, <4>1, <4>2, <4>3
    <3> QED
      BY <1>1, <3>2
  <2>2. \A i \in 1 .. 4 : i = 1 \/ i = 2 \/ i = 3 \/ i = 4
    OBVIOUS
  <2> QED
    BY <1>1, <2>1, <2>2
<1>5. s \o t = u
  BY <1>1, <1>2, <1>4, SeqEqual
<1> QED
  BY <1>5 DEF s, t, u

LEMMA TwoTokens ==
  ASSUME NEW a, NEW b
  PROVE  Append(<<a>>, b) = <<a, b>>
<1> DEFINE s == <<a>>
           t == <<a, b>>
           S == {a, b}
<1>1. /\ s \in Seq(S) /\ t \in Seq(S) /\ b \in S
      /\ Len(s) = 1 /\ Len(t) = 2 /\ s[1] = a /\ t[1] = a /\ t[2] = b
  OBVIOUS
<1> HIDE DEF s, t, S
<1>2. /\ Append(s, b) \in Seq(S) /\ Len(Append(s, b)) = 2
      /\ Append(s, b)[1] = a /\ Append(s, b)[2] = b
  <2>1. /\ Append(s, b) \in Seq(S) /\ Len(Append(s, b)) = Len(s) + 1
        /\ \A i \in 1 .. Len(s) : Append(s, b)[i] = s[i]
        /\ Append(s, b)[Len(s) + 1] = b
    <3>1. s \in Seq(S) /\ b \in S
      BY <1>1
    <3>2. IsTuple(s) /\ DOMAIN s = 1 .. Len(s)
      BY <3>1, TupleMember, TupleFacts
    <3>3. Append(s, b) \in Seq(S)
      BY <3>1
    <3> QED
      BY <3>2, <3>3, TupleAppend
  <2>2. Len(s) + 1 = 2 /\ 1 \in 1 .. Len(s)
    BY <1>1
  <2> QED
    BY <1>1, <2>1, <2>2
<1>3. \A i \in 1 .. 2 : Append(s, b)[i] = t[i]
  <2>1. \A i \in 1 .. 2 : i = 1 \/ i = 2
    OBVIOUS
  <2> QED
    BY <1>1, <1>2, <2>1
<1>4. Append(s, b) = t
  BY <1>1, <1>2, <1>3, SeqEqual
<1> QED
  BY <1>4 DEF s, t

LEMMA HeadToken ==
  ASSUME NEW a, NEW s, IsTuple(s)
  PROVE  Len(<<a>> \o s) = Len(s) + 1 /\ (<<a>> \o s)[1] = a /\ Tail(<<a>> \o s) = s
<1> DEFINE S == Elements(s) \cup {a}
<1>1. \A i \in DOMAIN s : s[i] \in S
  BY DEF Elements
<1>2. <<a>> \in Seq(S)
  BY DEF S
<1> HIDE DEF S
<1>3. s \in Seq(S)
  BY <1>1 DEF IsTuple
<1> DEFINE t == <<a>> \o s
<1>4. /\ t \in Seq(S) /\ Len(t) = Len(s) + 1 /\ t[1] = a
      /\ \A i \in 1 .. Len(s) : t[i + 1] = s[i]
  BY <1>2, <1>3
<1> HIDE DEF t
<1>5. Tail(t) \in Seq(S) /\ Len(Tail(t)) = Len(s) /\ \A i \in 1 .. Len(s) : Tail(t)[i] = t[i + 1]
  BY <1>3, <1>4
<1>6. Tail(t) = s
  BY <1>3, <1>4, <1>5
<1> QED
  BY <1>4, <1>6 DEF t

(* A command is one word or two. *)
LEMMA CommandFacts ==
  ASSUME NEW c \in RedisCommands
  PROVE  /\ IsTuple(c) /\ (c = <<c[1]>> \/ c = <<c[1], c[2]>>) /\ Len(c) \in {1, 2}
         /\ (Len(c) = 1 <=> c = <<c[1]>>) /\ (Len(c) = 2 <=> c = <<c[1], c[2]>>)
         /\ Len(c) > 0 /\ Len(c) <= MAX_ARRAY_LEN /\ c # <<>> /\ c[1] # "*"
         /\ \A n \in {0, 1} : n < Len(c) => c[n + 1] # BadLength
<1>1. /\ c \in Seq(STRING) /\ Len(c) \in 1 .. 2 /\ Len(c) <= MAX_ARRAY_LEN /\ c[1] # "*"
      /\ \A i \in DOMAIN c : c[i] # BadLength
  BY CommandAssumption
<1>2. Len(c) = 1 => c = <<c[1]>>
  BY <1>1
<1>3. Len(c) = 2 => c = <<c[1], c[2]>>
  BY <1>1
<1>4. IsTuple(c)
  BY <1>1, TupleMember
<1>5. Len(<<c[1]>>) = 1 /\ Len(<<c[1], c[2]>>) = 2
  OBVIOUS
<1> QED
  BY <1>1, <1>2, <1>3, <1>4, <1>5

(* What of a command is on the stream, word by word. *)
LEMMA WordsAre ==
  ASSUME NEW c \in RedisCommands, NEW n \in {0, 1}, n < Len(c)
  PROVE  LET w == WordsAfter(c, n) IN
         /\ w # <<>> /\ w[1] = Line(<<"$", c[n + 1]>>) /\ IsTuple(w)
         /\ Tail(w) # <<>> /\ Tail(w)[1] = Data(<<c[n + 1]>>) /\ IsTuple(Tail(w)) /\ IsTuple(Tail(Tail(w)))
         /\ Tail(Tail(w)) = IF n + 1 < Len(c) THEN WordsAfter(c, n + 1) ELSE <<>>
<1> DEFINE x == Line(<<"$", c[n + 1]>>)
           y == Data(<<c[n + 1]>>)
           u == Line(<<"$", c[2]>>)
           v == Data(<<c[2]>>)
           w == WordsAfter(c, n)
<1>1. Len(c) \in {1, 2}
  BY CommandFacts
<1>2. CASE n = 0 /\ Len(c) = 2
  <2>1. w = <<x, y>> \o <<u, v>> /\ WordsAfter(c, 1) = <<u, v>>
    BY <1>2 DEF WordsAfter, WordTokens
  <2> HIDE DEF x, y, u, v, w
  <2>2. w = <<x, y, u, v>> /\ Tail(w) = <<y, u, v>> /\ Tail(Tail(w)) = <<u, v>>
    <3>1. w = <<x, y, u, v>>
      BY <2>1, FourTokens
    <3>2. Tail(<<x, y, u, v>>) = <<y, u, v>>
      OBVIOUS
    <3>3. Tail(<<y, u, v>>) = <<u, v>>
      OBVIOUS
    <3> QED
      BY <3>1, <3>2, <3>3
  <2>3. /\ <<x, y, u, v>> \in Seq({x, y, u, v}) /\ <<y, u, v>> \in Seq({y, u, v}) /\ <<u, v>> \in Seq({u, v})
        /\ <<x, y, u, v>> # <<>> /\ <<x, y, u, v>>[1] = x
        /\ <<y, u, v>> # <<>> /\ <<y, u, v>>[1] = y
    OBVIOUS
  <2>4. IsTuple(w) /\ IsTuple(Tail(w)) /\ IsTuple(Tail(Tail(w)))
    BY <2>2, <2>3, TupleMember
  <2>5. /\ w # <<>> /\ w[1] = x /\ Tail(w) # <<>> /\ Tail(w)[1] = y /\ Tail(Tail(w)) = WordsAfter(c, 1)
    BY <2>1, <2>2, <2>3
  <2>6. n + 1 < Len(c) /\ WordsAfter(c, n + 1) = WordsAfter(c, 1)
    BY <1>2
  <2> QED
    BY <2>4, <2>5, <2>6 DEF x, y, w
<1>3. CASE ~ (n = 0 /\ Len(c) = 2)
  <2>1. w = <<x, y>> /\ n + 1 = Len(c)
    <3>1. ~ (n = 0 /\ Len(c) > 1) /\ n + 1 = Len(c)
      <4> DEFINE l == Len(c)
      <4>1. l \in {1, 2} /\ n < l /\ ~ (n = 0 /\ l = 2)
        BY <1>1, <1>3
      <4> HIDE DEF l
      <4>2. ~ (n = 0 /\ l > 1) /\ n + 1 = l
        BY <4>1
      <4> QED
        BY <4>2 DEF l
    <3>2. w = WordTokens(c[n + 1])
      BY <3>1 DEF WordsAfter
    <3> QED
      BY <3>1, <3>2 DEF WordTokens
  <2> HIDE DEF x, y, w
  <2>2. w = <<x, y>> /\ Tail(w) = <<y>> /\ Tail(Tail(w)) = <<>>
    BY <2>1
  <2>3. /\ <<x, y>> \in Seq({x, y}) /\ <<y>> \in Seq({y})
        /\ <<x, y>> # <<>> /\ <<x, y>>[1] = x /\ <<y>> # <<>> /\ <<y>>[1] = y
    OBVIOUS
  <2>4. IsTuple(w) /\ IsTuple(Tail(w)) /\ IsTuple(Tail(Tail(w)))
    BY <2>2, <2>3, TupleMember, EmptyIsTuple
  <2> QED
    BY <1>1, <2>1, <2>2, <2>3, <2>4 DEF x, y, w
<1> QED
  BY <1>2, <1>3

LEMMA RespIs ==
  ASSUME NEW c \in RedisCommands
  PROVE  /\ Resp(c) # <<>> /\ Resp(c)[1] = Line(<<"*", Len(c)>>) /\ Tail(Resp(c)) = WordsAfter(c, 0)
<1> DEFINE h == Line(<<"*", Len(c)>>)
           w == WordsAfter(c, 0)
<1>1. Len(c) \in {1, 2}
  BY CommandFacts
<1>2. Resp(c) = <<h>> \o w
  BY <1>1 DEF Resp, WordsAfter
<1>3. IsTuple(w)
  <2>1. 0 \in {0, 1} /\ 0 < Len(c)
    BY <1>1
  <2> QED
    BY <2>1, WordsAre
<1> HIDE DEF h, w
<1>4. Len(Resp(c)) = Len(w) + 1 /\ Resp(c)[1] = h /\ Tail(Resp(c)) = w /\ Len(w) \in Nat
  BY <1>2, <1>3, HeadToken, TupleFacts
<1>5. Len(<<>>) = 0
  OBVIOUS
<1> QED
  BY <1>4, <1>5 DEF h, w

(* A line at the front of the stream is read whole, with nothing before it. *)
LEMMA LineIsRead ==
  ASSUME NEW service, NEW p, NEW r \in ReadLine(service, p), wire[1].kind = "line"
  PROVE  r[1] = wire[1].v /\ r[2] = Tail(wire)
<1>1. r \in LinesFrom(wire)
  BY ReadsLine
<1>2. r = <<wire[1].v, Tail(wire)>>
  BY <1>1 DEF LinesFrom
<1> QED
  BY <1>2

(* A command that was read is served, and the next one may come. *)
LEMMA RedisServesHears ==
  ASSUME ProvedInv, HeardWell, svc = "redis", NEW s, NEW command, NEW p, RedisServes(s, command, p),
         p \in PeerType(p), Still(peer, p),
         ~ p.broken => /\ wire' = <<>>
                       /\ command = <<>> => Even
                       /\ command # <<>> => Owes(command)
  PROVE  HeardWell'
<1> DEFINE rp == Replies(p, s)
           h == Append(peer.heard, command)
<1>1. rp \in PeerType(rp) /\ rp.meant = p.meant /\ rp.heard = p.heard /\ rp.broken = p.broken
  BY RepliesIs
<1>2. \/ peer' = p /\ (command = <<>> \/ pc' = "closed")
      \/ command # <<>> /\ peer' = [rp EXCEPT !.heard = Append(rp.heard, command)]
  BY DEF RedisServes, Closes
<1>3. svc' = svc /\ (pc' = "closed" \/ (pc' = "command" /\ \E n : loc' = Waits(n)))
  BY DEF RedisServes, NextCommand, Closes, Goes
<1>4. wire' = <<>> /\ Even' => InStep'
  <2>1. CASE pc' = "closed"
    BY <1>3, <2>1, ClosedIsInStep
  <2>2. CASE pc' = "command"
    <3>1. loc'.parts = <<>>
      BY <1>3, <2>2 DEF Waits
    <3> QED
      BY <1>3, <2>2, <3>1, RedisInStep DEF RedisHears
  <2> QED
    BY <1>3, <2>1, <2>2
<1> HIDE DEF rp
<1>5. CASE peer' = p /\ command = <<>>
  <2>1. ~ peer'.broken => Even'
    BY <1>5 DEF Even, Still
  <2> QED
    BY <1>4, <1>5, <2>1, StillKeeps
<1>6. CASE peer' = p /\ pc' = "closed"
  BY <1>3, <1>6, ClosingStill
<1>7. CASE command # <<>> /\ peer' = [rp EXCEPT !.heard = Append(rp.heard, command)]
  <2>1. rp.heard = peer.heard /\ rp.meant = peer.meant /\ (peer.broken => rp.broken)
    BY <1>1 DEF Still
  <2>2. peer' = [rp EXCEPT !.heard = h]
    BY <1>7, <2>1
  <2> HIDE DEF h
  <2>3. peer'.meant = peer.meant /\ peer'.heard = h /\ peer'.broken = rp.broken
    BY <1>1, <2>1, <2>2 DEF PeerType
  <2> QED
    BY <1>1, <1>4, <1>7, <2>1, <2>3, HearingKeeps DEF h
<1> QED
  BY <1>2, <1>5, <1>6, <1>7

LEMMA RedisSendsWell ==
  ASSUME ProvedInv, HeardWell, RedisSends
  PROVE  HeardWell'
<1>1. \/ \E c \in RedisCommands : \E t \in {Resp(c), <<Line(c)>>} : PeerSends("redis", t, <<c>>, TRUE)
      \/ \E t \in NoCommands : PeerSends("redis", t, <<>>, TRUE)
      \/ \E t : PeerSends("redis", t, <<>>, FALSE)
  BY DEF RedisSends, Sends, SendsOdd, NoCommands
<1>2. ~ peer.broken /\ svc = "redis" /\ wire = <<>> /\ pc \notin {"idle", "closed"} =>
        pc = "command" /\ loc.parts = <<>> /\ Even
  <2>1. svc = "redis" /\ pc \notin {"idle", "closed"} => pc \in {"command", "bulk", "value"}
    BY DEF ProvedInv, ServicesInv, InPlace, Places
  <2>2. \A c \in RedisCommands : Resp(c) # <<>> /\ <<Line(c)>> # <<>>
    BY RespIs
  <2>3. \A c \in RedisCommands, n \in {0, 1} : n < Len(c) => WordsAfter(c, n) # <<>> /\ Tail(WordsAfter(c, n)) # <<>>
    BY WordsAre
  <2>4. \A x : <<Line(x)>> # <<>>
    OBVIOUS
  <2> QED
    BY <2>1, <2>2, <2>3, <2>4 DEF HeardWell, HeardInv, InStep, RedisHears, HasRead
<1>3. ASSUME NEW c \in RedisCommands, NEW t \in {Resp(c), <<Line(c)>>}, PeerSends("redis", t, <<c>>, TRUE)
      PROVE  HeardWell'
  <2>1. /\ svc = "redis" /\ wire = <<>> /\ wire' = t /\ pc \notin {"idle", "closed"} /\ svc' = svc /\ pc' = pc
        /\ loc' = loc /\ (Even => Owes(c)')
    BY <1>3, SendingHears
  <2>2. ~ peer.broken => InStep'
    BY <1>2, <1>3, <2>1, RedisInStep DEF RedisHears
  <2> QED
    BY <1>3, <2>2, SendingHears
<1>4. ASSUME NEW t \in NoCommands, PeerSends("redis", t, <<>>, TRUE)
      PROVE  HeardWell'
  <2>1. /\ svc = "redis" /\ wire = <<>> /\ wire' = t /\ pc \notin {"idle", "closed"} /\ svc' = svc /\ pc' = pc
        /\ loc' = loc /\ (Even => Even')
    BY <1>4, SendingHears
  <2>2. ~ peer.broken => InStep'
    BY <1>2, <1>4, <2>1, RedisInStep DEF RedisHears
  <2> QED
    BY <1>4, <2>2, SendingHears
<1>5. ASSUME NEW t, PeerSends("redis", t, <<>>, FALSE)
      PROVE  HeardWell'
  BY <1>5, SendingHears
<1> QED
  BY <1>1, <1>3, <1>4, <1>5

(* The first line of a command. *)
LEMMA RedisLineHears ==
  ASSUME ProvedInv, HeardWell, RedisCommandLine
  PROVE  HeardWell'
<1>1. PICK r \in ReadLine("redis", "command") :
        LET s == Counted(sess) IN
        /\ wire' = r[2]
        /\ IF r[1] = <<>> \/ r[1][1] # "*" THEN RedisServes(s, r[1], peer)
           ELSE IF ArrayLen(r[1][2])
           THEN Goes(s, "bulk") /\ loc' = [loc EXCEPT !.want = r[1][2]] /\ UNCHANGED peer
           ELSE RedisServes(s, <<>>, peer)
  BY DEF RedisCommandLine
<1>2. svc = "redis" /\ pc = "command" /\ wire # <<>>
  BY ReadsLine
<1>3. peer \in PeerType(peer) /\ Still(peer, peer)
  BY PeerFacts DEF Still
<1>4. loc \in [turn : Nat, want : {loc.want}, parts : {loc.parts}]
  BY <1>2, RedisLoc
<1>5. CASE peer.broken
  <2>1. ASSUME NEW command, RedisServes(Counted(sess), command, peer)
        PROVE  HeardWell'
    BY <1>2, <1>3, <1>5, <2>1, RedisServesHears
  <2>2. peer' = peer => HeardWell'
    BY <1>3, <1>5, StillKeeps
  <2> QED
    BY <1>1, <2>1, <2>2
<1>6. CASE ~ peer.broken
  <2>1. /\ loc.parts = <<>>
        /\ \/ wire \in NoCommands /\ Even
           \/ \E c \in RedisCommands : wire \in {Resp(c), <<Line(c)>>} /\ Owes(c)
    BY <1>2, <1>6 DEF HeardWell, HeardInv, InStep, RedisHears
  <2>2. ASSUME NEW c \in RedisCommands, wire = <<Line(c)>>, Owes(c)
        PROVE  HeardWell'
    <3>1. wire[1].kind = "line" /\ wire[1].v = c /\ Tail(wire) = <<>>
      BY <2>2 DEF Line
    <3>2. r[1] = c /\ wire' = <<>>
      BY <1>1, <3>1, LineIsRead
    <3>3. c # <<>> /\ c[1] # "*"
      BY CommandFacts
    <3>4. RedisServes(Counted(sess), c, peer)
      BY <1>1, <3>2, <3>3
    <3> QED
      BY <1>2, <1>3, <2>2, <3>2, <3>3, <3>4, RedisServesHears
  <2>3. ASSUME NEW n, wire[1] = Line(<<"*", n>>)
        PROVE  /\ wire' = Tail(wire)
               /\ ArrayLen(n) => /\ pc' = "bulk" /\ svc' = svc /\ peer' = peer
                                 /\ loc'.want = n /\ loc'.parts = loc.parts
               /\ ~ ArrayLen(n) => RedisServes(Counted(sess), <<>>, peer)
    <3>1. wire[1].kind = "line" /\ wire[1].v = <<"*", n>>
      BY <2>3 DEF Line
    <3>2. r[1] = <<"*", n>> /\ wire' = Tail(wire)
      BY <1>1, <3>1, LineIsRead
    <3>3. r[1] # <<>> /\ r[1][1] = "*" /\ r[1][2] = n
      BY <3>2
    <3>4. IF ArrayLen(n) THEN pc' = "bulk" /\ svc' = svc /\ loc' = [loc EXCEPT !.want = n] /\ peer' = peer
          ELSE RedisServes(Counted(sess), <<>>, peer)
      BY <1>1, <3>3 DEF Goes
    <3>5. loc' = [loc EXCEPT !.want = n] => loc'.want = n /\ loc'.parts = loc.parts
      BY <1>4
    <3> QED
      BY <3>2, <3>4, <3>5
  <2>4. ASSUME NEW c \in RedisCommands, wire = Resp(c), Owes(c)
        PROVE  HeardWell'
    <3>1. wire[1] = Line(<<"*", Len(c)>>) /\ Tail(wire) = WordsAfter(c, 0)
      BY <2>4, RespIs
    <3>2. ArrayLen(Len(c)) /\ 0 < Len(c)
      BY CommandFacts DEF ArrayLen
    <3>3. /\ wire' = WordsAfter(c, 0) /\ pc' = "bulk" /\ svc' = svc /\ peer' = peer
          /\ loc'.want = Len(c) /\ loc'.parts = <<>>
      BY <2>1, <2>3, <3>1, <3>2
    <3>4. HasRead(c, 0)'
      BY <2>4, <3>2, <3>3 DEF HasRead, Owes
    <3>5. InStep'
      BY <1>2, <3>3, <3>4, RedisInStep DEF RedisHears
    <3> QED
      BY <1>3, <3>3, <3>5, StillKeeps
  <2>5. ASSUME wire \in NoCommands, Even
        PROVE  HeardWell'
    <3>1. CASE wire = <<Line(<<>>)>>
      <4>1. wire[1].kind = "line" /\ wire[1].v = <<>> /\ Tail(wire) = <<>>
        BY <3>1 DEF Line
      <4>2. r[1] = <<>> /\ wire' = <<>>
        BY <1>1, <4>1, LineIsRead
      <4>3. RedisServes(Counted(sess), <<>>, peer)
        BY <1>1, <4>2
      <4> QED
        BY <1>2, <1>3, <2>5, <4>2, <4>3, RedisServesHears
    <3>2. CASE wire = <<Line(<<"*", 1>>), Line(<<"$", BadLength>>)>>
      <4>1. wire[1] = Line(<<"*", 1>>) /\ Tail(wire) = <<Line(<<"$", BadLength>>)>>
        BY <3>2
      <4>2. ArrayLen(1)
        BY RedisAssumption DEF ArrayLen
      <4>3. /\ wire' = <<Line(<<"$", BadLength>>)>> /\ pc' = "bulk" /\ svc' = svc /\ peer' = peer
            /\ loc'.parts = <<>>
        BY <2>1, <2>3, <4>1, <4>2
      <4>4. Even'
        BY <2>5, <4>3 DEF Even
      <4>5. InStep'
        BY <1>2, <4>3, <4>4, RedisInStep DEF RedisHears
      <4> QED
        BY <1>3, <4>3, <4>5, StillKeeps
    <3>3. ASSUME NEW n \in {0, MAX_ARRAY_LEN + 1}, wire = <<Line(<<"*", n>>)>>
          PROVE  HeardWell'
      <4>1. wire[1] = Line(<<"*", n>>) /\ Tail(wire) = <<>>
        BY <3>3
      <4>2. ~ ArrayLen(n)
        BY RedisAssumption DEF ArrayLen
      <4>3. wire' = <<>> /\ RedisServes(Counted(sess), <<>>, peer)
        BY <2>3, <4>1, <4>2
      <4> QED
        BY <1>2, <1>3, <2>5, <4>3, RedisServesHears
    <3> QED
      BY <2>5, <3>1, <3>2, <3>3 DEF NoCommands
  <2> QED
    BY <2>1, <2>2, <2>4, <2>5
<1> QED
  BY <1>5, <1>6

(* The header of a word. *)
LEMMA RedisBulkHears ==
  ASSUME ProvedInv, HeardWell, RedisBulk
  PROVE  HeardWell'
<1>0. peer \in PeerType(peer) /\ Still(peer, peer)
  BY PeerFacts DEF Still
<1>1. svc = "redis" /\ pc = "bulk"
  BY ReadsLine DEF RedisBulk, ReadsNone
<1>2. ~ peer.broken =>
        \/ wire = <<Line(<<"$", BadLength>>)>> /\ loc.parts = <<>> /\ Even
        \/ \E c \in RedisCommands, n \in {0, 1} : HasRead(c, n) /\ wire = WordsAfter(c, n)
  BY <1>1 DEF HeardWell, HeardInv, InStep, RedisHears
<1>3. ASSUME NEW r \in ReadLine("redis", "bulk"), wire' = r[2],
             IF r[1] # <<>> /\ r[1][1] = "$" /\ r[1][2] # BadLength
             THEN Goes(Counted(sess), "value") /\ UNCHANGED <<loc, peer>>
             ELSE RedisServes(Counted(sess), loc.parts, peer)
      PROVE  HeardWell'
  <2>1. CASE peer.broken
    <3>1. RedisServes(Counted(sess), loc.parts, peer) => HeardWell'
      BY <1>0, <1>1, <2>1, RedisServesHears
    <3>2. peer' = peer => HeardWell'
      BY <1>0, <2>1, StillKeeps
    <3> QED
      BY <1>3, <3>1, <3>2
  <2>2. ASSUME ~ peer.broken, wire = <<Line(<<"$", BadLength>>)>>, loc.parts = <<>>, Even
        PROVE  HeardWell'
    <3>1. wire[1].kind = "line" /\ wire[1].v = <<"$", BadLength>> /\ Tail(wire) = <<>>
      BY <2>2 DEF Line
    <3>2. r[1] = <<"$", BadLength>> /\ wire' = <<>>
      BY <1>3, <3>1, LineIsRead
    <3>3. RedisServes(Counted(sess), <<>>, peer)
      BY <1>3, <2>2, <3>2
    <3> QED
      BY <1>0, <1>1, <2>2, <3>2, <3>3, RedisServesHears
  <2>3. ASSUME ~ peer.broken, NEW c \in RedisCommands, NEW n \in {0, 1}, HasRead(c, n), wire = WordsAfter(c, n)
        PROVE  HeardWell'
    <3>1. n < Len(c)
      BY <2>3 DEF HasRead
    <3>2. wire[1] = Line(<<"$", c[n + 1]>>) /\ c[n + 1] # BadLength
      BY <2>3, <3>1, WordsAre, CommandFacts
    <3>3. wire[1].kind = "line" /\ wire[1].v = <<"$", c[n + 1]>>
      BY <3>2 DEF Line
    <3>4. r[1] = <<"$", c[n + 1]>> /\ wire' = Tail(WordsAfter(c, n))
      BY <1>3, <2>3, <3>3, LineIsRead
    <3>5. pc' = "value" /\ svc' = svc /\ loc' = loc /\ peer' = peer
      BY <1>3, <3>2, <3>4 DEF Goes
    <3>6. HasRead(c, n)'
      BY <2>3, <3>5 DEF HasRead, Owes
    <3>7. InStep'
      BY <1>1, <3>4, <3>5, <3>6, RedisInStep DEF RedisHears
    <3> QED
      BY <1>0, <3>5, <3>7, StillKeeps
  <2> QED
    BY <1>2, <2>1, <2>2, <2>3
<1>4. ASSUME ReadsNone("redis", "bulk"), RedisServes(sess, loc.parts, peer)
      PROVE  HeardWell'
  <2>1. wire = <<>>
    BY <1>4 DEF ReadsNone
  <2>2. \A x : <<Line(x)>> # <<>>
    OBVIOUS
  <2>3. \A c \in RedisCommands, n \in {0, 1} : n < Len(c) => WordsAfter(c, n) # <<>>
    BY WordsAre
  <2>4. peer.broken
    BY <1>2, <2>1, <2>2, <2>3 DEF HasRead
  <2> QED
    BY <1>0, <1>1, <1>4, <2>4, RedisServesHears
<1> QED
  BY <1>3, <1>4 DEF RedisBulk

LEMMA TupleTail ==
  ASSUME NEW w, IsTuple(w), w # <<>>
  PROVE  /\ IsTuple(Tail(w)) /\ Len(w) \in Nat \ {0} /\ Len(Tail(w)) = Len(w) - 1
         /\ \A i \in 1 .. Len(w) - 1 : Tail(w)[i] = w[i + 1]
<1> DEFINE S == Elements(w)
<1>1. w \in Seq(S)
  BY DEF IsTuple
<1> HIDE DEF S
<1>2. /\ Tail(w) \in Seq(S) /\ Len(w) \in Nat \ {0} /\ Len(Tail(w)) = Len(w) - 1
      /\ \A i \in 1 .. Len(w) - 1 : Tail(w)[i] = w[i + 1]
  BY <1>1
<1> QED
  BY <1>2, TupleMember

(* A read that leaves no more than the rest has all of the bytes. *)
LEMMA BytesAreRead ==
  ASSUME NEW service, NEW p, NEW r \in ReadBytes(service, p), IsTuple(wire), r[2] = Tail(wire)
  PROVE  wire[1].kind = "data" /\ r[1] = wire[1].v
<1>1. wire # <<>> /\ r \in BytesFrom(wire)
  BY DEF ReadBytes, CanRead
<1>2. /\ IsTuple(Tail(wire)) /\ Len(wire) \in Nat \ {0} /\ Len(Tail(wire)) = Len(wire) - 1
  BY <1>1, TupleTail
<1>3. wire # Tail(wire)
  <2> DEFINE t == Tail(wire)
  <2>1. Len(wire) \in Nat /\ Len(t) = Len(wire) - 1
    BY <1>2
  <2> HIDE DEF t
  <2>2. wire # t
    BY <2>1
  <2> QED
    BY <2>2 DEF t
<1>4. Len(<<Data(Junk)>> \o Tail(wire)) = Len(wire)
  BY <1>2, HeadToken
<1>5. <<Data(Junk)>> \o Tail(wire) # Tail(wire)
  <2> DEFINE t == Tail(wire)
             u == <<Data(Junk)>> \o t
  <2>1. Len(wire) \in Nat /\ Len(t) = Len(wire) - 1 /\ Len(u) = Len(wire)
    BY <1>2, <1>4
  <2> HIDE DEF t, u
  <2>2. u # t
    BY <2>1
  <2> QED
    BY <2>2 DEF t, u
<1>6. \/ wire[1].kind = "data" /\ r = <<wire[1].v, Tail(wire)>>
      \/ r = <<Junk, <<Data(Junk)>> \o Tail(wire)>>
      \/ r = <<<<>>, wire>>
  BY <1>1 DEF BytesFrom
<1> QED
  BY <1>3, <1>5, <1>6

(* What a read of bytes leaves of the history. *)
LEMMA ShortReadIs ==
  ASSUME ProvedInv, NEW b
  PROVE  LET p == [peer EXCEPT !.broken = @ \/ b] IN
         p \in PeerType(p) /\ Still(peer, p) /\ (~ p.broken => ~ peer.broken /\ ~ b)
<1> DEFINE x == peer.broken \/ b
           p == [peer EXCEPT !.broken = x]
<1>1. x \in BOOLEAN
  OBVIOUS
<1>2. (peer.broken => x) /\ (~ x => ~ peer.broken /\ ~ b)
  OBVIOUS
<1> HIDE DEF x
<1>3. p \in PeerType(p) /\ p.meant = peer.meant /\ p.heard = peer.heard /\ p.broken = x
  BY <1>1, PeerFacts DEF PeerType
<1>4. p \in PeerType(p) /\ Still(peer, p) /\ (~ p.broken => ~ peer.broken /\ ~ b)
  BY <1>2, <1>3 DEF Still
<1> QED
  BY <1>4 DEF x

LEMMA RedisValueHears ==
  ASSUME ProvedInv, HeardWell, RedisValue
  PROVE  HeardWell'
<1>1. svc = "redis" /\ pc = "value"
  BY DEF RedisValue, ReadsNone, ReadBytes, CanRead
<1>2. ~ peer.broken =>
        \E c \in RedisCommands, n \in {0, 1} : HasRead(c, n) /\ wire = Tail(WordsAfter(c, n))
  BY <1>1 DEF HeardWell, HeardInv, InStep, RedisHears
<1>3. loc \in [turn : Nat, want : {loc.want}, parts : {loc.parts}]
  BY <1>1, RedisLoc
<1>4. ASSUME NEW s, NEW word, NEW p, p \in PeerType(p), Still(peer, p), HasWord(s, word, p),
             ~ p.broken => \E c \in RedisCommands, n \in {0, 1} :
                             HasRead(c, n) /\ word = c[n + 1] /\ wire' = Tail(Tail(WordsAfter(c, n)))
      PROVE  HeardWell'
  <2> DEFINE parts == Append(loc.parts, word)
  <2>1. IF Len(parts) = loc.want THEN RedisServes(s, parts, p)
        ELSE pc' = "bulk" /\ svc' = svc /\ loc' = [loc EXCEPT !.parts = parts] /\ peer' = p
    BY <1>4 DEF HasWord, Goes
  <2>2. CASE p.broken
    <3>1. RedisServes(s, parts, p) => HeardWell'
      BY <1>1, <1>4, <2>2, RedisServesHears
    <3>2. peer' = p => HeardWell'
      BY <1>4, <2>2, StillKeeps
    <3> QED
      BY <2>1, <3>1, <3>2
  <2>3. CASE ~ p.broken
    <3>1. PICK c \in RedisCommands, n \in {0, 1} :
            HasRead(c, n) /\ word = c[n + 1] /\ wire' = Tail(Tail(WordsAfter(c, n)))
      BY <1>4, <2>3
    <3>2. n < Len(c) /\ Owes(c) /\ loc.want = Len(c) /\ loc.parts = IF n = 0 THEN <<>> ELSE <<c[1]>>
      BY <3>1 DEF HasRead
    <3>3. Tail(Tail(WordsAfter(c, n))) = IF n + 1 < Len(c) THEN WordsAfter(c, n + 1) ELSE <<>>
      BY <3>2, WordsAre
    <3>4. CASE n = 0
      <4>1. parts = <<c[1]>>
        BY <3>1, <3>2, <3>4
      <4>2. Len(parts) = 1
        BY <4>1
      <4>3. CASE Len(c) = 1
        <5>1. parts = c /\ c # <<>> /\ wire' = <<>>
          <6>1. parts = c /\ c # <<>>
            BY <4>1, <4>3, CommandFacts
          <6>2. ~ (n + 1 < Len(c))
            BY <3>4, <4>3
          <6> QED
            BY <3>1, <3>3, <6>1, <6>2
        <5>2. RedisServes(s, c, p)
          BY <2>1, <3>2, <4>2, <4>3, <5>1
        <5> QED
          BY <1>1, <1>4, <3>2, <5>1, <5>2, RedisServesHears
      <4>4. CASE Len(c) = 2
        <5>1. wire' = WordsAfter(c, 1) /\ 1 < Len(c) /\ Len(parts) # loc.want
          BY <3>1, <3>2, <3>3, <3>4, <4>2, <4>4
        <5>2. pc' = "bulk" /\ svc' = svc /\ loc' = [loc EXCEPT !.parts = <<c[1]>>] /\ peer' = p
          BY <2>1, <4>1, <5>1
        <5>3. loc'.parts = <<c[1]>> /\ loc'.want = Len(c)
          BY <1>3, <3>2, <5>2
        <5>4. HasRead(c, 1)'
          BY <1>4, <3>2, <5>1, <5>2, <5>3 DEF HasRead, Owes, Still
        <5>5. InStep'
          BY <1>1, <5>1, <5>2, <5>4, RedisInStep DEF RedisHears
        <5> QED
          BY <1>4, <5>2, <5>5, StillKeeps
      <4> QED
        BY <4>3, <4>4, CommandFacts
    <3>5. CASE n = 1
      <4>1. Len(c) = 2 /\ c = <<c[1], c[2]>>
        BY <3>2, <3>5, CommandFacts
      <4>2. parts = <<c[1], c[2]>>
        <5>1. loc.parts = <<c[1]>> /\ word = c[2]
          BY <3>1, <3>2, <3>5
        <5> QED
          BY <5>1, TwoTokens
      <4>3. wire' = <<>> /\ c # <<>>
        BY <3>1, <3>3, <3>5, <4>1
      <4>4. RedisServes(s, c, p)
        BY <2>1, <3>2, <4>1, <4>2
      <4> QED
        BY <1>1, <1>4, <3>2, <4>3, <4>4, RedisServesHears
    <3> QED
      BY <3>4, <3>5
  <2> QED
    BY <2>2, <2>3
<1>5. ASSUME NEW r \in ReadBytes("redis", "value"), wire' = r[2],
             HasWord(CountedData(sess, r[1]), IF r[1] = <<>> THEN "" ELSE r[1][1],
                     [peer EXCEPT !.broken = @ \/ r[2] # Tail(wire)])
      PROVE  HeardWell'
  <2> DEFINE b == r[2] # Tail(wire)
             p == [peer EXCEPT !.broken = @ \/ b]
             word == IF r[1] = <<>> THEN "" ELSE r[1][1]
             s == CountedData(sess, r[1])
  <2>1. p \in PeerType(p) /\ Still(peer, p) /\ (~ p.broken => ~ peer.broken /\ ~ b)
    BY ShortReadIs
  <2>2. HasWord(s, word, p)
    BY <1>5
  <2>3. ASSUME NEW c \in RedisCommands, NEW n \in {0, 1}, HasRead(c, n), wire = Tail(WordsAfter(c, n)), ~ b
        PROVE  word = c[n + 1] /\ wire' = Tail(Tail(WordsAfter(c, n)))
    <3>1. n < Len(c)
      BY <2>3 DEF HasRead
    <3>2. IsTuple(wire) /\ wire[1] = Data(<<c[n + 1]>>)
      BY <2>3, <3>1, WordsAre
    <3>3. r[1] = wire[1].v /\ wire' = Tail(wire)
      BY <1>5, <2>3, <3>2, BytesAreRead
    <3>4. r[1] = <<c[n + 1]>>
      BY <3>2, <3>3 DEF Data
    <3>5. \A x : <<x>> # <<>> /\ <<x>>[1] = x
      OBVIOUS
    <3>6. word = c[n + 1]
      BY <3>4, <3>5
    <3> QED
      BY <2>3, <3>3, <3>6
  <2> HIDE DEF b, p, word, s
  <2> QED
    BY <1>2, <1>4, <2>1, <2>2, <2>3
<1>6. ASSUME ReadsNone("redis", "value"), HasWord(sess, "", peer)
      PROVE  HeardWell'
  <2>1. \A c \in RedisCommands, n \in {0, 1} : n < Len(c) => Tail(WordsAfter(c, n)) # <<>>
    BY WordsAre
  <2>2. peer.broken
    BY <1>2, <1>6, <2>1 DEF HasRead, ReadsNone
  <2>3. peer \in PeerType(peer) /\ Still(peer, peer)
    BY PeerFacts DEF Still
  <2> QED
    BY <1>4, <1>6, <2>2, <2>3
<1> QED
  BY <1>5, <1>6 DEF RedisValue

LEMMA RedisHearsWell ==
  ASSUME ProvedInv, HeardWell, RedisStep
  PROVE  HeardWell'
<1>1. CASE RedisOpen
  <2>1. Open("redis", "command", Waits(1)) /\ svc' = "redis" /\ pc' = "command" /\ loc' = Waits(1)
    BY <1>1 DEF RedisOpen, Open
  <2>2. loc'.parts = <<>>
    BY <2>1 DEF Waits
  <2>3. Even' /\ wire' = <<>> => InStep'
    BY <2>1, <2>2, RedisInStep DEF RedisHears
  <2> QED
    BY <2>1, <2>3, OpeningHears
<1> QED
  BY <1>1, RedisSendsWell, RedisLineHears, RedisBulkHears, RedisValueHears DEF RedisStep

-----------------------------------------------------------------------------
(* HTTP and Docker *)

LEMMA FunctionIsTuple ==
  ASSUME NEW n \in Nat, NEW w, w = [k \in 1 .. n |-> w[k]]
  PROVE  IsTuple(w) /\ Len(w) = n
<1>1. \A k \in 1 .. n : w[k] \in Elements(w)
  BY DEF Elements
<1>2. w \in [1 .. n -> Elements(w)]
  BY <1>1
<1> QED
  BY <1>2 DEF IsTuple

LEMMA TupleJoin ==
  ASSUME NEW s, NEW t, IsTuple(s), IsTuple(t)
  PROVE  /\ IsTuple(s \o t) /\ Len(s \o t) = Len(s) + Len(t)
         /\ \A i \in 1 .. Len(s) : (s \o t)[i] = s[i]
         /\ \A i \in 1 .. Len(t) : (s \o t)[Len(s) + i] = t[i]
<1> DEFINE S == Elements(s) \cup Elements(t)
<1>1. /\ \A i \in DOMAIN s : s[i] \in S
      /\ \A i \in DOMAIN t : t[i] \in S
  BY DEF Elements
<1> HIDE DEF S
<1>2. s \in Seq(S) /\ t \in Seq(S)
  BY <1>1 DEF IsTuple
<1> DEFINE u == s \o t
<1>3. /\ u \in Seq(S) /\ Len(u) = Len(s) + Len(t)
      /\ \A i \in 1 .. Len(s) : u[i] = s[i]
      /\ \A i \in 1 .. Len(t) : u[Len(s) + i] = t[i]
  BY <1>2
<1> HIDE DEF u
<1>4. IsTuple(u)
  BY <1>3, TupleMember
<1> QED
  BY <1>3, <1>4 DEF u

LEMMA TupleEqual ==
  ASSUME NEW s, NEW t, IsTuple(s), IsTuple(t), Len(s) = Len(t), \A i \in 1 .. Len(s) : s[i] = t[i]
  PROVE  s = t
<1>1. DOMAIN s = DOMAIN t /\ DOMAIN s = 1 .. Len(s)
  BY TupleFacts
<1>2. s = [i \in DOMAIN s |-> s[i]] /\ t = [i \in DOMAIN t |-> t[i]]
  BY DEF IsTuple
<1> QED
  BY <1>1, <1>2

(* The rest of a request, token by token. *)
LEMMA RestIs ==
  ASSUME NEW q, q.headers \in Seq(STRING), NEW n \in Nat, n <= Len(q.headers)
  PROVE  LET w == Rest(q, n)
             left == Len(q.headers) - n
         IN  /\ IsTuple(w) /\ w # <<>> /\ Len(w) = left + (IF q.body = <<>> THEN 1 ELSE 2)
             /\ \A k \in 1 .. left : w[k] = Line(<<"header", q.headers[n + k]>>)
             /\ w[left + 1] = Line(Blank)
             /\ q.body # <<>> => w[left + 2] = Data(q.body)
<1> DEFINE left == Len(q.headers) - n
           m == left + (IF q.body = <<>> THEN 1 ELSE 2)
           w == Rest(q, n)
           E(k) == IF k <= left THEN Line(<<"header", q.headers[n + k]>>)
                   ELSE IF k = left + 1 THEN Line(Blank) ELSE Data(q.body)
<1>1. /\ left \in Nat /\ m \in Nat \ {0} /\ left + 1 \in 1 .. m /\ (q.body # <<>> => left + 2 \in 1 .. m)
      /\ 1 .. left \subseteq 1 .. m
  <2>1. left \in Nat
    OBVIOUS
  <2> HIDE DEF left
  <2>2. m \in {left + 1, left + 2} /\ (q.body # <<>> => m = left + 2)
    BY <2>1
  <2> HIDE DEF m
  <2> QED
    BY <2>1, <2>2
<1>2. w = [k \in 1 .. m |-> E(k)]
  BY DEF Rest
<1>3. \A k \in 1 .. left : E(k) = Line(<<"header", q.headers[n + k]>>)
  OBVIOUS
<1>4. E(left + 1) = Line(Blank) /\ E(left + 2) = Data(q.body)
  BY <1>1
<1>5. m = left + (IF q.body = <<>> THEN 1 ELSE 2)
  OBVIOUS
<1> HIDE DEF left, m, w, E
<1>6. \A k \in 1 .. m : w[k] = E(k)
  BY <1>2
<1>7. IsTuple(w) /\ Len(w) = m
  BY <1>1, <1>2, FunctionIsTuple
<1>8. w # <<>>
  BY <1>1, <1>7, TupleFacts
<1>9. /\ \A k \in 1 .. left : w[k] = Line(<<"header", q.headers[n + k]>>)
      /\ w[left + 1] = Line(Blank)
      /\ q.body # <<>> => w[left + 2] = Data(q.body)
  BY <1>1, <1>3, <1>4, <1>6
<1> QED
  BY <1>5, <1>7, <1>8, <1>9 DEF w, left

LEMMA RestHeader ==
  ASSUME NEW q, q.headers \in Seq(STRING), NEW n \in Nat, n < Len(q.headers)
  PROVE  /\ Rest(q, n)[1] = Line(<<"header", q.headers[n + 1]>>)
         /\ Tail(Rest(q, n)) = Rest(q, n + 1)
<1> DEFINE v == Rest(q, n)
           w == Rest(q, n + 1)
           left == Len(q.headers) - n
           l == Len(q.headers) - (n + 1)
           b == IF q.body = <<>> THEN 1 ELSE 2
<1>1. /\ left \in Nat \ {0} /\ l \in Nat /\ l = left - 1 /\ n + 1 \in Nat /\ n + 1 <= Len(q.headers)
      /\ n <= Len(q.headers)
  OBVIOUS
<1>2. /\ IsTuple(v) /\ v # <<>> /\ Len(v) = left + b
      /\ \A k \in 1 .. left : v[k] = Line(<<"header", q.headers[n + k]>>)
      /\ v[left + 1] = Line(Blank) /\ (q.body # <<>> => v[left + 2] = Data(q.body))
  BY <1>1, RestIs
<1>3. /\ IsTuple(w) /\ Len(w) = l + b
      /\ \A k \in 1 .. l : w[k] = Line(<<"header", q.headers[(n + 1) + k]>>)
      /\ w[l + 1] = Line(Blank) /\ (q.body # <<>> => w[l + 2] = Data(q.body))
  BY <1>1, RestIs
<1>4. b \in {1, 2} /\ (b = 2 => q.body # <<>>)
  OBVIOUS
<1> HIDE DEF v, w, left, l, b
<1>5. /\ IsTuple(Tail(v)) /\ Len(Tail(v)) = Len(v) - 1
      /\ \A i \in 1 .. Len(v) - 1 : Tail(v)[i] = v[i + 1]
  BY <1>2, TupleTail
<1>6. Len(v) - 1 = l + b
  BY <1>1, <1>2, <1>4
<1>7. ASSUME NEW i \in 1 .. l + b
      PROVE  v[i + 1] = w[i]
  <2>1. CASE i <= l
    <3>1. i \in 1 .. l /\ i + 1 \in 1 .. left /\ n + (i + 1) = (n + 1) + i
      BY <1>1, <2>1
    <3> QED
      BY <1>2, <1>3, <3>1
  <2>2. CASE i = l + 1
    <3>1. i + 1 = left + 1
      BY <1>1, <2>2
    <3> QED
      BY <1>2, <1>3, <2>2, <3>1
  <2>3. CASE i > l + 1
    <3>1. b = 2 /\ i = l + 2 /\ i + 1 = left + 2
      BY <1>1, <1>4, <2>3
    <3> QED
      BY <1>2, <1>3, <1>4, <3>1
  <2> QED
    BY <1>1, <1>4, <2>1, <2>2, <2>3
<1>8. Tail(v) = w
  BY <1>3, <1>5, <1>6, <1>7, TupleEqual
<1>9. v[1] = Line(<<"header", q.headers[n + 1]>>)
  BY <1>1, <1>2
<1> QED
  BY <1>8, <1>9 DEF v, w

(* After the last header. *)
LEMMA RestBlank ==
  ASSUME NEW q, q.headers \in Seq(STRING)
  PROVE  LET w == Rest(q, Len(q.headers)) IN
         w[1] = Line(Blank) /\ Tail(w) = IF q.body = <<>> THEN <<>> ELSE <<Data(q.body)>>
<1> DEFINE w == Rest(q, Len(q.headers))
           n == Len(q.headers)
           b == IF q.body = <<>> THEN 1 ELSE 2
<1>1. n \in Nat /\ n <= n /\ n - n = 0 /\ n = Len(q.headers)
  OBVIOUS
<1>2. /\ IsTuple(w) /\ w # <<>> /\ Len(w) = (n - n) + b
      /\ w[(n - n) + 1] = Line(Blank) /\ (q.body # <<>> => w[(n - n) + 2] = Data(q.body))
  BY <1>1, RestIs
<1>3. (b = 1 /\ q.body = <<>>) \/ (b = 2 /\ q.body # <<>>)
  OBVIOUS
<1> HIDE DEF n, w, b
<1>4. Len(w) = b /\ w[1] = Line(Blank) /\ (q.body # <<>> => w[2] = Data(q.body))
  <2>1. (n - n) + b = b /\ (n - n) + 1 = 1 /\ (n - n) + 2 = 2
    BY <1>1, <1>3
  <2> QED
    BY <1>2, <2>1
<1>5. /\ IsTuple(Tail(w)) /\ Len(Tail(w)) = Len(w) - 1
      /\ \A i \in 1 .. Len(w) - 1 : Tail(w)[i] = w[i + 1]
  BY <1>2, TupleTail
<1>6. CASE b = 1
  <2> DEFINE t == Tail(w)
  <2>1. IsTuple(t) /\ Len(t) = 0
    BY <1>4, <1>5, <1>6
  <2> HIDE DEF t
  <2>2. t = <<>>
    BY <2>1, TupleFacts
  <2>3. q.body = <<>>
    BY <1>3, <1>6
  <2>4. w[1] = Line(Blank) /\ Tail(w) = <<>>
    BY <1>4, <2>2 DEF t
  <2> QED
    BY <2>3, <2>4 DEF w
<1>7. CASE b = 2
  <2> DEFINE d == Data(q.body)
             t == Tail(w)
  <2>1. IsTuple(t) /\ Len(t) = 1 /\ t[1] = d
    BY <1>3, <1>4, <1>5, <1>7
  <2>2. IsTuple(<<d>>) /\ Len(<<d>>) = 1 /\ <<d>>[1] = d
    <3>1. <<d>> \in Seq({d}) /\ Len(<<d>>) = 1 /\ <<d>>[1] = d
      OBVIOUS
    <3> QED
      BY <3>1, TupleMember
  <2> HIDE DEF t, d
  <2>3. t = <<d>>
    BY <2>1, <2>2, TupleEqual
  <2> QED
    BY <1>3, <1>4, <1>7, <2>3 DEF t, d, w
<1> QED
  BY <1>3, <1>6, <1>7

LEMMA RequestIs ==
  ASSUME NEW q, q.headers \in Seq(STRING)
  PROVE  LET w == RequestTokens(q) IN
         /\ IsTuple(w) /\ w # <<>> /\ w[1] = Line(<<"GET", q.path, q.version>>)
         /\ Tail(w) = Rest(q, 0)
<1> DEFINE h == Line(<<"GET", q.path, q.version>>)
           H == [i \in DOMAIN q.headers |-> Line(<<"header", q.headers[i]>>)]
           k == Line(Blank)
           D == IF q.body = <<>> THEN <<>> ELSE <<Data(q.body)>>
           n == Len(q.headers)
           b == IF q.body = <<>> THEN 1 ELSE 2
           w == RequestTokens(q)
           R == Rest(q, 0)
<1>1. w = <<h>> \o H \o <<k>> \o D
  BY DEF RequestTokens
<1>2. n \in Nat /\ DOMAIN q.headers = 1 .. n
  OBVIOUS
<1>3. /\ IsTuple(R) /\ Len(R) = n + b
      /\ \A i \in 1 .. n : R[i] = Line(<<"header", q.headers[i]>>)
      /\ R[n + 1] = k /\ (q.body # <<>> => R[n + 2] = Data(q.body))
  <2>1. 0 \in Nat /\ 0 <= Len(q.headers) /\ Len(q.headers) - 0 = n
    BY <1>2
  <2> DEFINE l == Len(q.headers) - 0
  <2>2. /\ IsTuple(R) /\ Len(R) = l + b
        /\ \A i \in 1 .. l : R[i] = Line(<<"header", q.headers[0 + i]>>)
        /\ R[l + 1] = k /\ (q.body # <<>> => R[l + 2] = Data(q.body))
    BY <2>1, RestIs
  <2>3. l = n
    BY <2>1
  <2> HIDE DEF l, n, R, b, k
  <2>4. \A i \in 1 .. n : 0 + i = i
    BY <1>2
  <2> QED
    BY <2>2, <2>3, <2>4
<1>4. IsTuple(H) /\ Len(H) = n /\ \A i \in 1 .. n : H[i] = Line(<<"header", q.headers[i]>>)
  <2>1. H = [i \in 1 .. n |-> H[i]]
    BY <1>2
  <2>2. \A i \in 1 .. n : H[i] = Line(<<"header", q.headers[i]>>)
    BY <1>2
  <2> HIDE DEF H, n
  <2> QED
    BY <1>2, <2>1, <2>2, FunctionIsTuple
<1>5. /\ IsTuple(<<h>>) /\ Len(<<h>>) = 1 /\ <<h>>[1] = h
      /\ IsTuple(<<k>>) /\ Len(<<k>>) = 1 /\ <<k>>[1] = k
  <2> HIDE DEF h, k
  <2>1. /\ <<h>> \in Seq({h}) /\ Len(<<h>>) = 1 /\ <<h>>[1] = h
        /\ <<k>> \in Seq({k}) /\ Len(<<k>>) = 1 /\ <<k>>[1] = k
    OBVIOUS
  <2> QED
    BY <2>1, TupleMember
<1>6. /\ IsTuple(D) /\ Len(D) = b - 1 /\ b \in {1, 2} /\ (b = 2 => q.body # <<>> /\ D[1] = Data(q.body))
  <2>1. CASE q.body = <<>>
    <3>1. D = <<>> /\ b = 1
      BY <2>1
    <3> HIDE DEF D, b
    <3> QED
      BY <3>1, EmptyIsTuple
  <2>2. CASE q.body # <<>>
    <3> DEFINE d == Data(q.body)
    <3>1. D = <<d>> /\ b = 2
      BY <2>2
    <3> HIDE DEF d, D, b
    <3>2. <<d>> \in Seq({d}) /\ Len(<<d>>) = 1 /\ <<d>>[1] = d
      OBVIOUS
    <3>3. IsTuple(<<d>>)
      BY <3>2, TupleMember
    <3> QED
      BY <2>2, <3>1, <3>2, <3>3 DEF d
  <2> QED
    BY <2>1, <2>2
<1> HIDE DEF h, H, k, D, n, b, w, R
<1> DEFINE x == <<h>> \o H
           y == x \o <<k>>
           z == y \o D
<1>7. /\ IsTuple(x) /\ Len(x) = 1 + n /\ x[1] = h /\ \A i \in 1 .. n : x[1 + i] = H[i]
  <2>1. 1 \in 1 .. Len(<<h>>)
    BY <1>5
  <2> QED
    BY <1>4, <1>5, <2>1, TupleJoin
<1> HIDE DEF x
<1>8. /\ IsTuple(y) /\ Len(y) = n + 2 /\ y[1] = h /\ (\A i \in 1 .. n : y[1 + i] = H[i]) /\ y[n + 2] = k
  <2>1. /\ IsTuple(y) /\ Len(y) = Len(x) + Len(<<k>>) /\ (\A i \in 1 .. Len(x) : y[i] = x[i])
        /\ \A i \in 1 .. Len(<<k>>) : y[Len(x) + i] = <<k>>[i]
    BY <1>5, <1>7, TupleJoin
  <2> HIDE DEF y
  <2>2. 1 \in 1 .. Len(<<k>>) /\ Len(x) + 1 = n + 2 /\ Len(x) + Len(<<k>>) = n + 2
    BY <1>2, <1>5, <1>7
  <2>3. y[n + 2] = k
    BY <1>5, <2>1, <2>2
  <2>4. 1 \in 1 .. Len(x) /\ \A i \in 1 .. n : 1 + i \in 1 .. Len(x)
    BY <1>2, <1>7
  <2> QED
    BY <1>7, <2>1, <2>2, <2>3, <2>4
<1> HIDE DEF y
<1>9. /\ IsTuple(z) /\ Len(z) = n + 1 + b /\ z[1] = h /\ (\A i \in 1 .. n : z[1 + i] = H[i]) /\ z[n + 2] = k
      /\ b = 2 => z[n + 3] = Data(q.body)
  <2>1. /\ IsTuple(z) /\ Len(z) = Len(y) + Len(D) /\ (\A i \in 1 .. Len(y) : z[i] = y[i])
        /\ \A i \in 1 .. Len(D) : z[Len(y) + i] = D[i]
    BY <1>6, <1>8, TupleJoin
  <2> HIDE DEF z
  <2>2. Len(y) + Len(D) = n + 1 + b
    BY <1>2, <1>6, <1>8
  <2>3. b = 2 => 1 \in 1 .. Len(D) /\ Len(y) + 1 = n + 3
    BY <1>2, <1>6, <1>8
  <2>4. 1 \in 1 .. Len(y) /\ n + 2 \in 1 .. Len(y) /\ \A i \in 1 .. n : 1 + i \in 1 .. Len(y)
    BY <1>2, <1>8
  <2> QED
    BY <1>6, <1>8, <2>1, <2>2, <2>3, <2>4
<1>10. w = z
  BY <1>1 DEF x, y, z
<1> HIDE DEF z
<1>11. w # <<>>
  BY <1>2, <1>6, <1>9, <1>10, TupleFacts
<1>12. /\ IsTuple(Tail(w)) /\ Len(Tail(w)) = n + b
       /\ \A i \in 1 .. n + b : Tail(w)[i] = w[i + 1]
  <2>1. /\ IsTuple(Tail(w)) /\ Len(Tail(w)) = Len(w) - 1
        /\ \A i \in 1 .. Len(w) - 1 : Tail(w)[i] = w[i + 1]
    BY <1>9, <1>10, <1>11, TupleTail
  <2>2. Len(w) - 1 = n + b
    BY <1>2, <1>6, <1>9, <1>10
  <2> QED
    BY <2>1, <2>2
<1>13. ASSUME NEW i \in 1 .. n + b
       PROVE  w[i + 1] = R[i]
  <2>1. CASE i \in 1 .. n
    <3>1. i + 1 = 1 + i
      BY <2>1, <1>2
    <3> QED
      BY <1>3, <1>4, <1>9, <1>10, <2>1, <3>1
  <2>2. CASE i = n + 1
    <3>1. i + 1 = n + 2
      BY <1>2, <2>2
    <3> QED
      BY <1>3, <1>9, <1>10, <2>2, <3>1
  <2>3. CASE i > n + 1
    <3>1. b = 2 /\ i = n + 2 /\ i + 1 = n + 3
      BY <1>2, <1>6, <2>3
    <3> QED
      BY <1>3, <1>6, <1>9, <1>10, <3>1
  <2> QED
    BY <1>2, <1>6, <2>1, <2>2, <2>3
<1>14. Tail(w) = R
  BY <1>3, <1>12, <1>13, TupleEqual
<1>15. w[1] = h /\ IsTuple(w)
  BY <1>9, <1>10
<1> QED
  BY <1>11, <1>14, <1>15 DEF w, h, R

(* The two services, with what a peer may send them. *)
WebOf(service, requests) ==
  (service = "http" /\ requests = Requests) \/ (service = "docker" /\ requests = DockerRequests)

LEMMA WebInStep ==
  ASSUME NEW service, NEW requests, WebOf(service, requests),
         svc' = service, WebHears(service, requests)', pc' # "idle"
  PROVE  InStep'
<1>1. TelnetHears' /\ MySQLHears' /\ RedisHears' /\ OthersHear'
  BY DEF WebOf, TelnetHears, MySQLHears, RedisHears, OthersHear
<1>2. CASE service = "http"
  <2>1. requests = Requests
    BY <1>2 DEF WebOf
  <2>2. WebHears("docker", DockerRequests)'
    BY <1>2 DEF WebHears
  <2> QED
    BY <1>1, <1>2, <2>1, <2>2 DEF InStep
<1>3. CASE service = "docker"
  <2>1. requests = DockerRequests
    BY <1>3 DEF WebOf
  <2>2. WebHears("http", Requests)'
    BY <1>3 DEF WebHears
  <2> QED
    BY <1>1, <1>3, <2>1, <2>2 DEF InStep
<1> QED
  BY <1>2, <1>3 DEF WebOf

LEMMA WebNow ==
  ASSUME NEW service, NEW requests, WebOf(service, requests), HeardWell, svc = service
  PROVE  /\ ~ peer.broken => WebHears(service, requests)
         /\ \A q \in requests : q.headers \in Seq(STRING)
         /\ service \notin {"ftp", "ssh", "sshfull"}
<1>1. \A q \in requests : q.headers \in Seq(STRING)
  BY RequestAssumption, DockerAssumption DEF WebOf
<1> QED
  BY <1>1 DEF WebOf, HeardWell, HeardInv, InStep


LEMMA WebSendsWell ==
  ASSUME NEW service, NEW requests, WebOf(service, requests), ProvedInv, HeardWell,
         SendsRequest(service, requests)
  PROVE  HeardWell'
<1>1. \/ \E q \in requests :
           PeerSends(service, RequestTokens(q), <<<<q.path, q.body>>>>, Len(q.headers) < MAX_HEADERS)
      \/ \E t : PeerSends(service, t, <<>>, FALSE)
  BY DEF SendsRequest, SendsOdd
<1>2. ASSUME NEW t, PeerSends(service, t, <<>>, FALSE)
      PROVE  HeardWell'
  BY <1>2, SendingHears
<1>3. ASSUME NEW q \in requests,
             PeerSends(service, RequestTokens(q), <<<<q.path, q.body>>>>, Len(q.headers) < MAX_HEADERS)
      PROVE  HeardWell'
  <2> DEFINE m == <<q.path, q.body>>
             f == Len(q.headers) < MAX_HEADERS
  <2>1. PeerSends(service, RequestTokens(q), <<m>>, f)
    BY <1>3
  <2> HIDE DEF m, f
  <2>2. /\ svc = service /\ wire = <<>> /\ wire' = RequestTokens(q) /\ pc \notin {"idle", "closed"}
        /\ svc' = svc /\ pc' = pc /\ loc' = loc /\ (peer'.broken <=> peer.broken \/ ~ f)
        /\ (Even => Owes(m)') /\ ((~ peer.broken /\ ~ peer'.broken => InStep') => HeardWell')
    BY <2>1, SendingHears
  <2>3. SUFFICES ASSUME ~ peer.broken, f
                 PROVE  WebHears(service, requests)'
    BY <2>2, WebInStep
  <2>4. WebHears(service, requests) /\ \A x \in requests : x.headers \in Seq(STRING)
    BY <2>2, <2>3, WebNow
  <2>5. pc \in {"request", "headers", "body"}
    BY <2>2 DEF ProvedInv, ServicesInv, InPlace, Places, WebOf
  <2>6. CASE pc = "request"
    <3>1. \A x \in requests : RequestTokens(x) # <<>>
      BY <2>4, RequestIs
    <3>2. loc.seen = 0 /\ loc.headers = {} /\ Even
      BY <2>2, <2>4, <2>6, <3>1 DEF WebHears
    <3>3. Owes(<<q.path, q.body>>)' /\ Len(q.headers) < MAX_HEADERS
      BY <2>2, <2>3, <3>2 DEF m, f
    <3> QED
      BY <2>2, <2>6, <3>2, <3>3 DEF WebHears
  <2>7. CASE pc = "headers"
    <3>1. PICK x \in requests : loc.seen <= Len(x.headers) /\ wire = Rest(x, loc.seen)
      BY <2>2, <2>4, <2>7 DEF WebHears
    <3>2. loc.seen \in Nat
      BY <2>2, <2>7, WebFacts DEF WebLoc, WebOf
    <3>3. wire # <<>>
      BY <2>4, <3>1, <3>2, RestIs
    <3> QED
      BY <2>2, <3>3
  <2>8. CASE pc = "body"
    BY <2>2, <2>8 DEF WebHears
  <2> QED
    BY <2>5, <2>6, <2>7, <2>8
<1> QED
  BY <1>1, <1>2, <1>3

(* A request that is heard, or refused as the conversation ends. *)
LEMMA WebServed ==
  ASSUME NEW service, NEW requests, WebOf(service, requests), HeardWell, svc = service, svc' = svc,
         NEW p, Still(peer, p), NEW m, peer'.meant = p.meant, peer'.broken = p.broken,
         pc' = "closed" \/ (pc' = "request" /\ loc'.seen = 0 /\ loc'.headers = {}),
         (peer'.heard = p.heard /\ pc' = "closed") \/ peer'.heard = Append(p.heard, m),
         ~ p.broken => wire' = <<>> /\ Owes(m)
  PROVE  HeardWell'
<1>1. wire' = <<>> /\ Even' => InStep'
  <2>1. CASE pc' = "closed"
    BY <2>1, WebNow, ClosedIsInStep
  <2>2. CASE pc' # "closed"
    <3>1. wire' = <<>> /\ Even' => WebHears(service, requests)'
      BY <2>2 DEF WebHears
    <3> QED
      BY <2>2, <3>1, WebInStep
  <2> QED
    BY <2>1, <2>2
<1>2. CASE peer'.heard = p.heard /\ pc' = "closed"
  BY <1>2, ClosingStill DEF Still
<1>3. CASE peer'.heard = Append(p.heard, m)
  <2>1. peer'.meant = peer.meant /\ peer'.heard = Append(peer.heard, m) /\ (peer.broken => peer'.broken)
    BY <1>3 DEF Still
  <2> QED
    BY <1>1, <2>1, HearingKeeps
<1> QED
  BY <1>2, <1>3

(* The headers are through, and a body is announced. *)
LEMMA WebAwaitsBody ==
  ASSUME NEW service, NEW requests, WebOf(service, requests), HeardWell, svc = service, svc' = svc,
         peer' = peer, pc' = "body",
         ~ peer.broken => \E q \in requests :
                            /\ loc'.path = q.path /\ Owes(<<q.path, q.body>>)
                            /\ wire' = IF q.body = <<>> THEN <<>> ELSE <<Data(q.body)>>
  PROVE  HeardWell'
<1>1. ~ peer.broken => WebHears(service, requests)'
  BY DEF WebHears, Owes
<1>2. ~ peer.broken => InStep'
  BY <1>1, WebInStep
<1> QED
  BY <1>2, StillKeeps DEF Still

LEMMA FreshLoc ==
  ASSUME NEW n
  PROVE  LET l == [NewRequest EXCEPT !.turn = n] IN l.seen = 0 /\ l.headers = {}
BY DEF NewRequest

LEMMA HttpHandlesHears ==
  ASSUME ProvedInv, HeardWell, svc = "http", NEW s, NEW q, NEW body, NEW p, HttpHandles(s, q, body, p),
         p \in PeerType(p), Still(peer, p),
         ~ p.broken => wire' = <<>> /\ Owes(<<q.path, body>>)
  PROVE  HeardWell'
<1> DEFINE t == IF HasCredentials(q.headers, body)
                THEN Record(s, Event("AUTH_ATTEMPT", <<"form">>, {"password"})) ELSE s
           u == Record(t, HttpEvent(q.path, body))
           m == <<q.path, body>>
           rp == Replies(p, t)
           h == IF Spent(t) THEN rp.heard ELSE Append(rp.heard, m)
           st == IF Spent(t) THEN rp.status ELSE <<u.log[Len(u.log)].status, http_response_for(q.path)>>
<1>1. peer' = [rp EXCEPT !.heard = h, !.status = st]
  BY DEF HttpHandles
<1>2. \/ svc' = svc /\ pc' = "closed"
      \/ /\ svc' = svc /\ pc' = "request" /\ ~ Spent(t)
         /\ loc' = [NewRequest EXCEPT !.turn = q.turn + 1]
  BY DEF HttpHandles, Closes, Goes
<1>3. /\ rp \in PeerType(rp) /\ rp.meant = p.meant /\ rp.heard = p.heard /\ rp.broken = p.broken
  BY RepliesIs
<1>4. (h = rp.heard /\ Spent(t)) \/ h = Append(rp.heard, m)
  OBVIOUS
<1>5. Spent(t) => pc' = "closed"
  BY <1>2
<1>6. pc' = "closed" \/ (pc' = "request" /\ loc'.seen = 0 /\ loc'.headers = {})
  BY <1>2, FreshLoc
<1> HIDE DEF t, u, rp, h, st, m
<1>7. peer'.meant = p.meant /\ peer'.heard = h /\ peer'.broken = p.broken
  BY <1>1, <1>3 DEF PeerType
<1>8. (peer'.heard = p.heard /\ pc' = "closed") \/ peer'.heard = Append(p.heard, m)
  BY <1>3, <1>4, <1>5, <1>7
<1>9. WebOf("http", Requests) /\ svc' = svc
  BY <1>2 DEF WebOf
<1>10. ~ p.broken => wire' = <<>> /\ Owes(m)
  BY DEF m
<1> QED
  BY <1>6, <1>7, <1>8, <1>9, <1>10, WebServed

LEMMA HttpBodyNextHears ==
  ASSUME ProvedInv, HeardWell, svc = "http", NEW s, NEW q, HttpBodyNext(s, q),
         ~ peer.broken => \E x \in Requests :
                            /\ q.path = x.path /\ Owes(<<x.path, x.body>>)
                            /\ q.headers = HeadersOf(x, Len(x.headers))
                            /\ wire' = IF x.body = <<>> THEN <<>> ELSE <<Data(x.body)>>
  PROVE  HeardWell'
<1>1. peer \in PeerType(peer) /\ Still(peer, peer) /\ WebOf("http", Requests)
  BY PeerFacts DEF Still, WebOf
<1>2. \/ Closes(s, "error") /\ peer' = peer
      \/ Goes(s, "body") /\ loc' = q /\ peer' = peer
      \/ {"odd-length", "content-length"} \cap q.headers = {} /\ HttpHandles(s, q, <<>>, peer)
  BY DEF HttpBodyNext
<1>3. CASE Closes(s, "error") /\ peer' = peer
  BY <1>1, <1>3, ClosingStill DEF Closes
<1>4. CASE Goes(s, "body") /\ loc' = q /\ peer' = peer
  BY <1>1, <1>4, WebAwaitsBody DEF Goes
<1>5. CASE {"odd-length", "content-length"} \cap q.headers = {} /\ HttpHandles(s, q, <<>>, peer)
  <2>1. ASSUME NEW x \in Requests, q.headers = HeadersOf(x, Len(x.headers))
        PROVE  x.body = <<>>
    <3>1. x.headers \in Seq(STRING) /\ Announced(x, {"content-length", "odd-length"})
      BY RequestAssumption
    <3>2. DOMAIN x.headers = 1 .. Len(x.headers)
      BY <3>1
    <3> QED
      BY <1>5, <2>1, <3>1, <3>2 DEF Announced, HeadersOf
  <2>2. ~ peer.broken => wire' = <<>> /\ Owes(<<q.path, <<>>>>)
    BY <2>1
  <2> QED
    BY <1>1, <1>5, <2>2, HttpHandlesHears
<1> QED
  BY <1>2, <1>3, <1>4, <1>5

LEMMA HttpMalformedHears ==
  ASSUME ProvedInv, HeardWell, NEW s, HttpMalformed(s)
  PROVE  HeardWell'
<1> DEFINE rp == Replies(peer, s)
<1>1. pc' = "closed" /\ svc' = svc /\ peer' = [rp EXCEPT !.status = <<400, 400>>]
  BY DEF HttpMalformed, Closes
<1>2. rp \in PeerType(rp) /\ rp.meant = peer.meant /\ rp.heard = peer.heard /\ rp.broken = peer.broken
  BY PeerFacts, RepliesIs
<1> HIDE DEF rp
<1>3. Still(peer, peer')
  BY <1>1, <1>2 DEF PeerType, Still
<1> QED
  BY <1>1, <1>3, ClosingStill

(* One more header. *)
LEMMA HeaderIs ==
  ASSUME NEW l, WebLoc(l), NEW x
  PROVE  LET q == [l EXCEPT !.seen = @ + 1, !.headers = @ \cup {x}] IN
         q.seen = l.seen + 1 /\ q.headers = l.headers \cup {x} /\ q.path = l.path
BY DEF WebLoc

(* The line of a request. *)
LEMMA WebLine ==
  ASSUME NEW service, NEW requests, WebOf(service, requests), HeardWell, ~ peer.broken,
         NEW r \in ReadLine(service, "request")
  PROVE  /\ loc.seen = 0 /\ loc.headers = {}
         /\ \E q \in requests : /\ r[1] = <<"GET", q.path, q.version>> /\ r[2] = Rest(q, 0)
                                /\ Len(q.headers) < MAX_HEADERS /\ Owes(<<q.path, q.body>>)
<1>1. svc = service /\ pc = "request" /\ wire # <<>>
  BY ReadsLine
<1>2. WebHears(service, requests) /\ \A x \in requests : x.headers \in Seq(STRING)
  BY <1>1, WebNow
<1>3. PICK q \in requests :
        wire = RequestTokens(q) /\ Len(q.headers) < MAX_HEADERS /\ Owes(<<q.path, q.body>>)
  BY <1>1, <1>2 DEF WebHears
<1>4. wire[1] = Line(<<"GET", q.path, q.version>>) /\ Tail(wire) = Rest(q, 0)
  BY <1>2, <1>3, RequestIs
<1>5. wire[1].kind = "line" /\ wire[1].v = <<"GET", q.path, q.version>>
  BY <1>4 DEF Line
<1>6. r[1] = <<"GET", q.path, q.version>> /\ r[2] = Rest(q, 0)
  BY <1>4, <1>5, LineIsRead
<1>7. loc.seen = 0 /\ loc.headers = {}
  BY <1>1, <1>2 DEF WebHears
<1> QED
  BY <1>3, <1>6, <1>7

(* A line of the headers: a header that is not the last one read, or the end. *)
LEMMA WebHeaderLine ==
  ASSUME NEW service, NEW requests, WebOf(service, requests), HeardWell, ProvedInv, ~ peer.broken,
         NEW r \in ReadLine(service, "headers")
  PROVE  \E q \in requests :
           /\ loc.path = q.path /\ Len(q.headers) < MAX_HEADERS /\ Owes(<<q.path, q.body>>)
           /\ loc.headers = HeadersOf(q, loc.seen)
           /\ \/ /\ loc.seen < Len(q.headers) /\ ~ LastHeader(loc)
                 /\ r[1] = <<"header", q.headers[loc.seen + 1]>> /\ r[2] = Rest(q, loc.seen + 1)
              \/ /\ loc.seen = Len(q.headers) /\ r[1] = Blank
                 /\ r[2] = IF q.body = <<>> THEN <<>> ELSE <<Data(q.body)>>
<1>1. svc = service /\ pc = "headers" /\ wire # <<>>
  BY ReadsLine
<1>2. WebHears(service, requests) /\ \A x \in requests : x.headers \in Seq(STRING)
  BY <1>1, WebNow
<1>3. PICK q \in requests :
        /\ loc.path = q.path /\ loc.seen <= Len(q.headers) /\ Len(q.headers) < MAX_HEADERS
        /\ loc.headers = HeadersOf(q, loc.seen)
        /\ wire = Rest(q, loc.seen) /\ Owes(<<q.path, q.body>>)
  BY <1>1, <1>2 DEF WebHears
<1>4. loc.seen \in Nat /\ Len(q.headers) \in Nat /\ MAX_HEADERS \in Nat
  <2>1. q.headers \in Seq(STRING)
    BY <1>2
  <2>2. WebLoc(loc)
    BY <1>1, WebFacts DEF WebOf
  <2> QED
    BY <2>1, <2>2, HttpAssumption DEF WebLoc
<1>5. CASE loc.seen < Len(q.headers)
  <2>1. wire[1] = Line(<<"header", q.headers[loc.seen + 1]>>) /\ Tail(wire) = Rest(q, loc.seen + 1)
    BY <1>2, <1>3, <1>4, <1>5, RestHeader
  <2>2. wire[1].kind = "line" /\ wire[1].v = <<"header", q.headers[loc.seen + 1]>>
    BY <2>1 DEF Line
  <2>3. r[1] = <<"header", q.headers[loc.seen + 1]>> /\ r[2] = Rest(q, loc.seen + 1)
    BY <2>1, <2>2, LineIsRead
  <2>4. ~ LastHeader(loc)
    BY <1>3, <1>4, <1>5 DEF LastHeader
  <2> QED
    BY <1>3, <1>5, <2>3, <2>4
<1>6. CASE loc.seen = Len(q.headers)
  <2>1. wire[1] = Line(Blank) /\ Tail(wire) = IF q.body = <<>> THEN <<>> ELSE <<Data(q.body)>>
    BY <1>2, <1>3, <1>6, RestBlank
  <2>2. wire[1].kind = "line" /\ wire[1].v = Blank
    BY <2>1 DEF Line
  <2>3. r[1] = Blank /\ r[2] = Tail(wire)
    BY <2>2, LineIsRead
  <2> QED
    BY <1>3, <1>6, <2>1, <2>3
<1>7. loc.seen < Len(q.headers) \/ loc.seen = Len(q.headers)
  <2> DEFINE l == Len(q.headers)
             n == loc.seen
  <2>1. n \in Nat /\ l \in Nat /\ n <= l
    BY <1>3, <1>4
  <2> HIDE DEF l, n
  <2>2. n < l \/ n = l
    BY <2>1
  <2> QED
    BY <2>2 DEF l, n
<1> QED
  BY <1>5, <1>6, <1>7

(* On to the next header. *)
LEMMA WebReadsOn ==
  ASSUME NEW service, NEW requests, WebOf(service, requests), HeardWell, svc = service, svc' = svc,
         peer' = peer, pc' = "headers",
         ~ peer.broken => \E q \in requests :
           /\ loc'.path = q.path /\ loc'.seen <= Len(q.headers) /\ Len(q.headers) < MAX_HEADERS
           /\ loc'.headers = HeadersOf(q, loc'.seen)
           /\ wire' = Rest(q, loc'.seen) /\ Owes(<<q.path, q.body>>)
  PROVE  HeardWell'
<1>1. ~ peer.broken => WebHears(service, requests)'
  BY DEF WebHears, Owes
<1>2. ~ peer.broken => InStep'
  BY <1>1, WebInStep
<1> QED
  BY <1>2, StillKeeps DEF Still

LEMMA WebLineHears ==
  ASSUME NEW service, NEW requests, WebOf(service, requests), ProvedInv, HeardWell,
         NEW r \in ReadLine(service, "request"), wire' = r[2], svc' = svc, pc' = "headers", peer' = peer,
         loc'.path = IF r[1] = Junk THEN "junk" ELSE r[1][2],
         loc'.seen = loc.seen, loc'.headers = loc.headers
  PROVE  HeardWell'
<1>1. svc = service
  BY ReadsLine
<1>2. ASSUME ~ peer.broken
      PROVE  \E q \in requests :
               /\ loc'.path = q.path /\ loc'.seen <= Len(q.headers) /\ Len(q.headers) < MAX_HEADERS
               /\ loc'.headers = HeadersOf(q, loc'.seen)
               /\ wire' = Rest(q, loc'.seen) /\ Owes(<<q.path, q.body>>)
  <2>1. loc.seen = 0 /\ loc.headers = {}
    BY <1>2, WebLine
  <2>2. PICK q \in requests : /\ r[1] = <<"GET", q.path, q.version>> /\ r[2] = Rest(q, 0)
                              /\ Len(q.headers) < MAX_HEADERS /\ Owes(<<q.path, q.body>>)
    BY <1>2, WebLine
  <2>3. r[1] # Junk /\ r[1][2] = q.path
    BY <2>2 DEF Junk
  <2>4. HeadersOf(q, 0) = {}
    BY DEF HeadersOf
  <2>5. 0 <= Len(q.headers)
    <3>1. q.headers \in Seq(STRING)
      BY <1>1, WebNow
    <3> QED
      BY <3>1
  <2> QED
    BY <2>1, <2>2, <2>3, <2>4, <2>5
<1> QED
  BY <1>1, <1>2, WebReadsOn

(* The end of the headers, where a limit is not met. *)
LEMMA WebHeadersEnd ==
  ASSUME NEW service, NEW requests, WebOf(service, requests), ProvedInv, HeardWell, ~ peer.broken,
         NEW r \in ReadLine(service, "headers"), r[1] = Blank
  PROVE  \E q \in requests :
           /\ loc.path = q.path /\ Owes(<<q.path, q.body>>)
           /\ loc.headers = HeadersOf(q, Len(q.headers))
           /\ r[2] = IF q.body = <<>> THEN <<>> ELSE <<Data(q.body)>>
<1>1. PICK q \in requests :
        /\ loc.path = q.path /\ Len(q.headers) < MAX_HEADERS /\ Owes(<<q.path, q.body>>)
        /\ loc.headers = HeadersOf(q, loc.seen)
        /\ \/ /\ loc.seen < Len(q.headers) /\ ~ LastHeader(loc)
              /\ r[1] = <<"header", q.headers[loc.seen + 1]>> /\ r[2] = Rest(q, loc.seen + 1)
           \/ /\ loc.seen = Len(q.headers) /\ r[1] = Blank
              /\ r[2] = IF q.body = <<>> THEN <<>> ELSE <<Data(q.body)>>
  BY WebHeaderLine, Zenon
<1>2. r[1] # <<"header", q.headers[loc.seen + 1]>>
  <2> DEFINE h == q.headers[loc.seen + 1]
  <2> HIDE DEF h
  <2>1. <<"">> # <<"header", h>>
    OBVIOUS
  <2> QED
    BY <2>1 DEF h, Blank
<1>3. /\ loc.seen = Len(q.headers)
      /\ r[2] = IF q.body = <<>> THEN <<>> ELSE <<Data(q.body)>>
  BY <1>1, <1>2, Zenon
<1> QED
  BY <1>1, <1>3, Zenon

LEMMA WebHeaderHears ==
  ASSUME NEW service, NEW requests, WebOf(service, requests), ProvedInv, HeardWell,
         NEW r \in ReadLine(service, "headers"), r[1] # Blank, wire' = r[2],
         svc' = svc, pc' = "headers", peer' = peer,
         loc' = [loc EXCEPT !.seen = @ + 1, !.headers = @ \cup {r[1][Len(r[1])]}]
  PROVE  HeardWell'
<1>1. svc = service /\ pc = "headers"
  BY ReadsLine
<1>2. WebLoc(loc)
  BY <1>1, WebFacts DEF WebOf
<1> DEFINE h == r[1][Len(r[1])]
<1>3. loc'.seen = loc.seen + 1 /\ loc'.headers = loc.headers \cup {h} /\ loc'.path = loc.path
  BY <1>2, HeaderIs
<1>4. ASSUME ~ peer.broken
      PROVE  \E q \in requests :
               /\ loc'.path = q.path /\ loc'.seen <= Len(q.headers) /\ Len(q.headers) < MAX_HEADERS
               /\ loc'.headers = HeadersOf(q, loc'.seen)
               /\ wire' = Rest(q, loc'.seen) /\ Owes(<<q.path, q.body>>)
  <2>0. PICK q \in requests :
          /\ loc.path = q.path /\ Len(q.headers) < MAX_HEADERS /\ Owes(<<q.path, q.body>>)
          /\ loc.headers = HeadersOf(q, loc.seen)
          /\ \/ /\ loc.seen < Len(q.headers) /\ ~ LastHeader(loc)
                /\ r[1] = <<"header", q.headers[loc.seen + 1]>> /\ r[2] = Rest(q, loc.seen + 1)
             \/ /\ loc.seen = Len(q.headers) /\ r[1] = Blank
                /\ r[2] = IF q.body = <<>> THEN <<>> ELSE <<Data(q.body)>>
    BY <1>4, WebHeaderLine, Zenon
  <2>1. /\ loc.path = q.path /\ Len(q.headers) < MAX_HEADERS /\ Owes(<<q.path, q.body>>)
        /\ loc.headers = HeadersOf(q, loc.seen) /\ loc.seen < Len(q.headers)
        /\ r[1] = <<"header", q.headers[loc.seen + 1]>> /\ r[2] = Rest(q, loc.seen + 1)
    BY <2>0, Zenon
  <2>2. h = q.headers[loc.seen + 1]
    BY <2>1
  <2> HIDE DEF h
  <2>3. q.headers \in Seq(STRING) /\ loc.seen \in Nat
    BY <1>1, <1>2, WebNow DEF WebLoc
  <2>4. loc'.seen <= Len(q.headers)
    BY <1>3, <2>1, <2>3
  <2>5. 1 .. loc.seen + 1 = (1 .. loc.seen) \cup {loc.seen + 1}
    BY <2>3
  <2>6. loc'.headers = HeadersOf(q, loc'.seen)
    BY <1>3, <2>1, <2>2, <2>5 DEF HeadersOf
  <2> QED
    BY <1>3, <2>1, <2>4, <2>6
<1> QED
  BY <1>1, <1>4, WebReadsOn

(* A limit that is met loses the frame. *)
LEMMA WebNotLast ==
  ASSUME NEW service, NEW requests, WebOf(service, requests), ProvedInv, HeardWell,
         NEW r \in ReadLine(service, "headers"), r[1] # Blank, LastHeader(loc)
  PROVE  peer.broken
BY WebHeaderLine

(* The stream ends among the headers only if the frame is lost; a body that  *)
(* does not come is empty.                                                   *)
LEMMA WebCut ==
  ASSUME NEW service, NEW requests, WebOf(service, requests), ProvedInv, HeardWell, ~ peer.broken
  PROVE  /\ ~ ReadsNone(service, "headers")
         /\ ReadsNone(service, "body") => Owes(<<loc.path, <<>>>>)
<1>1. SUFFICES ASSUME svc = service, wire = <<>>
               PROVE  pc # "headers" /\ (pc = "body" => Owes(<<loc.path, <<>>>>))
  BY DEF ReadsNone
<1>2. WebHears(service, requests) /\ \A q \in requests : q.headers \in Seq(STRING)
  BY <1>1, WebNow
<1>3. pc # "headers"
  <2>1. SUFFICES ASSUME pc = "headers" PROVE FALSE
    OBVIOUS
  <2>2. PICK q \in requests : loc.seen <= Len(q.headers) /\ wire = Rest(q, loc.seen)
    BY <1>1, <1>2, <2>1 DEF WebHears
  <2>3. loc.seen \in Nat
    BY <1>1, <2>1, WebFacts DEF WebLoc, WebOf
  <2> QED
    BY <1>1, <1>2, <2>2, <2>3, RestIs
<1>4. ASSUME pc = "body"
      PROVE  Owes(<<loc.path, <<>>>>)
  <2>1. \A q \in requests : wire # RequestTokens(q)
    BY <1>1, <1>2, RequestIs
  <2>2. PICK q \in requests : /\ loc.path = q.path /\ Owes(<<q.path, q.body>>)
                              /\ wire = IF q.body = <<>> THEN <<>> ELSE <<Data(q.body)>>
    BY <1>1, <1>2, <1>4, <2>1 DEF WebHears
  <2>3. <<Data(q.body)>> # <<>>
    OBVIOUS
  <2>4. q.body = <<>>
    BY <1>1, <2>2, <2>3
  <2> QED
    BY <2>2, <2>4
<1> QED
  BY <1>3, <1>4

(* A body that is read in one piece. *)
LEMMA WebBodyRead ==
  ASSUME NEW service, NEW requests, WebOf(service, requests), HeardWell, ~ peer.broken,
         NEW r \in ReadBytes(service, "body"), r[2] = Tail(wire)
  PROVE  r[2] = <<>> /\ Owes(<<loc.path, r[1]>>)
<1>1. svc = service /\ pc = "body" /\ wire # <<>>
  BY DEF ReadBytes, CanRead
<1>2. WebHears(service, requests) /\ \A q \in requests : q.headers \in Seq(STRING)
  BY <1>1, WebNow
<1>3. ASSUME NEW q \in requests, wire = RequestTokens(q)
      PROVE  FALSE
  <2>1. IsTuple(wire) /\ wire[1] = Line(<<"GET", q.path, q.version>>)
    BY <1>2, <1>3, RequestIs
  <2>2. wire[1].kind = "line"
    BY <2>1 DEF Line
  <2> QED
    BY <2>1, <2>2, BytesAreRead
<1>4. PICK q \in requests : /\ loc.path = q.path /\ Owes(<<q.path, q.body>>)
                            /\ wire = IF q.body = <<>> THEN <<>> ELSE <<Data(q.body)>>
  BY <1>1, <1>2, <1>3 DEF WebHears
<1>5. wire = <<Data(q.body)>>
  BY <1>1, <1>4
<1> DEFINE d == Data(q.body)
<1>6. d.v = q.body
  BY DEF Data
<1>7. wire = <<d>>
  BY <1>5
<1> HIDE DEF d
<1>8. wire[1] = d /\ Tail(wire) = <<>>
  BY <1>7
<1>9. IsTuple(wire)
  <2>1. wire \in Seq({d})
    BY <1>7
  <2> QED
    BY <2>1, TupleMember
<1>10. r[1] = q.body
  BY <1>6, <1>8, <1>9, BytesAreRead
<1> QED
  BY <1>4, <1>8, <1>10

LEMMA HeaderIsNotBlank ==
  \A a : a[1] = "header" => a # Blank
<1>1. <<"">>[1] = "" /\ "" # "header"
  OBVIOUS
<1> QED
  BY <1>1 DEF Blank

LEMMA HttpHearsWell ==
  ASSUME ProvedInv, HeardWell, HttpStep
  PROVE  HeardWell'
<1>0. WebOf("http", Requests)
  BY DEF WebOf
<1>1. CASE HttpOpen
  <2>1. Open("http", "request", NewRequest)
    BY <1>1 DEF HttpOpen
  <2>2. svc' = "http" /\ pc' = "request" /\ loc'.seen = 0 /\ loc'.headers = {}
    BY <2>1 DEF Open, NewRequest
  <2>3. Even' /\ wire' = <<>> => WebHears("http", Requests)'
    BY <2>2 DEF WebHears
  <2> QED
    BY <1>0, <2>1, <2>2, <2>3, WebInStep, OpeningHears
<1>2. CASE SendsRequest("http", Requests)
  BY <1>0, <1>2, WebSendsWell
<1>3. CASE HttpRequestLine
  <2> DEFINE s == Counted(sess)
  <2>1. PICK r \in ReadLine("http", "request") :
          /\ wire' = r[2]
          /\ \/ Closes(s, "client") /\ peer' = peer
             \/ /\ Goes(s, "headers") /\ peer' = peer
                /\ \E v : loc' = [loc EXCEPT !.path = IF r[1] = Junk THEN "junk" ELSE r[1][2],
                                             !.version = v]
             \/ HttpMalformed(s)
    BY <1>3 DEF HttpRequestLine
  <2>2. svc = "http" /\ pc = "request"
    BY ReadsLine
  <2>3. CASE Closes(s, "client") /\ peer' = peer
    BY <2>3, ClosingStill DEF Closes, Still
  <2>4. CASE HttpMalformed(s)
    BY <2>4, HttpMalformedHears
  <2>5. ASSUME Goes(s, "headers"), peer' = peer,
               NEW v, loc' = [loc EXCEPT !.path = IF r[1] = Junk THEN "junk" ELSE r[1][2], !.version = v]
        PROVE  HeardWell'
    <3> DEFINE p == IF r[1] = Junk THEN "junk" ELSE r[1][2]
    <3>1. loc' = [loc EXCEPT !.path = p, !.version = v] /\ WebLoc(loc)
      BY <2>2, <2>5, WebFacts
    <3> HIDE DEF p
    <3>2. loc'.path = p /\ loc'.seen = loc.seen /\ loc'.headers = loc.headers
      BY <3>1 DEF WebLoc
    <3>3. svc' = svc /\ pc' = "headers"
      BY <2>5 DEF Goes
    <3> QED
      BY <1>0, <2>1, <2>5, <3>2, <3>3, WebLineHears DEF p
  <2> QED
    BY <2>1, <2>3, <2>4, <2>5
<1>4. CASE HttpHeader
  <2> DEFINE s == Counted(sess)
  <2>0. PICK r \in ReadLine("http", "headers") :
          LET g == [loc EXCEPT !.seen = @ + 1, !.headers = @ \cup {r[1][Len(r[1])]}] IN
          /\ wire' = r[2]
          /\ CASE r[1] = Blank -> HttpBodyNext(s, loc)
               [] r[1][1] = "header" /\ LastHeader(loc) -> HttpBodyNext(s, g)
               [] r[1][1] = "header" /\ ~ LastHeader(loc) ->
                    Goes(s, "headers") /\ loc' = g /\ UNCHANGED <<files, peer>>
               [] OTHER -> HttpMalformed(s)
    BY <1>4 DEF HttpHeader
  <2> DEFINE q == [loc EXCEPT !.seen = @ + 1, !.headers = @ \cup {r[1][Len(r[1])]}]
  <2>1. /\ wire' = r[2]
        /\ \/ r[1] = Blank /\ HttpBodyNext(s, loc)
           \/ r[1] # Blank /\ LastHeader(loc) /\ HttpBodyNext(s, q)
           \/ r[1] # Blank /\ Goes(s, "headers") /\ loc' = q /\ peer' = peer
           \/ HttpMalformed(s)
    <3>1. r[1][1] = "header" => r[1] # Blank
      BY HeaderIsNotBlank
    <3>2. /\ wire' = r[2]
          /\ CASE r[1] = Blank -> HttpBodyNext(s, loc)
               [] r[1][1] = "header" /\ LastHeader(loc) -> HttpBodyNext(s, q)
               [] r[1][1] = "header" /\ ~ LastHeader(loc) ->
                    Goes(s, "headers") /\ loc' = q /\ UNCHANGED <<files, peer>>
               [] OTHER -> HttpMalformed(s)
      BY <2>0
    <3> HIDE DEF s, q
    <3>3. CASE r[1] = Blank
      BY <3>1, <3>2, <3>3
    <3>4. CASE r[1][1] = "header" /\ LastHeader(loc)
      BY <3>1, <3>2, <3>4
    <3>5. CASE r[1][1] = "header" /\ ~ LastHeader(loc)
      BY <3>1, <3>2, <3>5
    <3>6. CASE r[1] # Blank /\ r[1][1] # "header"
      BY <3>2, <3>6
    <3> QED
      BY <3>3, <3>4, <3>5, <3>6
  <2>2. svc = "http" /\ pc = "headers"
    BY ReadsLine
  <2>3. CASE r[1] = Blank /\ HttpBodyNext(s, loc)
    <3>1. ~ peer.broken =>
            \E x \in Requests :
              /\ loc.path = x.path /\ Owes(<<x.path, x.body>>)
              /\ loc.headers = HeadersOf(x, Len(x.headers))
              /\ wire' = IF x.body = <<>> THEN <<>> ELSE <<Data(x.body)>>
      BY <1>0, <2>1, <2>3, WebHeadersEnd
    <3> QED
      BY <2>2, <2>3, <3>1, HttpBodyNextHears
  <2>4. CASE r[1] # Blank /\ LastHeader(loc) /\ HttpBodyNext(s, q)
    <3>1. peer.broken
      BY <1>0, <2>4, WebNotLast
    <3> QED
      BY <2>2, <2>4, <3>1, HttpBodyNextHears
  <2>5. CASE r[1] # Blank /\ Goes(s, "headers") /\ loc' = q /\ peer' = peer
    <3>1. svc' = svc /\ pc' = "headers"
      BY <2>5 DEF Goes
    <3> QED
      BY <1>0, <2>1, <2>5, <3>1, WebHeaderHears
  <2>6. CASE HttpMalformed(s)
    BY <2>6, HttpMalformedHears
  <2> QED
    BY <2>1, <2>3, <2>4, <2>5, <2>6
<1>5. CASE HttpCut
  <2>1. wire' = wire
    BY <1>5 DEF HttpCut
  <2>2. CASE ReadsNone("http", "headers") /\ HttpBodyNext(sess, loc)
    <3>1. peer.broken /\ svc = "http"
      BY <1>0, <2>2, WebCut DEF ReadsNone
    <3> QED
      BY <2>2, <3>1, HttpBodyNextHears
  <2>3. CASE ReadsNone("http", "body") /\ HttpHandles(sess, loc, <<>>, peer)
    <3>1. svc = "http" /\ wire' = <<>> /\ (~ peer.broken => Owes(<<loc.path, <<>>>>))
      BY <1>0, <2>1, <2>3, WebCut DEF ReadsNone
    <3>2. peer \in PeerType(peer) /\ Still(peer, peer)
      BY PeerFacts DEF Still
    <3> QED
      BY <2>3, <3>1, <3>2, HttpHandlesHears
  <2> QED
    BY <1>5, <2>2, <2>3 DEF HttpCut
<1>6. CASE HttpBody
  <2>1. PICK r \in ReadBytes("http", "body") :
          /\ wire' = r[2]
          /\ HttpHandles(CountedData(sess, r[1]), loc, r[1], [peer EXCEPT !.broken = @ \/ r[2] # Tail(wire)])
    BY <1>6 DEF HttpBody
  <2> DEFINE p == [peer EXCEPT !.broken = @ \/ r[2] # Tail(wire)]
  <2>2. p \in PeerType(p) /\ Still(peer, p) /\ (~ p.broken => ~ peer.broken /\ ~ (r[2] # Tail(wire)))
    BY ShortReadIs
  <2>3. svc = "http"
    BY DEF ReadBytes, CanRead
  <2>4. HttpHandles(CountedData(sess, r[1]), loc, r[1], p)
    BY <2>1
  <2> HIDE DEF p
  <2>5. ~ p.broken => wire' = <<>> /\ Owes(<<loc.path, r[1]>>)
    BY <1>0, <2>1, <2>2, WebBodyRead
  <2> QED
    BY <2>2, <2>3, <2>4, <2>5, HttpHandlesHears
<1> QED
  BY <1>1, <1>2, <1>3, <1>4, <1>5, <1>6 DEF HttpStep

LEMMA DockerHandlesHears ==
  ASSUME ProvedInv, HeardWell, svc = "docker", NEW s, NEW q, NEW body, NEW p, DockerHandles(s, q, body, p),
         p \in PeerType(p), Still(peer, p),
         ~ p.broken => wire' = <<>> /\ Owes(<<q.path, body>>)
  PROVE  HeardWell'
<1> DEFINE route == Route(q.path)
           t == Record(s, [Event("HTTP_REQUEST", NoUser, AssessTags(route)) EXCEPT !.status = Status_for(route)])
           m == <<q.path, body>>
           st == <<t.log[Len(t.log)].status, Responds(route)>>
<1>1. \/ pc' = "closed" /\ svc' = svc /\ peer' = p
      \/ /\ peer' = [p EXCEPT !.heard = Append(@, m), !.status = st] /\ svc' = svc
         /\ pc' = "closed" \/ (pc' = "request" /\ loc' = [NewRequest EXCEPT !.turn = q.turn + 1])
  BY DEF DockerHandles, Closes, Goes
<1> HIDE DEF t, st, m
<1>2. CASE pc' = "closed" /\ svc' = svc /\ peer' = p
  BY <1>2, ClosingStill
<1>3. CASE /\ peer' = [p EXCEPT !.heard = Append(@, m), !.status = st] /\ svc' = svc
           /\ pc' = "closed" \/ (pc' = "request" /\ loc' = [NewRequest EXCEPT !.turn = q.turn + 1])
  <2>1. pc' = "closed" \/ (pc' = "request" /\ loc'.seen = 0 /\ loc'.headers = {})
    BY <1>3, FreshLoc
  <2> DEFINE h == Append(p.heard, m)
  <2>2. peer' = [p EXCEPT !.heard = h, !.status = st]
    BY <1>3
  <2> HIDE DEF h
  <2>3. peer'.meant = p.meant /\ peer'.heard = h /\ peer'.broken = p.broken
    BY <2>2 DEF PeerType
  <2>4. WebOf("docker", DockerRequests) /\ svc' = svc
    BY <1>3 DEF WebOf
  <2>5. ~ p.broken => wire' = <<>> /\ Owes(m)
    BY DEF m
  <2>6. peer'.heard = Append(p.heard, m)
    BY <2>3 DEF h
  <2> QED
    BY <2>1, <2>3, <2>4, <2>5, <2>6, WebServed
<1> QED
  BY <1>1, <1>2, <1>3

LEMMA DockerBodyNextHears ==
  ASSUME ProvedInv, HeardWell, svc = "docker", NEW s, NEW q, DockerBodyNext(s, q),
         ~ peer.broken => \E x \in DockerRequests :
                            /\ q.path = x.path /\ Owes(<<x.path, x.body>>)
                            /\ q.headers = HeadersOf(x, Len(x.headers))
                            /\ wire' = IF x.body = <<>> THEN <<>> ELSE <<Data(x.body)>>
  PROVE  HeardWell'
<1>1. peer \in PeerType(peer) /\ Still(peer, peer) /\ WebOf("docker", DockerRequests)
  BY PeerFacts DEF Still, WebOf
<1>2. \/ Goes(s, "body") /\ loc' = q /\ peer' = peer
      \/ "content-length" \notin q.headers /\ DockerHandles(s, q, <<>>, peer)
  BY DEF DockerBodyNext
<1>3. CASE Goes(s, "body") /\ loc' = q /\ peer' = peer
  BY <1>1, <1>3, WebAwaitsBody DEF Goes
<1>4. CASE "content-length" \notin q.headers /\ DockerHandles(s, q, <<>>, peer)
  <2>1. ASSUME NEW x \in DockerRequests, q.headers = HeadersOf(x, Len(x.headers))
        PROVE  x.body = <<>>
    <3>1. x.headers \in Seq(STRING) /\ Announced(x, {"content-length"})
      BY DockerAssumption
    <3>2. DOMAIN x.headers = 1 .. Len(x.headers)
      BY <3>1
    <3> QED
      BY <1>4, <2>1, <3>1, <3>2 DEF Announced, HeadersOf
  <2>2. ~ peer.broken => wire' = <<>> /\ Owes(<<q.path, <<>>>>)
    BY <2>1
  <2> QED
    BY <1>1, <1>4, <2>2, DockerHandlesHears
<1> QED
  BY <1>2, <1>3, <1>4

LEMMA DockerHearsWell ==
  ASSUME ProvedInv, HeardWell, DockerStep
  PROVE  HeardWell'
<1>0. WebOf("docker", DockerRequests)
  BY DEF WebOf
<1>1. CASE DockerOpen
  <2>1. Open("docker", "request", NewRequest)
    BY <1>1 DEF DockerOpen
  <2>2. svc' = "docker" /\ pc' = "request" /\ loc'.seen = 0 /\ loc'.headers = {}
    BY <2>1 DEF Open, NewRequest
  <2>3. Even' /\ wire' = <<>> => WebHears("docker", DockerRequests)'
    BY <2>2 DEF WebHears
  <2> QED
    BY <1>0, <2>1, <2>2, <2>3, WebInStep, OpeningHears
<1>2. CASE SendsRequest("docker", DockerRequests)
  BY <1>0, <1>2, WebSendsWell
<1>3. CASE DockerRequestLine
  <2> DEFINE s == Counted(sess)
  <2>1. PICK r \in ReadLine("docker", "request") :
          /\ wire' = r[2] /\ peer' = peer
          /\ \/ Closes(s, "client")
             \/ /\ Goes(s, "headers")
                /\ loc' = [loc EXCEPT !.path = IF r[1] = Junk THEN "junk" ELSE r[1][2]]
    BY <1>3 DEF DockerRequestLine
  <2>2. svc = "docker" /\ pc = "request"
    BY ReadsLine
  <2>3. CASE Closes(s, "client")
    BY <2>1, <2>3, ClosingStill DEF Closes, Still
  <2>4. CASE /\ Goes(s, "headers")
             /\ loc' = [loc EXCEPT !.path = IF r[1] = Junk THEN "junk" ELSE r[1][2]]
    <3> DEFINE p == IF r[1] = Junk THEN "junk" ELSE r[1][2]
    <3>1. loc' = [loc EXCEPT !.path = p] /\ WebLoc(loc)
      BY <2>2, <2>4, WebFacts
    <3> HIDE DEF p
    <3>2. loc'.path = p /\ loc'.seen = loc.seen /\ loc'.headers = loc.headers
      BY <3>1 DEF WebLoc
    <3>3. svc' = svc /\ pc' = "headers"
      BY <2>4 DEF Goes
    <3> QED
      BY <1>0, <2>1, <3>2, <3>3, WebLineHears DEF p
  <2> QED
    BY <2>1, <2>3, <2>4
<1>4. CASE DockerHeader
  <2> DEFINE s == Counted(sess)
  <2>1. PICK r \in ReadLine("docker", "headers") :
          LET g == [loc EXCEPT !.seen = @ + 1, !.headers = @ \cup {r[1][Len(r[1])]}] IN
          /\ wire' = r[2]
          /\ \/ r[1] = Blank /\ DockerBodyNext(s, loc)
             \/ r[1] # Blank /\ LastHeader(loc) /\ DockerBodyNext(s, g)
             \/ r[1] # Blank /\ Goes(s, "headers") /\ loc' = g /\ peer' = peer
    BY <1>4 DEF DockerHeader
  <2> DEFINE q == [loc EXCEPT !.seen = @ + 1, !.headers = @ \cup {r[1][Len(r[1])]}]
  <2>2. svc = "docker" /\ pc = "headers"
    BY ReadsLine
  <2>3. CASE r[1] = Blank /\ DockerBodyNext(s, loc)
    <3>1. ~ peer.broken =>
            \E x \in DockerRequests :
              /\ loc.path = x.path /\ Owes(<<x.path, x.body>>)
              /\ loc.headers = HeadersOf(x, Len(x.headers))
              /\ wire' = IF x.body = <<>> THEN <<>> ELSE <<Data(x.body)>>
      BY <1>0, <2>1, <2>3, WebHeadersEnd
    <3> QED
      BY <2>2, <2>3, <3>1, DockerBodyNextHears
  <2>4. CASE r[1] # Blank /\ LastHeader(loc) /\ DockerBodyNext(s, q)
    <3>1. peer.broken
      BY <1>0, <2>4, WebNotLast
    <3> QED
      BY <2>2, <2>4, <3>1, DockerBodyNextHears
  <2>5. CASE r[1] # Blank /\ Goes(s, "headers") /\ loc' = q /\ peer' = peer
    <3>1. svc' = svc /\ pc' = "headers"
      BY <2>5 DEF Goes
    <3> QED
      BY <1>0, <2>1, <2>5, <3>1, WebHeaderHears
  <2> QED
    BY <2>1, <2>3, <2>4, <2>5
<1>5. CASE DockerCut
  <2>1. wire' = wire
    BY <1>5 DEF DockerCut
  <2>2. CASE ReadsNone("docker", "headers") /\ DockerBodyNext(sess, loc)
    <3>1. peer.broken /\ svc = "docker"
      BY <1>0, <2>2, WebCut DEF ReadsNone
    <3> QED
      BY <2>2, <3>1, DockerBodyNextHears
  <2>3. CASE ReadsNone("docker", "body") /\ DockerHandles(sess, loc, <<>>, peer)
    <3>1. svc = "docker" /\ wire' = <<>> /\ (~ peer.broken => Owes(<<loc.path, <<>>>>))
      BY <1>0, <2>1, <2>3, WebCut DEF ReadsNone
    <3>2. peer \in PeerType(peer) /\ Still(peer, peer)
      BY PeerFacts DEF Still
    <3> QED
      BY <2>3, <3>1, <3>2, DockerHandlesHears
  <2> QED
    BY <1>5, <2>2, <2>3 DEF DockerCut
<1>6. CASE DockerBody
  <2>1. PICK r \in ReadBytes("docker", "body") :
          /\ wire' = r[2]
          /\ DockerHandles(CountedData(sess, r[1]), loc, r[1], [peer EXCEPT !.broken = @ \/ r[2] # Tail(wire)])
    BY <1>6 DEF DockerBody
  <2> DEFINE p == [peer EXCEPT !.broken = @ \/ r[2] # Tail(wire)]
  <2>2. p \in PeerType(p) /\ Still(peer, p) /\ (~ p.broken => ~ peer.broken /\ ~ (r[2] # Tail(wire)))
    BY ShortReadIs
  <2>3. svc = "docker"
    BY DEF ReadBytes, CanRead
  <2>4. DockerHandles(CountedData(sess, r[1]), loc, r[1], p)
    BY <2>1
  <2> HIDE DEF p
  <2>5. ~ p.broken => wire' = <<>> /\ Owes(<<loc.path, r[1]>>)
    BY <1>0, <2>1, <2>2, WebBodyRead
  <2> QED
    BY <2>2, <2>3, <2>4, <2>5, DockerHandlesHears
<1> QED
  BY <1>1, <1>2, <1>3, <1>4, <1>5, <1>6 DEF DockerStep

-----------------------------------------------------------------------------
LEMMA NextHears ==
  ASSUME ProvedInv, HeardWell, Next, StripsToTyped
  PROVE  HeardWell'
<1>1. CASE OverLimit \/ Leaves
  <2>1. pc' = "closed" /\ svc' = svc /\ peer' = peer
    BY <1>1 DEF OverLimit, Leaves, Closes
  <2> QED
    BY <2>1, ClosingStill DEF Still
<1> QED
  BY <1>1, TelnetHearsWell, FtpHears, HttpHearsWell, DockerHearsWell, RedisHearsWell, MySQLHearsWell,
     SshHears DEF Next, Talks

LEMMA StutterHears ==
  ASSUME HeardWell, UNCHANGED vars
  PROVE  HeardWell'
<1>1. /\ Tuples' /\ HeardAsMeant'
  BY DEF vars, HeardWell, HeardInv, Tuples, IsTuple, Elements, HeardAsMeant
<1>2. ~ peer.broken => /\ TelnetHears' /\ MySQLHears' /\ RedisHears' /\ OthersHear'
                       /\ WebHears("http", Requests)' /\ WebHears("docker", DockerRequests)'
  BY DEF vars, HeardWell, HeardInv, InStep, TelnetHears, MySQLHears, RedisHears, OthersHear, WebHears,
     Even, Owes, HasRead
<1>3. ~ peer.broken => InStep'
  BY <1>2 DEF InStep
<1> QED
  BY <1>1, <1>3 DEF HeardWell, HeardInv, vars

LEMMA InitHears ==
  ASSUME Init
  PROVE  HeardWell
<1>1. pc = "idle" /\ peer.meant = <<>> /\ peer.heard = <<>>
  BY DEF Init, SessionInit, NewPeer
<1>2. Tuples
  BY <1>1 DEF Tuples, IsTuple, Elements
<1>3. InStep
  BY <1>1 DEF InStep, TelnetHears, MySQLHears, RedisHears, OthersHear, WebHears, Even
<1>4. Even
  BY <1>1 DEF Even
<1> QED
  BY <1>2, <1>3, <1>4, EvenFollows DEF HeardWell, HeardInv

(* What the handlers act on is what the peer sent, in its order, for every  *)
(* set of requests and commands and every limit, as long as no read came    *)
(* back short and no limit of read_line or _read_request was met.  What     *)
(* strip_telnet_control makes of a line is taken from the hypothesis.       *)
THEOREM ServicesHeardAsMeant ==
  ASSUME StripsToTyped
  PROVE  Spec => []HeardAsMeant
<1>1. Init => HeardWell
  BY InitHears
<1>2. ProvedInv /\ HeardWell /\ [Next]_vars => HeardWell'
  BY NextHears, StutterHears
<1>3. HeardWell => HeardAsMeant
  BY DEF HeardWell, HeardInv
<1> QED
  BY <1>1, <1>2, <1>3, ServicesInvariant, PTL DEF Spec

=============================================================================
