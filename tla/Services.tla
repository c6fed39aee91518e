------------------------------ MODULE Services ------------------------------
(* A conversation with any of the emulated services. *)
EXTENDS TelnetService, FTPService, DockerService, RedisService, MySQLService, SSHService

Init == SessionInit

Talks == TelnetStep \/ FtpStep \/ HttpStep \/ DockerStep \/ RedisStep \/ MySQLStep \/ SshStep \/ OverLimit

Next == Talks \/ Leaves

Spec == Init /\ [][Next]_vars

(* The peer that never hangs up and never pauses, without session_timeout_s. *)
ChattySpec == Spec /\ WF_vars(Talks)

TypeOK ==
  /\ svc \in Served
  /\ pc \in {"idle", "login", "password", "shell", "command", "settling", "request", "headers",
             "body", "bulk", "value", "banner", "packet", "auth", "channel", "closed"}
  /\ sess.event_count \in 0 .. MaxEvents /\ sess.bytes_in \in 0 .. MaxBytes + 1
  /\ sess.event_count = Len(sess.log)
  /\ sess.closed_by \in {"none", "client", "timeout", "limit", "server", "error"}

-----------------------------------------------------------------------------
Is(i, type) == sess.log[i].type = type

(* A session that is authenticated has the login in its events: a password   *)
(* attempt and, later, the success, both under the name the session carries  *)
(* (which is nobody's after an FTP PASS without USER, and the last name that *)
(* was tried before).  Only a spent budget leaves the login out.             *)
LoginIsExplained ==
  sess.authenticated /\ ~ Spent(sess) =>
    \E i, j \in DOMAIN sess.log :
      /\ i < j /\ Is(i, "AUTH_ATTEMPT") /\ Is(j, "AUTH_SUCCESS")
      /\ "password" \in sess.log[i].tags
      /\ sess.log[i].user = sess.log[j].user
      /\ sess.log[j].user = (IF sess.username = NoUser THEN <<>> ELSE sess.username)

(* No FTP upload is recorded before a login was. *)
UploadsFollowLogin ==
  \A j \in DOMAIN sess.log :
    Is(j, "FILE_UPLOAD") => \E i \in 1 .. j : Is(i, "AUTH_SUCCESS")

(* "callers use that as the signal to hang up rather than keep serving a     *)
(* flood" (session.py): once record() refuses, telnet answers no command and *)
(* no more than its three login attempts, HTTP answers the request at hand,  *)
(* and Docker none.                                                          *)
FloodIsCut ==
  /\ svc = "telnet" /\ pc # "idle" => peer.unheard <= loc.attempt
  /\ svc = "http" => peer.unheard <= 1
  /\ svc = "docker" => peer.unheard = 0

(* The status an HTTP event carries is the status the peer was sent, except  *)
(* for an exec created through the Docker API, recorded as 200 and answered  *)
(* with 201.                                                                 *)
StatusIsTrue ==
  peer.status[1] = peer.status[2] \/ (svc = "docker" /\ peer.status = <<200, 201>>)

(* Every payload file belongs to an event, but for the last body of a        *)
(* session whose budget it met.                                              *)
PayloadsAreReferenced ==
  \A body \in files :
    \/ \E i \in DOMAIN sess.log : sess.log[i].payload = body
    \/ Spent(sess) /\ pc = "closed"

(* What the handlers act on is what the peer sent, in its order, with telnet *)
(* options stripped: as long as no read came back short, no line was beyond  *)
(* the buffer and no request reached the header limit.                       *)
HeardAsMeant ==
  ~ peer.broken =>
    /\ Len(peer.heard) <= Len(peer.meant)
    /\ \A i \in DOMAIN peer.heard : peer.heard[i] = peer.meant[i]

(* The shell stands in a directory it can list, or in the home it began in,  *)
(* and it is the shell of the name that logged in, whatever names were tried *)
(* before; only a spent budget leaves that login out.                        *)
ShellIsConsistent ==
  pc = "shell" =>
    /\ loc.shell.cwd \in FAKE_FS \cup {Home(loc.shell.username)}
    /\ loc.shell.pwd = loc.shell.cwd
    /\ \A i \in DOMAIN sess.log :
         Is(i, "AUTH_SUCCESS") =>
           loc.shell.username = (IF sess.log[i].user = <<>> THEN <<"root">> ELSE sess.log[i].user)
    /\ Spent(sess) \/ \E i \in DOMAIN sess.log : Is(i, "AUTH_SUCCESS")

(* Even a peer that never stops talking is cut off, by the byte budget if by *)
(* nothing else: every read counts.  (Full-mode SSH callbacks count nothing  *)
(* and have session_timeout_s alone.)                                        *)
TalkEnds == (svc # "sshfull" /\ pc # "idle") ~> (pc = "closed")

(* What the events say of a login is true: the session's, the uploads' and   *)
(* the shell's, on every service that has one.                               *)
LoginsAreExplained == LoginIsExplained /\ UploadsFollowLogin /\ ShellIsConsistent

(* What is stored of a conversation is what happened in it: event_count is   *)
(* the number of events emitted, statuses are those that were sent, and no   *)
(* payload file is without its event.                                        *)
RecordedAsServed == TypeOK /\ StatusIsTrue /\ PayloadsAreReferenced


-----------------------------------------------------------------------------
(* The inductive invariant behind them. *)

(* Where the handler of each service may be. *)
Places ==
  CASE svc = "telnet"            -> {"login", "password", "shell"}
    [] svc = "ftp"               -> {"command", "settling"}
    [] svc \in {"http", "docker"} -> {"request", "headers", "body"}
    [] svc = "redis"             -> {"command", "bulk", "value"}
    [] svc = "mysql"             -> {"login"}
    [] svc = "ssh"               -> {"banner", "packet"}
    [] svc = "sshfull"           -> {"auth", "channel", "shell"}
    [] OTHER                     -> {}

InPlace ==
  /\ pc \in Places \cup {"idle", "closed"}
  /\ pc = "idle" => sess = NewSession /\ wire = <<>> /\ files = {} /\ peer = NewPeer
  /\ pc # "closed" => sess.bytes_in <= MaxBytes

(* What telnet reads at its prompts is what the peer typed there. *)
TelnetWire ==
  svc = "telnet" /\ pc \in {"login", "password"} /\ wire # <<>> =>
    wire = <<Long>> \/ \E segs \in LoginSegs : wire = <<Line(Bytes(segs))>>

Succeeds(i) == Is(i, "AUTH_SUCCESS")
Early == (svc = "telnet" /\ pc \in {"idle", "login", "password"}) \/ (svc = "sshfull" /\ pc \in {"idle", "auth"})

(* What each service knows of the login: before it there is no success; the  *)
(* FTP session is authenticated with one; full-mode SSH keeps the name that  *)
(* succeeded; MySQL never lets anyone in.                                    *)
LoginState ==
  /\ svc = "mysql" => ~ sess.authenticated
  /\ Early => ~ sess.authenticated /\ \A i \in DOMAIN sess.log : ~ Succeeds(i)
  /\ svc = "telnet" /\ pc # "idle" => loc.username # NoUser
  /\ svc = "ftp" /\ pc # "idle" /\ loc.authenticated /\ ~ Spent(sess) =>
       \E i \in DOMAIN sess.log : Succeeds(i)
  /\ svc = "sshfull" /\ pc \in {"channel", "shell"} =>
       /\ sess.username # NoUser
       /\ \A i \in DOMAIN sess.log : Succeeds(i) => sess.log[i].user = sess.username
       /\ Spent(sess) \/ \E i \in DOMAIN sess.log : Succeeds(i)

(* Replies to what was refused: telnet has one left for the attempt at hand, *)
(* HTTP gives one as it closes.                                              *)
FloodState ==
  /\ svc = "telnet" /\ pc \in {"login", "password"} => peer.unheard < loc.attempt
  /\ svc = "http" /\ pc # "closed" => peer.unheard = 0

ServicesInv ==
  /\ InPlace /\ TelnetWire /\ LoginState /\ FloodState
  /\ LoginsAreExplained /\ RecordedAsServed /\ FloodIsCut

-----------------------------------------------------------------------------
(* What stands between the stream and what was heard, as long as the frame   *)
(* is not lost.                                                              *)

(* All that was meant has been heard; or one thing is left. *)
Even == peer.meant = peer.heard
Owes(m) == peer.meant = Append(peer.heard, m)

(* strip_telnet_control leaves of a line what was typed. *)
StripsToTyped == \A segs \in LoginSegs : strip_telnet_control(Bytes(segs)) = Meaning(segs)

TelnetHears ==
  svc = "telnet" /\ pc \in {"login", "password"} =>
    \/ wire \in {<<>>, <<Long>>} /\ Even
    \/ \E segs \in LoginSegs : wire = <<Line(Bytes(segs))>> /\ Owes(Meaning(segs))

MySQLHears ==
  svc = "mysql" /\ pc = "login" =>
    \/ wire = <<>> /\ Even
    \/ \E name \in BadPackets : wire = <<Data(name)>> /\ Even
    \/ \E name \in MySQLNames : wire = <<Data(name)>> /\ Owes(name)

(* What comes of request q after its line and n headers. *)
Rest(q, n) ==
  LET left == Len(q.headers) - n IN
  [k \in 1 .. left + (IF q.body = <<>> THEN 1 ELSE 2) |->
     IF k <= left THEN Line(<<"header", q.headers[n + k]>>)
     ELSE IF k = left + 1 THEN Line(Blank) ELSE Data(q.body)]

(* The first n of its headers. *)
HeadersOf(q, n) == {q.headers[i] : i \in 1 .. n}

(* A request that is sent instead of a body that was announced is not taken  *)
(* for that body.                                                            *)
WebHears(service, requests) ==
  svc = service =>
    /\ pc = "request" =>
         /\ loc.seen = 0 /\ loc.headers = {}
         /\ \/ wire = <<>> /\ Even
            \/ \E q \in requests :
                 wire = RequestTokens(q) /\ Len(q.headers) < MAX_HEADERS /\ Owes(<<q.path, q.body>>)
    /\ pc = "headers" =>
         \E q \in requests :
           /\ loc.path = q.path /\ loc.seen <= Len(q.headers) /\ Len(q.headers) < MAX_HEADERS
           /\ loc.headers = HeadersOf(q, loc.seen)
           /\ wire = Rest(q, loc.seen) /\ Owes(<<q.path, q.body>>)
    /\ pc = "body" =>
         \/ \E q \in requests :
              /\ loc.path = q.path /\ Owes(<<q.path, q.body>>)
              /\ wire = IF q.body = <<>> THEN <<>> ELSE <<Data(q.body)>>
         \/ \E q \in requests : wire = RequestTokens(q)

(* What is no command, though well formed. *)
NoCommands ==
  {<<Line(<<>>)>>, <<Line(<<"*", 1>>), Line(<<"$", BadLength>>)>>}
    \cup {<<Line(<<"*", n>>)>> : n \in {0, MAX_ARRAY_LEN + 1}}

(* The words of c behind the first n. *)
WordsAfter(c, n) ==
  IF n = 0 /\ Len(c) > 1 THEN WordTokens(c[1]) \o WordTokens(c[2]) ELSE WordTokens(c[n + 1])

(* n words of c were read. *)
HasRead(c, n) ==
  /\ n < Len(c) /\ Owes(c) /\ loc.want = Len(c)
  /\ loc.parts = IF n = 0 THEN <<>> ELSE <<c[1]>>

RedisHears ==
  svc = "redis" =>
    /\ pc = "command" =>
         /\ loc.parts = <<>>
         /\ \/ wire \in NoCommands \cup {<<>>} /\ Even
            \/ \E c \in RedisCommands : wire \in {Resp(c), <<Line(c)>>} /\ Owes(c)
    /\ pc = "bulk" =>
         \/ wire = <<Line(<<"$", BadLength>>)>> /\ loc.parts = <<>> /\ Even
         \/ \E c \in RedisCommands, n \in {0, 1} : HasRead(c, n) /\ wire = WordsAfter(c, n)
    /\ pc = "value" =>
         \E c \in RedisCommands, n \in {0, 1} : HasRead(c, n) /\ wire = Tail(WordsAfter(c, n))

(* FTP and SSH have no part in the history. *)
OthersHear == svc \in {"ftp", "ssh", "sshfull"} \/ pc = "idle" => Even

InStep ==
  /\ TelnetHears /\ MySQLHears /\ RedisHears /\ OthersHear
  /\ WebHears("http", Requests) /\ WebHears("docker", DockerRequests)

HeardInv == HeardAsMeant /\ (~ peer.broken => InStep)

=============================================================================
