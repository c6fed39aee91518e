----------------------------- MODULE SSHService -----------------------------
(***************************************************************************)
(* honeypot/services/ssh_service.py.  "ssh" is fingerprint mode; "sshfull" *)
(* is the part of full mode that records: the callbacks of                 *)
(* _ParamikoHandler on the transport thread and _serve_fake_shell on the   *)
(* executor thread.  Sensor models how those threads start and end.        *)
(***************************************************************************)
EXTENDS ServiceSession, FakeShell
LOCAL INSTANCE SequencesExt

CONSTANTS
  SshUsers,
  SshLines,    \* command lines of the shell
  KexPackets   \* records [size, lists]: payload bytes after the cookie, and the
               \* lengths its name-lists declare

(* The name that stands for None is not one that a peer types. *)
ASSUME SshAssumption == NoUser \notin SshUsers

(* _read_binary_packet accepts lengths of 8 to 35000; padding must leave a   *)
(* payload.                                                                  *)
BadPacketLength == <<"length">>
BadPadding == <<"padding">>

(* parse_kexinit: every list has to fit behind its length.  -1: it did not.  *)
parse_kexinit(k) ==
  FoldLeft(LAMBDA left, n : IF left < 4 \/ n > left - 4 THEN 0 - 1 ELSE left - 4 - n,
           k.size, k.lists) >= 0

SshSends ==
  \/ pc = "banner" /\ Sends("ssh", <<Line(<<"SSH-2.0">>)>>, <<>>)
  \/ pc = "banner" /\ Sends("ssh", <<Long>>, <<>>)
  \/ pc = "packet" /\ \E k \in KexPackets : Sends("ssh", <<Data(<<"kex", k>>)>>, <<>>)
  \/ pc = "packet" /\ \E bad \in {BadPacketLength, BadPadding} : Sends("ssh", <<Data(bad)>>, <<>>)

SshOpen == Open("ssh", "banner", <<>>)

(* The version exchange of _handle_fingerprint. *)
SshBanner ==
  \E r \in ReadLine("ssh", "banner") :
    /\ wire' = r[2]
    /\ Goes(Record(Counted(sess), Event("CONNECT", NoUser, {"ssh-version-exchange"})), "packet")
    /\ UNCHANGED <<loc, files, peer>>

(* One packet, read exactly; a length out of range is not counted.           *)
SshPacket ==
  /\ CanRead("ssh", "packet")
  /\ LET packet == wire[1].v
         s == Counted(sess)
     IN  CASE packet = BadPacketLength ->
                Closes(Record(sess, Event("ERROR", NoUser, {"oversized-ssh-packet"})), "client")
           [] packet = BadPadding -> Closes(s, "client")
           [] OTHER ->
                IF packet[1] = "kex" /\ parse_kexinit(packet[2])
                THEN Closes(Record(s, Event("CONNECT", NoUser, {"hassh"})), "client")
                ELSE Closes(Record(s, Event("ERROR", NoUser, {"malformed-kexinit"})), "client")
  /\ wire' = Tail(wire)
  /\ UNCHANGED <<files, peer>>

-----------------------------------------------------------------------------
(* Full mode *)

FullOpen == Open("sshfull", "auth", [attempts |-> 0, shell |-> NewShell(<<"root">>), open |-> FALSE])

Full == svc = "sshfull" /\ pc \notin {"idle", "closed"}

(* paramiko gives up after ten attempts and asks no more after a success.    *)
MaxAuth == 3
MayAuth == Full /\ pc = "auth" /\ loc.attempts < MaxAuth

NameTried(s, u, ok) == [s EXCEPT !.username = u, !.authenticated = @ \/ ok]

(* check_auth_password: the name is the session's from the attempt on.       *)
check_auth_password ==
  /\ MayAuth
  /\ loc' = [loc EXCEPT !.attempts = @ + 1]
  /\ \E u \in SshUsers, ok \in BOOLEAN :
       LET s == Record(sess, Event("AUTH_ATTEMPT", u, {"password"}))
           t == IF ok THEN Record(s, Event("AUTH_SUCCESS", u, {})) ELSE s
       IN  Goes(NameTried(t, u, ok), IF ok THEN "channel" ELSE "auth")
  /\ peer' = Replies(peer, sess)
  /\ UNCHANGED <<wire, files>>

check_auth_publickey ==
  /\ MayAuth
  /\ loc' = [loc EXCEPT !.attempts = @ + 1]
  /\ \E u \in SshUsers : Goes(Record(sess, Event("AUTH_ATTEMPT", u, {})), "auth")
  /\ peer' = Replies(peer, sess)
  /\ UNCHANGED <<wire, files>>

(* check_channel_request: a session channel is opened, which is what         *)
(* transport.accept waits for and the shell then serves; others are refused. *)
check_channel_request ==
  /\ Full /\ pc \in {"channel", "shell"}
  /\ \/ /\ ~ loc.open
        /\ loc' = [loc EXCEPT !.open = TRUE,
                              !.shell = NewShell(IF sess.username \in {NoUser, <<>>} THEN <<"root">>
                                                 ELSE sess.username)]
        /\ Goes(sess, "shell") /\ UNCHANGED peer
     \/ /\ Goes(Record(sess, Event("CONNECT", NoUser, {"channel-request"})), pc)
        /\ peer' = Replies(peer, sess) /\ UNCHANGED loc
  /\ UNCHANGED <<wire, files>>

check_channel_exec_request ==
  /\ Full /\ pc = "shell"
  /\ Goes(Record(sess, Event("COMMAND", sess.username, {"ssh-exec"})), pc)
  /\ peer' = Replies(peer, sess)
  /\ UNCHANGED <<loc, wire, files>>

(* A line of _serve_fake_shell.  The exception of count_bytes is caught in   *)
(* _paramiko_session, so the session ends as if the peer had left.           *)
FullLine ==
  /\ Full /\ pc = "shell"
  /\ \E line \in SshLines :
       LET s == Counted(sess)
           ran == Run(loc.shell, line)
           t == Record(s, Event("COMMAND", sess.username, {"ssh-shell"}))
       IN  IF s.bytes_in > MaxBytes THEN Closes(s, "client")
           ELSE IF line.cmd = "" THEN Goes(s, "shell") /\ UNCHANGED loc
           ELSE IF Spent(s) \/ ran[2] = EXIT THEN Closes(t, "client")
           ELSE Goes(t, "shell") /\ loc' = [loc EXCEPT !.shell = ran[1]]
  /\ UNCHANGED <<wire, files, peer>>

SshStep ==
  \/ SshOpen \/ SshSends \/ SshBanner \/ SshPacket
  \/ FullOpen \/ check_auth_password \/ check_auth_publickey
  \/ check_channel_request \/ check_channel_exec_request \/ FullLine

=============================================================================
