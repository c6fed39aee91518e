----------------------------- MODULE FTPService -----------------------------
(* honeypot/services/ftp_service.py.  A line is <<command, argument>>.       *)
EXTENDS ServiceSession

CONSTANT FtpUsers    \* names a peer may log in with

(* FEAT answers like SYST, AUTH and OPTS like HELP. *)
PREAUTH_COMMANDS == {"USER", "PASS", "QUIT", "SYST", "HELP", "NOOP"}

(* One command for each branch of _dispatch; HELP is an unknown one that may *)
(* precede the login.                                                        *)
FtpCommands == PREAUTH_COMMANDS \cup {"PWD", "CWD", "TYPE", "PASV", "PORT", "LIST", "STOR", "RETR", "DELE"}

Unrecorded == {"SYST", "PWD", "TYPE", "QUIT", "NOOP"}

FtpSends ==
  \/ \E c \in FtpCommands \ {"USER", "CWD"} : Sends("ftp", <<Line(<<c, <<"arg">>>>)>>, <<>>)
  \/ \E path \in {<<"pub">>, <<"/", "pub">>} : Sends("ftp", <<Line(<<"CWD", path>>)>>, <<>>)
  \/ \E u \in FtpUsers : Sends("ftp", <<Line(<<"USER", u>>)>>, <<>>)
  \/ Sends("ftp", <<Line(<<"", <<>>>>)>>, <<>>)
  \/ Sends("ftp", <<Long, Line(<<"NOOP", <<>>>>)>>, <<>>)

FtpOpen == Open("ftp", "command", [username |-> NoUser, authenticated |-> FALSE, cwd |-> <<"/">>])

(* The events of _dispatch; nobody looks at what record() returns. *)
FtpRecords(s, command, argument) ==
  CASE command = "USER" -> Record(s, Event("AUTH_ATTEMPT", argument, {"ftp-user"}))
    [] command = "STOR" -> Record(s, Event("FILE_UPLOAD", NoUser, {}))
    [] command \in Unrecorded -> s
    [] OTHER -> Record(s, Event("COMMAND", NoUser, {}))

(* The name PASS is recorded with: the last USER, or "". *)
LoginName == IF loc.username = NoUser THEN <<>> ELSE loc.username

(* Mutant: any PASS logs in. *)
Pass_Any(s) ==
  LET t == Record(s, Event("AUTH_ATTEMPT", LoginName, {"password"}))
      accepted == Record(t, Event("AUTH_SUCCESS", LoginName, {}))
  IN  \E ok \in BOOLEAN :
        /\ Goes([(IF ok THEN accepted ELSE t) EXCEPT !.authenticated = TRUE, !.username = loc.username],
                "command")
        /\ loc' = [loc EXCEPT !.authenticated = TRUE]

(* PASS: the attempt, and on a whim the success; 230 makes the transition.   *)
Pass(s) ==
  LET t == Record(s, Event("AUTH_ATTEMPT", LoginName, {"password"}))
      accepted == Record(t, Event("AUTH_SUCCESS", LoginName, {}))
  IN  \/ /\ Goes([accepted EXCEPT !.authenticated = TRUE, !.username = loc.username], "command")
         /\ loc' = [loc EXCEPT !.authenticated = TRUE]
      \/ Goes(t, "command") /\ UNCHANGED loc

(* CWD takes every path as it is: nothing is normalised. *)
Cwd(cwd, path) == IF path[1] = "/" THEN path ELSE cwd \o path

(* 530 is sent before the refused command is recorded. *)
FtpRefuses ==
  \E r \in ReadLine("ftp", "command") :
    /\ r[1][1] \notin PREAUTH_COMMANDS \cup {""} /\ ~ loc.authenticated
    /\ wire' = r[2]
    /\ Goes(Counted(sess), "settling")
    /\ UNCHANGED <<loc, files, peer>>

FtpSettles ==
  /\ svc = "ftp" /\ pc = "settling"
  /\ peer' = Replies(peer, sess)
  /\ Goes(Record(sess, Event("COMMAND", NoUser, {"ftp-preauth-refused"})), "command")
  /\ UNCHANGED <<loc, wire, files>>

(* handle_session's loop around _dispatch. *)
FtpCommand ==
  \E r \in ReadLine("ftp", "command") :
    LET command == r[1][1]
        argument == IF Len(r[1]) > 1 THEN r[1][2] ELSE <<>>
        s == Counted(sess)
        t == FtpRecords(s, command, argument)
    IN
    /\ loc.authenticated \/ command \in PREAUTH_COMMANDS \cup {""}
    /\ wire' = r[2]
    /\ UNCHANGED files
    /\ CASE command = ""     -> Goes(s, "command") /\ UNCHANGED <<loc, peer>>
         [] command = "QUIT" -> Closes(s, "client") /\ UNCHANGED peer
         [] command = "PASS" -> Pass(s) /\ peer' = Replies(peer, s)
         [] OTHER ->
              /\ Goes(t, "command")
              /\ peer' = IF command \in Unrecorded THEN peer ELSE Replies(peer, s)
              /\ loc' = CASE command = "USER" -> [loc EXCEPT !.username = argument]
                          [] command = "CWD" -> [loc EXCEPT !.cwd = Cwd(@, argument)]
                          [] OTHER -> loc

FtpStep == FtpOpen \/ FtpSends \/ FtpRefuses \/ FtpSettles \/ FtpCommand

=============================================================================
