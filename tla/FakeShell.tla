----------------------------- MODULE FakeShell ------------------------------
(***************************************************************************)
(* FakeShell of honeypot/deception/responses.py: the shell that telnet and *)
(* SSH show, a function from its state and a line to the next state and    *)
(* the output.  A path is a sequence of names; a line is a record of the   *)
(* command word and its argument.                                          *)
(***************************************************************************)
EXTENDS Naturals, Sequences
LOCAL INSTANCE SequencesExt

(* Some of the directories and files of FAKE_FS and FAKE_FILES: with and     *)
(* without children, a home that exists, files in a directory that is not    *)
(* in FAKE_FS.                                                               *)
FAKE_FS == {<<>>, <<"root">>, <<"root", ".ssh">>, <<"home">>, <<"home", "ubuntu">>, <<"tmp">>}
FAKE_FILES == {<<"etc", "passwd">>, <<"root", "notes.txt">>, <<"proc", "version">>}

Home(user) == IF user = <<"root">> THEN <<"root">> ELSE <<"home">> \o user

(* FakeShell.__init__: env["HOME"] and env["PWD"] start as cwd. *)
NewShell(user) ==
  [username |-> user, cwd |-> Home(user), pwd |-> Home(user), history |-> 0, downloads |-> 0]

(* ".." of the root is the root. *)
Up(path) == IF path = <<>> THEN <<>> ELSE SubSeq(path, 1, Len(path) - 1)

(* posixpath.normpath of an absolute path. *)
Normal(path) ==
  FoldLeft(LAMBDA acc, name : IF name = ".." THEN Up(acc) ELSE Append(acc, name), <<>>, path)

(* An argument: how it starts and the names after that. *)
Arg(from, names) == [from |-> from, names |-> names]
NoArg == Arg("none", <<>>)

(* resolve(): "" is the current directory, "~" is HOME as it stands. *)
Resolve(sh, arg) ==
  CASE arg.from = "none"                      -> sh.cwd
    [] arg.from = "~" /\ arg.names = <<>>     -> Home(sh.username)
    [] arg.from = "~"                         -> Normal(Home(sh.username) \o arg.names)
    [] arg.from = "/"                         -> Normal(arg.names)
    [] arg.from = "."                         -> Normal(sh.cwd \o arg.names)

(* _HANDLERS: the commands whose output does not depend on the state. *)
Fixed == {"uname", "whoami", "id", "ps", "free", "df", "ifconfig", "netstat", "w"}
Silent == {"rm", "mkdir", "crontab"}
Exits == {"exit", "logout", "quit"}

EXIT == "__EXIT__"

(* A command, the word behind sudo, nohup, time and env. *)
Handler(sh, cmd, arg) ==
  LET path == Resolve(sh, arg) IN
  CASE cmd = "cat" /\ arg = NoArg -> <<sh, "">>
    [] cmd \in {"ls", "cat"} /\ (cmd = "ls" \/ arg # NoArg) ->
         <<sh, IF path \in FAKE_FS \cup FAKE_FILES THEN "text" ELSE "no such file">>
    [] cmd = "cd" ->
         LET to == IF arg = NoArg THEN Home(sh.username) ELSE path
         IN  IF to \in FAKE_FS THEN <<[sh EXCEPT !.cwd = to, !.pwd = to], "">>
             ELSE <<sh, "no such file">>
    [] cmd \in {"wget", "curl", "tftp"} ->
         <<[sh EXCEPT !.downloads = @ + (IF arg.from = "url" THEN 1 ELSE 0)], "text">>
    [] cmd = "pwd" -> <<sh, "text">>
    [] cmd = "echo" -> <<sh, IF arg.from = "exit" THEN EXIT ELSE "text">>
    [] cmd \in Fixed \cup {"history"} -> <<sh, "text">>
    [] cmd \in Silent -> <<sh, "">>
    [] cmd \in Exits -> <<sh, EXIT>>
    [] OTHER -> <<sh, "not found">>

(* run(): the line goes into the history, the first command of a chain is    *)
(* answered, and a chain without a first command is not.                     *)
Run(sh, line) ==
  LET remembered == [sh EXCEPT !.history = @ + 1]
  IN  IF line.cmd = "chain" THEN <<remembered, "">>
      ELSE Handler(remembered, line.cmd, line.arg)

=============================================================================
