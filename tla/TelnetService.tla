--------------------------- MODULE TelnetService ----------------------------
(* honeypot/services/telnet_service.py *)
EXTENDS ServiceSession, FakeShell
LOCAL INSTANCE FiniteSetsExt
LOCAL INSTANCE SequencesExt

CONSTANTS
  LoginSegs,   \* what a peer may send as a login or password line
  ShellLines   \* command lines, as records [cmd, arg]; cmd "" is a blank line

IAC == "IAC"

(* Mutant: a subnegotiation is skipped like an option. *)
strip_telnet_control_NoSub(raw) ==
  LET f[i \in 1 .. Len(raw) + 3] ==
        CASE i > Len(raw)      -> <<>>
          [] i <= Len(raw) /\ raw[i] # IAC -> <<raw[i]>> \o f[i + 1]
          [] i = Len(raw) /\ raw[i] = IAC -> <<>>
          [] i < Len(raw) /\ raw[i] = IAC /\ raw[i + 1] = IAC -> <<IAC>> \o f[i + 2]
          [] OTHER -> f[i + 3]
  IN  f[1]

(* The typed bytes of a line: options take three bytes, a subnegotiation     *)
(* ends at the first IAC SE, a doubled IAC is a typed 255.                   *)
strip_telnet_control(raw) ==
  LET ends(i) == {j \in i .. Len(raw) - 1 : raw[j] = IAC /\ raw[j + 1] = "SE"}
      f[i \in 1 .. Len(raw) + 3] ==
        IF i > Len(raw) THEN <<>>
        ELSE IF raw[i] # IAC THEN <<raw[i]>> \o f[i + 1]
        ELSE IF i = Len(raw) THEN <<>>
        ELSE CASE raw[i + 1] \in {"DO", "DONT", "WILL", "WONT"} -> f[i + 3]
               [] raw[i + 1] = "SB"  -> IF ends(i) = {} THEN <<>> ELSE f[Min(ends(i)) + 2]
               [] raw[i + 1] = IAC   -> <<IAC>> \o f[i + 2]
               [] OTHER              -> f[i + 2]
  IN  f[1]

(* What a peer puts on the stream for a segment, and what it means by it.    *)
Encoded(seg) ==
  CASE seg = "option" -> <<IAC, "WILL", "opt">>
    [] seg = "sub"    -> <<IAC, "SB", "opt", IAC, IAC, "data", IAC, "SE">>
    [] seg = "nop"    -> <<IAC, "NOP">>
    [] seg = "255"    -> <<IAC, IAC>>
    [] OTHER          -> <<seg>>

Typed(seg) == CASE seg \in {"option", "sub", "nop"} -> <<>> [] seg = "255" -> <<IAC>> [] OTHER -> <<seg>>

Bytes(segs) == FoldLeft(LAMBDA acc, seg : acc \o Encoded(seg), <<>>, segs)
Meaning(segs) == FoldLeft(LAMBDA acc, seg : acc \o Typed(seg), <<>>, segs)

(* The name that stands for None is not one that a peer types. *)
ASSUME TelnetAssumption == \A segs \in LoginSegs : strip_telnet_control(Bytes(segs)) # NoUser

TelnetSends ==
  \/ /\ pc \in {"login", "password"}
     /\ \E segs \in LoginSegs :
          Sends("telnet", <<Line(Bytes(segs))>>, <<Meaning(segs)>>)
  \/ pc = "shell" /\ \E line \in ShellLines : Sends("telnet", <<Line(<<line>>)>>, <<>>)
  \/ Sends("telnet", <<Long>>, <<>>)

(* Some of IOT_DEFAULT_CREDS. *)
IOT_DEFAULT_CREDS == {<<<<"root">>, <<"root">>>>, <<<<"root">>, <<>>>>}

TelnetOpen == Open("telnet", "login", [attempt |-> 1, username |-> <<>>, shell |-> NewShell(<<"root">>)])

Heard(text) == [peer EXCEPT !.heard = Append(@, text)]

(* _read_field at the login prompt. *)
TelnetLogin ==
  \E r \in ReadLine("telnet", "login") :
    LET name == strip_telnet_control(r[1]) IN
    /\ wire[1].kind # "long"
    /\ wire' = r[2]
    /\ loc' = [loc EXCEPT !.username = name]
    /\ peer' = Heard(name)
    /\ Goes(Counted(sess), "password")
    /\ UNCHANGED files

(* _read_field raises ValueError inside on a line that is too long, and      *)
(* returns None: the conversation is over.                                   *)
TelnetTooLong ==
  /\ svc = "telnet" /\ pc # "closed" /\ wire # <<>> /\ wire[1].kind = "long"
  /\ Closes(sess, "client")
  /\ wire' = Tail(wire)
  /\ UNCHANGED <<files, peer>>

LastAttempt == 3

(* The password: an attempt is recorded, then the login is accepted or not.  *)
TelnetPassword ==
  \E r \in ReadLine("telnet", "password") :
    LET password == strip_telnet_control(r[1])
        known == <<loc.username, password>> \in IOT_DEFAULT_CREDS
        s == Record(Counted(sess), Event("AUTH_ATTEMPT", loc.username, {"password"}))
        granted == Record([s EXCEPT !.authenticated = TRUE, !.username = loc.username],
                          Event("AUTH_SUCCESS", loc.username, {}))
        user == IF loc.username = <<>> THEN <<"root">> ELSE loc.username
    IN
    /\ wire[1].kind # "long"
    /\ wire' = r[2]
    /\ peer' = [Replies(peer, sess) EXCEPT !.heard = Append(@, password)]
    /\ UNCHANGED files
    /\ \/ Goes(granted, "shell") /\ loc' = [loc EXCEPT !.shell = NewShell(user)]
       \/ /\ ~ known /\ loc.attempt < LastAttempt
          /\ Goes(s, "login") /\ loc' = [loc EXCEPT !.attempt = @ + 1]
       \/ ~ known /\ loc.attempt >= LastAttempt /\ Closes(s, "client")

(* Mutant: the refusal of record() goes unnoticed. *)
Serves_Always(s) == TRUE

(* _run_shell returns when record() is refused. *)
Serves(s) == ~ Spent(s)

CommandTags(sh) == IF sh.downloads > 0 THEN {"second-stage-url"} ELSE {}

(* A line at the prompt of _run_shell. *)
TelnetCommand ==
  \E r \in ReadLine("telnet", "shell") :
    LET line == r[1][1]
        s == Counted(sess)
        ran == Run(loc.shell, line)
        t == Record(s, Event("COMMAND", loc.shell.username, CommandTags(ran[1])))
    IN
    /\ wire[1].kind # "long"
    /\ wire' = r[2]
    /\ UNCHANGED files
    /\ IF line.cmd = "" THEN Goes(s, "shell") /\ UNCHANGED <<loc, peer>>
       ELSE IF Serves(s) /\ ran[2] # EXIT
            THEN Goes(t, "shell") /\ loc' = [loc EXCEPT !.shell = ran[1]] /\ peer' = Replies(peer, s)
            ELSE Closes(t, "client") /\ UNCHANGED peer

TelnetStep ==
  TelnetOpen \/ TelnetSends \/ TelnetLogin \/ TelnetTooLong \/ TelnetPassword \/ TelnetCommand

=============================================================================
