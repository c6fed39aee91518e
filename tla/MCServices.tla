----------------------------- MODULE MCServices -----------------------------
EXTENDS Services
MCServed == {"telnet", "ftp", "http", "docker", "redis", "mysql", "ssh", "sshfull"}

MCLoginSegs == {<<>>, <<"root">>, <<"option", "guest">>, <<"sub", "root", "nop">>, <<"255", "root">>}
MCShellLines ==
  {[cmd |-> c, arg |-> NoArg] : c \in {"", "chain", "cd", "exit", "uname", "rm", "sudo"}}
    \cup {[cmd |-> "cd", arg |-> a] : a \in {Arg(".", <<"..", "..">>), Arg(".", <<"ubuntu">>), Arg("/", <<"home">>)}}
    \cup {[cmd |-> "cat", arg |-> Arg("~", <<"notes.txt">>)], [cmd |-> "wget", arg |-> Arg("url", <<>>)],
          [cmd |-> "echo", arg |-> Arg("exit", <<>>)], [cmd |-> "ls", arg |-> Arg("~", <<>>)]}
MCSshLines ==
  {[cmd |-> "", arg |-> NoArg], [cmd |-> "pwd", arg |-> NoArg], [cmd |-> "quit", arg |-> NoArg],
   [cmd |-> "cd", arg |-> Arg(".", <<"..", "..", "..", "root">>)]}

MCFtpUsers == {<<"anonymous">>, <<"bob">>}

Req(path, version, headers, body) == [path |-> path, version |-> version, headers |-> headers, body |-> body]
MCRequests ==
  {Req("/", "1.1", <<>>, <<>>), Req("/x", "1.0", <<"keep-alive">>, <<>>), Req("/x", "1.0", <<>>, <<>>),
   Req("/", "1.1", <<"content-length">>, <<"form">>), Req("/", "1.1", <<"content-length", "close">>, <<"bin">>),
   Req("/server-status", "1.1", <<"authorization">>, <<>>), Req("/", "1.1", <<"odd-length">>, <<"bin">>),
   Req("/", "1.1", <<"other", "other", "content-length">>, <<"bin">>)}
MCDockerRequests ==
  {Req(r, "1.1", <<>>, <<>>) : r \in {"ping", "containers-start", "containers-exec", "elsewhere"}}
    \cup {Req("containers-create", "1.1", <<"content-length">>, <<"config">>),
          Req("containers-create", "1.1", <<"content-length">>, <<"odd config">>),
          Req("images-create", "1.1", <<"close">>, <<>>),
          Req("exec-start", "1.1", <<"other", "other", "other">>, <<>>)}

MCRedisCommands == {<<"ping">>, <<"auth", "secret">>, <<"set", "key">>, <<"quit">>}
MCMySQLNames == {<<"root">>}
MCSshUsers == {<<"root">>, <<"bob">>, <<>>}
MCKexPackets == {[size |-> n, lists |-> <<0, 1, 0, 0, 0, 0, 0, 0, 0, 2>>] : n \in {0, 40, 42, 43, 44}}
=============================================================================
