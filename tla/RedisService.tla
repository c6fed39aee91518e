---------------------------- MODULE RedisService ----------------------------
(***************************************************************************)
(* honeypot/services/redis_service.py.  A command is a sequence of words;  *)
(* on the stream it is an inline line, or <<"*", n>> and for each word a   *)
(* line <<"$", length>> and the word as bytes.                             *)
(***************************************************************************)
EXTENDS ServiceSession

CONSTANTS
  RedisCommands,  \* what a peer may send
  MAX_ARRAY_LEN,
  MaxCommands     \* commands on one connection

ASSUME RedisAssumption == MAX_ARRAY_LEN \in Nat \ {0} /\ MaxCommands \in Nat \ {0}

BadLength == "bad"    \* not a number, negative, or beyond MAX_BULK_LEN

(* Commands of one or two words, which no length can be taken for. *)
ASSUME CommandAssumption ==
  \A c \in RedisCommands :
    /\ c \in Seq(STRING) /\ Len(c) \in 1 .. 2 /\ Len(c) <= MAX_ARRAY_LEN
    /\ c[1] # "*" /\ \A i \in DOMAIN c : c[i] # BadLength

WordTokens(word) == <<Line(<<"$", word>>), Data(<<word>>)>>

Resp(command) ==
  <<Line(<<"*", Len(command)>>)>>
    \o (IF Len(command) > 1 THEN WordTokens(command[1]) \o WordTokens(command[2])
        ELSE WordTokens(command[1]))

RedisSends ==
  \/ \E c \in RedisCommands : Sends("redis", Resp(c), <<c>>) \/ Sends("redis", <<Line(c)>>, <<c>>)
  \/ \E n \in {0, MAX_ARRAY_LEN + 1} : Sends("redis", <<Line(<<"*", n>>)>>, <<>>)
  \/ Sends("redis", <<Line(<<"*", 1>>), Line(<<"$", BadLength>>)>>, <<>>)
  \/ Sends("redis", <<Line(<<>>)>>, <<>>)
  \/ SendsOdd("redis", <<Long, Line(<<"ping">>)>>)
  \/ \E c \in RedisCommands, n \in 1 .. 2 : SendsOdd("redis", SubSeq(Resp(c), 1, n))   \* stops half way

Waits(turn) == [turn |-> turn, want |-> 0, parts |-> <<>>]

RedisOpen == Open("redis", "command", Waits(1))

(* The next round of for _ in range(200). *)
NextCommand(s) ==
  IF loc.turn = MaxCommands THEN Closes(s, "client")
  ELSE Goes(s, "command") /\ loc' = Waits(loc.turn + 1)

(* handle_session on a command that was read.  AUTH does not look at what    *)
(* record() returns.                                                         *)
RedisServes(s, command, p) ==
  LET verb == command[1]
      t == IF verb = "auth" THEN Record(s, Event("AUTH_ATTEMPT", NoUser, {"password"}))
           ELSE Record(s, Event("COMMAND", NoUser, {verb}))
      heard == [Replies(p, s) EXCEPT !.heard = Append(@, command)]
  IN
  CASE command = <<>> -> NextCommand(s) /\ peer' = p
    [] command # <<>> /\ verb = "auth" -> NextCommand(t) /\ peer' = heard
    [] command # <<>> /\ verb # "auth" /\ Spent(s) -> Closes(s, "client") /\ peer' = p
    [] command # <<>> /\ verb = "quit" /\ ~ Spent(s) -> Closes(t, "client") /\ peer' = heard
    [] OTHER -> NextCommand(t) /\ peer' = heard

ArrayLen(n) == n > 0 /\ n <= MAX_ARRAY_LEN

(* The first line of _read_command. *)
RedisCommandLine ==
  \E r \in ReadLine("redis", "command") :
    LET s == Counted(sess) IN
    /\ wire' = r[2]
    /\ UNCHANGED files
    /\ IF r[1] = <<>> \/ r[1][1] # "*" THEN RedisServes(s, r[1], peer)
       ELSE IF ArrayLen(r[1][2])
       THEN Goes(s, "bulk") /\ loc' = [loc EXCEPT !.want = r[1][2]] /\ UNCHANGED peer
       ELSE RedisServes(s, <<>>, peer)

(* The header of a word; what was read of a broken array is the command.     *)
RedisBulk ==
  \/ \E r \in ReadLine("redis", "bulk") :
       LET s == Counted(sess) IN
       /\ wire' = r[2]
       /\ UNCHANGED files
       /\ IF r[1] # <<>> /\ r[1][1] = "$" /\ r[1][2] # BadLength
          THEN Goes(s, "value") /\ UNCHANGED <<loc, peer>>
          ELSE RedisServes(s, loc.parts, peer)
  \/ ReadsNone("redis", "bulk") /\ RedisServes(sess, loc.parts, peer) /\ UNCHANGED <<wire, files>>

(* The words so far, the last of them maybe cut short. *)
HasWord(s, word, p) ==
  LET parts == Append(loc.parts, word) IN
  IF Len(parts) = loc.want THEN RedisServes(s, parts, p)
  ELSE Goes(s, "bulk") /\ loc' = [loc EXCEPT !.parts = parts] /\ peer' = p

(* The word, and with length + 2 the CRLF behind it. *)
RedisValue ==
  \/ \E r \in ReadBytes("redis", "value") :
       /\ wire' = r[2]
       /\ HasWord(CountedData(sess, r[1]), IF r[1] = <<>> THEN "" ELSE r[1][1],
                  [peer EXCEPT !.broken = @ \/ r[2] # Tail(wire)])
       /\ UNCHANGED files
  \/ ReadsNone("redis", "value") /\ HasWord(sess, "", peer) /\ UNCHANGED <<wire, files>>

RedisStep == RedisOpen \/ RedisSends \/ RedisCommandLine \/ RedisBulk \/ RedisValue

=============================================================================
