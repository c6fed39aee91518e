---------------------------- MODULE MySQLService ----------------------------
(* honeypot/services/mysql_service.py.  A login packet is what it has at the *)
(* place of the name.                                                        *)
EXTENDS ServiceSession

CONSTANT MySQLNames

(* Too short for a header, no NUL behind the name, or a name beyond 128.     *)
BadPackets == {<<"short">>, <<"open">>, <<"oversized">>}

parse_login_username(packet) ==
  IF packet \in BadPackets \cup {Junk, <<>>} THEN NoUser ELSE packet

MySQLSends == \E name \in MySQLNames \cup BadPackets :
  Sends("mysql", <<Data(name)>>, IF name \in MySQLNames THEN <<name>> ELSE <<>>)

MySQLOpen == Open("mysql", "login", <<>>)

(* One read, one event, one refusal. *)
MySQLLogin ==
  \E r \in ReadBytes("mysql", "login") :
    LET name == parse_login_username(r[1])
        s == Counted(sess)
    IN
    /\ wire' = r[2] /\ UNCHANGED files
    /\ IF r[1] = <<>> THEN Closes(sess, "client") /\ UNCHANGED peer
       ELSE IF name # NoUser
       THEN /\ Closes(Record([s EXCEPT !.username = name], Event("AUTH_ATTEMPT", name, {})), "client")
            /\ peer' = [peer EXCEPT !.heard = Append(@, name)]
       ELSE /\ Closes(Record(s, Event("ERROR", NoUser, {"mysql-malformed-login"})), "client")
            /\ UNCHANGED peer

MySQLStep == MySQLOpen \/ MySQLSends \/ MySQLLogin

=============================================================================
