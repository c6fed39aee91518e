--------------------------- MODULE ServiceSession ---------------------------
(***************************************************************************)
(* One conversation with one emulated service: HoneypotSession             *)
(* (honeypot/session.py) as the services of honeypot/services/ use it, and *)
(* the reading helpers of BaseService.  The modules of the services extend *)
(* this one and Services composes them.                                    *)
(*                                                                         *)
(* A step runs from one await on the peer to the next.  Handlers of other  *)
(* sessions share nothing with this one but the registry, the logger and   *)
(* the executor, which Sensor models.                                      *)
(***************************************************************************)
EXTENDS Naturals, Sequences, FiniteSets

CONSTANTS
  Served,     \* the services a conversation may be held with
  MaxEvents,  \* settings.max_events_per_session
  MaxBytes    \* settings.max_session_bytes, counted in reads

ASSUME ServiceAssumption == MaxEvents \in Nat \ {0} /\ MaxBytes \in Nat

VARIABLES
  svc,     \* the service
  pc,      \* the await the handler is at; "idle" before, "closed" after
  sess,    \* the HoneypotSession, with the events it emitted as its log
  loc,     \* the local variables of the handler
  wire,    \* tokens the peer has sent and nobody has read
  files,   \* payload_dir, as the bodies it holds
  peer     \* history: what the peer meant, and what it got

vars == <<svc, pc, sess, loc, wire, files, peer>>

(* Text is a sequence of what was typed, so that "" is <<>>. *)
NoUser == <<"None">>
None == <<"none">>

(* An event: whom it names, its tags, the status code and the payload.       *)
Event(type, user, tags) ==
  [type |-> type, user |-> user, tags |-> tags, status |-> 0, payload |-> None]

Spent(s) == s.event_count >= MaxEvents

(* record(): refused, and FALSE returned, once the budget is spent. *)
Record(s, e) ==
  IF Spent(s) THEN s
  ELSE [s EXCEPT !.log = Append(@, e), !.event_count = @ + 1,
                 !.auth_attempts = IF e.type = "AUTH_ATTEMPT" THEN @ + 1 ELSE @,
                 !.commands_run = IF e.type = "COMMAND" THEN @ + 1 ELSE @]

NewSession ==
  [event_count |-> 0, auth_attempts |-> 0, commands_run |-> 0, bytes_in |-> 0,
   authenticated |-> FALSE, username |-> NoUser, closed_by |-> "none", log |-> <<>>]

(* meant: the requests the peer sent, in order; heard: those the handler     *)
(* acted on; broken: the peer left the protocol, or its framing was lost to  *)
(* a short read, a line too long or too many headers; unheard: replies to    *)
(* requests record() refused; status: the last <<recorded, sent>>.           *)
NewPeer == [meant |-> <<>>, heard |-> <<>>, broken |-> FALSE, unheard |-> 0,
            status |-> <<0, 0>>]

SessionInit ==
  /\ svc \in Served
  /\ pc = "idle" /\ sess = NewSession /\ loc = <<>>
  /\ wire = <<>> /\ files = {} /\ peer = NewPeer

(* open(), then handle_session up to its first read. *)
Open(service, first, locals) ==
  /\ svc = service /\ pc = "idle"
  /\ pc' = first /\ loc' = locals
  /\ sess' = Record(sess, Event("CONNECT", NoUser, {}))
  /\ UNCHANGED <<svc, wire, files, peer>>

(* handle_session is over with the session at s: close(reason) of the        *)
(* finally block, with ERROR recorded before it if handle_session raised.    *)
Closes(s, reason) ==
  LET t == IF reason = "error" THEN Record(s, Event("ERROR", NoUser, {"exception"})) ELSE s
  IN  /\ pc' = "closed"
      /\ sess' = [Record(t, Event("DISCONNECT", NoUser, {})) EXCEPT !.closed_by = reason]
      /\ UNCHANGED <<svc, loc>>

-----------------------------------------------------------------------------
(* The stream.  A token is a line with its newline, bytes that belong to no  *)
(* line, or a line longer than the buffer of the stream.                     *)

Line(v) == [kind |-> "line", v |-> v]
Data(v) == [kind |-> "data", v |-> v]
Long == [kind |-> "long", v |-> <<>>]
Junk == <<"junk">>    \* bytes nobody meant as a line of their own

FirstLine(w) == CHOOSE i \in DOMAIN w : w[i].kind = "line" /\ \A j \in 1 .. i - 1 : w[j].kind # "line"

(* read_line: <<line, what is left>>.  Bytes in front of a line run into it. *)
(* A line that is too long is thrown away by readline, and read(limit)       *)
(* returns what follows, lines or not.                                       *)
LinesFrom(w) ==
  CASE w[1].kind = "line" -> {<<w[1].v, Tail(w)>>}
    [] w[1].kind = "data" ->
         {<<Junk, IF \E i \in DOMAIN w : w[i].kind = "line" THEN SubSeq(w, FirstLine(w) + 1, Len(w))
                  ELSE <<>>>>}
    [] w[1].kind = "long" -> {<<Junk, SubSeq(w, i, Len(w))>> : i \in 2 .. Len(w) + 1}

(* read_bytes: reader.read(n) returns what has arrived, which may be a part,  *)
(* or nothing before the timeout; the rest stays on the stream.              *)
BytesFrom(w) ==
  (IF w[1].kind = "data" THEN {<<w[1].v, Tail(w)>>} ELSE {})
    \cup {<<Junk, <<Data(Junk)>> \o Tail(w)>>, <<<<>>, w>>}

(* Mutant: bytes are not counted. *)
Counted_Not(s) == s

(* count_bytes *)
Counted(s) == [s EXCEPT !.bytes_in = @ + 1]

(* read_bytes counts only if something came. *)
CountedData(s, data) == IF data = <<>> THEN s ELSE Counted(s)

CanRead(service, p) == svc = service /\ pc = p /\ wire # <<>> /\ sess.bytes_in < MaxBytes

(* What a read at p may return, with what it leaves on the stream. *)
ReadLine(service, p) == IF CanRead(service, p) THEN LinesFrom(wire) ELSE {}
ReadBytes(service, p) == IF CanRead(service, p) THEN BytesFrom(wire) ELSE {}

(* The stream is at its end, or nothing came in time. *)
ReadsNone(service, p) == svc = service /\ pc = p /\ wire = <<>>

(* A reply, after record() was refused or not; the history counts to four.   *)
Replies(p, s) == [p EXCEPT !.unheard = @ + (IF Spent(s) /\ @ < 4 THEN 1 ELSE 0)]

(* The handler takes part with session s, and reads next at p. *)
Goes(s, p) == sess' = s /\ pc' = p /\ UNCHANGED svc

(* SessionLimitExceeded leaves handle_session from any of its reads.         *)
OverLimit ==
  /\ pc \notin {"idle", "closed", "settling"} /\ wire # <<>> /\ sess.bytes_in >= MaxBytes
  /\ Closes(Counted(sess), "limit")
  /\ UNCHANGED <<wire, files, peer>>

(* The peer sends tokens when all that it sent has been read.  What it means *)
(* by them is known if it keeps to the protocol.                             *)
PeerSends(service, tokens, meaning, wellFormed) ==
  /\ svc = service /\ wire = <<>> /\ pc \notin {"idle", "closed", "settling"}
  /\ wire' = tokens
  /\ peer' = [peer EXCEPT !.meant = @ \o meaning, !.broken = @ \/ ~ wellFormed]
  /\ UNCHANGED <<svc, pc, sess, loc, files>>

Sends(service, tokens, meaning) == PeerSends(service, tokens, meaning, TRUE)
SendsOdd(service, tokens) == PeerSends(service, tokens, <<>>, FALSE)

(* The peer closes or resets, sends nothing for read_timeout_s, wait_for     *)
(* gives up, or the loop is shut down.                                       *)
Leaves ==
  /\ pc \notin {"idle", "closed"}
  /\ \E reason \in {"client", "timeout", "server"} : Closes(sess, reason)
  /\ UNCHANGED <<wire, files, peer>>

=============================================================================
