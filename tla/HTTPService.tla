---------------------------- MODULE HTTPService -----------------------------
(***************************************************************************)
(* honeypot/services/http_service.py.  On the stream a request is a line   *)
(* <<"GET", path, version>>, header lines <<"header", name>>, an empty     *)
(* line, and a body without one.                                           *)
(***************************************************************************)
EXTENDS ServiceSession

CONSTANTS
  Requests,     \* what a peer may send: records [path, version, headers, body]
  MAX_HEADERS,  \* header lines _read_request reads, the empty line included
  MaxRequests   \* requests on one connection

ASSUME HttpAssumption == MAX_HEADERS \in Nat \ {0} /\ MaxRequests \in Nat \ {0}

(* A body is announced. *)
Announced(q, names) == q.body # <<>> => \E i \in DOMAIN q.headers : q.headers[i] \in names

ASSUME RequestAssumption ==
  \A q \in Requests : q.headers \in Seq(STRING) /\ Announced(q, {"content-length", "odd-length"})

Blank == <<"">>

RequestTokens(q) ==
  <<Line(<<"GET", q.path, q.version>>)>>
    \o [i \in DOMAIN q.headers |-> Line(<<"header", q.headers[i]>>)]
    \o <<Line(Blank)>>
    \o (IF q.body = <<>> THEN <<>> ELSE <<Data(q.body)>>)

(* A peer that reaches the limit on headers loses its frame: the empty line  *)
(* is still on the stream when the headers end.                              *)
SendsRequest(service, requests) ==
  \/ \E q \in requests :
       PeerSends(service, RequestTokens(q), <<<<q.path, q.body>>>>, Len(q.headers) < MAX_HEADERS)
  \/ SendsOdd(service, <<Line(<<"GET", "/">>)>>)
  \/ SendsOdd(service, <<Line(<<"GET", "/", "1.1">>), Line(<<"no colon">>), Line(Blank)>>)
  \/ SendsOdd(service, <<Long, Line(Blank)>>)

NewRequest == [turn |-> 1, path |-> "", version |-> "", seen |-> 0, headers |-> {}]

(* Some of BAIT_PATHS: http_response_for answers every other path with 404.  *)
BAIT_PATHS == [path \in {"/", "/server-status"} |-> IF path = "/" THEN 200 ELSE 403]

http_response_for(path) == IF path \in DOMAIN BAIT_PATHS THEN BAIT_PATHS[path] ELSE 404

HttpOpen == Open("http", "request", NewRequest)

HttpMalformed(s) ==
  /\ Closes(Record(s, Event("ERROR", NoUser, {"malformed-http"})), "client")
  /\ peer' = [Replies(peer, s) EXCEPT !.status = <<400, 400>>]
  /\ UNCHANGED files

(* _extract_credentials: a Basic header, else a form in the body. *)
HasCredentials(headers, body) == "authorization" \in headers \/ body = <<"form">>

(* Mutant: the event is recorded before the body is saved, without it. *)
HttpEvent_NoDigest(path, body) ==
  [Event("HTTP_REQUEST", NoUser, {}) EXCEPT !.status = http_response_for(path)]

HttpEvent(path, body) ==
  [Event("HTTP_REQUEST", NoUser, {}) EXCEPT !.status = http_response_for(path),
                                            !.payload = IF body = <<>> THEN None ELSE body]

KeepAlive(q) ==
  IF q.version = "1.0" THEN "keep-alive" \in q.headers ELSE "close" \notin q.headers

(* _handle_request: the login, the payload file, the request, the answer.    *)
(* The file is written whether or not record() then has room for the event.  *)
HttpHandles(s, q, body, p) ==
  LET t == IF HasCredentials(q.headers, body)
           THEN Record(s, Event("AUTH_ATTEMPT", <<"form">>, {"password"})) ELSE s
      u == Record(t, HttpEvent(q.path, body))
  IN
  /\ files' = files \cup ({body} \ {<<>>})
  /\ peer' = [Replies(p, t) EXCEPT
       !.heard = IF Spent(t) THEN @ ELSE Append(@, <<q.path, body>>),
       !.status = IF Spent(t) THEN @ ELSE <<u.log[Len(u.log)].status, http_response_for(q.path)>>]
  /\ IF Spent(t) \/ ~ KeepAlive(q) \/ q.turn = MaxRequests
     THEN Closes(u, "client")
     ELSE Goes(u, "request") /\ loc' = [NewRequest EXCEPT !.turn = q.turn + 1]

(* After the headers.  isdigit() holds of digits that int() refuses, and the *)
(* exception ends the conversation.                                          *)
HttpBodyNext(s, q) ==
  CASE "odd-length" \in q.headers     -> Closes(s, "error") /\ UNCHANGED <<files, peer>>
    [] "content-length" \in q.headers -> Goes(s, "body") /\ loc' = q /\ UNCHANGED <<files, peer>>
    [] OTHER                          -> HttpHandles(s, q, <<>>, peer)

(* A line out of frame may look like anything: three words or not. *)
HttpRequestLine ==
  \E r \in ReadLine("http", "request"), lucky \in BOOLEAN :
    LET s == Counted(sess) IN
    /\ wire' = r[2]
    /\ IF r[1] = Blank THEN Closes(s, "client") /\ UNCHANGED <<files, peer>>
       ELSE IF Len(r[1]) = 3 \/ (r[1] = Junk /\ lucky)
       THEN /\ Goes(s, "headers")
            /\ loc' = [loc EXCEPT !.path = IF r[1] = Junk THEN "junk" ELSE r[1][2],
                                  !.version = IF r[1] = Junk THEN "1.1" ELSE r[1][3]]
            /\ UNCHANGED <<files, peer>>
       ELSE HttpMalformed(s)

LastHeader(q) == q.seen + 1 = MAX_HEADERS

HttpHeader ==
  \E r \in ReadLine("http", "headers") :
    LET s == Counted(sess)
        q == [loc EXCEPT !.seen = @ + 1, !.headers = @ \cup {r[1][Len(r[1])]}]
    IN
    /\ wire' = r[2]
    /\ CASE r[1] = Blank -> HttpBodyNext(s, loc)
         [] r[1][1] = "header" /\ LastHeader(loc) -> HttpBodyNext(s, q)
         [] r[1][1] = "header" /\ ~ LastHeader(loc) ->
              Goes(s, "headers") /\ loc' = q /\ UNCHANGED <<files, peer>>
         [] OTHER -> HttpMalformed(s)

(* End of the stream among the headers or before the body: the request is    *)
(* served as far as it came.                                                 *)
HttpCut ==
  /\ \/ ReadsNone("http", "headers") /\ HttpBodyNext(sess, loc)
     \/ ReadsNone("http", "body") /\ HttpHandles(sess, loc, <<>>, peer)
  /\ UNCHANGED wire

(* One read for the whole body, of which a part may have come.               *)
HttpBody ==
  \E r \in ReadBytes("http", "body") :
    /\ wire' = r[2]
    /\ HttpHandles(CountedData(sess, r[1]), loc, r[1], [peer EXCEPT !.broken = @ \/ r[2] # Tail(wire)])

HttpStep ==
  HttpOpen \/ SendsRequest("http", Requests) \/ HttpRequestLine \/ HttpHeader \/ HttpCut \/ HttpBody

=============================================================================
