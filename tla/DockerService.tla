--------------------------- MODULE DockerService ----------------------------
(***************************************************************************)
(* honeypot/services/docker_service.py.  The path of a request is the      *)
(* label ROUTES gives it.                                                  *)
(***************************************************************************)
EXTENDS HTTPService

CONSTANT DockerRequests

ASSUME DockerAssumption ==
  \A q \in DockerRequests : q.headers \in Seq(STRING) /\ Announced(q, {"content-length"})

Recon == {"ping", "version", "info", "containers-list", "images-list"}
Routes == Recon \cup {"containers-create", "containers-start", "containers-exec", "exec-start",
                      "images-create"}

(* _classify *)
Route(path) == IF path \in Routes THEN path ELSE "other"

(* _status_for: the status that is recorded. *)
Status_for(route) ==
  CASE route = "containers-create" -> 201
    [] route \in {"containers-start", "exec-start"} -> 204
    [] route = "other" -> 404
    [] OTHER -> 200

(* _respond: the status that is sent. *)
Responds(route) ==
  CASE route \in {"containers-create", "containers-exec"} -> 201
    [] route \in {"containers-start", "exec-start"} -> 204
    [] route \in Recon \cup {"images-create"} -> 200
    [] OTHER -> 404

(* _assess looks into the body of a create: _privileged raises when          *)
(* HostConfig is no object.                                                  *)
AssessRaises(route, body) == route = "containers-create" /\ body = <<"odd config">>

AssessTags(route) ==
  CASE route \in Recon -> {"docker-recon"}
    [] route \in Routes \ Recon -> {"docker-abuse"}
    [] OTHER -> {"docker-probe"}

DockerOpen == Open("docker", "request", NewRequest)

DockerHandles(s, q, body, p) ==
  LET route == Route(q.path)
      t == Record(s, [Event("HTTP_REQUEST", NoUser, AssessTags(route)) EXCEPT !.status = Status_for(route)])
  IN
  /\ UNCHANGED files
  /\ IF AssessRaises(route, body) THEN Closes(s, "error") /\ peer' = p
     ELSE IF Spent(s) THEN Closes(s, "client") /\ peer' = p
     ELSE /\ peer' = [p EXCEPT !.heard = Append(@, <<q.path, body>>),
                               !.status = <<t.log[Len(t.log)].status, Responds(route)>>]
          /\ IF "close" \in q.headers \/ q.turn = MaxRequests THEN Closes(t, "client")
             ELSE Goes(t, "request") /\ loc' = [NewRequest EXCEPT !.turn = q.turn + 1]

(* A Content-Length that int() refuses counts as none. *)
DockerBodyNext(s, q) ==
  IF "content-length" \in q.headers THEN Goes(s, "body") /\ loc' = q /\ UNCHANGED <<files, peer>>
  ELSE DockerHandles(s, q, <<>>, peer)

DockerRequestLine ==
  \E r \in ReadLine("docker", "request"), lucky \in BOOLEAN :
    LET s == Counted(sess) IN
    /\ wire' = r[2]
    /\ IF Len(r[1]) >= 2 \/ (r[1] = Junk /\ lucky)
       THEN /\ Goes(s, "headers")
            /\ loc' = [loc EXCEPT !.path = IF r[1] = Junk THEN "junk" ELSE r[1][2]]
       ELSE Closes(s, "client")
    /\ UNCHANGED <<files, peer>>

DockerHeader ==
  \E r \in ReadLine("docker", "headers") :
    LET s == Counted(sess)
        q == [loc EXCEPT !.seen = @ + 1, !.headers = @ \cup {r[1][Len(r[1])]}]
    IN
    /\ wire' = r[2]
    /\ CASE r[1] = Blank -> DockerBodyNext(s, loc)
         [] r[1] # Blank /\ LastHeader(loc) -> DockerBodyNext(s, q)
         [] OTHER -> Goes(s, "headers") /\ loc' = q /\ UNCHANGED <<files, peer>>

DockerCut ==
  /\ \/ ReadsNone("docker", "headers") /\ DockerBodyNext(sess, loc)
     \/ ReadsNone("docker", "body") /\ DockerHandles(sess, loc, <<>>, peer)
  /\ UNCHANGED wire

DockerBody ==
  \E r \in ReadBytes("docker", "body") :
    /\ wire' = r[2]
    /\ DockerHandles(CountedData(sess, r[1]), loc, r[1], [peer EXCEPT !.broken = @ \/ r[2] # Tail(wire)])

DockerStep ==
  \/ DockerOpen \/ SendsRequest("docker", DockerRequests)
  \/ DockerRequestLine \/ DockerHeader \/ DockerCut \/ DockerBody

=============================================================================
