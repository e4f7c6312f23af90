------------------------------- MODULE Server -------------------------------
(***************************************************************************)
(* Replicas that serve: the layers of httpapi/server.rs around a handler   *)
(* (CORS, session lookup, CSRF check, routing with its extractors),        *)
(* composed with Migrations, whose replicas must have come up first.       *)
(* Replicas share the sessions table, so that a session can end on one     *)
(* while a request that carries it passes through another.                 *)
(*                                                                         *)
(* A session's CSRF token is random, hence its own; it is named here by    *)
(* the session it belongs to.  Handlers are NotesService's and Login's;    *)
(* here they are one step, of which only logout's effect matters.          *)
(*                                                                         *)
(* A definition named Operation_Slip is Operation with one plausible slip, *)
(* kept to show that a property notices it; the specification uses none.   *)
(***************************************************************************)
EXTENDS Migrations, FiniteSets

CONSTANTS
    People,       \* users
    SessionIds,   \* pool of session ids (random)
    Nobody,       \* no user
    NoSession,    \* no cookie, or no header
    NoRequest,    \* an idle connection
    MaxRequests   \* bound on the requests under way

ASSUME NobodyAssumption == Nobody \notin People /\ NoSession \notin SessionIds
ASSUME BoundAssumption == MaxRequests \in Nat \ {0}

VARIABLES
    sessions,   \* the ids in table sessions
    owner,      \* whose each session is; Nobody's until it is drawn
    conn        \* the request each replica is working on

svars == <<mvars, sessions, owner, conn>>

\* What the router has: endpoints by their extractor, and paths it lacks.
Access == [read |-> "required", write |-> "required", logout |-> "required",
           feed |-> "optional", link |-> "open", nowhere |-> "unrouted"]
\* POST stands for PUT and DELETE too.  A preflight never gets to routing.
Method == [read |-> {"GET"}, write |-> {"POST"}, logout |-> {"POST"},
           feed |-> {"GET"}, link |-> {"GET"},
           nowhere |-> {"GET", "POST", "OPTIONS"}]
Requests == UNION {[endpoint : {e}, method : Method[e],
                    origin : {"frontend", "other"},
                    cookie : SessionIds \cup {NoSession},
                    header : SessionIds \cup {NoSession}] :
                       e \in DOMAIN Access}

\* AuthContext, the answer, and whether it has the CORS headers; ended is
\* history: the session of the cookie was over when the request arrived.
Conn == [at : {"session", "csrf", "route", "handler", "cors", "done"},
         req : Requests, user : People \cup {Nobody},
         token : SessionIds \cup {NoSession}, ended : BOOLEAN,
         answer : {"none", "ok", "preflight", "unauthenticated",
                   "csrfRejected", "notFound"},
         readable : BOOLEAN]

ServerTypeOK ==
    /\ MigrationsTypeOK
    /\ sessions \subseteq SessionIds
    /\ owner \in [SessionIds -> People \cup {Nobody}]
    /\ conn \in [Replicas -> Conn \cup {NoRequest}]

ServerInit ==
    /\ MigrationsInit
    /\ sessions = {}
    /\ owner = [s \in SessionIds |-> Nobody]
    /\ conn = [i \in Replicas |-> NoRequest]

Busy(i, layer) == conn[i] # NoRequest /\ conn[i].at = layer
Pass(i, layer) == conn' = [conn EXCEPT ![i].at = layer]
\* An answer goes back through the layers, the CORS layer last.
Reply(i, answer) ==
    conn' = [conn EXCEPT ![i].at = "cors", ![i].answer = answer]

-----------------------------------------------------------------------------

\* create_session at the end of a callback, on any replica.
SignIn(u, s) ==
    /\ \E i \in Replicas : At(i, "serving")
    /\ owner[s] = Nobody
    /\ owner' = [owner EXCEPT ![s] = u]
    /\ sessions' = sessions \cup {s}
    /\ UNCHANGED <<mvars, conn>>

\* get_session finds it expired and deletes it.
Expire(s) ==
    /\ s \in sessions
    /\ sessions' = sessions \ {s}
    /\ UNCHANGED <<mvars, owner, conn>>

\* A client names sessions it was given.  A preflight stops at the outermost
\* layer but one, the log.
Accept(i, q) ==
    /\ At(i, "serving") /\ conn[i] = NoRequest
    /\ Cardinality({j \in Replicas : conn[j] # NoRequest}) < MaxRequests
    /\ \A s \in {q.cookie, q.header} \ {NoSession} : owner[s] # Nobody
    /\ conn' = [conn EXCEPT ![i] =
           [at |-> IF q.method = "OPTIONS" THEN "cors" ELSE "session",
            req |-> q, user |-> Nobody, token |-> NoSession,
            ended |-> q.cookie \notin sessions, readable |-> FALSE,
            answer |-> IF q.method = "OPTIONS" THEN "preflight" ELSE "none"]]
    /\ UNCHANGED <<mvars, sessions, owner>>

LookupSession_Cached(i) ==
    LET s == conn[i].req.cookie
    IN  /\ Busy(i, "session")
        /\ conn' = [conn EXCEPT ![i].at = "csrf", ![i].token = s,
               ![i].user = IF s = NoSession THEN Nobody ELSE owner[s]]
        /\ UNCHANGED <<mvars, sessions, owner>>
\* Any error, a failing statement included, leaves the context empty.
LookupSession(i) ==
    LET s == conn[i].req.cookie
    IN  /\ Busy(i, "session")
        /\ \/ /\ s \in sessions
              /\ conn' = [conn EXCEPT ![i].at = "csrf", ![i].user = owner[s],
                                      ![i].token = s]
           \/ Pass(i, "csrf")
        /\ UNCHANGED <<mvars, sessions, owner>>

StateChanging(q) == q.method = "POST"

CheckCsrf_AnyToken(i) ==
    /\ Busy(i, "csrf")
    /\ IF /\ StateChanging(conn[i].req)
          /\ conn[i].token # NoSession
          /\ conn[i].req.header = NoSession
       THEN Reply(i, "csrfRejected")
       ELSE Pass(i, "route")
    /\ UNCHANGED <<mvars, sessions, owner>>
CheckCsrf(i) ==
    /\ Busy(i, "csrf")
    /\ IF /\ StateChanging(conn[i].req)
          /\ conn[i].token # NoSession
          /\ conn[i].req.header # conn[i].token
       THEN Reply(i, "csrfRejected")
       ELSE Pass(i, "route")
    /\ UNCHANGED <<mvars, sessions, owner>>

Route_LooksAgain(i) ==
    LET access == Access[conn[i].req.endpoint]
    IN  /\ Busy(i, "route")
        /\ CASE access = "unrouted" -> Reply(i, "notFound")
             [] access = "required" /\ conn[i].user = Nobody ->
                    Pass(i, "session")
             [] OTHER -> Pass(i, "handler")
        /\ UNCHANGED <<mvars, sessions, owner>>
\* The router, and RequireAuth where the handler asks for it.
Route(i) ==
    LET access == Access[conn[i].req.endpoint]
    IN  /\ Busy(i, "route")
        /\ CASE access = "unrouted" -> Reply(i, "notFound")
             [] access = "required" /\ conn[i].user = Nobody ->
                    Reply(i, "unauthenticated")
             [] OTHER -> Pass(i, "handler")
        /\ UNCHANGED <<mvars, sessions, owner>>

\* handle_logout deletes the session of the cookie, and answers 204 also if
\* that fails.
Handle(i) ==
    /\ Busy(i, "handler")
    /\ Reply(i, "ok")
    /\ \/ /\ conn[i].req.endpoint = "logout"
          /\ sessions' = sessions \ {conn[i].req.cookie}
       \/ UNCHANGED sessions
    /\ UNCHANGED <<mvars, owner>>

AddCors_OnSuccess(i) ==
    /\ Busy(i, "cors")
    /\ conn' = [conn EXCEPT ![i].at = "done",
           ![i].readable = /\ conn[i].req.origin = "frontend"
                           /\ conn[i].answer \in {"ok", "preflight"}]
    /\ UNCHANGED <<mvars, sessions, owner>>
AddCors(i) ==
    /\ Busy(i, "cors")
    /\ conn' = [conn EXCEPT ![i].at = "done",
                            ![i].readable = conn[i].req.origin = "frontend"]
    /\ UNCHANGED <<mvars, sessions, owner>>

Finish(i) ==
    /\ Busy(i, "done")
    /\ conn' = [conn EXCEPT ![i] = NoRequest]
    /\ UNCHANGED <<mvars, sessions, owner>>

Layer(i) == \/ LookupSession(i) \/ CheckCsrf(i) \/ Route(i)
            \/ Handle(i) \/ AddCors(i) \/ Finish(i)

\* A replica that dies takes its request with it.
Die(i) ==
    /\ Crash(i)
    /\ conn' = [conn EXCEPT ![i] = NoRequest]
    /\ UNCHANGED <<sessions, owner>>

ComeUp(i) == (Start(i) \/ StartUp(i)) /\ UNCHANGED <<sessions, owner, conn>>

ServerNext ==
    \/ \E i \in Replicas :
           \/ ComeUp(i) \/ Die(i) \/ Layer(i)
           \/ \E q \in Requests : Accept(i, q)
    \/ \E u \in People, s \in SessionIds : SignIn(u, s)
    \/ \E s \in SessionIds : Expire(s)

ServerFairness ==
    \A i \in Replicas :
        WF_svars(ComeUp(i)) /\ WF_svars(Layer(i))

ServerSpec == ServerInit /\ [][ServerNext]_svars
FairServerSpec == ServerSpec /\ ServerFairness

-----------------------------------------------------------------------------
(* Properties. *)

\* ADR 0005: a request that changes state on behalf of a user carries the
\* token of that user's session.  A lookup that fails skips the check, so it
\* takes the extractor of every such endpoint for this to hold.
WritesCarryTheToken ==
    \A i \in Replicas :
        Busy(i, "handler") /\ StateChanging(conn[i].req) =>
            /\ conn[i].user # Nobody
            /\ conn[i].req.header = conn[i].req.cookie
            /\ conn[i].user = owner[conn[i].req.header]

\* Once a session is over, on whichever replica, no later request acts for
\* its user; only a request that had arrived before may still do so.
EndedSessionsStayOut ==
    \A i \in Replicas : conn[i] # NoRequest /\ conn[i].ended =>
        conn[i].user = Nobody

\* The frontend can read every answer, the refusals of the inner layers
\* included, and nobody else can.
FrontendCanRead ==
    \A i \in Replicas : Busy(i, "done") =>
        (conn[i].readable <=> conn[i].req.origin = "frontend")

\* A request is answered, or its replica dies.
RequestsFinish ==
    \A i \in Replicas : conn[i] # NoRequest ~> conn[i] = NoRequest
=============================================================================
