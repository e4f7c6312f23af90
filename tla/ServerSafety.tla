---------------------------- MODULE ServerSafety ----------------------------
(***************************************************************************)
(* Safety of the request pipeline, for any number of replicas, sessions    *)
(* and requests under way; and that replicas which serve start up as       *)
(* Migrations says, so that its theorems are theorems about them.          *)
(***************************************************************************)
EXTENDS Server, MigrationsSafety

(***************************************************************************)
(* What is known of a request at each layer.                               *)
(***************************************************************************)
\* Whoever the request acts for signed in with its cookie.
ActsForItsCookie(c) ==
    c.user # Nobody => /\ c.token = c.req.cookie
                       /\ c.token # NoSession
                       /\ c.user = owner[c.token]
                       /\ ~c.ended

Checked(c) ==
    c.at \in {"route", "handler"} /\ StateChanging(c.req) /\ c.token # NoSession
        => c.req.header = c.token

Admitted(c) ==
    c.at = "handler" /\ StateChanging(c.req) => c.user # Nobody

Known(c) ==
    /\ c.ended => c.req.cookie \notin sessions
    /\ c.req.cookie # NoSession =>
           c.req.cookie \in SessionIds /\ owner[c.req.cookie] # Nobody

Readable(c) == c.at = "done" => (c.readable <=> c.req.origin = "frontend")

Sound(c) == /\ ActsForItsCookie(c) /\ Checked(c) /\ Admitted(c)
            /\ Known(c) /\ Readable(c) /\ c \in Conn

PInv ==
    /\ sessions \subseteq SessionIds
    /\ owner \in [SessionIds -> People \cup {Nobody}]
    /\ \A s \in sessions : owner[s] # Nobody
    /\ conn \in [Replicas -> Conn \cup {NoRequest}]
    /\ \A i \in Replicas : conn[i] # NoRequest => Sound(conn[i])

LEMMA RequestShape ==
    ASSUME NEW q \in Requests
    PROVE  /\ q.endpoint \in DOMAIN Access
           /\ q.cookie \in SessionIds \cup {NoSession}
           /\ q.method \in Method[q.endpoint]
  BY DEF Requests

\* Only endpoints that require a user, and paths that do not exist, take a
\* method that changes state.
LEMMA WritesNeedAUser ==
    ASSUME NEW q \in Requests, StateChanging(q)
    PROVE  Access[q.endpoint] \in {"required", "unrouted"}
  <1>1. q.endpoint \in {"read", "write", "logout", "feed", "link", "nowhere"}
    BY RequestShape DEF Access
  <1> QED
    BY <1>1, RequestShape DEF Access, Method, StateChanging

LEMMA PipelineInit == ServerInit => PInv
  BY DEF ServerInit, PInv

(***************************************************************************)
(* The request of replica i moves on, and nothing else changes.            *)
(***************************************************************************)
LEMMA LayerStep ==
    ASSUME PInv, NEW i \in Replicas, UNCHANGED <<sessions, owner>>,
           NEW c, conn' = [conn EXCEPT ![i] = c], c # NoRequest => Sound(c)
    PROVE  PInv'
  <1>1. conn'[i] = c /\ \A j \in Replicas : j # i => conn'[j] = conn[j]
    BY DEF PInv
  <1>2. conn' \in [Replicas -> Conn \cup {NoRequest}]
    BY DEF PInv, Sound
  <1>3. \A j \in Replicas : conn'[j] # NoRequest => Sound(conn'[j])
    BY <1>1 DEF PInv
  <1>4. \A j \in Replicas : Sound(conn'[j]) => Sound(conn[j])'
    BY DEF Sound, ActsForItsCookie, Checked, Admitted, Known, Readable
  <1> QED
    BY <1>2, <1>3, <1>4 DEF PInv

\* The fields of a request under way.
LEMMA Fields ==
    ASSUME PInv, NEW i \in Replicas, conn[i] # NoRequest
    PROVE  /\ Sound(conn[i]) /\ conn[i] \in Conn
           /\ conn[i].req \in Requests
           /\ conn[i].user \in People \cup {Nobody}
  BY DEF PInv, Sound, Conn

LEMMA LookupSessionKeeps ==
    ASSUME PInv, NEW i \in Replicas, LookupSession(i)
    PROVE  PInv'
  <1> DEFINE c == conn[i]
  <1>1. c # NoRequest /\ c.at = "session" /\ UNCHANGED <<sessions, owner>>
    BY DEF LookupSession, Busy
  <1>2. Sound(c) /\ c \in Conn
    BY <1>1, Fields
  <1>3. CASE Pass(i, "csrf")
    <2> DEFINE d == [c EXCEPT !.at = "csrf"]
    <2>1. conn' = [conn EXCEPT ![i] = d]
      BY <1>3 DEF Pass
    <2>2. Sound(d)
      BY <1>2 DEF Sound, ActsForItsCookie, Checked, Admitted, Known, Readable,
                  Conn
    <2> QED
      BY <1>1, <2>1, <2>2, LayerStep
  <1>4. CASE /\ c.req.cookie \in sessions
             /\ conn' = [conn EXCEPT ![i].at = "csrf",
                            ![i].user = owner[c.req.cookie],
                            ![i].token = c.req.cookie]
    <2> DEFINE d == [c EXCEPT !.at = "csrf", !.user = owner[c.req.cookie],
                              !.token = c.req.cookie]
    <2>1. conn' = [conn EXCEPT ![i] = d]
      BY <1>4
    <2>2. /\ c.req.cookie \in SessionIds /\ c.req.cookie # NoSession
          /\ owner[c.req.cookie] \in People \cup {Nobody}
      BY <1>4, NobodyAssumption DEF PInv
    <2>3. d \in Conn
      BY <1>2, <2>2 DEF Conn
    <2>4. /\ d.at = "csrf" /\ d.user = owner[c.req.cookie]
          /\ d.token = c.req.cookie /\ d.req = c.req /\ d.ended = c.ended
      BY <1>2 DEF Conn
    <2>5. Sound(d)
      BY <1>2, <1>4, <2>2, <2>3, <2>4
         DEF Sound, ActsForItsCookie, Checked, Admitted, Known, Readable
    <2> QED
      BY <1>1, <2>1, <2>5, LayerStep
  <1> QED
    BY <1>3, <1>4 DEF LookupSession

\* An answer on its way back acts for nobody any more.
LEMMA ReplyKeeps ==
    ASSUME PInv, NEW i \in Replicas, conn[i] # NoRequest,
           UNCHANGED <<sessions, owner>>,
           NEW answer \in {"ok", "unauthenticated", "csrfRejected", "notFound"},
           Reply(i, answer)
    PROVE  PInv'
  <1> DEFINE c == conn[i]
             d == [c EXCEPT !.at = "cors", !.answer = answer]
  <1>1. Sound(c) /\ c \in Conn
    BY Fields
  <1>2. conn' = [conn EXCEPT ![i] = d]
    BY DEF Reply
  <1>3. d \in Conn
    BY <1>1 DEF Conn
  <1>4. /\ d.at = "cors" /\ d.req = c.req /\ d.user = c.user
        /\ d.token = c.token /\ d.ended = c.ended
    BY <1>1 DEF Conn
  <1>5. Sound(d)
    BY <1>1, <1>3, <1>4
       DEF Sound, ActsForItsCookie, Checked, Admitted, Known, Readable
  <1> QED
    BY <1>2, <1>5, LayerStep

\* The request goes one layer further in, if that layer may have it.
LEMMA PassKeeps ==
    ASSUME PInv, NEW i \in Replicas, conn[i] # NoRequest,
           UNCHANGED <<sessions, owner>>,
           NEW layer \in {"route", "handler"}, Pass(i, layer),
           Checked([conn[i] EXCEPT !.at = layer]),
           Admitted([conn[i] EXCEPT !.at = layer])
    PROVE  PInv'
  <1> DEFINE c == conn[i]
             d == [c EXCEPT !.at = layer]
  <1>1. Sound(c) /\ c \in Conn
    BY Fields
  <1>2. conn' = [conn EXCEPT ![i] = d]
    BY DEF Pass
  <1>3. d \in Conn
    BY <1>1 DEF Conn
  <1>4. /\ d.at = layer /\ d.req = c.req /\ d.user = c.user
        /\ d.token = c.token /\ d.ended = c.ended
    BY <1>1 DEF Conn
  <1>5. Sound(d)
    BY <1>1, <1>3, <1>4 DEF Sound, ActsForItsCookie, Known, Readable
  <1> QED
    BY <1>2, <1>5, LayerStep

LEMMA CheckCsrfKeeps ==
    ASSUME PInv, NEW i \in Replicas, CheckCsrf(i)
    PROVE  PInv'
  <1> DEFINE c == conn[i]
             d == [c EXCEPT !.at = "route"]
  <1>1. c # NoRequest /\ UNCHANGED <<sessions, owner>>
    BY DEF CheckCsrf, Busy
  <1>2. d.at = "route" /\ d.req = c.req /\ d.token = c.token
    BY <1>1, Fields DEF Conn
  <1>3. CASE /\ StateChanging(c.req) /\ c.token # NoSession
             /\ c.req.header # c.token
    BY <1>1, <1>3, ReplyKeeps DEF CheckCsrf
  <1>4. CASE ~(/\ StateChanging(c.req) /\ c.token # NoSession
               /\ c.req.header # c.token)
    <2>1. Pass(i, "route")
      BY <1>4 DEF CheckCsrf
    <2>2. Checked(d) /\ Admitted(d)
      BY <1>2, <1>4 DEF Checked, Admitted
    <2> QED
      BY <1>1, <2>1, <2>2, PassKeeps
  <1> QED
    BY <1>3, <1>4

LEMMA RouteKeeps ==
    ASSUME PInv, NEW i \in Replicas, Route(i)
    PROVE  PInv'
  <1> DEFINE c == conn[i]
             d == [c EXCEPT !.at = "handler"]
             access == Access[c.req.endpoint]
  <1>1. c # NoRequest /\ c.at = "route" /\ UNCHANGED <<sessions, owner>>
    BY DEF Route, Busy
  <1>2. /\ d.at = "handler" /\ d.req = c.req /\ d.token = c.token
        /\ d.user = c.user
    BY <1>1, Fields DEF Conn
  <1>3. CASE access = "unrouted"
    BY <1>1, <1>3, ReplyKeeps DEF Route
  <1>4. CASE access = "required" /\ c.user = Nobody
    BY <1>1, <1>4, ReplyKeeps DEF Route
  <1>5. CASE access # "unrouted" /\ ~(access = "required" /\ c.user = Nobody)
    <2>1. Pass(i, "handler")
      BY <1>5 DEF Route
    <2>2. Checked(d)
      BY <1>1, <1>2, Fields DEF Checked, Sound
    <2>3. Admitted(d)
      BY <1>1, <1>2, <1>5, Fields, WritesNeedAUser DEF Admitted
    <2> QED
      BY <1>1, <2>1, <2>2, <2>3, PassKeeps
  <1> QED
    BY <1>3, <1>4, <1>5

\* A session that ends leaves what is known of every request as it was.
LEMMA EndingKeeps ==
    ASSUME PInv, NEW s, sessions' = sessions \ {s}, UNCHANGED <<owner, conn>>
    PROVE  PInv'
  <1>1. \A i \in Replicas : Sound(conn[i]) => Sound(conn[i])'
    BY DEF Sound, ActsForItsCookie, Checked, Admitted, Known, Readable
  <1> QED
    BY <1>1 DEF PInv

LEMMA HandleKeeps ==
    ASSUME PInv, NEW i \in Replicas, Handle(i)
    PROVE  PInv'
  <1> DEFINE c == conn[i]
             d == [c EXCEPT !.at = "cors", !.answer = "ok"]
  <1>1. /\ c # NoRequest /\ UNCHANGED owner
        /\ conn' = [conn EXCEPT ![i] = d]
        /\ sessions' \subseteq sessions
    BY DEF Handle, Busy, Reply
  <1>2. Sound(c) /\ c \in Conn
    BY <1>1, Fields
  <1>3. d \in Conn
    BY <1>2 DEF Conn
  <1>4. /\ d.at = "cors" /\ d.req = c.req /\ d.user = c.user
        /\ d.token = c.token /\ d.ended = c.ended
    BY <1>2 DEF Conn
  <1>5. Sound(d)
    BY <1>2, <1>3, <1>4
       DEF Sound, ActsForItsCookie, Checked, Admitted, Known, Readable
  <1>6. /\ conn' \in [Replicas -> Conn \cup {NoRequest}] /\ conn'[i] = d
        /\ \A j \in Replicas : j # i => conn'[j] = conn[j]
    BY <1>1, <1>3 DEF PInv
  <1>7. \A j \in Replicas : conn'[j] # NoRequest => Sound(conn'[j])
    BY <1>5, <1>6 DEF PInv
  <1>8. \A j \in Replicas : Sound(conn'[j]) => Sound(conn[j])'
    BY <1>1 DEF Sound, ActsForItsCookie, Checked, Admitted, Known, Readable
  <1> QED
    BY <1>1, <1>6, <1>7, <1>8 DEF PInv

LEMMA AddCorsKeeps ==
    ASSUME PInv, NEW i \in Replicas, AddCors(i)
    PROVE  PInv'
  <1> DEFINE c == conn[i]
             d == [c EXCEPT !.at = "done",
                            !.readable = c.req.origin = "frontend"]
  <1>1. /\ c # NoRequest /\ UNCHANGED <<sessions, owner>>
        /\ conn' = [conn EXCEPT ![i] = d]
    BY DEF AddCors, Busy
  <1>2. Sound(c) /\ c \in Conn
    BY <1>1, Fields
  <1>3. d \in Conn
    BY <1>2 DEF Conn
  <1>4. /\ d.at = "done" /\ d.req = c.req /\ d.user = c.user
        /\ d.token = c.token /\ d.ended = c.ended
        /\ d.readable <=> c.req.origin = "frontend"
    BY <1>2 DEF Conn
  <1>5. Sound(d)
    BY <1>2, <1>3, <1>4
       DEF Sound, ActsForItsCookie, Checked, Admitted, Known, Readable
  <1> QED
    BY <1>1, <1>5, LayerStep

LEMMA AcceptKeeps ==
    ASSUME PInv, NEW i \in Replicas, NEW q \in Requests, Accept(i, q)
    PROVE  PInv'
  <1> DEFINE stop == q.method = "OPTIONS"
             d == [at |-> IF stop THEN "cors" ELSE "session",
                   req |-> q, user |-> Nobody, token |-> NoSession,
                   ended |-> q.cookie \notin sessions, readable |-> FALSE,
                   answer |-> IF stop THEN "preflight" ELSE "none"]
  <1>1. /\ conn' = [conn EXCEPT ![i] = d] /\ UNCHANGED <<sessions, owner>>
        /\ q.cookie # NoSession => owner[q.cookie] # Nobody
    BY DEF Accept
  <1>2. d \in Conn
    BY DEF Conn
  <1>3. Sound(d)
    BY <1>1, <1>2, RequestShape
       DEF Sound, ActsForItsCookie, Checked, Admitted, Known, Readable
  <1> QED
    BY <1>1, <1>3, LayerStep

\* The ids are random: a session that starts is one that no request names.
LEMMA SignInKeeps ==
    ASSUME PInv, NEW u \in People, NEW s \in SessionIds, SignIn(u, s)
    PROVE  PInv'
  <1>1. /\ owner[s] = Nobody /\ u # Nobody /\ s # NoSession
        /\ owner' = [owner EXCEPT ![s] = u]
        /\ sessions' = sessions \cup {s} /\ UNCHANGED conn
    BY NobodyAssumption DEF SignIn
  <1>2. /\ owner' \in [SessionIds -> People \cup {Nobody}]
        /\ owner'[s] = u
        /\ \A r \in SessionIds : r # s => owner'[r] = owner[r]
    BY <1>1 DEF PInv
  <1>3. sessions' \subseteq SessionIds /\ \A r \in sessions' : owner'[r] # Nobody
    BY <1>1, <1>2 DEF PInv
  <1>4. ASSUME NEW i \in Replicas, Sound(conn[i])
        PROVE  Sound(conn[i])'
    BY <1>1, <1>2, <1>4
       DEF Sound, ActsForItsCookie, Checked, Admitted, Known, Readable
  <1> QED
    BY <1>1, <1>2, <1>3, <1>4 DEF PInv

LEMMA PipelineNext == PInv /\ [ServerNext]_svars => PInv'
  <1> SUFFICES ASSUME PInv, [ServerNext]_svars PROVE PInv'
    OBVIOUS
  <1>1. ASSUME NEW i \in Replicas, Layer(i) PROVE PInv'
    <2>1. ASSUME Finish(i) PROVE PInv'
      BY <2>1, LayerStep DEF Finish
    <2> QED
      BY <1>1, <2>1, LookupSessionKeeps, CheckCsrfKeeps, RouteKeeps,
         HandleKeeps, AddCorsKeeps DEF Layer
  <1>2. ASSUME NEW i \in Replicas, NEW q \in Requests, Accept(i, q) PROVE PInv'
    BY <1>2, AcceptKeeps
  <1>3. ASSUME NEW i \in Replicas, Die(i) PROVE PInv'
    BY <1>3, LayerStep DEF Die
  <1>4. CASE UNCHANGED <<sessions, owner, conn>>
    BY <1>4 DEF PInv, Sound, ActsForItsCookie, Checked, Admitted, Known,
                Readable
  <1>5. ASSUME NEW u \in People, NEW s \in SessionIds, SignIn(u, s) PROVE PInv'
    BY <1>5, SignInKeeps
  <1>6. ASSUME NEW s \in SessionIds, Expire(s) PROVE PInv'
    BY <1>6, EndingKeeps DEF Expire
  <1> QED
    BY <1>1, <1>2, <1>3, <1>4, <1>5, <1>6 DEF ServerNext, ComeUp, svars

LEMMA PipelineHolds == ServerSpec => []PInv
  BY PipelineInit, PipelineNext, PTL DEF ServerSpec

(***************************************************************************)
(* The theorems.                                                           *)
(***************************************************************************)

\* A request that changes state on behalf of a user carries the token of that
\* user's session (ADR 0005), also when the session lookup fails.
THEOREM WritesCarryTheTokenHolds == ServerSpec => []WritesCarryTheToken
  <1>1. PInv => WritesCarryTheToken
    BY DEF PInv, Sound, ActsForItsCookie, Checked, Admitted,
           WritesCarryTheToken, Busy
  <1> QED
    BY <1>1, PipelineHolds, PTL

\* No request that arrives after its session is over acts for its user,
\* whichever replica ended the session.
THEOREM EndedSessionsStayOutHolds == ServerSpec => []EndedSessionsStayOut
  <1>1. PInv => EndedSessionsStayOut
    BY DEF PInv, Sound, ActsForItsCookie, EndedSessionsStayOut
  <1> QED
    BY <1>1, PipelineHolds, PTL

\* The frontend, and it alone, can read every answer.
THEOREM FrontendCanReadHolds == ServerSpec => []FrontendCanRead
  <1>1. PInv => FrontendCanRead
    BY DEF PInv, Sound, Readable, FrontendCanRead, Busy
  <1> QED
    BY <1>1, PipelineHolds, PTL

\* Refinement: what replicas that serve do to the database and to themselves
\* is a start-up as Migrations describes it.
THEOREM ServerStartsUp == ServerSpec => MigrationsSpec
  <1>1. ServerInit => MigrationsInit
    BY DEF ServerInit
  <1>2. [ServerNext]_svars => [MigrationsNext]_mvars
    <2> SUFFICES ASSUME [ServerNext]_svars PROVE [MigrationsNext]_mvars
      OBVIOUS
    <2>1. ASSUME NEW i \in Replicas, ComeUp(i) PROVE MigrationsNext
      BY <2>1 DEF ComeUp, MigrationsNext
    <2>2. ASSUME NEW i \in Replicas, Die(i) PROVE MigrationsNext
      BY <2>2 DEF Die, MigrationsNext
    <2>3. ASSUME NEW i \in Replicas, Layer(i) PROVE UNCHANGED mvars
      BY <2>3 DEF Layer, LookupSession, CheckCsrf, Route, Handle, AddCors,
                  Finish
    <2>4. ASSUME NEW i \in Replicas, NEW q \in Requests, Accept(i, q)
          PROVE  UNCHANGED mvars
      BY <2>4 DEF Accept
    <2>5. ASSUME NEW u \in People, NEW s \in SessionIds, SignIn(u, s)
          PROVE  UNCHANGED mvars
      BY <2>5 DEF SignIn
    <2>6. ASSUME NEW s \in SessionIds, Expire(s) PROVE UNCHANGED mvars
      BY <2>6 DEF Expire
    <2>7. UNCHANGED svars => UNCHANGED mvars
      BY DEF svars
    <2> QED
      BY <2>1, <2>2, <2>3, <2>4, <2>5, <2>6, <2>7 DEF ServerNext
  <1> QED
    BY <1>1, <1>2, PTL DEF ServerSpec, MigrationsSpec

\* Replicas, sessions and requests keep their types.
THEOREM ServerTypeCorrect == ServerSpec => []ServerTypeOK
  <1>1. IInv /\ PInv => ServerTypeOK
    BY DEF IInv, PInv, ServerTypeOK
  <1> QED
    BY <1>1, PipelineHolds, ServerStartsUp, Inductive, PTL

\* A request is only ever served on a schema its release knows.
THEOREM ServedOnItsSchema == ServerSpec => []ServingHasSchema
  BY ServerStartsUp, ServingHasSchemaHolds, PTL
=============================================================================
