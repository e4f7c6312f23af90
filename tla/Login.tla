-------------------------------- MODULE Login --------------------------------
(***************************************************************************)
(* Signing in with OpenID Connect: httpapi/auth_handlers.rs over           *)
(* auth/store.rs, users/mod.rs and the session lookup of                   *)
(* httpapi/middleware.rs, at the grain of NotesService: one action per SQL *)
(* statement, with the code that follows it up to the next await.          *)
(*                                                                         *)
(* The identity provider is external.  It knows a person by a subject that *)
(* never changes and an email that may, and answers a callback's exchange  *)
(* with both; the email need not be unique (it is empty when the provider  *)
(* sends none).                                                            *)
(*                                                                         *)
(* A definition named Operation_Slip is Operation with one plausible slip, *)
(* kept to show that a property notices it; the specification uses none.   *)
(***************************************************************************)
EXTENDS Naturals, FiniteSets

CONSTANTS
    Subjects,    \* people, as the provider names them
    Emails,      \* emails, the empty one included
    UserIds,     \* pool of user ids (uuids)
    States,      \* pool of OAuth state values (random)
    SessionIds,  \* pool of session ids (random)
    Requests,    \* slots for handler tasks in flight
    Faults,      \* may statements fail?
    LoginTTL,    \* OIDC_REQUEST_TTL_MINUTES, in ticks of the clock
    SessionTTL,  \* SESSION_TTL_DAYS, in ticks of the clock
    MaxClock,    \* bound on the clock
    Absent,      \* no row
    Nothing      \* no request, or a local that is not set

ASSUME TimeAssumption == {LoginTTL, SessionTTL, MaxClock} \subseteq Nat
ASSUME FaultAssumption == Faults \in BOOLEAN
ASSUME NothingAssumption ==
    Nothing \notin Subjects \cup UserIds \cup States \cup SessionIds
Times == 0..(MaxClock + LoginTTL + SessionTTL)

VARIABLES
    users,     \* table users: id -> row
    logins,    \* table oidc_requests: state -> expires_at
    sessions,  \* table sessions: id -> row
    clock,     \* Utc::now()
    account,   \* the provider's email of each subject
    minted,    \* the ids, states and session ids drawn so far
    passed,    \* history: how many callbacks each state has let through
    task       \* the handler task of each slot

tables == <<users, logins, sessions>>
world == <<clock, account>>
vars == <<users, logins, sessions, clock, account, minted, passed, task>>

User == [subject : Subjects, email : Emails]
\* subject is history: who the provider said had signed in.
Session == [user : UserIds, expires : Times, subject : Subjects]
ASSUME AbsentAssumption == Absent \notin User \cup Session \cup Times

\* A callback carries a state and an authorization code; the code stands for
\* the person who signed in at the provider.
Logins    == [op : {"login"}]
Callbacks == [op : {"callback"}, state : States, subject : Subjects]
Visits    == [op : {"me", "logout"}, session : SessionIds]
Request == Logins \cup Callbacks \cup Visits

Labels == {"idle", "done", "purge", "start", "consume", "burn", "exchange",
           "find", "insert", "update", "open", "session", "expire", "me",
           "logout"}
Statuses == {"none", "ok", "invalidState", "exchangeFailed",
             "unauthenticated", "notFound", "internal"}

\* The locals of a handler: the state, user or session at hand, the time it
\* computed or read, and the email claim.
Task == [pc : Labels, req : Request \cup {Nothing}, answer : Statuses,
         state : States \cup {Nothing}, user : UserIds \cup {Nothing},
         expires : Times, email : Emails \cup {Nothing}]

IdleTask == [pc |-> "idle", req |-> Nothing, answer |-> "none",
             state |-> Nothing, user |-> Nothing, expires |-> 0,
             email |-> Nothing]

\* Bound: a state let through once, or more than once.
PassedCap == 2

TypeOK ==
    /\ users \in [UserIds -> User \cup {Absent}]
    /\ logins \in [States -> Times \cup {Absent}]
    /\ sessions \in [SessionIds -> Session \cup {Absent}]
    /\ clock \in 0..MaxClock
    /\ account \in [Subjects -> Emails]
    /\ minted \subseteq UserIds \cup States \cup SessionIds
    /\ passed \in [States -> 0..PassedCap]
    /\ task \in [Requests -> Task]

Init ==
    /\ users = [i \in UserIds |-> Absent]
    /\ logins = [s \in States |-> Absent]
    /\ sessions = [s \in SessionIds |-> Absent]
    /\ clock = 0
    /\ account \in [Subjects -> Emails]
    /\ minted = {}
    /\ passed = [s \in States |-> 0]
    /\ task = [r \in Requests |-> IdleTask]

-----------------------------------------------------------------------------

At(r, label) == task[r].pc = label
Goto(r, label) == task' = [task EXCEPT ![r].pc = label]
Answer(r, status) ==
    task' = [task EXCEPT ![r].pc = "done", ![r].answer = status]
Fresh(ids) == ids \ minted

\* SELECT id FROM users WHERE oidc_subject = ?
IdsOf(subject) ==
    {i \in UserIds : users[i] # Absent /\ users[i].subject = subject}

FirstLabel(q) ==
    CASE q.op = "login" -> "purge"
      [] q.op = "callback" -> "consume"
      [] OTHER -> "session"

\* A client can only send what it was given: a state that a login answered
\* with, a session id from a cookie.
Quoted(q) ==
    CASE q.op = "login" -> {}
      [] q.op = "callback" -> {q.state}
      [] OTHER -> {q.session}

\* Bound: no request arrives that could find a pool of ids empty.
InFlight(op) == {r \in Requests : ~At(r, "idle") /\ task[r].req.op = op}
Room(q, ids) == Cardinality(InFlight(q.op)) < Cardinality(Fresh(ids))
PoolsSuffice(q) ==
    /\ q.op = "login" => Room(q, States)
    /\ q.op = "callback" => Room(q, SessionIds)
    /\ q.op = "callback" /\ IdsOf(q.subject) = {} => Room(q, UserIds)

Receive(r, q) ==
    /\ At(r, "idle")
    /\ Quoted(q) \subseteq minted
    /\ PoolsSuffice(q)
    /\ task' = [task EXCEPT ![r] = [IdleTask EXCEPT !.req = q,
                                                    !.pc = FirstLabel(q)]]
    /\ UNCHANGED <<tables, world, minted, passed>>

Deliver(r) ==
    /\ At(r, "done")
    /\ task' = [task EXCEPT ![r] = IdleTask]
    /\ UNCHANGED <<tables, world, minted, passed>>

Tick ==
    /\ clock < MaxClock
    /\ clock' = clock + 1
    /\ UNCHANGED <<tables, account, minted, passed, task>>

\* Someone changes their email at the provider; others may have it.
ChangeEmail(s, e) ==
    /\ account[s] # e
    /\ account' = [account EXCEPT ![s] = e]
    /\ UNCHANGED <<tables, clock, minted, passed, task>>

-----------------------------------------------------------------------------
(* GET /auth/login: create_oidc_request. *)

Abandoned_All(s) == logins[s] # Absent
Abandoned(s) == logins[s] # Absent /\ logins[s] < clock

Purge(r) ==
    /\ At(r, "purge")
    /\ logins' = [s \in States |-> IF Abandoned(s) THEN Absent ELSE logins[s]]
    /\ \E s \in Fresh(States) :
           /\ minted' = minted \cup {s}
           /\ task' = [task EXCEPT ![r].pc = "start", ![r].state = s,
                                   ![r].expires = clock + LoginTTL]
    /\ UNCHANGED <<users, sessions, world, passed>>

Start(r) ==
    /\ At(r, "start")
    /\ logins' = [logins EXCEPT ![task[r].state] = task[r].expires]
    /\ Answer(r, "ok")
    /\ UNCHANGED <<users, sessions, world, minted, passed>>

-----------------------------------------------------------------------------
(* GET /auth/callback: consume_oidc_request, exchange, upsert_from_oidc,   *)
(* create_session.                                                         *)

Consume(r) ==
    LET s == task[r].req.state
    IN  /\ At(r, "consume")
        /\ IF logins[s] = Absent
           THEN Answer(r, "invalidState")
           ELSE task' = [task EXCEPT ![r].pc = "burn",
                                     ![r].expires = logins[s]]
        /\ UNCHANGED <<tables, world, minted, passed>>

Burn_IfExpired(r) ==
    LET s == task[r].req.state
    IN  /\ At(r, "burn")
        /\ IF clock > task[r].expires
           THEN /\ Answer(r, "invalidState")
                /\ logins' = [logins EXCEPT ![s] = Absent]
                /\ UNCHANGED passed
           ELSE /\ Goto(r, "exchange")
                /\ passed' = [passed EXCEPT ![s] =
                       IF @ = PassedCap THEN @ ELSE @ + 1]
                /\ UNCHANGED logins
        /\ UNCHANGED <<users, sessions, world, minted>>
\* The DELETE, whose count of rows nobody looks at, and then the clock.
Burn(r) ==
    LET s == task[r].req.state
        expired == clock > task[r].expires
    IN  /\ At(r, "burn")
        /\ logins' = [logins EXCEPT ![s] = Absent]
        /\ IF expired
           THEN Answer(r, "invalidState") /\ UNCHANGED passed
           ELSE /\ Goto(r, "exchange")
                /\ passed' = [passed EXCEPT ![s] =
                       IF @ = PassedCap THEN @ ELSE @ + 1]
        /\ UNCHANGED <<users, sessions, world, minted>>

Exchange(r) ==
    /\ At(r, "exchange")
    /\ \/ task' = [task EXCEPT ![r].pc = "find",
                               ![r].email = account[task[r].req.subject]]
       \/ Answer(r, "exchangeFailed")
    /\ UNCHANGED <<tables, world, minted, passed>>

\* A new uuid is drawn when the SELECT finds nobody.
FindUser_NeverInserts(r) ==
    /\ At(r, "find")
    /\ \/ \E i \in IdsOf(task[r].req.subject) :
              task' = [task EXCEPT ![r].pc = "update", ![r].user = i]
       \/ /\ IdsOf(task[r].req.subject) = {}
          /\ Goto(r, "update")
    /\ UNCHANGED <<tables, world, minted, passed>>

FindUser(r) ==
    LET known == IdsOf(task[r].req.subject)
    IN  /\ At(r, "find")
        /\ \/ \E i \in known :
                  /\ task' = [task EXCEPT ![r].pc = "update", ![r].user = i]
                  /\ UNCHANGED minted
           \/ /\ known = {}
              /\ \E i \in Fresh(UserIds) :
                     /\ minted' = minted \cup {i}
                     /\ task' = [task EXCEPT ![r].pc = "insert", ![r].user = i]
        /\ UNCHANGED <<tables, world, passed>>

Unique_Unchecked(i, row) == TRUE
\* The UNIQUE constraints, against every other row.
Unique(i, row) ==
    \A j \in UserIds \ {i} : users[j] # Absent =>
        users[j].subject # row.subject /\ users[j].email # row.email

\* INSERT or UPDATE; with it settled, the session gets its expiry.
SaveUser(r) ==
    LET i == task[r].user
        row == [subject |-> task[r].req.subject, email |-> task[r].email]
    IN  /\ At(r, "insert") \/ At(r, "update")
        /\ IF Unique(i, row)
           THEN /\ users' = [users EXCEPT ![i] = row]
                /\ task' = [task EXCEPT ![r].pc = "open",
                                        ![r].expires = clock + SessionTTL]
           ELSE Answer(r, "internal") /\ UNCHANGED users
        /\ UNCHANGED <<logins, sessions, world, minted, passed>>

OpenSession(r) ==
    /\ At(r, "open")
    /\ \E s \in Fresh(SessionIds) :
           /\ minted' = minted \cup {s}
           /\ sessions' = [sessions EXCEPT ![s] =
                  [user |-> task[r].user, expires |-> task[r].expires,
                   subject |-> task[r].req.subject]]
    /\ Answer(r, "ok")
    /\ UNCHANGED <<users, logins, world, passed>>

-----------------------------------------------------------------------------
(* A request with a session cookie: get_session in the middleware, then    *)
(* GET /auth/me or POST /auth/logout.                                      *)

GetSession(r) ==
    LET row == sessions[task[r].req.session]
    IN  /\ At(r, "session")
        /\ \/ /\ row = Absent
              /\ Answer(r, "unauthenticated")
           \/ /\ row # Absent
              /\ clock > row.expires
              /\ Goto(r, "expire")
           \/ /\ row # Absent
              /\ clock <= row.expires
              /\ task' = [task EXCEPT ![r].pc = task[r].req.op,
                                      ![r].user = row.user]
        /\ UNCHANGED <<tables, world, minted, passed>>

\* delete_session, from get_session or from handle_logout; the first treats
\* an error as no session, the second ignores it.
DeleteSession(r) ==
    /\ At(r, "expire") \/ At(r, "logout")
    /\ sessions' = [sessions EXCEPT ![task[r].req.session] = Absent]
    /\ Answer(r, IF At(r, "expire") THEN "unauthenticated" ELSE "ok")
    /\ UNCHANGED <<users, logins, world, minted, passed>>

Me(r) ==
    /\ At(r, "me")
    /\ Answer(r, "ok")
    /\ UNCHANGED <<tables, world, minted, passed>>

-----------------------------------------------------------------------------
\* A statement fails in the driver, and what the handlers make of it.
FaultStatus(label) ==
    CASE label \in {"consume", "burn"} -> "invalidState"
      [] label \in {"session", "expire"} -> "unauthenticated"
      [] label = "logout" -> "ok"
      [] label = "me" -> "notFound"
      [] OTHER -> "internal"

Fault(r) ==
    /\ Faults
    /\ task[r].pc \notin {"idle", "done", "exchange"}
    /\ Answer(r, FaultStatus(task[r].pc))
    /\ UNCHANGED <<tables, world, minted, passed>>

Next ==
    \/ \E r \in Requests :
           \/ \E q \in Request : Receive(r, q)
           \/ Purge(r) \/ Start(r)
           \/ Consume(r) \/ Burn(r) \/ Exchange(r)
           \/ FindUser(r) \/ SaveUser(r) \/ OpenSession(r)
           \/ GetSession(r) \/ DeleteSession(r) \/ Me(r)
           \/ Fault(r) \/ Deliver(r)
    \/ \E s \in Subjects, e \in Emails : ChangeEmail(s, e)
    \/ Tick

Spec == Init /\ [][Next]_vars

-----------------------------------------------------------------------------
(* Properties. *)

\* Every session of a person is a session of one and the same account, the
\* one that carries their subject, whatever happens to emails and however
\* first logins race (users/mod.rs: matching is "never on email alone").
SameAccountEveryTime ==
    \A s \in SessionIds : sessions[s] # Absent =>
        IdsOf(sessions[s].subject) = {sessions[s].user}

\* Clearing out abandoned logins never takes one that is still good: an
\* unexpired request leaves the table only by a callback with its state.
UnexpiredStays ==
    [][\A s \in States :
          logins[s] # Absent /\ logins'[s] = Absent /\ clock <= logins[s] =>
              \E r \in Requests : At(r, "burn") /\ task[r].req.state = s]_vars

\* store.rs: "a state value must only ever be usable once".  Callbacks that
\* race between the SELECT and the DELETE can both pass; one that comes after
\* a callback that passed does not, for the state is gone and stays gone.
StateBurns == \A s \in States : passed[s] > 0 => logins[s] = Absent
=============================================================================
