---------------------------- MODULE LoginSafety ----------------------------
(***************************************************************************)
(* Signing in, proved for any number of people, emails, sessions and       *)
(* callbacks in flight, whatever the clock and the provider do.            *)
(***************************************************************************)
EXTENDS Login, TLAPS

(* The locals a handler has set by the time it awaits a statement. *)
InCallback == {"consume", "burn", "exchange", "find", "insert", "update", "open"}
Shape(t) ==
    /\ t.pc \in {"purge", "start"} => t.req \in Logins
    /\ t.pc = "start" => t.state \in States
    /\ t.pc \in InCallback => t.req \in Callbacks
    /\ t.pc \in {"find", "insert", "update"} => t.email \in Emails
    /\ t.pc \in {"insert", "update", "open"} => t.user \in UserIds
    /\ t.pc \in {"session", "expire", "me", "logout"} => t.req \in Visits
TasksOK == \A r \in Requests : task[r] \in Task /\ Shape(task[r])

BelongsIn(table, i, subject) == table[i] # Absent /\ table[i].subject = subject
Belongs(i, subject) == BelongsIn(users, i, subject)

(* No subject has two accounts. *)
OneAccount ==
    \A i, j \in UserIds :
        users[i] # Absent /\ users[j] # Absent /\ users[i].subject = users[j].subject
        => i = j

(* A callback that found or saved an account has one of its own subject. *)
AccountAtHand ==
    \A r \in Requests :
        task[r].pc \in {"update", "open"} =>
            Belongs(task[r].user, task[r].req.subject)

SessionsBelong ==
    \A s \in SessionIds :
        sessions[s] # Absent => Belongs(sessions[s].user, sessions[s].subject)

(* A new account's id is nobody's yet, and nobody else's to be. *)
NewIdIsNew ==
    /\ \A i \in UserIds : users[i] # Absent => i \in minted
    /\ \A r \in Requests : At(r, "insert") =>
           /\ task[r].user \in minted
           /\ users[task[r].user] = Absent
           /\ \A s \in Requests \ {r} :
                  At(s, "insert") => task[s].user # task[r].user

(* A state that is not in the table yet has been seen by no callback. *)
NewStateIsNew ==
    /\ \A s \in States : logins[s] # Absent \/ passed[s] > 0 => s \in minted
    /\ \A r \in Requests : At(r, "burn") => task[r].req.state \in minted
    /\ \A r \in Requests : At(r, "start") =>
           /\ task[r].state \in minted
           /\ logins[task[r].state] = Absent
           /\ passed[task[r].state] = 0
           /\ \A s \in Requests \ {r} :
                  /\ At(s, "start") => task[s].state # task[r].state
                  /\ At(s, "burn") => task[s].req.state # task[r].state

LInv == /\ TypeOK
        /\ TasksOK
        /\ OneAccount
        /\ AccountAtHand
        /\ SessionsBelong
        /\ NewIdIsNew
        /\ NewStateIsNew
        /\ StateBurns

-----------------------------------------------------------------------------
Statement(r) ==
    \/ Purge(r) \/ Start(r) \/ Consume(r) \/ Burn(r) \/ Exchange(r)
    \/ FindUser(r) \/ SaveUser(r) \/ OpenSession(r)
    \/ GetSession(r) \/ DeleteSession(r) \/ Me(r) \/ Fault(r)
Act(r) == Statement(r) \/ Deliver(r) \/ \E q \in Request : Receive(r, q)

LEMMA StepsOfLogin ==
    ASSUME [Next]_vars
    PROVE  \/ \E r \in Requests : Act(r)
           \/ UNCHANGED <<users, logins, sessions, minted, passed, task>>
  BY DEF Next, Act, Statement, ChangeEmail, Tick, tables, vars

LEMMA RequestFields ==
    /\ \A q \in Callbacks : q.op = "callback" /\ q.state \in States /\ q.subject \in Subjects
    /\ \A q \in Visits : q.op \in {"me", "logout"} /\ q.session \in SessionIds
    /\ \A q \in Logins : q.op = "login"
  BY DEF Callbacks, Visits, Logins

(***************************************************************************)
(* Type correctness: the clock's bounds make every expiry a time, and a    *)
(* statement finds set what the statements before it have set.             *)
(***************************************************************************)
LEMMA Arithmetic ==
    ASSUME TypeOK
    PROVE  /\ clock \in Times
           /\ clock + LoginTTL \in Times /\ clock + SessionTTL \in Times
           /\ 0 \in Times /\ Times \subseteq Nat
  BY TimeAssumption DEF TypeOK, Times

(* Replacing one task by a well-shaped one keeps them all. *)
LEMMA TaskReplaced ==
    ASSUME TypeOK, TasksOK, NEW r \in Requests, NEW t \in Task, Shape(t),
           task' = [task EXCEPT ![r] = t]
    PROVE  task' \in [Requests -> Task] /\ TasksOK'
  BY DEF TypeOK, TasksOK

LEMMA AnswerOK ==
    ASSUME TypeOK, TasksOK, NEW r \in Requests, NEW status \in Statuses,
           Answer(r, status)
    PROVE  task' \in [Requests -> Task] /\ TasksOK'
  <1> DEFINE t == [task[r] EXCEPT !.pc = "done", !.answer = status]
  <1>1. task' = [task EXCEPT ![r] = t]
    BY DEF Answer, TypeOK
  <1>2. t \in Task /\ Shape(t)
    BY DEF TypeOK, Task, Labels, Shape, InCallback
  <1> QED  BY <1>1, <1>2, TaskReplaced

LEMMA StatementTasksOK ==
    ASSUME TypeOK, TasksOK, NEW r \in Requests, Statement(r)
    PROVE  task' \in [Requests -> Task] /\ TasksOK'
  <1> DEFINE t == task[r]
             Kept == task' \in [Requests -> Task] /\ TasksOK'
  <1> USE RequestFields
  <1>1. t \in Task /\ Shape(t) /\ task \in [Requests -> Task]
    BY DEF TypeOK, TasksOK
  <1>2. "ok" \in Statuses /\ "invalidState" \in Statuses
        /\ "exchangeFailed" \in Statuses /\ "unauthenticated" \in Statuses
        /\ "internal" \in Statuses /\ "notFound" \in Statuses
    BY DEF Statuses
  <1>3. ASSUME NEW s, Answer(r, s),
               s \in {"ok", "invalidState", "exchangeFailed", "unauthenticated",
                      "internal", "notFound"}
        PROVE  Kept
    BY <1>2, <1>3, AnswerOK
  <1>4. CASE Purge(r)
    <2>1. PICK s \in States : task' = [task EXCEPT ![r].pc = "start", ![r].state = s,
                                        ![r].expires = clock + LoginTTL]
      BY <1>4 DEF Purge, Fresh
    <2> DEFINE u == [t EXCEPT !.pc = "start", !.state = s, !.expires = clock + LoginTTL]
    <2>2. task' = [task EXCEPT ![r] = u]
      BY <1>1, <2>1
    <2>3. u \in Task /\ Shape(u)
      BY <1>1, <1>4, Arithmetic DEF Purge, At, Task, Labels, Shape, InCallback
    <2> QED  BY <2>2, <2>3, TaskReplaced
  <1>5. CASE Start(r)
    BY <1>3, <1>5 DEF Start
  <1>6. CASE Consume(r)
    <2> DEFINE u == [t EXCEPT !.pc = "burn", !.expires = logins[t.req.state]]
    <2>1. CASE Answer(r, "invalidState")
      BY <1>3, <2>1
    <2>2. CASE /\ task' = [task EXCEPT ![r].pc = "burn", ![r].expires = logins[t.req.state]]
               /\ logins[t.req.state] # Absent
      <3>1. task' = [task EXCEPT ![r] = u]
        BY <1>1, <2>2
      <3>2. t.req \in Callbacks
        BY <1>1, <1>6 DEF Consume, At, Shape, InCallback
      <3>3. logins[t.req.state] \in Times
        BY <2>2, <3>2 DEF TypeOK
      <3>4. u \in Task /\ Shape(u)
        BY <1>1, <3>2, <3>3 DEF Task, Labels, Shape, InCallback
      <3> QED  BY <3>1, <3>4, TaskReplaced
    <2> QED  BY <1>6, <2>1, <2>2 DEF Consume
  <1>7. CASE Burn(r)
    <2> DEFINE u == [t EXCEPT !.pc = "exchange"]
    <2>1. CASE Answer(r, "invalidState")
      BY <1>3, <2>1
    <2>2. CASE Goto(r, "exchange")
      <3>1. task' = [task EXCEPT ![r] = u]
        BY <1>1, <2>2 DEF Goto
      <3>2. u \in Task /\ Shape(u)
        BY <1>1, <1>7 DEF Burn, At, Task, Labels, Shape, InCallback
      <3> QED  BY <3>1, <3>2, TaskReplaced
    <2> QED  BY <1>7, <2>1, <2>2 DEF Burn
  <1>8. CASE Exchange(r)
    <2> DEFINE e == account[t.req.subject]
               u == [t EXCEPT !.pc = "find", !.email = e]
    <2>1. CASE Answer(r, "exchangeFailed")
      BY <1>3, <2>1
    <2>2. CASE task' = [task EXCEPT ![r].pc = "find", ![r].email = e]
      <3>1. task' = [task EXCEPT ![r] = u]
        BY <1>1, <2>2
      <3>2. t.req \in Callbacks
        BY <1>1, <1>8 DEF Exchange, At, Shape, InCallback
      <3>3. e \in Emails
        BY <3>2 DEF TypeOK
      <3>4. u \in Task /\ Shape(u)
        BY <1>1, <3>2, <3>3 DEF Task, Labels, Shape, InCallback
      <3> QED  BY <3>1, <3>4, TaskReplaced
    <2> QED  BY <1>8, <2>1, <2>2 DEF Exchange
  <1>9. CASE FindUser(r)
    <2>1. PICK i \in UserIds, label \in {"update", "insert"} :
              task' = [task EXCEPT ![r].pc = label, ![r].user = i]
      BY <1>9 DEF FindUser, IdsOf, Fresh
    <2> DEFINE u == [t EXCEPT !.pc = label, !.user = i]
    <2>2. task' = [task EXCEPT ![r] = u]
      BY <1>1, <2>1
    <2>3. u \in Task /\ Shape(u)
      BY <1>1, <1>9 DEF FindUser, At, Task, Labels, Shape, InCallback
    <2> QED  BY <2>2, <2>3, TaskReplaced
  <1>10. CASE SaveUser(r)
    <2> DEFINE u == [t EXCEPT !.pc = "open", !.expires = clock + SessionTTL]
    <2>1. CASE Answer(r, "internal")
      BY <1>3, <2>1
    <2>2. CASE task' = [task EXCEPT ![r].pc = "open", ![r].expires = clock + SessionTTL]
      <3>1. task' = [task EXCEPT ![r] = u]
        BY <1>1, <2>2
      <3>2. u \in Task /\ Shape(u)
        BY <1>1, <1>10, Arithmetic DEF SaveUser, At, Task, Labels, Shape, InCallback
      <3> QED  BY <3>1, <3>2, TaskReplaced
    <2> QED  BY <1>10, <2>1, <2>2 DEF SaveUser
  <1>11. CASE OpenSession(r) \/ DeleteSession(r) \/ Me(r)
    BY <1>3, <1>11 DEF OpenSession, DeleteSession, Me
  <1>12. CASE GetSession(r)
    <2>1. t.req \in Visits /\ t.req.session \in SessionIds
      BY <1>1, <1>12 DEF GetSession, At, Shape
    <2> DEFINE row == sessions[t.req.session]
               u == [t EXCEPT !.pc = "expire"]
               w == [t EXCEPT !.pc = t.req.op, !.user = row.user]
    <2>2. CASE Answer(r, "unauthenticated")
      BY <1>3, <2>2
    <2>3. CASE Goto(r, "expire")
      <3>1. task' = [task EXCEPT ![r] = u]
        BY <1>1, <2>3 DEF Goto
      <3>2. u \in Task /\ Shape(u)
        BY <1>1, <2>1 DEF Task, Labels, Shape, InCallback
      <3> QED  BY <3>1, <3>2, TaskReplaced
    <2>4. CASE /\ row # Absent
               /\ task' = [task EXCEPT ![r].pc = t.req.op, ![r].user = row.user]
      <3>1. task' = [task EXCEPT ![r] = w]
        BY <1>1, <2>4
      <3>2. row \in Session
        BY <2>1, <2>4 DEF TypeOK
      <3>3. row.user \in UserIds /\ t.req.op \in {"me", "logout"}
        BY <2>1, <3>2 DEF Session
      <3>4. w \in Task /\ Shape(w)
        BY <1>1, <2>1, <3>3 DEF Task, Labels, Shape, InCallback
      <3> QED  BY <3>1, <3>4, TaskReplaced
    <2> QED  BY <1>12, <2>2, <2>3, <2>4 DEF GetSession
  <1>13. CASE Fault(r)
    <2>1. FaultStatus(t.pc) \in {"invalidState", "unauthenticated", "ok", "notFound",
                                  "internal"}
      BY DEF FaultStatus
    <2> QED  BY <1>3, <1>13, <2>1 DEF Fault
  <1> QED  BY <1>4, <1>5, <1>6, <1>7, <1>8, <1>9, <1>10, <1>11, <1>12, <1>13
     DEF Statement

LEMMA TasksStep ==
    ASSUME TypeOK, TasksOK, NEW r \in Requests, Act(r)
    PROVE  task' \in [Requests -> Task] /\ TasksOK'
  <1>1. CASE Deliver(r)
    <2>1. IdleTask \in Task /\ Shape(IdleTask)
      BY Arithmetic DEF IdleTask, Task, Labels, Statuses, Shape, InCallback
    <2> QED  BY <1>1, <2>1, TaskReplaced DEF Deliver
  <1>2. ASSUME NEW q \in Request, Receive(r, q)
        PROVE  task' \in [Requests -> Task] /\ TasksOK'
    <2> DEFINE label == FirstLabel(q)
               t == [IdleTask EXCEPT !.req = q, !.pc = label]
    <2>1. IdleTask \in Task
      BY Arithmetic DEF IdleTask, Task, Labels, Statuses
    <2>2. /\ FirstLabel(q) \in {"purge", "consume", "session"}
          /\ FirstLabel(q) = "purge" => q \in Logins
          /\ FirstLabel(q) = "consume" => q \in Callbacks
          /\ FirstLabel(q) = "session" => q \in Visits
      BY RequestFields DEF FirstLabel, Request
    <2>3. t \in Task /\ t.pc = label /\ t.req = q
      BY <2>1, <2>2 DEF Task, Labels, Request
    <2>4. Shape(t)
      BY <2>2, <2>3 DEF Shape, InCallback
    <2> QED  BY <1>2, <2>3, <2>4, TaskReplaced DEF Receive
  <1> QED  BY <1>1, <1>2, StatementTasksOK DEF Act

LEMMA TablesStep ==
    ASSUME TypeOK, TasksOK, NEW r \in Requests, Act(r)
    PROVE  /\ users' \in [UserIds -> User \cup {Absent}]
           /\ logins' \in [States -> Times \cup {Absent}]
           /\ sessions' \in [SessionIds -> Session \cup {Absent}]
           /\ clock' \in 0..MaxClock /\ account' \in [Subjects -> Emails]
           /\ minted' \subseteq UserIds \cup States \cup SessionIds
           /\ passed' \in [States -> 0..PassedCap]
  <1> USE RequestFields DEF TypeOK, TasksOK
  <1>1. task[r] \in Task /\ Shape(task[r])
    OBVIOUS
  <1>2. CASE Purge(r)
    BY <1>2 DEF Purge, Fresh, world
  <1>3. CASE Start(r)
    BY <1>1, <1>3 DEF Start, world, Task
  <1>4. CASE Burn(r)
    <2>1. \A k \in 0..PassedCap : (IF k = PassedCap THEN k ELSE k + 1) \in 0..PassedCap
      BY DEF PassedCap
    <2>2. task[r].req.state \in States
      BY <1>1, <1>4 DEF Burn, At, Shape, InCallback
    <2> QED  BY <1>4, <2>1, <2>2 DEF Burn, world
  <1>5. CASE SaveUser(r)
    <2>1. task[r].req \in Callbacks /\ task[r].email \in Emails
      BY <1>1, <1>5 DEF SaveUser, At, Shape, InCallback
    <2>2. [subject |-> task[r].req.subject, email |-> task[r].email] \in User
      BY <2>1 DEF User
    <2> QED  BY <1>5, <2>2 DEF SaveUser, world
  <1>6. CASE OpenSession(r)
    <2>1. task[r].req \in Callbacks /\ task[r].user \in UserIds /\ task[r].expires \in Times
      BY <1>1, <1>6 DEF OpenSession, At, Shape, InCallback, Task
    <2>2. [user |-> task[r].user, expires |-> task[r].expires,
           subject |-> task[r].req.subject] \in Session
      BY <2>1 DEF Session
    <2> QED  BY <1>6, <2>2 DEF OpenSession, Fresh, world
  <1>7. CASE DeleteSession(r)
    BY <1>7 DEF DeleteSession, world
  <1>8. CASE FindUser(r)
    BY <1>8 DEF FindUser, Fresh, tables, world
  <1>9. CASE UNCHANGED <<tables, world, minted, passed>>
    BY <1>9 DEF tables, world
  <1> QED  BY <1>2, <1>3, <1>4, <1>5, <1>6, <1>7, <1>8, <1>9
     DEF Act, Statement, Consume, Exchange, GetSession, Me, Fault, Deliver, Receive

LEMMA TypeStep == TypeOK /\ TasksOK /\ [Next]_vars => TypeOK' /\ TasksOK'
  <1> SUFFICES ASSUME TypeOK, TasksOK, [Next]_vars PROVE TypeOK' /\ TasksOK'
    OBVIOUS
  <1>1. CASE UNCHANGED vars
    BY <1>1 DEF vars, TypeOK, TasksOK
  <1>2. CASE Tick
    BY <1>2, TimeAssumption DEF Tick, tables, TypeOK, TasksOK
  <1>3. ASSUME NEW s \in Subjects, NEW e \in Emails, ChangeEmail(s, e)
        PROVE  TypeOK' /\ TasksOK'
    BY <1>3 DEF ChangeEmail, tables, TypeOK, TasksOK
  <1>4. ASSUME NEW r \in Requests, Act(r) PROVE TypeOK' /\ TasksOK'
    <2>1. task' \in [Requests -> Task] /\ TasksOK'
      BY <1>4, TasksStep
    <2> QED  BY <1>4, <2>1, TablesStep DEF TypeOK
  <1> QED  BY <1>1, <1>2, <1>3, <1>4 DEF Next, Act, Statement

LEMMA TypeInit == Init => TypeOK /\ TasksOK
  <1> SUFFICES ASSUME Init PROVE TypeOK /\ TasksOK
    OBVIOUS
  <1>1. IdleTask \in Task /\ Shape(IdleTask)
    BY TimeAssumption DEF IdleTask, Task, Labels, Statuses, Shape, InCallback, Times
  <1>2. TasksOK /\ task \in [Requests -> Task]
    BY <1>1 DEF Init, TasksOK
  <1>3. clock \in 0..MaxClock
    BY TimeAssumption DEF Init
  <1> QED  BY <1>2, <1>3 DEF Init, TypeOK, PassedCap

-----------------------------------------------------------------------------
(* A step is one handler's own. *)
LEMMA OthersWait ==
    ASSUME TypeOK, NEW r \in Requests, Act(r), NEW s \in Requests, s # r
    PROVE  task'[s] = task[s]
  BY DEF Act, Statement, Purge, Start, Consume, Burn, Exchange, FindUser, SaveUser,
     OpenSession, GetSession, DeleteSession, Me, Fault, Deliver, Receive, Answer,
     Goto, TypeOK

(* Which statements write which table. *)
LEMMA WhoWrites ==
    ASSUME NEW r \in Requests, Act(r)
    PROVE  /\ users' = users \/ SaveUser(r)
           /\ logins' = logins \/ Purge(r) \/ Start(r) \/ Burn(r)
           /\ sessions' = sessions \/ OpenSession(r) \/ DeleteSession(r)
           /\ passed' = passed \/ Burn(r)
           /\ minted \subseteq minted'
  BY DEF Act, Statement, Purge, Start, Consume, Burn, Exchange, FindUser, SaveUser,
     OpenSession, GetSession, DeleteSession, Me, Fault, Deliver, Receive, tables

(* What a handler has just run, where the next statement builds on it. *)
LEMMA Entered ==
    ASSUME TypeOK, TasksOK, NEW r \in Requests, Act(r)
    PROVE  /\ task'[r].pc = "start" => Purge(r)
           /\ task'[r].pc = "burn" => Consume(r)
           /\ task'[r].pc \in {"insert", "update"} => FindUser(r)
           /\ task'[r].pc = "open" => SaveUser(r)
  <1> USE DEF TypeOK, Task
  <1>1. CASE Start(r) \/ Exchange(r) \/ OpenSession(r) \/ DeleteSession(r) \/ Me(r)
    BY <1>1 DEF Start, Exchange, OpenSession, DeleteSession, Me, Answer
  <1>2. CASE Fault(r)
    BY <1>2 DEF Fault, Answer
  <1>3. CASE Burn(r)
    BY <1>3 DEF Burn, Answer, Goto
  <1>4. CASE GetSession(r)
    <2>1. task[r].req.op \in {"me", "logout"}
      BY <1>4, RequestFields DEF GetSession, At, TasksOK, Shape
    <2> QED  BY <1>4, <2>1 DEF GetSession, Answer, Goto
  <1>5. CASE Deliver(r)
    BY <1>5 DEF Deliver, IdleTask
  <1>6. ASSUME NEW q \in Request, Receive(r, q)
        PROVE  task'[r].pc \in {"purge", "consume", "session"}
    <2> DEFINE label == FirstLabel(q)
    <2>1. label \in {"purge", "consume", "session"}
      BY DEF FirstLabel
    <2> HIDE DEF label
    <2>2. task' = [task EXCEPT ![r] = [IdleTask EXCEPT !.req = q, !.pc = label]]
      BY <1>6 DEF Receive, label
    <2>3. task'[r].pc = label
      BY <2>2 DEF IdleTask
    <2> QED  BY <2>1, <2>3
  <1>7. CASE Purge(r)
    BY <1>7 DEF Purge
  <1>8. CASE Consume(r)
    BY <1>8 DEF Consume, Answer
  <1>9. CASE FindUser(r)
    BY <1>9 DEF FindUser
  <1>10. CASE SaveUser(r)
    BY <1>10 DEF SaveUser, Answer
  <1> QED  BY <1>1, <1>2, <1>3, <1>4, <1>5, <1>6, <1>7, <1>8, <1>9, <1>10
     DEF Act, Statement

(***************************************************************************)
(* Accounts.  A row is written under an id that is new or that carries the *)
(* same subject already, so that an account never changes hands.           *)
(***************************************************************************)
LEMMA SaveEffect ==
    ASSUME TypeOK, TasksOK, AccountAtHand, NewIdIsNew, OneAccount,
           NEW r \in Requests, SaveUser(r)
    PROVE  LET i == task[r].user
               subject == task[r].req.subject
           IN  /\ i \in UserIds /\ i \in minted
               /\ users[i] = Absent \/ Belongs(i, subject)
               /\ users' = users \/
                      /\ users' = [users EXCEPT ![i] =
                                      [subject |-> subject, email |-> task[r].email]]
                      /\ BelongsIn(users', i, subject)
                      /\ \A j \in UserIds \ {i} : ~Belongs(j, subject)
               /\ task'[r].pc = "open" =>
                      /\ BelongsIn(users', i, subject)
                      /\ task'[r].user = i /\ task'[r].req.subject = subject
  <1> DEFINE i == task[r].user
             row == [subject |-> task[r].req.subject, email |-> task[r].email]
  <1>1. /\ At(r, "insert") \/ At(r, "update")
        /\ task[r] \in Task /\ Shape(task[r])
    BY DEF SaveUser, TasksOK
  <1>2. i \in UserIds /\ task[r].req \in Callbacks /\ task[r].email \in Emails
    BY <1>1 DEF Shape, InCallback, At
  <1>3. row \in User /\ row # Absent
    BY <1>2, RequestFields, AbsentAssumption DEF User
  <1>4. users[i] = Absent \/ Belongs(i, row.subject)
    BY <1>1 DEF AccountAtHand, NewIdIsNew, At
  <1>5. i \in minted
    BY <1>1, <1>2, <1>4 DEF NewIdIsNew, Belongs, BelongsIn, AccountAtHand, At
  <1>6. CASE Unique(i, row)
    <2>1. users' = [users EXCEPT ![i] = row]
      BY <1>6 DEF SaveUser
    <2>2. BelongsIn(users', i, row.subject)
      BY <1>2, <1>3, <2>1 DEF Belongs, BelongsIn, TypeOK
    <2>3. \A j \in UserIds \ {i} : ~Belongs(j, row.subject)
      BY <1>6 DEF Unique, Belongs, BelongsIn
    <2>4. task'[r].user = i /\ task'[r].req = task[r].req
      BY <1>6 DEF SaveUser, TypeOK, Task
    <2> QED  BY <1>2, <1>4, <1>5, <2>1, <2>2, <2>3, <2>4
  <1>7. CASE ~Unique(i, row)
    <2>1. users' = users /\ task'[r].pc = "done"
      BY <1>7 DEF SaveUser, Answer, TypeOK, Task
    <2> QED  BY <1>2, <1>4, <1>5, <2>1
  <1> QED  BY <1>6, <1>7

(* An account stays its subject's. *)
LEMMA AccountsStay ==
    ASSUME TypeOK, TasksOK, AccountAtHand, NewIdIsNew, OneAccount,
           NEW r \in Requests, Act(r), NEW i \in UserIds, NEW subject,
           Belongs(i, subject)
    PROVE  BelongsIn(users', i, subject)
  <1>1. CASE users' = users
    BY <1>1 DEF Belongs, BelongsIn
  <1>2. CASE SaveUser(r)
    BY <1>2, SaveEffect DEF Belongs, BelongsIn, TypeOK
  <1> QED  BY <1>1, <1>2, WhoWrites

LEMMA OneAccountStep ==
    ASSUME TypeOK, TasksOK, AccountAtHand, NewIdIsNew, OneAccount,
           NEW r \in Requests, Act(r)
    PROVE  OneAccount'
  <1> SUFFICES ASSUME NEW i \in UserIds, NEW j \in UserIds,
                      users'[i] # Absent, users'[j] # Absent,
                      users'[i].subject = users'[j].subject
               PROVE  i = j
    BY DEF OneAccount
  <1>1. CASE users' = users
    BY <1>1 DEF OneAccount
  <1>2. CASE SaveUser(r) /\ users' # users
    <2> DEFINE k == task[r].user
               subject == task[r].req.subject
    <2>1. /\ k \in UserIds
          /\ users' = [users EXCEPT ![k] = [subject |-> subject, email |-> task[r].email]]
          /\ \A m \in UserIds \ {k} : ~Belongs(m, subject)
      BY <1>2, SaveEffect
    <2>2. users'[k].subject = subject
      BY <2>1 DEF TypeOK
    <2>3. \A m \in UserIds \ {k} : users'[m] = users[m]
      BY <2>1 DEF TypeOK
    <2> QED  BY <2>1, <2>2, <2>3 DEF OneAccount, Belongs, BelongsIn
  <1> QED  BY <1>1, <1>2, WhoWrites

LEMMA AccountAtHandStep ==
    ASSUME TypeOK, TasksOK, AccountAtHand, NewIdIsNew, OneAccount,
           NEW r \in Requests, Act(r)
    PROVE  AccountAtHand'
  <1> SUFFICES ASSUME NEW s \in Requests, task'[s].pc \in {"update", "open"}
               PROVE  Belongs(task[s].user, task[s].req.subject)'
    BY DEF AccountAtHand
  <1>1. CASE s # r
    <2>1. task'[s] = task[s]
      BY <1>1, OthersWait
    <2>2. task[s].user \in UserIds
      BY <2>1 DEF TasksOK, Shape
    <2>3. Belongs(task[s].user, task[s].req.subject)
      BY <2>1 DEF AccountAtHand
    <2>4. \A x : Belongs(task[s].user, x) => Belongs(task[s].user, x)'
                  \/ task'[s] # task[s]
      BY <2>1, <2>2, AccountsStay DEF Belongs, BelongsIn
    <2> QED  BY <2>1, <2>3, <2>4 DEF Belongs, BelongsIn
  <1>2. CASE s = r /\ task'[r].pc = "update"
    <2>1. FindUser(r)
      BY <1>2, Entered
    <2>2. PICK i \in IdsOf(task[r].req.subject) :
              task' = [task EXCEPT ![r].pc = "update", ![r].user = i]
      BY <1>2, <2>1 DEF FindUser, TypeOK, Task
    <2>3. users' = users
      BY <2>1 DEF FindUser, tables
    <2>4. task[r] \in Task /\ task \in [Requests -> Task]
      BY DEF TypeOK
    <2>5. task'[r] = [task[r] EXCEPT !.pc = "update", !.user = i]
      BY <2>2, <2>4
    <2>6. task'[r].user = i /\ task'[r].req = task[r].req
      BY <2>4, <2>5 DEF Task
    <2> QED  BY <1>2, <2>2, <2>3, <2>6 DEF IdsOf, Belongs, BelongsIn
  <1>3. CASE s = r /\ task'[r].pc = "open"
    <2>1. SaveUser(r)
      BY <1>3, Entered
    <2> QED  BY <1>3, <2>1, SaveEffect DEF Belongs, BelongsIn
  <1> QED  BY <1>1, <1>2, <1>3

LEMMA SessionsBelongStep ==
    ASSUME TypeOK, TasksOK, AccountAtHand, NewIdIsNew, OneAccount, SessionsBelong,
           NEW r \in Requests, Act(r)
    PROVE  SessionsBelong'
  <1> SUFFICES ASSUME NEW s \in SessionIds, sessions'[s] # Absent
               PROVE  Belongs(sessions[s].user, sessions[s].subject)'
    BY DEF SessionsBelong
  <1>1. CASE sessions'[s] = sessions[s]
    <2> DEFINE i == sessions[s].user
               subject == sessions[s].subject
    <2>1. i \in UserIds
      BY <1>1 DEF TypeOK, Session
    <2>2. Belongs(i, subject)
      BY <1>1 DEF SessionsBelong
    <2>3. users'[i] # Absent /\ users'[i].subject = subject
      BY <2>1, <2>2, AccountsStay DEF Belongs, BelongsIn
    <2> QED  BY <1>1, <2>3 DEF Belongs, BelongsIn
  <1>2. CASE sessions'[s] # sessions[s]
    <2>1. OpenSession(r)
      BY <1>2, WhoWrites DEF DeleteSession, TypeOK
    <2>2. /\ sessions'[s].user = task[r].user
          /\ sessions'[s].subject = task[r].req.subject
          /\ At(r, "open") /\ users' = users
      BY <1>2, <2>1 DEF OpenSession, TypeOK
    <2> QED  BY <2>2 DEF AccountAtHand, At, Belongs, BelongsIn
  <1> QED  BY <1>1, <1>2

(* FindUser draws the id of a new account from those nobody has. *)
LEMMA DrawnUser ==
    ASSUME TypeOK, TasksOK, NEW r \in Requests, Act(r), At(r, "insert")'
    PROVE  /\ task'[r].user \in UserIds \ minted
           /\ task'[r].user \in minted'
           /\ users' = users
  <1>1. FindUser(r)
    BY Entered DEF At
  <1>2. PICK i \in Fresh(UserIds) :
            /\ minted' = minted \cup {i}
            /\ task' = [task EXCEPT ![r].pc = "insert", ![r].user = i]
    BY <1>1 DEF FindUser, At, TypeOK, Task
  <1>3. task[r] \in Task /\ task \in [Requests -> Task]
    BY DEF TypeOK
  <1>4. task'[r] = [task[r] EXCEPT !.pc = "insert", !.user = i]
    BY <1>2, <1>3
  <1>5. task'[r].user = i
    BY <1>3, <1>4 DEF Task
  <1> QED  BY <1>1, <1>2, <1>5 DEF FindUser, Fresh, tables

LEMMA NewIdIsNewStep ==
    ASSUME TypeOK, TasksOK, AccountAtHand, NewIdIsNew, OneAccount,
           NEW r \in Requests, Act(r)
    PROVE  NewIdIsNew'
  <1>1. ASSUME NEW i \in UserIds, users'[i] # Absent PROVE i \in minted'
    <2>1. minted \subseteq minted'
      BY WhoWrites
    <2>2. users'[i] = users[i] \/ (SaveUser(r) /\ i = task[r].user)
      BY WhoWrites, SaveEffect DEF TypeOK
    <2> QED  BY <1>1, <2>1, <2>2, SaveEffect DEF NewIdIsNew
  <1>2. ASSUME NEW s \in Requests, At(s, "insert")', s # r
        PROVE  /\ task'[s].user \in minted'
               /\ users'[task'[s].user] = Absent
               /\ \A x \in Requests \ {s} :
                      At(x, "insert")' => task'[x].user # task'[s].user
    <2> DEFINE i == task[s].user
    <2>1. task'[s] = task[s] /\ At(s, "insert")
      BY <1>2, OthersWait DEF At
    <2>2. i \in UserIds /\ i \in minted /\ users[i] = Absent
      BY <2>1 DEF NewIdIsNew, TasksOK, Shape, At
    <2>3. SaveUser(r) => task[r].user # i
      <3>1. ASSUME At(r, "insert") PROVE task[r].user # i
        BY <1>2, <2>1, <3>1 DEF NewIdIsNew
      <3>2. ASSUME At(r, "update") PROVE task[r].user # i
        BY <2>2, <3>2 DEF AccountAtHand, Belongs, BelongsIn, At
      <3> QED  BY <3>1, <3>2 DEF SaveUser
    <2>4. users'[i] = users[i]
      BY <2>2, <2>3, WhoWrites, SaveEffect DEF TypeOK
    <2>5. ASSUME NEW x \in Requests \ {s}, At(x, "insert")'
          PROVE  task'[x].user # i
      <3>1. CASE x = r
        BY <2>2, <2>5, <3>1, DrawnUser
      <3>2. CASE x # r
        BY <2>1, <2>5, <3>2, OthersWait DEF NewIdIsNew, At
      <3> QED  BY <3>1, <3>2
    <2> QED  BY <2>1, <2>2, <2>4, <2>5, WhoWrites
  <1>3. ASSUME At(r, "insert")'
        PROVE  /\ task'[r].user \in minted'
               /\ users'[task'[r].user] = Absent
               /\ \A x \in Requests \ {r} :
                      At(x, "insert")' => task'[x].user # task'[r].user
    <2>1. \A x \in Requests \ {r} : At(x, "insert")' => task'[x].user \in minted
      BY OthersWait DEF NewIdIsNew, At
    <2> QED  BY <1>3, <2>1, DrawnUser DEF NewIdIsNew
  <1> QED  BY <1>1, <1>2, <1>3 DEF NewIdIsNew

(***************************************************************************)
(* States.  A login writes its state once, before any callback can have    *)
(* seen it; a callback that got through had seen it, and deleted it.       *)
(***************************************************************************)
LEMMA DrawnState ==
    ASSUME TypeOK, TasksOK, NEW r \in Requests, Act(r), At(r, "start")'
    PROVE  /\ task'[r].state \in States \ minted
           /\ task'[r].state \in minted'
           /\ Purge(r)
  <1>1. Purge(r)
    BY Entered DEF At
  <1>2. PICK s \in Fresh(States) :
            /\ minted' = minted \cup {s}
            /\ task' = [task EXCEPT ![r].pc = "start", ![r].state = s,
                                    ![r].expires = clock + LoginTTL]
    BY <1>1 DEF Purge
  <1>3. task[r] \in Task /\ task \in [Requests -> Task]
    BY DEF TypeOK
  <1>4. task'[r] = [task[r] EXCEPT !.pc = "start", !.state = s,
                                   !.expires = clock + LoginTTL]
    BY <1>2, <1>3
  <1>5. task'[r].state = s
    BY <1>3, <1>4 DEF Task
  <1> QED  BY <1>1, <1>2, <1>5 DEF Fresh

LEMMA SeenState ==
    ASSUME TypeOK, TasksOK, NEW r \in Requests, Act(r), At(r, "burn")'
    PROVE  /\ task'[r].req.state \in States
           /\ logins[task'[r].req.state] # Absent
           /\ Consume(r)
  <1>1. Consume(r)
    BY Entered DEF At
  <1>2. task[r].req.state \in States
    BY <1>1, RequestFields DEF Consume, At, TasksOK, Shape, InCallback
  <1>3. logins[task[r].req.state] # Absent
    BY <1>1 DEF Consume, Answer, At, TypeOK, Task
  <1>4. task'[r].req = task[r].req
    <2>1. task[r] \in Task /\ task \in [Requests -> Task]
      BY DEF TypeOK
    <2> QED  BY <1>1, <1>3, <2>1 DEF Consume, Task
  <1> QED  BY <1>1, <1>2, <1>3, <1>4

(* What a step does to one state's row and to its count. *)
LEMMA StateMoves ==
    ASSUME TypeOK, TasksOK, NEW r \in Requests, Act(r), NEW s \in States
    PROVE  /\ \/ logins'[s] = logins[s]
              \/ logins'[s] = Absent
              \/ At(r, "start") /\ Start(r) /\ s = task[r].state
           /\ \/ passed'[s] = passed[s]
              \/ At(r, "burn") /\ s = task[r].req.state /\ logins'[s] = Absent
  <1>1. CASE Purge(r)
    BY <1>1 DEF Purge, TypeOK
  <1>2. CASE Start(r)
    BY <1>2 DEF Start, TypeOK
  <1>3. CASE Burn(r)
    BY <1>3 DEF Burn, TypeOK
  <1>4. CASE UNCHANGED <<logins, passed>>
    BY <1>4
  <1> QED  BY <1>1, <1>2, <1>3, <1>4, WhoWrites DEF Purge, Start, Burn

LEMMA NewStateIsNewStep ==
    ASSUME TypeOK, TasksOK, NewStateIsNew, NEW r \in Requests, Act(r)
    PROVE  NewStateIsNew'
  <1>1. minted \subseteq minted'
    BY WhoWrites
  <1>2. ASSUME NEW s \in States, logins'[s] # Absent \/ passed'[s] > 0
        PROVE  s \in minted'
    BY <1>1, <1>2, StateMoves DEF NewStateIsNew
  <1>3. ASSUME NEW x \in Requests, At(x, "burn")'
        PROVE  task'[x].req.state \in minted'
    <2>1. CASE x = r
      BY <1>1, <1>3, <2>1, SeenState DEF NewStateIsNew
    <2>2. CASE x # r
      BY <1>1, <1>3, <2>2, OthersWait DEF NewStateIsNew, At
    <2> QED  BY <2>1, <2>2
  <1>4. ASSUME At(r, "start")'
        PROVE  /\ task'[r].state \in minted'
               /\ logins'[task'[r].state] = Absent
               /\ passed'[task'[r].state] = 0
               /\ \A x \in Requests \ {r} :
                      /\ At(x, "start")' => task'[x].state # task'[r].state
                      /\ At(x, "burn")' => task'[x].req.state # task'[r].state
    <2> DEFINE s == task'[r].state
    <2>1. s \in States \ minted /\ s \in minted' /\ Purge(r)
      BY <1>4, DrawnState
    <2>2. logins[s] = Absent /\ passed[s] = 0
      BY <2>1 DEF NewStateIsNew, TypeOK, PassedCap
    <2>3. logins'[s] = Absent /\ passed'[s] = 0
      BY <2>1, <2>2 DEF Purge
    <2>4. \A x \in Requests \ {r} :
              /\ At(x, "start")' => task'[x].state \in minted
              /\ At(x, "burn")' => task'[x].req.state \in minted
      BY OthersWait DEF NewStateIsNew, At
    <2> QED  BY <2>1, <2>3, <2>4
  <1>5. ASSUME NEW x \in Requests, x # r, At(x, "start")'
        PROVE  /\ task'[x].state \in minted'
               /\ logins'[task'[x].state] = Absent
               /\ passed'[task'[x].state] = 0
               /\ \A y \in Requests \ {x} :
                      /\ At(y, "start")' => task'[y].state # task'[x].state
                      /\ At(y, "burn")' => task'[y].req.state # task'[x].state
    <2> DEFINE s == task[x].state
    <2>1. task'[x] = task[x] /\ At(x, "start")
      BY <1>5, OthersWait DEF At
    <2>2. /\ s \in States /\ s \in minted
          /\ logins[s] = Absent /\ passed[s] = 0
      BY <2>1 DEF NewStateIsNew, TasksOK, Shape, At
    <2>3. /\ At(r, "start") => task[r].state # s
          /\ At(r, "burn") => task[r].req.state # s
      BY <1>5, <2>1 DEF NewStateIsNew
    <2>4. logins'[s] = Absent /\ passed'[s] = 0
      BY <2>2, <2>3, StateMoves
    <2>5. ASSUME NEW y \in Requests \ {x}
          PROVE  /\ At(y, "start")' => task'[y].state # s
                 /\ At(y, "burn")' => task'[y].req.state # s
      <3>1. CASE y = r
        BY <2>2, <3>1, DrawnState, SeenState
      <3>2. CASE y # r
        BY <2>1, <2>5, <3>2, OthersWait DEF NewStateIsNew, At
      <3> QED  BY <3>1, <3>2
    <2> QED  BY <1>1, <2>1, <2>2, <2>4, <2>5
  <1> QED  BY <1>2, <1>3, <1>4, <1>5 DEF NewStateIsNew

LEMMA StateBurnsStep ==
    ASSUME TypeOK, TasksOK, NewStateIsNew, StateBurns, NEW r \in Requests, Act(r)
    PROVE  StateBurns'
  <1> SUFFICES ASSUME NEW s \in States, passed'[s] > 0
               PROVE  logins'[s] = Absent
    BY DEF StateBurns
  <1>1. CASE passed'[s] # passed[s]
    BY <1>1, StateMoves
  <1>2. CASE passed'[s] = passed[s]
    <2>1. logins[s] = Absent
      BY <1>2 DEF StateBurns
    <2>2. ~(At(r, "start") /\ s = task[r].state)
      BY <1>2 DEF NewStateIsNew
    <2> QED  BY <2>1, <2>2, StateMoves
  <1> QED  BY <1>1, <1>2

-----------------------------------------------------------------------------
(* The inductive invariant. *)
LEMMA LInvInit == Init => LInv
  <1> SUFFICES ASSUME Init PROVE LInv
    OBVIOUS
  <1>1. TypeOK /\ TasksOK
    BY TypeInit
  <1>2. /\ \A r \in Requests : task[r].pc = "idle"
        /\ \A i \in UserIds : users[i] = Absent
        /\ \A s \in States : logins[s] = Absent /\ passed[s] = 0
        /\ \A s \in SessionIds : sessions[s] = Absent
    BY DEF Init, IdleTask
  <1> QED  BY <1>1, <1>2
     DEF LInv, OneAccount, AccountAtHand, SessionsBelong, NewIdIsNew,
         NewStateIsNew, StateBurns, At

LEMMA LInvStep == LInv /\ [Next]_vars => LInv'
  <1> SUFFICES ASSUME LInv, [Next]_vars PROVE LInv'
    OBVIOUS
  <1>1. TypeOK' /\ TasksOK'
    BY TypeStep DEF LInv
  <1>2. CASE UNCHANGED <<users, logins, sessions, minted, passed, task>>
    BY <1>1, <1>2 DEF LInv, OneAccount, AccountAtHand, SessionsBelong, NewIdIsNew,
       NewStateIsNew, StateBurns, At, Belongs, BelongsIn
  <1>3. ASSUME NEW r \in Requests, Act(r) PROVE LInv'
    BY <1>1, <1>3, OneAccountStep, AccountAtHandStep, SessionsBelongStep,
       NewIdIsNewStep, NewStateIsNewStep, StateBurnsStep DEF LInv
  <1> QED  BY <1>2, <1>3, StepsOfLogin

LEMMA LInvHolds == Spec => []LInv
  BY LInvInit, LInvStep, PTL DEF Spec

(* Tables, tasks and clock keep their types. *)
THEOREM LoginTypeCorrect == Spec => []TypeOK
  BY LInvHolds, PTL DEF LInv

(* Whoever signs in is in the account of their subject, whatever happens to
   emails and however first logins race. *)
THEOREM SameAccountHolds == Spec => []SameAccountEveryTime
  <1>1. LInv => SameAccountEveryTime
    <2> SUFFICES ASSUME LInv, NEW s \in SessionIds, sessions[s] # Absent
                 PROVE  IdsOf(sessions[s].subject) = {sessions[s].user}
      BY DEF SameAccountEveryTime
    <2>1. sessions[s].user \in UserIds
      BY DEF LInv, TypeOK, Session
    <2>2. Belongs(sessions[s].user, sessions[s].subject)
      BY DEF LInv, SessionsBelong
    <2> QED  BY <2>1, <2>2 DEF LInv, OneAccount, Belongs, BelongsIn, IdsOf
  <1> QED  BY <1>1, LInvHolds, PTL

(* A state that let a callback through is gone and stays gone. *)
THEOREM StateBurnsHolds == Spec => []StateBurns
  BY LInvHolds, PTL DEF LInv

(* Only a callback takes an unexpired login out of the table. *)
THEOREM UnexpiredStaysHolds == Spec => UnexpiredStays
  <1>1. ASSUME TypeOK, TasksOK, [Next]_vars, NEW s \in States,
               logins[s] # Absent, logins'[s] = Absent, clock <= logins[s]
        PROVE  \E r \in Requests : At(r, "burn") /\ task[r].req.state = s
    <2>1. PICK r \in Requests : Act(r)
      BY <1>1, StepsOfLogin
    <2>2. ~Purge(r)
      <3> SUFFICES ASSUME Purge(r) PROVE FALSE
        OBVIOUS
      <3>1. logins[s] \in Nat /\ clock \in Nat
        BY <1>1, Arithmetic DEF TypeOK
      <3>2. logins'[s] = IF Abandoned(s) THEN Absent ELSE logins[s]
        BY DEF Purge
      <3>3. ~(logins[s] < clock)
        BY <1>1, <3>1
      <3> QED  BY <1>1, <3>2, <3>3 DEF Abandoned
    <2>3. ~Start(r)
      <3>1. task[r].expires # Absent
        BY <1>1, AbsentAssumption DEF TypeOK, Task
      <3> QED  BY <1>1, <3>1 DEF Start, TypeOK
    <2>4. Burn(r)
      BY <1>1, <2>1, <2>2, <2>3, WhoWrites
    <2> QED  BY <1>1, <2>4 DEF Burn, TypeOK
  <1>2. LInv /\ [Next]_vars =>
            [\A s \in States :
                logins[s] # Absent /\ logins'[s] = Absent /\ clock <= logins[s] =>
                    \E r \in Requests : At(r, "burn") /\ task[r].req.state = s]_vars
    BY <1>1 DEF LInv
  <1> QED  BY <1>2, LInvHolds, PTL DEF Spec, UnexpiredStays
=============================================================================
