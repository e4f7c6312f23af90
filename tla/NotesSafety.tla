----------------------------- MODULE NotesSafety -----------------------------
(***************************************************************************)
(* Type correctness and the safety invariants of the notes service, proved *)
(* for any number of users, notes and requests in flight.                  *)
(***************************************************************************)
EXTENDS NotesService, TLAPS

-----------------------------------------------------------------------------
(* Types. *)

(***************************************************************************)
(* What a request looks like, once, so that no later step has to open the  *)
(* nine record sets.                                                       *)
(***************************************************************************)
LEMMA NoteRequestShape ==
    ASSUME NEW q \in Creates \cup NoteRequests
    PROVE  /\ q.note \in Notes
           /\ q.actor \in Actors
           /\ q.op # "readLink"
  BY DEF Creates, CreatesOf, NoteRequests, OwnerRequests, Gets, Updates, UpdatesOf, Deletes,
         Sharings, Revokes, Publishes, Unpublishes

LEMMA OpNamesTheRequest ==
    ASSUME NEW q \in NoteRequests
    PROVE  /\ q.op = "get" <=> q \in Gets
           /\ q.op = "update" <=> q \in Updates
           /\ q.op \in OwnerOps <=> q \in OwnerRequests
           /\ q.op = "delete" => q \in Deletes
           /\ q.op = "share" => q \in Sharings
           /\ q.op = "revoke" => q \in Revokes
           /\ q.op = "publish" => q \in Publishes
           /\ q.op = "unpublish" => q \in Unpublishes
  BY DEF NoteRequests, OwnerRequests, OwnerOps, Gets, Updates, UpdatesOf, Deletes,
         Sharings, Revokes, Publishes, Unpublishes

LEMMA RequestByLabel ==
    ASSUME NEW q, NEW pc \in Labels, q \in Awaited[pc], pc # "idle"
    PROVE  q \in Request
  BY DEF Labels, Awaited, Request, NoteRequests, OwnerRequests, Saves

(* A task that steps to a well-formed task keeps all of them well formed. *)
WellFormed(t) ==
    /\ t \in Task
    /\ t.req \in Awaited[t.pc]
    /\ t.pc \in {"record", "notify"} => t.next \in 1..Len(t.req.mentions)

TasksOK == task \in [Requests -> Task] /\ \A r \in Requests : WellFormed(task[r])

LEMMA AnswerOK ==
    ASSUME TasksOK, NEW r \in Requests, ~At(r, "idle"),
           NEW status \in Statuses, NEW row \in Row \cup {Absent},
           Answer(r, status, row)
    PROVE  TasksOK'
  <1>1. task[r].pc \in Labels /\ task[r].req \in Request /\ task[r] \in Task
    BY RequestByLabel DEF TasksOK, WellFormed, Task, At
  <1>2. Awaited["done"] = Request /\ "done" \in Labels
    BY DEF Awaited, Labels
  <1>3. WellFormed(task'[r])
    BY <1>1, <1>2 DEF TasksOK, WellFormed, Answer, Task
  <1> QED  BY <1>3 DEF TasksOK, WellFormed, Answer

LEMMA GotoOK ==
    ASSUME TasksOK, NEW r \in Requests, NEW label \in Labels,
           task[r].req \in Awaited[label], label \notin {"record", "notify"},
           Goto(r, label)
    PROVE  TasksOK'
  <1>1. WellFormed(task'[r])
    BY DEF TasksOK, WellFormed, Goto, Task
  <1> QED  BY <1>1 DEF TasksOK, WellFormed, Goto

LEMMA EnterMentionsOK ==
    ASSUME TasksOK, NEW r \in Requests, task[r].req \in Saves,
           ~At(r, "idle"), NEW row \in Row, EnterMentions(r, row)
    PROVE  TasksOK'
  <1>1. CASE task[r].req.mentions = <<>>
    BY <1>1, AnswerOK DEF EnterMentions, Statuses
  <1>2. CASE task[r].req.mentions # <<>>
    <2>1. task[r].req.mentions \in Seq(Users \cup Strangers)
      BY MentionAssumption DEF Saves, Creates, Updates, CreatesOf, UpdatesOf
    <2>2. 1 \in 1..Len(task[r].req.mentions)
      BY <1>2, <2>1
    <2>3. Awaited["record"] = Saves /\ "record" \in Labels
      BY DEF Awaited, Labels
    <2>4. task'[r] = [task[r] EXCEPT !.pc = "record", !.next = 1, !.copy = row]
      BY <1>2 DEF TasksOK, EnterMentions
    <2>5. task[r] \in Task
      BY DEF TasksOK
    <2>6. [task[r] EXCEPT !.pc = "record", !.next = 1, !.copy = row] \in Task
      BY <2>3, <2>5 DEF Task
    <2>7. WellFormed(task'[r])
      BY <2>2, <2>3, <2>4, <2>5, <2>6 DEF WellFormed, Task
    <2> QED  BY <1>2, <2>7 DEF TasksOK, WellFormed, EnterMentions
  <1> QED  BY <1>1, <1>2

(* Type correctness, first of the tables, then of the handlers. *)
TablesOK ==
    /\ notes \in [Notes -> Row \cup {Absent}]
    /\ shares \in [Notes -> [Users -> Permission \cup {"none"}]]
    /\ links \in [Notes -> Tokens \cup {NoToken}]
    /\ mentions \subseteq Notes \X Users
    /\ minted \subseteq Notes \cup Tokens
    /\ mails \in [MailKinds \X Notes \X Users -> 0..MailCap]

LEMMA TypeSplit == TypeOK <=> TablesOK /\ TasksOK
  BY DEF TypeOK, TablesOK, TasksOK, WellFormed

LEMMA InitTypeOK == Init => TypeOK
  <1> SUFFICES ASSUME Init PROVE TypeOK
    OBVIOUS
  <1>1. TablesOK
    BY DEF Init, TablesOK, MailCap, Permission
  <1>2. IdleTask \in Task /\ NoRequest \in Awaited["idle"]
    BY DEF IdleTask, Task, Labels, Awaited, Statuses
  <1>3. TasksOK
    BY <1>2 DEF Init, TasksOK, WellFormed, IdleTask
  <1> QED  BY <1>1, <1>3, TypeSplit

LEMMA PostedOK ==
    ASSUME mails \in [MailKinds \X Notes \X Users -> 0..MailCap],
           NEW kind, NEW n, NEW u
    PROVE  Posted(kind, n, u) \in [MailKinds \X Notes \X Users -> 0..MailCap]
  <1> DEFINE m == <<kind, n, u>>
  <1>1. \A k \in 0..MailCap : (IF k = MailCap THEN k ELSE k + 1) \in 0..MailCap
    BY DEF MailCap
  <1>2. CASE m \in MailKinds \X Notes \X Users
    BY <1>1, <1>2 DEF Posted
  <1>3. CASE m \notin MailKinds \X Notes \X Users
    BY <1>3 DEF Posted
  <1> QED  BY <1>2, <1>3

LEMMA StepTablesOK ==
    ASSUME TypeOK, NEW r \in Requests,
           Step(r) \/ Fault(r) \/ Deliver(r) \/ Disconnect(r)
               \/ \E q \in Request : Receive(r, q)
    PROVE  TablesOK'
  <1> USE TypeSplit DEF TablesOK
  <1> DEFINE q == task[r].req
  <1>0. TasksOK /\ WellFormed(task[r])
    BY DEF TasksOK
  <1>1. CASE WriteNote(r)
    <2>1. q \in Updates
      BY <1>0, <1>1 DEF WriteNote, At, WellFormed, Awaited, Labels
    <2>2. CASE Matches(q)
      <3>1. /\ q.note \in Notes /\ q.body \in Bodies
            /\ q.expected \in 1..(MaxVersion - 1)
        BY <2>1 DEF Updates, UpdatesOf
      <3>2. notes[q.note].owner \in Users /\ notes[q.note].version = q.expected
        BY <2>2, <3>1 DEF Matches, Live, Row
      <3>3. [owner |-> notes[q.note].owner, body |-> q.body,
             version |-> notes[q.note].version + 1] \in Row
        BY <3>1, <3>2, VersionAssumption DEF Row, Versions
      <3> QED  BY <1>1, <2>2, <3>3 DEF WriteNote
    <2>3. CASE ~Matches(q)
      BY <1>1, <2>3 DEF WriteNote
    <2> QED  BY <2>2, <2>3
  <1>2. CASE InsertNote(r)
    <2>1. q \in Creates
      BY <1>0, <1>2 DEF InsertNote, At, WellFormed, Awaited, Labels
    <2>2. [owner |-> q.actor, body |-> q.body, version |-> 1] \in Row
      BY <2>1, UsersAssumption, VersionAssumption
      DEF Creates, CreatesOf, Row, Versions
    <2> QED  BY <1>2, <2>2 DEF InsertNote
  <1>3. CASE RecordMention(r)
    <2>1. q \in Saves
      BY <1>0, <1>3 DEF RecordMention, At, WellFormed, Awaited, Labels
    <2>2. q.note \in Notes
      BY <2>1, NoteRequestShape DEF Saves, NoteRequests
    <2> QED  BY <1>3, <2>2 DEF RecordMention
  <1>4. CASE DeleteNote(r)
    BY <1>4 DEF DeleteNote
  <1>5. CASE UpsertShare(r)
    <2>1. q \in Sharings
      BY <1>0, <1>5 DEF UpsertShare, At, WellFormed, Awaited, Labels
    <2>2. q.permission \in Permission
      BY <2>1 DEF Sharings
    <2>3. shares' \in [Notes -> [Users -> Permission \cup {"none"}]]
      <3> DEFINE row == [shares[q.note] EXCEPT ![q.target] = q.permission]
      <3>1. q.note \in Notes
        BY <2>1 DEF Sharings
      <3>2. row \in [Users -> Permission \cup {"none"}]
        BY <2>2, <3>1
      <3>3. shares' = shares \/ shares' = [shares EXCEPT ![q.note] = row]
        BY <1>5 DEF UpsertShare
      <3> HIDE DEF row
      <3> QED  BY <3>2, <3>3
    <2> QED  BY <1>5, <2>3 DEF UpsertShare
  <1>6. CASE DeleteShare(r)
    BY <1>6 DEF DeleteShare
  <1>7. CASE UpsertLink(r)
    <2>1. q \in Publishes
      BY <1>0, <1>7 DEF UpsertLink, At, WellFormed, Awaited, Labels
    <2>2. q.token \in Tokens
      BY <2>1 DEF Publishes
    <2> QED  BY <1>7, <2>2 DEF UpsertLink
  <1>8. CASE DeleteLink(r)
    BY <1>8 DEF DeleteLink
  <1>9. CASE NotifyMention(r)
    BY <1>9, PostedOK DEF NotifyMention, tables
  <1>10. CASE TellShare(r)
    BY <1>10, PostedOK DEF TellShare, tables
  <1>11. CASE \E p \in Request : Receive(r, p)
    <2> PICK p \in Request : Receive(r, p)
      BY <1>11
    <2>1. Drawn(p) \subseteq Notes \cup Tokens
      <3>1. CASE p.op = "create"
        <4>1. p \in Creates \cup UntitledSaves
          BY <3>1 DEF Request, LinkReads, NoteRequests, OwnerRequests, Gets,
                      Updates, UpdatesOf, Deletes, Sharings, Revokes,
                      Publishes, Unpublishes
        <4> QED  BY <3>1, <4>1 DEF Drawn, Creates, UntitledSaves, CreatesOf,
                                   UpdatesOf
      <3>2. CASE p.op = "publish"
        <4>1. p \in Publishes
          BY <3>2 DEF Request, LinkReads, NoteRequests, OwnerRequests, Gets,
                      Updates, UpdatesOf, Deletes, Sharings, Revokes, Creates,
                      CreatesOf, UntitledSaves, Unpublishes
        <4> QED  BY <3>2, <4>1 DEF Drawn, Publishes
      <3>3. CASE p.op \notin {"create", "publish"}
        BY <3>3 DEF Drawn
      <3> QED  BY <3>1, <3>2, <3>3
    <2> QED  BY <2>1 DEF Receive, tables
  <1>12. CASE \/ LoadNote(r) \/ LookupGrant(r) \/ ExistingMentions(r)
              \/ Reread(r) \/ LookupTarget(r) \/ ReadLink(r)
              \/ Fault(r) \/ Deliver(r) \/ Disconnect(r)
    BY <1>12 DEF LoadNote, LookupGrant, ExistingMentions, Reread,
                 LookupTarget, ReadLink, Fault, Deliver, Disconnect, tables
  <1> QED  BY <1>1, <1>2, <1>3, <1>4, <1>5, <1>6, <1>7, <1>8, <1>9, <1>10,
             <1>11, <1>12 DEF Step

LEMMA StepTasksOK ==
    ASSUME TypeOK, NEW r \in Requests,
           Step(r) \/ Fault(r) \/ Deliver(r) \/ Disconnect(r)
               \/ \E q \in Request : Receive(r, q)
    PROVE  TasksOK'
  <1> DEFINE q == task[r].req
  <1>0. TasksOK /\ WellFormed(task[r]) /\ TablesOK /\ task[r] \in Task
    BY TypeSplit DEF TasksOK
  <1>a. /\ "done" \in Labels /\ "update" \in Labels
        /\ {"internal", "ok", "notFound", "forbidden", "invalid", "conflict"}
               \subseteq Statuses
    BY DEF Labels, Awaited, Statuses
  <1>1. CASE LoadNote(r)
    <2>1. q \in NoteRequests /\ ~At(r, "idle")
      BY <1>0, <1>1 DEF LoadNote, At, WellFormed, Awaited, Labels
    <2>2. notes[q.note] \in Row \cup {Absent}
      BY <1>0, <2>1, NoteRequestShape DEF TablesOK
    <2>3. CASE q.op \in OwnerOps /\ Goto(r, q.op)
      <3>1. q.op \in Labels /\ q \in Awaited[q.op]
              /\ q.op \notin {"record", "notify"}
        BY <2>1, <2>3, OpNamesTheRequest DEF OwnerOps, Labels, Awaited
      <3> QED  BY <1>0, <2>3, <3>1, GotoOK
    <2>4. CASE q.op \notin OwnerOps /\ q.op # "get" /\ Goto(r, "update")
      <3>1. q \in Updates
        BY <2>1, <2>4, OpNamesTheRequest DEF NoteRequests
      <3>2. q \in Awaited["update"]
        BY <3>1 DEF Awaited
      <3> QED  BY <1>0, <1>a, <2>4, <3>2, GotoOK
    <2>5. CASE /\ q.op \notin OwnerOps /\ notes[q.note] # Absent
               /\ task' = [task EXCEPT ![r].pc = "grant",
                                      ![r].copy = notes[q.note]]
      <3>1. q \in Awaited["grant"] /\ "grant" \in Labels
        BY <2>1, <2>5, OpNamesTheRequest DEF NoteRequests, Awaited, Labels
      <3>2. task'[r] = [task[r] EXCEPT !.pc = "grant", !.copy = notes[q.note]]
        BY <1>0, <2>5 DEF TasksOK
      <3>3. [task[r] EXCEPT !.pc = "grant", !.copy = notes[q.note]] \in Task
        BY <1>0, <2>2, <3>1 DEF Task
      <3>4. WellFormed(task'[r])
        BY <1>0, <3>1, <3>2, <3>3 DEF WellFormed, Task
      <3> QED  BY <1>0, <2>5, <3>4 DEF TasksOK, WellFormed
    <2>6. CASE \E status \in Statuses, row \in {Absent, notes[q.note]} :
                  Answer(r, status, row)
      BY <1>0, <2>1, <2>2, <2>6, AnswerOK
    <2> QED  BY <1>1, <1>a, <2>3, <2>4, <2>5, <2>6 DEF LoadNote
  <1>2. CASE LookupGrant(r)
    <2>1. q \in Gets \cup Updates /\ ~At(r, "idle")
      BY <1>0, <1>2 DEF LookupGrant, At, WellFormed, Awaited, Labels
    <2>2. CASE q.op = "update" /\ task' = [task EXCEPT ![r].pc = "update",
                                                      ![r].copy = Absent]
      <3>1. q \in Awaited["update"]
        BY <2>1, <2>2, OpNamesTheRequest DEF NoteRequests, Awaited
      <3>2. task'[r] = [task[r] EXCEPT !.pc = "update", !.copy = Absent]
        BY <1>0, <2>2 DEF TasksOK
      <3>3. [task[r] EXCEPT !.pc = "update", !.copy = Absent] \in Task
        BY <1>0, <1>a DEF Task
      <3>4. WellFormed(task'[r])
        BY <1>0, <3>1, <3>2, <3>3 DEF WellFormed, Task
      <3> QED  BY <1>0, <2>2, <3>4 DEF TasksOK, WellFormed
    <2>3. CASE \E status \in Statuses, row \in {Absent, task[r].copy} :
                  Answer(r, status, row)
      BY <1>0, <2>1, <2>3, AnswerOK DEF Task
    <2> QED  BY <1>2, <1>a, <2>2, <2>3 DEF LookupGrant
  <1>3. CASE ExistingMentions(r)
    <2> DEFINE known == {u \in Users : <<q.note, u>> \in mentions}
    <2>1. q \in Updates
      BY <1>0, <1>3 DEF ExistingMentions, At, WellFormed, Awaited, Labels
    <2>2. q \in Awaited["write"] /\ "write" \in Labels
      BY <2>1 DEF Awaited, Labels
    <2>3. task' = [task EXCEPT ![r].pc = "write", ![r].known = known]
      BY <1>3 DEF ExistingMentions
    <2>4. known \in SUBSET Users
      OBVIOUS
    <2> HIDE DEF known
    <2>5. task'[r] = [task[r] EXCEPT !.pc = "write", !.known = known]
      BY <1>0, <2>3 DEF TasksOK
    <2>6. [task[r] EXCEPT !.pc = "write", !.known = known] \in Task
      BY <1>0, <2>2, <2>4 DEF Task
    <2>7. WellFormed(task'[r])
      BY <1>0, <2>2, <2>5, <2>6 DEF WellFormed, Task
    <2> QED  BY <1>0, <2>3, <2>7 DEF TasksOK, WellFormed
  <1>4. CASE WriteNote(r)
    <2> DEFINE m == Matches(q)
    <2>1. q \in Updates
      BY <1>0, <1>4 DEF WriteNote, At, WellFormed, Awaited, Labels
    <2>2. q \in Awaited["reread"] /\ "reread" \in Labels
      BY <2>1 DEF Awaited, Labels
    <2>3. task' = [task EXCEPT ![r].pc = "reread", ![r].applied = m]
      BY <1>4 DEF WriteNote
    <2>4. m \in BOOLEAN
      BY DEF Matches, Live
    <2> HIDE DEF m
    <2>5. task'[r] = [task[r] EXCEPT !.pc = "reread", !.applied = m]
      BY <1>0, <2>3 DEF TasksOK
    <2>6. [task[r] EXCEPT !.pc = "reread", !.applied = m] \in Task
      BY <1>0, <2>2, <2>4 DEF Task
    <2>7. WellFormed(task'[r])
      BY <1>0, <2>2, <2>5, <2>6 DEF WellFormed, Task
    <2> QED  BY <1>0, <2>3, <2>7 DEF TasksOK, WellFormed
  <1>5. CASE Reread(r)
    <2>1. q \in Updates /\ ~At(r, "idle")
      BY <1>0, <1>5 DEF Reread, At, WellFormed, Awaited, Labels
    <2>2. q \in Saves /\ notes[q.note] \in Row \cup {Absent}
      BY <1>0, <2>1, NoteRequestShape DEF TablesOK, NoteRequests, Saves
    <2>3. CASE EnterMentions(r, notes[q.note]) /\ notes[q.note] # Absent
      BY <1>0, <2>1, <2>2, <2>3, EnterMentionsOK
    <2>4. CASE \E status \in Statuses, row \in {Absent, notes[q.note]} :
                  Answer(r, status, row)
      BY <1>0, <2>1, <2>2, <2>4, AnswerOK
    <2> QED  BY <1>5, <1>a, <2>3, <2>4 DEF Reread
  <1>6. CASE InsertNote(r)
    <2> DEFINE row == [owner |-> q.actor, body |-> q.body, version |-> 1]
    <2>1. q \in Creates /\ ~At(r, "idle")
      BY <1>0, <1>6 DEF InsertNote, At, WellFormed, Awaited, Labels
    <2>2. row \in Row
      BY <2>1, UsersAssumption, VersionAssumption
      DEF Creates, CreatesOf, Row, Versions
    <2>3. EnterMentions(r, row)
      BY <1>6 DEF InsertNote
    <2> HIDE DEF row
    <2> QED  BY <1>0, <2>1, <2>2, <2>3, EnterMentionsOK DEF Saves
  <1>7. CASE RecordMention(r)
    <2> DEFINE last == task[r].next = Len(q.mentions)
               label == IF last THEN "notify" ELSE "record"
               next == IF last THEN 1 ELSE task[r].next + 1
    <2>1. q \in Saves /\ ~At(r, "idle") /\ task[r].next \in 1..Len(q.mentions)
      BY <1>0, <1>7 DEF RecordMention, At, WellFormed, Awaited, Labels
    <2>2. CASE task' = [task EXCEPT ![r].pc = label, ![r].next = next]
      <3>1. q.mentions \in Seq(Users \cup Strangers)
        BY <2>1, MentionAssumption
        DEF Saves, Creates, Updates, CreatesOf, UpdatesOf
      <3>2. Len(q.mentions) \in Nat
        BY <3>1
      <3>3. next \in 1..Len(q.mentions) /\ next \in Nat
        BY <2>1, <3>2
      <3>4. q \in Awaited[label] /\ label \in Labels
        BY <2>1 DEF Awaited, Labels
      <3> HIDE DEF label, next
      <3>5. task'[r] = [task[r] EXCEPT !.pc = label, !.next = next]
        BY <1>0, <2>2 DEF TasksOK
      <3>6. [task[r] EXCEPT !.pc = label, !.next = next] \in Task
        BY <1>0, <3>3, <3>4 DEF Task
      <3>7. WellFormed(task'[r])
        BY <1>0, <3>3, <3>4, <3>5, <3>6 DEF WellFormed, Task
      <3> QED  BY <1>0, <2>2, <3>7 DEF TasksOK, WellFormed
    <2>3. CASE Answer(r, "internal", Absent)
      BY <1>0, <1>a, <2>1, <2>3, AnswerOK
    <2> QED  BY <1>7, <2>2, <2>3 DEF RecordMention
  <1>8. CASE NotifyMention(r)
    <2> DEFINE next == task[r].next + 1
    <2>1. q \in Saves /\ ~At(r, "idle") /\ task[r].next \in 1..Len(q.mentions)
      BY <1>0, <1>8 DEF NotifyMention, At, WellFormed, Awaited, Labels
    <2>2. CASE /\ task[r].next # Len(q.mentions)
               /\ task' = [task EXCEPT ![r].next = next]
      <3>1. q.mentions \in Seq(Users \cup Strangers)
        BY <2>1, MentionAssumption
        DEF Saves, Creates, Updates, CreatesOf, UpdatesOf
      <3>2. Len(q.mentions) \in Nat
        BY <3>1
      <3>3. next \in 1..Len(q.mentions) /\ next \in Nat
        BY <2>1, <2>2, <3>2
      <3> HIDE DEF next
      <3>5. task'[r] = [task[r] EXCEPT !.next = next]
        BY <1>0, <2>2 DEF TasksOK
      <3>6. [task[r] EXCEPT !.next = next] \in Task
        BY <1>0, <3>3 DEF Task
      <3>7. WellFormed(task'[r])
        BY <1>0, <3>3, <3>5, <3>6 DEF WellFormed, Task
      <3> QED  BY <1>0, <2>2, <3>7 DEF TasksOK, WellFormed
    <2>3. CASE Answer(r, "ok", task[r].copy)
      BY <1>0, <1>a, <2>1, <2>3, AnswerOK DEF Task
    <2> QED  BY <1>8, <2>2, <2>3 DEF NotifyMention
  <1>9. CASE LookupTarget(r) \/ UpsertShare(r)
    <2>1. q \in Sharings /\ ~At(r, "idle")
      BY <1>0, <1>9 DEF LookupTarget, UpsertShare, At, WellFormed, Awaited, Labels
    <2>2. CASE \E label \in {"upsert", "tell"} : Goto(r, label)
      <3>1. \A label \in {"upsert", "tell"} :
              q \in Awaited[label] /\ label \in Labels
        BY <2>1 DEF Awaited, Labels
      <3> QED  BY <1>0, <2>2, <3>1, GotoOK
    <2>3. CASE \E status \in Statuses : Answer(r, status, Absent)
      BY <1>0, <2>1, <2>3, AnswerOK
    <2> QED  BY <1>9, <1>a, <2>2, <2>3 DEF LookupTarget, UpsertShare
  <1>10. CASE \/ DeleteNote(r) \/ TellShare(r) \/ DeleteShare(r)
              \/ UpsertLink(r) \/ DeleteLink(r) \/ Fault(r)
    <2>1. /\ ~At(r, "idle")
          /\ \E status \in Statuses : Answer(r, status, Absent)
      BY <1>10, <1>a DEF DeleteNote, TellShare, DeleteShare, UpsertLink,
                         DeleteLink, Fault, At
    <2> QED  BY <1>0, <2>1, AnswerOK
  <1>11. CASE ReadLink(r)
    <2>1. /\ ~At(r, "idle")
          /\ \E status \in Statuses, row \in Row \cup {Absent} :
                 Answer(r, status, row)
      BY <1>0, <1>11, <1>a DEF ReadLink, At, TablesOK
    <2> QED  BY <1>0, <2>1, AnswerOK
  <1>12. IdleTask \in Task /\ NoRequest \in Awaited["idle"]
    BY DEF IdleTask, Task, Labels, Awaited, Statuses
  <1>13. CASE Deliver(r) \/ Disconnect(r)
    <2>1. WellFormed(IdleTask)
      BY <1>12 DEF WellFormed, IdleTask
    <2>2. task' = [task EXCEPT ![r] = IdleTask]
      BY <1>13 DEF Deliver, Disconnect
    <2> QED  BY <1>0, <2>1, <2>2 DEF TasksOK, WellFormed
  <1>14. CASE \E p \in Request : Receive(r, p)
    <2> PICK p \in Request : Receive(r, p)
      BY <1>14
    <2>1. CASE p \in UntitledSaves
      <3> DEFINE t == [IdleTask EXCEPT !.req = p, !.pc = "done", !.answer = "invalid"]
      <3>1. t \in Task /\ p \in Awaited["done"]
        BY <1>a, <1>12 DEF Task, Awaited
      <3>2. t.req = p /\ t.pc = "done"
        BY DEF IdleTask
      <3>3. task' = [task EXCEPT ![r] = t]
        BY <2>1 DEF Receive
      <3> HIDE DEF t
      <3>4. WellFormed(t)
        BY <3>1, <3>2 DEF WellFormed
      <3> QED  BY <1>0, <3>3, <3>4 DEF TasksOK, WellFormed
    <2>2. CASE p \notin UntitledSaves
      <3> DEFINE t == [IdleTask EXCEPT !.req = p, !.pc = FirstLabel(p)]
      <3>1. /\ p \in Awaited[FirstLabel(p)] /\ FirstLabel(p) \in Labels
            /\ FirstLabel(p) \notin {"record", "notify"}
        BY <2>2 DEF FirstLabel, Awaited, Labels, Request, Creates, CreatesOf,
           LinkReads, NoteRequests, OwnerRequests, Gets, Updates, UpdatesOf,
           Deletes, Sharings, Revokes, Publishes, Unpublishes
      <3>2. t \in Task
        BY <1>12, <3>1 DEF Task
      <3>3. t.req = p /\ t.pc = FirstLabel(p)
        BY DEF IdleTask
      <3>4. task' = [task EXCEPT ![r] = t]
        BY <2>2 DEF Receive
      <3> HIDE DEF t
      <3>5. WellFormed(t)
        BY <3>1, <3>2, <3>3 DEF WellFormed
      <3> QED  BY <1>0, <3>4, <3>5 DEF TasksOK, WellFormed
    <2> QED  BY <2>1, <2>2
  <1> QED  BY <1>1, <1>2, <1>3, <1>4, <1>5, <1>6, <1>7, <1>8, <1>9, <1>10,
             <1>11, <1>13, <1>14 DEF Step

(* Every table, handler and answer keeps its type. *)
THEOREM TypeCorrect == Spec => []TypeOK
  <1>1. TypeOK /\ [Next]_vars => TypeOK'
    <2> SUFFICES ASSUME TypeOK, [Next]_vars PROVE TypeOK'
      OBVIOUS
    <2>1. CASE UNCHANGED vars
      BY <2>1 DEF TypeOK, vars, tables
    <2>2. CASE Next
      <3>1. PICK r \in Requests :
              \/ Step(r) \/ Fault(r) \/ Deliver(r) \/ Disconnect(r)
              \/ \E q \in Request : Receive(r, q)
        BY <2>2 DEF Next
      <3>2. TablesOK' /\ TasksOK'
        BY <3>1, StepTablesOK, StepTasksOK
      <3> QED  BY <3>2 DEF TypeOK, TablesOK, TasksOK, WellFormed
    <2> QED  BY <2>1, <2>2
  <1> QED  BY <1>1, InitTypeOK, PTL DEF Spec

-----------------------------------------------------------------------------
(* Safety. *)

(* The request of r is about note n. *)
About(r, n) == /\ ~At(r, "idle")
               /\ task[r].req.op # "readLink"
               /\ task[r].req.note = n

(* An id in use was drawn. *)
InUseIsMinted ==
    \A n \in Notes :
        /\ Live(n) => n \in minted
        /\ \A r \in Requests : About(r, n) => n \in minted
        /\ \A u \in Users : mails[<<"mention", n, u>>] > 0 => n \in minted

(* Until a new note is inserted, whoever asks for it gets nothing. *)
PendingIsUnknown ==
    \A r \in Requests : At(r, "insert") =>
        LET n == task[r].req.note IN
        /\ ~Live(n)
        /\ \A u \in Users : mails[<<"mention", n, u>>] = 0
        /\ \A s \in Requests \ {r} : About(s, n) =>
               /\ task[s].pc \in {"load", "done"}
               /\ task[s].copy = Absent
               /\ ~task[s].applied

(* A handler past require_owner serves the owner, and shares with others. *)
Checked(r) ==
    /\ Live(task[r].req.note) =>
           notes[task[r].req.note].owner = task[r].req.actor
    /\ task[r].pc \in {"share", "upsert"} =>
           task[r].req.target # task[r].req.actor
OwnerWasChecked ==
    \A r \in Requests :
        task[r].pc \in OwnerOps \cup {"upsert", "tell"} => Checked(r)

(* An applied save moved the note past the version it was based on. *)
PastBase(r) ==
    /\ ~At(r, "idle") /\ task[r].req \in Updates
    /\ Live(task[r].req.note) =>
           notes[task[r].req.note].version > task[r].req.expected
AppliedIsPast == \A r \in Requests : task[r].applied => PastBase(r)

(* What an applied save reads back is itself or a later one. *)
Reports(row, q) ==
    /\ row # Absent
    /\ row.version > q.expected
    /\ row.version = q.expected + 1 => row.body = q.body

Reported(r) ==
    /\ At(r, "reread") /\ task[r].applied /\ Live(task[r].req.note) =>
           Reports(notes[task[r].req.note], task[r].req)
    /\ \/ task[r].pc \in {"record", "notify"}
       \/ At(r, "done") /\ task[r].answer = "ok"
       => (task[r].req.op = "update" => Reports(task[r].copy, task[r].req))
SaveIsReported == \A r \in Requests : Reported(r)

(* The mentions a handler has gone past are on record. *)
Passed(r) ==
    \A i \in 1..Len(task[r].req.mentions) :
        At(r, "notify") \/ i < task[r].next =>
            <<task[r].req.note, task[r].req.mentions[i]>> \in mentions
PassedAreRecorded ==
    \A r \in Requests :
        task[r].pc \in {"record", "notify"} /\ Live(task[r].req.note) => Passed(r)

-----------------------------------------------------------------------------
Act(r) ==
    \/ Step(r) \/ Fault(r) \/ Deliver(r) \/ Disconnect(r)
    \/ \E q \in Request : Receive(r, q)

LEMMA NextIsAct == [Next]_vars => UNCHANGED vars \/ \E r \in Requests : Act(r)
  BY DEF Next, Act

(* The request, for what it is, at each label. *)
LEMMA RequestAt ==
    ASSUME TypeOK, NEW r \in Requests
    PROVE  /\ task[r] \in Task
           /\ At(r, "insert") => task[r].req \in Creates
           /\ task[r].pc \in {"update", "write", "reread"} => task[r].req \in Updates
           /\ task[r].pc \in {"record", "notify"} => task[r].req \in Saves
           /\ At(r, "grant") => task[r].req \in Gets \cup Updates
           /\ At(r, "load") => task[r].req \in NoteRequests
           /\ At(r, "delete") => task[r].req \in Deletes
           /\ task[r].pc \in {"share", "upsert", "tell"} => task[r].req \in Sharings
           /\ At(r, "revoke") => task[r].req \in Revokes
           /\ At(r, "publish") => task[r].req \in Publishes
           /\ At(r, "unpublish") => task[r].req \in Unpublishes
           /\ At(r, "readLink") => task[r].req \in LinkReads
           /\ task[r].pc \in OwnerOps => task[r].req \in OwnerRequests
  BY DEF TypeOK, At, Awaited, Labels, OwnerOps, OwnerRequests, Task

LEMMA NoteAt ==
    ASSUME TypeOK, NEW r \in Requests, task[r].pc \notin {"idle", "done", "readLink"}
    PROVE  /\ task[r].req \in Creates \cup NoteRequests
           /\ task[r].req.note \in Notes
           /\ task[r].req.actor \in Actors
           /\ About(r, task[r].req.note)
  <1>1. Labels = {"idle", "load", "grant", "update", "write", "reread", "insert",
                  "record", "notify", "share", "upsert", "tell", "revoke",
                  "publish", "unpublish", "delete", "readLink", "done"}
    BY DEF Labels, Awaited
  <1>2. task[r].req \in Creates \cup NoteRequests
    BY <1>1, RequestAt DEF At, Task, OwnerOps, NoteRequests, OwnerRequests, Saves
  <1> QED  BY <1>2, NoteRequestShape DEF About, At

(* What the UPDATE does to the row, in one piece. *)
LEMMA WriteEffect ==
    ASSUME TypeOK, NEW r \in Requests, WriteNote(r)
    PROVE  LET q == task[r].req
               row == [owner |-> notes[q.note].owner, body |-> q.body,
                       version |-> q.expected + 1]
           IN  /\ q \in Updates
               /\ ~Matches(q) => notes' = notes
               /\ Matches(q) => /\ row \in Row
                                /\ notes[q.note].version = q.expected
                                /\ notes' = [notes EXCEPT ![q.note] = row]
  <1> DEFINE q == task[r].req
             row == [owner |-> notes[q.note].owner, body |-> q.body,
                     version |-> q.expected + 1]
  <1>1. q \in Updates
    BY RequestAt DEF WriteNote, At
  <1>2. q.note \in Notes /\ q.body \in Bodies /\ q.expected \in 1..(MaxVersion - 1)
    BY <1>1 DEF Updates, UpdatesOf
  <1>3. CASE Matches(q)
    <2>1. notes[q.note] \in Row /\ notes[q.note].version = q.expected
      BY <1>2, <1>3 DEF Matches, Live, TypeOK
    <2>2. row \in Row
      BY <1>2, <2>1, VersionAssumption DEF Row, Versions
    <2> QED  BY <1>1, <1>3, <2>1, <2>2 DEF WriteNote
  <1>4. CASE ~Matches(q)
    BY <1>1, <1>4 DEF WriteNote
  <1> QED  BY <1>3, <1>4

LEMMA InsertEffect ==
    ASSUME TypeOK, NEW r \in Requests, InsertNote(r)
    PROVE  LET q == task[r].req
               row == [owner |-> q.actor, body |-> q.body, version |-> 1]
           IN  /\ q \in Creates /\ q.note \in Notes
               /\ row \in Row
               /\ notes' = [notes EXCEPT ![q.note] = row]
  <1>1. task[r].req \in Creates
    BY RequestAt DEF InsertNote, At
  <1> QED  BY <1>1, UsersAssumption, VersionAssumption
           DEF InsertNote, Creates, CreatesOf, Row, Versions

(* A note stays live unless it is deleted. *)
LEMMA LivesOn ==
    ASSUME TypeOK, NEW r \in Requests, WriteNote(r) \/ InsertNote(r),
           NEW n \in Notes, Live(n)
    PROVE  Live(n)'
  <1>1. notes[n] # Absent /\ Absent \notin Row /\ notes \in [Notes -> Row \cup {Absent}]
    BY AbsenceAssumption DEF Live, TypeOK
  <1>2. CASE WriteNote(r)
    BY <1>1, <1>2, WriteEffect DEF Live
  <1>3. CASE InsertNote(r)
    BY <1>1, <1>3, InsertEffect DEF Live
  <1> QED  BY <1>2, <1>3

(***************************************************************************)
(* NoOrphans is inductive by itself: each statement that writes a row of   *)
(* another table finds its note there, and deletion clears them all.       *)
(***************************************************************************)
LEMMA NoOrphansStep ==
    ASSUME TypeOK, NoOrphans, NEW r \in Requests, Act(r)
    PROVE  NoOrphans'
  <1> DEFINE q == task[r].req
  <1> USE DEF NoOrphans, Live, TypeOK
  <1>1. CASE WriteNote(r) \/ InsertNote(r)
    <2>1. /\ \A n \in Notes : Live(n) => Live(n)'
          /\ UNCHANGED <<shares, links, mentions>>
      BY <1>1, LivesOn DEF WriteNote, InsertNote
    <2> QED  BY <2>1
  <1>3. CASE DeleteNote(r)
    <2> SUFFICES ASSUME NEW n \in Notes, ~Live(n)'
                 PROVE  /\ \A u \in Users : /\ shares'[n][u] = "none"
                                             /\ <<n, u>> \notin mentions'
                        /\ links'[n] = NoToken
      BY DEF NoOrphans
    <2>1. CASE n = q.note
      BY <1>3, <2>1 DEF DeleteNote
    <2>2. CASE n # q.note
      BY <1>3, <2>2 DEF DeleteNote
    <2> QED  BY <2>1, <2>2
  <1>4. CASE RecordMention(r)
    BY <1>4 DEF RecordMention
  <1>5. CASE UpsertShare(r)
    BY <1>5 DEF UpsertShare
  <1>6. CASE DeleteShare(r)
    BY <1>6 DEF DeleteShare
  <1>7. CASE UpsertLink(r)
    BY <1>7 DEF UpsertLink
  <1>8. CASE DeleteLink(r)
    BY <1>8 DEF DeleteLink
  <1>9. CASE UNCHANGED tables
    BY <1>9 DEF tables
  <1> QED  BY <1>1, <1>3, <1>4, <1>5, <1>6, <1>7, <1>8, <1>9
           DEF Act, Step, LoadNote, LookupGrant, ExistingMentions, Reread,
               NotifyMention, LookupTarget, TellShare, ReadLink, Fault,
               Deliver, Disconnect, Receive

(* No share, link or mention of a deleted note, ever. *)
THEOREM NoOrphansHolds == Spec => []NoOrphans
  <1>1. Init => NoOrphans
    BY DEF Init, NoOrphans, Live
  <1>2. TypeOK /\ NoOrphans /\ [Next]_vars => NoOrphans'
    BY NoOrphansStep, NextIsAct DEF vars, tables, NoOrphans, Live
  <1> QED  BY <1>1, <1>2, TypeCorrect, PTL DEF Spec

-----------------------------------------------------------------------------
(* A step is one task's own. *)
LEMMA OthersWait ==
    ASSUME TypeOK, NEW r \in Requests, Act(r), NEW s \in Requests, s # r
    PROVE  task'[s] = task[s]
  BY DEF Act, Step, LoadNote, LookupGrant, ExistingMentions, WriteNote, Reread,
     InsertNote, RecordMention, NotifyMention, DeleteNote, LookupTarget,
     UpsertShare, TellShare, DeleteShare, UpsertLink, DeleteLink, ReadLink,
     Fault, Deliver, Disconnect, Receive, Answer, Goto, EnterMentions, TypeOK

(* A handler keeps its request, and stays busy until it is delivered. *)
LEMMA RequestStays ==
    ASSUME TypeOK, NEW r \in Requests, Step(r) \/ Fault(r)
    PROVE  /\ task'[r].req = task[r].req
           /\ ~At(r, "idle") /\ task'[r].pc \notin {"idle", "insert"}
           /\ WriteNote(r) \/ task'[r].applied = task[r].applied
           /\ minted' = minted
  <1> USE DEF TypeOK, Task, At
  <1>1. CASE LoadNote(r)
    BY <1>1 DEF LoadNote, Answer, Goto, OwnerOps
  <1>2. CASE LookupGrant(r)
    BY <1>2 DEF LookupGrant, Answer
  <1>3. CASE ExistingMentions(r) \/ WriteNote(r)
    BY <1>3 DEF ExistingMentions, WriteNote
  <1>4. CASE Reread(r) \/ InsertNote(r)
    BY <1>4 DEF Reread, InsertNote, EnterMentions, Answer
  <1>5. CASE RecordMention(r) \/ NotifyMention(r)
    BY <1>5 DEF RecordMention, NotifyMention, Answer
  <1>6. CASE DeleteNote(r) \/ DeleteShare(r) \/ UpsertLink(r) \/ DeleteLink(r)
    BY <1>6 DEF DeleteNote, DeleteShare, UpsertLink, DeleteLink, Answer
  <1>7. CASE LookupTarget(r) \/ UpsertShare(r) \/ TellShare(r)
    BY <1>7 DEF LookupTarget, UpsertShare, TellShare, Answer, Goto
  <1>8. CASE ReadLink(r) \/ Fault(r)
    BY <1>8 DEF ReadLink, Fault, Answer
  <1> QED  BY <1>1, <1>2, <1>3, <1>4, <1>5, <1>6, <1>7, <1>8 DEF Step

LEMMA SlotIsFreed ==
    ASSUME TypeOK, NEW r \in Requests, Deliver(r) \/ Disconnect(r)
    PROVE  /\ task'[r] = IdleTask
           /\ UNCHANGED <<tables, minted, mails>>
  BY DEF Deliver, Disconnect, TypeOK

LEMMA RequestArrives ==
    ASSUME TypeOK, NEW r \in Requests, NEW q \in Request, Receive(r, q)
    PROVE  /\ UNCHANGED <<tables, mails>>
           /\ minted' = minted \cup Drawn(q)
           /\ task'[r].req = q /\ task'[r].copy = Absent
           /\ ~task'[r].applied
           /\ \/ task'[r].pc = "done" /\ task'[r].answer = "invalid"
              \/ /\ task'[r].pc = FirstLabel(q)
                 /\ task'[r].pc \in {"load", "insert", "readLink"}
           /\ q.op \notin {"create", "readLink"} =>
                  q.note \in minted /\ task'[r].pc \in {"load", "done"}
           /\ q.op = "create" => q.note \notin minted /\ q.note \in minted'
  <1>1. CASE q \in UntitledSaves
    BY <1>1 DEF Receive, TypeOK, IdleTask, Drawn, Quoted, UntitledSaves,
                CreatesOf, UpdatesOf
  <1>2. CASE q \notin UntitledSaves
    BY <1>2 DEF Receive, TypeOK, IdleTask, Drawn, Quoted, FirstLabel
  <1> QED  BY <1>1, <1>2

(* Which statements write which table. *)
LEMMA WhoWrites ==
    ASSUME NEW r \in Requests, Act(r)
    PROVE  /\ notes' = notes \/ WriteNote(r) \/ InsertNote(r) \/ DeleteNote(r)
           /\ shares' = shares \/ UpsertShare(r) \/ DeleteShare(r) \/ DeleteNote(r)
           /\ mentions' = mentions \/ RecordMention(r) \/ DeleteNote(r)
           /\ mails' = mails \/ NotifyMention(r) \/ TellShare(r)
  BY DEF Act, Step, LoadNote, LookupGrant, ExistingMentions, WriteNote, Reread,
     InsertNote, RecordMention, NotifyMention, DeleteNote, LookupTarget,
     UpsertShare, TellShare, DeleteShare, UpsertLink, DeleteLink, ReadLink,
     Fault, Deliver, Disconnect, Receive, tables

LEMMA MailedAbout ==
    ASSUME TypeOK, NEW r \in Requests, NotifyMention(r),
           NEW n \in Notes, NEW u \in Users,
           mails'[<<"mention", n, u>>] # mails[<<"mention", n, u>>]
    PROVE  /\ n = task[r].req.note
           /\ u = task[r].req.mentions[task[r].next]
  BY DEF NotifyMention, Posted, TypeOK, MailKinds

LEMMA ShareMailIsOther ==
    ASSUME TypeOK, NEW r \in Requests, TellShare(r),
           NEW n \in Notes, NEW u \in Users
    PROVE  mails'[<<"mention", n, u>>] = mails[<<"mention", n, u>>]
  BY DEF TellShare, Posted, TypeOK, MailKinds

LEMMA InUseStep ==
    ASSUME TypeOK, InUseIsMinted, NEW r \in Requests, Act(r)
    PROVE  InUseIsMinted'
  <1> SUFFICES ASSUME NEW n \in Notes
               PROVE  /\ Live(n)' => n \in minted'
                      /\ \A s \in Requests : About(s, n)' => n \in minted'
                      /\ \A u \in Users : mails'[<<"mention", n, u>>] > 0 => n \in minted'
    BY DEF InUseIsMinted
  <1>1. n \in minted => n \in minted'
    BY RequestStays, SlotIsFreed, RequestArrives DEF Act
  <1>2. ASSUME Live(n)' PROVE n \in minted'
    <2>1. CASE Live(n)
      BY <1>1, <2>1 DEF InUseIsMinted
    <2>2. CASE ~Live(n)
      <3>1. ~DeleteNote(r) /\ notes' # notes
        BY <1>2, <2>2 DEF DeleteNote, Live, TypeOK
      <3>2. CASE WriteNote(r)
        BY <1>2, <2>2, <3>2, WriteEffect DEF Live, Matches, TypeOK
      <3>3. CASE InsertNote(r)
        <4>1. n = task[r].req.note
          BY <1>2, <2>2, <3>3, InsertEffect DEF Live, TypeOK
        <4>2. About(r, n)
          BY <3>3, <4>1, NoteAt DEF InsertNote, At
        <4> QED  BY <1>1, <4>2 DEF InUseIsMinted
      <3> QED  BY <3>1, <3>2, <3>3, WhoWrites
    <2> QED  BY <2>1, <2>2
  <1>3. ASSUME NEW s \in Requests, About(s, n)' PROVE n \in minted'
    <2>1. CASE s # r \/ Step(r) \/ Fault(r)
      <3>1. About(s, n)
        BY <1>3, <2>1, OthersWait, RequestStays DEF About, At
      <3> QED  BY <1>1, <3>1 DEF InUseIsMinted
    <2>2. CASE s = r /\ (Deliver(r) \/ Disconnect(r))
      BY <1>3, <2>2, SlotIsFreed DEF About, At, IdleTask
    <2>3. CASE s = r /\ \E q \in Request : Receive(r, q)
      BY <1>1, <1>3, <2>3, RequestArrives DEF About, At
    <2> QED  BY <2>1, <2>2, <2>3 DEF Act
  <1>4. ASSUME NEW u \in Users, mails'[<<"mention", n, u>>] > 0
        PROVE  n \in minted'
    <2>1. CASE mails'[<<"mention", n, u>>] = mails[<<"mention", n, u>>]
      BY <1>1, <1>4, <2>1 DEF InUseIsMinted
    <2>2. CASE mails'[<<"mention", n, u>>] # mails[<<"mention", n, u>>]
      <3>1. NotifyMention(r)
        BY <2>2, WhoWrites, ShareMailIsOther
      <3>2. About(r, n)
        BY <2>2, <3>1, MailedAbout, NoteAt DEF NotifyMention, At
      <3> QED  BY <1>1, <3>2 DEF InUseIsMinted
    <2> QED  BY <2>1, <2>2
  <1> QED  BY <1>2, <1>3, <1>4

(***************************************************************************)
(* Others can name a new note before it is there (its id is random, but    *)
(* nothing depends on that); what they are told is that it does not exist. *)
(***************************************************************************)
LEMMA PendingStep ==
    ASSUME TypeOK, InUseIsMinted, PendingIsUnknown, NEW r \in Requests, Act(r)
    PROVE  PendingIsUnknown'
  <1> SUFFICES ASSUME NEW s \in Requests, At(s, "insert")',
                      NEW n, n = task'[s].req.note
               PROVE  /\ ~Live(n)'
                      /\ \A u \in Users : mails'[<<"mention", n, u>>] = 0
                      /\ \A x \in Requests \ {s} : About(x, n)' =>
                             /\ task'[x].pc \in {"load", "done"}
                             /\ task'[x].copy = Absent
                             /\ ~task'[x].applied
    BY DEF PendingIsUnknown
  <1>1. CASE s = r
    <2>1. PICK q \in Request : Receive(r, q)
      BY <1>1, RequestStays, SlotIsFreed DEF Act, At, IdleTask
    <2>2. q.op = "create" /\ q = task'[s].req
      BY <1>1, <2>1, RequestArrives DEF At, FirstLabel
    <2>3. n \notin minted
      BY <1>1, <2>1, <2>2, RequestArrives
    <2>4. n \in Notes
      BY <2>2 DEF Request, Creates, CreatesOf, UntitledSaves, UpdatesOf, LinkReads,
         NoteRequests, OwnerRequests, Gets, Updates, Deletes, Sharings,
         Revokes, Publishes, Unpublishes
    <2>5. ~Live(n) /\ \A u \in Users : mails[<<"mention", n, u>>] = 0
      BY <2>3, <2>4 DEF InUseIsMinted, TypeOK, MailKinds, MailCap
    <2>6. UNCHANGED <<tables, mails>>
      BY <2>1, RequestArrives
    <2>7. \A x \in Requests \ {s} : ~About(x, n)'
      BY <1>1, <2>3, <2>4, OthersWait DEF InUseIsMinted, About, At
    <2> QED  BY <2>5, <2>6, <2>7 DEF tables, Live
  <1>2. CASE s # r
    <2>1. task'[s] = task[s] /\ At(s, "insert") /\ n = task[s].req.note
      BY <1>2, OthersWait DEF At
    <2>2. n \in Notes /\ n \in minted
      BY <2>1, NoteAt DEF InUseIsMinted, At
    <2>3. /\ ~Live(n)
          /\ \A u \in Users : mails[<<"mention", n, u>>] = 0
          /\ \A x \in Requests \ {s} : About(x, n) =>
                 /\ task[x].pc \in {"load", "done"}
                 /\ task[x].copy = Absent
                 /\ ~task[x].applied
      BY <2>1 DEF PendingIsUnknown
    <2>4. About(r, n) => task[r].pc \in {"load", "done"}
      BY <1>2, <2>3
    <2>5. ~Live(n)'
      <3>1. CASE WriteNote(r)
        BY <2>2, <2>3, <3>1, WriteEffect DEF Live, Matches, TypeOK
      <3>2. CASE InsertNote(r)
        <4>1. n # task[r].req.note
          BY <2>4, <3>2, NoteAt DEF InsertNote, At
        <4> QED  BY <2>2, <2>3, <3>2, <4>1, InsertEffect DEF Live, TypeOK
      <3>3. CASE DeleteNote(r)
        BY <2>2, <2>3, <3>3 DEF DeleteNote, Live, TypeOK
      <3> QED  BY <2>3, <3>1, <3>2, <3>3, WhoWrites DEF Live
    <2>6. ASSUME NEW u \in Users PROVE mails'[<<"mention", n, u>>] = 0
      <3>1. CASE mails'[<<"mention", n, u>>] # mails[<<"mention", n, u>>]
        <4>1. NotifyMention(r)
          BY <2>2, <3>1, WhoWrites, ShareMailIsOther
        <4>2. n = task[r].req.note
          BY <2>2, <3>1, <4>1, MailedAbout
        <4>3. About(r, n)
          BY <4>1, <4>2, NoteAt DEF NotifyMention, At
        <4> QED  BY <2>4, <4>1, <4>3 DEF NotifyMention, At
      <3> QED  BY <2>3, <3>1
    <2>7. ASSUME NEW x \in Requests \ {s}, About(x, n)'
          PROVE  /\ task'[x].pc \in {"load", "done"}
                 /\ task'[x].copy = Absent
                 /\ ~task'[x].applied
      <3>1. CASE x # r
        BY <2>3, <2>7, <3>1, OthersWait DEF About, At
      <3>2. CASE x = r /\ (Step(r) \/ Fault(r))
        <4>1. About(r, n)
          BY <2>7, <3>2, RequestStays DEF About, At
        <4>2. At(r, "load") \/ At(r, "done")
          BY <2>4, <4>1 DEF At
        <4>3. LoadNote(r) \/ Fault(r)
          BY <3>2, <4>2 DEF Step, LoadNote, LookupGrant, ExistingMentions,
             WriteNote, Reread, InsertNote, RecordMention, NotifyMention,
             DeleteNote, LookupTarget, UpsertShare, TellShare, DeleteShare,
             UpsertLink, DeleteLink, ReadLink, At
        <4>4. \E status \in Statuses : Answer(r, status, Absent)
          BY <2>3, <4>1, <4>3 DEF LoadNote, Fault, Live, About, Statuses
        <4>5. ~task[r].applied
          BY <1>2, <2>3, <4>1
        <4> QED  BY <3>2, <4>4, <4>5 DEF Answer, TypeOK, Task
      <3>3. CASE x = r /\ (Deliver(r) \/ Disconnect(r))
        BY <2>7, <3>3, SlotIsFreed DEF About, At, IdleTask
      <3>4. CASE x = r /\ \E q \in Request : Receive(r, q)
        BY <2>2, <2>7, <3>4, RequestArrives DEF About, At
      <3> QED  BY <3>1, <3>2, <3>3, <3>4 DEF Act
    <2> QED  BY <2>5, <2>6, <2>7
  <1> QED  BY <1>1, <1>2

(* How a live row can differ from what it was. *)
LEMMA RowMoves ==
    ASSUME TypeOK, NEW r \in Requests, Act(r), NEW n \in Notes, Live(n)'
    PROVE  \/ Live(n) /\ notes'[n] = notes[n]
           \/ /\ WriteNote(r) /\ Live(n)
              /\ n = task[r].req.note /\ task[r].req \in Updates
              /\ notes[n].version = task[r].req.expected
              /\ notes'[n] = [owner |-> notes[n].owner, body |-> task[r].req.body,
                              version |-> task[r].req.expected + 1]
           \/ /\ InsertNote(r) /\ n = task[r].req.note
              /\ notes'[n] = [owner |-> task[r].req.actor,
                              body |-> task[r].req.body, version |-> 1]
  <1>1. CASE WriteNote(r)
    <2>1. CASE Matches(task[r].req) /\ n = task[r].req.note
      BY <1>1, <2>1, WriteEffect DEF TypeOK, Matches
    <2>2. CASE ~(Matches(task[r].req) /\ n = task[r].req.note)
      BY <1>1, <2>2, WriteEffect DEF TypeOK, Live
    <2> QED  BY <2>1, <2>2
  <1>2. CASE InsertNote(r)
    <2>1. CASE n = task[r].req.note
      BY <1>2, <2>1, InsertEffect DEF TypeOK
    <2>2. CASE n # task[r].req.note
      BY <1>2, <2>2, InsertEffect DEF TypeOK, Live
    <2> QED  BY <2>1, <2>2
  <1>3. CASE DeleteNote(r)
    BY <1>3 DEF DeleteNote, TypeOK, Live
  <1>4. CASE notes' = notes
    BY <1>4 DEF Live
  <1> QED  BY <1>1, <1>2, <1>3, <1>4, WhoWrites

(* No handler but the inserting one has got anywhere with a new note. *)
LEMMA InsertedIsUnknown ==
    ASSUME TypeOK, PendingIsUnknown, NEW r \in Requests, InsertNote(r),
           NEW s \in Requests, s # r, About(s, task[r].req.note)
    PROVE  /\ task[s].pc \in {"load", "done"}
           /\ task[s].copy = Absent
           /\ ~task[s].applied
  BY DEF PendingIsUnknown, InsertNote

(* The statements after which a handler awaits one of the owner's. *)
LEMMA OwnerLabelEntered ==
    ASSUME TypeOK, NEW r \in Requests, Act(r),
           task'[r].pc \in OwnerOps \cup {"upsert", "tell"}
    PROVE  LoadNote(r) \/ LookupTarget(r) \/ UpsertShare(r)
  <1> USE DEF OwnerOps, TypeOK, Task
  <1>1. ~Deliver(r) /\ ~Disconnect(r)
    BY SlotIsFreed DEF IdleTask
  <1>2. ASSUME NEW q \in Request, Receive(r, q) PROVE FALSE
    BY <1>2, RequestArrives
  <1>3. ~Fault(r) /\ ~ReadLink(r)
    BY DEF Fault, ReadLink, Answer
  <1>4. ~LookupGrant(r) /\ ~ExistingMentions(r) /\ ~WriteNote(r)
    BY DEF LookupGrant, ExistingMentions, WriteNote, Answer
  <1>5. ~Reread(r) /\ ~InsertNote(r)
    BY DEF Reread, InsertNote, EnterMentions, Answer
  <1>6. ~RecordMention(r) /\ ~NotifyMention(r)
    BY DEF RecordMention, NotifyMention, Answer, At
  <1>7. ~DeleteNote(r) /\ ~TellShare(r) /\ ~DeleteShare(r)
    BY DEF DeleteNote, TellShare, DeleteShare, Answer
  <1>8. ~UpsertLink(r) /\ ~DeleteLink(r)
    BY DEF UpsertLink, DeleteLink, Answer
  <1> QED  BY <1>1, <1>2, <1>3, <1>4, <1>5, <1>6, <1>7, <1>8 DEF Act, Step

LEMMA OwnerCheckedStep ==
    ASSUME TypeOK, PendingIsUnknown, OwnerWasChecked, NEW r \in Requests, Act(r)
    PROVE  OwnerWasChecked'
  <1> SUFFICES ASSUME NEW s \in Requests,
                      task'[s].pc \in OwnerOps \cup {"upsert", "tell"}
               PROVE  Checked(s)'
    BY DEF OwnerWasChecked
  <1>1. CASE s # r
    <2>1. task'[s] = task[s]
      BY <1>1, OthersWait
    <2>2. Checked(s)
      BY <2>1 DEF OwnerWasChecked
    <2>3. PICK n \in Notes : n = task[s].req.note /\ About(s, n)
      BY <2>1, NoteAt DEF OwnerOps
    <2>4. ASSUME Live(n)' PROVE notes'[n].owner = task[s].req.actor
      <3>1. CASE InsertNote(r) /\ n = task[r].req.note
        BY <1>1, <2>1, <2>3, <3>1, InsertedIsUnknown DEF OwnerOps
      <3>2. CASE Live(n) /\ notes'[n].owner = notes[n].owner
        BY <2>2, <2>3, <3>2 DEF Checked
      <3>3. \/ Live(n) /\ notes'[n] = notes[n]
            \/ /\ Live(n) /\ n = task[r].req.note
               /\ notes'[n] = [owner |-> notes[n].owner, body |-> task[r].req.body,
                               version |-> task[r].req.expected + 1]
            \/ InsertNote(r) /\ n = task[r].req.note
        BY <2>4, RowMoves
      <3> QED  BY <3>1, <3>2, <3>3
    <2> QED  BY <2>1, <2>2, <2>3, <2>4 DEF Checked, Live
  <1>2. CASE s = r
    <2>1. LoadNote(r) \/ LookupTarget(r) \/ UpsertShare(r)
      BY <1>2, OwnerLabelEntered
    <2>2. task'[r].req = task[r].req /\ notes' = notes
      BY <2>1, RequestStays DEF Step, LoadNote, LookupTarget, UpsertShare, tables
    <2>3. CASE LoadNote(r)
      <3>1. /\ notes[task[r].req.note] # Absent
            /\ notes[task[r].req.note].owner = task[r].req.actor
            /\ task'[r].pc = task[r].req.op
            /\ task[r].req.op = "share" => task[r].req.target # task[r].req.actor
        BY <1>2, <2>3 DEF LoadNote, Answer, Goto, OwnerOps, TypeOK, Task
      <3>2. task'[r].pc # "upsert"
        BY <3>1, <2>3, RequestAt, OpNamesTheRequest DEF LoadNote, OwnerOps,
           Goto, Answer, TypeOK, Task, Sharings
      <3> QED  BY <1>2, <2>2, <3>1, <3>2 DEF Checked
    <2>4. CASE LookupTarget(r) \/ UpsertShare(r)
      <3>1. Checked(r) /\ (task'[r].pc = "upsert" => task[r].pc = "share")
        BY <1>2, <2>4 DEF LookupTarget, UpsertShare, At, OwnerWasChecked,
           OwnerOps, Goto, Answer, TypeOK, Task
      <3>2. task'[r].pc # "share"
        BY <2>4 DEF LookupTarget, UpsertShare, Goto, Answer, TypeOK, Task
      <3> QED  BY <1>2, <2>2, <3>1, <3>2 DEF Checked, Live
    <2> QED  BY <2>1, <2>3, <2>4
  <1> QED  BY <1>1, <1>2

LEMMA OwnerIsNoGuestStep ==
    ASSUME TypeOK, NoOrphans, PendingIsUnknown, OwnerWasChecked, OwnerIsNoGuest,
           NEW r \in Requests, Act(r)
    PROVE  OwnerIsNoGuest'
  <1> SUFFICES ASSUME NEW n \in Notes, Live(n)'
               PROVE  shares'[n][notes'[n].owner] = "none"
    BY DEF OwnerIsNoGuest
  <1>1. CASE InsertNote(r) /\ n = task[r].req.note
    <2>1. ~Live(n)
      BY <1>1 DEF PendingIsUnknown, InsertNote
    <2>2. task[r].req.actor \in Users
      BY <1>1, InsertEffect, UsersAssumption DEF Creates, CreatesOf
    <2>3. shares' = shares /\ notes'[n].owner = task[r].req.actor
      BY <1>1, InsertEffect DEF InsertNote, TypeOK
    <2> QED  BY <2>1, <2>2, <2>3 DEF NoOrphans
  <1>2. CASE ~(InsertNote(r) /\ n = task[r].req.note)
    <2>1. /\ Live(n)
          /\ \/ notes'[n] = notes[n]
             \/ notes'[n] = [owner |-> notes[n].owner, body |-> task[r].req.body,
                             version |-> task[r].req.expected + 1]
      BY <1>2, RowMoves
    <2>2. notes'[n].owner = notes[n].owner
      BY <2>1
    <2> DEFINE owner == notes[n].owner
    <2>3. owner \in Users /\ shares[n][owner] = "none"
      BY <2>1 DEF OwnerIsNoGuest, Live, TypeOK, Row
    <2>4. CASE UpsertShare(r)
      <3>1. n = task[r].req.note => task[r].req.target # owner
        BY <2>1, <2>4 DEF UpsertShare, At, OwnerWasChecked, Checked
      <3>2. shares'[n][owner] = shares[n][owner]
        BY <2>3, <2>4, <3>1 DEF UpsertShare, TypeOK
      <3> QED  BY <2>2, <2>3, <3>2
    <2>5. CASE DeleteShare(r)
      BY <2>2, <2>3, <2>5 DEF DeleteShare, TypeOK
    <2>6. CASE DeleteNote(r)
      BY <2>2, <2>3, <2>6 DEF DeleteNote, TypeOK
    <2>7. CASE shares' = shares
      BY <2>2, <2>3, <2>7
    <2> QED  BY <2>4, <2>5, <2>6, <2>7, WhoWrites
  <1> QED  BY <1>1, <1>2

(***************************************************************************)
(* Versions.  A handler that applied its UPDATE left the row past the      *)
(* version it was based on, and rows only move forward, so no other        *)
(* handler can apply one based on that version.                            *)
(***************************************************************************)
LEMMA AppliedMatched ==
    ASSUME TypeOK, NEW r \in Requests, WriteNote(r), task'[r].applied
    PROVE  Matches(task[r].req)
  <1> DEFINE m == Matches(task[r].req)
  <1>1. task' = [task EXCEPT ![r].pc = "reread", ![r].applied = m]
    BY DEF WriteNote
  <1> HIDE DEF m
  <1>2. task'[r].applied = m
    BY <1>1 DEF TypeOK, Task
  <1>3. m
    BY <1>2
  <1> QED  BY <1>3 DEF m

LEMMA AppliedBefore ==
    ASSUME TypeOK, NEW r \in Requests, Act(r), NEW s \in Requests, task'[s].applied
    PROVE  /\ task'[s].req = task[s].req
           /\ task[s].applied \/ (s = r /\ WriteNote(r) /\ Matches(task[r].req))
  <1>1. CASE s # r
    BY <1>1, OthersWait
  <1>2. CASE s = r /\ (Step(r) \/ Fault(r))
    BY <1>2, RequestStays, AppliedMatched
  <1>3. CASE s = r /\ ~(Step(r) \/ Fault(r))
    BY <1>3, SlotIsFreed, RequestArrives DEF Act, IdleTask
  <1> QED  BY <1>1, <1>2, <1>3

LEMMA AppliedIsPastStep ==
    ASSUME TypeOK, PendingIsUnknown, AppliedIsPast, NEW r \in Requests, Act(r)
    PROVE  AppliedIsPast'
  <1> SUFFICES ASSUME NEW s \in Requests, task'[s].applied
               PROVE  PastBase(s)'
    BY DEF AppliedIsPast
  <1>1. CASE s # r \/ (~WriteNote(r) /\ (Step(r) \/ Fault(r)))
    <2>1. /\ task'[s].req = task[s].req /\ task[s].applied
          /\ ~At(s, "idle") /\ task'[s].pc # "idle"
      BY <1>1, OthersWait, RequestStays DEF AppliedIsPast, PastBase, At
    <2>2. PastBase(s)
      BY <2>1 DEF AppliedIsPast
    <2>3. task[s].req \in Updates
      BY <2>2 DEF PastBase
    <2>4. PICK n \in Notes : n = task[s].req.note
      BY <2>3 DEF Updates, UpdatesOf
    <2>5. task[s].req.expected \in Nat /\ About(s, n)
      BY <2>1, <2>3, <2>4 DEF Updates, UpdatesOf, About
    <2>6. ASSUME Live(n)' PROVE notes'[n].version > task[s].req.expected
      <3>1. \/ Live(n) /\ notes'[n] = notes[n]
            \/ /\ Live(n) /\ task[r].req \in Updates
               /\ notes[n].version = task[r].req.expected
               /\ notes'[n] = [owner |-> notes[n].owner, body |-> task[r].req.body,
                               version |-> task[r].req.expected + 1]
            \/ InsertNote(r) /\ n = task[r].req.note
        BY <2>6, RowMoves
      <3>2. ~(InsertNote(r) /\ n = task[r].req.note)
        <4>1. CASE s # r
          BY <2>1, <2>5, <4>1, InsertedIsUnknown
        <4>2. CASE s = r
          BY <2>3, <4>2, InsertEffect DEF Updates, UpdatesOf, Creates, CreatesOf
        <4> QED  BY <4>1, <4>2
      <3>3. Live(n) => notes[n].version > task[s].req.expected
        BY <2>2, <2>4 DEF PastBase
      <3>4. task[r].req \in Updates => task[r].req.expected \in Nat
        BY DEF Updates, UpdatesOf
      <3> QED  BY <2>5, <3>1, <3>2, <3>3, <3>4
    <2> QED  BY <2>1, <2>3, <2>4, <2>6 DEF PastBase, Live, At
  <1>2. CASE s = r /\ WriteNote(r)
    <2>1. /\ task'[r].req = task[r].req /\ task'[r].pc # "idle"
          /\ Matches(task[r].req) /\ task[r].req \in Updates
      BY <1>2, AppliedMatched, WriteEffect, RequestStays DEF Step
    <2>2. /\ task[r].req.note \in Notes /\ task[r].req.expected \in Nat
      BY <2>1 DEF Updates, UpdatesOf
    <2> DEFINE n == task[r].req.note
    <2>3. notes'[n] = [owner |-> notes[n].owner, body |-> task[r].req.body,
                       version |-> task[r].req.expected + 1]
      BY <1>2, <2>1, <2>2, WriteEffect DEF TypeOK
    <2> QED  BY <1>2, <2>1, <2>2, <2>3 DEF PastBase, At
  <1>3. CASE s = r /\ ~(Step(r) \/ Fault(r))
    BY <1>3, SlotIsFreed, RequestArrives DEF Act, IdleTask
  <1> QED  BY <1>1, <1>2, <1>3

LEMMA OneSaveStep ==
    ASSUME TypeOK, AppliedIsPast, OneSavePerVersion, NEW r \in Requests, Act(r)
    PROVE  OneSavePerVersion'
  <1>1. ASSUME NEW x \in Requests, NEW y \in Requests, x # y,
               task[x].applied, y = r, WriteNote(r), Matches(task[r].req),
               task[x].req.note = task[r].req.note
        PROVE  task[x].req.expected # task[r].req.expected
    BY <1>1, WriteEffect DEF AppliedIsPast, PastBase, Matches, Updates, UpdatesOf
  <1> SUFFICES ASSUME NEW x \in Requests, NEW y \in Requests, x # y,
                      task'[x].applied, task'[y].applied,
                      task'[x].req.note = task'[y].req.note
               PROVE  task'[x].req.expected # task'[y].req.expected
    BY DEF OneSavePerVersion
  <1>2. /\ task'[x].req = task[x].req /\ task'[y].req = task[y].req
        /\ task[x].applied \/ (x = r /\ WriteNote(r) /\ Matches(task[r].req))
        /\ task[y].applied \/ (y = r /\ WriteNote(r) /\ Matches(task[r].req))
    BY AppliedBefore
  <1> QED  BY <1>1, <1>2 DEF OneSavePerVersion

(***************************************************************************)
(* What handlers know of a note: rows read at some earlier moment.         *)
(***************************************************************************)
LEMMA InsertCopy ==
    ASSUME TypeOK, NEW r \in Requests, InsertNote(r),
           NEW n \in Notes, n = task[r].req.note
    PROVE  task'[r].copy = notes'[n] /\ Live(n)'
  <1> DEFINE row == [owner |-> task[r].req.actor, body |-> task[r].req.body,
                     version |-> 1]
  <1>1. notes'[n] = row /\ row # Absent
    BY InsertEffect, AbsenceAssumption DEF TypeOK
  <1>2. EnterMentions(r, row)
    BY DEF InsertNote
  <1> HIDE DEF row
  <1>3. task'[r].copy = row
    BY <1>2 DEF EnterMentions, Answer, TypeOK, Task
  <1> QED  BY <1>1, <1>3 DEF Live

LEMMA CopyKeptOrRead ==
    ASSUME TypeOK, NEW r \in Requests, Act(r), NEW s \in Requests,
           NEW n \in Notes, Holds(s, n)'
    PROVE  \/ Holds(s, n) /\ task'[s].copy = task[s].copy
           \/ /\ s = r /\ task'[s].copy = notes'[n] /\ Live(n)'
              /\ \/ notes' = notes /\ About(r, n)
                 \/ InsertNote(r) /\ n = task[r].req.note
  <1> USE DEF Holds, TypeOK, Task, At
  <1>1. CASE s # r
    BY <1>1, OthersWait
  <1>2. CASE s = r /\ ~(Step(r) \/ Fault(r))
    BY <1>2, SlotIsFreed, RequestArrives DEF Act, IdleTask
  <1>3. ASSUME s = r, Step(r) \/ Fault(r) PROVE
           /\ task'[r].req = task[r].req /\ n = task[r].req.note
           /\ task[r].req.op # "readLink" /\ task[r].pc # "idle"
    BY <1>3, RequestStays
  <1>4. CASE s = r /\ LoadNote(r)
    BY <1>3, <1>4 DEF LoadNote, Answer, Goto, Step, tables, Live, About
  <1>5. CASE s = r /\ LookupGrant(r)
    BY <1>3, <1>5 DEF LookupGrant, Answer, Step
  <1>6. CASE s = r /\ (ExistingMentions(r) \/ WriteNote(r))
    BY <1>3, <1>6 DEF ExistingMentions, WriteNote, Step
  <1>7. CASE s = r /\ Reread(r)
    BY <1>3, <1>7 DEF Reread, EnterMentions, Answer, Step, tables, Live, About
  <1>8. CASE s = r /\ InsertNote(r)
    BY <1>3, <1>8, InsertCopy DEF Step
  <1>9. CASE s = r /\ (RecordMention(r) \/ NotifyMention(r))
    BY <1>3, <1>9 DEF RecordMention, NotifyMention, Answer, Step
  <1>10. CASE s = r /\ (LookupTarget(r) \/ UpsertShare(r) \/ TellShare(r))
    BY <1>3, <1>10 DEF LookupTarget, UpsertShare, TellShare, Answer, Goto, Step
  <1>11. CASE s = r /\ (\/ DeleteNote(r) \/ DeleteShare(r) \/ UpsertLink(r)
                        \/ DeleteLink(r) \/ Fault(r))
    <2>1. task'[r].copy = Absent
      <3>1. CASE DeleteNote(r) \/ DeleteShare(r) \/ DeleteLink(r)
        BY <3>1 DEF DeleteNote, DeleteShare, DeleteLink, Answer
      <3>2. CASE UpsertLink(r)
        BY <3>2 DEF UpsertLink, Answer
      <3>3. CASE Fault(r)
        BY <3>3 DEF Fault, Answer
      <3> QED  BY <1>11, <3>1, <3>2, <3>3
    <2> QED  BY <1>11, <2>1
  <1>12. CASE s = r /\ ReadLink(r)
    <2>1. task[r].req \in LinkReads
      BY <1>12, RequestAt DEF ReadLink
    <2> QED  BY <1>3, <1>12, <2>1 DEF LinkReads, Step
  <1> QED  BY <1>1, <1>2, <1>4, <1>5, <1>6, <1>7, <1>8, <1>9, <1>10, <1>11, <1>12
           DEF Step

LEMMA CopyMoves ==
    ASSUME TypeOK, NEW r \in Requests, Act(r), NEW s \in Requests,
           NEW n \in Notes, Holds(s, n)'
    PROVE  \/ /\ Holds(s, n) /\ task'[s].copy = task[s].copy
              /\ ~(s = r /\ InsertNote(r))
           \/ s = r /\ task'[s].copy = notes'[n] /\ Live(n)'
  <1>1. CASE s = r /\ InsertNote(r)
    <2>1. n = task[r].req.note
      BY <1>1, RequestStays DEF Step, Holds
    <2> QED  BY <1>1, <2>1, InsertCopy
  <1> QED  BY <1>1, CopyKeptOrRead

NotAhead(r, n) ==
    /\ task[r].copy.version <= notes[n].version
    /\ task[r].copy.version = notes[n].version => task[r].copy = notes[n]

LEMMA SameVersionStep ==
    ASSUME TypeOK, PendingIsUnknown, SameVersionSameBody,
           NEW r \in Requests, Act(r)
    PROVE  SameVersionSameBody'
  <1> SUFFICES ASSUME NEW n \in Notes, NEW x \in Requests, Holds(x, n)'
               PROVE  /\ Live(n)' => NotAhead(x, n)'
                      /\ \A y \in Requests :
                             Holds(y, n)' /\ task'[x].copy.version = task'[y].copy.version
                                 => task'[x].copy = task'[y].copy
    BY DEF SameVersionSameBody, NotAhead
  <1>0. \A row \in Row : row.version \in Nat
    BY VersionAssumption DEF Row, Versions
  <1>1. ASSUME NEW y \in Requests, Holds(y, n)', Live(n)'
        PROVE  NotAhead(y, n)'
    <2>1. CASE /\ Holds(y, n) /\ task'[y].copy = task[y].copy
               /\ ~(y = r /\ InsertNote(r))
      <3>1. /\ task[y].copy \in Row
            /\ Live(n) => notes[n] \in Row /\ NotAhead(y, n)
        BY <2>1 DEF SameVersionSameBody, NotAhead, TypeOK, Task, Holds, Live
      <3>2. ~(InsertNote(r) /\ n = task[r].req.note)
        BY <2>1, InsertedIsUnknown DEF Holds, About
      <3>3. \/ Live(n) /\ notes'[n] = notes[n]
            \/ /\ Live(n) /\ notes[n].version = task[r].req.expected
               /\ notes'[n] = [owner |-> notes[n].owner, body |-> task[r].req.body,
                               version |-> task[r].req.expected + 1]
        BY <1>1, <3>2, RowMoves
      <3>4. CASE notes'[n] = notes[n] /\ Live(n)
        BY <2>1, <3>1, <3>4 DEF NotAhead
      <3>5. CASE Live(n) /\ notes'[n].version = notes[n].version + 1
        BY <1>0, <2>1, <3>1, <3>5 DEF NotAhead
      <3> QED  BY <3>3, <3>4, <3>5
    <2>2. CASE y = r /\ task'[y].copy = notes'[n]
      <3>1. notes'[n].version \in Nat
        <4>1. TypeOK'
          BY StepTablesOK, StepTasksOK, TypeSplit DEF Act, TypeOK, TablesOK, TasksOK, WellFormed
        <4> QED  BY <1>0, <1>1, <4>1 DEF TypeOK, Live
      <3> QED  BY <2>2, <3>1 DEF NotAhead
    <2> QED  BY <1>1, <2>1, <2>2, CopyMoves
  <1>2. ASSUME NEW y \in Requests, Holds(y, n)',
               task'[x].copy.version = task'[y].copy.version
        PROVE  task'[x].copy = task'[y].copy
    <2>1. CASE /\ Holds(x, n) /\ task'[x].copy = task[x].copy
               /\ Holds(y, n) /\ task'[y].copy = task[y].copy
      BY <1>2, <2>1 DEF SameVersionSameBody
    <2>2. CASE x = r /\ task'[x].copy = notes'[n] /\ Live(n)'
      BY <1>1, <1>2, <2>2 DEF NotAhead
    <2>3. CASE y = r /\ task'[y].copy = notes'[n] /\ Live(n)'
      BY <1>1, <1>2, <2>3 DEF NotAhead
    <2> QED  BY <1>2, <2>1, <2>2, <2>3, CopyMoves
  <1> QED  BY <1>1, <1>2

(***************************************************************************)
(* A save is answered with itself or a later one.                          *)
(***************************************************************************)
LEMMA LoadLeadsTo ==
    ASSUME TypeOK, NEW r \in Requests, LoadNote(r)
    PROVE  \/ /\ task'[r].pc = "done"
              /\ task'[r].answer = "ok" => task[r].req.op = "get"
           \/ task'[r].pc \in {"update", "grant"} \cup OwnerOps
  <1> USE DEF TypeOK, Task
  <1>1. CASE \E status \in Statuses \ {"ok"} : Answer(r, status, Absent)
    BY <1>1 DEF Answer
  <1>2. CASE task[r].req.op = "get" /\ Answer(r, "ok", notes[task[r].req.note])
    BY <1>2 DEF Answer
  <1>3. CASE task[r].req.op \in OwnerOps /\ Goto(r, task[r].req.op)
    BY <1>3 DEF Goto
  <1>4. CASE \/ Goto(r, "update")
             \/ task' = [task EXCEPT ![r].pc = "grant",
                                    ![r].copy = notes[task[r].req.note]]
    BY <1>4 DEF Goto
  <1> QED  BY <1>1, <1>2, <1>3, <1>4 DEF LoadNote, Statuses

LEMMA ReportEntered ==
    ASSUME TypeOK, NEW r \in Requests, Step(r), task[r].req.op = "update",
           \/ task'[r].pc \in {"record", "notify"}
           \/ task'[r].pc = "done" /\ task'[r].answer = "ok"
    PROVE  \/ /\ Reread(r) /\ task[r].applied
              /\ notes[task[r].req.note] # Absent
              /\ task'[r].copy = notes[task[r].req.note]
           \/ /\ task[r].pc \in {"record", "notify"}
              /\ task'[r].copy = task[r].copy
  <1> USE DEF TypeOK, Task, At
  <1>1. CASE LoadNote(r)
    BY <1>1, LoadLeadsTo DEF OwnerOps
  <1>2. CASE LookupGrant(r) \/ ExistingMentions(r) \/ WriteNote(r)
    BY <1>2 DEF LookupGrant, ExistingMentions, WriteNote, Answer
  <1>3. CASE Reread(r)
    <2> DEFINE row == notes[task[r].req.note]
    <2>1. CASE row = Absent /\ Answer(r, "notFound", Absent)
      BY <2>1 DEF Answer
    <2>2. CASE Answer(r, "conflict", row)
      BY <2>2 DEF Answer
    <2>3. CASE row # Absent /\ task[r].applied /\ EnterMentions(r, row)
      <3>1. task'[r].copy = row
        BY <2>3 DEF EnterMentions, Answer
      <3> QED  BY <1>3, <2>3, <3>1
    <2> QED  BY <1>3, <2>1, <2>2, <2>3 DEF Reread
  <1>4. CASE InsertNote(r)
    BY <1>4, InsertEffect DEF Creates, CreatesOf
  <1>5. CASE RecordMention(r) \/ NotifyMention(r)
    BY <1>5 DEF RecordMention, NotifyMention, Answer
  <1>6. CASE DeleteNote(r) \/ LookupTarget(r) \/ UpsertShare(r) \/ TellShare(r)
    BY <1>6, RequestAt DEF DeleteNote, LookupTarget, UpsertShare, TellShare,
       Deletes, Sharings
  <1>7. CASE DeleteShare(r) \/ UpsertLink(r) \/ DeleteLink(r) \/ ReadLink(r)
    BY <1>7, RequestAt DEF DeleteShare, UpsertLink, DeleteLink, ReadLink,
       Revokes, Publishes, Unpublishes, LinkReads
  <1> QED  BY <1>1, <1>2, <1>3, <1>4, <1>5, <1>6, <1>7 DEF Step

LEMMA RereadFollowsWrite ==
    ASSUME TypeOK, NEW r \in Requests, Act(r), task'[r].pc = "reread"
    PROVE  WriteNote(r)
  <1> USE DEF TypeOK, Task
  <1>1. ~Deliver(r) /\ ~Disconnect(r)
    BY SlotIsFreed DEF IdleTask
  <1>a. ASSUME NEW q \in Request, Receive(r, q) PROVE FALSE
    BY <1>a, RequestArrives
  <1>2. ~LookupGrant(r) /\ ~ExistingMentions(r)
    BY DEF LookupGrant, ExistingMentions, Answer
  <1>b. ~LoadNote(r)
    BY LoadLeadsTo DEF OwnerOps
  <1>3. ~Reread(r) /\ ~InsertNote(r)
    BY DEF Reread, InsertNote, EnterMentions, Answer
  <1>4. ~RecordMention(r) /\ ~NotifyMention(r)
    BY DEF RecordMention, NotifyMention, Answer, At
  <1>5. ~LookupTarget(r) /\ ~UpsertShare(r) /\ ~TellShare(r)
    BY DEF LookupTarget, UpsertShare, TellShare, Answer, Goto
  <1>6. /\ ~DeleteNote(r) /\ ~DeleteShare(r) /\ ~UpsertLink(r)
        /\ ~DeleteLink(r) /\ ~ReadLink(r) /\ ~Fault(r)
    BY DEF DeleteNote, DeleteShare, UpsertLink, DeleteLink, ReadLink, Fault, Answer
  <1> QED  BY <1>1, <1>a, <1>b, <1>2, <1>3, <1>4, <1>5, <1>6 DEF Act, Step

LEMMA SaveIsReportedStep ==
    ASSUME TypeOK, PendingIsUnknown, SaveIsReported, NEW r \in Requests, Act(r)
    PROVE  SaveIsReported'
  <1> SUFFICES ASSUME NEW s \in Requests PROVE Reported(s)'
    BY DEF SaveIsReported
  <1>1. CASE s # r
    <2>1. task'[s] = task[s] /\ Reported(s)
      BY <1>1, OthersWait DEF SaveIsReported
    <2> SUFFICES ASSUME At(s, "reread"), task[s].applied, Live(task[s].req.note)'
                 PROVE  Reports(notes'[task[s].req.note], task[s].req)
      BY <2>1 DEF Reported, At, Live, Reports
    <2>2. task[s].req \in Updates
      BY RequestAt DEF At
    <2>3. PICK n \in Notes : n = task[s].req.note /\ Live(n)' /\ About(s, n)
      BY <2>1, NoteAt DEF At, Live
    <2>4. task[s].req.expected \in Nat
      BY <2>2 DEF Updates, UpdatesOf
    <2>5. ~(InsertNote(r) /\ n = task[r].req.note)
      BY <1>1, <2>3, InsertedIsUnknown DEF At
    <2>6. \/ Live(n) /\ notes'[n] = notes[n]
          \/ /\ Live(n) /\ task[r].req \in Updates
             /\ notes[n].version = task[r].req.expected
             /\ notes'[n] = [owner |-> notes[n].owner, body |-> task[r].req.body,
                             version |-> task[r].req.expected + 1]
      BY <2>3, <2>5, RowMoves
    <2>7. Live(n) => Reports(notes[n], task[s].req)
      BY <2>1, <2>3 DEF Reported
    <2>8. task[r].req \in Updates => task[r].req.expected \in Nat
      BY DEF Updates, UpdatesOf
    <2> QED  BY <2>3, <2>4, <2>6, <2>7, <2>8 DEF Reports, Live
  <1>2. CASE s = r
    <2>1. ASSUME At(r, "reread")', task'[r].applied, Live(task[r].req.note)',
                 task'[r].req = task[r].req
          PROVE  Reports(notes'[task[r].req.note], task[r].req)
      <3>1. WriteNote(r) /\ Matches(task[r].req)
        BY <2>1, RereadFollowsWrite, AppliedMatched DEF At
      <3>2. task[r].req.note \in Notes /\ task[r].req.expected \in Nat
        <4>1. task[r].req \in Updates
          BY <3>1, WriteEffect
        <4> QED  BY <4>1 DEF Updates, UpdatesOf
      <3>3. notes'[task[r].req.note] =
               [owner |-> notes[task[r].req.note].owner, body |-> task[r].req.body,
                version |-> task[r].req.expected + 1]
        BY <3>1, <3>2, WriteEffect DEF TypeOK
      <3> QED  BY <2>1, <3>2, <3>3 DEF Reports, Live
    <2>2. ASSUME Step(r), task[r].req.op = "update", task'[r].req = task[r].req,
                 \/ task'[r].pc \in {"record", "notify"}
                 \/ task'[r].pc = "done" /\ task'[r].answer = "ok"
          PROVE  Reports(task'[r].copy, task[r].req)
      BY <2>2, ReportEntered DEF SaveIsReported, Reported, Reread, Live
    <2>3. CASE Step(r)
      BY <1>2, <2>1, <2>2, <2>3, RequestStays DEF Reported, Reports, At, Live
    <2>4. CASE Fault(r)
      BY <1>2, <2>4 DEF Fault, Answer, Reported, TypeOK, Task, At
    <2>5. CASE Deliver(r) \/ Disconnect(r)
      BY <1>2, <2>5, SlotIsFreed DEF IdleTask, Reported, At
    <2>6. CASE \E q \in Request : Receive(r, q)
      BY <1>2, <2>6, RequestArrives DEF Reported, At
    <2> QED  BY <2>3, <2>4, <2>5, <2>6 DEF Act
  <1> QED  BY <1>1, <1>2

(***************************************************************************)
(* Mentions: the INSERTs come before the mails, in one handler.            *)
(***************************************************************************)
LEMMA RowsOfALiveNoteStay ==
    ASSUME TypeOK, NEW r \in Requests, Act(r), NEW n \in Notes, Live(n)',
           NEW u, <<n, u>> \in mentions
    PROVE  <<n, u>> \in mentions'
  <1>1. CASE RecordMention(r)
    BY <1>1 DEF RecordMention
  <1>2. CASE DeleteNote(r)
    BY <1>2 DEF DeleteNote, Live, TypeOK
  <1> QED  BY <1>1, <1>2, WhoWrites

LEMMA MentionLabelEntered ==
    ASSUME TypeOK, NEW r \in Requests, Act(r), task'[r].pc \in {"record", "notify"}
    PROVE  \/ task'[r].pc = "record" /\ task'[r].next = 1
           \/ RecordMention(r)
           \/ NotifyMention(r) /\ task'[r].pc = "notify"
  <1> USE DEF TypeOK, Task
  <1>1. ~Deliver(r) /\ ~Disconnect(r)
    BY SlotIsFreed DEF IdleTask
  <1>2. ASSUME NEW q \in Request, Receive(r, q) PROVE FALSE
    BY <1>2, RequestArrives
  <1>3. ~LookupGrant(r) /\ ~ExistingMentions(r) /\ ~WriteNote(r)
    BY DEF LookupGrant, ExistingMentions, WriteNote, Answer
  <1>4. ~LoadNote(r)
    BY LoadLeadsTo DEF OwnerOps
  <1>5. CASE Reread(r) \/ InsertNote(r)
    <2>1. PICK row : EnterMentions(r, row)
      BY <1>5 DEF Reread, InsertNote, Answer
    <2> QED  BY <2>1 DEF EnterMentions, Answer
  <1>6. CASE NotifyMention(r)
    BY <1>6 DEF NotifyMention, Answer, At
  <1>7. ~LookupTarget(r) /\ ~UpsertShare(r) /\ ~TellShare(r)
    BY DEF LookupTarget, UpsertShare, TellShare, Answer, Goto
  <1>8. /\ ~DeleteNote(r) /\ ~DeleteShare(r) /\ ~UpsertLink(r)
        /\ ~DeleteLink(r) /\ ~ReadLink(r) /\ ~Fault(r)
    BY DEF DeleteNote, DeleteShare, UpsertLink, DeleteLink, ReadLink, Fault, Answer
  <1> QED  BY <1>1, <1>2, <1>3, <1>4, <1>5, <1>6, <1>7, <1>8 DEF Act, Step

LEMMA PassedStep ==
    ASSUME TypeOK, PendingIsUnknown, PassedAreRecorded, NEW r \in Requests, Act(r)
    PROVE  PassedAreRecorded'
  <1> SUFFICES ASSUME NEW s \in Requests, task'[s].pc \in {"record", "notify"},
                      Live(task[s].req.note)'
               PROVE  Passed(s)'
    BY DEF PassedAreRecorded
  <1>1. CASE s # r
    <2>1. task'[s] = task[s]
      BY <1>1, OthersWait
    <2>2. PICK n \in Notes : n = task[s].req.note /\ About(s, n) /\ Live(n)'
      BY <2>1, NoteAt DEF Live
    <2>3. ~(InsertNote(r) /\ n = task[r].req.note)
      BY <1>1, <2>1, <2>2, InsertedIsUnknown
    <2>4. Passed(s)
      BY <2>1, <2>2, <2>3, RowMoves DEF PassedAreRecorded
    <2> QED  BY <2>1, <2>2, <2>4, RowsOfALiveNoteStay DEF Passed, At
  <1>2. CASE s = r
    <2>1. CASE task'[r].pc = "record" /\ task'[r].next = 1
      BY <1>2, <2>1 DEF Passed, At
    <2>2. CASE RecordMention(r)
      <3> DEFINE q == task[r].req
                 last == task[r].next = Len(q.mentions)
      <3>1. /\ q \in Saves /\ q.note \in Notes
            /\ task[r].next \in 1..Len(q.mentions)
        BY <2>2, RequestAt, NoteAt DEF RecordMention, At, TypeOK
      <3>2. /\ Live(q.note)
            /\ mentions' = mentions \cup {<<q.note, q.mentions[task[r].next]>>}
            /\ task' = [task EXCEPT ![r].pc = IF last THEN "notify" ELSE "record",
                                   ![r].next = IF last THEN 1 ELSE task[r].next + 1]
        <4>1. ~Answer(r, "internal", Absent)
          BY <1>2 DEF Answer, TypeOK, Task
        <4> QED  BY <2>2, <4>1 DEF RecordMention
      <3>3. /\ task'[r].req = q
            /\ task'[r].pc = IF last THEN "notify" ELSE "record"
            /\ task'[r].next = IF last THEN 1 ELSE task[r].next + 1
        BY <3>2 DEF TypeOK, Task
      <3>4. \A i \in 1..Len(q.mentions) : i < task[r].next =>
               <<q.note, q.mentions[i]>> \in mentions
        BY <2>2, <3>2 DEF PassedAreRecorded, Passed, RecordMention, At
      <3>5. q.mentions \in Seq(Users \cup Strangers)
        BY <3>1, MentionAssumption DEF Saves, Creates, Updates, CreatesOf, UpdatesOf
      <3>6. ASSUME NEW i \in 1..Len(q.mentions),
                   task'[r].pc = "notify" \/ i < task'[r].next
            PROVE  i < task[r].next \/ i = task[r].next
        BY <3>1, <3>3, <3>5, <3>6
      <3>7. ASSUME NEW i \in 1..Len(q.mentions),
                   task'[r].pc = "notify" \/ i < task'[r].next
            PROVE  <<q.note, q.mentions[i]>> \in mentions'
        BY <3>2, <3>4, <3>6, <3>7
      <3> QED  BY <1>2, <3>3, <3>7 DEF Passed, At
    <2>3. CASE NotifyMention(r) /\ task'[r].pc = "notify"
      <3>1. /\ task[r].pc = "notify" /\ task'[r].req = task[r].req
            /\ UNCHANGED <<notes, mentions>>
        BY <2>3, RequestStays DEF NotifyMention, At, tables, Step
      <3>2. Passed(r)
        BY <1>2, <3>1 DEF PassedAreRecorded, Live
      <3> QED  BY <1>2, <2>3, <3>1, <3>2 DEF Passed, At
    <2> QED  BY <1>2, <2>1, <2>2, <2>3, MentionLabelEntered
  <1> QED  BY <1>1, <1>2

LEMMA MailedStep ==
    ASSUME TypeOK, PendingIsUnknown, PassedAreRecorded, MailedIsRecorded,
           NEW r \in Requests, Act(r)
    PROVE  MailedIsRecorded'
  <1> SUFFICES ASSUME NEW n \in Notes, NEW u \in Users, Live(n)',
                      mails'[<<"mention", n, u>>] > 0
               PROVE  <<n, u>> \in mentions'
    BY DEF MailedIsRecorded
  <1>1. CASE mails'[<<"mention", n, u>>] = mails[<<"mention", n, u>>]
    <2>1. ~(InsertNote(r) /\ n = task[r].req.note)
      BY <1>1 DEF PendingIsUnknown, InsertNote
    <2>2. Live(n)
      BY <2>1, RowMoves
    <2>3. <<n, u>> \in mentions
      BY <1>1, <2>2 DEF MailedIsRecorded
    <2> QED  BY <2>3, RowsOfALiveNoteStay
  <1>2. CASE mails'[<<"mention", n, u>>] # mails[<<"mention", n, u>>]
    <2>1. NotifyMention(r)
      BY <1>2, WhoWrites, ShareMailIsOther
    <2>2. /\ n = task[r].req.note /\ u = task[r].req.mentions[task[r].next]
          /\ At(r, "notify") /\ UNCHANGED <<notes, mentions>>
      BY <1>2, <2>1, MailedAbout DEF NotifyMention, tables
    <2>3. task[r].next \in 1..Len(task[r].req.mentions)
      BY <2>2 DEF TypeOK, At
    <2>4. Passed(r)
      BY <2>2 DEF PassedAreRecorded, Live, At
    <2> QED  BY <2>2, <2>3, <2>4 DEF Passed
  <1> QED  BY <1>1, <1>2

-----------------------------------------------------------------------------
(* The inductive invariant. *)
Inv == /\ TypeOK
       /\ NoOrphans
       /\ InUseIsMinted
       /\ PendingIsUnknown
       /\ OwnerWasChecked
       /\ OwnerIsNoGuest
       /\ AppliedIsPast
       /\ OneSavePerVersion
       /\ SameVersionSameBody
       /\ SaveIsReported
       /\ PassedAreRecorded
       /\ MailedIsRecorded

LEMMA InitInv == Init => Inv
  <1> SUFFICES ASSUME Init PROVE Inv
    OBVIOUS
  <1>1. TypeOK
    BY InitTypeOK
  <1>2. \A r \in Requests : task[r].pc = "idle" /\ ~task[r].applied
    BY DEF Init, IdleTask
  <1>3. \A n \in Notes : ~Live(n) /\ \A u \in Users : mails[<<"mention", n, u>>] = 0
    BY DEF Init, Live, MailKinds
  <1>4. NoOrphans
    BY DEF Init, NoOrphans, Live
  <1> QED  BY <1>1, <1>2, <1>3, <1>4
     DEF Inv, InUseIsMinted, About, At, PendingIsUnknown, OwnerWasChecked,
         OwnerOps, OwnerIsNoGuest, AppliedIsPast, OneSavePerVersion,
         SameVersionSameBody, Holds, SaveIsReported, Reported,
         PassedAreRecorded, MailedIsRecorded

(* Other modules compose these with steps of their own. *)
LEMMA InvKept ==
    ASSUME Inv, NEW r \in Requests, Act(r)
    PROVE  Inv'
  <1>1. TypeOK'
    BY StepTablesOK, StepTasksOK
    DEF Inv, Act, TypeOK, TablesOK, TasksOK, WellFormed
  <1> QED  BY <1>1, NoOrphansStep, InUseStep, PendingStep,
     OwnerCheckedStep, OwnerIsNoGuestStep, AppliedIsPastStep, OneSaveStep,
     SameVersionStep, SaveIsReportedStep, PassedStep, MailedStep DEF Inv

LEMMA InvRests ==
    ASSUME Inv, UNCHANGED vars
    PROVE  Inv'
  BY DEF Inv, vars, tables, TypeOK, NoOrphans, InUseIsMinted, About, At, Live,
     PendingIsUnknown, OwnerWasChecked, Checked, OwnerIsNoGuest, AppliedIsPast,
     PastBase, OneSavePerVersion, SameVersionSameBody, Holds, SaveIsReported,
     Reported, Reports, PassedAreRecorded, Passed, MailedIsRecorded

LEMMA InvStep == Inv /\ [Next]_vars => Inv'
  BY InvKept, InvRests, NextIsAct

LEMMA InvHolds == Spec => []Inv
  BY InitInv, InvStep, PTL DEF Spec

(* A version number stands for one body, for as long as anyone holds it. *)
THEOREM SameVersionSameBodyHolds == Spec => []SameVersionSameBody
  BY InvHolds, PTL DEF Inv

(* No two saves based on one version are both applied. *)
THEOREM OneSavePerVersionHolds == Spec => []OneSavePerVersion
  BY InvHolds, PTL DEF Inv

(* A save that is answered 200 reports itself or a later save. *)
THEOREM OkReportsTheSaveHolds == Spec => []OkReportsTheSave
  <1>1. Inv => OkReportsTheSave
    BY DEF Inv, SaveIsReported, Reported, Reports, OkReportsTheSave, At
  <1> QED  BY <1>1, InvHolds, PTL

(* The owner never appears among those a note is shared with. *)
THEOREM OwnerIsNoGuestHolds == Spec => []OwnerIsNoGuest
  BY InvHolds, PTL DEF Inv

(* Whoever was mailed about a mention is on record as mentioned. *)
THEOREM MailedIsRecordedHolds == Spec => []MailedIsRecorded
  BY InvHolds, PTL DEF Inv

-----------------------------------------------------------------------------
(* What responses bring, for the modules that wait for them.               *)

(* A note is handed out only if it was read. *)
WasRead(t) ==
    /\ t.pc = "grant" => t.copy # Absent
    /\ t.pc = "done" /\ t.answer = "ok" /\ t.req.op = "get" => t.copy # Absent
    /\ t.pc = "done" /\ t.answer = "conflict" => t.copy # Absent
AnswersWereRead == \A r \in Requests : WasRead(task[r])

(* What a handler hands out was read in the table. *)
LEMMA AnswersStep ==
    ASSUME TypeOK, AnswersWereRead, NEW r \in Requests, Act(r)
    PROVE  AnswersWereRead'
  <1> DEFINE q == task[r].req
  <1> SUFFICES WasRead(task'[r])
    BY OthersWait DEF AnswersWereRead
  <1>0. /\ task[r] \in Task /\ WasRead(task[r])
        /\ task \in [Requests -> Task]
    BY DEF AnswersWereRead, TypeOK
  <1> USE DEF Task
  <1>1. CASE LoadNote(r)
    BY <1>0, <1>1 DEF LoadNote, Answer, Goto, OwnerOps, WasRead
  <1>2. CASE LookupGrant(r)
    BY <1>0, <1>2 DEF LookupGrant, Answer, At, WasRead
  <1>3. CASE ExistingMentions(r) \/ WriteNote(r)
    BY <1>0, <1>3 DEF ExistingMentions, WriteNote, WasRead
  <1>4. CASE Reread(r)
    <2>1. q.op = "update"
      BY <1>4, RequestAt DEF Reread, At, Updates, UpdatesOf
    <2> QED  BY <1>0, <1>4, <2>1
       DEF Reread, EnterMentions, Answer, WasRead
  <1>5. CASE InsertNote(r)
    <2>1. q.op = "create"
      BY <1>5, RequestAt DEF InsertNote, At, Creates, CreatesOf
    <2> QED  BY <1>0, <1>5, <2>1
       DEF InsertNote, EnterMentions, Answer, WasRead
  <1>6. CASE RecordMention(r) \/ NotifyMention(r)
    <2>1. q.op # "get"
      BY <1>6, RequestAt DEF RecordMention, NotifyMention, At, Saves, Creates,
                             CreatesOf, Updates, UpdatesOf
    <2> QED  BY <1>0, <1>6, <2>1
       DEF RecordMention, NotifyMention, Answer, At, WasRead
  <1>7. CASE DeleteNote(r) \/ DeleteShare(r) \/ UpsertLink(r) \/ DeleteLink(r)
             \/ LookupTarget(r) \/ UpsertShare(r) \/ TellShare(r)
    <2>1. q.op # "get"
      BY <1>7, RequestAt
      DEF DeleteNote, DeleteShare, UpsertLink, DeleteLink, LookupTarget,
          UpsertShare, TellShare, At, Deletes, Sharings, Revokes, Publishes,
          Unpublishes
    <2> QED  BY <1>0, <1>7, <2>1
       DEF DeleteNote, DeleteShare, UpsertLink, DeleteLink, LookupTarget,
           UpsertShare, TellShare, Answer, Goto, WasRead
  <1>8. CASE ReadLink(r) \/ Fault(r)
    <2>1. ReadLink(r) => q.op # "get"
      BY RequestAt DEF ReadLink, At, LinkReads
    <2> QED  BY <1>0, <1>8, <2>1
       DEF ReadLink, Fault, Answer, WasRead
  <1>9. CASE Deliver(r) \/ Disconnect(r)
    BY <1>0, <1>9, SlotIsFreed DEF IdleTask, WasRead
  <1>10. ASSUME NEW p \in Request, Receive(r, p) PROVE WasRead(task'[r])
    BY <1>0, <1>10, RequestArrives DEF WasRead
  <1> QED  BY <1>1, <1>2, <1>3, <1>4, <1>5, <1>6, <1>7, <1>8, <1>9, <1>10
           DEF Act, Step

(* The rows an answer must come with. *)
Carries(q, answer, row) ==
    \/ answer = "ok" /\ q.op \in {"get", "update"}
    \/ answer = "conflict" /\ q.op = "update"
    => row \in Row

LEMMA CarriesWhatWasRead ==
    ASSUME Inv, AnswersWereRead, NEW r \in Requests, NEW answer,
           \/ At(r, "done") /\ answer = task[r].answer
           \/ answer = "internal"
    PROVE  Carries(task[r].req, answer, task[r].copy)
  <1>1. task[r].copy \in Row \cup {Absent} /\ WasRead(task[r]) /\ Reported(r)
    BY DEF Inv, TypeOK, Task, AnswersWereRead, SaveIsReported
  <1> QED  BY <1>1 DEF Carries, WasRead, Reported, Reports, At
=============================================================================
