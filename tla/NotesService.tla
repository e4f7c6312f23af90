---------------------------- MODULE NotesService ----------------------------
(***************************************************************************)
(* The notes service of backend-rust: the handlers of notes/service.rs     *)
(* over the statements of notes/repository.rs.                             *)
(*                                                                         *)
(* One handler is one async task.  Every repository call is one SQL        *)
(* statement committed on its own (there is no transaction around a        *)
(* handler), and the task is suspended at each of them, so an action below *)
(* is one statement with the straight-line code that follows it up to the  *)
(* next await.  The handlers of different requests interleave freely at    *)
(* that grain, under SQLite (one connection behind a mutex) as under       *)
(* PostgreSQL (autocommitted statements, READ COMMITTED).                  *)
(*                                                                         *)
(* A definition named Operation_Slip is Operation with one plausible slip, *)
(* kept to show that a property notices it; the specification uses none.   *)
(*                                                                         *)
(* The users table is a constant here: the notes service only reads it     *)
(* and rows are never deleted from it.                                     *)
(***************************************************************************)
EXTENDS Naturals, Sequences, FiniteSets

CONSTANTS
    Users,         \* ids of the users table
    Strangers,     \* ids a request can name that the users table lacks
    Actors,        \* the users who send requests
    Notes,         \* pool of note ids (uuids)
    Tokens,        \* pool of public share tokens (random)
    Bodies,        \* title and Markdown of a note, as one payload
    Untitled,      \* a payload whose title is empty
    MentionLists,  \* values of mentionedUserIds
    Requests,      \* slots for handler tasks in flight
    Ops,           \* the endpoints clients call
    Faults,        \* may statements fail and clients disconnect?
    MaxVersion,    \* bound on versions: If-Match stays below it
    Absent,        \* no row
    NoToken,       \* no public share
    NoRequest      \* an idle slot

AllOps == {"create", "get", "update", "delete", "share", "revoke",
           "publish", "unpublish", "readLink"}
OwnerOps == {"delete", "share", "revoke", "publish", "unpublish"}

Versions == 1..MaxVersion
Row == [owner : Users, body : Bodies, version : Versions]

ASSUME UsersAssumption == Actors \subseteq Users /\ Users \cap Strangers = {}
ASSUME OpsAssumption == Ops \subseteq AllOps /\ Faults \in BOOLEAN
ASSUME VersionAssumption == MaxVersion \in Nat \ {0}
ASSUME MentionAssumption == MentionLists \subseteq Seq(Users \cup Strangers)
ASSUME AbsenceAssumption ==
    /\ Absent \notin Row
    /\ NoToken \notin Tokens
    /\ Untitled \notin Bodies

(***************************************************************************)
(* Requests, after routing, authentication and body decoding.  A uuid or   *)
(* token a handler generates is drawn when its request arrives: drawing it *)
(* later in the handler reads and writes nothing.                          *)
(***************************************************************************)
Permission == {"read", "edit"}

CreatesOf(bodies) == [op : {"create"}, actor : Actors, note : Notes,
                      body : bodies, mentions : MentionLists]
UpdatesOf(bodies) == [op : {"update"}, actor : Actors, note : Notes,
                      body : bodies, mentions : MentionLists,
                      expected : 1..(MaxVersion - 1)]
Creates    == CreatesOf(Bodies)
Updates    == UpdatesOf(Bodies)
UntitledSaves == CreatesOf({Untitled}) \cup UpdatesOf({Untitled})
Gets       == [op : {"get"}, actor : Actors, note : Notes]
Deletes    == [op : {"delete"}, actor : Actors, note : Notes]
Sharings   == [op : {"share"}, actor : Actors, note : Notes,
               target : Users \cup Strangers, permission : Permission]
Revokes    == [op : {"revoke"}, actor : Actors, note : Notes, target : Users]
Publishes  == [op : {"publish"}, actor : Actors, note : Notes, token : Tokens]
Unpublishes == [op : {"unpublish"}, actor : Actors, note : Notes]
LinkReads  == [op : {"readLink"}, token : Tokens]

OwnerRequests == Deletes \cup Sharings \cup Revokes \cup Publishes
                         \cup Unpublishes
NoteRequests == Gets \cup Updates \cup OwnerRequests
Saves == Creates \cup Updates
Request == Creates \cup NoteRequests \cup LinkReads \cup UntitledSaves

VARIABLES
    notes,      \* table notes: id -> row
    shares,     \* table note_shares: (note, user) -> permission, or "none"
    links,      \* table note_public_shares: note -> token
    mentions,   \* table note_mentions: set of (note, user)
    minted,     \* the uuids and tokens drawn so far
    mails,      \* notification mails handed to SMTP, counted up to MailCap
    task        \* the handler task of each slot

tables == <<notes, shares, links, mentions>>
vars == <<notes, shares, links, mentions, minted, mails, task>>

\* The statement a handler awaits, with the requests that reach it.
Awaited == [
    idle |-> {NoRequest},     done |-> Request,
    load |-> NoteRequests,    grant |-> Gets \cup Updates,
    update |-> Updates,       write |-> Updates,     reread |-> Updates,
    insert |-> Creates,       record |-> Saves,      notify |-> Saves,
    delete |-> Deletes,       share |-> Sharings,    upsert |-> Sharings,
    tell |-> Sharings,        revoke |-> Revokes,    publish |-> Publishes,
    unpublish |-> Unpublishes, readLink |-> LinkReads]
Labels == DOMAIN Awaited
Statuses == {"none", "ok", "conflict", "invalid", "forbidden", "notFound",
             "internal"}

\* Bound: one mail and "more than one" are all the properties tell apart.
MailCap == 2
MailKinds == {"mention", "share"}

(***************************************************************************)
(* The locals of a handler: what it was asked, the mentions it found       *)
(* already recorded, its place in the mention list, whether its UPDATE     *)
(* affected a row, the note it holds, and its answer.                      *)
(***************************************************************************)
Task == [pc : Labels, req : Request \cup {NoRequest}, known : SUBSET Users,
         next : Nat, applied : BOOLEAN, copy : Row \cup {Absent},
         answer : Statuses]

IdleTask == [pc |-> "idle", req |-> NoRequest, known |-> {}, next |-> 0,
             applied |-> FALSE, copy |-> Absent, answer |-> "none"]

Live(n) == notes[n] # Absent

TypeOK ==
    /\ notes \in [Notes -> Row \cup {Absent}]
    /\ shares \in [Notes -> [Users -> Permission \cup {"none"}]]
    /\ links \in [Notes -> Tokens \cup {NoToken}]
    /\ mentions \subseteq Notes \X Users
    /\ minted \subseteq Notes \cup Tokens
    /\ mails \in [MailKinds \X Notes \X Users -> 0..MailCap]
    /\ task \in [Requests -> Task]
    /\ \A r \in Requests :
           /\ task[r].req \in Awaited[task[r].pc]
           /\ task[r].pc \in {"record", "notify"} =>
                  task[r].next \in 1..Len(task[r].req.mentions)

Init ==
    /\ notes = [n \in Notes |-> Absent]
    /\ shares = [n \in Notes |-> [u \in Users |-> "none"]]
    /\ links = [n \in Notes |-> NoToken]
    /\ mentions = {}
    /\ minted = {}
    /\ mails = [m \in MailKinds \X Notes \X Users |-> 0]
    /\ task = [r \in Requests |-> IdleTask]

-----------------------------------------------------------------------------
(* Moves of a task. *)

At(r, label) == task[r].pc = label
Goto(r, label) == task' = [task EXCEPT ![r].pc = label]

Answer(r, status, row) ==
    task' = [task EXCEPT ![r].pc = "done", ![r].answer = status,
                         ![r].copy = row]

EnterMentions_MailsFirst(r, row) ==
    IF task[r].req.mentions = <<>>
    THEN Answer(r, "ok", row)
    ELSE task' = [task EXCEPT ![r].pc = "notify", ![r].next = 1,
                              ![r].copy = row]
\* notify_mentions: nothing to do for an empty list, otherwise the INSERTs.
EnterMentions(r, row) ==
    IF task[r].req.mentions = <<>>
    THEN Answer(r, "ok", row)
    ELSE task' = [task EXCEPT ![r].pc = "record", ![r].next = 1,
                              ![r].copy = row]

FirstLabel_AnyoneShares(q) ==
    CASE q.op = "create" -> "insert"
      [] q.op \in {"readLink", "share"} -> q.op
      [] OTHER -> "load"
FirstLabel(q) ==
    CASE q.op = "create" -> "insert"
      [] q.op = "readLink" -> "readLink"
      [] OTHER -> "load"

Drawn_OldTokens(q) == IF q.op = "create" THEN {q.note} ELSE {}
\* The ids a request draws, and the ids its client must have been given.
Drawn(q) ==
    CASE q.op = "create" -> {q.note}
      [] q.op = "publish" -> {q.token}
      [] OTHER -> {}
Quoted(q) ==
    CASE q.op = "create" -> {}
      [] q.op = "readLink" -> {q.token}
      [] OTHER -> {q.note}

-----------------------------------------------------------------------------
(* The life of a request. *)

Receive(r, q) ==
    /\ At(r, "idle")
    /\ Drawn(q) \cap minted = {}
    /\ Quoted(q) \subseteq minted
    /\ minted' = minted \cup Drawn(q)
    /\ task' = [task EXCEPT ![r] =
           IF q \in UntitledSaves
           THEN [IdleTask EXCEPT !.req = q, !.pc = "done", !.answer = "invalid"]
           ELSE [IdleTask EXCEPT !.req = q, !.pc = FirstLabel(q)]]
    /\ UNCHANGED <<tables, mails>>

\* The response leaves the server; the slot is free again.
Deliver(r) ==
    /\ At(r, "done")
    /\ task' = [task EXCEPT ![r] = IdleTask]
    /\ UNCHANGED <<tables, minted, mails>>

\* A dropped connection, or the end of the process, drops the handler where
\* it awaits.  What it has committed stays.
Disconnect(r) ==
    /\ Faults
    /\ ~At(r, "idle")
    /\ task' = [task EXCEPT ![r] = IdleTask]
    /\ UNCHANGED <<tables, minted, mails>>

-----------------------------------------------------------------------------
(* get_by_id, and the authorization that each handler derives from it. *)

LoadNote(r) ==
    LET q == task[r].req
        row == notes[q.note]
    IN  /\ At(r, "load")
        /\ \/ /\ row = Absent
              /\ Answer(r, "notFound", Absent)
           \/ /\ row # Absent
              /\ q.op \in OwnerOps
              /\ IF row.owner # q.actor THEN Answer(r, "forbidden", Absent)
                 ELSE IF q.op = "share" /\ q.target = q.actor
                      THEN Answer(r, "invalid", Absent)
                      ELSE Goto(r, q.op)
           \/ /\ row # Absent
              /\ q.op \notin OwnerOps
              /\ row.owner = q.actor
              /\ IF q.op = "get" THEN Answer(r, "ok", row) ELSE Goto(r, "update")
           \/ /\ row # Absent
              /\ q.op \notin OwnerOps
              /\ row.owner # q.actor
              /\ task' = [task EXCEPT ![r].pc = "grant", ![r].copy = row]
        /\ UNCHANGED <<tables, minted, mails>>

LookupGrant_AnyShare(r) ==
    LET q == task[r].req
    IN  /\ At(r, "grant")
        /\ IF shares[q.note][q.actor] = "none" THEN Answer(r, "notFound", Absent)
           ELSE IF q.op = "get" THEN Answer(r, "ok", task[r].copy)
           ELSE task' = [task EXCEPT ![r].pc = "update", ![r].copy = Absent]
        /\ UNCHANGED <<tables, minted, mails>>

\* Service::get for someone who is not the owner, and update's check of it.
LookupGrant(r) ==
    LET q == task[r].req
        permission == shares[q.note][q.actor]
    IN  /\ At(r, "grant")
        /\ \/ /\ permission = "none"
              /\ Answer(r, "notFound", Absent)
           \/ /\ permission # "none"
              /\ q.op = "get"
              /\ Answer(r, "ok", task[r].copy)
           \/ /\ permission = "read"
              /\ q.op = "update"
              /\ Answer(r, "forbidden", Absent)
           \/ /\ permission = "edit"
              /\ q.op = "update"
              /\ task' = [task EXCEPT ![r].pc = "update", ![r].copy = Absent]
        /\ UNCHANGED <<tables, minted, mails>>

-----------------------------------------------------------------------------
(* Saving a note: update, create, and the mentions both record. *)

ExistingMentions(r) ==
    LET n == task[r].req.note
    IN  /\ At(r, "update")
        /\ task' = [task EXCEPT
               ![r].pc = "write",
               ![r].known = {u \in Users : <<n, u>> \in mentions}]
        /\ UNCHANGED <<tables, minted, mails>>

Matches_AnyVersion(q) == Live(q.note)
\* UPDATE notes ... WHERE id = ? AND version = ?
Matches(q) == Live(q.note) /\ notes[q.note].version = q.expected

WriteNote_SameVersion(r) ==
    LET q == task[r].req
    IN  /\ At(r, "write")
        /\ task' = [task EXCEPT ![r].pc = "reread", ![r].applied = Matches(q)]
        /\ notes' = IF Matches(q) THEN [notes EXCEPT ![q.note].body = q.body]
                    ELSE notes
        /\ UNCHANGED <<shares, links, mentions, minted, mails>>

WriteNote(r) ==
    LET q == task[r].req
        row == notes[q.note]
    IN  /\ At(r, "write")
        /\ task' = [task EXCEPT ![r].pc = "reread", ![r].applied = Matches(q)]
        /\ notes' = IF Matches(q)
                    THEN [notes EXCEPT ![q.note] =
                             [owner |-> row.owner, body |-> q.body,
                              version |-> row.version + 1]]
                    ELSE notes
        /\ UNCHANGED <<shares, links, mentions, minted, mails>>

Reread_Unchecked(r) ==
    LET row == notes[task[r].req.note]
    IN  /\ At(r, "reread")
        /\ IF row = Absent THEN Answer(r, "notFound", Absent)
           ELSE EnterMentions(r, row)
        /\ UNCHANGED <<tables, minted, mails>>

Reread_TriesAgain(r) ==
    LET row == notes[task[r].req.note]
    IN  /\ At(r, "reread")
        /\ IF row = Absent THEN Answer(r, "notFound", Absent)
           ELSE IF ~task[r].applied THEN Goto(r, "write")
           ELSE EnterMentions(r, row)
        /\ UNCHANGED <<tables, minted, mails>>

\* The SELECT that follows the UPDATE, and only then the look at `affected`.
Reread(r) ==
    LET row == notes[task[r].req.note]
    IN  /\ At(r, "reread")
        /\ IF row = Absent THEN Answer(r, "notFound", Absent)
           ELSE IF ~task[r].applied THEN Answer(r, "conflict", row)
           ELSE EnterMentions(r, row)
        /\ UNCHANGED <<tables, minted, mails>>

InsertNote(r) ==
    LET q == task[r].req
        row == [owner |-> q.actor, body |-> q.body, version |-> 1]
    IN  /\ At(r, "insert")
        /\ notes' = [notes EXCEPT ![q.note] = row]
        /\ EnterMentions(r, row)
        /\ UNCHANGED <<shares, links, mentions, minted, mails>>

\* One INSERT INTO note_mentions ... ON CONFLICT DO NOTHING.  The foreign
\* keys refuse an unknown user and a deleted note.
RecordMention(r) ==
    LET q == task[r].req
        uid == q.mentions[task[r].next]
        last == task[r].next = Len(q.mentions)
    IN  /\ At(r, "record")
        /\ IF uid \in Users /\ Live(q.note)
           THEN /\ mentions' = mentions \cup {<<q.note, uid>>}
                /\ task' = [task EXCEPT
                       ![r].pc = IF last THEN "notify" ELSE "record",
                       ![r].next = IF last THEN 1 ELSE @ + 1]
           ELSE /\ Answer(r, "internal", Absent)
                /\ UNCHANGED mentions
        /\ UNCHANGED <<notes, shares, links, minted, mails>>

Posted(kind, n, u) ==
    [mails EXCEPT ![<<kind, n, u>>] = IF @ = MailCap THEN @ ELSE @ + 1]

\* notify_mentions' second loop, one user at a time: best-effort mail to
\* those who are new.  The lookup of a mentioned user is allowed to fail.
NotifyMention(r) ==
    LET q == task[r].req
        uid == q.mentions[task[r].next]
        skip == uid \in task[r].known \/ uid = q.actor
    IN  /\ At(r, "notify")
        /\ \/ /\ skip \/ Faults
              /\ UNCHANGED mails
           \/ /\ ~skip
              /\ mails' = Posted("mention", q.note, uid)
        /\ IF task[r].next = Len(q.mentions)
           THEN Answer(r, "ok", task[r].copy)
           ELSE task' = [task EXCEPT ![r].next = @ + 1]
        /\ UNCHANGED <<tables, minted>>

-----------------------------------------------------------------------------
(* The owner's operations, after require_owner. *)

DeleteNote_NoCascade(r) ==
    LET n == task[r].req.note
    IN  /\ At(r, "delete")
        /\ Answer(r, IF Live(n) THEN "ok" ELSE "notFound", Absent)
        /\ notes' = [notes EXCEPT ![n] = Absent]
        /\ UNCHANGED <<shares, links, mentions, minted, mails>>

\* DELETE FROM notes; the foreign keys cascade to the three other tables.
DeleteNote(r) ==
    LET n == task[r].req.note
    IN  /\ At(r, "delete")
        /\ Answer(r, IF Live(n) THEN "ok" ELSE "notFound", Absent)
        /\ notes' = [notes EXCEPT ![n] = Absent]
        /\ shares' = [shares EXCEPT ![n] = [u \in Users |-> "none"]]
        /\ links' = [links EXCEPT ![n] = NoToken]
        /\ mentions' = {m \in mentions : m[1] # n}
        /\ UNCHANGED <<minted, mails>>

\* users.get_by_id(target): any error becomes "unknown user".
LookupTarget(r) ==
    /\ At(r, "share")
    /\ \/ /\ task[r].req.target \in Users
          /\ Goto(r, "upsert")
       \/ /\ task[r].req.target \in Strangers \/ Faults
          /\ Answer(r, "invalid", Absent)
    /\ UNCHANGED <<tables, minted, mails>>

UpsertShare(r) ==
    LET q == task[r].req
    IN  /\ At(r, "upsert")
        /\ IF Live(q.note)
           THEN /\ shares' = [shares EXCEPT ![q.note][q.target] = q.permission]
                /\ Goto(r, "tell")
           ELSE /\ Answer(r, "internal", Absent)
                /\ UNCHANGED shares
        /\ UNCHANGED <<notes, links, mentions, minted, mails>>

\* The mail about a share goes out on every share request, new or changed.
TellShare(r) ==
    LET q == task[r].req
    IN  /\ At(r, "tell")
        /\ mails' = Posted("share", q.note, q.target)
        /\ Answer(r, "ok", Absent)
        /\ UNCHANGED <<tables, minted>>

DeleteShare(r) ==
    LET q == task[r].req
        found == shares[q.note][q.target] # "none"
    IN  /\ At(r, "revoke")
        /\ Answer(r, IF found THEN "ok" ELSE "notFound", Absent)
        /\ shares' = [shares EXCEPT ![q.note][q.target] = "none"]
        /\ UNCHANGED <<notes, links, mentions, minted, mails>>

UpsertLink(r) ==
    LET q == task[r].req
    IN  /\ At(r, "publish")
        /\ IF Live(q.note)
           THEN /\ links' = [links EXCEPT ![q.note] = q.token]
                /\ Answer(r, "ok", Absent)
           ELSE /\ Answer(r, "internal", Absent)
                /\ UNCHANGED links
        /\ UNCHANGED <<notes, shares, mentions, minted, mails>>

DeleteLink(r) ==
    LET n == task[r].req.note
    IN  /\ At(r, "unpublish")
        /\ Answer(r, IF links[n] # NoToken THEN "ok" ELSE "notFound", Absent)
        /\ links' = [links EXCEPT ![n] = NoToken]
        /\ UNCHANGED <<notes, shares, mentions, minted, mails>>

\* GET /api/public/notes/{token}: one SELECT joining the share and its note.
ReadLink(r) ==
    LET t == task[r].req.token
    IN  /\ At(r, "readLink")
        /\ \/ \E n \in Notes : /\ links[n] = t
                               /\ Live(n)
                               /\ Answer(r, "ok", notes[n])
           \/ /\ \A n \in Notes : links[n] = t => ~Live(n)
              /\ Answer(r, "notFound", Absent)
        /\ UNCHANGED <<tables, minted, mails>>

-----------------------------------------------------------------------------
\* A statement fails in the driver.  The handlers that swallow the error
\* (LookupTarget, NotifyMention after its first lookup) do so themselves.
Fault(r) ==
    /\ Faults
    /\ task[r].pc \notin {"idle", "done", "share"}
    /\ At(r, "notify") => task[r].next = 1
    /\ Answer(r, "internal", Absent)
    /\ UNCHANGED <<tables, minted, mails>>

Step(r) ==
    \/ LoadNote(r) \/ LookupGrant(r)
    \/ ExistingMentions(r) \/ WriteNote(r) \/ Reread(r) \/ InsertNote(r)
    \/ RecordMention(r) \/ NotifyMention(r)
    \/ DeleteNote(r) \/ LookupTarget(r) \/ UpsertShare(r) \/ TellShare(r)
    \/ DeleteShare(r) \/ UpsertLink(r) \/ DeleteLink(r) \/ ReadLink(r)

Next ==
    \E r \in Requests :
        \/ \E q \in Request : q.op \in Ops /\ Receive(r, q)
        \/ Step(r)
        \/ Fault(r)
        \/ Deliver(r)
        \/ Disconnect(r)

\* tokio polls every ready task and no lock is held across an await, so a
\* handler that can take its next step eventually does.
Fairness == \A r \in Requests : WF_vars(Step(r))

Spec == Init /\ [][Next]_vars
FairSpec == Spec /\ Fairness

-----------------------------------------------------------------------------
(* Properties. *)

\* A deleted note leaves no share, link or mention behind, and none is ever
\* written for it: not by a handler that checked ownership before the
\* deletion and writes after it (require_owner, then upsert_share).
NoOrphans ==
    \A n \in Notes : ~Live(n) =>
        /\ \A u \in Users : shares[n][u] = "none" /\ <<n, u>> \notin mentions
        /\ links[n] = NoToken

\* The note a handler holds is about the note its request names.
Holds(r, n) ==
    /\ ~At(r, "idle")
    /\ task[r].req.op # "readLink"
    /\ task[r].req.note = n
    /\ task[r].copy # Absent

\* A version number stands for one body: any two handlers, and the table,
\* that know a note at the same version know the same text.  If-Match would
\* mean nothing otherwise (ADR 0008).
SameVersionSameBody ==
    \A n \in Notes : \A r \in Requests : Holds(r, n) =>
        /\ Live(n) => /\ task[r].copy.version <= notes[n].version
                      /\ task[r].copy.version = notes[n].version =>
                             task[r].copy = notes[n]
        /\ \A s \in Requests :
               Holds(s, n) /\ task[r].copy.version = task[s].copy.version =>
                   task[r].copy = task[s].copy

\* Two saves based on the same version of a note are never both applied.
OneSavePerVersion ==
    \A r, s \in Requests :
        r # s /\ task[r].applied /\ task[s].applied
            /\ task[r].req.note = task[s].req.note
        => task[r].req.expected # task[s].req.expected

\* A save that is answered 200 reports a version past the one it was based
\* on, and if it reports the very next one, the body is the one it sent:
\* it may be answered with a later save, never with an earlier one.
OkReportsTheSave ==
    \A r \in Requests :
        At(r, "done") /\ task[r].answer = "ok" /\ task[r].req.op = "update" =>
            /\ task[r].copy.version > task[r].req.expected
            /\ task[r].copy.version = task[r].req.expected + 1 =>
                   task[r].copy.body = task[r].req.body

\* No owner is ever in the share list of their own note, whatever the races
\* of sharing with deletion ("cannot share a note with yourself").
OwnerIsNoGuest ==
    \A n \in Notes : Live(n) => shares[n][notes[n].owner] = "none"

\* Whoever was mailed about a mention in a note that still exists is on
\* record as mentioned, so that the next save does not mail them again.
MailedIsRecorded ==
    \A n \in Notes, u \in Users :
        Live(n) /\ mails[<<"mention", n, u>>] > 0 => <<n, u>> \in mentions

\* service.rs, on a mention: "Unknown/invalid mention target: skip rather
\* than fail the save."
SaveNeverFails ==
    \A r \in Requests :
        At(r, "done") /\ task[r].answer = "internal" =>
            task[r].req.op \notin {"create", "update"}

\* Every request is answered.
EveryRequestAnswered ==
    \A r \in Requests : ~At(r, "idle") ~> task[r].pc \in {"done", "idle"}
=============================================================================
