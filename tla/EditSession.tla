----------------------------- MODULE EditSession -----------------------------
(***************************************************************************)
(* Browser tabs on the note editor of frontend-react                       *)
(* (pages/NoteEditorPage.tsx, api/client.ts), composed with the handlers   *)
(* of NotesService: a tab sends a request by the service's Receive and     *)
(* takes the response by its Deliver, in any order.                        *)
(*                                                                         *)
(* /notes/new and /notes/:id render the same component at the same place   *)
(* of the tree, so React keeps its state when the router moves between     *)
(* them (the "New note" link, the back and forward buttons); it is dropped *)
(* when the tab goes to another page.  Tabs show notes their user may      *)
(* edit: a read-only page sends nothing but its load.                      *)
(*                                                                         *)
(* Two fields are history, which no action reads: origin, the note the     *)
(* draft comes from; basis, the newest version of it whose text the user   *)
(* was shown or wrote.                                                     *)
(*                                                                         *)
(* A definition named Operation_Slip is Operation with one plausible slip, *)
(* kept to show that a property notices it; the specification uses none.   *)
(***************************************************************************)
EXTENDS NotesService

CONSTANTS
    Tabs,     \* browser tabs
    UserOf,   \* the user signed in at each tab
    Wander,   \* may a tab move between editor pages?
    NoTab,    \* a request nobody waits for
    NoNote    \* no note in a page

ASSUME TabAssumption == UserOf \in [Tabs -> Actors] /\ NoTab \notin Tabs
ASSUME RouteAssumption == Wander \in BOOLEAN /\ {"away", "new"} \cap Notes = {}

VARIABLES
    page,     \* the component state of each tab
    client    \* who waits for the response of each slot

evars == <<vars, page, client>>

Snapshot == [id : Notes, row : Row]
Draft == Bodies \cup {Untitled}
Page == [route : Notes \cup {"away", "new"},
         note : Snapshot \cup {NoNote}, draft : Draft,
         wanted : SUBSET Notes, loading : BOOLEAN, saving : BOOLEAN,
         failed : BOOLEAN, conflict : Snapshot \cup {NoNote},
         basis : Nat, origin : Notes \cup {"new"}]
Client == [tab : Tabs \cup {NoTab}, basis : Nat, origin : Notes \cup {"new"}]

Closed == [route |-> "away", note |-> NoNote, draft |-> Untitled,
           wanted |-> {}, loading |-> FALSE, saving |-> FALSE,
           failed |-> FALSE, conflict |-> NoNote,
           basis |-> 0, origin |-> "new"]
Nobody == [tab |-> NoTab, basis |-> 0, origin |-> "new"]

EditTypeOK ==
    /\ TypeOK
    /\ page \in [Tabs -> Page]
    /\ client \in [Requests -> Client]

EditInit ==
    /\ Init
    /\ page = [t \in Tabs |-> Closed]
    /\ client = [r \in Requests |-> Nobody]

Waiting(t) == {r \in Requests : client[r].tab = t}
\* Neither "Loading..." nor the error message replaces the inputs.
Usable(t) == page[t].route # "away" /\ ~page[t].loading /\ ~page[t].failed

\* Once a page is left, nobody is there for a load or an update; only the
\* continuations of create and delete go on, because they navigate.
Forget(t, c) ==
    [r \in Requests |-> IF c[r].tab = t /\ task[r].req.op \in {"get", "update"}
                        THEN Nobody ELSE c[r]]

Send(t, q) ==
    \E r \in Requests :
        /\ Receive(r, q)
        /\ client' = [client EXCEPT ![r] =
               [tab |-> t, basis |-> page[t].basis, origin |-> page[t].origin]]

-----------------------------------------------------------------------------
(* What the user does. *)

\* A note whose address the user can have, from a list or an old link.
HasAddress(n) ==
    n \in minted /\ \A r \in Requests : At(r, "insert") => task[r].req.note # n

\* Mounts the component.  A tab that left comes back when nothing it sent
\* before is in flight.
Open(t, n) ==
    /\ page[t].route = "away" /\ Waiting(t) = {}
    /\ HasAddress(n)
    /\ page' = [page EXCEPT ![t] =
           [Closed EXCEPT !.route = n, !.wanted = {n}, !.loading = TRUE]]
    /\ UNCHANGED <<vars, client>>

OpenNew(t) ==
    /\ page[t].route = "away" /\ Waiting(t) = {}
    /\ page' = [page EXCEPT ![t] = [Closed EXCEPT !.route = "new"]]
    /\ UNCHANGED <<vars, client>>

\* The router moves to another editor page; the state stays.
Visit(t, route) ==
    LET p == page[t]
    IN  /\ Wander
        /\ p.route # "away" /\ p.route # route
        /\ page' = [page EXCEPT ![t] =
               IF route = "new" THEN [p EXCEPT !.route = "new"]
               ELSE [p EXCEPT !.route = route, !.loading = TRUE,
                              !.wanted = p.wanted \cup {route}]]
        /\ UNCHANGED <<vars, client>>

Leave(t) ==
    /\ page[t].route # "away"
    /\ page' = [page EXCEPT ![t] = Closed]
    /\ client' = Forget(t, client)
    /\ UNCHANGED vars

Type(t, b) ==
    /\ Usable(t)
    /\ page' = [page EXCEPT ![t].draft = b]
    /\ UNCHANGED <<vars, client>>

\* handleSave up to its await.  The request is for the note in the state,
\* at the version in the state; only its kind comes from the route.
SaveRequest(t) ==
    IF page[t].route = "new"
    THEN {q \in Creates : q.actor = UserOf[t] /\ q.body = page[t].draft}
    ELSE IF page[t].note = NoNote THEN {}
    ELSE {q \in Updates : /\ q.actor = UserOf[t] /\ q.body = page[t].draft
                          /\ q.note = page[t].note.id
                          /\ q.expected = page[t].note.row.version}

ClickSave(t) ==
    /\ Usable(t) /\ ~page[t].saving /\ page[t].draft # Untitled
    /\ \E q \in SaveRequest(t) : Send(t, q)
    /\ page' = [page EXCEPT ![t].saving = TRUE, ![t].conflict = NoNote]

ClickDelete(t) ==
    /\ Usable(t) /\ page[t].note # NoNote
    /\ page[t].note.row.owner = UserOf[t]
    /\ Send(t, [op |-> "delete", actor |-> UserOf[t], note |-> page[t].note.id])
    /\ UNCHANGED page

\* setNote, setTitle and setContent, as after a load and in reloadLatest.
Filled(p, snapshot) ==
    [p EXCEPT !.note = snapshot, !.draft = snapshot.row.body,
              !.basis = snapshot.row.version, !.origin = snapshot.id]

ReloadLatest_KeepsBanner(t) ==
    /\ Usable(t) /\ page[t].conflict # NoNote
    /\ page' = [page EXCEPT ![t] = Filled(@, page[t].conflict)]
    /\ UNCHANGED <<vars, client>>
ReloadLatest(t) ==
    /\ Usable(t) /\ page[t].conflict # NoNote
    /\ page' = [page EXCEPT ![t] =
           [Filled(@, page[t].conflict) EXCEPT !.conflict = NoNote]]
    /\ UNCHANGED <<vars, client>>

-----------------------------------------------------------------------------
(* What the page does by itself. *)

\* The effect on [id, isNew]: nothing cancels a load that is in flight.
Fetch(t) ==
    \E n \in page[t].wanted :
        /\ Send(t, [op |-> "get", actor |-> UserOf[t], note |-> n])
        /\ page' = [page EXCEPT ![t].wanted = @ \ {n}]

\* navigate(`/notes/${created.id}`): from a page that was left, a new mount.
Navigated(p, n) ==
    [(IF p.route = "away" THEN Closed ELSE p)
        EXCEPT !.route = n, !.wanted = @ \cup {n}, !.loading = TRUE]

\* The continuation of each call, given the answer; every error but the 409
\* ends in the error message.
AfterLoad(p, q, answer, row) ==
    IF answer = "ok"
    THEN [Filled(p, [id |-> q.note, row |-> row]) EXCEPT !.loading = FALSE]
    ELSE [p EXCEPT !.failed = TRUE, !.loading = FALSE]

AfterCreate_KeepsSaving(p, q, answer) ==
    CASE answer = "ok" -> Navigated(p, q.note)
      [] answer # "ok" /\ p.route = "away" -> p
      [] OTHER -> [p EXCEPT !.saving = FALSE, !.failed = TRUE]
AfterCreate(p, q, answer) ==
    CASE answer = "ok" -> [Navigated(p, q.note) EXCEPT !.saving = FALSE]
      [] answer # "ok" /\ p.route = "away" -> p
      [] OTHER -> [p EXCEPT !.saving = FALSE, !.failed = TRUE]

\* setNote(updated) takes the version and leaves the draft as it is.
Updated_OwnText(p, q, row) ==
    [p EXCEPT !.note = [id |-> q.note, row |-> [row EXCEPT !.body = q.body]]]
Updated(p, q, row) ==
    [p EXCEPT !.note = [id |-> q.note, row |-> row],
              !.basis = IF p.origin = q.note /\ @ <= q.expected
                        THEN q.expected + 1 ELSE @]

\* setConflict(err.currentNote)
Refused_AdoptsVersion(p, snapshot) ==
    [p EXCEPT !.conflict = snapshot, !.note = snapshot]
Refused(p, snapshot) == [p EXCEPT !.conflict = snapshot]

AfterUpdate_AnyRefusal(p, q, answer, row) ==
    LET settled == [p EXCEPT !.saving = FALSE]
    IN  IF answer = "ok" THEN Updated(settled, q, row)
        ELSE Refused(settled, [id |-> q.note, row |-> row])
AfterUpdate(p, q, answer, row) ==
    LET settled == [p EXCEPT !.saving = FALSE]
    IN  CASE answer = "ok" -> Updated(settled, q, row)
          [] answer = "conflict" ->
                 Refused(settled, [id |-> q.note, row |-> row])
          [] OTHER -> [settled EXCEPT !.failed = TRUE]

AfterDelete(p, answer) == IF answer = "ok" THEN Closed ELSE p

Continued(p, q, answer, row) ==
    CASE q.op = "get" -> AfterLoad(p, q, answer, row)
      [] q.op = "create" -> AfterCreate(p, q, answer)
      [] q.op = "update" -> AfterUpdate(p, q, answer, row)
      [] q.op = "delete" -> AfterDelete(p, answer)

Resume(r, answer) ==
    LET t == client[r].tab
        served == [client EXCEPT ![r] = Nobody]
    IN  IF t = NoTab
        THEN UNCHANGED <<page, client>>
        ELSE /\ page' = [page EXCEPT ![t] =
                    Continued(@, task[r].req, answer, task[r].copy)]
             /\ client' = IF page'[t].route = "away" THEN Forget(t, served)
                          ELSE served

Reply(r) == Deliver(r) /\ Resume(r, task[r].answer)
\* fetch rejects: the connection broke before the response.
Lost(r) == Disconnect(r) /\ Resume(r, "internal")

-----------------------------------------------------------------------------

UserStep(t) ==
    \/ \E n \in Notes : Open(t, n)
    \/ OpenNew(t)
    \/ \E route \in {n \in Notes : HasAddress(n)} \cup {"new"} : Visit(t, route)
    \/ Leave(t)
    \/ \E b \in Bodies : Type(t, b)
    \/ ClickSave(t) \/ ClickDelete(t) \/ ReloadLatest(t)

ServerStep(r) == (Step(r) \/ Fault(r)) /\ UNCHANGED <<page, client>>

EditNext ==
    \/ \E t \in Tabs : UserStep(t) \/ Fetch(t)
    \/ \E r \in Requests : ServerStep(r) \/ Reply(r) \/ Lost(r)

\* Handlers run and responses arrive; users need do nothing.
EditFairness ==
    \A r \in Requests :
        /\ WF_evars(Step(r) /\ UNCHANGED <<page, client>>)
        /\ WF_evars(Reply(r))

EditSpec == EditInit /\ [][EditNext]_evars
FairEditSpec == EditSpec /\ EditFairness

-----------------------------------------------------------------------------
(* Properties. *)

\* Whatever order the responses come in, a page never holds a version with a
\* text that was not that version's, nor a version the note never had.
Known(t) == {page[t].note, page[t].conflict} \ {NoNote}
PagesKnowTheirVersions ==
    \A t \in Tabs : \A s \in Known(t) :
        /\ Live(s.id) => /\ s.row.version <= notes[s.id].version
                         /\ s.row.version = notes[s.id].version =>
                                s.row = notes[s.id]
        /\ \A u \in Tabs : \A z \in Known(u) :
               s.id = z.id /\ s.row.version = z.row.version => s.row = z.row

\* A text loaded from one note is never saved over another, although loads of
\* two notes can be in flight at once and their responses swap.
TextStaysInItsNote ==
    \A r \in Requests :
        client[r].tab # NoTab /\ task[r].req.op = "update" =>
            task[r].req.note = client[r].origin

\* The copy that the conflict banner offers is a later version than the one
\* the user edited, so that "Load the latest version" never goes back.
ConflictIsNewer ==
    \A t \in Tabs : page[t].conflict # NoNote =>
        /\ page[t].conflict.id = page[t].note.id
        /\ page[t].conflict.row.version > page[t].note.row.version

\* ADR 0008: "No silent data loss on concurrent edits."  A save that is
\* applied replaces a version whose text its author was shown or wrote.
NoSilentOverwrite ==
    \A r \in Requests :
        client[r].tab # NoTab /\ task[r].applied =>
            task[r].req.expected = client[r].basis

\* "Saving..." does not stay for ever.
SavingEnds == \A t \in Tabs : page[t].saving ~> ~page[t].saving
=============================================================================
