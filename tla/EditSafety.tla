----------------------------- MODULE EditSafety -----------------------------
(***************************************************************************)
(* The editor tabs of EditSession over the notes service, proved for any   *)
(* number of tabs, users, notes and requests in flight: what the pages     *)
(* know of a note and its versions is true, the conflict banner never      *)
(* offers an older text, and a save replaces what its author knew when the *)
(* server has one request at a time.                                       *)
(***************************************************************************)
EXTENDS EditSession, NotesSafety

PageTypes == page \in [Tabs -> Page] /\ client \in [Requests -> Client]

(* Whoever waits for a response made one of the editor's calls. *)
CallOps == {"get", "create", "update", "delete"}
CallsOK ==
    \A r \in Requests : client[r].tab # NoTab =>
        ~At(r, "idle") /\ task[r].req.op \in CallOps

(* A snapshot of a note is of a version that the note had, with its text. *)
FitsTable(s) ==
    Live(s.id) => /\ s.row.version <= notes[s.id].version
                  /\ s.row.version = notes[s.id].version => s.row = notes[s.id]
FitsHandlers(s) ==
    \A r \in Requests :
        Holds(r, s.id) /\ task[r].copy.version = s.row.version =>
            task[r].copy = s.row
TrueSnapshot(s) == HasAddress(s.id) /\ FitsTable(s) /\ FitsHandlers(s)
Agree(s, z) == s.id = z.id /\ s.row.version = z.row.version => s.row = z.row

PagesTellTheTruth == \A t \in Tabs : \A s \in Known(t) : TrueSnapshot(s)
PagesAgree ==
    \A t, u \in Tabs : \A s \in Known(t) : \A z \in Known(u) : Agree(s, z)

EInv == /\ Inv
        /\ PageTypes
        /\ CallsOK
        /\ AnswersWereRead
        /\ PagesTellTheTruth
        /\ PagesAgree

-----------------------------------------------------------------------------
(* Pages that stay on their note.  A page is orderly if it waits for one   *)
(* note at most and shows a conflict only beside the version it is about.  *)
Orderly(p) ==
    /\ p.wanted # {} => p.loading /\ p.wanted = {p.route}
    /\ p.loading => p.conflict = NoNote /\ p.route \in Notes
    /\ p.route = "away" => p = Closed
    /\ p.route = "new" => p.note = NoNote /\ p.conflict = NoNote
    /\ p.conflict # NoNote =>
           /\ p.conflict.id = p.note.id
           /\ p.conflict.row.version > p.note.row.version

(* Apart from deletions, a tab has one call out at a time, and only for    *)
(* what its page is at; the page is then as its save left it.              *)
AsSaved(p, q) ==
    /\ p.note # NoNote /\ p.conflict = NoNote
    /\ p.note.id = q.note
    /\ p.note.row.version = q.expected
Suits(p, q) ==
    \/ q.op = "get" /\ p.loading
    \/ /\ q.op = "create" /\ p.route \in {"new", "away"}
       /\ p.route = "new" => p.saving
    \/ /\ q.op = "update" /\ AsSaved(p, q)
       /\ p.saving /\ ~p.loading /\ p.route \in Notes

Calls(t) == {r \in Waiting(t) : task[r].req.op # "delete"}
OneCall(t) ==
    /\ \A r, s \in Calls(t) : r = s
    /\ \A r \in Calls(t) : Suits(page[t], task[r].req)
    /\ page[t].wanted # {} => Calls(t) = {}

(* A save is based on a version that the note had, and one that is refused *)
(* has seen a later one.                                                   *)
BasedOnThePast(r) ==
    LET q == task[r].req
    IN  /\ HasAddress(q.note)
        /\ Live(q.note) => q.expected <= notes[q.note].version
        /\ At(r, "reread") /\ ~task[r].applied /\ Live(q.note) =>
               q.expected < notes[q.note].version
        /\ At(r, "done") /\ task[r].answer = "conflict" =>
               q.expected < task[r].copy.version
SavesAreBased ==
    \A r \in Requests :
        client[r].tab # NoTab /\ task[r].req.op = "update" => BasedOnThePast(r)

SInv == /\ EInv
        /\ \A t \in Tabs : Orderly(page[t]) /\ OneCall(t)
        /\ SavesAreBased

-----------------------------------------------------------------------------
(* A server with one request at a time.  A page then knows what is in its  *)
(* inputs, and a save is answered with what it wrote.                      *)
Coherent(p) ==
    p.note # NoNote =>
        /\ p.origin = p.note.id
        /\ p.basis = p.note.row.version
DraftIsOfItsNote == \A t \in Tabs : Coherent(page[t])
SavesAreKnown ==
    \A r \in Requests : client[r].tab # NoTab /\ task[r].req.op = "update" =>
        /\ task[r].req.expected = client[r].basis
        /\ AsSaved(page[client[r].tab], task[r].req)
Undisturbed(r) ==
    LET q == task[r].req
    IN  /\ At(r, "reread") /\ task[r].applied /\ Live(q.note) =>
               notes[q.note].version = q.expected + 1
        /\ \/ task[r].pc \in {"record", "notify"}
           \/ At(r, "done") /\ task[r].answer = "ok"
           => (q.op = "update" => task[r].copy.version = q.expected + 1)
TInv == /\ EInv
        /\ DraftIsOfItsNote
        /\ SavesAreKnown
        /\ \A r \in Requests : Undisturbed(r)

-----------------------------------------------------------------------------
(* What a page becomes. *)
KnownOf(p) == {p.note, p.conflict} \ {NoNote}

LEMMA PageShape ==
    ASSUME NEW p \in Page
    PROVE  /\ p.route \in Notes \cup {"away", "new"}
           /\ p.note \in Snapshot \cup {NoNote} /\ p.draft \in Draft
           /\ p.wanted \in SUBSET Notes
           /\ p.conflict \in Snapshot \cup {NoNote}
           /\ p.basis \in Nat /\ p.origin \in Notes \cup {"new"}
           /\ KnownOf(p) \subseteq Snapshot
  BY DEF Page, KnownOf

LEMMA ClosedOK == Closed \in Page /\ KnownOf(Closed) = {}
  BY DEF Closed, Page, Draft, KnownOf

LEMMA SnapshotShape ==
    ASSUME NEW s \in Snapshot
    PROVE  /\ s.id \in Notes /\ s.row \in Row
           /\ s.row.owner \in Users /\ s.row.body \in Bodies
           /\ s.row.version \in Nat
  BY VersionAssumption DEF Snapshot, Row, Versions

LEMMA FilledOK ==
    ASSUME NEW p \in Page, NEW s \in Snapshot
    PROVE  LET f == Filled(p, s) IN
           /\ f \in Page
           /\ f.note = s /\ f.conflict = p.conflict
           /\ f.basis = s.row.version /\ f.origin = s.id
           /\ f.route = p.route /\ f.wanted = p.wanted
           /\ f.loading = p.loading /\ f.saving = p.saving
  BY SnapshotShape DEF Filled, Page, Draft

LEMMA NavigatedOK ==
    ASSUME NEW p \in Page, NEW n \in Notes
    PROVE  LET v == Navigated(p, n)
               o == IF p.route = "away" THEN Closed ELSE p
           IN  /\ v \in Page
               /\ v = [o EXCEPT !.route = n, !.wanted = o.wanted \cup {n},
                               !.loading = TRUE]
               /\ o \in Page
               /\ KnownOf(v) \subseteq KnownOf(p)
  <1> DEFINE o == IF p.route = "away" THEN Closed ELSE p
  <1>1. o \in Page /\ KnownOf(o) \subseteq KnownOf(p)
    BY ClosedOK
  <1>2. Navigated(p, n) = [o EXCEPT !.route = n, !.wanted = o.wanted \cup {n},
                                    !.loading = TRUE]
    BY DEF Navigated
  <1> HIDE DEF o
  <1> DEFINE w == o.wanted \cup {n}
  <1>a. w \in SUBSET Notes
    BY <1>1 DEF Page
  <1>b. Navigated(p, n) = [o EXCEPT !.route = n, !.wanted = w, !.loading = TRUE]
    BY <1>2
  <1> HIDE DEF w
  <1>3. /\ Navigated(p, n) \in Page
        /\ Navigated(p, n).note = o.note
        /\ Navigated(p, n).conflict = o.conflict
    BY <1>1, <1>a, <1>b DEF Page
  <1>4. KnownOf(Navigated(p, n)) = KnownOf(o)
    BY <1>3 DEF KnownOf
  <1> QED  BY <1>1, <1>2, <1>3, <1>4 DEF o

LEMMA CallShape ==
    ASSUME NEW q \in Request, q.op \in CallOps
    PROVE  /\ q.note \in Notes /\ q.actor \in Actors
           /\ q.op = "update" => q.expected \in Nat /\ q.expected + 1 \in Nat
  BY VersionAssumption
     DEF Request, CallOps, Creates, CreatesOf, Updates, UpdatesOf, UntitledSaves,
         NoteRequests, OwnerRequests, Gets, Deletes, Sharings, Revokes,
         Publishes, Unpublishes, LinkReads

LEMMA ContinuedOK ==
    ASSUME NEW p \in Page, NEW q \in Request, q.op \in CallOps,
           NEW answer, NEW row, Carries(q, answer, row)
    PROVE  LET c == Continued(p, q, answer, row) IN
           /\ c \in Page
           /\ KnownOf(c) \subseteq
                  KnownOf(p) \cup {s \in {[id |-> q.note, row |-> row]} :
                                     q.op \in {"get", "update"}}
  <1> DEFINE s == [id |-> q.note, row |-> row]
             c == Continued(p, q, answer, row)
  <1>0. q.note \in Notes /\ (row \in Row => s \in Snapshot)
    BY CallShape DEF Snapshot
  <1>1. CASE q.op = "get"
    <2>1. c = AfterLoad(p, q, answer, row)
      BY <1>1 DEF Continued
    <2>2. CASE answer = "ok"
      <3>1. s \in Snapshot /\ c = [Filled(p, s) EXCEPT !.loading = FALSE]
        BY <1>0, <1>1, <2>1, <2>2 DEF AfterLoad, Carries
      <3>2. Filled(p, s) \in Page /\ Filled(p, s).note = s
            /\ Filled(p, s).conflict = p.conflict
        BY <3>1, FilledOK
      <3>3. c \in Page /\ c.note = s /\ c.conflict = p.conflict
        BY <3>1, <3>2 DEF Page
      <3> QED  BY <1>1, <3>3 DEF KnownOf
    <2>3. CASE answer # "ok"
      BY <2>1, <2>3 DEF AfterLoad, Page, KnownOf
    <2> QED  BY <2>2, <2>3
  <1>2. CASE q.op = "create"
    <2>1. c = AfterCreate(p, q, answer)
      BY <1>2 DEF Continued
    <2>2. CASE answer = "ok"
      <3>1. c = [Navigated(p, q.note) EXCEPT !.saving = FALSE]
        BY <2>1, <2>2 DEF AfterCreate
      <3>2. Navigated(p, q.note) \in Page
            /\ KnownOf(Navigated(p, q.note)) \subseteq KnownOf(p)
        BY <1>0, NavigatedOK
      <3>3. c \in Page /\ KnownOf(c) = KnownOf(Navigated(p, q.note))
        BY <3>1, <3>2 DEF Page, KnownOf
      <3> QED  BY <3>2, <3>3
    <2>3. CASE answer # "ok"
      BY <2>1, <2>3 DEF AfterCreate, Page, KnownOf
    <2> QED  BY <2>2, <2>3
  <1>3. CASE q.op = "update"
    <2> DEFINE o == [p EXCEPT !.saving = FALSE]
    <2>1. o \in Page /\ o.note = p.note /\ o.conflict = p.conflict
          /\ q.expected + 1 \in Nat /\ o.basis \in Nat
      BY <1>3, CallShape DEF Page
    <2>2. CASE answer = "ok"
      <3> DEFINE b == IF o.origin = q.note /\ o.basis <= q.expected
                      THEN q.expected + 1 ELSE o.basis
      <3>1. c = [o EXCEPT !.note = s, !.basis = b]
        BY <1>3, <2>2 DEF Continued, AfterUpdate, Updated
      <3>2. b \in Nat /\ s \in Snapshot
        BY <1>0, <1>3, <2>1, <2>2 DEF Carries
      <3> HIDE DEF b, o
      <3>3. c \in Page /\ c.note = s /\ c.conflict = o.conflict
        BY <2>1, <3>1, <3>2 DEF Page
      <3> QED  BY <1>3, <2>1, <3>3 DEF KnownOf
    <2>3. CASE answer = "conflict"
      <3>1. c = [o EXCEPT !.conflict = s] /\ s \in Snapshot
        BY <1>0, <1>3, <2>3 DEF Continued, AfterUpdate, Refused, Carries
      <3> HIDE DEF o
      <3>2. c \in Page /\ c.note = o.note /\ c.conflict = s
        BY <2>1, <3>1 DEF Page
      <3> QED  BY <1>3, <2>1, <3>2 DEF KnownOf
    <2>4. CASE answer \notin {"ok", "conflict"}
      <3>1. c = [o EXCEPT !.failed = TRUE]
        BY <1>3, <2>4 DEF Continued, AfterUpdate
      <3> HIDE DEF o
      <3> QED  BY <2>1, <3>1 DEF Page, KnownOf
    <2> QED  BY <2>2, <2>3, <2>4
  <1>4. CASE q.op = "delete"
    BY <1>4, ClosedOK DEF Continued, AfterDelete
  <1> QED  BY <1>1, <1>2, <1>3, <1>4 DEF CallOps

-----------------------------------------------------------------------------
(* The steps, by what they do to the service. *)
Local(t) ==
    \/ \E n \in Notes : Open(t, n)
    \/ OpenNew(t)
    \/ \E route \in {n \in Notes : HasAddress(n)} \cup {"new"} : Visit(t, route)
    \/ Leave(t)
    \/ \E b \in Bodies : Type(t, b)
    \/ ReloadLatest(t)
Sends(t) == Fetch(t) \/ ClickSave(t) \/ ClickDelete(t)
Returned(r, answer) ==
    /\ \/ Deliver(r) /\ answer = task[r].answer
       \/ Disconnect(r) /\ answer = "internal"
    /\ Resume(r, answer)

LEMMA EditSteps ==
    ASSUME [EditNext]_evars
    PROVE  \/ UNCHANGED evars
           \/ \E t \in Tabs : Local(t) \/ Sends(t)
           \/ \E r \in Requests : ServerStep(r) \/ \E answer : Returned(r, answer)
  BY DEF EditNext, UserStep, Local, Sends, Reply, Lost, Returned

LEMMA ForgetOK ==
    ASSUME NEW t, NEW c \in [Requests -> Client]
    PROVE  /\ Forget(t, c) \in [Requests -> Client]
           /\ \A r \in Requests :
                  Forget(t, c)[r] =
                      IF c[r].tab = t /\ task[r].req.op \in {"get", "update"}
                      THEN Nobody ELSE c[r]
  BY DEF Forget, Client, Nobody

(* One page moves at a time, and learns nothing by itself. *)
LEMMA LocalEffect ==
    ASSUME PageTypes, NEW t \in Tabs, Local(t)
    PROVE  /\ UNCHANGED vars
           /\ \E p \in Page : /\ page' = [page EXCEPT ![t] = p]
                              /\ KnownOf(p) \subseteq KnownOf(page[t])
           /\ client' \in {client, Forget(t, client)}
  <1>0. page[t] \in Page
    BY DEF PageTypes
  <1> USE PageShape DEF KnownOf
  <1>1. ASSUME NEW n \in Notes, Open(t, n)
        PROVE  \E p \in Page : /\ page' = [page EXCEPT ![t] = p]
                               /\ KnownOf(p) \subseteq KnownOf(page[t])
    <2> DEFINE p == [Closed EXCEPT !.route = n, !.wanted = {n}, !.loading = TRUE]
    <2>1. p \in Page /\ p.note = Closed.note /\ p.conflict = Closed.conflict
      BY ClosedOK DEF Page
    <2> QED  BY <1>1, <2>1, ClosedOK DEF Open
  <1>2. ASSUME OpenNew(t)
        PROVE  \E p \in Page : /\ page' = [page EXCEPT ![t] = p]
                               /\ KnownOf(p) \subseteq KnownOf(page[t])
    <2> DEFINE p == [Closed EXCEPT !.route = "new"]
    <2>1. p \in Page /\ p.note = Closed.note /\ p.conflict = Closed.conflict
      BY ClosedOK DEF Page
    <2> QED  BY <1>2, <2>1, ClosedOK DEF OpenNew
  <1>3. ASSUME NEW route \in Notes \cup {"new"}, Visit(t, route)
        PROVE  \E p \in Page : /\ page' = [page EXCEPT ![t] = p]
                               /\ KnownOf(p) \subseteq KnownOf(page[t])
    <2>1. CASE route = "new"
      <3> DEFINE p == [page[t] EXCEPT !.route = "new"]
      <3>1. p \in Page /\ p.note = page[t].note /\ p.conflict = page[t].conflict
        BY <1>0 DEF Page
      <3>2. page' = [page EXCEPT ![t] = p]
        BY <1>3, <2>1 DEF Visit, PageTypes
      <3> QED  BY <3>1, <3>2
    <2>2. CASE route # "new"
      <3> DEFINE w == page[t].wanted \cup {route}
                 p == [page[t] EXCEPT !.route = route, !.wanted = w,
                                      !.loading = TRUE]
      <3>1. page' = [page EXCEPT ![t] = p]
        BY <1>3, <2>2 DEF Visit, PageTypes
      <3>2. w \in SUBSET Notes
        BY <1>0, <1>3, <2>2
      <3> HIDE DEF w
      <3>3. p \in Page /\ p.note = page[t].note /\ p.conflict = page[t].conflict
        BY <1>0, <1>3, <3>2 DEF Page
      <3> QED  BY <3>1, <3>3
    <2> QED  BY <2>1, <2>2
  <1>4. ASSUME Leave(t)
        PROVE  /\ page' = [page EXCEPT ![t] = Closed]
               /\ KnownOf(Closed) \subseteq KnownOf(page[t])
               /\ Closed \in Page
    BY <1>4, ClosedOK DEF Leave
  <1>5. ASSUME NEW b \in Bodies, Type(t, b)
        PROVE  \E p \in Page : /\ page' = [page EXCEPT ![t] = p]
                               /\ KnownOf(p) \subseteq KnownOf(page[t])
    <2> DEFINE p == [page[t] EXCEPT !.draft = b]
    <2>1. p \in Page /\ p.note = page[t].note /\ p.conflict = page[t].conflict
      BY <1>0 DEF Page, Draft
    <2> QED  BY <1>5, <2>1 DEF Type, PageTypes
  <1>6. ASSUME ReloadLatest(t)
        PROVE  \E p \in Page : /\ page' = [page EXCEPT ![t] = p]
                               /\ KnownOf(p) \subseteq KnownOf(page[t])
    <2> DEFINE f == Filled(page[t], page[t].conflict)
               p == [f EXCEPT !.conflict = NoNote]
    <2>1. page' = [page EXCEPT ![t] = p]
      BY <1>6 DEF ReloadLatest, PageTypes
    <2>2. f \in Page /\ f.note = page[t].conflict
      BY <1>0, <1>6, FilledOK DEF ReloadLatest
    <2>3. p \in Page /\ p.note = page[t].conflict /\ p.conflict = NoNote
      BY <2>2 DEF Page
    <2> QED  BY <2>1, <2>3
  <1> QED  BY <1>1, <1>2, <1>3, <1>4, <1>5, <1>6
     DEF Local, Open, OpenNew, Visit, Leave, Type, ReloadLatest

(* A call of t begins in r: the client remembers whose it is. *)
Begins(t, r, q) ==
    /\ Receive(r, q)
    /\ client' = [client EXCEPT ![r] =
           [tab |-> t, basis |-> page[t].basis, origin |-> page[t].origin]]

LEMMA SendsEffect ==
    ASSUME PageTypes, NEW t \in Tabs, Sends(t)
    PROVE  \E r \in Requests, q \in Request, p \in Page :
               /\ Begins(t, r, q) /\ q.op \in CallOps
               /\ page' = [page EXCEPT ![t] = p]
               /\ KnownOf(p) \subseteq KnownOf(page[t])
               /\ \/ /\ Fetch(t) /\ q.op = "get" /\ q.note \in page[t].wanted
                     /\ p = [page[t] EXCEPT !.wanted = @ \ {q.note}]
                  \/ /\ ClickSave(t) /\ q \in SaveRequest(t)
                     /\ q.op \in {"create", "update"}
                     /\ p = [page[t] EXCEPT !.saving = TRUE, !.conflict = NoNote]
                  \/ ClickDelete(t) /\ q.op = "delete" /\ p = page[t]
  <1>0. page[t] \in Page /\ page \in [Tabs -> Page]
    BY DEF PageTypes
  <1> USE PageShape DEF KnownOf
  <1>1. CASE Fetch(t)
    <2> PICK n \in page[t].wanted :
           /\ Send(t, [op |-> "get", actor |-> UserOf[t], note |-> n])
           /\ page' = [page EXCEPT ![t].wanted = @ \ {n}]
      BY <1>1 DEF Fetch
    <2> DEFINE q == [op |-> "get", actor |-> UserOf[t], note |-> n]
               w == page[t].wanted \ {n}
               p == [page[t] EXCEPT !.wanted = w]
    <2>1. q \in Gets /\ q \in Request
      BY <1>0, TabAssumption DEF Gets, Request, NoteRequests
    <2>2. PICK r \in Requests : Begins(t, r, q)
      BY DEF Send, Begins
    <2>3. page' = [page EXCEPT ![t] = p]
      BY <1>0
    <2>4. w \in SUBSET Notes
      BY <1>0
    <2> HIDE DEF w
    <2>5. p \in Page /\ p.note = page[t].note /\ p.conflict = page[t].conflict
      BY <1>0, <2>4 DEF Page
    <2> QED  BY <1>1, <2>1, <2>2, <2>3, <2>5 DEF w, CallOps
  <1>2. CASE ClickSave(t)
    <2>1. PICK q \in SaveRequest(t) : Send(t, q)
      BY <1>2 DEF ClickSave
    <2>2. q \in Creates \/ q \in Updates
      BY <2>1 DEF SaveRequest
    <2>3. q \in Request /\ q.op \in {"create", "update"}
      BY <2>2 DEF Request, NoteRequests, Creates, CreatesOf, Updates, UpdatesOf
    <2>4. PICK r \in Requests : Begins(t, r, q)
      BY <2>1 DEF Send, Begins
    <2> DEFINE p == [page[t] EXCEPT !.saving = TRUE, !.conflict = NoNote]
    <2>5. page' = [page EXCEPT ![t] = p]
      BY <1>0, <1>2 DEF ClickSave
    <2>6. p \in Page /\ p.note = page[t].note /\ p.conflict = NoNote
      BY <1>0 DEF Page
    <2> QED  BY <1>2, <2>1, <2>3, <2>4, <2>5, <2>6 DEF CallOps
  <1>3. CASE ClickDelete(t)
    <2> DEFINE q == [op |-> "delete", actor |-> UserOf[t],
                     note |-> page[t].note.id]
    <2>1. q \in Deletes /\ q \in Request
      BY <1>0, <1>3, TabAssumption, SnapshotShape
      DEF ClickDelete, Deletes, Request, NoteRequests, OwnerRequests
    <2>2. PICK r \in Requests : Begins(t, r, q)
      BY <1>3 DEF ClickDelete, Send, Begins
    <2>3. page' = [page EXCEPT ![t] = page[t]]
      BY <1>0, <1>3 DEF ClickDelete
    <2> QED  BY <1>0, <1>3, <2>1, <2>2, <2>3 DEF CallOps
  <1> QED  BY <1>1, <1>2, <1>3 DEF Sends

-----------------------------------------------------------------------------
(* A response moves the page that waits for it, which learns at most the   *)
(* note that the response holds.                                           *)
Carried(r) == [id |-> task[r].req.note, row |-> task[r].copy]

LEMMA ReturnEffect ==
    ASSUME Inv, PageTypes, CallsOK, AnswersWereRead,
           NEW r \in Requests, NEW answer, Returned(r, answer)
    PROVE  LET t == client[r].tab
               c == Continued(page[t], task[r].req, answer, task[r].copy)
               served == [client EXCEPT ![r] = Nobody]
           IN  \/ t = NoTab /\ UNCHANGED <<page, client>>
               \/ /\ t \in Tabs /\ t # NoTab
                  /\ c \in Page /\ page' = [page EXCEPT ![t] = c]
                  /\ client' = IF c.route = "away" THEN Forget(t, served)
                               ELSE served
                  /\ \A s \in KnownOf(c) :
                         \/ s \in KnownOf(page[t])
                         \/ s = Carried(r) /\ Holds(r, s.id)
                             /\ ~At(r, "insert")
  <1> DEFINE t == client[r].tab
             q == task[r].req
             c == Continued(page[t], q, answer, task[r].copy)
  <1>0. client[r] \in Client /\ page \in [Tabs -> Page]
        /\ t \in Tabs \cup {NoTab}
    BY DEF PageTypes, Client
  <1>1. CASE t = NoTab
    BY <1>1 DEF Returned, Resume
  <1>2. CASE t # NoTab
    <2>1. t \in Tabs /\ page[t] \in Page
      BY <1>0, <1>2
    <2>2. ~At(r, "idle") /\ q.op \in CallOps
      BY <1>2 DEF CallsOK
    <2>3. task[r] \in Task /\ q \in Request
      BY <2>2, RequestByLabel DEF Inv, TypeOK, Task, At
    <2>4. Carries(q, answer, task[r].copy)
      BY CarriesWhatWasRead DEF Returned, Deliver
    <2>5. /\ c \in Page
          /\ KnownOf(c) \subseteq KnownOf(page[t]) \cup
                 {s \in {Carried(r)} : q.op \in {"get", "update"}}
      BY <2>1, <2>2, <2>3, <2>4, ContinuedOK DEF Carried
    <2>6. page' = [page EXCEPT ![t] = c]
      BY <1>2 DEF Returned, Resume
    <2>7. page'[t] = c
      BY <1>0, <2>1, <2>6
    <2>8. client' = IF c.route = "away"
                    THEN Forget(t, [client EXCEPT ![r] = Nobody])
                    ELSE [client EXCEPT ![r] = Nobody]
      BY <1>2, <2>7 DEF Returned, Resume
    <2>9. ASSUME NEW s \in KnownOf(c), s \notin KnownOf(page[t])
          PROVE  s = Carried(r) /\ Holds(r, s.id) /\ ~At(r, "insert")
      <3>1. s = Carried(r) /\ q.op \in {"get", "update"}
        BY <2>5, <2>9
      <3>2. s \in Snapshot
        BY <2>5, <2>9, PageShape
      <3>3. s.row = task[r].copy /\ s.id = q.note /\ s.row # Absent
        BY <3>1, <3>2, SnapshotShape, AbsenceAssumption DEF Carried
      <3>4. ~At(r, "insert")
        BY <3>1, RequestAt DEF Inv, Creates, CreatesOf
      <3> QED  BY <2>2, <3>1, <3>3, <3>4 DEF Holds
    <2> QED  BY <1>2, <2>1, <2>5, <2>6, <2>8, <2>9
  <1> QED  BY <1>1, <1>2

-----------------------------------------------------------------------------
(* What a page knows stays true. *)
LEMMA HasAddressStays ==
    ASSUME TypeOK, NEW r \in Requests, Act(r), NEW n, HasAddress(n)
    PROVE  HasAddress(n)'
  <1>1. CASE Step(r) \/ Fault(r)
    BY <1>1, RequestStays, OthersWait DEF HasAddress, At
  <1>2. CASE Deliver(r) \/ Disconnect(r)
    BY <1>2, SlotIsFreed, OthersWait DEF HasAddress, At, IdleTask
  <1>3. ASSUME NEW q \in Request, Receive(r, q) PROVE HasAddress(n)'
    <2>1. /\ task'[r].req = q /\ minted' = minted \cup Drawn(q)
          /\ \/ task'[r].pc = "done"
             \/ task'[r].pc = FirstLabel(q)
          /\ q.op = "create" => q.note \notin minted
      BY <1>3, RequestArrives
    <2>2. task'[r].pc = "insert" => q.op = "create"
      BY <2>1 DEF FirstLabel
    <2> QED  BY <1>3, <2>1, <2>2, OthersWait DEF HasAddress, At
  <1> QED  BY <1>1, <1>2, <1>3 DEF Act

(* The row of a note that has an address lives on or moves one version on. *)
LEMMA AddressedRowMoves ==
    ASSUME TypeOK, NEW r \in Requests, Act(r),
           NEW n \in Notes, HasAddress(n), Live(n)'
    PROVE  /\ Live(n) /\ notes[n] \in Row
           /\ \/ notes'[n] = notes[n]
              \/ /\ WriteNote(r) /\ n = task[r].req.note
                 /\ notes[n].version = task[r].req.expected
                 /\ notes'[n].version = notes[n].version + 1
  <1>1. ~(InsertNote(r) /\ n = task[r].req.note)
    BY DEF HasAddress, InsertNote
  <1>2. Live(n) => notes[n] \in Row
    BY DEF Live, TypeOK
  <1>3. CASE Live(n) /\ notes'[n] = notes[n]
    BY <1>2, <1>3
  <1>4. CASE /\ WriteNote(r) /\ Live(n) /\ n = task[r].req.note
             /\ notes[n].version = task[r].req.expected
             /\ notes'[n] = [owner |-> notes[n].owner, body |-> task[r].req.body,
                             version |-> task[r].req.expected + 1]
    <2>1. notes'[n].version = task[r].req.expected + 1
      BY <1>4
    <2> QED  BY <1>2, <1>4, <2>1
  <1> QED  BY <1>1, <1>3, <1>4, RowMoves

LEMMA TrueStays ==
    ASSUME Inv, NEW r \in Requests, Act(r), NEW s \in Snapshot, TrueSnapshot(s)
    PROVE  TrueSnapshot(s)'
  <1>0. TypeOK /\ s.id \in Notes /\ s.row \in Row /\ s.row.version \in Nat
    BY SnapshotShape DEF Inv
  <1>1. HasAddress(s.id)'
    BY <1>0, HasAddressStays DEF TrueSnapshot
  <1>2. FitsTable(s)'
    <2> SUFFICES ASSUME Live(s.id)'
                 PROVE  /\ s.row.version <= notes'[s.id].version
                        /\ s.row.version = notes'[s.id].version => s.row = notes'[s.id]
      BY DEF FitsTable
    <2>1. /\ s.row.version <= notes[s.id].version
          /\ s.row.version = notes[s.id].version => s.row = notes[s.id]
          /\ notes[s.id].version \in Nat
      BY <1>0, AddressedRowMoves, VersionAssumption
      DEF TrueSnapshot, FitsTable, Row, Versions
    <2>2. \/ notes'[s.id] = notes[s.id]
          \/ notes'[s.id].version = notes[s.id].version + 1
      BY <1>0, AddressedRowMoves DEF TrueSnapshot
    <2> QED  BY <1>0, <2>1, <2>2
  <1>3. FitsHandlers(s)'
    <2> SUFFICES ASSUME NEW x \in Requests, Holds(x, s.id)',
                        task'[x].copy.version = s.row.version
                 PROVE  task'[x].copy = s.row
      BY DEF FitsHandlers
    <2>1. CASE Holds(x, s.id) /\ task'[x].copy = task[x].copy
      BY <2>1 DEF TrueSnapshot, FitsHandlers
    <2>2. CASE task'[x].copy = notes'[s.id] /\ Live(s.id)'
      BY <1>2, <2>2 DEF FitsTable
    <2> QED  BY <1>0, <2>1, <2>2, CopyMoves
  <1> QED  BY <1>1, <1>2, <1>3 DEF TrueSnapshot

(* A snapshot is one that a page has, or that a response brings. *)
Brought(s, r) == s = Carried(r) /\ Holds(r, s.id) /\ ~At(r, "insert")
Source(s) == \/ \E t \in Tabs : s \in Known(t)
             \/ \E r \in Requests : Brought(s, r)

LEMMA BroughtIsTrue ==
    ASSUME Inv, NEW r \in Requests, NEW s \in Snapshot, Brought(s, r)
    PROVE  TrueSnapshot(s)
  <1>0. /\ s.id \in Notes /\ s.row = task[r].copy
        /\ Holds(r, s.id) /\ About(r, s.id)
    BY SnapshotShape DEF Brought, Carried, Holds, About
  <1>1. HasAddress(s.id)
    <2>1. s.id \in minted
      BY <1>0 DEF Inv, InUseIsMinted
    <2>2. ASSUME NEW x \in Requests, At(x, "insert"), task[x].req.note = s.id
          PROVE  FALSE
      BY <1>0, <2>2 DEF Inv, PendingIsUnknown, Brought, Holds
    <2> QED  BY <2>1, <2>2 DEF HasAddress
  <1>2. FitsTable(s)
    BY <1>0 DEF Inv, SameVersionSameBody, FitsTable
  <1>3. FitsHandlers(s)
    BY <1>0 DEF Inv, SameVersionSameBody, FitsHandlers
  <1> QED  BY <1>1, <1>2, <1>3 DEF TrueSnapshot

LEMMA SourcesAgree ==
    ASSUME Inv, PagesTellTheTruth, PagesAgree,
           NEW s \in Snapshot, NEW z \in Snapshot, Source(s), Source(z)
    PROVE  TrueSnapshot(s) /\ Agree(s, z)
  <1>1. TrueSnapshot(s) /\ TrueSnapshot(z)
    BY BroughtIsTrue DEF Source, PagesTellTheTruth
  <1>2. ASSUME NEW r \in Requests, Brought(s, r) PROVE Agree(s, z)
    BY <1>1, <1>2 DEF Brought, Carried, TrueSnapshot, FitsHandlers, Agree
  <1>3. ASSUME NEW r \in Requests, Brought(z, r) PROVE Agree(s, z)
    BY <1>1, <1>3 DEF Brought, Carried, TrueSnapshot, FitsHandlers, Agree
  <1> QED  BY <1>1, <1>2, <1>3 DEF Source, PagesAgree

LEMMA KnowledgeStep ==
    ASSUME Inv, PageTypes', PagesTellTheTruth, PagesAgree,
           UNCHANGED vars \/ \E r \in Requests : Act(r),
           \A t \in Tabs : \A s \in KnownOf(page'[t]) : Source(s)
    PROVE  PagesTellTheTruth' /\ PagesAgree'
  <1>1. \A t \in Tabs : Known(t)' = KnownOf(page'[t]) /\ Known(t)' \subseteq Snapshot
    <2> TAKE t \in Tabs
    <2>1. page'[t] \in Page
      BY DEF PageTypes
    <2> QED  BY <2>1, PageShape DEF Known, KnownOf
  <1>2. ASSUME NEW t \in Tabs, NEW s \in Known(t)' PROVE TrueSnapshot(s)'
    <2>1. s \in Snapshot /\ TrueSnapshot(s)
      BY <1>1, <1>2, SourcesAgree
    <2>2. CASE UNCHANGED vars
      BY <2>1, <2>2 DEF TrueSnapshot, HasAddress, FitsTable, FitsHandlers, Holds,
                        Live, At, vars, tables
    <2> QED  BY <2>1, <2>2, TrueStays
  <1>3. ASSUME NEW t \in Tabs, NEW u \in Tabs,
               NEW s \in Known(t)', NEW z \in Known(u)'
        PROVE  Agree(s, z)
    BY <1>1, <1>3, SourcesAgree
  <1> QED  BY <1>2, <1>3 DEF PagesTellTheTruth, PagesAgree, Agree

-----------------------------------------------------------------------------
(* EInv is inductive. *)
LEMMA PageMoved ==
    ASSUME PageTypes, NEW t \in Tabs, NEW p \in Page,
           page' = [page EXCEPT ![t] = p],
           \A s \in KnownOf(p) : s \in KnownOf(page[t]) \/ Source(s)
    PROVE  /\ page' \in [Tabs -> Page]
           /\ page'[t] = p /\ \A u \in Tabs \ {t} : page'[u] = page[u]
           /\ \A u \in Tabs : \A s \in KnownOf(page'[u]) : Source(s)
  <1>1. /\ page' \in [Tabs -> Page]
        /\ page'[t] = p /\ \A u \in Tabs \ {t} : page'[u] = page[u]
    BY DEF PageTypes
  <1>2. \A u \in Tabs : \A s \in KnownOf(page[u]) : Source(s)
    BY DEF Source, Known, KnownOf
  <1> QED  BY <1>1, <1>2

LEMMA StepEffect ==
    ASSUME EInv, [EditNext]_evars
    PROVE  /\ UNCHANGED vars \/ \E r \in Requests : Act(r)
           /\ PageTypes' /\ CallsOK'
           /\ \A t \in Tabs : \A s \in KnownOf(page'[t]) : Source(s)
  <1> USE DEF EInv
  <1>a. TypeOK /\ client \in [Requests -> Client]
    BY DEF Inv, PageTypes
  <1>b. \A t \in Tabs : \A s \in KnownOf(page[t]) : Source(s)
    BY DEF Source, Known, KnownOf
  <1>1. CASE UNCHANGED evars
    BY <1>1, <1>b DEF evars, vars, PageTypes, CallsOK, At
  <1>2. ASSUME NEW t \in Tabs, Local(t)
        PROVE  /\ UNCHANGED vars /\ PageTypes' /\ CallsOK'
               /\ \A u \in Tabs : \A s \in KnownOf(page'[u]) : Source(s)
    <2>1. PICK p \in Page : /\ page' = [page EXCEPT ![t] = p]
                            /\ KnownOf(p) \subseteq KnownOf(page[t])
      BY <1>2, LocalEffect
    <2>2. UNCHANGED vars /\ client' \in {client, Forget(t, client)}
      BY <1>2, LocalEffect
    <2>3. /\ client' \in [Requests -> Client]
          /\ \A r \in Requests : client'[r] \in {client[r], Nobody}
      BY <1>a, <2>2, ForgetOK
    <2>4. CallsOK'
      BY <2>2, <2>3 DEF CallsOK, vars, At, Nobody
    <2> QED  BY <2>1, <2>2, <2>3, <2>4, PageMoved DEF PageTypes
  <1>3. ASSUME NEW t \in Tabs, Sends(t)
        PROVE  /\ \E r \in Requests : Act(r)
               /\ PageTypes' /\ CallsOK'
               /\ \A u \in Tabs : \A s \in KnownOf(page'[u]) : Source(s)
    <2>1. PICK r \in Requests, q \in Request, p \in Page :
              /\ Begins(t, r, q) /\ q.op \in CallOps
              /\ page' = [page EXCEPT ![t] = p]
              /\ KnownOf(p) \subseteq KnownOf(page[t])
      BY <1>3, SendsEffect
    <2>2. Act(r)
      BY <2>1 DEF Begins, Act
    <2>3. page[t] \in Page
      BY DEF PageTypes
    <2> DEFINE mine == [tab |-> t, basis |-> page[t].basis,
                        origin |-> page[t].origin]
    <2>4. mine \in Client /\ client' = [client EXCEPT ![r] = mine]
      BY <2>1, <2>3, PageShape DEF Begins, Client
    <2>5. client' \in [Requests -> Client]
      BY <1>a, <2>4
    <2>6. CallsOK'
      <3>1. task'[r].req = q /\ task'[r].pc # "idle"
        BY <1>a, <2>1, RequestArrives DEF Begins
      <3>2. \A x \in Requests \ {r} : task'[x] = task[x] /\ client'[x] = client[x]
        BY <1>a, <2>2, <2>4, OthersWait
      <3> QED  BY <2>1, <3>1, <3>2 DEF CallsOK, At
    <2> QED  BY <2>1, <2>2, <2>5, <2>6, PageMoved DEF PageTypes
  <1>4. ASSUME NEW r \in Requests, ServerStep(r)
        PROVE  /\ Act(r)
               /\ PageTypes' /\ CallsOK'
               /\ \A u \in Tabs : \A s \in KnownOf(page'[u]) : Source(s)
    <2>1. Act(r) /\ UNCHANGED <<page, client>> /\ (Step(r) \/ Fault(r))
      BY <1>4 DEF ServerStep, Act
    <2>2. CallsOK'
      BY <1>a, <2>1, OthersWait, RequestStays DEF CallsOK, At
    <2> QED  BY <1>b, <2>1, <2>2 DEF PageTypes
  <1>5. ASSUME NEW r \in Requests, NEW answer, Returned(r, answer)
        PROVE  /\ Act(r)
               /\ PageTypes' /\ CallsOK'
               /\ \A u \in Tabs : \A s \in KnownOf(page'[u]) : Source(s)
    <2> DEFINE t == client[r].tab
               c == Continued(page[t], task[r].req, answer, task[r].copy)
               served == [client EXCEPT ![r] = Nobody]
    <2>1. Deliver(r) \/ Disconnect(r)
      BY <1>5 DEF Returned
    <2>2. Act(r)
      BY <2>1 DEF Act
    <2>3. Nobody \in Client
      BY DEF Nobody, Client
    <2>4. /\ served \in [Requests -> Client]
          /\ served[r] = Nobody
          /\ \A x \in Requests \ {r} : served[x] = client[x]
      BY <1>a, <2>3
    <2>5. CASE t = NoTab
      <3>1. UNCHANGED <<page, client>>
        BY <1>5, <2>5, ReturnEffect
      <3>2. CallsOK'
        BY <1>a, <2>2, <2>5, <3>1, OthersWait DEF CallsOK, At
      <3> QED  BY <1>b, <2>2, <3>1, <3>2 DEF PageTypes
    <2>6. CASE t # NoTab
      <3>1. /\ t \in Tabs
            /\ c \in Page /\ page' = [page EXCEPT ![t] = c]
            /\ client' \in {served, Forget(t, served)}
            /\ \A s \in KnownOf(c) : s \in KnownOf(page[t]) \/ Brought(s, r)
        BY <1>5, <2>6, ReturnEffect DEF Brought
      <3> HIDE DEF c, served
      <3>2. /\ client' \in [Requests -> Client]
            /\ \A x \in Requests : client'[x] \in {served[x], Nobody}
        BY <2>4, <3>1, ForgetOK
      <3>3. client'[r].tab = NoTab
        BY <2>4, <3>2 DEF Nobody
      <3>4. \A x \in Requests \ {r} :
                task'[x] = task[x] /\ client'[x] \in {client[x], Nobody}
        BY <1>a, <2>2, <2>4, <3>2, OthersWait
      <3>5. CallsOK'
        BY <3>3, <3>4 DEF CallsOK, At, Nobody
      <3>6. /\ page' \in [Tabs -> Page]
            /\ \A u \in Tabs : \A s \in KnownOf(page'[u]) : Source(s)
        BY <3>1, PageMoved DEF Source
      <3> QED  BY <2>2, <3>2, <3>5, <3>6 DEF PageTypes
    <2> QED  BY <2>5, <2>6
  <1> QED  BY <1>1, <1>2, <1>3, <1>4, <1>5, EditSteps

LEMMA EInvInit == EditInit => EInv
  <1> SUFFICES ASSUME EditInit PROVE EInv
    OBVIOUS
  <1>1. Inv
    BY InitInv DEF EditInit
  <1>2. /\ \A t \in Tabs : page[t] = Closed /\ Known(t) = {}
        /\ page \in [Tabs -> Page] /\ client \in [Requests -> Client]
        /\ \A r \in Requests : client[r].tab = NoTab /\ task[r].pc = "idle"
    BY ClosedOK DEF EditInit, Init, IdleTask, Nobody, Client, Known, KnownOf
  <1> QED  BY <1>1, <1>2 DEF EInv, PageTypes, CallsOK, AnswersWereRead, WasRead,
                            PagesTellTheTruth, PagesAgree

LEMMA EInvStep == EInv /\ [EditNext]_evars => EInv'
  <1> SUFFICES ASSUME EInv, [EditNext]_evars PROVE EInv'
    OBVIOUS
  <1>1. Inv' /\ AnswersWereRead'
    <2>1. CASE UNCHANGED vars
      BY <2>1, InvRests DEF EInv, AnswersWereRead, vars
    <2>2. ASSUME NEW r \in Requests, Act(r) PROVE Inv' /\ AnswersWereRead'
      BY <2>2, InvKept, AnswersStep DEF EInv, Inv
    <2> QED  BY <2>1, <2>2, StepEffect
  <1>2. PagesTellTheTruth' /\ PagesAgree'
    BY StepEffect, KnowledgeStep DEF EInv
  <1> QED  BY <1>1, <1>2, StepEffect DEF EInv

LEMMA EInvHolds == EditSpec => []EInv
  BY EInvInit, EInvStep, PTL DEF EditSpec

(* Service, pages and clients keep their types. *)
THEOREM EditTypeCorrect == EditSpec => []EditTypeOK
  <1>1. EInv => EditTypeOK
    BY DEF EInv, Inv, PageTypes, EditTypeOK
  <1> QED  BY <1>1, EInvHolds, PTL

(* Tabs use the service by its endpoints and in no other way: every step of *)
(* EditNext is a step of the service or none, so whatever is proved of the  *)
(* handlers in NotesSafety holds of them behind editor pages.               *)
THEOREM EditorsUseTheService ==
    ASSUME CallOps \subseteq Ops
    PROVE  EditSpec => Spec
  <1>1. EditInit => Init
    BY DEF EditInit
  <1>2. EInv /\ [EditNext]_evars => [Next]_vars
    <2> SUFFICES ASSUME EInv, [EditNext]_evars PROVE [Next]_vars
      OBVIOUS
    <2>1. CASE UNCHANGED evars
      BY <2>1 DEF evars, vars
    <2>2. ASSUME NEW t \in Tabs, Local(t) PROVE UNCHANGED vars
      BY <2>2, LocalEffect DEF EInv
    <2>3. ASSUME NEW t \in Tabs, Sends(t) PROVE Next
      <3>1. PICK r \in Requests, q \in Request : Begins(t, r, q) /\ q.op \in CallOps
        BY <2>3, SendsEffect DEF EInv
      <3> QED  BY <3>1 DEF Begins, Next
    <2>4. ASSUME NEW r \in Requests, ServerStep(r) PROVE Next
      BY <2>4 DEF ServerStep, Next
    <2>5. ASSUME NEW r \in Requests, NEW answer, Returned(r, answer) PROVE Next
      BY <2>5 DEF Returned, Next
    <2> QED  BY <2>1, <2>2, <2>3, <2>4, <2>5, EditSteps
  <1> QED  BY <1>1, <1>2, EInvHolds, PTL DEF EditSpec, Spec

(* Behind any number of editor tabs, a version number stands for one text,  *)
(* is saved from at most once, and an answered save is in its answer or     *)
(* before it.                                                               *)
THEOREM EditorsSaveSoundly ==
    EditSpec => [](SameVersionSameBody /\ OneSavePerVersion /\ OkReportsTheSave)
  <1>1. EInv => SameVersionSameBody /\ OneSavePerVersion /\ OkReportsTheSave
    BY DEF EInv, Inv, SaveIsReported, Reported, Reports, OkReportsTheSave, At
  <1> QED  BY <1>1, EInvHolds, PTL

(* Whatever order responses come in and wherever tabs move, the pages know  *)
(* versions that their notes had, by the text that these versions had.      *)
THEOREM PagesKnowTheirVersionsHolds == EditSpec => []PagesKnowTheirVersions
  <1>1. EInv => PagesKnowTheirVersions
    BY DEF EInv, PagesTellTheTruth, PagesAgree, TrueSnapshot, FitsTable, Agree,
           PagesKnowTheirVersions
  <1> QED  BY <1>1, EInvHolds, PTL

-----------------------------------------------------------------------------
(* Pages that stay on their note. *)
LEMMA ContinuedOrderly ==
    ASSUME NEW p \in Page, Orderly(p), NEW q \in Request, q.op \in CallOps,
           NEW answer, NEW row, Carries(q, answer, row),
           q.op # "delete" => Suits(p, q) /\ p.wanted = {},
           answer = "conflict" /\ q.op = "update" => q.expected < row.version
    PROVE  LET c == Continued(p, q, answer, row) IN
           /\ Orderly(c)
           /\ q.op = "delete" => c \in {Closed, p}
  <1> DEFINE s == [id |-> q.note, row |-> row]
             c == Continued(p, q, answer, row)
  <1>0. q.note \in Notes /\ (row \in Row => s \in Snapshot)
    BY CallShape DEF Snapshot
  <1>00. Orderly(Closed)
    BY RouteAssumption DEF Orderly, Closed
  <1>1. CASE q.op = "get"
    <2>1. p.loading /\ p.wanted = {} /\ p.conflict = NoNote
          /\ p.route \in Notes /\ p.route \notin {"away", "new"}
      BY <1>1, RouteAssumption DEF Suits, Orderly
    <2>2. c = AfterLoad(p, q, answer, row)
      BY <1>1 DEF Continued
    <2>3. CASE answer = "ok"
      <3>1. s \in Snapshot /\ c = [Filled(p, s) EXCEPT !.loading = FALSE]
        BY <1>0, <1>1, <2>2, <2>3 DEF AfterLoad, Carries
      <3>2. /\ Filled(p, s) \in Page /\ Filled(p, s).conflict = p.conflict
            /\ Filled(p, s).route = p.route /\ Filled(p, s).wanted = p.wanted
        BY <3>1, FilledOK
      <3>3. /\ ~c.loading /\ c.wanted = {} /\ c.conflict = NoNote
            /\ c.route = p.route
        BY <2>1, <3>1, <3>2 DEF Page
      <3> QED  BY <1>1, <2>1, <3>3 DEF Orderly
    <2>4. CASE answer # "ok"
      <3>1. /\ ~c.loading /\ c.wanted = {} /\ c.conflict = NoNote
            /\ c.route = p.route
        BY <2>1, <2>2, <2>4 DEF AfterLoad, Page
      <3> QED  BY <1>1, <2>1, <3>1 DEF Orderly
    <2> QED  BY <2>3, <2>4
  <1>2. CASE q.op = "create"
    <2>1. /\ p.route \in {"new", "away"} /\ p.wanted = {}
          /\ p.conflict = NoNote /\ ~p.loading
      BY <1>2, RouteAssumption DEF Suits, Orderly, Closed, Page
    <2>2. c = AfterCreate(p, q, answer)
      BY <1>2 DEF Continued
    <2>3. CASE answer = "ok"
      <3> DEFINE o == IF p.route = "away" THEN Closed ELSE p
                 v == Navigated(p, q.note)
      <3>1. o \in Page /\ o.wanted = {} /\ o.conflict = NoNote
        BY <2>1, ClosedOK DEF Closed
      <3>2. v \in Page
            /\ v = [o EXCEPT !.route = q.note, !.wanted = o.wanted \cup {q.note},
                            !.loading = TRUE]
        BY <1>0, NavigatedOK
      <3> HIDE DEF o
      <3>3. v.route = q.note /\ v.wanted = {q.note} /\ v.loading
            /\ v.conflict = NoNote
        BY <3>1, <3>2 DEF Page
      <3>4. c = [v EXCEPT !.saving = FALSE]
        BY <2>2, <2>3 DEF AfterCreate
      <3> HIDE DEF v
      <3>5. c.route = q.note /\ c.wanted = {q.note} /\ c.loading
            /\ c.conflict = NoNote
        BY <3>2, <3>3, <3>4 DEF Page
      <3> QED  BY <1>0, <1>2, <3>5, RouteAssumption DEF Orderly
    <2>4. CASE answer # "ok" /\ p.route = "away"
      BY <1>2, <2>2, <2>4 DEF AfterCreate
    <2>5. CASE answer # "ok" /\ p.route # "away"
      <3>1. c = [p EXCEPT !.saving = FALSE, !.failed = TRUE]
        BY <2>2, <2>5 DEF AfterCreate
      <3>2. /\ c.route = p.route /\ c.wanted = p.wanted /\ c.loading = p.loading
            /\ c.conflict = p.conflict /\ c.note = p.note
        BY <3>1 DEF Page
      <3> QED  BY <1>2, <2>1, <2>5, <3>2 DEF Orderly
    <2> QED  BY <2>3, <2>4, <2>5
  <1>3. CASE q.op = "update"
    <2> DEFINE o == [p EXCEPT !.saving = FALSE]
    <2>1. /\ p.wanted = {} /\ ~p.loading /\ p.conflict = NoNote
          /\ p.route \in Notes /\ p.route \notin {"away", "new"}
          /\ p.note.id = q.note /\ p.note.row.version = q.expected
      BY <1>3, RouteAssumption DEF Suits, AsSaved
    <2>2. /\ o \in Page /\ o.wanted = {} /\ ~o.loading /\ o.conflict = NoNote
          /\ o.route = p.route /\ o.note = p.note
      BY <2>1 DEF Page
    <2>3. CASE answer = "ok"
      <3> DEFINE b == IF o.origin = q.note /\ o.basis <= q.expected
                      THEN q.expected + 1 ELSE o.basis
      <3>1. c = [o EXCEPT !.note = s, !.basis = b]
        BY <1>3, <2>3 DEF Continued, AfterUpdate, Updated
      <3> HIDE DEF b, o
      <3>2. /\ c.wanted = {} /\ ~c.loading /\ c.conflict = NoNote
            /\ c.route = p.route
        BY <2>2, <3>1 DEF Page
      <3> QED  BY <1>3, <2>1, <3>2 DEF Orderly
    <2>4. CASE answer = "conflict"
      <3>1. c = [o EXCEPT !.conflict = s] /\ s.row.version > q.expected
        <4>1. row \in Row /\ row.version \in Nat /\ q.expected \in Nat
          BY <1>3, <2>4, CallShape, VersionAssumption
          DEF Carries, Row, Versions
        <4> QED  BY <1>3, <2>4, <4>1 DEF Continued, AfterUpdate, Refused
      <3> HIDE DEF o
      <3>2. /\ c.wanted = {} /\ ~c.loading /\ c.conflict = s
            /\ c.route = p.route /\ c.note = p.note
        BY <2>2, <3>1 DEF Page
      <3> QED  BY <1>3, <2>1, <3>1, <3>2 DEF Orderly
    <2>5. CASE answer \notin {"ok", "conflict"}
      <3>1. c = [o EXCEPT !.failed = TRUE]
        BY <1>3, <2>5 DEF Continued, AfterUpdate
      <3> HIDE DEF o
      <3>2. /\ c.wanted = {} /\ ~c.loading /\ c.conflict = NoNote
            /\ c.route = p.route
        BY <2>2, <3>1 DEF Page
      <3> QED  BY <1>3, <2>1, <3>2 DEF Orderly
    <2> QED  BY <2>3, <2>4, <2>5
  <1>4. CASE q.op = "delete"
    BY <1>00, <1>4 DEF Continued, AfterDelete
  <1> QED  BY <1>1, <1>2, <1>3, <1>4 DEF CallOps

(* Whoever still waits for x after a step waited for the same before. *)
Unmoved(x) ==
    client'[x].tab # NoTab =>
        client'[x] = client[x] /\ task'[x].req = task[x].req

LEMMA CallsShrink ==
    ASSUME NEW t \in Tabs, \A x \in Requests : Unmoved(x)
    PROVE  /\ Calls(t)' \subseteq Calls(t)
           /\ \A x \in Calls(t)' : task'[x].req = task[x].req
           /\ page'[t] = page[t] /\ OneCall(t) => OneCall(t)'
  <1>1. /\ Calls(t)' \subseteq Calls(t)
        /\ \A x \in Calls(t)' : task'[x].req = task[x].req
    BY TabAssumption DEF Unmoved, Calls, Waiting
  <1> QED  BY <1>1 DEF OneCall

(* What the user does to an orderly page keeps it so. *)
LEMMA LocalOrderly ==
    ASSUME PageTypes, ~Wander, NEW t \in Tabs, Local(t),
           Orderly(page[t]), OneCall(t)
    PROVE  Orderly(page'[t]) /\ OneCall(t)'
  <1> DEFINE p == page[t]
  <1>0. p \in Page /\ page \in [Tabs -> Page] /\ client \in [Requests -> Client]
    BY DEF PageTypes
  <1>1. /\ UNCHANGED vars
        /\ \A x \in Requests : client'[x] \in {client[x], Nobody}
    BY <1>0, LocalEffect, ForgetOK
  <1>2. \A x \in Requests : Unmoved(x)
    BY <1>1 DEF Unmoved, Nobody, vars
  <1>3. /\ Calls(t)' \subseteq Calls(t)
        /\ \A x \in Calls(t)' : task'[x].req = task[x].req
    BY <1>2, CallsShrink
  <1>4. ASSUME NEW n \in Notes, Open(t, n)
        PROVE  Orderly(page'[t]) /\ OneCall(t)'
    <2>1. page'[t] = [Closed EXCEPT !.route = n, !.wanted = {n}, !.loading = TRUE]
      BY <1>0, <1>4 DEF Open
    <2>2. Calls(t)' = {}
      BY <1>3, <1>4 DEF Open, Calls
    <2> QED  BY <2>1, <2>2, RouteAssumption DEF Orderly, OneCall, Closed
  <1>5. ASSUME OpenNew(t)
        PROVE  Orderly(page'[t]) /\ OneCall(t)'
    <2>1. page'[t] = [Closed EXCEPT !.route = "new"]
      BY <1>0, <1>5 DEF OpenNew
    <2>2. Calls(t)' = {}
      BY <1>3, <1>5 DEF OpenNew, Calls
    <2> QED  BY <2>1, <2>2, RouteAssumption DEF Orderly, OneCall, Closed
  <1>6. ASSUME Leave(t)
        PROVE  Orderly(page'[t]) /\ OneCall(t)'
    <2>1. page'[t] = Closed /\ client' = Forget(t, client)
      BY <1>0, <1>6 DEF Leave
    <2>2. ASSUME NEW x \in Calls(t)' PROVE Suits(Closed, task'[x].req)
      <3>1. client'[x].tab = t /\ x \in Requests
        BY <2>2 DEF Calls, Waiting
      <3>2. task[x].req.op \notin {"get", "update"}
        BY <1>0, <2>1, <3>1, ForgetOK, TabAssumption DEF Nobody
      <3>3. x \in Calls(t) /\ task'[x].req = task[x].req
        BY <1>3, <2>2
      <3> QED  BY <3>2, <3>3, RouteAssumption DEF OneCall, Suits, Closed
    <2>3. Orderly(page'[t]) /\ page'[t].wanted = {}
      BY <2>1, RouteAssumption DEF Orderly, Closed
    <2>4. ASSUME NEW x \in Calls(t)', NEW y \in Calls(t)' PROVE x = y
      BY <1>3 DEF OneCall
    <2> QED  BY <2>1, <2>2, <2>3, <2>4 DEF OneCall
  <1>7. ASSUME NEW b \in Bodies, Type(t, b)
        PROVE  Orderly(page'[t]) /\ OneCall(t)'
    <2>1. page'[t] = [p EXCEPT !.draft = b] /\ p.route # "away"
      BY <1>0, <1>7 DEF Type, Usable
    <2> HIDE DEF p
    <2>2. LET o == page'[t] IN
          /\ o.route = p.route /\ o.note = p.note /\ o.wanted = p.wanted
          /\ o.loading = p.loading /\ o.saving = p.saving
          /\ o.conflict = p.conflict
      BY <1>0, <2>1 DEF Page
    <2>3. Orderly(page'[t])
      BY <2>1, <2>2 DEF Orderly, p
    <2>4. \A q : Suits(p, q) => Suits(page'[t], q)
      BY <2>2 DEF Suits, AsSaved
    <2> QED  BY <1>3, <2>2, <2>3, <2>4 DEF OneCall, p
  <1>8. ASSUME ReloadLatest(t)
        PROVE  Orderly(page'[t]) /\ OneCall(t)'
    <2> DEFINE f == Filled(p, p.conflict)
    <2>1. /\ page'[t] = [f EXCEPT !.conflict = NoNote]
          /\ p.conflict # NoNote /\ ~p.loading
      BY <1>0, <1>8 DEF ReloadLatest, Usable
    <2>2. /\ f \in Page /\ f.route = p.route /\ f.wanted = p.wanted
          /\ f.loading = p.loading
      BY <1>0, <2>1, FilledOK, PageShape
    <2> HIDE DEF f
    <2>3. LET o == page'[t] IN
          /\ o.route = p.route /\ o.wanted = p.wanted
          /\ o.loading = p.loading /\ o.conflict = NoNote
      BY <2>1, <2>2 DEF Page
    <2>4. p.wanted = {} /\ p.route \notin {"away", "new"}
      BY <2>1 DEF Orderly, Closed
    <2>5. \A q : ~Suits(p, q)
      BY <2>1, <2>4 DEF Suits, AsSaved
    <2> QED  BY <1>3, <2>1, <2>3, <2>4, <2>5 DEF Orderly, OneCall
  <1> QED  BY <1>4, <1>5, <1>6, <1>7, <1>8 DEF Local, Visit

(* A call begins when no other call of its page is out. *)
LEMMA SendsOrderly ==
    ASSUME TypeOK, PageTypes, NEW t \in Tabs, Sends(t),
           Orderly(page[t]), OneCall(t)
    PROVE  Orderly(page'[t]) /\ OneCall(t)'
  <1> DEFINE o == page[t]
  <1>0. o \in Page /\ page \in [Tabs -> Page] /\ client \in [Requests -> Client]
    BY DEF PageTypes
  <1>1. PICK r \in Requests, q \in Request, p \in Page :
               /\ Begins(t, r, q) /\ q.op \in CallOps
               /\ page' = [page EXCEPT ![t] = p]
               /\ \/ /\ Fetch(t) /\ q.op = "get" /\ q.note \in o.wanted
                     /\ p = [o EXCEPT !.wanted = @ \ {q.note}]
                  \/ /\ ClickSave(t) /\ q \in SaveRequest(t)
                     /\ q.op \in {"create", "update"}
                     /\ p = [o EXCEPT !.saving = TRUE, !.conflict = NoNote]
                  \/ ClickDelete(t) /\ q.op = "delete" /\ p = o
    BY SendsEffect
  <1>2. page'[t] = p /\ Act(r) /\ task'[r].req = q
    BY <1>0, <1>1, RequestArrives DEF Begins, Act
  <1>3. \A x \in Requests \ {r} : task'[x] = task[x] /\ client'[x] = client[x]
    BY <1>0, <1>1, <1>2, OthersWait DEF Begins
  <1>4. /\ Calls(t)' \subseteq Calls(t) \cup {r}
        /\ \A x \in Calls(t)' \ {r} : x \in Calls(t) /\ task'[x].req = task[x].req
    BY <1>3 DEF Calls, Waiting
  <1>5. CASE Fetch(t) /\ q.op = "get" /\ q.note \in o.wanted
             /\ p = [o EXCEPT !.wanted = @ \ {q.note}]
    <2>1. o.wanted = {q.note} /\ o.loading /\ Calls(t) = {}
      BY <1>5 DEF Orderly, OneCall
    <2>2. /\ p.wanted = {} /\ p.loading /\ p.route = o.route /\ p.note = o.note
          /\ p.conflict = o.conflict
      BY <1>0, <1>5, <2>1 DEF Page
    <2>3. o.conflict = NoNote /\ o.route \in Notes /\ o.route \notin {"away", "new"}
      BY <2>1, RouteAssumption DEF Orderly
    <2> QED  BY <1>2, <1>4, <1>5, <2>1, <2>2, <2>3 DEF Orderly, OneCall, Suits
  <1>6. CASE ClickSave(t) /\ q \in SaveRequest(t)
             /\ p = [o EXCEPT !.saving = TRUE, !.conflict = NoNote]
    <2>1. o.route # "away" /\ ~o.loading /\ ~o.saving
      BY <1>6 DEF ClickSave, Usable
    <2>2. /\ p.saving /\ p.conflict = NoNote /\ p.route = o.route
          /\ p.note = o.note /\ p.wanted = o.wanted /\ p.loading = o.loading
      BY <1>0, <1>6 DEF Page
    <2>3. o.wanted = {} /\ Calls(t) = {}
      BY <2>1 DEF Orderly, OneCall, Suits
    <2>4. Suits(p, q)
      <3>1. CASE o.route = "new"
        BY <1>6, <2>2, <3>1 DEF SaveRequest, Creates, CreatesOf, Suits
      <3>2. CASE o.route # "new"
        <4>1. o.route \in Notes
          BY <1>0, <2>1, <3>2, PageShape
        <4>2. /\ o.note # NoNote /\ q.op = "update" /\ q.note = o.note.id
              /\ q.expected = o.note.row.version
          BY <1>6, <3>2 DEF SaveRequest, Updates, UpdatesOf
        <4> QED  BY <2>1, <2>2, <4>1, <4>2 DEF Suits, AsSaved
      <3> QED  BY <3>1, <3>2
    <2>5. Orderly(p)
      BY <2>1, <2>2, <2>3 DEF Orderly
    <2>6. \A x \in Calls(t)' : x = r
      BY <1>4, <2>3
    <2> QED  BY <1>2, <2>2, <2>3, <2>4, <2>5, <2>6 DEF OneCall
  <1>7. CASE q.op = "delete" /\ p = o
    <2>1. Calls(t)' \subseteq Calls(t)
      BY <1>2, <1>4, <1>7 DEF Calls
    <2> QED  BY <1>2, <1>4, <1>7, <2>1 DEF OneCall, Calls
  <1> QED  BY <1>1, <1>5, <1>6, <1>7

(* Only the SELECT after an UPDATE that found no row refuses a save. *)
LEMMA RefusedAtReread ==
    ASSUME TypeOK, NEW r \in Requests, Step(r) \/ Fault(r),
           task'[r].pc = "done", task'[r].answer = "conflict"
    PROVE  /\ At(r, "reread") /\ ~task[r].applied
           /\ Live(task[r].req.note)
           /\ task'[r].copy = notes[task[r].req.note]
  <1>0. task[r] \in Task /\ task \in [Requests -> Task]
    BY DEF TypeOK
  <1> USE DEF Task
  <1>1. CASE LoadNote(r)
    BY <1>0, <1>1 DEF LoadNote, Answer, Goto, OwnerOps
  <1>2. CASE LookupGrant(r) \/ ExistingMentions(r) \/ WriteNote(r)
    BY <1>0, <1>2 DEF LookupGrant, ExistingMentions, WriteNote, Answer
  <1>3. CASE InsertNote(r) \/ RecordMention(r) \/ NotifyMention(r)
    BY <1>0, <1>3
    DEF InsertNote, EnterMentions, RecordMention, NotifyMention, Answer, At
  <1>4. CASE DeleteNote(r) \/ DeleteShare(r) \/ UpsertLink(r) \/ DeleteLink(r)
    BY <1>0, <1>4 DEF DeleteNote, DeleteShare, UpsertLink, DeleteLink, Answer
  <1>5. CASE LookupTarget(r) \/ UpsertShare(r) \/ TellShare(r)
    BY <1>0, <1>5 DEF LookupTarget, UpsertShare, TellShare, Answer, Goto
  <1>6. CASE ReadLink(r) \/ Fault(r)
    BY <1>0, <1>6 DEF ReadLink, Fault, Answer
  <1>7. CASE Reread(r)
    BY <1>0, <1>7 DEF Reread, EnterMentions, Answer, Live
  <1> QED  BY <1>1, <1>2, <1>3, <1>4, <1>5, <1>6, <1>7 DEF Step

LEMMA BasedStays ==
    ASSUME Inv, NEW r \in Requests, Act(r), NEW x \in Requests,
           ~At(x, "idle"), task[x].req.op = "update", BasedOnThePast(x),
           task'[x].req = task[x].req
    PROVE  BasedOnThePast(x)'
  <1> DEFINE n == task[x].req.note
             e == task[x].req.expected
  <1>0. TypeOK
    BY DEF Inv
  <1>1. n \in Notes /\ e \in Nat
    <2>1. task[x].req \in Request
      BY <1>0, RequestByLabel DEF TypeOK, Task, At
    <2> QED  BY <2>1, CallShape DEF CallOps
  <1>2. HasAddress(n) /\ HasAddress(n)'
    BY <1>0, HasAddressStays DEF BasedOnThePast
  <1>3. ASSUME Live(n)'
        PROVE  /\ Live(n) /\ notes[n].version \in Nat
               /\ \/ notes'[n] = notes[n]
                  \/ notes'[n].version = notes[n].version + 1
    BY <1>0, <1>1, <1>2, <1>3, AddressedRowMoves, VersionAssumption
    DEF Row, Versions
  <1>4. Live(n)' => e <= notes'[n].version
    BY <1>1, <1>3 DEF BasedOnThePast
  <1>5. ASSUME At(x, "reread")', ~task'[x].applied, Live(n)'
        PROVE  e < notes'[n].version
    <2>1. CASE x # r
      <3>1. e < notes[n].version
        BY <1>0, <1>3, <1>5, <2>1, OthersWait DEF BasedOnThePast, At
      <3> QED  BY <1>1, <1>3, <1>5, <3>1
    <2>2. CASE x = r
      <3>1. WriteNote(r)
        BY <1>0, <1>5, <2>2, RereadFollowsWrite DEF At
      <3> DEFINE m == Matches(task[r].req)
      <3>2. task'[r].applied = m
        <4>1. task' = [task EXCEPT ![r].pc = "reread", ![r].applied = m]
          BY <3>1 DEF WriteNote
        <4> HIDE DEF m
        <4> QED  BY <1>0, <4>1 DEF TypeOK, Task
      <3>3. ~m /\ notes' = notes
        BY <1>0, <1>5, <2>2, <3>1, <3>2, WriteEffect
      <3>4. notes[n].version # e
        BY <1>3, <1>5, <2>2, <3>3 DEF Matches
      <3> QED  BY <1>1, <1>3, <1>4, <1>5, <3>3, <3>4
    <2> QED  BY <2>1, <2>2
  <1>6. ASSUME At(x, "done")', task'[x].answer = "conflict"
        PROVE  e < task'[x].copy.version
    <2>1. CASE x # r
      BY <1>0, <1>6, <2>1, OthersWait DEF BasedOnThePast, At
    <2>2. CASE x = r
      <3>a. ~Deliver(r) /\ ~Disconnect(r)
        BY <1>0, <1>6, <2>2, SlotIsFreed DEF At, IdleTask
      <3>b. \A q \in Request : ~Receive(r, q)
        BY <2>2 DEF Receive
      <3>1. Step(r) \/ Fault(r)
        BY <3>a, <3>b DEF Act
      <3> QED  BY <1>0, <1>6, <2>2, <3>1, RefusedAtReread DEF BasedOnThePast, At
    <2> QED  BY <2>1, <2>2
  <1> QED  BY <1>2, <1>4, <1>5, <1>6 DEF BasedOnThePast

(* What a save is based on is what the page that sends it knows. *)
LEMMA SaveBegins ==
    ASSUME EInv, EInv', NEW t \in Tabs, NEW r \in Requests, NEW q \in Request,
           ClickSave(t), Begins(t, r, q), q \in SaveRequest(t), q.op = "update"
    PROVE  /\ BasedOnThePast(r)' /\ task'[r].req = q
           /\ page[t].note # NoNote /\ q.note = page[t].note.id
           /\ q.expected = page[t].note.row.version
  <1> PICK s : s = page[t].note
    OBVIOUS
  <1>1. /\ page[t].note # NoNote /\ q.note = s.id /\ q.expected = s.row.version
    BY DEF SaveRequest, Creates, CreatesOf, Updates, UpdatesOf
  <1>2. TypeOK /\ page[t] \in Page /\ s \in Known(t)
    BY <1>1 DEF EInv, Inv, PageTypes, Known
  <1>3. TrueSnapshot(s)
    BY <1>2 DEF EInv, PagesTellTheTruth
  <1>4. /\ UNCHANGED tables /\ task'[r].req = q
        /\ \/ task'[r].pc = "done" /\ task'[r].answer = "invalid"
           \/ task'[r].pc \in {"load", "insert", "readLink"}
    BY <1>2, RequestArrives DEF Begins
  <1>5. HasAddress(s.id)'
    BY <1>2, <1>3, HasAddressStays DEF TrueSnapshot, Begins, Act
  <1>6. Live(s.id)' => s.row.version <= notes'[s.id].version
    BY <1>3, <1>4 DEF TrueSnapshot, FitsTable, Live, tables
  <1> QED  BY <1>1, <1>4, <1>5, <1>6 DEF BasedOnThePast, At

(* A response is the only one that its page waits for. *)
LEMMA ReturnClients ==
    ASSUME EInv, NEW r \in Requests, NEW answer, Returned(r, answer),
           client[r].tab # NoTab
    PROVE  LET t == client[r].tab
               c == Continued(page[t], task[r].req, answer, task[r].copy)
           IN  /\ t \in Tabs /\ c \in Page /\ page' = [page EXCEPT ![t] = c]
               /\ Act(r) /\ client'[r].tab = NoTab
               /\ \A x \in Requests : Unmoved(x)
               /\ c.route = "away" =>
                      \A x \in Requests : client'[x].tab = t =>
                          task[x].req.op \notin {"get", "update"}
  <1> DEFINE t == client[r].tab
             c == Continued(page[t], task[r].req, answer, task[r].copy)
             served == [client EXCEPT ![r] = Nobody]
  <1>0. TypeOK /\ client \in [Requests -> Client]
    BY DEF EInv, Inv, PageTypes
  <1>1. /\ t \in Tabs /\ c \in Page /\ page' = [page EXCEPT ![t] = c]
        /\ client' = IF c.route = "away" THEN Forget(t, served) ELSE served
    BY ReturnEffect DEF EInv
  <1>2. Act(r)
    BY DEF Returned, Act
  <1>3. /\ served \in [Requests -> Client] /\ served[r] = Nobody
        /\ \A x \in Requests \ {r} : served[x] = client[x]
    BY <1>0 DEF Nobody, Client
  <1> HIDE DEF c, served
  <1>4. /\ \A x \in Requests : client'[x] \in {served[x], Nobody}
        /\ c.route = "away" =>
               \A x \in Requests : client'[x].tab = t =>
                   task[x].req.op \notin {"get", "update"}
    BY <1>1, <1>3, ForgetOK, TabAssumption DEF Nobody
  <1>5. client'[r].tab = NoTab
    BY <1>3, <1>4 DEF Nobody
  <1>6. \A x \in Requests : Unmoved(x)
    BY <1>0, <1>2, <1>3, <1>4, <1>5, OthersWait DEF Unmoved, Nobody
  <1> QED  BY <1>1, <1>2, <1>4, <1>5, <1>6 DEF c

LEMMA ReturnOrderly ==
    ASSUME EInv, SavesAreBased, NEW r \in Requests, NEW answer,
           Returned(r, answer), NEW t \in Tabs, t = client[r].tab,
           Orderly(page[t]), OneCall(t)
    PROVE  Orderly(page'[t]) /\ OneCall(t)'
  <1> DEFINE p == page[t]
             q == task[r].req
             c == Continued(p, q, answer, task[r].copy)
  <1>0. client[r].tab # NoTab /\ page \in [Tabs -> Page] /\ p \in Page
    BY TabAssumption DEF EInv, PageTypes
  <1>1. /\ page'[t] = c /\ client'[r].tab = NoTab
        /\ \A x \in Requests : Unmoved(x)
        /\ c.route = "away" =>
               \A x \in Requests : client'[x].tab = t =>
                   task[x].req.op \notin {"get", "update"}
    BY <1>0, ReturnClients
  <1>2. q.op \in CallOps /\ q \in Request /\ ~At(r, "idle")
    BY <1>0, RequestByLabel DEF EInv, Inv, CallsOK, TypeOK, Task, At
  <1>3. Carries(q, answer, task[r].copy)
    BY CarriesWhatWasRead DEF EInv, Returned, Deliver
  <1>4. /\ Calls(t)' \subseteq Calls(t) \ {r}
        /\ \A x \in Calls(t)' : task'[x].req = task[x].req
    BY <1>0, <1>1, CallsShrink DEF Calls, Waiting
  <1>5. q.op # "delete" => /\ r \in Calls(t) /\ Suits(p, q)
                           /\ p.wanted = {} /\ Calls(t)' = {}
    BY <1>4 DEF Calls, Waiting, OneCall
  <1>6. answer = "conflict" /\ q.op = "update" => q.expected < task[r].copy.version
    BY <1>0 DEF Returned, Deliver, SavesAreBased, BasedOnThePast, At
  <1>7. Orderly(c) /\ (q.op = "delete" => c \in {Closed, p})
    BY <1>0, <1>2, <1>3, <1>5, <1>6, ContinuedOrderly
  <1> HIDE DEF c
  <1>8. CASE q.op # "delete"
    BY <1>1, <1>5, <1>7, <1>8 DEF OneCall
  <1>9. CASE q.op = "delete" /\ c = p
    BY <1>1, <1>7, <1>9, CallsShrink
  <1>10. CASE q.op = "delete" /\ c = Closed
    <2>1. ASSUME NEW x \in Calls(t)' PROVE Suits(c, task'[x].req)
      <3>1. x \in Calls(t) /\ task'[x].req = task[x].req /\ x \in Requests
            /\ client'[x].tab = t
        BY <1>4, <2>1 DEF Calls, Waiting
      <3>2. task[x].req.op \notin {"get", "update"}
        BY <1>1, <1>10, <3>1 DEF Closed
      <3>3. Suits(p, task[x].req)
        BY <3>1 DEF OneCall
      <3> QED  BY <1>10, <3>1, <3>2, <3>3 DEF Suits, Closed
    <2>2. c.wanted = {}
      BY <1>10 DEF Closed
    <2>3. ASSUME NEW x \in Calls(t)', NEW y \in Calls(t)' PROVE x = y
      BY <1>4 DEF OneCall
    <2> QED  BY <1>1, <1>7, <2>1, <2>2, <2>3 DEF OneCall
  <1> QED  BY <1>7, <1>8, <1>9, <1>10

LEMMA SavesBasedStep ==
    ASSUME EInv, EInv', SavesAreBased, [EditNext]_evars
    PROVE  SavesAreBased'
  <1> SUFFICES ASSUME NEW x \in Requests, client'[x].tab # NoTab,
                      task'[x].req.op = "update"
               PROVE  BasedOnThePast(x)'
    BY DEF SavesAreBased
  <1>0. TypeOK /\ client \in [Requests -> Client]
    BY DEF EInv, Inv, PageTypes
  <1>1. CASE UNCHANGED vars /\ Unmoved(x)
    BY <1>1 DEF Unmoved, SavesAreBased, BasedOnThePast, HasAddress, Live, At,
                vars, tables
  <1>2. ASSUME NEW r \in Requests, Act(r), Unmoved(x) PROVE BasedOnThePast(x)'
    <2>1. task'[x].req = task[x].req /\ client[x].tab # NoTab
      BY <1>2 DEF Unmoved
    <2> QED  BY <1>2, <2>1, BasedStays DEF EInv, CallsOK, SavesAreBased
  <1>3. ASSUME NEW t \in Tabs, Local(t) PROVE UNCHANGED vars /\ Unmoved(x)
    <2>1. UNCHANGED vars /\ client'[x] \in {client[x], Nobody}
      BY <1>0, <1>3, LocalEffect, ForgetOK DEF EInv
    <2> QED  BY <2>1 DEF Unmoved, Nobody, vars
  <1>4. ASSUME NEW t \in Tabs, Sends(t) PROVE BasedOnThePast(x)'
    <2>1. PICK r \in Requests, q \in Request :
               /\ Begins(t, r, q)
               /\ q.op # "update" \/ (ClickSave(t) /\ q \in SaveRequest(t))
      BY <1>4, SendsEffect DEF EInv
    <2>2. Act(r) /\ task'[r].req = q
      BY <1>0, <2>1, RequestArrives DEF Begins, Act
    <2>3. CASE x = r
      BY <2>1, <2>2, <2>3, SaveBegins
    <2>4. CASE x # r
      <3>1. Unmoved(x)
        BY <1>0, <2>1, <2>2, <2>4, OthersWait DEF Begins, Unmoved
      <3> QED  BY <1>2, <2>2, <3>1
    <2> QED  BY <2>3, <2>4
  <1>5. ASSUME NEW r \in Requests, ServerStep(r) PROVE Act(r) /\ Unmoved(x)
    <2>1. Act(r) /\ client' = client /\ (Step(r) \/ Fault(r))
      BY <1>5 DEF ServerStep, Act
    <2> QED  BY <1>0, <2>1, OthersWait, RequestStays DEF Unmoved
  <1>6. ASSUME NEW r \in Requests, NEW answer, Returned(r, answer)
        PROVE  Act(r) /\ Unmoved(x)
    <2>1. CASE client[r].tab # NoTab
      BY <1>6, <2>1, ReturnClients
    <2>2. CASE client[r].tab = NoTab
      <3>1. Act(r) /\ client' = client
        BY <1>6, <2>2 DEF Returned, Resume, Act
      <3> QED  BY <1>0, <2>2, <3>1, OthersWait DEF Unmoved
    <2> QED  BY <2>1, <2>2
  <1>7. UNCHANGED evars => UNCHANGED vars /\ Unmoved(x)
    BY DEF evars, vars, Unmoved
  <1> QED  BY <1>1, <1>2, <1>3, <1>4, <1>5, <1>6, <1>7, EditSteps

LEMMA SInvStep ==
    ASSUME ~Wander
    PROVE  SInv /\ [EditNext]_evars => SInv'
  <1> SUFFICES ASSUME SInv, [EditNext]_evars PROVE SInv'
    OBVIOUS
  <1>1. EInv /\ EInv' /\ SavesAreBased'
    BY EInvStep, SavesBasedStep DEF SInv
  <1>2. TypeOK /\ PageTypes /\ client \in [Requests -> Client]
    BY <1>1 DEF EInv, Inv, PageTypes
  <1> SUFFICES ASSUME NEW t \in Tabs PROVE Orderly(page'[t]) /\ OneCall(t)'
    BY <1>1 DEF SInv
  <1>3. Orderly(page[t]) /\ OneCall(t)
    BY DEF SInv
  <1>4. ASSUME \A x \in Requests : Unmoved(x), page'[t] = page[t]
        PROVE  Orderly(page'[t]) /\ OneCall(t)'
    BY <1>3, <1>4, CallsShrink
  <1>5. UNCHANGED evars => page'[t] = page[t] /\ \A x \in Requests : Unmoved(x)
    BY DEF evars, vars, Unmoved
  <1>6. ASSUME NEW u \in Tabs, Local(u) PROVE Orderly(page'[t]) /\ OneCall(t)'
    <2>1. CASE u = t
      BY <1>2, <1>3, <1>6, <2>1, LocalOrderly
    <2>2. CASE u # t
      <3>1. UNCHANGED vars /\ \A x \in Requests : client'[x] \in {client[x], Nobody}
        BY <1>2, <1>6, LocalEffect, ForgetOK
      <3>2. \A x \in Requests : Unmoved(x)
        BY <3>1 DEF Unmoved, Nobody, vars
      <3>3. page'[t] = page[t]
        BY <1>2, <1>6, <2>2, LocalEffect DEF PageTypes
      <3> QED  BY <1>4, <3>2, <3>3
    <2> QED  BY <2>1, <2>2
  <1>7. ASSUME NEW u \in Tabs, Sends(u) PROVE Orderly(page'[t]) /\ OneCall(t)'
    <2>1. CASE u = t
      BY <1>2, <1>3, <1>7, <2>1, SendsOrderly
    <2>2. CASE u # t
      <3>1. PICK r \in Requests, q \in Request, p \in Page :
                /\ Begins(u, r, q) /\ q.op \in CallOps
                /\ page' = [page EXCEPT ![u] = p]
                /\ KnownOf(p) \subseteq KnownOf(page[u])
        BY <1>2, <1>7, SendsEffect
      <3>2. Act(r) /\ client'[r].tab = u /\ page'[t] = page[t]
            /\ \A x \in Requests \ {r} : client'[x] = client[x]
        BY <1>2, <2>2, <3>1 DEF Begins, Act, PageTypes
      <3>3. /\ Calls(t)' \subseteq Calls(t)
            /\ \A x \in Calls(t)' : task'[x].req = task[x].req
        BY <1>2, <2>2, <3>2, OthersWait DEF Calls, Waiting
      <3> QED  BY <1>3, <3>2, <3>3 DEF OneCall
    <2> QED  BY <2>1, <2>2
  <1>8. ASSUME NEW r \in Requests, ServerStep(r)
        PROVE  page'[t] = page[t] /\ \A x \in Requests : Unmoved(x)
    <2>1. Act(r) /\ UNCHANGED <<page, client>> /\ (Step(r) \/ Fault(r))
      BY <1>8 DEF ServerStep, Act
    <2> QED  BY <1>2, <2>1, OthersWait, RequestStays DEF Unmoved
  <1>9. ASSUME NEW r \in Requests, NEW answer, Returned(r, answer)
        PROVE  Orderly(page'[t]) /\ OneCall(t)'
    <2>1. CASE client[r].tab = t
      BY <1>1, <1>3, <1>9, <2>1, ReturnOrderly DEF SInv
    <2>2. CASE client[r].tab = NoTab
      <3>1. Act(r) /\ UNCHANGED <<page, client>>
        BY <1>9, <2>2 DEF Returned, Resume, Act
      <3>2. \A x \in Requests : Unmoved(x)
        BY <1>2, <2>2, <3>1, OthersWait DEF Unmoved
      <3> QED  BY <1>4, <3>1, <3>2
    <2>3. CASE client[r].tab \notin {t, NoTab}
      <3>1. page'[t] = page[t] /\ \A x \in Requests : Unmoved(x)
        BY <1>1, <1>2, <1>9, <2>3, ReturnClients DEF PageTypes
      <3> QED  BY <1>4, <3>1
    <2> QED  BY <2>1, <2>2, <2>3
  <1> QED  BY <1>4, <1>5, <1>6, <1>7, <1>8, <1>9, EditSteps

LEMMA SInvInit == EditInit => SInv
  <1> SUFFICES ASSUME EditInit PROVE SInv
    OBVIOUS
  <1>1. /\ \A t \in Tabs : page[t] = Closed
        /\ \A r \in Requests : client[r].tab = NoTab
    BY DEF EditInit, Nobody
  <1>2. Orderly(Closed)
    BY RouteAssumption DEF Orderly, Closed
  <1> QED  BY <1>1, <1>2, EInvInit, TabAssumption
     DEF SInv, OneCall, Calls, Waiting, SavesAreBased, Closed

(* As long as tabs do not move from one editor page to another, the copy    *)
(* that the conflict banner offers is of a later version than the one that  *)
(* the page was about to replace.                                           *)
THEOREM ConflictIsNewerHolds ==
    ASSUME ~Wander
    PROVE  EditSpec => []ConflictIsNewer
  <1>1. SInv => ConflictIsNewer
    BY DEF SInv, Orderly, ConflictIsNewer
  <1> QED  BY <1>1, SInvInit, SInvStep, PTL DEF EditSpec

-----------------------------------------------------------------------------
(* A server with one request at a time. *)
LEMMA ContinuedCoherent ==
    ASSUME NEW p \in Page, Coherent(p), NEW q \in Request, q.op \in CallOps,
           NEW answer, NEW row, Carries(q, answer, row),
           answer = "ok" /\ q.op = "update" =>
               AsSaved(p, q) /\ row.version = q.expected + 1
    PROVE  Coherent(Continued(p, q, answer, row))
  <1> DEFINE s == [id |-> q.note, row |-> row]
             c == Continued(p, q, answer, row)
  <1>0. q.note \in Notes /\ (row \in Row => s \in Snapshot)
    BY CallShape DEF Snapshot
  <1>00. Coherent(Closed)
    BY DEF Coherent, Closed
  <1>a. ASSUME NEW o \in Page, Coherent(o), NEW v,
               v.note = o.note, v.origin = o.origin, v.basis = o.basis
        PROVE  Coherent(v)
    BY <1>a DEF Coherent
  <1>1. CASE q.op = "get"
    <2>1. c = AfterLoad(p, q, answer, row)
      BY <1>1 DEF Continued
    <2>2. CASE answer = "ok"
      <3>1. s \in Snapshot /\ c = [Filled(p, s) EXCEPT !.loading = FALSE]
        BY <1>0, <1>1, <2>1, <2>2 DEF AfterLoad, Carries
      <3>2. Filled(p, s) \in Page /\ Coherent(Filled(p, s))
        BY <3>1, FilledOK DEF Coherent
      <3>3. /\ c.note = Filled(p, s).note /\ c.origin = Filled(p, s).origin
            /\ c.basis = Filled(p, s).basis
        BY <3>1, <3>2 DEF Page
      <3> QED  BY <1>1, <1>a, <3>2, <3>3
    <2>3. CASE answer # "ok"
      BY <2>1, <2>3, <1>a DEF AfterLoad, Page
    <2> QED  BY <2>2, <2>3
  <1>2. CASE q.op = "create"
    <2>1. c = AfterCreate(p, q, answer)
      BY <1>2 DEF Continued
    <2>2. CASE answer = "ok"
      <3> DEFINE o == IF p.route = "away" THEN Closed ELSE p
                 v == Navigated(p, q.note)
      <3>1. o \in Page /\ Coherent(o)
        BY <1>00, ClosedOK
      <3>2. /\ v \in Page
            /\ v = [o EXCEPT !.route = q.note, !.wanted = o.wanted \cup {q.note},
                            !.loading = TRUE]
        BY <1>0, NavigatedOK
      <3> HIDE DEF o
      <3>3. v.note = o.note /\ v.origin = o.origin /\ v.basis = o.basis
        BY <3>1, <3>2 DEF Page
      <3>4. c = [v EXCEPT !.saving = FALSE]
        BY <2>1, <2>2 DEF AfterCreate
      <3> HIDE DEF v
      <3>5. c.note = o.note /\ c.origin = o.origin /\ c.basis = o.basis
        BY <3>2, <3>3, <3>4 DEF Page
      <3> QED  BY <1>a, <3>1, <3>5
    <2>3. CASE answer # "ok"
      BY <2>1, <2>3, <1>a DEF AfterCreate, Page
    <2> QED  BY <2>2, <2>3
  <1>3. CASE q.op = "update"
    <2> DEFINE o == [p EXCEPT !.saving = FALSE]
    <2>1. o \in Page /\ o.note = p.note /\ o.origin = p.origin
          /\ o.basis = p.basis
      BY DEF Page
    <2>2. CASE answer = "ok"
      <3> DEFINE b == IF o.origin = q.note /\ o.basis <= q.expected
                      THEN q.expected + 1 ELSE o.basis
      <3>1. c = [o EXCEPT !.note = s, !.basis = b]
        BY <1>3, <2>2 DEF Continued, AfterUpdate, Updated
      <3>2. /\ p.note.id = q.note /\ p.note.row.version = q.expected
            /\ p.note # NoNote /\ row.version = q.expected + 1
            /\ q.expected \in Nat
        BY <1>3, <2>2, CallShape DEF AsSaved
      <3>3. o.origin = q.note /\ o.basis = q.expected
        BY <2>1, <3>2 DEF Coherent
      <3>4. b = q.expected + 1
        BY <3>2, <3>3
      <3> HIDE DEF b, o
      <3>5. c.note = s /\ c.origin = o.origin /\ c.basis = b
        BY <2>1, <3>1 DEF Page
      <3> QED  BY <3>2, <3>3, <3>4, <3>5 DEF Coherent
    <2>3. CASE answer = "conflict"
      <3>1. c = [o EXCEPT !.conflict = s]
        BY <1>3, <2>3 DEF Continued, AfterUpdate, Refused
      <3> HIDE DEF o
      <3> QED  BY <1>a, <2>1, <3>1 DEF Page
    <2>4. CASE answer \notin {"ok", "conflict"}
      <3>1. c = [o EXCEPT !.failed = TRUE]
        BY <1>3, <2>4 DEF Continued, AfterUpdate
      <3> HIDE DEF o
      <3> QED  BY <1>a, <2>1, <3>1 DEF Page
    <2> QED  BY <2>2, <2>3, <2>4
  <1>4. CASE q.op = "delete"
    BY <1>00, <1>4 DEF Continued, AfterDelete
  <1> QED  BY <1>1, <1>2, <1>3, <1>4 DEF CallOps

(* Nothing comes between the UPDATE of a save and the SELECT of its answer. *)
LEMMA UndisturbedStep ==
    ASSUME Inv, NEW r \in Requests, Act(r), Undisturbed(r)
    PROVE  Undisturbed(r)'
  <1> DEFINE q == task[r].req
  <1>0. TypeOK
    BY DEF Inv
  <1>1. ASSUME At(r, "reread")', task'[r].applied, Live(q.note)', task'[r].req = q
        PROVE  notes'[q.note].version = q.expected + 1
    <2>1. WriteNote(r) /\ Matches(q)
      BY <1>0, <1>1, RereadFollowsWrite, AppliedMatched DEF At
    <2>2. q.note \in Notes
      BY <1>0, <2>1, WriteEffect DEF Updates, UpdatesOf
    <2>3. notes'[q.note] = [owner |-> notes[q.note].owner, body |-> q.body,
                            version |-> q.expected + 1]
      BY <1>0, <2>1, <2>2, WriteEffect DEF TypeOK
    <2> QED  BY <2>3
  <1>2. ASSUME Step(r), q.op = "update",
               \/ task'[r].pc \in {"record", "notify"}
               \/ task'[r].pc = "done" /\ task'[r].answer = "ok"
        PROVE  task'[r].copy.version = q.expected + 1
    BY <1>0, <1>2, ReportEntered DEF Undisturbed, Reread, Live
  <1>3. CASE Step(r)
    BY <1>0, <1>1, <1>2, <1>3, RequestStays DEF Undisturbed, At, Live
  <1>4. CASE Fault(r)
    BY <1>0, <1>4 DEF Fault, Answer, Undisturbed, TypeOK, Task, At
  <1>5. CASE Deliver(r) \/ Disconnect(r)
    BY <1>0, <1>5, SlotIsFreed DEF IdleTask, Undisturbed, At
  <1>6. CASE \E p \in Request : Receive(r, p)
    BY <1>0, <1>6, RequestArrives DEF Undisturbed, At
  <1> QED  BY <1>3, <1>4, <1>5, <1>6 DEF Act

LEMMA LocalCoherent ==
    ASSUME EInv, NEW t \in Tabs, Local(t), Coherent(page[t])
    PROVE  Coherent(page'[t])
  <1> DEFINE p == page[t]
  <1>0. p \in Page /\ page \in [Tabs -> Page]
    BY DEF EInv, PageTypes
  <1>a. ASSUME page'[t].note = p.note, page'[t].origin = p.origin,
               page'[t].basis = p.basis
        PROVE  Coherent(page'[t])
    BY <1>a DEF Coherent
  <1>1. ASSUME NEW n \in Notes, Open(t, n) PROVE Coherent(page'[t])
    BY <1>0, <1>1 DEF Open, Coherent, Closed
  <1>2. CASE OpenNew(t) \/ Leave(t)
    BY <1>0, <1>2 DEF OpenNew, Leave, Coherent, Closed
  <1>3. ASSUME NEW route \in Notes \cup {"new"}, Visit(t, route)
        PROVE  Coherent(page'[t])
    BY <1>0, <1>3, <1>a DEF Visit, Page
  <1>4. ASSUME NEW b \in Bodies, Type(t, b) PROVE Coherent(page'[t])
    BY <1>0, <1>4, <1>a DEF Type, Page
  <1>5. CASE ReloadLatest(t)
    <2> DEFINE f == Filled(p, p.conflict)
    <2>1. page'[t] = [f EXCEPT !.conflict = NoNote] /\ p.conflict # NoNote
      BY <1>0, <1>5 DEF ReloadLatest
    <2>2. f \in Page /\ Coherent(f)
      BY <1>0, <2>1, FilledOK, PageShape DEF Coherent
    <2> HIDE DEF f
    <2>3. /\ page'[t].note = f.note /\ page'[t].origin = f.origin
          /\ page'[t].basis = f.basis
      BY <2>1, <2>2 DEF Page
    <2> QED  BY <2>2, <2>3 DEF Coherent
  <1> QED  BY <1>1, <1>2, <1>3, <1>4, <1>5 DEF Local

(* A page that waits for its save stays as it is: it could only be left. *)
LEMMA SavedPageStays ==
    ASSUME EInv, NEW t \in Tabs, Local(t), NEW x \in Requests, NEW q,
           client'[x].tab = t, task[x].req.op = "update", AsSaved(page[t], q)
    PROVE  AsSaved(page'[t], q)
  <1> DEFINE p == page[t]
  <1>0. p \in Page /\ page \in [Tabs -> Page] /\ client \in [Requests -> Client]
    BY DEF EInv, PageTypes
  <1>a. ASSUME page'[t].note = p.note, page'[t].conflict = p.conflict
        PROVE  AsSaved(page'[t], q)
    BY <1>a DEF AsSaved
  <1>b. client[x].tab = t
    BY <1>0, LocalEffect, ForgetOK, TabAssumption DEF EInv, Nobody
  <1>1. ASSUME NEW n \in Notes PROVE ~Open(t, n)
    BY <1>b DEF Open, Waiting
  <1>2. ~OpenNew(t) /\ ~ReloadLatest(t)
    BY <1>b DEF OpenNew, Waiting, ReloadLatest, AsSaved
  <1>3. ~Leave(t)
    BY <1>0, <1>b, ForgetOK, TabAssumption DEF Leave, Nobody
  <1>4. ASSUME NEW route \in Notes \cup {"new"}, Visit(t, route)
        PROVE  AsSaved(page'[t], q)
    BY <1>0, <1>4, <1>a DEF Visit, Page
  <1>5. ASSUME NEW b \in Bodies, Type(t, b) PROVE AsSaved(page'[t], q)
    BY <1>0, <1>5, <1>a DEF Type, Page
  <1> QED  BY <1>1, <1>2, <1>3, <1>4, <1>5 DEF Local

LEMMA CoherentStep ==
    ASSUME TInv, [EditNext]_evars
    PROVE  DraftIsOfItsNote'
  <1> SUFFICES ASSUME NEW t \in Tabs PROVE Coherent(page'[t])
    BY DEF DraftIsOfItsNote
  <1>0. /\ EInv /\ PageTypes /\ page \in [Tabs -> Page]
        /\ client \in [Requests -> Client]
    BY DEF TInv, EInv, PageTypes
  <1>1. \A u \in Tabs : Coherent(page[u])
    BY DEF TInv, DraftIsOfItsNote
  <1>2. CASE page'[t] = page[t]
    BY <1>1, <1>2 DEF Coherent
  <1>3. ASSUME NEW u \in Tabs, Local(u) PROVE Coherent(page'[t])
    <2>1. CASE u = t
      BY <1>0, <1>1, <1>3, <2>1, LocalCoherent
    <2>2. CASE u # t
      BY <1>0, <1>2, <1>3, <2>2, LocalEffect
    <2> QED  BY <2>1, <2>2
  <1>4. ASSUME NEW u \in Tabs, Sends(u) PROVE Coherent(page'[t])
    <2>1. PICK p \in Page :
              /\ page' = [page EXCEPT ![u] = p]
              /\ \/ \E n : p = [page[u] EXCEPT !.wanted = @ \ {n}]
                 \/ p = [page[u] EXCEPT !.saving = TRUE, !.conflict = NoNote]
                 \/ p = page[u]
      BY <1>0, <1>4, SendsEffect
    <2>2. page[u] \in Page
      BY <1>0
    <2>3. /\ p.note = page[u].note /\ p.origin = page[u].origin
          /\ p.basis = page[u].basis
      BY <2>1, <2>2 DEF Page
    <2>4. page'[t] = IF t = u THEN p ELSE page[t]
      BY <1>0, <2>1
    <2> QED  BY <1>1, <2>3, <2>4 DEF Coherent
  <1>5. ASSUME NEW r \in Requests, NEW answer, Returned(r, answer)
        PROVE  Coherent(page'[t])
    <2> DEFINE q == task[r].req
               u == client[r].tab
    <2>1. CASE u # t
      <3>1. page' = page \/ \E c \in Page : page' = [page EXCEPT ![u] = c]
        BY <1>0, <1>5, ReturnEffect DEF EInv
      <3> QED  BY <1>0, <1>2, <2>1, <3>1
    <2>2. CASE u = t
      <3>0. u # NoTab
        BY <2>2, TabAssumption
      <3>1. ~At(r, "idle") /\ q.op \in CallOps
        BY <1>0, <3>0 DEF EInv, CallsOK
      <3>2. q \in Request /\ Carries(q, answer, task[r].copy)
        BY <1>0, <1>5, <3>1, RequestByLabel, CarriesWhatWasRead
        DEF EInv, Inv, TypeOK, Task, At, Returned, Deliver
      <3>3. ASSUME answer = "ok", q.op = "update"
            PROVE  AsSaved(page[t], q) /\ task[r].copy.version = q.expected + 1
        <4>1. At(r, "done") /\ task[r].answer = "ok"
          BY <1>5, <3>3 DEF Returned, Deliver
        <4>2. Undisturbed(r) /\ SavesAreKnown
          BY DEF TInv
        <4> QED  BY <2>2, <3>0, <3>3, <4>1, <4>2 DEF Undisturbed, SavesAreKnown
      <3>4. page'[t] = Continued(page[t], q, answer, task[r].copy)
        BY <1>0, <1>5, <2>2, <3>0, ReturnClients
      <3>5. page[t] \in Page /\ Coherent(page[t])
        BY <1>0, <1>1
      <3> QED  BY <3>1, <3>2, <3>3, <3>4, <3>5, ContinuedCoherent
    <2> QED  BY <2>1, <2>2
  <1> QED  BY <1>2, <1>3, <1>4, <1>5, EditSteps DEF evars, ServerStep

LEMMA KnownSavesStep ==
    ASSUME TInv, EInv', [EditNext]_evars, \A r, s \in Requests : r = s
    PROVE  SavesAreKnown'
  <1> SUFFICES ASSUME NEW x \in Requests, client'[x].tab # NoTab,
                      task'[x].req.op = "update"
               PROVE  /\ task'[x].req.expected = client'[x].basis
                      /\ AsSaved(page'[client'[x].tab], task'[x].req)
    BY DEF SavesAreKnown
  <1>0. /\ EInv /\ TypeOK /\ PageTypes /\ page \in [Tabs -> Page]
        /\ client \in [Requests -> Client] /\ SavesAreKnown
    BY DEF TInv, EInv, Inv, PageTypes
  <1>1. ASSUME Unmoved(x)
        PROVE  /\ client'[x] = client[x] /\ task'[x].req = task[x].req
               /\ task[x].req.expected = client[x].basis
               /\ AsSaved(page[client[x].tab], task[x].req)
    BY <1>0, <1>1 DEF Unmoved, SavesAreKnown
  <1>2. CASE Unmoved(x) /\ page' = page
    BY <1>1, <1>2
  <1>3. ASSUME NEW t \in Tabs, Local(t)
        PROVE  /\ task'[x].req.expected = client'[x].basis
               /\ AsSaved(page'[client'[x].tab], task'[x].req)
    <2>1. /\ UNCHANGED vars /\ client'[x] \in {client[x], Nobody}
          /\ \E p \in Page : page' = [page EXCEPT ![t] = p]
      BY <1>0, <1>3, LocalEffect, ForgetOK
    <2>2. Unmoved(x)
      BY <2>1 DEF Unmoved, Nobody, vars
    <2>3. CASE client[x].tab = t
      BY <1>0, <1>1, <1>3, <2>2, <2>3, SavedPageStays
    <2>4. CASE client[x].tab # t
      <3>1. page'[client[x].tab] = page[client[x].tab]
        <4>1. client[x].tab \in Tabs
          BY <1>0, <1>1, <2>2 DEF Client
        <4> QED  BY <1>0, <2>1, <2>4, <4>1
      <3> QED  BY <1>1, <2>2, <3>1
    <2> QED  BY <2>3, <2>4
  <1>4. ASSUME NEW t \in Tabs, Sends(t)
        PROVE  /\ task'[x].req.expected = client'[x].basis
               /\ AsSaved(page'[client'[x].tab], task'[x].req)
    <2>1. PICK r \in Requests, q \in Request, p \in Page :
              /\ Begins(t, r, q)
              /\ page' = [page EXCEPT ![t] = p]
              /\ \/ q.op # "update"
                 \/ /\ ClickSave(t) /\ q \in SaveRequest(t)
                    /\ p = [page[t] EXCEPT !.saving = TRUE, !.conflict = NoNote]
      BY <1>0, <1>4, SendsEffect
    <2>2. x = r
      OBVIOUS
    <2>3. task'[x].req = q
      BY <1>0, <2>1, <2>2, RequestArrives DEF Begins
    <2>4. /\ q.op = "update" /\ ClickSave(t) /\ q \in SaveRequest(t)
          /\ p = [page[t] EXCEPT !.saving = TRUE, !.conflict = NoNote]
      BY <2>1, <2>3
    <2>5. /\ page[t].note # NoNote /\ q.note = page[t].note.id
          /\ q.expected = page[t].note.row.version
      BY <1>0, <2>1, <2>4, SaveBegins
    <2>6. page[t].basis = q.expected
      BY <2>5 DEF TInv, DraftIsOfItsNote, Coherent
    <2>7. client'[x].tab = t /\ client'[x].basis = q.expected
      BY <1>0, <2>1, <2>2, <2>6 DEF Begins
    <2>8. page'[t].note = page[t].note /\ page'[t].conflict = NoNote
      BY <1>0, <2>1, <2>4 DEF Page
    <2> QED  BY <2>3, <2>5, <2>7, <2>8 DEF AsSaved
  <1>5. ASSUME NEW r \in Requests, ServerStep(r) PROVE Unmoved(x) /\ page' = page
    <2>1. x = r
      OBVIOUS
    <2> QED  BY <1>0, <1>5, <2>1, RequestStays DEF ServerStep, Unmoved
  <1>6. ASSUME NEW r \in Requests, NEW answer, Returned(r, answer) PROVE FALSE
    <2>1. x = r
      OBVIOUS
    <2>2. CASE client[r].tab # NoTab
      BY <1>0, <1>6, <2>1, <2>2, ReturnClients
    <2>3. CASE client[r].tab = NoTab
      BY <1>6, <2>1, <2>3 DEF Returned, Resume
    <2> QED  BY <2>2, <2>3
  <1>7. UNCHANGED evars => Unmoved(x) /\ page' = page
    BY DEF evars, vars, Unmoved
  <1> QED  BY <1>2, <1>3, <1>4, <1>5, <1>6, <1>7, EditSteps

LEMMA TInvStep ==
    ASSUME \A r, s \in Requests : r = s
    PROVE  TInv /\ [EditNext]_evars => TInv'
  <1> SUFFICES ASSUME TInv, [EditNext]_evars PROVE TInv'
    OBVIOUS
  <1>1. EInv /\ EInv' /\ DraftIsOfItsNote' /\ SavesAreKnown'
    BY EInvStep, CoherentStep, KnownSavesStep DEF TInv
  <1>2. ASSUME NEW r \in Requests PROVE Undisturbed(r)'
    <2>1. Undisturbed(r)
      BY DEF TInv
    <2>2. CASE UNCHANGED vars
      BY <2>1, <2>2 DEF vars, tables, Undisturbed, At, Live
    <2>3. CASE Act(r)
      BY <1>1, <2>1, <2>3, UndisturbedStep DEF EInv
    <2>4. UNCHANGED vars \/ Act(r)
      <3>1. PICK s \in Requests : UNCHANGED vars \/ Act(s)
        BY <1>1, StepEffect
      <3>2. s = r
        OBVIOUS
      <3> QED  BY <3>1, <3>2
    <2> QED  BY <2>2, <2>3, <2>4
  <1> QED  BY <1>1, <1>2 DEF TInv

LEMMA TInvInit == EditInit => TInv
  <1> SUFFICES ASSUME EditInit PROVE TInv
    OBVIOUS
  <1>1. /\ \A t \in Tabs : page[t] = Closed
        /\ \A r \in Requests : client[r].tab = NoTab /\ task[r].pc = "idle"
    BY DEF EditInit, Init, IdleTask, Nobody
  <1> QED  BY <1>1, EInvInit
     DEF TInv, DraftIsOfItsNote, Coherent, Closed, SavesAreKnown, Undisturbed, At

(* As long as the server has one request at a time, however many tabs edit  *)
(* the note, wherever they move and whatever connections break, a save that *)
(* is applied replaces a version whose text its author was shown or wrote.  *)
THEOREM NoSilentOverwriteHolds ==
    ASSUME \A r, s \in Requests : r = s
    PROVE  EditSpec => []NoSilentOverwrite
  <1>1. TInv => NoSilentOverwrite
    <2> SUFFICES ASSUME TInv, NEW r \in Requests, client[r].tab # NoTab,
                        task[r].applied
                 PROVE  task[r].req.expected = client[r].basis
      BY DEF NoSilentOverwrite
    <2>1. task[r].req.op = "update"
      BY DEF TInv, EInv, Inv, AppliedIsPast, PastBase, Updates, UpdatesOf
    <2> QED  BY <2>1 DEF TInv, SavesAreKnown
  <1> QED  BY <1>1, TInvInit, TInvStep, PTL DEF EditSpec
=============================================================================
