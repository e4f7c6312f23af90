# NA Notes in TLA+

NA Notes is a note-taking application with one OpenAPI contract and several
interchangeable backends (Rust, Go, Kotlin, Python) and frontends (React, Vue,
Svelte, Angular). This directory specifies and verifies one pair of them,
`backend-rust` and `frontend-react`: the parts in which requests, statements,
responses and clicks interleave.

## The system

| Part | State | Operations | What is hard |
|---|---|---|---|
| Notes service, `notes/service.rs` over `notes/repository.rs` | tables `notes`, `note_shares`, `note_public_shares`, `note_mentions` | create, get, update (If-Match), delete, share, revoke, publish, unpublish, public read, feed, list of shares | no transactions: a handler is a sequence of statements, each committed on its own, and handlers interleave between them; failing statements and dropped connections leave a prefix behind |
| Sign-in and sessions, `auth_handlers.rs`, `auth/store.rs`, `users/mod.rs` | tables `users`, `oidc_requests`, `sessions` | login, callback, session lookup, logout, me | a callback is a chain of SELECT-then-write pairs; expiry; emails that change at the provider |
| HTTP layer, `httpapi/` | per-request context | session lookup, CSRF, CORS, routing, JSON | the order of the layers; a user looked up once while sessions end on other replicas |
| Database layer and start-up, `db/`, `main.rs` | one connection behind a mutex (SQLite) or a pool (PostgreSQL); `schema_migrations` | execute, query, migrate | statements autocommit; the migration runner is check-then-act, and replicas of several releases run it on one database and may die in it |
| Mail, `mail/` | none | share and mention notifications | best effort, after the fact |
| Note editor, `NoteEditorPage.tsx`, `api/client.ts` | one React component per tab, kept while the router moves between `/notes/new` and `/notes/:id` | load, type, save, take the conflict, reload, delete | responses arrive in any order and are applied to whatever the page has become; nothing is cancelled |
| Dashboard feed, `useNoteFeed.ts`, `NoteGrid.tsx`, `cursor.rs` | pages loaded so far, cursor, what the observer last reported | load more | notes move while they are paged; timestamps are compared as text; an observer that reports only changes |
| Note cards, `NoteCard.tsx`, `taskList.ts` | an optimistic copy of the text | toggle a task | two requests per click, rollbacks, clicks that overlap |
| Share dialog, `ShareDialog.tsx` | the last list it was given | share, revoke, publish, withdraw the link, list | reloads out of order, calls that fail in silence |

The browser calls the HTTP API; handlers call the service, the service calls
the repositories, each repository call is one SQL statement (create and update
are two), and the service hands mails to SMTP after it has written. Nothing is
shared between handlers, or between replicas, but the tables.

What makes each part correct:

- *Notes service*: a version number stands for one text and is saved from at
  most once; a deleted note leaves nothing behind and an address that stopped
  working stays dead; nothing happens without the right to it; whoever is mailed
  about a mention is on record; every request is answered.
- *Sign-in*: a login state that was used up stays used up; one person has one
  account; clean-up takes only what has expired.
- *HTTP layer*: what changes state for a user carries the token of that user's
  session; a session that is over acts for nobody; the frontend can read every
  answer; every request is answered.
- *Start-up*: every migration takes effect once, in order, all or nothing, and
  is on record; a replica that serves has its schema; every replica comes up.
- *Note editor*: no edit is lost or overwritten in silence; the text of a note
  stays in that note; a conflict offers what is really newer; saving ends.
- *Feed*: a note nobody touches is listed once, in order; scrolling gets to the
  end.
- *Cards and dialog*: a click changes one box of whatever text it meets; at rest
  they show what the server has.

## The modules

| Module | Models | Depends on |
|---|---|---|
| `NotesService` | the handlers, statement by statement | |
| `NotesContract` | the abstract specification: each operation one atomic change of the tables | |
| `NotesHistory` | `NotesService` with history variables, and the refinement of `NotesContract` | `NotesService`, `NotesContract` |
| `EditSession` | editor tabs composed with `NotesService` | `NotesService` |
| `NoteCards` | check boxes on cards, composed with `NotesService` | `NotesService` |
| `ShareDialog` | the share dialog and `list_shares`, composed with `NotesService` | `NotesService` |
| `SharedNote` | cards and dialog of one note together | `NoteCards`, `ShareDialog` |
| `Feed` | the dashboard: query, cursor, hook, sentinel, and those who write meanwhile | |
| `Login` | sign-in, sessions, the clock, the provider's emails | |
| `Migrations` | replicas starting on one database | |
| `Server` | the layers of the HTTP server on replicas that have come up | `Migrations` |
| `NotesSafety` | theorems and proofs about `NotesService` | `NotesService` |
| `HistorySafety` | the same about `NotesHistory`, and that it implements `NotesContract` | `NotesHistory`, `NotesSafety` |
| `EditSafety` | the same about `EditSession` | `EditSession`, `NotesSafety` |
| `SharedSafety` | the same about `SharedNote` | `SharedNote`, `NotesSafety` |
| `FeedSafety` | the same about `Feed` | `Feed` |
| `LoginSafety` | the same about `Login` | `Login` |
| `MigrationsSafety` | theorems and proofs about `Migrations` | `Migrations` |
| `ServerSafety` | theorems and proofs about `Server`, and that it implements `Migrations` | `Server`, `MigrationsSafety` |
| `MCNotes`, `MCNotesHistory`, `MCEditSession`, `MCSharedNote`, `MCLogin`, `MCServer` | the instances for TLC (`Feed` is its own) | |

### How the models follow the code

*Handlers.* `task[r]` is one axum handler: `pc` names the statement it awaits,
the other fields are its locals. An action is one statement with the
straight-line code up to the next await: `LoadNote` is `get_by_id` and the
branches on the owner that follow it in `Service::get`, `delete` and
`require_owner`; `LookupGrant` is `share_permission` and the branches in `get`
and `update`; `ExistingMentions`, `WriteNote` and `Reread` are the three
statements of a save; `RecordMention` is one INSERT of `add_mentions`,
`NotifyMention` one round of the mail loop; the rest are single statements.
`UPDATE ... WHERE version = ?` is `Matches`; foreign keys and cascades
(`0001_init.sql`) are the `Live` tests of the inserts and the four tables that
`DeleteNote` changes. `Fault` is a driver error at a statement, with what the
handler makes of it; `Disconnect` drops the future, as axum does when the
connection closes and as a crash does for all of them. `Receive` and `Deliver`
are the request's arrival, past routing and authentication, and its response.

SQLite (one connection behind a mutex) and PostgreSQL (READ COMMITTED, each
statement its own transaction) both allow exactly these interleavings of single
statements.

*Data.* Title and Markdown are one payload; a payload with an empty title is
`Untitled`. A uuid or token is drawn from a pool of unused ones when the request
arrives (drawing it later changes nothing, because nothing else reads it).
Users are constant for the notes service: no code deletes one.

*Editor.* `page[t]` is the component's state (`note`, `title` and `content` as
`draft`, `loading`, `saving`, `error` as `failed`, `conflict`), the route, and
the loads its effect has still to send (`wanted`). A tab sends a request by the
service's own `Receive` and consumes the answer by its `Deliver`
(`Reply`), in any order; `Lost` is a rejected fetch. `/notes/new` and
`/notes/:id` render the same component type at the same place, so `Visit` (the
"New note" link of the header, back, forward) keeps the state, while `Leave`
unmounts. After `Leave` the answers of loads and saves fall on the floor, those
of create and delete still navigate.

*Sign-in.* As for the notes, with a clock: `Purge` and `Start` are
`create_oidc_request`, `Consume` and `Burn` are `consume_oidc_request` (the
expiry is looked at after the DELETE, as in the code), then `Exchange`,
`FindUser`, `SaveUser` (the UNIQUE constraints are `Unique`) and
`OpenSession`. `GetSession` is the middleware's lookup.

*Feed.* `feed` is the state and refs of `useNoteFeed` with the scroll position
and the observer's last report; `reply` is the request in flight. `ListForViewer`
is the query: rows after the cursor in the order of `(updated_at, id)`, one more
than the page to know whether there is a next one; `InOrder` says what ORDER BY
promises, a list of all the rows with none after an older one. `TextKey` is the order of
`to_rfc3339_opts(AutoSi)` as text: an instant with fewer digits sorts after those
with more in the same cell. A write is stamped before its statement runs, on any
replica, so writes carry times in any order. An IntersectionObserver reports its
target when it starts observing and then only when the target enters or leaves
the view, which is what `Observe` does with `reported`; `loadMore` returns early
while a load is under way.

*Cards and dialog.* A body is the sequence of its boxes. A click is
`Toggle` (up to the first await), then a GET and a PUT sent by the service's own
`Receive`; `ContinueToggle` is what follows each await, `RollBack` the catch.
The dialog's calls are requests of the service too; `list_shares` is three
statements of its own (`LoadListing`, `ListShares`, `GetPublicShare`), so that
calls take effect between them. `told`, `crossed`, `hurried` and `missed` are
history: no action looks at them.

*Start-up.* `Migrations` has a process per replica: CREATE TABLE IF NOT EXISTS
(which on PostgreSQL looks and then creates), the loop over its own files with
the SELECT, and per file the three steps of the transaction. The INSERT of the
primary key waits for another transaction with the same key and fails when that
commits. `Crash` is the end of a process for any reason, a failed statement or
an identity provider that is away included.

*HTTP layer.* `conn[i]` is the request a replica works on and `at` the layer it
is in; the layers are actions in the order of `build_router`, answers go back
through CORS. Handlers are one step there; only logout's effect is kept.

A definition named `Operation_Slip` (`Matches_AnyVersion`,
`DeleteNote_NoCascade`, ...) is the operation with one plausible slip. No
specification uses it; it is there to show that a property notices the slip.

## What is checked

| Run | Instance | Shows |
|---|---|---|
| `tables` | 2 users and a stranger, 1 note, a mention, 2 handlers of every write, faults and disconnects; 2.7 million states | `TypeOK`; `NoOrphans`, `OwnerIsNoGuest` under races of sharing, revoking, publishing, saving and deleting; `MailedIsRecorded` |
| `rights` | 2 users, 1 note, 2 tokens, 2 handlers; 1.5 million states | `NothingWithoutRight`: check and use are awaits apart, yet every effect had a right behind it during its request; `OnlyTheOwner`; `SpentStaysSpent`: a link that was withdrawn or replaced never opens anything again; `ImplementsContract`: the statements implement the atomic contract |
| `edit_pages` | 2 tabs, 1 note, 2 texts, 2 requests in flight, versions to 3; 511 000 states | `SameVersionSameBody`, `OneSavePerVersion`: optimistic concurrency is sound at the table; `OkReportsTheSave`: an answered save is in the answer, or before it; `EditTypeOK`, `PagesKnowTheirVersions`, `ConflictIsNewer` in the pages |
| `edit_serial` | 2 tabs that wander, 1 request in flight, versions to 3, faults, fairness; 285 000 states | `NoSilentOverwrite` holds when handlers do not interleave; `EveryRequestAnswered`, `SavingEnds` |
| `shared_note` | an owner's dialog and two people's cards of one note with two boxes, 2 handlers, 2 clicks, faults and disconnects; 204 000 states | `ToggleIsSurgical`: a click that is saved sets one box in the text it replaces, and nothing else; `QuietCardIsTrue`, `QuietDialogIsTrue`: cards and dialog at rest show what the server gave them, whatever failed or was withdrawn on the way |
| `feed` | 3 notes, one of them lent, pages of one, times that tie and that sort against time, failing loads, a session that may end; 238 000 states | `SteadyNotesOnce`: what nobody touches is neither skipped nor listed twice while the rest moves; `NewestFirst` over the seams of pages; `FeedEnds` for a user who scrolls |
| `login` | 2 people, 2 emails, 2 handlers, faults, clock to 1; 475 000 states | `TypeOK`, `SameAccountEveryTime`, `StateBurns`: a state whose row is gone never passes again, `UnexpiredStays` |
| `server` | 2 replicas, an old release and a new one, one crash, 2 sessions, a request at a time; 388 000 states | `AppliedOnce`, `JournalIsTrue`, `NoGaps`, `ServingHasSchema` under races and crashes in the migrations; `EveryReplicaServes`; `WritesCarryTheToken`, `EndedSessionsStayOut`, `FrontendCanRead`, `RequestsFinish` in the layers |

Four runs show a disagreement between the code and what the repository says of
it, each as the counterexample TLC finds:

- `unknown_mention` (`SaveNeverFails`): the comment in `service.rs` says an
  unknown mention is skipped; the INSERT before it breaks the foreign key, and
  a save that was applied is answered 500.
- `edit_overtaken` (`NoSilentOverwrite`, ADR 0008): tab 1's UPDATE makes version
  2, tab 2 loads it and saves version 3, and only then does tab 1's handler read
  the row for its answer. Tab 1 adopts version 3 and keeps its own text; its
  next save carries `If-Match: 3` and overwrites tab 2's text unseen. The same
  property holds in `edit_serial`: the interleaving is what it takes.
- `edit_wander` (`TextStaysInItsNote`): a save is in flight, the user goes back
  to another note, that note loads, and the save's answer makes the page
  believe it shows the first note. The next save writes one note's text over
  the other.
- `feed_stall` (`FeedEnds`, ADR 0007): the first page does not push the sentinel
  out of the screen and its margin. The observer reported it while the page was
  loading, when `loadMore` returns early, and reports nothing more; the page is
  too short to scroll, and the rest of the notes is out of reach. In `feed` the
  screen is short (`Screen = 0`), and scrolling gets to the end.

More is in the models and has no run of its own. Two concurrent saves with the
same new mention both mail it, as the recorded mentions are read first; a
failure between recording and mailing leaves a mention on record that nobody was
told of. Two callbacks with one state that both read its row can both pass. A
row whose email is out of date keeps the email's new owner from signing in.
Logout answers 204 when its DELETE fails. Clicks on one card that overlap can
leave it with a text from before either, and calls of the dialog that overlap
with an older list, which `crossed` and `hurried` except. A session that ends
while the feed is scrolled turns the next page into the sample note, and the
feed ends there. A load that replaces the draft leaves the conflict banner of
the note shown before, which is why `edit_pages` keeps its tabs on their notes
(`Wander = FALSE`).

### Bounds

Two handlers make every race of two requests, and every hazard the project
lists needs no more than two; with three, the state space of the statements is
out of TLC's reach. The proofs cover any number for the properties they
establish. Versions to 3 leave room for a save, a save that overtakes it and a
conflict; `edit_overtaken` takes one more, for the save after the overtaken one;
`tables` and `rights`, where no property looks at texts, take one save. Two bodies tell whose
text is in a row; where no property looks at the text there is one. Two tokens
let one replace the other; two notes are needed only where the property relates
notes (`edit_wander`). Mails are counted to two (`MailCap`), a state's
callbacks to two (`PassedCap`): once and more than once is all that is told
apart. In `login` the times to live are 0 and the clock moves once, so that
everything that was issued can be found expired. A request that could find a
pool of ids empty does not arrive (`PoolsSuffice`, and the guard on `Drawn` in
`Receive`). Slots, tabs, states, sessions, user ids, people and emails are
symmetric where no liveness is checked. Deadlock is checked
in every run but `shared_note`, whose users may stop clicking.

In `shared_note` all users together click twice (`MaxActs`, `MaxErrands`): two
clicks overlap on one card, on two, or a click overlaps with a call of the
dialog. In `feed` pages have one note (`PageSize = 1`), so that three notes make
four pages and every note is at a seam; two times (`MaxTime = 1`), one on the
coarse grid (`Grain = 2`), make ties and an order of text that is not that of
time. Lengths are cards: `Screen = 0` has every page push the sentinel out of
view, `Screen = 1` none of the first. In `server` one replica has a migration
more than the other, one of them dies once (`MaxCrashes = 1`) at any place, and
one request passes at a time (`MaxRequests = 1`) while sessions start and end
around it; requests do not touch each other but through sessions. The proofs
cover any number of all of these for the safety properties.

### Fairness

`FairSpec` asks for weak fairness of every handler's next statement: tokio polls
each ready task, and no lock is held across an await (SQLite's mutex is taken
inside one blocking call), so nothing keeps a handler from its next statement.
Nothing is assumed of clients: they need not send, type or click.
`FairEditSpec` adds that a response that was sent arrives or is lost.

`Feed` assumes that requests are answered, that the browser gets to report what
the observer sees (strong fairness, as the user may scroll past again before it
does), and that the user scrolls up and down as far as the page goes - without
the user nothing asks for a page. `MigrationsFairness` and `ServerFairness`
assume that a process that runs takes its next step, and that whoever operates
it (a container's restart policy) starts a replica again that has died; crashes
are not fair. `EveryReplicaServes` needs no more: a replica that lost the race
for a migration fails once, and finds it recorded when it is started again.

## What is proved

Every safety property of the passing runs is a theorem, for every number of
users, notes, tokens, bodies, tabs, cards, replicas, requests in flight, and
whatever else is a constant. Each inductive invariant was model-checked before
it was proved. Every component's proof has the same form: a lemma per action or
group of actions for each part of the invariant, a lemma that combines them, and
theorems that read the property off the invariant.

**The notes service.** `NotesSafety` proves, for every number of users, notes,
tokens, bodies, mention lists and concurrent handlers, with faults or without:
`TypeCorrect`, `NoOrphansHolds`, `SameVersionSameBodyHolds`,
`OneSavePerVersionHolds`, `OkReportsTheSaveHolds`, `OwnerIsNoGuestHolds` and
`MailedIsRecordedHolds`. They rest on the assumptions that `NotesService` names
(`UsersAssumption`, `OpsAssumption`, `VersionAssumption`, `MentionAssumption`,
`AbsenceAssumption`): strangers are not users, the values for "no row", "no
link" and "empty title" are none of the data.

None of the properties is inductive by itself. `Inv` in `NotesSafety` adds:

- `InUseIsMinted`, `PendingIsUnknown`: a row, or a request about a note, has a
  drawn id, and the id of a note about to be inserted is known to nobody else.
  Without them an INSERT could hit a live note and lower its version.
- `OwnerWasChecked`: past `require_owner`, a handler's actor is the owner of the
  note if it still exists, because owners never change and ids are not reused.
  It carries `OwnerIsNoGuest` over the await between check and write.
- `AppliedIsPast`: a save that was applied was based on a version that the table
  has left behind. It makes a second save from that version impossible.
- `SaveIsReported`: what a handler holds after it was applied is at or past the
  version it made.
- `PassedAreRecorded`: the mentions a handler has gone past are recorded as long
  as the note exists. It carries `MailedIsRecorded` over the loop of INSERTs.

The proof has one lemma per action for the types, and one per action and group
of conjuncts for the rest.

**The notes service over time.** `HistorySafety` proves `SpentStaysSpentHolds`,
`NothingWithoutRightHolds`, `OnlyTheOwnerHolds` and the refinement
`HandlersImplementContract`. `HInv` adds to `Inv`:

- `NamesAreMinted`, `OwedIsNew`, `OneBearer`: every id or token in use or out of
  use was drawn; what a handler has drawn and not yet written is nobody else's;
  no two notes answer to one address. Without them an INSERT could bring a spent
  address back.
- `SaversMayEdit`: a handler past the authorization of a save held a right to it
  when it looked, which `held` remembers over the awaits that follow.

The refinement shows of each statement that writes that it is the one action of
the contract it carries out, or nothing where it hits no row, and that every
other statement is a stutter. The guards of the contract hold where the
statement runs, and not only where the handler looked, by `OwnerWasChecked` (a
share is never the owner's own), `PendingIsUnknown` and `OwedIsNew` (what is
created or published has a fresh address) and `NoOrphans` (a second
deletion of a note finds nothing to take).

**Editor pages.** `EditSafety` proves of `EditSession` `EditTypeCorrect`,
`PagesKnowTheirVersionsHolds`, and that tabs use the service by its endpoints
alone (`EditorsUseTheService`, a refinement; `Ops` must have the four that
tabs call), so that what is proved of the service is so behind them
(`EditorsSaveSoundly`). `EInv` says that whatever a
page or a response on its way holds is true of its note (`PagesTellTheTruth`:
not past the table, and the table's text at the table's version) and that pages
agree among themselves (`PagesAgree`). Two theorems carry a hypothesis, and the
code violates the property without it:

- `ConflictIsNewerHolds` assumes `~Wander`, that tabs do not move from one
  editor page to another. `SInv` shows that such a tab has one call out at a
  time and that its page is as that call left it.
- `NoSilentOverwriteHolds` assumes that the server has one request at a time
  (`\A r, s \in Requests : r = s`); tabs may move anywhere. `TInv` shows that a
  save is then answered with its own version. `edit_overtaken` is the
  counterexample with two.

**Cards and dialog.** `SharedSafety` proves of `SharedNote` `NoteTypeCorrect`,
`QuietCardIsTrueHolds`, `QuietDialogIsTrueHolds` and `ToggleIsSurgicalHolds`.
`NInv` adds to `Inv`:

- `RequestsHaveSenders`, `ClicksWait`: every request under way is one click's or
  one call's of the dialog, and each waits for one answer.
- `FetchedIsTrue`: what a click has fetched is a version the note had. With
  `If-Match` it makes the text that a click saves the text it replaces, with one
  box set.
- `CardsAreTrue`: on a card that no two clicks cross, the text to go back to is
  what the server told it.
- `OneAtATime`, `ListsAreCurrent`: a dialog that nobody hurries has one call or
  one reload out, and what that reload has read so far is still so.

**Feed.** `FeedSafety` proves `FeedTypeCorrect`, `NewestFirstHolds` and
`SteadyNotesOnceHolds`, for any notes, page size, screen and grain of
timestamps. It shows first that `Before` orders the rows linearly
(`TextTellsTimes`: no two instants have one text; `BeforeIsOrder`), that finitely
many rows can therefore be listed in order (`OrderExists`, by a least
counterexample; `IdAssumption` says that a table has finitely many rows), and
what a page is (`QueryGivesPage`). Then `FInv` adds to the type:

- `SeamsHold`: the cursor is the last card, and the page on its way begins after
  the cursor.
- `SteadyIsKnown`: of the notes nobody touches, those the cursor has gone past
  are exactly those listed so far, each once; the page on its way has some of
  those that the cursor has not gone past, and with them its own cursor has gone
  past just what is listed then.

`InOrder` is a CHOOSE rather than the community modules' `SetToSortSeq` because
the prover cannot open TLC's `SortSeq`, on which that one rests.

**Sign-in.** `LoginSafety` proves `LoginTypeCorrect`, `SameAccountHolds`,
`StateBurnsHolds` and `UnexpiredStaysHolds`, from `AbsentAssumption`. `LInv` adds
to the type `OneAccount` (no subject has two), `AccountAtHand` and
`SessionsBelong` (an account that a callback holds or a session names is its
subject's, because rows of `users` change their email and never their subject),
`NewIdIsNew` and `NewStateIsNew` (an id is inserted once, and no callback has
seen a state that is still to be inserted, so that a burned state does not come
back).

**Start-up.** `MigrationsSafety` proves `AppliedOnceHolds`, `JournalIsTrueHolds`,
`NoGapsHolds` and `ServingHasSchemaHolds` for any number of replicas, releases
and crashes, from `FilesAssumption` and `ForwardOnly` (a release adds files
after those of the last one, which ADR 0006 calls forward-only). Its `IInv` adds
to the type:

- `Honest`: what is recorded took effect once, what is not did not.
- `OneCommitter`: no two replicas are at the COMMIT of the same file, and none
  is at that of a file already recorded. This is what the primary key gives, and
  without it the race between SELECT and INSERT would apply a file twice.
- `Behind`: whatever a replica's loop has passed is recorded. It carries
  `ServingHasSchema` from the loop to the listening socket; `NoGaps` for the
  other releases follows from it by `ForwardOnly` when a file is committed.

**The HTTP layer.** `ServerSafety` proves `WritesCarryTheTokenHolds`,
`EndedSessionsStayOutHolds`, `FrontendCanReadHolds` and `ServerTypeCorrect`, for any number of replicas, sessions, users and
requests under way. `PInv` says of each request what its layer has established:
`ActsForItsCookie` (a user in the context is the owner of the session whose
cookie and token it has, and that session was not over when the request came),
`Checked`, `Admitted`, `Readable`, and `Known` (a session that was over stays
over, as ids are never drawn again). `WritesNeedAUser` reads off the table of
routes that every method which changes state asks for a user: it is what stands
behind the CSRF check when a lookup fails. `ServerStartsUp` is a refinement: every
step of a server is a step of `Migrations` or none, so the theorems of
`MigrationsSafety` hold of servers (`ServedOnItsSchema`).

Only model-checked: liveness (`EveryRequestAnswered`, `SavingEnds`, `FeedEnds`,
`EveryReplicaServes`, `RequestsFinish`), which the prover does not reach: it has
no rule for ENABLED, on which fairness rests. `ConflictIsNewer` and
`NoSilentOverwrite` are proved under the hypotheses above, which are those of
the runs that check them.

## What is not modelled, and the plan

1. The wording of Markdown: how `taskList.ts` finds the box of an index and how
   `mentions.ts` finds ids, as pure operators over lines. Until then a body is
   its boxes, and a box keeps its place unless someone edits the text.
2. Numbers at the edges: `If-Match` is any 64-bit number and PostgreSQL's
   version column has 32 bits; versions here are small.
3. The pool of PostgreSQL connections at its limit, and the placeholder
   rebinding of `rebind.rs`.
4. Closing the share dialog, its search box, and pages that are read-only: no
   state of theirs outlives them.
5. Proofs: what is left of the safety properties is to be stated for more of
   the program, as the parts above are modelled; the lemmas on `Act`, `OthersWait`
   and `AnswersStep` in `NotesSafety` are there for any module that composes
   with the service.

Left out for good: the other backends and frontends, which implement the same
contract; Markdown rendering and editing, which are third-party; configuration,
containers and CI, which have no behaviour of their own; the content of mails.
