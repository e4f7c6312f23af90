---------------------------- MODULE SharedSafety ----------------------------
(***************************************************************************)
(* The cards and the share dialog of SharedNote over the notes service,    *)
(* proved for any number of cards, clicks, calls, reloads and requests in  *)
(* flight: a click that is saved sets its box in the text that it replaces *)
(* and changes nothing else, and at rest cards and dialog show what the    *)
(* server gave them.                                                       *)
(***************************************************************************)
EXTENDS SharedNote, NotesSafety

(* Every request under way is a click's or an errand's, never both.        *)
ErrandOps == {"share", "revoke", "publish", "unpublish"}
ClicksRequest(r) == /\ waiter[r] \in Clicks /\ r \notin errands
                    /\ task[r].req \in RequestOf(waiter[r])
ErrandsRequest(r) == /\ waiter[r] = NoClick /\ r \in errands
                     /\ task[r].req.op \in ErrandOps
                     /\ task[r].req.note = Shared
HasSender(r) == IF At(r, "idle") THEN waiter[r] = NoClick /\ r \notin errands
                ELSE ClicksRequest(r) \/ ErrandsRequest(r)
RequestsHaveSenders == \A r \in Requests : HasSender(r)

(* A click waits for one answer, and for none when it has ended.           *)
ClicksWait ==
    /\ \A r \in Requests : waiter[r] # NoClick =>
           /\ click[waiter[r]].stage \in {"get", "put"}
           /\ click[waiter[r]].sent
    /\ \A r, s \in Requests : waiter[r] = waiter[s] /\ waiter[r] # NoClick =>
           r = s

(* What a click has fetched is a version the note had, with its text.      *)
FitsTable(n, row) ==
    Live(n) => /\ row.version <= notes[n].version
               /\ row.version = notes[n].version => row = notes[n]
FetchedIsTrue ==
    \A c \in Clicks : click[c].stage = "put" =>
        /\ click[c].fetched \in Row
        /\ FitsTable(NoteOf[click[c].card], click[c].fetched)

(* A card that no two clicks cross goes back to what the server told it.   *)
CardIsTrue(k) ==
    ~card[k].crossed =>
        /\ \A c, d \in UnderWay(k) : c = d
        /\ \A c \in UnderWay(k) : click[c].previous = card[k].told
        /\ UnderWay(k) = {} => card[k].content = card[k].told
CardsAreTrue == \A k \in Cards : CardIsTrue(k)

(* A dialog that nobody hurries has one call or one reload out, and what a *)
(* reload has read is still so.                                            *)
Loading == {l \in Reloads : listing[l].at # "idle"}
OneAtATime ==
    ~dialog.hurried =>
        /\ \A r, s \in errands : r = s
        /\ \A l, m \in Loading : l = m
        /\ errands = {} \/ Loading = {}
ListsAreCurrent ==
    ~dialog.hurried =>
        \A l \in Reloads :
            /\ listing[l].at \in {"link", "listed"} =>
                   listing[l].shares = shares[Shared]
            /\ listing[l].at = "listed" => listing[l].link = links[Shared]

NInv == /\ Inv
        /\ CardsTypeOK
        /\ DialogTypeOK
        /\ AnswersWereRead
        /\ RequestsHaveSenders
        /\ ClicksWait
        /\ FetchedIsTrue
        /\ CardsAreTrue
        /\ OneAtATime
        /\ ListsAreCurrent
        /\ QuietDialogIsTrue
-----------------------------------------------------------------------------
(* Steps, by the component that takes them. *)
Answered(r, answer) == \/ Deliver(r) /\ answer = task[r].answer
                       \/ Disconnect(r) /\ answer = "internal"
ToggleReturns(r, answer) ==
    /\ waiter[r] # NoClick
    /\ Answered(r, answer)
    /\ ContinueToggle(waiter[r], answer, task[r].copy)
    /\ FreeWaiter(r)
ErrandReturns(r, answer) ==
    r \in errands /\ Answered(r, answer) /\ Continue(r, answer)

CardsStep ==
    \/ \E c \in Clicks, k \in Cards, place \in Places : Toggle(c, k, place)
    \/ \E c \in Clicks : SendToggle(c)
    \/ \E r \in Requests : \E answer : ToggleReturns(r, answer)
DialogStep ==
    \/ Errand
    \/ \E r \in Requests : \E answer : ErrandReturns(r, answer)
    \/ \E l \in Reloads : ListingStep(l)

LEMMA NoteSteps ==
    ASSUME [NoteNext]_nvars
    PROVE  \/ UNCHANGED nvars
           \/ CardsStep /\ UNCHANGED dvars
           \/ DialogStep /\ UNCHANGED cvars
           \/ \E r \in Requests : ServiceStep(r)
  <1>1. ASSUME NEW r \in Requests, LoseToggle(r) PROVE ToggleReturns(r, "internal")
    BY <1>1 DEF LoseToggle, ToggleReturns, Answered, ContinueToggle
  <1>2. ASSUME NEW r \in Requests, AnswerToggle(r)
        PROVE  ToggleReturns(r, task[r].answer)
    BY <1>2 DEF AnswerToggle, ToggleReturns, Answered
  <1>3. ASSUME NEW r \in Requests, AnswerErrand(r) \/ LoseErrand(r)
        PROVE  \E answer : ErrandReturns(r, answer)
    BY <1>3 DEF AnswerErrand, LoseErrand, ErrandReturns, Answered
  <1> QED  BY <1>1, <1>2, <1>3 DEF NoteNext, CardsStep, DialogStep

LEMMA SendBegins ==
    ASSUME NEW c \in Clicks, SendToggle(c)
    PROVE  \E r \in Requests, q \in Request :
               /\ Receive(r, q) /\ q \in RequestOf(c)
               /\ waiter' = [waiter EXCEPT ![r] = c]
               /\ click' = [click EXCEPT ![c].sent = TRUE]
               /\ card' = card
               /\ click[c].stage \in {"get", "put"} /\ ~click[c].sent
  <1>1. RequestOf(c) \subseteq Request
    BY DEF RequestOf, Request, NoteRequests
  <1> QED  BY <1>1 DEF SendToggle

LEMMA ErrandBegins ==
    ASSUME Errand
    PROVE  \E r \in Requests, q \in Request, cleared \in BOOLEAN :
               /\ Receive(r, q) /\ q.op \in ErrandOps /\ q.note = Shared
               /\ errands' = errands \cup {r}
               /\ dialog.made < MaxErrands
               /\ dialog' = [dialog EXCEPT !.made = @ + 1,
                                !.hurried = @ \/ ~DialogQuiet,
                                !.error = @ /\ ~cleared]
               /\ UNCHANGED listing
  <1>1. Owner \in Actors /\ Shared \in Notes
    BY DialogAssumption
  <1>2. ASSUME NEW q \in Request, NEW cleared \in BOOLEAN, Call(q, cleared),
               q.op \in ErrandOps, q.note = Shared
        PROVE  \E r \in Requests :
               /\ Receive(r, q)
               /\ errands' = errands \cup {r}
               /\ dialog.made < MaxErrands
               /\ dialog' = [dialog EXCEPT !.made = @ + 1,
                                !.hurried = @ \/ ~DialogQuiet,
                                !.error = @ /\ ~cleared]
               /\ UNCHANGED listing
    BY <1>2 DEF Call
  <1>3. ASSUME NEW u \in Users, NEW p \in Permission, HandleShare(u, p)
        PROVE  \E q \in Request : Call(q, TRUE) /\ q.op \in ErrandOps /\ q.note = Shared
    <2> DEFINE q == [op |-> "share", actor |-> Owner, note |-> Shared,
                     target |-> u, permission |-> p]
    <2>1. q \in Sharings
      BY <1>1 DEF Sharings
    <2>2. q \in Request /\ q.op \in ErrandOps /\ q.note = Shared
      BY <2>1 DEF Request, NoteRequests, OwnerRequests, ErrandOps
    <2> QED  BY <1>3, <2>2 DEF HandleShare
  <1>4. ASSUME NEW u \in Users, HandleRevoke(u)
        PROVE  \E q \in Request : Call(q, FALSE) /\ q.op \in ErrandOps /\ q.note = Shared
    <2> DEFINE q == [op |-> "revoke", actor |-> Owner, note |-> Shared,
                     target |-> u]
    <2>1. q \in Revokes
      BY <1>1 DEF Revokes
    <2>2. q \in Request /\ q.op \in ErrandOps /\ q.note = Shared
      BY <2>1 DEF Request, NoteRequests, OwnerRequests, ErrandOps
    <2> QED  BY <1>4, <2>2 DEF HandleRevoke
  <1>5. ASSUME NEW t \in Tokens, HandleCreatePublicLink(t)
        PROVE  \E q \in Request : Call(q, FALSE) /\ q.op \in ErrandOps /\ q.note = Shared
    <2> DEFINE q == [op |-> "publish", actor |-> Owner, note |-> Shared,
                     token |-> t]
    <2>1. q \in Publishes
      BY <1>1 DEF Publishes
    <2>2. q \in Request /\ q.op \in ErrandOps /\ q.note = Shared
      BY <2>1 DEF Request, NoteRequests, OwnerRequests, ErrandOps
    <2> QED  BY <1>5, <2>2 DEF HandleCreatePublicLink
  <1>6. ASSUME HandleRevokePublicLink
        PROVE  \E q \in Request : Call(q, FALSE) /\ q.op \in ErrandOps /\ q.note = Shared
    <2> DEFINE q == [op |-> "unpublish", actor |-> Owner, note |-> Shared]
    <2>1. q \in Unpublishes
      BY <1>1 DEF Unpublishes
    <2>2. q \in Request /\ q.op \in ErrandOps /\ q.note = Shared
      BY <2>1 DEF Request, NoteRequests, OwnerRequests, ErrandOps
    <2> QED  BY <1>6, <2>2 DEF HandleRevokePublicLink
  <1>7. PICK q \in Request, cleared \in BOOLEAN :
            Call(q, cleared) /\ q.op \in ErrandOps /\ q.note = Shared
    BY <1>3, <1>4, <1>5, <1>6 DEF Errand
  <1> QED  BY <1>2, <1>7

-----------------------------------------------------------------------------
(* What the service does to the note meanwhile. *)

LEMMA OnlyCardsAndDialogAsk ==
    ASSUME TypeOK, RequestsHaveSenders, NEW r \in Requests
    PROVE  ~InsertNote(r) /\ ~DeleteNote(r)
  <1>1. ASSUME At(r, "insert") \/ At(r, "delete") PROVE FALSE
    <2>1. task[r].req.op \in {"create", "delete"}
      BY <1>1, RequestAt DEF At, Creates, CreatesOf, Deletes
    <2>2. CASE ClicksRequest(r)
      BY <2>1, <2>2 DEF ClicksRequest, RequestOf, Gets, Updates, UpdatesOf
    <2>3. CASE ErrandsRequest(r)
      BY <2>1, <2>3 DEF ErrandsRequest, ErrandOps
    <2> QED  BY <1>1, <2>2, <2>3 DEF RequestsHaveSenders, HasSender, At
  <1> QED  BY <1>1 DEF InsertNote, DeleteNote

LEMMA FitsStays ==
    ASSUME TypeOK, RequestsHaveSenders, NEW r \in Requests, Act(r),
           NEW n \in Notes, NEW row \in Row, FitsTable(n, row)
    PROVE  FitsTable(n, row)'
  <1> SUFFICES ASSUME Live(n)'
               PROVE  /\ row.version <= notes'[n].version
                      /\ row.version = notes'[n].version => row = notes'[n]
    BY DEF FitsTable
  <1>1. CASE Live(n) /\ notes'[n] = notes[n]
    BY <1>1 DEF FitsTable
  <1>2. CASE /\ Live(n) /\ notes[n].version = task[r].req.expected
             /\ notes'[n] = [owner |-> notes[n].owner, body |-> task[r].req.body,
                             version |-> task[r].req.expected + 1]
    <2>1. notes[n] \in Row /\ row.version \in Nat /\ notes[n].version \in Nat
      BY <1>2, VersionAssumption DEF TypeOK, Live, Row, Versions
    <2>2. notes'[n].version = notes[n].version + 1
      BY <1>2
    <2>3. row.version <= notes[n].version
      BY <1>2 DEF FitsTable
    <2> QED  BY <2>1, <2>2, <2>3
  <1> QED  BY <1>1, <1>2, RowMoves, OnlyCardsAndDialogAsk

(* Only an errand changes who may see a note and what opens it. *)
LEMMA OthersLeaveTheList ==
    ASSUME TypeOK, RequestsHaveSenders, NEW r \in Requests, Act(r), r \notin errands
    PROVE  shares' = shares /\ links' = links
  <1>1. ~UpsertShare(r) /\ ~DeleteShare(r) /\ ~UpsertLink(r) /\ ~DeleteLink(r)
    <2>1. ASSUME task[r].pc \in {"upsert", "revoke", "publish", "unpublish"}
          PROVE  FALSE
      <3>1. task[r].req.op \in ErrandOps
        BY <2>1, RequestAt
        DEF At, Sharings, Revokes, Publishes, Unpublishes, ErrandOps
      <3>2. ClicksRequest(r)
        BY <2>1 DEF RequestsHaveSenders, HasSender, ErrandsRequest, At
      <3> QED
        BY <3>1, <3>2
        DEF ClicksRequest, RequestOf, Gets, Updates, UpdatesOf, ErrandOps
    <2> QED  BY <2>1 DEF UpsertShare, DeleteShare, UpsertLink, DeleteLink, At
  <1>2. ~InsertNote(r) /\ ~DeleteNote(r)
    BY OnlyCardsAndDialogAsk
  <1> QED  BY <1>1, <1>2
     DEF Act, Step, LoadNote, LookupGrant, ExistingMentions, WriteNote, Reread,
         RecordMention, NotifyMention, LookupTarget, TellShare, ReadLink, Fault,
         Deliver, Disconnect, Receive, tables
-----------------------------------------------------------------------------
(* What cards and clicks become. *)

LEMMA ClickShape ==
    ASSUME CardsTypeOK, NEW c \in Clicks, click[c].stage # "unused"
    PROVE  /\ click[c] \in Click
           /\ click[c].card \in Cards /\ NoteOf[click[c].card] \in Notes
           /\ card[click[c].card] \in Card
  <1>1. click[c] \in Click
    BY DEF CardsTypeOK, Unused
  <1> QED  BY <1>1, CardAssumption DEF CardsTypeOK, Click

LEMMA TickedOK ==
    ASSUME NEW b \in Bodies, NEW place \in DOMAIN b
    PROVE  Ticked(b, place, ~b[place]) \in Bodies
  BY BodyAssumption DEF Ticked

LEMMA ToggleEffect ==
    ASSUME CardsTypeOK, NEW c \in Clicks, NEW k \in Cards, NEW place \in Places,
           Toggle(c, k, place)
    PROVE  \E v \in Click, w \in Card :
               /\ click' = [click EXCEPT ![c] = v]
               /\ card' = [card EXCEPT ![k] = w]
               /\ UNCHANGED <<vars, waiter>>
               /\ click[c].stage = "unused"
               /\ v.stage = "get" /\ v.card = k /\ v.previous = card[k].content
               /\ w.told = card[k].told
               /\ ~w.crossed => ~card[k].crossed /\ UnderWay(k) = {}
  <1> DEFINE shown == card[k].content
             tick == Ticked(shown, place, ~shown[place])
             cross == card[k].crossed \/ UnderWay(k) # {}
             w == [card[k] EXCEPT !.content = tick, !.crossed = cross]
             v == [stage |-> "get", sent |-> FALSE, card |-> k, place |-> place,
                   checked |-> ~shown[place], previous |-> shown,
                   fetched |-> Absent]
  <1>1. card[k] \in Card /\ shown \in Bodies
    BY DEF CardsTypeOK, Card
  <1>2. place \in DOMAIN shown /\ tick \in Bodies
    BY <1>1, TickedOK DEF Toggle
  <1>3. shown[place] \in BOOLEAN /\ cross \in BOOLEAN
    BY <1>1, <1>2, BodyAssumption DEF Card
  <1>4. v \in Click
    BY <1>1, <1>3 DEF Click
  <1>5. click' = [click EXCEPT ![c] = v] /\ click[c].stage = "unused"
    BY DEF Toggle
  <1>6. card' = [card EXCEPT ![k] = w]
    BY DEF Toggle
  <1> HIDE DEF tick, cross
  <1>7. w \in Card /\ w.told = card[k].told /\ w.crossed = cross
    BY <1>1, <1>2, <1>3 DEF Card
  <1>8. ~cross => ~card[k].crossed /\ UnderWay(k) = {}
    BY DEF cross
  <1>9. UNCHANGED <<vars, waiter>>
    BY DEF Toggle
  <1> QED  BY <1>4, <1>5, <1>6, <1>7, <1>8, <1>9

LEMMA RollBackEffect ==
    ASSUME CardsTypeOK, NEW c \in Clicks, click[c].stage # "unused", RollBack(c)
    PROVE  \E v \in Click, w \in Card :
               LET k == click[c].card IN
               /\ click' = [click EXCEPT ![c] = v]
               /\ card' = [card EXCEPT ![k] = w]
               /\ v.stage = "settled" /\ v.card = k
               /\ w.content = click[c].previous
               /\ w.told = card[k].told /\ w.crossed = card[k].crossed
  <1> DEFINE k == click[c].card
             v == [click[c] EXCEPT !.stage = "settled", !.sent = FALSE]
             w == [card[k] EXCEPT !.content = click[c].previous]
  <1>1. click[c] \in Click /\ card[k] \in Card
    BY ClickShape
  <1>2. click' = [click EXCEPT ![c] = v] /\ card' = [card EXCEPT ![k] = w]
    BY DEF RollBack, Settled
  <1>3. v \in Click /\ v.stage = "settled" /\ v.card = k
    BY <1>1 DEF Click
  <1>4. /\ w \in Card /\ w.content = click[c].previous
        /\ w.told = card[k].told /\ w.crossed = card[k].crossed
    BY <1>1 DEF Card, Click
  <1> QED  BY <1>2, <1>3, <1>4

LEMMA ShowEffect ==
    ASSUME CardsTypeOK, NEW c \in Clicks, click[c].stage # "unused",
           NEW row \in Row, Show(c, row)
    PROVE  \E v \in Click, w \in Card :
               LET k == click[c].card IN
               /\ click' = [click EXCEPT ![c] = v]
               /\ card' = [card EXCEPT ![k] = w]
               /\ v.stage = "settled" /\ v.card = k
               /\ w.content = w.told
               /\ ~w.crossed => ~card[k].crossed \/ UnderWay(k) = {c}
  <1> DEFINE k == click[c].card
             v == [click[c] EXCEPT !.stage = "settled", !.sent = FALSE]
             cross == card[k].crossed /\ UnderWay(k) # {c}
             w == [card[k] EXCEPT !.content = row.body, !.told = row.body,
                                  !.crossed = cross]
  <1>1. click[c] \in Click /\ card[k] \in Card /\ row.body \in Bodies
    BY ClickShape DEF Row
  <1>2. click' = [click EXCEPT ![c] = v] /\ card' = [card EXCEPT ![k] = w]
    BY DEF Show, Settled
  <1>3. v \in Click /\ v.stage = "settled" /\ v.card = k
    BY <1>1 DEF Click
  <1>4. cross \in BOOLEAN /\ (~cross => ~card[k].crossed \/ UnderWay(k) = {c})
    OBVIOUS
  <1> HIDE DEF cross
  <1>5. w \in Card /\ w.content = w.told /\ w.crossed = cross
    BY <1>1, <1>4 DEF Card
  <1> QED  BY <1>2, <1>3, <1>4, <1>5

(* The click that an answer goes on with, and the slot it frees.            *)
LEMMA ToggleReturnShape ==
    ASSUME TypeOK, CardsTypeOK, RequestsHaveSenders, ClicksWait,
           NEW r \in Requests, NEW answer, ToggleReturns(r, answer)
    PROVE  /\ waiter[r] \in Clicks /\ click[waiter[r]].stage \in {"get", "put"}
           /\ task[r].req \in RequestOf(waiter[r])
           /\ r \notin errands
           /\ Act(r) /\ task'[r] = IdleTask
           /\ UNCHANGED <<tables, minted, mails>>
           /\ waiter' = [waiter EXCEPT ![r] = NoClick]
           /\ answer = "ok" => At(r, "done") /\ task[r].answer = "ok"
  <1>1. waiter[r] # NoClick /\ (Deliver(r) \/ Disconnect(r)) /\ ~At(r, "idle")
    BY DEF ToggleReturns, Answered, Deliver, Disconnect, At
  <1>2. ClicksRequest(r)
    BY <1>1 DEF RequestsHaveSenders, HasSender, ErrandsRequest
  <1>3. task'[r] = IdleTask /\ UNCHANGED <<tables, minted, mails>> /\ Act(r)
    BY <1>1, SlotIsFreed DEF Act
  <1>4. answer = "ok" => At(r, "done") /\ task[r].answer = "ok"
    BY DEF ToggleReturns, Answered, Deliver
  <1> QED  BY <1>1, <1>2, <1>3, <1>4
     DEF ClicksRequest, ClicksWait, ToggleReturns, FreeWaiter

LEMMA ToggleReturnEffect ==
    ASSUME Inv, AnswersWereRead, CardsTypeOK, RequestsHaveSenders, ClicksWait,
           NEW r \in Requests, NEW answer, ToggleReturns(r, answer)
    PROVE  LET c == waiter[r]
               k == click[c].card
               row == task[r].copy
           IN  \E v \in Click, w \in Card :
                   /\ click' = [click EXCEPT ![c] = v]
                   /\ card' = [card EXCEPT ![k] = w]
                   /\ v.card = k
                   /\ \/ /\ v.stage = "put" /\ v.fetched = row
                         /\ v.previous = click[c].previous
                         /\ row \in Row /\ FitsTable(NoteOf[k], row)
                         /\ w = card[k]
                      \/ /\ v.stage = "settled"
                         /\ w.content = click[c].previous
                         /\ w.told = card[k].told /\ w.crossed = card[k].crossed
                      \/ /\ v.stage = "settled" /\ w.content = w.told
                         /\ ~w.crossed => ~card[k].crossed \/ UnderWay(k) = {c}
  <1> PICK c : c = waiter[r]
    OBVIOUS
  <1> DEFINE k == click[c].card
             row == task[r].copy
  <1>0. TypeOK
    BY DEF Inv
  <1>1. /\ c \in Clicks /\ click[c].stage \in {"get", "put"}
        /\ task[r].req \in RequestOf(c)
        /\ answer = "ok" => At(r, "done") /\ task[r].answer = "ok"
    BY <1>0, ToggleReturnShape
  <1>2. /\ click[c] \in Click /\ k \in Cards /\ NoteOf[k] \in Notes
        /\ card[k] \in Card
    BY <1>1, ClickShape
  <1>3. ContinueToggle(c, answer, row)
    BY DEF ToggleReturns
  <1>4. CASE answer # "ok"
    <2>1. RollBack(c)
      BY <1>3, <1>4 DEF ContinueToggle
    <2> QED  BY <1>1, <2>1, RollBackEffect
  <1>5. CASE answer = "ok"
    <2>1. /\ task[r].req.op \in {"get", "update"} /\ task[r].req.note = NoteOf[k]
      BY <1>1 DEF RequestOf, Gets, Updates, UpdatesOf
    <2>2. Carries(task[r].req, answer, row)
      BY <1>1, <1>5, CarriesWhatWasRead
    <2>3. row \in Row
      BY <1>5, <2>1, <2>2 DEF Carries
    <2>4. CASE click[c].stage = "get"
      <3> DEFINE v == [click[c] EXCEPT !.stage = "put", !.sent = FALSE,
                                       !.fetched = row]
      <3>1. click' = [click EXCEPT ![c] = v] /\ card' = card
        BY <1>3, <1>5, <2>4 DEF ContinueToggle
      <3>2. /\ v \in Click /\ v.card = k /\ v.stage = "put" /\ v.fetched = row
            /\ v.previous = click[c].previous
        BY <1>2, <2>3 DEF Click
      <3> HIDE DEF v
      <3>3. card' = [card EXCEPT ![k] = card[k]]
        BY <1>2, <3>1 DEF CardsTypeOK
      <3>4. Holds(r, NoteOf[k])
        BY <1>1, <1>5, <2>1, <2>3, AbsenceAssumption DEF Holds, At
      <3>5. FitsTable(NoteOf[k], row)
        BY <1>2, <3>4 DEF Inv, SameVersionSameBody, FitsTable
      <3> QED  BY <1>2, <2>3, <3>1, <3>2, <3>3, <3>5
    <2>5. CASE click[c].stage # "get"
      <3>1. Show(c, row)
        BY <1>3, <1>5, <2>5 DEF ContinueToggle
      <3> QED  BY <1>1, <2>3, <3>1, ShowEffect
    <2> QED  BY <2>4, <2>5
  <1> QED  BY <1>4, <1>5
-----------------------------------------------------------------------------
(* Senders. *)
Kept(x) ==
    /\ waiter'[x] = waiter[x] /\ (x \in errands' <=> x \in errands)
    /\ task'[x].req = task[x].req
    /\ task'[x].pc = "idle" <=> task[x].pc = "idle"
    /\ waiter[x] # NoClick => click'[waiter[x]] = click[waiter[x]]
Freed(x) == task'[x].pc = "idle" /\ waiter'[x] = NoClick /\ x \notin errands'

LEMMA KeptSender ==
    ASSUME NEW x \in Requests, HasSender(x), Kept(x) \/ Freed(x)
    PROVE  HasSender(x)'
  <1>1. CASE Freed(x)
    BY <1>1 DEF Freed, HasSender, At
  <1>2. CASE Kept(x) /\ At(x, "idle")
    BY <1>2 DEF Kept, HasSender, At
  <1>3. CASE Kept(x) /\ ~At(x, "idle") /\ ErrandsRequest(x)
    BY <1>3 DEF Kept, HasSender, ErrandsRequest, At
  <1>4. CASE Kept(x) /\ ~At(x, "idle") /\ ClicksRequest(x)
    <2>1. waiter[x] \in Clicks /\ waiter[x] # NoClick
      BY <1>4, CardAssumption DEF ClicksRequest
    <2> PICK c : c = waiter[x]
      OBVIOUS
    <2>2. waiter'[x] = c /\ click'[c] = click[c]
      BY <1>4, <2>1 DEF Kept
    <2>3. RequestOf(waiter[x])' = RequestOf(waiter[x])
      BY <2>2 DEF RequestOf, ToSave
    <2> QED  BY <1>4, <2>1, <2>2, <2>3 DEF Kept, HasSender, ClicksRequest, At
  <1> QED  BY <1>1, <1>2, <1>3, <1>4 DEF HasSender

LEMMA KeptWaits ==
    ASSUME ClicksWait, \A x \in Requests : Kept(x) \/ Freed(x)
    PROVE  ClicksWait'
  BY DEF ClicksWait, Kept, Freed

LEMMA SendersStep ==
    ASSUME NInv, [NoteNext]_nvars
    PROVE  RequestsHaveSenders' /\ ClicksWait'
  <1>0. /\ TypeOK /\ CardsTypeOK /\ RequestsHaveSenders /\ ClicksWait
        /\ \A x \in Requests : HasSender(x)
    BY DEF NInv, Inv, RequestsHaveSenders
  <1>a. /\ waiter \in [Requests -> Clicks \cup {NoClick}]
        /\ click \in [Clicks -> Click \cup {Unused}] /\ NoClick \notin Clicks
    BY <1>0, CardAssumption DEF CardsTypeOK
  <1>b. ASSUME \A x \in Requests : Kept(x) \/ Freed(x)
        PROVE  RequestsHaveSenders' /\ ClicksWait'
    BY <1>0, <1>b, KeptSender, KeptWaits DEF RequestsHaveSenders
  <1>1. CASE UNCHANGED nvars
    <2>1. \A x \in Requests : Kept(x)
      BY <1>1 DEF nvars, vars, cvars, dvars, Kept
    <2> QED  BY <1>b, <2>1
  <1>2. ASSUME NEW c \in Clicks, NEW k \in Cards, NEW place \in Places,
               Toggle(c, k, place), UNCHANGED dvars
        PROVE  RequestsHaveSenders' /\ ClicksWait'
    <2>1. /\ UNCHANGED <<vars, waiter>> /\ click[c].stage = "unused"
          /\ \E v : click' = [click EXCEPT ![c] = v]
      BY <1>0, <1>2, ToggleEffect
    <2>2. ASSUME NEW x \in Requests PROVE Kept(x)
      <3>1. waiter[x] # NoClick => waiter[x] \in Clicks /\ waiter[x] # c
        BY <1>0, <1>a, <2>1 DEF ClicksWait
      <3> QED  BY <1>2, <1>a, <2>1, <3>1 DEF Kept, vars, dvars
    <2> QED  BY <1>b, <2>2
  <1>3. ASSUME NEW c \in Clicks, SendToggle(c), UNCHANGED dvars
        PROVE  RequestsHaveSenders' /\ ClicksWait'
    <2>1. PICK r \in Requests, q \in Request :
               /\ Receive(r, q) /\ q \in RequestOf(c)
               /\ waiter' = [waiter EXCEPT ![r] = c]
               /\ click' = [click EXCEPT ![c].sent = TRUE]
               /\ click[c].stage \in {"get", "put"} /\ ~click[c].sent
      BY <1>3, SendBegins
    <2>2. /\ Act(r) /\ task'[r].req = q /\ ~At(r, "idle")'
          /\ At(r, "idle")
      BY <1>0, <2>1, RequestArrives DEF Act, Receive, At
    <2>3. r \notin errands /\ errands' = errands /\ waiter'[r] = c
      BY <1>0, <1>3, <1>a, <2>1, <2>2 DEF HasSender, dvars
    <2>4. /\ click'[c] = [click[c] EXCEPT !.sent = TRUE] /\ click[c] \in Click
          /\ \A d \in Clicks \ {c} : click'[d] = click[d]
      BY <1>0, <1>a, <2>1, ClickShape
    <2>5. /\ click'[c].stage = click[c].stage /\ click'[c].sent
          /\ click'[c].card = click[c].card /\ click'[c].place = click[c].place
          /\ click'[c].fetched = click[c].fetched
          /\ click'[c].checked = click[c].checked
      BY <2>4 DEF Click
    <2>6. HasSender(r)'
      <3>1. q \in RequestOf(waiter[r])'
        BY <2>1, <2>3, <2>5 DEF RequestOf, ToSave
      <3> QED  BY <2>2, <2>3, <3>1 DEF HasSender, ClicksRequest, At
    <2>7. ASSUME NEW x \in Requests, x # r PROVE Kept(x) /\ waiter[x] # c
      <3>1. waiter[x] # c
        BY <1>0, <1>a, <2>1 DEF ClicksWait
      <3>2. task'[x] = task[x] /\ waiter'[x] = waiter[x]
        BY <1>0, <1>a, <2>1, <2>2, <2>7, OthersWait
      <3> QED  BY <1>a, <2>3, <2>4, <3>1, <3>2 DEF Kept
    <2>8. RequestsHaveSenders'
      BY <1>0, <2>6, <2>7, KeptSender DEF RequestsHaveSenders
    <2>9. ClicksWait'
      BY <1>0, <2>1, <2>3, <2>5, <2>7 DEF ClicksWait, Kept
    <2> QED  BY <2>8, <2>9
  <1>4. ASSUME NEW r \in Requests, NEW answer, ToggleReturns(r, answer),
               UNCHANGED dvars
        PROVE  RequestsHaveSenders' /\ ClicksWait'
    <2>1. /\ waiter[r] \in Clicks /\ r \notin errands /\ Act(r)
          /\ task'[r] = IdleTask /\ waiter' = [waiter EXCEPT ![r] = NoClick]
      BY <1>0, <1>4, ToggleReturnShape
    <2>2. \E v : click' = [click EXCEPT ![waiter[r]] = v]
      BY <1>0, <1>4, ToggleReturnEffect DEF NInv
    <2>3. ASSUME NEW x \in Requests, x # r PROVE Kept(x)
      <3>1. waiter[x] # NoClick => waiter[x] # waiter[r]
        BY <1>0, <2>3 DEF ClicksWait
      <3>2. task'[x] = task[x] /\ waiter'[x] = waiter[x]
        BY <1>0, <1>a, <2>1, <2>3, OthersWait
      <3> QED  BY <1>4, <1>a, <2>2, <3>1, <3>2 DEF Kept, dvars
    <2>4. Freed(r)
      BY <1>4, <1>a, <2>1 DEF Freed, IdleTask, dvars
    <2> QED  BY <1>b, <2>3, <2>4
  <1>5. ASSUME Errand, UNCHANGED cvars
        PROVE  RequestsHaveSenders' /\ ClicksWait'
    <2>1. PICK r \in Requests, q \in Request :
               /\ Receive(r, q) /\ q.op \in ErrandOps /\ q.note = Shared
               /\ errands' = errands \cup {r}
      BY <1>5, ErrandBegins
    <2>2. /\ Act(r) /\ task'[r].req = q /\ ~At(r, "idle")' /\ At(r, "idle")
      BY <1>0, <2>1, RequestArrives DEF Act, Receive, At
    <2>3. waiter[r] = NoClick /\ waiter' = waiter /\ click' = click
      BY <1>0, <1>5, <2>2 DEF HasSender, cvars
    <2>4. HasSender(r)'
      BY <2>1, <2>2, <2>3 DEF HasSender, ErrandsRequest, At
    <2>5. ASSUME NEW x \in Requests, x # r PROVE Kept(x)
      BY <1>0, <2>1, <2>2, <2>3, <2>5, OthersWait DEF Kept
    <2>6. RequestsHaveSenders'
      BY <1>0, <2>4, <2>5, KeptSender DEF RequestsHaveSenders
    <2> QED  BY <1>0, <2>3, <2>6 DEF ClicksWait
  <1>6. ASSUME NEW r \in Requests, NEW answer, ErrandReturns(r, answer),
               UNCHANGED cvars
        PROVE  RequestsHaveSenders' /\ ClicksWait'
    <2>1. /\ (Deliver(r) \/ Disconnect(r)) /\ r \in errands
          /\ errands' = errands \ {r}
      BY <1>6 DEF ErrandReturns, Answered, Continue
    <2>2. task'[r] = IdleTask /\ Act(r)
      BY <1>0, <2>1, SlotIsFreed DEF Act
    <2>3. waiter[r] = NoClick /\ waiter' = waiter /\ click' = click
      BY <1>0, <1>6, <2>1 DEF HasSender, ClicksRequest, ErrandsRequest, cvars
    <2>4. ASSUME NEW x \in Requests, x # r PROVE Kept(x)
      BY <1>0, <2>1, <2>2, <2>3, <2>4, OthersWait DEF Kept
    <2>5. Freed(r)
      BY <2>1, <2>2, <2>3 DEF Freed, IdleTask
    <2> QED  BY <1>b, <2>4, <2>5
  <1>7. ASSUME NEW l \in Reloads, ListingStep(l), UNCHANGED cvars
        PROVE  RequestsHaveSenders' /\ ClicksWait'
    <2>1. UNCHANGED <<vars, errands>>
      BY <1>7 DEF ListingStep, LoadListing, ListShares, GetPublicShare,
                  FailListing, SetShares, SetError
    <2>2. \A x \in Requests : Kept(x)
      BY <1>7, <2>1 DEF Kept, vars, cvars
    <2> QED  BY <1>b, <2>2
  <1>8. ASSUME NEW r \in Requests, ServiceStep(r)
        PROVE  RequestsHaveSenders' /\ ClicksWait'
    <2>1. (Step(r) \/ Fault(r)) /\ Act(r) /\ UNCHANGED <<cvars, dvars>>
      BY <1>8 DEF ServiceStep, Act
    <2>2. ASSUME NEW x \in Requests PROVE Kept(x)
      <3>1. CASE x = r
        BY <1>0, <2>1, <3>1, RequestStays DEF Kept, cvars, dvars, At
      <3>2. CASE x # r
        BY <1>0, <2>1, <3>2, OthersWait DEF Kept, cvars, dvars
      <3> QED  BY <3>1, <3>2
    <2> QED  BY <1>b, <2>2
  <1> QED  BY <1>1, <1>2, <1>3, <1>4, <1>5, <1>6, <1>7, <1>8, NoteSteps
           DEF CardsStep, DialogStep
-----------------------------------------------------------------------------
(* Cards. *)
LEMMA ServiceMoves ==
    ASSUME [NoteNext]_nvars
    PROVE  UNCHANGED vars \/ \E r \in Requests : Act(r)
  <1>1. ASSUME NEW c \in Clicks, SendToggle(c) PROVE \E r \in Requests : Act(r)
    BY <1>1, SendBegins DEF Act
  <1>2. Errand => \E r \in Requests : Act(r)
    BY ErrandBegins DEF Act
  <1>3. CASE UNCHANGED nvars
    BY <1>3 DEF nvars
  <1>4. ASSUME NEW l \in Reloads, ListingStep(l) PROVE UNCHANGED vars
    BY <1>4 DEF ListingStep, LoadListing, ListShares, GetPublicShare,
                FailListing, SetShares, SetError
  <1>5. ASSUME NEW c \in Clicks, NEW k \in Cards, NEW place \in Places,
               Toggle(c, k, place)
        PROVE  UNCHANGED vars
    BY <1>5 DEF Toggle
  <1>6. ASSUME NEW r \in Requests, NEW answer,
               ToggleReturns(r, answer) \/ ErrandReturns(r, answer)
        PROVE  Act(r)
    BY <1>6 DEF ToggleReturns, ErrandReturns, Answered, Act
  <1>7. ASSUME NEW r \in Requests, ServiceStep(r) PROVE Act(r)
    BY <1>7 DEF ServiceStep, Act
  <1> QED  BY <1>1, <1>2, <1>3, <1>4, <1>5, <1>6, <1>7, NoteSteps
           DEF CardsStep, DialogStep

(* A click goes on, and with it at most its own card. *)
LEMMA CardMoved ==
    ASSUME CardsTypeOK, CardsAreTrue, NEW c \in Clicks, NEW k \in Cards,
           NEW v \in Click, NEW w \in Card, v.card = k,
           click' = [click EXCEPT ![c] = v], card' = [card EXCEPT ![k] = w],
           click[c].stage = "unused" \/ click[c].card = k,
           ~w.crossed =>
               LET waiting == {d \in UnderWay(k) : d # c}
                   moved == IF v.stage \in {"get", "put"} THEN {c} ELSE {}
               IN  /\ waiting \cup moved \subseteq {c}
                   /\ moved = {c} => v.previous = w.told
                   /\ moved = {} => w.content = w.told
    PROVE  /\ CardsAreTrue'
           /\ card' \in [Cards -> Card]
           /\ click' \in [Clicks -> Click \cup {Unused}]
  <1>0. /\ card \in [Cards -> Card] /\ click \in [Clicks -> Click \cup {Unused}]
    BY DEF CardsTypeOK
  <1>1. card' \in [Cards -> Card] /\ click' \in [Clicks -> Click \cup {Unused}]
    BY <1>0
  <1>2. /\ click'[c] = v /\ card'[k] = w
        /\ \A d \in Clicks \ {c} : click'[d] = click[d]
        /\ \A j \in Cards \ {k} : card'[j] = card[j]
    BY <1>0
  <1>3. ASSUME NEW j \in Cards, j # k PROVE CardIsTrue(j)'
    <2>1. \A d \in UnderWay(j)' : d \in UnderWay(j) /\ click'[d] = click[d]
      BY <1>2, <1>3 DEF UnderWay
    <2>2. \A d \in UnderWay(j) : d \in UnderWay(j)'
      BY <1>2, <1>3 DEF UnderWay
    <2> QED  BY <1>2, <1>3, <2>1, <2>2 DEF CardIsTrue, CardsAreTrue
  <1>4. CardIsTrue(k)'
    <2> SUFFICES ASSUME ~w.crossed
                 PROVE  /\ \A d, e \in UnderWay(k)' : d = e
                        /\ \A d \in UnderWay(k)' : click'[d].previous = w.told
                        /\ UnderWay(k)' = {} => w.content = w.told
      BY <1>2 DEF CardIsTrue
    <2>1. UnderWay(k)' \subseteq {c}
      BY <1>2 DEF UnderWay
    <2>2. c \in UnderWay(k)' <=> v.stage \in {"get", "put"}
      BY <1>2 DEF UnderWay
    <2> QED  BY <1>2, <2>1, <2>2
  <1> QED  BY <1>1, <1>3, <1>4 DEF CardsAreTrue

LEMMA CardsRest ==
    ASSUME CardsTypeOK, CardsAreTrue, UNCHANGED <<card, click>>
    PROVE  /\ CardsAreTrue'
           /\ card' \in [Cards -> Card]
           /\ click' \in [Clicks -> Click \cup {Unused}]
  BY DEF CardsTypeOK, CardsAreTrue, CardIsTrue, UnderWay

LEMMA CardsKeepTrue ==
    ASSUME NInv, [NoteNext]_nvars
    PROVE  /\ CardsAreTrue'
           /\ card' \in [Cards -> Card]
           /\ click' \in [Clicks -> Click \cup {Unused}]
           /\ waiter' \in [Requests -> Clicks \cup {NoClick}]
  <1>0. /\ TypeOK /\ CardsTypeOK /\ RequestsHaveSenders /\ ClicksWait
        /\ CardsAreTrue
        /\ waiter \in [Requests -> Clicks \cup {NoClick}]
        /\ click \in [Clicks -> Click \cup {Unused}]
    BY DEF NInv, Inv, CardsTypeOK
  <1> DEFINE Goal == /\ CardsAreTrue'
                     /\ card' \in [Cards -> Card]
                     /\ click' \in [Clicks -> Click \cup {Unused}]
                     /\ waiter' \in [Requests -> Clicks \cup {NoClick}]
  <1>1. CASE UNCHANGED cvars
    BY <1>0, <1>1, CardsRest DEF cvars
  <1>2. ASSUME NEW c \in Clicks, NEW k \in Cards, NEW place \in Places,
               Toggle(c, k, place)
        PROVE  Goal
    <2>1. PICK v \in Click, w \in Card :
              /\ click' = [click EXCEPT ![c] = v]
              /\ card' = [card EXCEPT ![k] = w]
              /\ UNCHANGED waiter
              /\ click[c].stage = "unused"
              /\ v.stage = "get" /\ v.card = k /\ v.previous = card[k].content
              /\ w.told = card[k].told
              /\ ~w.crossed => ~card[k].crossed /\ UnderWay(k) = {}
      BY <1>0, <1>2, ToggleEffect
    <2>2. ~w.crossed => UnderWay(k) = {} /\ v.previous = w.told
      BY <1>0, <2>1 DEF CardsAreTrue, CardIsTrue
    <2>3. ~w.crossed =>
               LET waiting == {d \in UnderWay(k) : d # c}
                   moved == IF v.stage \in {"get", "put"} THEN {c} ELSE {}
               IN  /\ waiting \cup moved \subseteq {c}
                   /\ moved = {c} => v.previous = w.told
                   /\ moved = {} => w.content = w.told
      BY <2>1, <2>2
    <2> QED  BY <1>0, <2>1, <2>3, CardMoved
  <1>3. ASSUME NEW c \in Clicks, SendToggle(c) PROVE Goal
    <2>1. PICK r \in Requests :
               /\ waiter' = [waiter EXCEPT ![r] = c]
               /\ click' = [click EXCEPT ![c].sent = TRUE]
               /\ card' = card
               /\ click[c].stage \in {"get", "put"}
      BY <1>3, SendBegins
    <2> DEFINE k == click[c].card
               v == [click[c] EXCEPT !.sent = TRUE]
    <2>2. click[c] \in Click /\ k \in Cards /\ card[k] \in Card
      BY <1>0, <2>1, ClickShape
    <2>3. /\ v \in Click /\ v.card = k /\ v.stage = click[c].stage
          /\ v.previous = click[c].previous
          /\ click' = [click EXCEPT ![c] = v]
      BY <2>1, <2>2 DEF Click
    <2>4. card' = [card EXCEPT ![k] = card[k]]
      BY <1>0, <2>1, <2>2 DEF CardsTypeOK
    <2>5. ~card[k].crossed => /\ UnderWay(k) \subseteq {c}
                              /\ v.previous = card[k].told
      <3>1. c \in UnderWay(k)
        BY <2>1 DEF UnderWay
      <3> QED  BY <1>0, <2>2, <2>3, <3>1 DEF CardsAreTrue, CardIsTrue
    <2> HIDE DEF v
    <2>6. ~card[k].crossed =>
               LET waiting == {d \in UnderWay(k) : d # c}
                   moved == IF v.stage \in {"get", "put"} THEN {c} ELSE {}
               IN  /\ waiting \cup moved \subseteq {c}
                   /\ moved = {c} => v.previous = card[k].told
                   /\ moved = {} => card[k].content = card[k].told
      BY <2>1, <2>3, <2>5
    <2>7. waiter' \in [Requests -> Clicks \cup {NoClick}]
      BY <1>0, <2>1
    <2> QED  BY <1>0, <2>2, <2>3, <2>4, <2>6, <2>7, CardMoved
  <1>4. ASSUME NEW r \in Requests, NEW answer, ToggleReturns(r, answer)
        PROVE  Goal
    <2> PICK c : c = waiter[r]
      OBVIOUS
    <2> DEFINE k == click[c].card
    <2>1. /\ c \in Clicks /\ click[c].stage \in {"get", "put"}
          /\ waiter' = [waiter EXCEPT ![r] = NoClick]
      BY <1>0, <1>4, ToggleReturnShape
    <2>2. k \in Cards /\ c \in UnderWay(k)
      BY <1>0, <2>1, ClickShape DEF UnderWay
    <2>3. PICK v \in Click, w \in Card :
              /\ click' = [click EXCEPT ![c] = v]
              /\ card' = [card EXCEPT ![k] = w]
              /\ v.card = k
              /\ \/ /\ v.stage = "put" /\ v.previous = click[c].previous
                    /\ w = card[k]
                 \/ /\ v.stage = "settled"
                    /\ w.content = click[c].previous
                    /\ w.told = card[k].told /\ w.crossed = card[k].crossed
                 \/ /\ v.stage = "settled" /\ w.content = w.told
                    /\ ~w.crossed => ~card[k].crossed \/ UnderWay(k) = {c}
      BY <1>0, <1>4, ToggleReturnEffect DEF NInv
    <2>4. ~card[k].crossed => /\ UnderWay(k) \subseteq {c}
                              /\ click[c].previous = card[k].told
      BY <1>0, <2>2 DEF CardsAreTrue, CardIsTrue
    <2>5. ~w.crossed =>
               LET waiting == {d \in UnderWay(k) : d # c}
                   moved == IF v.stage \in {"get", "put"} THEN {c} ELSE {}
               IN  /\ waiting \cup moved \subseteq {c}
                   /\ moved = {c} => v.previous = w.told
                   /\ moved = {} => w.content = w.told
      BY <2>3, <2>4
    <2>6. waiter' \in [Requests -> Clicks \cup {NoClick}]
      BY <1>0, <2>1
    <2> QED  BY <1>0, <2>1, <2>2, <2>3, <2>5, <2>6, CardMoved
  <1>5. ASSUME NEW r \in Requests, ServiceStep(r) PROVE UNCHANGED cvars
    BY <1>5 DEF ServiceStep, cvars, dvars
  <1> QED  BY <1>1, <1>2, <1>3, <1>4, <1>5, NoteSteps DEF CardsStep, nvars, cvars

LEMMA FetchedStep ==
    ASSUME NInv, [NoteNext]_nvars
    PROVE  FetchedIsTrue'
  <1> SUFFICES ASSUME NEW d \in Clicks, click'[d].stage = "put",
                      NEW n, n = NoteOf[click'[d].card],
                      NEW row, row = click'[d].fetched
               PROVE  row \in Row /\ FitsTable(n, row)'
    BY DEF FetchedIsTrue, FitsTable, Live
  <1>0. /\ TypeOK /\ CardsTypeOK /\ RequestsHaveSenders /\ ClicksWait
        /\ click \in [Clicks -> Click \cup {Unused}]
    BY DEF NInv, Inv, CardsTypeOK
  <1>1. CASE /\ click[d].stage = "put" /\ click'[d].card = click[d].card
             /\ click'[d].fetched = click[d].fetched
    <2>1. n \in Notes /\ row \in Row /\ FitsTable(n, row)
      BY <1>0, <1>1, ClickShape DEF NInv, FetchedIsTrue
    <2>2. CASE UNCHANGED vars
      BY <2>1, <2>2 DEF vars, FitsTable, Live
    <2>3. ASSUME NEW r \in Requests, Act(r) PROVE FitsTable(n, row)'
      BY <1>0, <2>1, <2>3, FitsStays
    <2> QED  BY <2>1, <2>2, <2>3, ServiceMoves
  <1>2. CASE click'[d] = click[d]
    BY <1>1, <1>2
  <1>3. ASSUME NEW c \in Clicks, NEW k \in Cards, NEW place \in Places,
               Toggle(c, k, place)
        PROVE  click'[d] = click[d]
    BY <1>0, <1>3, ToggleEffect
  <1>4. ASSUME NEW c \in Clicks, SendToggle(c)
        PROVE  /\ click[d].stage = "put" /\ click'[d].card = click[d].card
               /\ click'[d].fetched = click[d].fetched
    <2>1. /\ click' = [click EXCEPT ![c].sent = TRUE]
          /\ click[c].stage \in {"get", "put"}
      BY <1>4, SendBegins
    <2>2. CASE c = d
      <3>1. click[c] \in Click
        BY <1>0, <2>1, ClickShape
      <3> QED  BY <1>0, <2>1, <2>2, <3>1 DEF Click
    <2>3. CASE c # d
      BY <1>0, <2>1, <2>3
    <2> QED  BY <2>2, <2>3
  <1>5. ASSUME NEW r \in Requests, NEW answer, ToggleReturns(r, answer)
        PROVE  click'[d] = click[d] \/ (row \in Row /\ FitsTable(n, row)')
    <2>1. waiter[r] \in Clicks /\ UNCHANGED tables
      BY <1>0, <1>5, ToggleReturnShape
    <2>2. PICK v \in Click :
              /\ click' = [click EXCEPT ![waiter[r]] = v]
              /\ \/ /\ v.stage = "put" /\ v.fetched \in Row
                    /\ FitsTable(NoteOf[v.card], v.fetched)
                 \/ v.stage = "settled"
      BY <1>0, <1>5, ToggleReturnEffect DEF NInv
    <2>3. CASE waiter[r] = d
      <3>1. click'[d] = v
        BY <1>0, <2>2, <2>3
      <3>2. row \in Row /\ FitsTable(n, row)
        BY <2>2, <3>1
      <3> QED  BY <2>1, <3>2 DEF FitsTable, tables, Live
    <2> QED  BY <1>0, <2>1, <2>2, <2>3
  <1>6. ASSUME NEW r \in Requests, ServiceStep(r) PROVE click' = click
    BY <1>6 DEF ServiceStep, cvars
  <1> QED  BY <1>1, <1>2, <1>3, <1>4, <1>5, <1>6, NoteSteps
           DEF CardsStep, nvars, cvars-----------------------------------------------------------------------------
(* The dialog. *)

LEMMA ErrandShape ==
    ASSUME DialogTypeOK, Errand
    PROVE  /\ dialog' \in Dialog
           /\ dialog'.hurried = (dialog.hurried \/ ~DialogQuiet)
           /\ UNCHANGED <<tables, listing>>
           /\ \E r \in Requests : errands' = errands \cup {r}
  <1>1. PICK r \in Requests, q \in Request, cleared \in BOOLEAN :
            /\ Receive(r, q)
            /\ errands' = errands \cup {r}
            /\ dialog.made < MaxErrands
            /\ dialog' = [dialog EXCEPT !.made = @ + 1,
                             !.hurried = @ \/ ~DialogQuiet,
                             !.error = @ /\ ~cleared]
            /\ UNCHANGED listing
    BY ErrandBegins
  <1>2. dialog \in Dialog /\ dialog.made + 1 \in 0..MaxErrands
    BY <1>1, DialogAssumption DEF DialogTypeOK, Dialog
  <1> DEFINE hurried == dialog.hurried \/ ~DialogQuiet
             error == dialog.error /\ ~cleared
             made == dialog.made + 1
  <1>3. dialog' = [dialog EXCEPT !.made = made, !.hurried = hurried, !.error = error]
    BY <1>1
  <1>4. hurried \in BOOLEAN /\ error \in BOOLEAN /\ made \in 0..MaxErrands
    BY <1>2
  <1> HIDE DEF hurried, error, made
  <1>5. dialog' \in Dialog /\ dialog'.hurried = hurried
    BY <1>2, <1>3, <1>4 DEF Dialog
  <1>6. UNCHANGED tables
    BY <1>1 DEF Receive
  <1> QED  BY <1>1, <1>5, <1>6 DEF hurried

LEMMA ErrandReturnShape ==
    ASSUME DialogTypeOK, NEW r \in Requests, NEW answer, ErrandReturns(r, answer)
    PROVE  /\ dialog' \in Dialog
           /\ dialog'.hurried = dialog.hurried
           /\ UNCHANGED tables /\ r \in errands /\ errands' = errands \ {r}
           /\ \/ UNCHANGED listing /\ dialog'.missed
              \/ \E l \in Reloads : \E v \in Listing :
                     /\ v.at = "load"
                     /\ listing' = [listing EXCEPT ![l] = v]
  <1> DEFINE missed == dialog.missed \/ answer # "ok"
             error == dialog.error \/ (answer # "ok" /\ task[r].req.op = "share")
  <1>1. dialog \in Dialog /\ missed \in BOOLEAN /\ error \in BOOLEAN
    BY DEF DialogTypeOK, Dialog
  <1>2. dialog' = [dialog EXCEPT !.error = error, !.missed = missed]
    BY DEF ErrandReturns, Continue
  <1>3. answer # "ok" => missed
    OBVIOUS
  <1> HIDE DEF missed, error
  <1>4. /\ dialog' \in Dialog /\ dialog'.missed = missed
        /\ dialog'.hurried = dialog.hurried
    BY <1>1, <1>2 DEF Dialog
  <1>5. UNCHANGED tables /\ r \in errands /\ errands' = errands \ {r}
    BY DEF ErrandReturns, Answered, Continue, Deliver, Disconnect
  <1>6. NewListing \in Listing /\ NewListing.at = "load"
    BY DEF NewListing, NoListing, Listing, Unlisted, ShareList
  <1>7. \/ UNCHANGED listing /\ answer # "ok"
        \/ \E l \in Reloads : listing' = [listing EXCEPT ![l] = NewListing]
    BY DEF ErrandReturns, Continue, Reload
  <1> QED  BY <1>3, <1>4, <1>5, <1>6, <1>7

LEMMA ListingShape ==
    ASSUME TypeOK, DialogTypeOK, NEW l \in Reloads, ListingStep(l)
    PROVE  /\ UNCHANGED <<vars, errands>> /\ listing[l].at # "idle"
           /\ dialog' \in Dialog /\ dialog'.hurried = dialog.hurried
           /\ \E v \in Listing :
                  /\ listing' = [listing EXCEPT ![l] = v]
                  /\ \/ v.at \in {"shares", "error"}
                     \/ v.at = "link" /\ v.shares = shares[Shared]
                     \/ /\ listing[l].at = "link" /\ v.at = "listed"
                        /\ v.shares = listing[l].shares /\ v.link = links[Shared]
                     \/ v.at = "idle" /\ dialog'.missed
                     \/ /\ listing[l].at = "listed" /\ v.at = "idle"
                        /\ dialog'.loaded
                        /\ dialog'.shares = listing[l].shares
                        /\ dialog'.link = listing[l].link
  <1>0. /\ dialog \in Dialog /\ listing[l] \in Listing
        /\ listing \in [Reloads -> Listing]
        /\ shares[Shared] \in ShareList /\ links[Shared] \in Tokens \cup {NoToken}
    BY DialogAssumption DEF DialogTypeOK, TypeOK, ShareList
  <1>1. NoListing \in Listing /\ NoListing.at = "idle"
    BY DEF NoListing, Listing, Unlisted, ShareList
  <1>2. CASE LoadListing(l) \/ FailListing(l)
    <2> DEFINE v == [listing[l] EXCEPT !.at = IF listing'[l].at = "shares"
                                              THEN "shares" ELSE "error"]
    <2>1. v \in Listing /\ v.at \in {"shares", "error"}
      BY <1>0 DEF Listing
    <2>2. listing' = [listing EXCEPT ![l] = v]
      <3>1. \E at \in {"shares", "error"} : listing' = [listing EXCEPT ![l].at = at]
        BY <1>2 DEF LoadListing, FailListing, Listed
      <3>2. PICK at \in {"shares", "error"} : listing' = [listing EXCEPT ![l].at = at]
        BY <3>1
      <3>3. listing'[l].at = at
        BY <1>0, <3>2 DEF Listing
      <3> QED  BY <3>2, <3>3
    <2>3. UNCHANGED <<vars, errands, dialog>> /\ listing[l].at # "idle"
      BY <1>2 DEF LoadListing, FailListing
    <2> QED  BY <1>0, <2>1, <2>2, <2>3
  <1>3. CASE ListShares(l)
    <2> DEFINE v == [listing[l] EXCEPT !.at = "link", !.shares = shares[Shared]]
    <2>1. v \in Listing /\ v.at = "link" /\ v.shares = shares[Shared]
      BY <1>0 DEF Listing
    <2>2. listing' = [listing EXCEPT ![l] = v]
      BY <1>3 DEF ListShares
    <2>3. UNCHANGED <<vars, errands, dialog>> /\ listing[l].at # "idle"
      BY <1>3 DEF ListShares
    <2> QED  BY <1>0, <2>1, <2>2, <2>3
  <1>4. CASE GetPublicShare(l)
    <2> DEFINE v == [listing[l] EXCEPT !.at = "listed", !.link = links[Shared]]
    <2>1. /\ v \in Listing /\ v.at = "listed" /\ v.link = links[Shared]
          /\ v.shares = listing[l].shares
      BY <1>0 DEF Listing
    <2>2. listing' = [listing EXCEPT ![l] = v]
      BY <1>4 DEF GetPublicShare
    <2>3. UNCHANGED <<vars, errands, dialog>> /\ listing[l].at = "link"
      BY <1>4 DEF GetPublicShare
    <2> QED  BY <1>0, <2>1, <2>2, <2>3
  <1>5. CASE SetShares(l)
    <2>1. /\ UNCHANGED <<vars, errands>> /\ listing[l].at = "listed"
          /\ listing' = [listing EXCEPT ![l] = NoListing]
          /\ dialog' = [dialog EXCEPT !.loaded = TRUE,
                            !.shares = listing[l].shares, !.link = listing[l].link]
      BY <1>5 DEF SetShares
    <2>2. /\ listing[l].shares \in ShareList
          /\ listing[l].link \in Tokens \cup {NoToken}
      BY <1>0 DEF Listing
    <2>3. /\ dialog' \in Dialog /\ dialog'.hurried = dialog.hurried
          /\ dialog'.loaded /\ dialog'.shares = listing[l].shares
          /\ dialog'.link = listing[l].link
      BY <1>0, <2>1, <2>2 DEF Dialog
    <2> QED  BY <1>1, <2>1, <2>3
  <1>6. CASE SetError(l)
    <2>1. /\ UNCHANGED <<vars, errands>> /\ listing[l].at = "error"
          /\ listing' = [listing EXCEPT ![l] = NoListing]
          /\ dialog' = [dialog EXCEPT !.error = TRUE, !.missed = TRUE]
      BY <1>6 DEF SetError
    <2>2. /\ dialog' \in Dialog /\ dialog'.hurried = dialog.hurried
          /\ dialog'.missed
      BY <1>0, <2>1 DEF Dialog
    <2> QED  BY <1>1, <2>1, <2>2
  <1> QED  BY <1>2, <1>3, <1>4, <1>5, <1>6 DEF ListingStep
Orderly == OneAtATime /\ ListsAreCurrent /\ QuietDialogIsTrue

(* While the dialog waits for a call, it has no list that could age. *)
LEMMA DialogWaits ==
    ASSUME TypeOK, DialogTypeOK, RequestsHaveSenders, Orderly, UNCHANGED dvars,
           UNCHANGED vars \/ \E r \in Requests : Act(r)
    PROVE  Orderly'
  <1>1. CASE shares' = shares /\ links' = links
    BY <1>1 DEF Orderly, OneAtATime, ListsAreCurrent, QuietDialogIsTrue,
                DialogQuiet, Loading, dvars
  <1>2. ASSUME NEW r \in Requests, Act(r), r \in errands PROVE Orderly'
    <2>1. /\ ~DialogQuiet
          /\ ~dialog.hurried => \A l \in Reloads : listing[l].at = "idle"
      BY <1>2 DEF DialogQuiet, Orderly, OneAtATime, Loading
    <2> QED
      BY <2>1 DEF Orderly, OneAtATime, ListsAreCurrent, QuietDialogIsTrue,
                  DialogQuiet, Loading, dvars
  <1>3. ASSUME NEW r \in Requests, Act(r), r \notin errands
        PROVE  shares' = shares /\ links' = links
    BY <1>3, OthersLeaveTheList
  <1> QED  BY <1>1, <1>2, <1>3 DEF vars

LEMMA DialogKeepsTrue ==
    ASSUME NInv, [NoteNext]_nvars
    PROVE  /\ Orderly'
           /\ dialog' \in Dialog /\ listing' \in [Reloads -> Listing]
           /\ errands' \subseteq Requests
  <1>0. /\ TypeOK /\ DialogTypeOK /\ RequestsHaveSenders /\ Orderly
        /\ dialog \in Dialog /\ listing \in [Reloads -> Listing]
        /\ errands \subseteq Requests
    BY DEF NInv, Inv, Orderly, DialogTypeOK
  <1> DEFINE Goal == /\ Orderly'
                     /\ dialog' \in Dialog /\ listing' \in [Reloads -> Listing]
                     /\ errands' \subseteq Requests
  <1>1. CASE UNCHANGED dvars
    BY <1>0, <1>1, ServiceMoves, DialogWaits DEF dvars
  <1>2. CASE Errand
    <2>1. /\ dialog' \in Dialog
          /\ dialog'.hurried = (dialog.hurried \/ ~DialogQuiet)
          /\ UNCHANGED <<tables, listing>>
          /\ \E r \in Requests : errands' = errands \cup {r}
      BY <1>0, <1>2, ErrandShape
    <2>2. \A l \in Reloads : ~dialog'.hurried => listing'[l].at = "idle"
      BY <2>1 DEF DialogQuiet
    <2>3. \A r, s \in errands' : ~dialog'.hurried => r = s
      BY <2>1 DEF DialogQuiet
    <2>4. ~DialogQuiet'
      BY <2>1 DEF DialogQuiet
    <2> QED
      BY <1>0, <2>1, <2>2, <2>3, <2>4
      DEF Orderly, OneAtATime, ListsAreCurrent, QuietDialogIsTrue, Loading
  <1>3. ASSUME NEW r \in Requests, NEW answer, ErrandReturns(r, answer) PROVE Goal
    <2>1. /\ dialog' \in Dialog /\ dialog'.hurried = dialog.hurried
          /\ UNCHANGED tables /\ r \in errands /\ errands' = errands \ {r}
          /\ \/ UNCHANGED listing /\ dialog'.missed
             \/ \E l \in Reloads : \E v \in Listing :
                    /\ v.at = "load"
                    /\ listing' = [listing EXCEPT ![l] = v]
      BY <1>0, <1>3, ErrandReturnShape
    <2>2. ~dialog.hurried => /\ errands' = {}
                             /\ \A l \in Reloads : listing[l].at = "idle"
      BY <1>0, <2>1 DEF Orderly, OneAtATime, Loading
    <2>3. CASE UNCHANGED listing /\ dialog'.missed
      BY <1>0, <2>1, <2>2, <2>3
      DEF Orderly, OneAtATime, ListsAreCurrent, QuietDialogIsTrue, Loading
    <2>4. ASSUME NEW l \in Reloads, NEW v \in Listing, v.at = "load",
                 listing' = [listing EXCEPT ![l] = v]
          PROVE  Goal
      <3>1. /\ listing' \in [Reloads -> Listing] /\ listing'[l] = v
            /\ \A m \in Reloads \ {l} : listing'[m] = listing[m]
        BY <1>0, <2>4
      <3>2. ~DialogQuiet'
        BY <2>4, <3>1 DEF DialogQuiet
      <3> QED
        BY <1>0, <2>1, <2>2, <2>4, <3>1, <3>2
        DEF Orderly, OneAtATime, ListsAreCurrent, QuietDialogIsTrue, Loading
    <2> QED  BY <2>1, <2>3, <2>4
  <1>4. ASSUME NEW l \in Reloads, ListingStep(l) PROVE Goal
    <2>1. /\ UNCHANGED <<vars, errands>> /\ listing[l].at # "idle"
          /\ dialog' \in Dialog /\ dialog'.hurried = dialog.hurried
      BY <1>0, <1>4, ListingShape
    <2>2. PICK v \in Listing :
              /\ listing' = [listing EXCEPT ![l] = v]
              /\ \/ v.at \in {"shares", "error"}
                 \/ v.at = "link" /\ v.shares = shares[Shared]
                 \/ /\ listing[l].at = "link" /\ v.at = "listed"
                    /\ v.shares = listing[l].shares /\ v.link = links[Shared]
                 \/ v.at = "idle" /\ dialog'.missed
                 \/ /\ listing[l].at = "listed" /\ v.at = "idle"
                    /\ dialog'.loaded
                    /\ dialog'.shares = listing[l].shares
                    /\ dialog'.link = listing[l].link
      BY <1>0, <1>4, ListingShape
    <2>3. /\ listing' \in [Reloads -> Listing] /\ listing'[l] = v
          /\ \A m \in Reloads \ {l} : listing'[m] = listing[m]
      BY <1>0, <2>2
    <2>4. shares' = shares /\ links' = links /\ errands' = errands
      BY <2>1 DEF vars
    <2>5. ~dialog.hurried => /\ errands = {}
                             /\ \A m \in Reloads \ {l} : listing[m].at = "idle"
      BY <1>0, <2>1 DEF Orderly, OneAtATime, Loading
    <2>6. OneAtATime'
      BY <2>1, <2>3, <2>4, <2>5 DEF OneAtATime, Loading
    <2>7. ListsAreCurrent'
      BY <1>0, <2>1, <2>2, <2>3, <2>4, <2>5 DEF Orderly, ListsAreCurrent
    <2>8. QuietDialogIsTrue'
      <3> SUFFICES ASSUME DialogQuiet', ~dialog.hurried, ~dialog'.missed
                   PROVE  /\ dialog'.loaded
                          /\ dialog'.shares = shares[Shared]
                          /\ dialog'.link = links[Shared]
        BY <2>1, <2>4 DEF QuietDialogIsTrue
      <3>1. v.at = "idle"
        BY <2>3 DEF DialogQuiet
      <3> QED  BY <1>0, <2>2, <3>1 DEF Orderly, ListsAreCurrent
    <2> QED  BY <1>0, <2>1, <2>3, <2>4, <2>6, <2>7, <2>8 DEF Orderly
  <1>5. (CardsStep /\ UNCHANGED dvars) \/ UNCHANGED nvars => UNCHANGED dvars
    BY DEF nvars, dvars
  <1>6. ASSUME NEW r \in Requests, ServiceStep(r) PROVE UNCHANGED dvars
    BY <1>6 DEF ServiceStep, dvars
  <1> QED  BY <1>1, <1>2, <1>3, <1>4, <1>5, <1>6, NoteSteps DEF DialogStep
-----------------------------------------------------------------------------
(* The theorems. *)

LEMMA NInvInit == NoteInit => NInv
  <1> SUFFICES ASSUME NoteInit PROVE NInv
    OBVIOUS
  <1>1. /\ Owner \in Users /\ Text \in Bodies /\ 1 \in Versions /\ Shared \in Notes
        /\ NoToken \notin Tokens /\ Link \in Tokens
    BY DialogAssumption, UsersAssumption, TextAssumption, VersionAssumption,
       AbsenceAssumption DEF Versions
  <1>2. /\ \A n \in Notes : /\ notes[n] \in Row /\ notes[n] # Absent
                            /\ notes[n].owner = Owner /\ notes[n].body = Text
        /\ notes \in [Notes -> Row \cup {Absent}]
    BY <1>1, AbsenceAssumption DEF NoteInit, Row
  <1>3. /\ task \in [Requests -> Task]
        /\ \A r \in Requests : /\ At(r, "idle") /\ ~task[r].applied
                               /\ task[r].req = NoRequest
                               /\ task[r].copy = Absent
                               /\ task[r].answer = "none"
    BY DEF NoteInit, IdleTask, Task, Labels, Awaited, Statuses, At
  <1>4. mails \in [MailKinds \X Notes \X Users -> 0..MailCap]
    BY DEF NoteInit, MailCap
  <1>5. TypeOK
    <2>1. shares \in [Notes -> [Users -> Permission \cup {"none"}]]
      BY DEF NoteInit, Permission
    <2>2. links \in [Notes -> Tokens \cup {NoToken}]
      BY <1>1 DEF NoteInit
    <2>3. minted \subseteq Notes \cup Tokens /\ mentions \subseteq Notes \X Users
      BY <1>1 DEF NoteInit
    <2>4. \A r \in Requests :
              /\ task[r].req \in Awaited[task[r].pc]
              /\ task[r].pc \notin {"record", "notify"}
      BY <1>3 DEF At, Awaited
    <2> QED  BY <1>2, <1>3, <1>4, <2>1, <2>2, <2>3, <2>4 DEF TypeOK
  <1>6. Inv
    <2>1. \A n \in Notes : shares[n][Owner] = "none"
      BY <1>1 DEF NoteInit
    <2>2. \A n \in Notes : Live(n) /\ n \in minted
      BY <1>2 DEF NoteInit, Live
    <2>3. \A n \in Notes, u \in Users : mails[<<"mention", n, u>>] = 0
      BY DEF NoteInit, MailKinds
    <2> QED
      BY <1>2, <1>3, <1>5, <2>1, <2>2, <2>3
      DEF Inv, NoOrphans, InUseIsMinted, PendingIsUnknown, OwnerWasChecked,
          AppliedIsPast, SaveIsReported, PassedAreRecorded, Passed, Reported,
          SameVersionSameBody, OneSavePerVersion, OwnerIsNoGuest,
          MailedIsRecorded, Holds, About, At, OwnerOps, OkReportsTheSave
  <1>7. CardsTypeOK /\ ClicksWait /\ FetchedIsTrue /\ CardsAreTrue
    <2>1. /\ \A c \in Clicks : click[c] = Unused
          /\ click \in [Clicks -> Click \cup {Unused}]
          /\ waiter = [r \in Requests |-> NoClick]
      BY DEF NoteInit, CardsInit
    <2>2. \A k \in Cards : /\ card[k] \in Card
                           /\ card[k].content = card[k].told
      BY <1>2, CardAssumption DEF NoteInit, CardsInit, Card, Row
    <2>3. card \in [Cards -> Card]
      BY <2>2 DEF NoteInit, CardsInit
    <2>4. \A k \in Cards : UnderWay(k) = {}
      BY <2>1 DEF UnderWay, Unused
    <2> QED
      BY <2>1, <2>2, <2>3, <2>4
      DEF CardsTypeOK, ClicksWait, FetchedIsTrue, CardsAreTrue, CardIsTrue, Unused
  <1>8. RequestsHaveSenders
    BY <1>3 DEF NoteInit, CardsInit, DialogInit, RequestsHaveSenders, HasSender
  <1>9. AnswersWereRead
    BY <1>3 DEF AnswersWereRead, WasRead, At
  <1>10. DialogTypeOK /\ Orderly
    <2>1. PICK first \in Reloads :
              listing = [l \in Reloads |-> IF l = first THEN NewListing
                                           ELSE NoListing]
      BY DEF NoteInit, DialogInit
    <2>2. /\ NewListing \in Listing /\ NewListing.at = "load"
          /\ NoListing \in Listing /\ NoListing.at = "idle"
      BY DEF NewListing, NoListing, Listing, Unlisted, ShareList
    <2>3. errands = {}
      BY DEF NoteInit, DialogInit
    <2>4. dialog \in Dialog
      BY DialogAssumption
      DEF NoteInit, DialogInit, Dialog, Unlisted, ShareList
    <2>5. ~DialogQuiet
      BY <2>1, <2>2 DEF DialogQuiet
    <2> QED
      BY <2>1, <2>2, <2>3, <2>4, <2>5
      DEF DialogTypeOK, Orderly, OneAtATime, ListsAreCurrent, QuietDialogIsTrue,
          Loading
  <1> QED  BY <1>6, <1>7, <1>8, <1>9, <1>10 DEF NInv, Orderly

LEMMA NInvStep == NInv /\ [NoteNext]_nvars => NInv'
  <1> SUFFICES ASSUME NInv, [NoteNext]_nvars PROVE NInv'
    OBVIOUS
  <1>1. Inv'
    BY ServiceMoves, InvKept, InvRests DEF NInv
  <1>2. RequestsHaveSenders' /\ ClicksWait'
    BY SendersStep
  <1>3. /\ CardsAreTrue' /\ card' \in [Cards -> Card]
        /\ click' \in [Clicks -> Click \cup {Unused}]
        /\ waiter' \in [Requests -> Clicks \cup {NoClick}]
    BY CardsKeepTrue
  <1>4. CardsTypeOK'
    BY <1>2, <1>3, CardAssumption
    DEF CardsTypeOK, RequestsHaveSenders, HasSender, ClicksWait
  <1>5. FetchedIsTrue'
    BY FetchedStep
  <1>6. /\ Orderly' /\ dialog' \in Dialog /\ listing' \in [Reloads -> Listing]
        /\ errands' \subseteq Requests
    BY DialogKeepsTrue
  <1>7. DialogTypeOK'
    BY <1>2, <1>6 DEF DialogTypeOK, RequestsHaveSenders, HasSender
  <1>8. AnswersWereRead'
    <2>1. CASE UNCHANGED vars
      BY <2>1 DEF NInv, AnswersWereRead, vars
    <2>2. ASSUME NEW r \in Requests, Act(r) PROVE AnswersWereRead'
      BY <2>2, AnswersStep DEF NInv, Inv
    <2> QED  BY <2>1, <2>2, ServiceMoves
  <1> QED  BY <1>1, <1>2, <1>3, <1>4, <1>5, <1>6, <1>7, <1>8 DEF NInv, Orderly

LEMMA NInvHolds == NoteSpec => []NInv
  BY NInvInit, NInvStep, PTL DEF NoteSpec

(* The tables, the handlers in flight, the cards and their clicks, and the *)
(* dialog with its calls and reloads keep the shapes the code gives them.  *)
THEOREM NoteTypeCorrect == NoteSpec => []NoteTypeOK
  <1>1. NInv => NoteTypeOK
    BY DEF NInv, Inv, NoteTypeOK
  <1> QED  BY <1>1, NInvHolds, PTL

(* handleToggleTask: once its click is answered, a card that no other click *)
(* crossed shows a text the server gave it, never a tick that was not saved. *)
THEOREM QuietCardIsTrueHolds == NoteSpec => []QuietCardIsTrue
  <1>1. NInv => QuietCardIsTrue
    BY DEF NInv, CardsAreTrue, CardIsTrue, QuietCardIsTrue
  <1> QED  BY <1>1, NInvHolds, PTL

(* ShareDialog: at rest, after calls that each waited for the last list and *)
(* did not fail, it shows the shares and the link of the note.              *)
THEOREM QuietDialogIsTrueHolds == NoteSpec => []QuietDialogIsTrue
  <1>1. NInv => QuietDialogIsTrue
    BY DEF NInv
  <1> QED  BY <1>1, NInvHolds, PTL
(* A click's save that takes effect finds the text that the click fetched. *)
LEMMA ToggleLands ==
    ASSUME NInv, [NoteNext]_nvars, NEW r \in Requests,
           waiter[r] # NoClick, task'[r].applied, ~task[r].applied
    PROVE  notes'[task[r].req.note].body =
               Ticked(notes[task[r].req.note].body, click[waiter[r]].place,
                      click[waiter[r]].checked)
  <1> PICK c, n, q : c = waiter[r] /\ q = task[r].req /\ n = q.note
    OBVIOUS
  <1>0. TypeOK /\ CardsTypeOK /\ FetchedIsTrue /\ ClicksWait
    BY DEF NInv, Inv
  <1>1. PICK s \in Requests : Act(s)
    BY ServiceMoves DEF vars
  <1>2. WriteNote(r) /\ Matches(q)
    BY <1>0, <1>1, AppliedBefore
  <1>3. /\ q \in Updates /\ notes[n].version = q.expected
        /\ notes' = [notes EXCEPT ![n] =
               [owner |-> notes[n].owner, body |-> q.body,
                version |-> q.expected + 1]]
    BY <1>0, <1>2, WriteEffect
  <1>4. q.op = "update" /\ n \in Notes
    BY <1>3 DEF Updates, UpdatesOf
  <1>5. notes'[n].body = q.body
    BY <1>0, <1>3, <1>4 DEF TypeOK
  <1>6. c \in Clicks /\ q \in RequestOf(c) /\ click[c].stage \in {"get", "put"}
    <2>1. ClicksRequest(r)
      BY <1>2 DEF NInv, RequestsHaveSenders, HasSender, ErrandsRequest, WriteNote, At
    <2> QED  BY <1>0, <2>1 DEF ClicksRequest, ClicksWait
  <1>7. /\ click[c].stage = "put" /\ n = NoteOf[click[c].card]
        /\ q.expected = click[c].fetched.version /\ q.body = ToSave(c)
    BY <1>4, <1>6 DEF RequestOf, Gets
  <1>8. click[c].fetched = notes[n]
    BY <1>0, <1>2, <1>3, <1>6, <1>7 DEF FetchedIsTrue, FitsTable, Matches
  <1> QED  BY <1>5, <1>7, <1>8 DEF ToSave

(* toggleTaskItem: the click re-reads the note and saves what it read with *)
(* the one box set; If-Match refuses the save unless the note still is so. *)
THEOREM ToggleIsSurgicalHolds == NoteSpec => ToggleIsSurgical
  <1>1. NInv /\ [NoteNext]_nvars =>
            [\A r \in Requests :
                waiter[r] # NoClick /\ task'[r].applied /\ ~task[r].applied =>
                    LET c == waiter[r]
                        n == task[r].req.note
                    IN  notes'[n].body = Ticked(notes[n].body, click[c].place,
                                                click[c].checked)]_<<vars, cvars>>
    BY ToggleLands
  <1> QED  BY <1>1, NInvHolds, PTL DEF NoteSpec, ToggleIsSurgical
=============================================================================
