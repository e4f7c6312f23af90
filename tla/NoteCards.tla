------------------------------ MODULE NoteCards ------------------------------
(***************************************************************************)
(* The check boxes on the cards of the dashboard (components/NoteCard.tsx, *)
(* utils/taskList.ts), over the handlers of NotesService.  A click on a    *)
(* box changes the card at once; then it fetches the note, applies the     *)
(* same toggle to what it got, saves that, and shows the answer.  On any   *)
(* error the card goes back to its text of before the click.  Nothing      *)
(* keeps a second click from starting meanwhile.                           *)
(*                                                                         *)
(* A body is the sequence of its task items, TRUE for a ticked one.        *)
(*                                                                         *)
(* Two fields of a card are history, which no action reads: told, the text *)
(* the server last gave it; crossed, whether clicks on it have overlapped  *)
(* since it last showed an answer with no other click under way.           *)
(*                                                                         *)
(* A definition named Operation_Slip is Operation with one plausible slip, *)
(* kept to show that a property notices it; the specification uses none.   *)
(***************************************************************************)
EXTENDS NotesService

CONSTANTS
    Cards,     \* cards on the screens of different users
    UserOf,    \* the user at each card, who may edit its note
    NoteOf,    \* the note on each card
    Clicks,    \* pool of clicks, a bound on their number
    NoClick    \* a request nobody waits for

ASSUME CardAssumption ==
    /\ UserOf \in [Cards -> Actors] /\ NoteOf \in [Cards -> Notes]
    /\ NoClick \notin Clicks
ASSUME BodyAssumption ==
    /\ Bodies \subseteq Seq(BOOLEAN)
    /\ \A b \in Bodies : \A place \in DOMAIN b :
           [b EXCEPT ![place] = ~b[place]] \in Bodies

VARIABLES
    card,      \* the state of each card
    click,     \* the handleToggleTask of each click
    waiter     \* the click that awaits the answer of each slot

cvars == <<card, click, waiter>>

Places == UNION {DOMAIN b : b \in Bodies}
Card == [content : Bodies, told : Bodies, crossed : BOOLEAN]
Unused == [stage |-> "unused", sent |-> FALSE]
Click == [stage : {"get", "put", "settled"}, sent : BOOLEAN,
          card : Cards, place : Places, checked : BOOLEAN,
          previous : Bodies, fetched : Row \cup {Absent}]

CardsTypeOK ==
    /\ card \in [Cards -> Card]
    /\ click \in [Clicks -> Click \cup {Unused}]
    /\ waiter \in [Requests -> Clicks \cup {NoClick}]
    /\ \A r \in Requests : waiter[r] # NoClick =>
           ~At(r, "idle") /\ click[waiter[r]].sent

CardsInit ==
    /\ card = [k \in Cards |-> LET b == notes[NoteOf[k]].body
                               IN  [content |-> b, told |-> b,
                                    crossed |-> FALSE]]
    /\ click = [c \in Clicks |-> Unused]
    /\ waiter = [r \in Requests |-> NoClick]

UnderWay(k) ==
    {c \in Clicks : click[c].stage \in {"get", "put"} /\ click[c].card = k}

\* setTaskItemChecked: the text is left as it is if it has no such box.
Ticked(b, place, checked) ==
    IF place \in DOMAIN b THEN [b EXCEPT ![place] = checked] ELSE b

\* handleToggleTask up to its first await.
Toggle(c, k, place) ==
    LET shown == card[k].content
    IN  /\ click[c].stage = "unused"
        /\ place \in DOMAIN shown
        /\ click' = [click EXCEPT ![c] =
               [stage |-> "get", sent |-> FALSE, card |-> k, place |-> place,
                checked |-> ~shown[place], previous |-> shown,
                fetched |-> Absent]]
        /\ card' = [card EXCEPT
               ![k].content = Ticked(shown, place, ~shown[place]),
               ![k].crossed = @ \/ UnderWay(k) # {}]
        /\ UNCHANGED <<vars, waiter>>

ToSave_FromCard(c) ==
    Ticked(click[c].previous, click[c].place, click[c].checked)
\* nextMarkdown
ToSave(c) == Ticked(click[c].fetched.body, click[c].place, click[c].checked)

RequestOf(c) ==
    LET k == click[c].card
    IN  IF click[c].stage = "get"
        THEN {q \in Gets : q.actor = UserOf[k] /\ q.note = NoteOf[k]}
        ELSE {q \in Updates : /\ q.actor = UserOf[k] /\ q.note = NoteOf[k]
                              /\ q.expected = click[c].fetched.version
                              /\ q.body = ToSave(c)}

\* The request reaches the server.
SendToggle(c) ==
    /\ click[c].stage \in {"get", "put"} /\ ~click[c].sent
    /\ \E r \in Requests :
           /\ \E q \in RequestOf(c) : Receive(r, q)
           /\ waiter' = [waiter EXCEPT ![r] = c]
    /\ click' = [click EXCEPT ![c].sent = TRUE]
    /\ UNCHANGED card

Settled(c) == [click EXCEPT ![c].stage = "settled", ![c].sent = FALSE]

RollBack_KeepsTick(c) == click' = Settled(c) /\ UNCHANGED card
\* setContent(previous)
RollBack(c) ==
    /\ click' = Settled(c)
    /\ card' = [card EXCEPT ![click[c].card].content = click[c].previous]

\* The continuations, given the answer.
Show(c, saved) ==
    LET k == click[c].card
    IN  /\ click' = Settled(c)
        /\ card' = [card EXCEPT
               ![k].content = saved.body, ![k].told = saved.body,
               ![k].crossed = @ /\ UnderWay(k) # {c}]

ContinueToggle(c, answer, row) ==
    CASE answer # "ok" -> RollBack(c)
      [] answer = "ok" /\ click[c].stage = "get" ->
             /\ click' = [click EXCEPT ![c].stage = "put", ![c].sent = FALSE,
                                       ![c].fetched = row]
             /\ UNCHANGED card
      [] OTHER -> Show(c, row)

FreeWaiter(r) == waiter' = [waiter EXCEPT ![r] = NoClick]

AnswerToggle(r) ==
    /\ waiter[r] # NoClick
    /\ Deliver(r)
    /\ ContinueToggle(waiter[r], task[r].answer, task[r].copy)
    /\ FreeWaiter(r)

\* The connection breaks, wherever the handler is.
LoseToggle(r) ==
    /\ waiter[r] # NoClick
    /\ Disconnect(r)
    /\ RollBack(waiter[r])
    /\ FreeWaiter(r)

-----------------------------------------------------------------------------
(* Properties. *)

\* "applies the same toggle to the authoritative body, and saves that": when
\* the save of a click takes effect, the text it replaces becomes that text
\* with the one box set, whoever wrote it, and however clicks overlap.
ToggleIsSurgical ==
    [][\A r \in Requests :
          waiter[r] # NoClick /\ task'[r].applied /\ ~task[r].applied =>
              LET c == waiter[r]
                  n == task[r].req.note
              IN  notes'[n].body = Ticked(notes[n].body, click[c].place,
                                          click[c].checked)]_<<vars, cvars>>

\* "updates optimistically and rolls back if the write fails": a card with no
\* click under way shows a text the server gave it, and no tick that was
\* never saved.  Clicks that overlapped may leave another text behind.
QuietCardIsTrue ==
    \A k \in Cards : UnderWay(k) = {} /\ ~card[k].crossed =>
        card[k].content = card[k].told
=============================================================================
