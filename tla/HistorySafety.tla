--------------------------- MODULE HistorySafety ---------------------------
(***************************************************************************)
(* The notes service over time, proved for any number of users, notes,     *)
(* tokens and requests in flight: addresses that stopped working stay      *)
(* dead, no effect without a right, shares and links in the owner's hands, *)
(* and the handlers, statement by statement, an implementation of the      *)
(* contract of NotesContract.                                              *)
(***************************************************************************)
EXTENDS NotesHistory, NotesSafety

(* The id that a handler has drawn and not yet put to use. *)
Owed(r) ==
    IF At(r, "insert") THEN {task[r].req.note}
    ELSE IF task[r].pc \in {"load", "publish"} /\ task[r].req.op = "publish"
         THEN {task[r].req.token}
    ELSE {}

NamesAreMinted == Names \cup spent \subseteq minted

(* What is still to be named is new to everybody else. *)
OwedIsNew ==
    \A r \in Requests :
        /\ Owed(r) \subseteq minted
        /\ Owed(r) \cap (Names \cup spent) = {}
        /\ \A s \in Requests \ {r} : Owed(r) \cap Owed(s) = {}

(* A name is the name of one thing. *)
OneBearer ==
    \A m, n \in Notes : links[m] # NoToken =>
        /\ Live(n) => links[m] # n
        /\ links[m] = links[n] => m = n

(* A handler past the authorization of a save was seen to have a right to it. *)
MayEdit(r) == held[r] \cap {"owner", "edit"} # {}
SaversMayEdit ==
    \A r \in Requests :
        \/ task[r].pc \in {"update", "write", "reread"}
        \/ task[r].pc \in {"record", "notify"} /\ task[r].req.op = "update"
        => MayEdit(r)

HInv == /\ Inv
        /\ NamesAreMinted
        /\ OwedIsNew
        /\ OneBearer
        /\ SpentStaysSpent
        /\ SaversMayEdit
        /\ NothingWithoutRight

-----------------------------------------------------------------------------
(* Where the link of a note can come from. *)
LEMMA LinkMoves ==
    ASSUME TypeOK, NEW r \in Requests, Act(r), NEW n \in Notes
    PROVE  \/ links'[n] \in {links[n], NoToken}
           \/ /\ UpsertLink(r) /\ n = task[r].req.note
              /\ links'[n] = task[r].req.token
  <1>1. CASE UpsertLink(r)
    BY <1>1 DEF UpsertLink, TypeOK
  <1>2. CASE DeleteLink(r) \/ DeleteNote(r)
    BY <1>2 DEF DeleteLink, DeleteNote, TypeOK
  <1>3. CASE links' = links
    BY <1>3
  <1> QED  BY <1>1, <1>2, <1>3
     DEF Act, Step, LoadNote, LookupGrant, ExistingMentions, WriteNote, Reread,
         InsertNote, RecordMention, NotifyMention, LookupTarget, UpsertShare,
         TellShare, DeleteShare, ReadLink, Fault, Deliver, Disconnect, Receive,
         tables

(* A handler that puts an id to use is owed it, and owed nothing after. *)
LEMMA UseSettles ==
    ASSUME TypeOK, NEW r \in Requests
    PROVE  /\ InsertNote(r) => /\ Owed(r) = {task[r].req.note}
                               /\ Owed(r)' = {}
           /\ UpsertLink(r) => /\ Owed(r) = {task[r].req.token}
                               /\ Owed(r)' = {}
  <1>1. ASSUME InsertNote(r)
        PROVE  Owed(r) = {task[r].req.note} /\ Owed(r)' = {}
    BY <1>1 DEF InsertNote, EnterMentions, Answer, Owed, At, TypeOK, Task
  <1>2. ASSUME UpsertLink(r)
        PROVE  Owed(r) = {task[r].req.token} /\ Owed(r)' = {}
    <2>1. task[r].req \in Publishes /\ At(r, "publish")
      BY <1>2, RequestAt DEF UpsertLink, At
    <2>2. task[r].req.op = "publish"
      BY <2>1 DEF Publishes
    <2> QED  BY <1>2, <2>1, <2>2 DEF UpsertLink, Answer, Owed, At, TypeOK, Task
  <1> QED  BY <1>1, <1>2

(* No statement makes a handler owed what it was not. *)
LEMMA DebtsShrink ==
    ASSUME TypeOK, NEW r \in Requests, Step(r) \/ Fault(r)
    PROVE  Owed(r)' \subseteq Owed(r)
  <1> USE DEF TypeOK, Task
  <1>1. task'[r].req = task[r].req /\ task'[r].pc # "insert"
    BY RequestStays
  <1>2. task'[r].pc \in {"load", "publish"} => task[r].pc \in {"load", "publish"}
    <2>1. CASE LookupGrant(r) \/ ExistingMentions(r) \/ WriteNote(r)
      BY <2>1 DEF LookupGrant, ExistingMentions, WriteNote, Answer
    <2>2. CASE Reread(r) \/ InsertNote(r)
      BY <2>2 DEF Reread, InsertNote, EnterMentions, Answer
    <2>3. CASE RecordMention(r) \/ NotifyMention(r)
      BY <2>3 DEF RecordMention, NotifyMention, Answer, At
    <2>4. CASE DeleteNote(r) \/ DeleteShare(r) \/ UpsertLink(r) \/ DeleteLink(r)
      BY <2>4 DEF DeleteNote, DeleteShare, UpsertLink, DeleteLink, Answer
    <2>5. CASE LookupTarget(r) \/ UpsertShare(r) \/ TellShare(r)
      BY <2>5 DEF LookupTarget, UpsertShare, TellShare, Answer, Goto
    <2>6. CASE ReadLink(r) \/ Fault(r)
      BY <2>6 DEF ReadLink, Fault, Answer
    <2>7. CASE LoadNote(r)
      BY <2>7 DEF LoadNote, At
    <2> QED  BY <2>1, <2>2, <2>3, <2>4, <2>5, <2>6, <2>7 DEF Step
  <1> QED  BY <1>1, <1>2 DEF Owed, At

(* A request is owed what it draws. *)
LEMMA DebtsBegin ==
    ASSUME TypeOK, NEW r \in Requests, NEW q \in Request, Receive(r, q)
    PROVE  /\ Owed(r)' \subseteq Drawn(q)
           /\ Drawn(q) \cap minted = {}
           /\ minted' = minted \cup Drawn(q)
           /\ UNCHANGED tables
  <1>1. /\ task'[r].req = q
        /\ task'[r].pc = "done" \/ task'[r].pc = FirstLabel(q)
        /\ minted' = minted \cup Drawn(q) /\ UNCHANGED tables
    BY RequestArrives
  <1>2. Drawn(q) \cap minted = {}
    BY DEF Receive
  <1> QED  BY <1>1, <1>2 DEF Owed, At, FirstLabel, Drawn

(* Every new name is one that the acting handler was owed. *)
LEMMA NewNames ==
    ASSUME TypeOK, NEW r \in Requests, Act(r)
    PROVE  Names' \subseteq Names \cup (Owed(r) \ Owed(r)')
  <1>1. ASSUME NEW n \in Notes, Live(n)'
        PROVE  Live(n) \/ n \in Owed(r) \ Owed(r)'
    BY <1>1, RowMoves, UseSettles
  <1>2. ASSUME NEW n \in Notes, NEW t \in Tokens, links'[n] = t
        PROVE  links[n] = t \/ t \in Owed(r) \ Owed(r)'
    BY <1>2, LinkMoves, UseSettles, AbsenceAssumption
  <1> QED  BY <1>1, <1>2 DEF Names

(***************************************************************************)
(* What a step does to names, debts and what was drawn.                    *)
(***************************************************************************)
LEMMA Bookkeeping ==
    ASSUME TypeOK, NEW r \in Requests, Act(r)
    PROVE  /\ \A s \in Requests \ {r} : Owed(s)' = Owed(s)
           /\ Names' \subseteq Names \cup (Owed(r) \ Owed(r)')
           /\ minted \subseteq minted'
           /\ \/ Owed(r)' \subseteq Owed(r)
              \/ /\ Owed(r)' \cap minted = {}
                 /\ Owed(r)' \subseteq minted'
                 /\ Names' = Names
  <1>1. \A s \in Requests \ {r} : Owed(s)' = Owed(s)
    BY OthersWait DEF Owed, At
  <1>2. CASE Step(r) \/ Fault(r)
    BY <1>1, <1>2, NewNames, DebtsShrink, RequestStays
  <1>3. CASE Deliver(r) \/ Disconnect(r)
    <2>1. Owed(r)' = {}
      BY <1>3, SlotIsFreed DEF Owed, At, IdleTask
    <2> QED  BY <1>1, <1>3, <2>1, NewNames, SlotIsFreed
  <1>4. ASSUME NEW q \in Request, Receive(r, q)
        PROVE  /\ minted \subseteq minted'
               /\ Owed(r)' \cap minted = {} /\ Owed(r)' \subseteq minted'
               /\ Names' = Names
    BY <1>4, DebtsBegin DEF Names, Live, tables
  <1> QED  BY <1>1, <1>2, <1>3, <1>4, NewNames DEF Act

(* Names are drawn before they are borne, borne once, and then spent. *)
LEMMA NamesStep ==
    ASSUME TypeOK, NamesAreMinted, OwedIsNew, SpentStaysSpent,
           NEW r \in Requests, Act(r), Remember
    PROVE  NamesAreMinted' /\ OwedIsNew' /\ SpentStaysSpent'
  <1> USE Bookkeeping DEF NamesAreMinted, OwedIsNew, SpentStaysSpent
  <1>1. spent' = spent \cup (Names \ Names')
    BY DEF Remember
  <1>2. Names' \subseteq Names \cup Owed(r) /\ Owed(r) \subseteq minted
    OBVIOUS
  <1>3. NamesAreMinted'
    BY <1>1, <1>2
  <1>4. SpentStaysSpent'
    BY <1>1, <1>2
  <1>5. ASSUME NEW s \in Requests
        PROVE  /\ Owed(s)' \subseteq minted'
               /\ Owed(s)' \cap (Names' \cup spent') = {}
    BY <1>1
  <1>6. ASSUME NEW s \in Requests, NEW x \in Requests \ {s}
        PROVE  Owed(s)' \cap Owed(x)' = {}
    BY <1>6
  <1> QED  BY <1>3, <1>4, <1>5, <1>6

LEMMA OneBearerStep ==
    ASSUME TypeOK, OwedIsNew, OneBearer, NEW r \in Requests, Act(r)
    PROVE  OneBearer'
  <1> SUFFICES ASSUME NEW m \in Notes, NEW n \in Notes, links'[m] # NoToken
               PROVE  /\ Live(n)' => links'[m] # n
                      /\ links'[m] = links'[n] => m = n
    BY DEF OneBearer
  <1>1. \A k \in Notes : links'[k] # NoToken =>
            \/ links'[k] = links[k] /\ links[k] \in Names
            \/ /\ UpsertLink(r) /\ k = task[r].req.note
               /\ links'[k] \in Owed(r) /\ links'[k] \notin Names
    BY LinkMoves, UseSettles DEF OwedIsNew, Names, TypeOK
  <1>2. Live(n)' => \/ (Live(n) /\ n \in Names)
                    \/ (InsertNote(r) /\ n \notin Names)
    <2>1. Live(n)' => Live(n) \/ (InsertNote(r) /\ n = task[r].req.note)
      BY RowMoves
    <2>2. Owed(r) \cap Names = {}
      BY DEF OwedIsNew
    <2>3. Live(n) => n \in Names
      BY DEF Names
    <2> QED  BY <2>1, <2>2, <2>3, UseSettles
  <1>3. ~(UpsertLink(r) /\ InsertNote(r))
    BY DEF UpsertLink, InsertNote, At
  <1>4. Live(n)' => links'[m] # n
    BY <1>1, <1>2, <1>3 DEF OneBearer
  <1>5. ASSUME links'[m] = links'[n] PROVE m = n
    BY <1>1, <1>5 DEF OneBearer
  <1> QED  BY <1>4, <1>5

-----------------------------------------------------------------------------
(***************************************************************************)
(* Rights.  What is remembered of a request only grows while it is served, *)
(* and the statement at which a handler passes its check is itself a       *)
(* moment at which the right is there.                                     *)
(***************************************************************************)
LEMMA HeldGrows ==
    ASSUME Remember, NEW r \in Requests, ~At(r, "idle"), ~At(r, "idle")'
    PROVE  held'[r] = held[r] \cup HeldNow(r)'
  BY DEF Remember

(* The rights that the two checks of a save and a read find. *)
LEMMA CheckedRight ==
    ASSUME TypeOK, Remember, NEW r \in Requests, LoadNote(r) \/ LookupGrant(r)
    PROVE  LET q == task[r].req IN
           /\ LoadNote(r) /\ Live(q.note) /\ notes[q.note].owner = q.actor
              => "owner" \in held'[r]
           /\ LookupGrant(r) =>
                  \/ "owner" \in held'[r]
                  \/ /\ shares[q.note][q.actor] # "none"
                     => shares[q.note][q.actor] \in held'[r]
  <1> DEFINE q == task[r].req
  <1>1. /\ task'[r].req = q /\ ~At(r, "idle") /\ ~At(r, "idle")'
        /\ UNCHANGED tables
    BY RequestStays DEF Step, LoadNote, LookupGrant, At
  <1>2. q.op # "readLink"
    BY NoteAt, NoteRequestShape DEF LoadNote, LookupGrant, At
  <1>3. HeldNow(r)' = Right(q.note, q.actor)
    BY <1>1, <1>2 DEF HeldNow, At, Right, Live, tables
  <1>4. Right(q.note, q.actor) \subseteq held'[r]
    BY <1>1, <1>3, HeldGrows
  <1> QED  BY <1>4 DEF Right

(* What an authorized handler's next statement may bring about. *)
Outcome(r) ==
    /\ \/ task'[r].pc \in {"update", "write", "reread"}
       \/ task'[r].pc \in {"record", "notify"} /\ task[r].req.op = "update"
       \/ task'[r].applied
       => MayEdit(r)'
    /\ (/\ task[r].req.op \in {"get", "update"}
        /\ task'[r].answer \in {"ok", "conflict", "forbidden"})
       => held'[r] # {}

LEMMA OutcomeIsRightful ==
    ASSUME TypeOK, AppliedIsPast, SaversMayEdit, NothingWithoutRight, Remember,
           NEW r \in Requests, Step(r) \/ Fault(r)
    PROVE  Outcome(r)
  <1> DEFINE t == task[r]
             q == task[r].req
  <1>1. /\ ~At(r, "idle") /\ ~At(r, "idle")'
        /\ WriteNote(r) \/ task'[r].applied = t.applied
    BY RequestStays DEF At
  <1>2. held[r] \subseteq held'[r]
    BY <1>1, HeldGrows
  <1>3. /\ MayEdit(r) => MayEdit(r)'
        /\ MayEdit(r)' => held'[r] # {}
    BY <1>2 DEF MayEdit
  <1>4. /\ t.applied => MayEdit(r)
        /\ (q.op \in {"get", "update"} /\ t.answer \in {"ok", "conflict", "forbidden"})
           => held[r] # {}
    BY <1>1 DEF NothingWithoutRight, MayEdit
  <1>5. /\ t.pc \in {"update", "write", "reread"} => MayEdit(r)'
        /\ t.pc \in {"record", "notify"} /\ q.op = "update" => MayEdit(r)'
    BY <1>3 DEF SaversMayEdit
  <1> USE DEF Outcome, TypeOK, Task, At
  <1>6. CASE LoadNote(r)
    <2>1. t.applied => MayEdit(r)'
      BY <1>3, <1>4
    <2>2. CASE q.op \in {"get", "update"} /\ Live(q.note) /\ notes[q.note].owner = q.actor
      <3>1. MayEdit(r)'
        BY <1>6, <2>2, CheckedRight DEF MayEdit
      <3> QED  BY <1>3, <3>1
    <2>3. CASE ~(q.op \in {"get", "update"} /\ Live(q.note) /\ notes[q.note].owner = q.actor)
      <3>1. q \in NoteRequests
        BY <1>6, RequestAt DEF LoadNote
      <3>2. q.op \in OwnerOps \cup {"get", "update"}
        BY <3>1 DEF NoteRequests, OwnerRequests, OwnerOps, Gets, Updates, UpdatesOf,
           Deletes, Sharings, Revokes, Publishes, Unpublishes
      <3>3. /\ task'[r].pc \notin {"update", "write", "reread", "record", "notify"}
            /\ q.op \in {"get", "update"} => task'[r].answer \in {t.answer, "notFound"}
        BY <1>6, <2>3, <3>2 DEF LoadNote, Answer, Goto, OwnerOps, Live
      <3> QED  BY <1>1, <1>2, <1>4, <1>6, <2>1, <3>3 DEF LoadNote, WriteNote
    <2> QED  BY <2>2, <2>3
  <1>7. CASE LookupGrant(r)
    <2> DEFINE p == shares[q.note][q.actor]
    <2>1. \/ "owner" \in held'[r]
          \/ p # "none" => p \in held'[r]
      BY <1>7, CheckedRight
    <2>2. p # "none" => held'[r] # {}
      BY <2>1
    <2>3. p = "edit" => MayEdit(r)'
      BY <2>1 DEF MayEdit
    <2>4. \/ /\ task'[r].pc = "done"
             /\ task'[r].answer = "notFound" \/ p # "none"
          \/ p = "edit"
      BY <1>7 DEF LookupGrant, Answer
    <2>5. t.applied = task'[r].applied
      BY <1>1, <1>7 DEF LookupGrant, WriteNote
    <2> QED  BY <1>3, <1>4, <2>2, <2>3, <2>4, <2>5
  <1>8. CASE ExistingMentions(r) \/ WriteNote(r) \/ Reread(r)
    <2>1. MayEdit(r)'
      BY <1>5, <1>8 DEF ExistingMentions, WriteNote, Reread
    <2> QED  BY <1>3, <2>1
  <1>9. CASE InsertNote(r)
    <2>1. q.op = "create"
      BY <1>9, InsertEffect DEF Creates, CreatesOf
    <2>2. task'[r].pc \in {"done", "record"}
      BY <1>9 DEF InsertNote, EnterMentions, Answer
    <2>3. task'[r].applied = t.applied
      BY <1>1, <1>9 DEF InsertNote, WriteNote
    <2> QED  BY <1>3, <1>4, <2>1, <2>2, <2>3
  <1>10. CASE RecordMention(r) \/ NotifyMention(r)
    <2>1. task'[r].applied = t.applied
      BY <1>1, <1>10 DEF RecordMention, NotifyMention, WriteNote
    <2>2. q.op = "update" => MayEdit(r)'
      BY <1>5, <1>10 DEF RecordMention, NotifyMention
    <2>3. t.pc \in {"record", "notify"} /\ q.op # "get"
      BY <1>10, RequestAt DEF RecordMention, NotifyMention, Saves, Creates,
         CreatesOf, Updates, UpdatesOf
    <2>4. task'[r].pc \in {"record", "notify", "done"}
      BY <1>10 DEF RecordMention, NotifyMention, Answer
    <2> QED  BY <1>3, <1>4, <2>1, <2>2, <2>3, <2>4
  <1>11. CASE Fault(r)
    <2>1. task'[r].pc = "done" /\ task'[r].answer = "internal"
      BY <1>11 DEF Fault, Answer
    <2>2. task'[r].applied = t.applied
      BY <1>1, <1>11 DEF Fault, WriteNote, Answer
    <2> QED  BY <1>3, <1>4, <2>1, <2>2
  <1>12. CASE \/ DeleteNote(r) \/ LookupTarget(r) \/ UpsertShare(r) \/ TellShare(r)
              \/ DeleteShare(r) \/ UpsertLink(r) \/ DeleteLink(r) \/ ReadLink(r)
    <2>1. q \in OwnerRequests \cup LinkReads
      BY <1>12, RequestAt DEF DeleteNote, LookupTarget, UpsertShare, TellShare,
         DeleteShare, UpsertLink, DeleteLink, ReadLink, OwnerRequests
    <2>2. q.op \notin {"get", "update"}
      BY <2>1 DEF OwnerRequests, LinkReads, Deletes, Sharings, Revokes, Publishes,
         Unpublishes
    <2>3. task'[r].pc \in {"upsert", "tell", "done"}
      BY <1>12 DEF DeleteNote, LookupTarget, UpsertShare, TellShare,
         DeleteShare, UpsertLink, DeleteLink, ReadLink, Answer, Goto
    <2>4. task'[r].applied = t.applied
      BY <1>1, <1>12 DEF DeleteNote, LookupTarget, UpsertShare, TellShare,
         DeleteShare, UpsertLink, DeleteLink, ReadLink, WriteNote
    <2> QED  BY <1>3, <1>4, <2>2, <2>3, <2>4
  <1> QED  BY <1>6, <1>7, <1>8, <1>9, <1>10, <1>11, <1>12 DEF Step

LEMMA RightsStep ==
    ASSUME TypeOK, AppliedIsPast, SaversMayEdit, NothingWithoutRight, Remember,
           NEW r \in Requests, Act(r)
    PROVE  SaversMayEdit' /\ NothingWithoutRight'
  <1> SUFFICES ASSUME NEW s \in Requests, ~At(s, "idle")'
               PROVE  /\ \/ task'[s].pc \in {"update", "write", "reread"}
                         \/ /\ task'[s].pc \in {"record", "notify"}
                            /\ task'[s].req.op = "update"
                         \/ task'[s].applied
                         => MayEdit(s)'
                      /\ (/\ task'[s].req.op \in {"get", "update"}
                          /\ task'[s].answer \in {"ok", "conflict", "forbidden"})
                         => held'[s] # {}
    BY DEF SaversMayEdit, NothingWithoutRight, MayEdit, At
  <1>1. CASE s # r
    <2>1. task'[s] = task[s] /\ ~At(s, "idle")
      BY <1>1, OthersWait DEF At
    <2>2. held[s] \subseteq held'[s]
      BY <2>1, HeldGrows
    <2> QED  BY <2>1, <2>2 DEF SaversMayEdit, NothingWithoutRight, MayEdit
  <1>2. CASE s = r /\ (Step(r) \/ Fault(r))
    BY <1>2, OutcomeIsRightful, RequestStays DEF Outcome
  <1>3. CASE s = r /\ (Deliver(r) \/ Disconnect(r))
    BY <1>3, SlotIsFreed DEF At, IdleTask
  <1>4. ASSUME NEW q \in Request, Receive(r, q), s = r
        PROVE  /\ task'[r].pc \in {"done", "load", "insert", "readLink"}
               /\ ~task'[r].applied
               /\ task'[r].answer \in {"none", "invalid"}
    <2>1. task'[r].answer \in {"none", "invalid"}
      BY <1>4 DEF Receive, TypeOK, IdleTask
    <2> QED  BY <1>4, <2>1, RequestArrives
  <1> QED  BY <1>1, <1>2, <1>3, <1>4 DEF Act

-----------------------------------------------------------------------------
(* The inductive invariant over time. *)
LEMMA InitHInv == HInit => HInv
  <1> SUFFICES ASSUME HInit PROVE HInv
    OBVIOUS
  <1>1. Inv
    BY InitInv DEF HInit
  <1>2. /\ \A r \in Requests : At(r, "idle")
        /\ \A n \in Notes : ~Live(n) /\ links[n] = NoToken
        /\ spent = {}
    BY DEF HInit, Init, At, IdleTask, Live
  <1>3. Names = {}
    BY <1>2, AbsenceAssumption DEF Names
  <1> QED  BY <1>1, <1>2, <1>3
     DEF HInv, NamesAreMinted, OwedIsNew, Owed, OneBearer, SpentStaysSpent,
         SaversMayEdit, NothingWithoutRight, At

LEMMA HActs ==
    ASSUME [HNext]_hvars
    PROVE  \/ UNCHANGED hvars
           \/ Remember /\ \E r \in Requests : Act(r)
  BY DEF HNext, Next, Act

LEMMA HInvStep == HInv /\ [HNext]_hvars => HInv'
  <1> SUFFICES ASSUME HInv, [HNext]_hvars PROVE HInv'
    OBVIOUS
  <1>1. CASE UNCHANGED hvars
    <2>1. Inv'
      BY <1>1, InvStep DEF HInv, hvars
    <2>2. UNCHANGED <<Names, spent, held, links, minted, task>>
      BY <1>1 DEF hvars, vars, tables, Names, Live
    <2>3. \A r \in Requests : Owed(r)' = Owed(r)
      BY <1>1 DEF hvars, vars, Owed, At
    <2>4. \A n \in Notes : Live(n)' = Live(n)
      BY <1>1 DEF hvars, vars, tables, Live
    <2> QED  BY <2>1, <2>2, <2>3, <2>4
       DEF HInv, NamesAreMinted, OwedIsNew, OneBearer, SpentStaysSpent,
           SaversMayEdit, MayEdit, NothingWithoutRight, At
  <1>2. ASSUME NEW r \in Requests, Act(r), Remember PROVE HInv'
    <2>1. [Next]_vars
      BY DEF HNext, hvars
    <2>2. Inv'
      BY <2>1, InvStep DEF HInv
    <2> QED  BY <1>2, <2>2, NamesStep, OneBearerStep, RightsStep DEF HInv, Inv
  <1> QED  BY <1>1, <1>2, HActs

LEMMA HInvHolds == HSpec => []HInv
  BY InitHInv, HInvStep, PTL DEF HSpec

(* A deleted note never comes back, and a link that was replaced or withdrawn
   never opens a note again. *)
THEOREM SpentStaysSpentHolds == HSpec => []SpentStaysSpent
  BY HInvHolds, PTL DEF HInv

(* However the withdrawal of a share races with what it allowed, no save is
   applied and no text returned that there was no right to at some moment of
   the request. *)
THEOREM NothingWithoutRightHolds == HSpec => []NothingWithoutRight
  BY HInvHolds, PTL DEF HInv

-----------------------------------------------------------------------------
(* Who manages a note. *)
LEMMA ManagersStep ==
    ASSUME TypeOK, PendingIsUnknown, OwnerWasChecked, NEW r \in Requests, Act(r),
           NEW n \in Notes, Live(n), Managed(n)' # Managed(n)
    PROVE  /\ task'[r] # task[r]
           /\ task[r].req.op \in OwnerOps
           /\ task[r].req.note = n
           /\ task[r].req.actor = notes[n].owner
  <1>1. \/ DeleteNote(r) \/ UpsertShare(r) \/ DeleteShare(r)
        \/ UpsertLink(r) \/ DeleteLink(r)
    <2>1. CASE WriteNote(r) \/ InsertNote(r)
      <3>1. Live(n)'
        BY <2>1, LivesOn
      <3> QED  BY <2>1, <3>1 DEF WriteNote, InsertNote, Managed
    <2>2. CASE UNCHANGED <<notes, shares, links>>
      BY <2>2 DEF Managed, Live
    <2> QED  BY <2>1, <2>2
       DEF Act, Step, LoadNote, LookupGrant, ExistingMentions, Reread,
           RecordMention, NotifyMention, LookupTarget, TellShare, ReadLink,
           Fault, Deliver, Disconnect, Receive, tables
  <1>2. task[r].pc \in {"delete", "upsert", "revoke", "publish", "unpublish"}
    BY <1>1 DEF DeleteNote, UpsertShare, DeleteShare, UpsertLink, DeleteLink, At
  <1>3. task[r].req.note = n
    BY <1>1, <1>2, NoteAt
    DEF DeleteNote, UpsertShare, DeleteShare, UpsertLink, DeleteLink, Managed,
        Live, TypeOK
  <1>4. task[r].req.actor = notes[n].owner
    BY <1>2, <1>3 DEF OwnerWasChecked, Checked, OwnerOps
  <1>5. task[r].req \in OwnerRequests
    BY <1>2, RequestAt DEF At, OwnerRequests, OwnerOps
  <1>6. task[r].req.op \in OwnerOps
    BY <1>5, OpNamesTheRequest DEF NoteRequests
  <1>7. task'[r].pc \in {"done", "tell"}
    BY <1>1 DEF DeleteNote, UpsertShare, DeleteShare, UpsertLink, DeleteLink,
       Answer, Goto, TypeOK, Task
  <1> QED  BY <1>2, <1>3, <1>4, <1>6, <1>7

(* The shares and the link of a note, and its life, are in its owner's hands
   alone, whatever statements of others come between check and use. *)
THEOREM OnlyTheOwnerHolds == HSpec => OnlyTheOwner
  <1>1. ASSUME HInv, [HNext]_hvars
        PROVE  [\A n \in Notes : Live(n) /\ Managed(n)' # Managed(n) =>
                  \E r \in Requests :
                      /\ task'[r] # task[r]
                      /\ task[r].req.op \in OwnerOps
                      /\ task[r].req.note = n
                      /\ task[r].req.actor = notes[n].owner]_hvars
    BY <1>1, HActs, ManagersStep DEF HInv, Inv
  <1> QED  BY <1>1, HInvHolds, PTL DEF HSpec, OnlyTheOwner

-----------------------------------------------------------------------------
(***************************************************************************)
(* Refinement.  Each statement is one of the contract's operations on the  *)
(* tables or none at all.  What a step spends is what it stops naming, and *)
(* because a name has one bearer that is just what the operation drops.    *)
(***************************************************************************)
LEMMA NothingSpent ==
    ASSUME Remember, Names \subseteq Names'
    PROVE  spent' = spent
  BY DEF Remember

(* A note taken away takes its own name and its link's with it. *)
LEMMA RemovalSpends ==
    ASSUME TypeOK, OneBearer, Remember, NEW n \in Notes, Live(n),
           notes' = [notes EXCEPT ![n] = Absent],
           links' = [links EXCEPT ![n] = NoToken]
    PROVE  spent' = spent \cup {n} \cup ({links[n]} \ {NoToken})
  <1> USE AbsenceAssumption DEF TypeOK, Live
  <1>1. ASSUME NEW x \in Names, x # n, x # links[n] PROVE x \in Names'
    BY <1>1 DEF Names
  <1>2. n \in Names /\ n \notin Names'
    BY DEF Names, OneBearer
  <1>3. links[n] # NoToken => links[n] \in Names /\ links[n] \notin Names'
    BY DEF Names, OneBearer
  <1>4. NoToken = links[n] => (NoToken \in Names /\ NoToken # n => NoToken \in Names')
    BY DEF Names
  <1>5. Names \ Names' = {n} \cup ({links[n]} \ {NoToken})
    BY <1>1, <1>2, <1>3, <1>4
  <1> QED  BY <1>5 DEF Remember

(* A link that is replaced by a new one, or withdrawn, is spent. *)
LEMMA RelinkingSpends ==
    ASSUME TypeOK, OneBearer, Remember, NEW n \in Notes, notes' = notes,
           NEW t \in Tokens \cup {NoToken}, t = NoToken \/ t \notin Names,
           links' = [links EXCEPT ![n] = t]
    PROVE  spent' = spent \cup ({links[n]} \ {NoToken})
  <1> USE AbsenceAssumption DEF TypeOK, Live
  <1>1. ASSUME NEW x \in Names, x # links[n] PROVE x \in Names'
    BY <1>1 DEF Names
  <1>2. links[n] # NoToken => links[n] \in Names /\ links[n] \notin Names'
    BY DEF Names, OneBearer
  <1>3. NoToken = links[n] => (NoToken \in Names => NoToken \in Names')
    BY DEF Names
  <1>4. Names \ Names' = {links[n]} \ {NoToken}
    BY <1>1, <1>2, <1>3
  <1> QED  BY <1>4 DEF Remember

LEMMA SaveImplements ==
    ASSUME TypeOK, Remember, NEW r \in Requests, WriteNote(r)
    PROVE  [Contract!Next]_Contract!vars
  <1> DEFINE q == task[r].req
  <1>1. q \in Updates /\ UNCHANGED <<shares, links, mentions>>
    BY WriteEffect DEF WriteNote
  <1>2. q.note \in Notes /\ q.body \in Bodies
    BY <1>1 DEF Updates, UpdatesOf
  <1>3. spent' = spent
    <2>1. Names \subseteq Names'
      BY <1>1, LivesOn DEF Names
    <2> QED  BY <2>1, NothingSpent
  <1>4. CASE Matches(q)
    <2>1. Live(q.note) /\ Contract!Save(q.note, notes[q.note].version, q.body)
      BY <1>1, <1>3, <1>4, WriteEffect
      DEF Matches, Live, Contract!Save, Contract!Live
    <2> QED  BY <1>2, <2>1 DEF Contract!Next, Live, Contract!Live
  <1>5. CASE ~Matches(q)
    BY <1>1, <1>3, <1>5, WriteEffect DEF Contract!vars
  <1> QED  BY <1>4, <1>5

LEMMA CreationImplements ==
    ASSUME TypeOK, PendingIsUnknown, OwedIsNew, Remember,
           NEW r \in Requests, InsertNote(r)
    PROVE  Contract!Next
  <1> DEFINE q == task[r].req
  <1>1. /\ q \in Creates /\ q.note \in Notes
        /\ notes' = [notes EXCEPT ![q.note] =
                         [owner |-> q.actor, body |-> q.body, version |-> 1]]
        /\ UNCHANGED <<shares, links, mentions>>
    BY InsertEffect DEF InsertNote
  <1>2. q.actor \in Users /\ q.body \in Bodies
    BY <1>1, UsersAssumption DEF Creates, CreatesOf
  <1>3. ~Live(q.note)
    BY DEF PendingIsUnknown, InsertNote
  <1>4. q.note \notin spent
    BY UseSettles DEF OwedIsNew
  <1>5. spent' = spent
    <2>1. Names \subseteq Names'
      BY <1>1, LivesOn DEF Names
    <2> QED  BY <2>1, NothingSpent
  <1>6. Contract!Create(q.note, q.actor, q.body)
    BY <1>1, <1>3, <1>4, <1>5 DEF Contract!Create, Contract!Live, Live
  <1> QED  BY <1>1, <1>2, <1>6 DEF Contract!Next

LEMMA DeletionImplements ==
    ASSUME TypeOK, NoOrphans, OneBearer, Remember,
           NEW r \in Requests, DeleteNote(r)
    PROVE  [Contract!Next]_Contract!vars
  <1> DEFINE n == task[r].req.note
  <1>1. n \in Notes
    BY NoteAt DEF DeleteNote, At
  <1>2. CASE Live(n)
    <2>1. Contract!Remove(n)
      BY <1>1, <1>2, RemovalSpends
      DEF DeleteNote, Contract!Remove, Contract!Live, Contract!Nobody, Live
    <2> QED  BY <1>1, <2>1 DEF Contract!Next
  <1>3. CASE ~Live(n)
    <2>1. notes' = notes /\ links' = links
      BY <1>1, <1>3 DEF DeleteNote, Live, NoOrphans, TypeOK
    <2>2. shares' = shares
      <3>1. shares[n] = [u \in Users |-> "none"]
        BY <1>1, <1>3 DEF NoOrphans, TypeOK
      <3> QED  BY <1>1, <3>1 DEF DeleteNote, TypeOK
    <2>3. mentions' = mentions
      BY <1>1, <1>3 DEF DeleteNote, NoOrphans, TypeOK
    <2>4. spent' = spent
      BY <2>1, NothingSpent DEF Names, Live
    <2> QED  BY <2>1, <2>2, <2>3, <2>4 DEF Contract!vars
  <1> QED  BY <1>2, <1>3

LEMMA SharingImplements ==
    ASSUME TypeOK, OwnerWasChecked, Remember, NEW r \in Requests,
           UpsertShare(r) \/ DeleteShare(r)
    PROVE  [Contract!Next]_Contract!vars
  <1> DEFINE q == task[r].req
  <1>1. q.note \in Notes
    BY NoteAt DEF UpsertShare, DeleteShare, At
  <1>2. spent' = spent /\ UNCHANGED <<notes, links, mentions>>
    BY NothingSpent DEF UpsertShare, DeleteShare, Names, Live
  <1>3. CASE UpsertShare(r)
    <2>1. q \in Sharings /\ q.permission \in {"read", "edit"}
      BY <1>3, RequestAt DEF UpsertShare, At, Sharings, Permission
    <2>2. CASE Live(q.note) /\ q.target \in Users
      <3>1. q.target # notes[q.note].owner
        BY <1>3, <2>2 DEF UpsertShare, At, OwnerWasChecked, Checked
      <3>2. Contract!Share(q.note, q.target, q.permission)
        BY <1>2, <1>3, <2>2, <3>1
        DEF UpsertShare, Contract!Share, Contract!Live, Live
      <3> QED  BY <1>1, <2>1, <2>2, <3>2 DEF Contract!Next
    <2>3. CASE ~Live(q.note)
      BY <1>2, <1>3, <2>3 DEF UpsertShare, Contract!vars
    <2>4. CASE Live(q.note) /\ q.target \notin Users
      <3> DEFINE row == shares[q.note]
      <3>1. [row EXCEPT ![q.target] = q.permission] = row
        BY <1>1, <2>4 DEF TypeOK
      <3>2. shares' = [shares EXCEPT ![q.note] = row]
        BY <1>1, <1>3, <2>4, <3>1 DEF UpsertShare, TypeOK
      <3>3. shares' = shares
        BY <1>1, <3>2 DEF TypeOK
      <3> QED  BY <1>2, <3>3 DEF Contract!vars
    <2> QED  BY <2>2, <2>3, <2>4
  <1>4. CASE DeleteShare(r)
    <2>1. q \in Revokes /\ q.target \in Users
      BY <1>4, RequestAt DEF DeleteShare, Revokes
    <2>2. Contract!Unshare(q.note, q.target)
      BY <1>2, <1>4 DEF DeleteShare, Contract!Unshare
    <2> QED  BY <1>1, <2>1, <2>2 DEF Contract!Next
  <1> QED  BY <1>3, <1>4

LEMMA LinkingImplements ==
    ASSUME TypeOK, OwedIsNew, OneBearer, Remember, NEW r \in Requests,
           UpsertLink(r) \/ DeleteLink(r)
    PROVE  [Contract!Next]_Contract!vars
  <1> DEFINE q == task[r].req
  <1>1. q.note \in Notes
    BY NoteAt DEF UpsertLink, DeleteLink, At
  <1>2. UNCHANGED <<notes, shares, mentions>>
    BY DEF UpsertLink, DeleteLink
  <1>3. CASE UpsertLink(r) /\ Live(q.note)
    <2>1. q.token \in Tokens
      BY <1>3, RequestAt DEF UpsertLink, Publishes
    <2>2. q.token \notin Names \cup spent
      BY <1>3, UseSettles DEF OwedIsNew
    <2>3. links' = [links EXCEPT ![q.note] = q.token]
      BY <1>3 DEF UpsertLink
    <2>4. Contract!Publish(q.note, q.token)
      BY <1>1, <1>2, <1>3, <2>1, <2>2, <2>3, RelinkingSpends
      DEF Names, Contract!Publish, Contract!Live, Contract!Linked, Live
    <2> QED  BY <1>1, <2>1, <2>4 DEF Contract!Next
  <1>4. CASE UpsertLink(r) /\ ~Live(q.note)
    BY <1>2, <1>4, NothingSpent DEF UpsertLink, Names, Live, Contract!vars
  <1>5. CASE DeleteLink(r)
    <2>1. Contract!Unpublish(q.note)
      BY <1>1, <1>2, <1>5, RelinkingSpends DEF DeleteLink, Contract!Unpublish
    <2> QED  BY <1>1, <2>1 DEF Contract!Next
  <1> QED  BY <1>3, <1>4, <1>5

LEMMA MentionImplements ==
    ASSUME TypeOK, Remember, NEW r \in Requests, RecordMention(r)
    PROVE  [Contract!Next]_Contract!vars
  <1> DEFINE q == task[r].req
             u == q.mentions[task[r].next]
  <1>1. q.note \in Notes
    BY NoteAt DEF RecordMention, At
  <1>2. spent' = spent /\ UNCHANGED <<notes, links, shares>>
    BY NothingSpent DEF RecordMention, Names, Live
  <1>3. CASE u \in Users /\ Live(q.note)
    <2>1. Contract!Mention(q.note, u)
      BY <1>2, <1>3 DEF RecordMention, Contract!Mention, Contract!Live, Live
    <2> QED  BY <1>1, <1>3, <2>1 DEF Contract!Next
  <1>4. CASE ~(u \in Users /\ Live(q.note))
    BY <1>2, <1>4 DEF RecordMention, Contract!vars
  <1> QED  BY <1>3, <1>4

(* The handlers, statement by statement and in any interleaving, implement
   the atomic contract of the tables. *)
THEOREM HandlersImplementContract == HSpec => ImplementsContract
  <1>1. HInit => Contract!Init
    BY DEF HInit, Init, Contract!Init, Contract!Nobody
  <1>2. ASSUME HInv, [HNext]_hvars PROVE [Contract!Next]_Contract!vars
    <2>1. CASE UNCHANGED hvars
      BY <2>1 DEF hvars, vars, tables, Contract!vars
    <2>2. ASSUME NEW r \in Requests, Act(r), Remember
          PROVE  [Contract!Next]_Contract!vars
      <3>1. CASE UNCHANGED tables
        BY <2>2, <3>1, NothingSpent DEF tables, Names, Live, Contract!vars
      <3>2. CASE WriteNote(r) \/ InsertNote(r)
        BY <1>2, <2>2, <3>2, SaveImplements, CreationImplements DEF HInv, Inv
      <3>3. CASE DeleteNote(r)
        BY <1>2, <2>2, <3>3, DeletionImplements DEF HInv, Inv
      <3>4. CASE UpsertShare(r) \/ DeleteShare(r)
        BY <1>2, <2>2, <3>4, SharingImplements DEF HInv, Inv
      <3>5. CASE UpsertLink(r) \/ DeleteLink(r)
        BY <1>2, <2>2, <3>5, LinkingImplements DEF HInv, Inv
      <3>6. CASE RecordMention(r)
        BY <1>2, <2>2, <3>6, MentionImplements DEF HInv, Inv
      <3> QED  BY <2>2, <3>1, <3>2, <3>3, <3>4, <3>5, <3>6
         DEF Act, Step, LoadNote, LookupGrant, ExistingMentions, Reread,
             NotifyMention, LookupTarget, TellShare, ReadLink, Fault, Deliver,
             Disconnect, Receive
    <2> QED  BY <1>2, <2>1, <2>2, HActs
  <1> QED  BY <1>1, <1>2, HInvHolds, PTL DEF HSpec, ImplementsContract, Contract!Spec
=============================================================================
