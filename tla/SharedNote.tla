----------------------------- MODULE SharedNote -----------------------------
(***************************************************************************)
(* A note at work: its owner shares it, withdraws shares and publishes it  *)
(* in the share dialog while people tick boxes on their cards of it.  The  *)
(* two components meet in the service: a share that is withdrawn fails the *)
(* click of a guest wherever it is.                                        *)
(***************************************************************************)
EXTENDS NoteCards, ShareDialog

CONSTANTS
    Text,      \* the text the note was written with
    Link,      \* the link it had, or still has
    MaxActs    \* bound on the clicks of all users together

ASSUME TextAssumption == Text \in Bodies /\ Link \in Tokens

nvars == <<vars, cvars, dvars>>

NoteTypeOK == TypeOK /\ CardsTypeOK /\ DialogTypeOK

\* The note has been written, shared with whoever has a card of it, and
\* published, perhaps not any more.
NoteInit ==
    /\ notes = [n \in Notes |-> [owner |-> Owner, body |-> Text, version |-> 1]]
    /\ shares = [n \in Notes |-> [u \in Users |->
           IF u # Owner /\ \E k \in Cards : UserOf[k] = u /\ NoteOf[k] = n
           THEN "edit" ELSE "none"]]
    /\ links \in [Notes -> {NoToken, Link}]
    /\ mentions = {}
    /\ minted = Notes \cup {Link}
    /\ mails = [m \in MailKinds \X Notes \X Users |-> 0]
    /\ task = [r \in Requests |-> IdleTask]
    /\ CardsInit
    /\ DialogInit

ServiceStep(r) == (Step(r) \/ Fault(r)) /\ UNCHANGED <<cvars, dvars>>

Acts == Cardinality({c \in Clicks : click[c].stage # "unused"}) + dialog.made

NoteNext ==
    \/ \E c \in Clicks, k \in Cards, place \in Places :
           Acts < MaxActs /\ Toggle(c, k, place) /\ UNCHANGED dvars
    \/ Acts < MaxActs /\ Errand /\ UNCHANGED cvars
    \/ \E c \in Clicks : SendToggle(c) /\ UNCHANGED dvars
    \/ \E r \in Requests :
           \/ ServiceStep(r)
           \/ (AnswerToggle(r) \/ LoseToggle(r)) /\ UNCHANGED dvars
           \/ (AnswerErrand(r) \/ LoseErrand(r)) /\ UNCHANGED cvars
    \/ \E l \in Reloads : ListingStep(l) /\ UNCHANGED cvars

NoteSpec == NoteInit /\ [][NoteNext]_nvars
=============================================================================
