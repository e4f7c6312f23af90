----------------------------- MODULE ShareDialog -----------------------------
(***************************************************************************)
(* The share dialog of the note editor (components/ShareDialog.tsx), open  *)
(* at a note's owner, over the handlers of NotesService, with the handler  *)
(* that lists shares: list_shares of notes/service.rs, three statements of *)
(* their own.                                                              *)
(*                                                                         *)
(* Each call that succeeds is followed by a reload of the list; nothing    *)
(* orders reloads, or keeps the user from clicking on meanwhile, and a     *)
(* call other than sharing that fails leaves no trace in the dialog.  The  *)
(* answer to a publication is not looked at, only the list.                *)
(*                                                                         *)
(* Two fields are history, which no action reads: hurried, whether a click *)
(* came before the last one had been answered and listed; missed, whether  *)
(* a call or a reload has failed.                                          *)
(*                                                                         *)
(* A definition named Operation_Slip is Operation with one plausible slip, *)
(* kept to show that a property notices it; the specification uses none.   *)
(***************************************************************************)
EXTENDS NotesService

CONSTANTS
    Shared,     \* the note the dialog is about
    Owner,      \* the user at the dialog
    Reloads,    \* slots for list_shares, a bound on reloads under way
    MaxErrands  \* bound on the calls the dialog makes

ASSUME DialogAssumption ==
    Shared \in Notes /\ Owner \in Actors /\ MaxErrands \in Nat

VARIABLES
    dialog,    \* the state of the component
    errands,   \* the slots whose answers it awaits
    listing    \* the handler of each reload

dvars == <<dialog, errands, listing>>

ShareList == [Users -> Permission \cup {"none"}]
Unlisted == [u \in Users |-> "none"]
Dialog == [loaded : BOOLEAN, shares : ShareList, link : Tokens \cup {NoToken},
           error : BOOLEAN, made : 0..MaxErrands,
           hurried : BOOLEAN, missed : BOOLEAN]
Listing == [at : {"idle", "load", "shares", "link", "listed", "error"},
            shares : ShareList, link : Tokens \cup {NoToken}]
NoListing == [at |-> "idle", shares |-> Unlisted, link |-> NoToken]
NewListing == [NoListing EXCEPT !.at = "load"]

DialogTypeOK ==
    /\ dialog \in Dialog
    /\ errands \subseteq {r \in Requests : ~At(r, "idle")}
    /\ listing \in [Reloads -> Listing]

\* The dialog mounts, and its effect loads the list.
DialogInit ==
    /\ dialog = [loaded |-> FALSE, shares |-> Unlisted, link |-> NoToken,
                 error |-> FALSE, made |-> 0, hurried |-> FALSE,
                 missed |-> FALSE]
    /\ errands = {}
    /\ \E first \in Reloads :
           listing = [l \in Reloads |-> IF l = first THEN NewListing
                                        ELSE NoListing]

DialogQuiet == errands = {} /\ \A l \in Reloads : listing[l].at = "idle"

-----------------------------------------------------------------------------
(* What the user does. *)

Call(q, cleared) ==
    /\ dialog.made < MaxErrands
    /\ \E r \in Requests : Receive(r, q) /\ errands' = errands \cup {r}
    /\ dialog' = [dialog EXCEPT !.made = @ + 1,
                                !.hurried = @ \/ ~DialogQuiet,
                                !.error = @ /\ ~cleared]
    /\ UNCHANGED listing

\* The search box gives any user, the owner included.
HandleShare(u, p) ==
    Call([op |-> "share", actor |-> Owner, note |-> Shared, target |-> u,
          permission |-> p], TRUE)

HandleRevoke(u) ==
    /\ dialog.loaded /\ dialog.shares[u] # "none"
    /\ Call([op |-> "revoke", actor |-> Owner, note |-> Shared, target |-> u],
            FALSE)

HandleCreatePublicLink(t) ==
    /\ dialog.link = NoToken
    /\ Call([op |-> "publish", actor |-> Owner, note |-> Shared, token |-> t],
            FALSE)

HandleRevokePublicLink ==
    /\ dialog.link # NoToken
    /\ Call([op |-> "unpublish", actor |-> Owner, note |-> Shared], FALSE)

-----------------------------------------------------------------------------
(* The answers. *)

Reload ==
    \E l \in Reloads : /\ listing[l].at = "idle"
                       /\ listing' = [listing EXCEPT ![l] = NewListing]

Continue_NoReload(r, answer) ==
    /\ errands' = errands \ {r}
    /\ UNCHANGED listing
    /\ dialog' = [dialog EXCEPT
           !.error = @ \/ (answer # "ok" /\ task[r].req.op = "share"),
           !.missed = @ \/ answer # "ok"]
Continue_StaysPending(r, answer) ==
    /\ IF answer = "ok" THEN Reload ELSE UNCHANGED listing
    /\ UNCHANGED <<errands, dialog>>
Continue(r, answer) ==
    /\ errands' = errands \ {r}
    /\ IF answer = "ok" THEN Reload ELSE UNCHANGED listing
    /\ dialog' = [dialog EXCEPT
           !.error = @ \/ (answer # "ok" /\ task[r].req.op = "share"),
           !.missed = @ \/ answer # "ok"]

AnswerErrand(r) ==
    /\ r \in errands
    /\ Deliver(r)
    /\ Continue(r, task[r].answer)

LoseErrand(r) ==
    /\ r \in errands
    /\ Disconnect(r)
    /\ Continue(r, "internal")

-----------------------------------------------------------------------------
(* list_shares, and the continuation of reload. *)

Listed(l, stage) == listing' = [listing EXCEPT ![l].at = stage]

\* require_owner: the dialog's user is the owner, if the note still exists.
LoadListing(l) ==
    /\ listing[l].at = "load"
    /\ Listed(l, IF Live(Shared) THEN "shares" ELSE "error")
    /\ UNCHANGED <<vars, dialog, errands>>

ListShares(l) ==
    /\ listing[l].at = "shares"
    /\ listing' = [listing EXCEPT ![l].at = "link",
                                  ![l].shares = shares[Shared]]
    /\ UNCHANGED <<vars, dialog, errands>>

GetPublicShare(l) ==
    /\ listing[l].at = "link"
    /\ listing' = [listing EXCEPT ![l].at = "listed",
                                  ![l].link = links[Shared]]
    /\ UNCHANGED <<vars, dialog, errands>>

FailListing(l) ==
    /\ Faults /\ listing[l].at \in {"load", "shares", "link", "listed"}
    /\ Listed(l, "error")
    /\ UNCHANGED <<vars, dialog, errands>>

SetShares_KeepsLink(l) ==
    /\ listing[l].at = "listed"
    /\ dialog' = [dialog EXCEPT !.loaded = TRUE, !.shares = listing[l].shares,
           !.link = IF dialog.link = NoToken THEN listing[l].link ELSE @]
    /\ listing' = [listing EXCEPT ![l] = NoListing]
    /\ UNCHANGED <<vars, errands>>
SetShares(l) ==
    /\ listing[l].at = "listed"
    /\ dialog' = [dialog EXCEPT !.loaded = TRUE, !.shares = listing[l].shares,
                                !.link = listing[l].link]
    /\ listing' = [listing EXCEPT ![l] = NoListing]
    /\ UNCHANGED <<vars, errands>>

SetError(l) ==
    /\ listing[l].at = "error"
    /\ dialog' = [dialog EXCEPT !.error = TRUE, !.missed = TRUE]
    /\ listing' = [listing EXCEPT ![l] = NoListing]
    /\ UNCHANGED <<vars, errands>>

ListingStep(l) ==
    \/ LoadListing(l) \/ ListShares(l) \/ GetPublicShare(l)
    \/ FailListing(l) \/ SetShares(l) \/ SetError(l)

Errand ==
    \/ \E u \in Users, p \in Permission : HandleShare(u, p)
    \/ \E u \in Users : HandleRevoke(u)
    \/ \E t \in Tokens : HandleCreatePublicLink(t)
    \/ HandleRevokePublicLink

-----------------------------------------------------------------------------
(* Properties. *)

\* The dialog of an owner who waits for each list before the next click shows
\* who can see the note and the link that opens it, once all is answered and
\* if nothing failed.  Clicks that overlap can leave an older list behind.
QuietDialogIsTrue ==
    DialogQuiet /\ ~dialog.hurried /\ ~dialog.missed =>
        /\ dialog.loaded
        /\ dialog.shares = shares[Shared]
        /\ dialog.link = links[Shared]
=============================================================================
