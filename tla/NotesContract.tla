--------------------------- MODULE NotesContract ---------------------------
(***************************************************************************)
(* What the notes service promises about its tables, with every request    *)
(* collapsed to the one moment it takes effect: the schema of              *)
(* db/migrations/0001_init.sql together with optimistic concurrency        *)
(* (ADR 0008) and revocable public links (ADR 0009).                       *)
(*                                                                         *)
(* An id is spent once the thing it named is gone: the note was deleted,   *)
(* or the link replaced or withdrawn.  A spent id never names anything     *)
(* again, so an address that stopped working stays dead.                   *)
(***************************************************************************)
EXTENDS Naturals

CONSTANTS Users, Notes, Tokens, Bodies, Absent, NoToken

VARIABLES notes, shares, links, mentions, spent

vars == <<notes, shares, links, mentions, spent>>

Live(n) == notes[n] # Absent
Nobody == [u \in Users |-> "none"]
Linked(t) == \E n \in Notes : links[n] = t

Init ==
    /\ notes = [n \in Notes |-> Absent]
    /\ shares = [n \in Notes |-> Nobody]
    /\ links = [n \in Notes |-> NoToken]
    /\ mentions = {}
    /\ spent = {}

\* A note starts at version 1, under an id that never named a note.
Create(n, u, b) ==
    /\ ~Live(n) /\ n \notin spent
    /\ notes' = [notes EXCEPT ![n] = [owner |-> u, body |-> b, version |-> 1]]
    /\ UNCHANGED <<shares, links, mentions, spent>>

\* A save replaces the body of the version it was based on, and of no other.
Save(n, base, b) ==
    /\ Live(n) /\ notes[n].version = base
    /\ notes' = [notes EXCEPT ![n] = [owner |-> notes[n].owner, body |-> b,
                                      version |-> base + 1]]
    /\ UNCHANGED <<shares, links, mentions, spent>>

\* Everything that hangs on a note goes with it.
Remove(n) ==
    /\ Live(n)
    /\ notes' = [notes EXCEPT ![n] = Absent]
    /\ shares' = [shares EXCEPT ![n] = Nobody]
    /\ links' = [links EXCEPT ![n] = NoToken]
    /\ mentions' = {m \in mentions : m[1] # n}
    /\ spent' = spent \cup {n} \cup ({links[n]} \ {NoToken})

Share(n, u, permission) ==
    /\ Live(n) /\ u # notes[n].owner
    /\ shares' = [shares EXCEPT ![n][u] = permission]
    /\ UNCHANGED <<notes, links, mentions, spent>>

Unshare(n, u) ==
    /\ shares' = [shares EXCEPT ![n][u] = "none"]
    /\ UNCHANGED <<notes, links, mentions, spent>>

Publish(n, t) ==
    /\ Live(n) /\ t \notin spent /\ ~Linked(t)
    /\ links' = [links EXCEPT ![n] = t]
    /\ spent' = spent \cup ({links[n]} \ {NoToken})
    /\ UNCHANGED <<notes, shares, mentions>>

Unpublish(n) ==
    /\ links' = [links EXCEPT ![n] = NoToken]
    /\ spent' = spent \cup ({links[n]} \ {NoToken})
    /\ UNCHANGED <<notes, shares, mentions>>

Mention(n, u) ==
    /\ Live(n)
    /\ mentions' = mentions \cup {<<n, u>>}
    /\ UNCHANGED <<notes, shares, links, spent>>

Next ==
    \E n \in Notes :
        \/ \E u \in Users, b \in Bodies : Create(n, u, b)
        \/ \E b \in Bodies : Live(n) /\ Save(n, notes[n].version, b)
        \/ Remove(n)
        \/ \E u \in Users, p \in {"read", "edit"} : Share(n, u, p)
        \/ \E u \in Users : Unshare(n, u) \/ Mention(n, u)
        \/ \E t \in Tokens : Publish(n, t)
        \/ Unpublish(n)

Spec == Init /\ [][Next]_vars
=============================================================================
