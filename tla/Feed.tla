-------------------------------- MODULE Feed --------------------------------
(***************************************************************************)
(* The dashboard feed: list_for_viewer of notes/repository.rs and its      *)
(* cursor, the hook useNoteFeed.ts that pages through it, and the sentinel *)
(* of NoteGrid.tsx that asks for the next page when it is scrolled to -    *)
(* while notes are written, deleted, shared and unshared, and while the    *)
(* session may end.                                                        *)
(*                                                                         *)
(* Timestamps are compared as text (timefmt.rs).  AutoSi prints 0, 3, 6 or *)
(* 9 digits, whichever is enough, and 'Z' sorts after every digit and '.': *)
(* an instant on a coarser grid sorts after all the finer ones of its      *)
(* cell.  Instants here are numbers; those that Grain divides are the      *)
(* coarse ones.  Ids are numbers too, in the order of their text.          *)
(*                                                                         *)
(* Lengths (of the screen, the list, the scroll position) count cards.     *)
(*                                                                         *)
(* A definition named Operation_Slip is Operation with one plausible slip, *)
(* kept to show that a property notices it; the specification uses none.   *)
(***************************************************************************)
EXTENDS Integers, Sequences, FiniteSets

CONSTANTS
    Notes,      \* ids of notes, 0 being the sample note's
    Lent,       \* the notes that are somebody else's
    PageSize,   \* INITIAL_PAGE_SIZE
    Screen,     \* cards on the screen and in the observer's margin
    Grain,      \* instants per coarse instant
    MaxTime,    \* bound on the times of writes
    Faults,     \* may a page fail to load, and the session end?
    Absent,     \* no row
    NoCursor    \* the first page; no next page

Sample == 0
\* A table has finitely many rows.
ASSUME IdAssumption ==
    Notes \subseteq Nat \ {Sample} /\ IsFiniteSet(Notes) /\ Lent \subseteq Notes
ASSUME SizeAssumption ==
    {PageSize, Grain} \subseteq Nat \ {0} /\ {Screen, MaxTime} \subseteq Nat
Instants == 0..MaxTime
Entries == [id : Notes \cup {Sample}, at : Instants]
ASSUME AbsenceAssumption == Absent \notin Instants /\ NoCursor \notin Entries

VARIABLES
    updated,    \* notes.updated_at
    shared,     \* the lent notes that are shared with the viewer
    signedIn,   \* the viewer's session
    feed,       \* state and refs of useNoteFeed, and of the scrolled page
    reply,      \* the request in flight
    steady      \* history: visible since the feed opened, and not written

table == <<updated, shared, signedIn>>
vars == <<table, feed, reply, steady>>

NoteFeed == [items : Seq(Entries), cursor : Entries \cup {NoCursor},
             hasMore : BOOLEAN, loading : BOOLEAN, failed : BOOLEAN,
             top : Nat, reported : {"unknown", "near", "far"}]
Reply == [state : {"none", "asked", "served", "error"},
          items : Seq(Entries), next : Entries \cup {NoCursor}]

TypeOK ==
    /\ updated \in [Notes -> Instants \cup {Absent}]
    /\ shared \subseteq Lent
    /\ signedIn \in BOOLEAN
    /\ feed \in NoteFeed
    /\ reply \in Reply
    /\ steady \subseteq Notes
    /\ feed.loading <=> reply.state # "none"

Visible == {n \in Notes : updated[n] # Absent /\ (n \in Lent => n \in shared)}

Silent == [state |-> "none", items |-> <<>>, next |-> NoCursor]
Asked == [Silent EXCEPT !.state = "asked"]

\* The feed mounts, and its effect asks for the first page at once.
Init ==
    /\ updated \in [Notes -> Instants \cup {Absent}]
    /\ shared \in SUBSET {n \in Lent : updated[n] # Absent}
    /\ signedIn = TRUE
    /\ feed = [items |-> <<>>, cursor |-> NoCursor, hasMore |-> TRUE,
               loading |-> TRUE, failed |-> FALSE, top |-> 0,
               reported |-> "unknown"]
    /\ reply = Asked
    /\ steady = Visible

-----------------------------------------------------------------------------
(* The table, and the statement over it. *)

\* The place of an instant in the order of its text.
TextKey(t) == IF t % Grain = 0 THEN t + Grain - 1 ELSE t - 1

Before_ByTimeOnly(a, b) == TextKey(a.at) < TextKey(b.at)
\* (a.updated_at, a.id) < (b.updated_at, b.id)
Before(a, b) ==
    \/ TextKey(a.at) < TextKey(b.at)
    \/ a.at = b.at /\ a.id < b.id

Entry(n) == [id |-> n, at |-> updated[n]]
\* ORDER BY n.updated_at DESC, n.id DESC: no row after an older one.
InOrder(rows) ==
    CHOOSE s \in [1..Cardinality(rows) -> rows] :
        /\ \A row \in rows : \E i \in DOMAIN s : s[i] = row
        /\ \A i, j \in DOMAIN s : i < j => ~Before(s[i], s[j])

NextCursor_FirstUnsent(rows) ==
    IF Len(rows) > PageSize THEN rows[PageSize + 1] ELSE NoCursor
\* One row more than the page tells whether there is a next one.
NextCursor(rows) == IF Len(rows) > PageSize THEN rows[PageSize] ELSE NoCursor

ListForViewer(cursor) ==
    LET after == {n \in Visible : cursor # NoCursor => Before(Entry(n), cursor)}
        rows == InOrder({Entry(n) : n \in after})
    IN  [state |-> "served", next |-> NextCursor(rows),
         items |-> SubSeq(rows, 1, IF Len(rows) > PageSize THEN PageSize
                                   ELSE Len(rows))]

\* Create or edit a note.  The time is taken before the statement runs, on
\* whichever replica, so that a later write may carry an earlier time.
Write(n, t) ==
    /\ updated' = [updated EXCEPT ![n] = t]
    /\ steady' = steady \ {n}
    /\ UNCHANGED <<shared, signedIn, feed, reply>>

Delete(n) ==
    /\ updated[n] # Absent
    /\ updated' = [updated EXCEPT ![n] = Absent]
    /\ shared' = shared \ {n}
    /\ steady' = steady \ {n}
    /\ UNCHANGED <<signedIn, feed, reply>>

Share(n) ==
    /\ updated[n] # Absent /\ n \notin shared
    /\ shared' = shared \cup {n}
    /\ UNCHANGED <<updated, signedIn, feed, reply, steady>>

Revoke(n) ==
    /\ n \in shared
    /\ shared' = shared \ {n}
    /\ steady' = steady \ {n}
    /\ UNCHANGED <<updated, signedIn, feed, reply>>

\* The session expires, or another tab signs out.
SessionEnds ==
    /\ Faults /\ signedIn
    /\ signedIn' = FALSE
    /\ UNCHANGED <<updated, shared, feed, reply, steady>>

-----------------------------------------------------------------------------
(* The request: Service::list, for an anonymous viewer the sample note. *)

\* The sample note is of the time of the request.
Serve ==
    /\ reply.state = "asked"
    /\ reply' = IF signedIn THEN ListForViewer(feed.cursor)
                ELSE [state |-> "served", next |-> NoCursor,
                      items |-> <<[id |-> Sample, at |-> MaxTime]>>]
    /\ UNCHANGED <<table, feed, steady>>

Fail ==
    /\ Faults /\ reply.state = "asked"
    /\ reply' = [Silent EXCEPT !.state = "error"]
    /\ UNCHANGED <<table, feed, steady>>

Arrive_StaysLoading ==
    /\ reply.state = "served"
    /\ feed' = [feed EXCEPT !.items = @ \o reply.items, !.cursor = reply.next,
                            !.hasMore = reply.next # NoCursor]
    /\ reply' = Silent
    /\ UNCHANGED <<table, steady>>

Arrive_KeepsCursor ==
    /\ reply.state = "served"
    /\ feed' = [feed EXCEPT !.items = @ \o reply.items, !.loading = FALSE,
                            !.hasMore = reply.next # NoCursor]
    /\ reply' = Silent
    /\ UNCHANGED <<table, steady>>
\* The continuation of loadMore.
Arrive ==
    /\ reply.state = "served"
    /\ feed' = [feed EXCEPT !.items = @ \o reply.items, !.cursor = reply.next,
                            !.hasMore = reply.next # NoCursor,
                            !.loading = FALSE]
    /\ reply' = Silent
    /\ UNCHANGED <<table, steady>>

\* Its catch: the message takes the place of the grid, sentinel included.
ArriveError ==
    /\ reply.state = "error"
    /\ feed' = [feed EXCEPT !.failed = TRUE, !.loading = FALSE]
    /\ reply' = Silent
    /\ UNCHANGED <<table, steady>>

-----------------------------------------------------------------------------
(* The page in the browser. *)

Bottom == IF Len(feed.items) > Screen THEN Len(feed.items) - Screen ELSE 0
\* Anywhere else is, to the observer, as the top.
Scroll(to) ==
    /\ ~feed.failed
    /\ feed.top # to
    /\ feed' = [feed EXCEPT !.top = to]
    /\ UNCHANGED <<table, reply, steady>>

\* The observer reports the sentinel when it starts, and again only when the
\* sentinel has come into view or gone out of it.  loadMore returns early
\* while a load is under way, and nothing repeats that call.
Sentinel == IF Len(feed.items) <= feed.top + Screen THEN "near" ELSE "far"
Observe_Once ==
    LET more == Sentinel = "near" /\ ~feed.loading
    IN  /\ ~feed.failed /\ feed.hasMore
        /\ feed.reported = "unknown"
        /\ feed' = [feed EXCEPT !.reported = Sentinel,
                                !.loading = feed.loading \/ more]
        /\ reply' = IF more THEN Asked ELSE reply
        /\ UNCHANGED <<table, steady>>
Observe ==
    LET more == Sentinel = "near" /\ ~feed.loading
    IN  /\ ~feed.failed /\ feed.hasMore
        /\ feed.reported # Sentinel
        /\ feed' = [feed EXCEPT !.reported = Sentinel,
                                !.loading = feed.loading \/ more]
        /\ reply' = IF more THEN Asked ELSE reply
        /\ UNCHANGED <<table, steady>>

Next ==
    \/ \E n \in Notes :
           \/ \E t \in Instants : Write(n, t)
           \/ Delete(n)
    \/ \E n \in Lent : Share(n) \/ Revoke(n)
    \/ SessionEnds
    \/ Serve \/ Fail \/ Arrive \/ ArriveError
    \/ \E to \in {0, Bottom} : Scroll(to)
    \/ Observe

\* Requests are answered, the browser reports what it observes, and the user
\* keeps scrolling up and down the page as far as it goes.
Fairness ==
    /\ WF_vars(Serve) /\ WF_vars(Arrive) /\ WF_vars(ArriveError)
    /\ SF_vars(Observe)
    /\ WF_vars(Scroll(0)) /\ WF_vars(Scroll(Bottom))

Spec == Init /\ [][Next]_vars /\ Fairness

-----------------------------------------------------------------------------
(* Properties. *)

Places(n) == {i \in DOMAIN feed.items : feed.items[i].id = n}

\* ADR 0007: "pagination is stable even as notes are edited".  A note that is
\* not touched while the feed is scrolled is never listed twice, and once
\* there is no next page it has been listed - whatever is written, shared or
\* deleted around it, and however timestamps tie or sort as text.  Only a
\* session that ends on the way breaks it: the next page is then the sample
\* note and the last.
SteadyNotesOnce ==
    \A n \in steady :
        /\ Cardinality(Places(n)) <= 1
        /\ ~feed.hasMore /\ signedIn => Places(n) # {}

\* "Newest-edited first", over the seams between pages too: each card was
\* older, as text, than the one before it when its page was read.
NewestFirst ==
    \A i \in 1..(Len(feed.items) - 1) :
        feed.items[i + 1].id # Sample =>
            Before(feed.items[i + 1], feed.items[i])

\* Scrolling gets to the end of the list, or to the error message.
FeedEnds == <>(~feed.hasMore \/ feed.failed)
=============================================================================
