---------------------------- MODULE NotesHistory ----------------------------
(***************************************************************************)
(* The notes service with two history variables, which no action reads:    *)
(*   held[r]  the rights that the actor of request r had on its note at    *)
(*            some moment since the request arrived;                       *)
(*   spent    the note ids and link tokens that named something once and   *)
(*            no longer do.                                                *)
(* Both follow from the tables before and after a step, whatever the step. *)
(***************************************************************************)
EXTENDS NotesService

VARIABLES held, spent
hvars == <<vars, held, spent>>

Right(n, u) ==
    IF Live(n) /\ notes[n].owner = u THEN {"owner"}
    ELSE {shares[n][u]} \ {"none"}

\* Deliver, Disconnect and Receive are different steps, so that a slot is
\* seen idle between two requests.
HeldNow(r) ==
    IF At(r, "idle") \/ task[r].req.op = "readLink" THEN {}
    ELSE Right(task[r].req.note, task[r].req.actor)

Names == {n \in Notes : Live(n)} \cup {t \in Tokens : \E n \in Notes : links[n] = t}

HInit ==
    /\ Init
    /\ held = [r \in Requests |-> {}]
    /\ spent = {}

Remember ==
    /\ held' = [r \in Requests |-> IF At(r, "idle") THEN HeldNow(r)'
                                   ELSE IF At(r, "idle")' THEN {}
                                   ELSE held[r] \cup HeldNow(r)']
    /\ spent' = spent \cup (Names \ Names')

HNext == Next /\ Remember
HSpec == HInit /\ [][HNext]_hvars

-----------------------------------------------------------------------------
(* Properties. *)

\* No effect without the right to it, at some moment of the request: a save
\* is applied for the owner or someone with an edit share, a note's text is
\* returned to someone who could read it, and the answer to get and update
\* tells a stranger nothing (service.rs: "so the endpoint doesn't reveal that
\* the note exists").
NothingWithoutRight ==
    \A r \in Requests : ~At(r, "idle") =>
        /\ task[r].applied => held[r] \cap {"owner", "edit"} # {}
        /\ (/\ task[r].req.op \in {"get", "update"}
            /\ task[r].answer \in {"ok", "conflict", "forbidden"})
           => held[r] # {}

\* A note's shares and link are changed only by a request of its owner, or by
\* its deletion, which is the owner's too.
Managed(n) == <<Live(n), shares[n], links[n]>>
OnlyTheOwner ==
    [][\A n \in Notes : Live(n) /\ Managed(n)' # Managed(n) =>
          \E r \in Requests :
              /\ task'[r] # task[r]
              /\ task[r].req.op \in OwnerOps
              /\ task[r].req.note = n
              /\ task[r].req.actor = notes[n].owner]_hvars

\* An address that stopped working stays dead: no deleted note comes back,
\* and a link that was replaced or withdrawn never opens a note again.
SpentStaysSpent == spent \cap Names = {}

\* The handlers, statement by statement, implement the contract.
Contract == INSTANCE NotesContract WITH
    Users <- Users, Notes <- Notes, Tokens <- Tokens, Bodies <- Bodies,
    Absent <- Absent, NoToken <- NoToken,
    notes <- notes, shares <- shares, links <- links, mentions <- mentions,
    spent <- spent
ImplementsContract == Contract!Spec
=============================================================================
