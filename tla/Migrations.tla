----------------------------- MODULE Migrations -----------------------------
(***************************************************************************)
(* Starting replicas of backend-rust on one database: run of main.rs,      *)
(* Db::open and Db::migrate of db/mod.rs and run_migration of the engines. *)
(* Each replica is a process of its own, which may die at any time and be  *)
(* started again; replicas may be of different releases.                   *)
(*                                                                         *)
(* Migrations are numbers in the order of their file names; 0 stands for   *)
(* none.  A migration's transaction has three steps: its statements, the   *)
(* INSERT into schema_migrations, whose PRIMARY KEY makes it wait for      *)
(* another transaction that inserts the same name, and the COMMIT, where   *)
(* all of it takes effect.                                                 *)
(*                                                                         *)
(* A definition named Operation_Slip is Operation with one plausible slip, *)
(* kept to show that a property notices it; the specification uses none.   *)
(***************************************************************************)
EXTENDS Naturals

CONSTANTS
    Replicas,     \* processes
    Files,        \* the migrations embedded in each replica's binary
    MaxCrashes    \* bound on processes that die, or fail to reach something

Names == UNION {Files[i] : i \in Replicas}

ASSUME FilesAssumption ==
    /\ Files \in [Replicas -> SUBSET (Nat \ {0})]
    /\ MaxCrashes \in Nat
\* Forward-only (ADR 0006): a release adds files after those of the last.
ASSUME ForwardOnly ==
    \A i, j \in Replicas : \A m \in Files[i] \cap Files[j] : \A k \in Files[i] :
        k < m => k \in Files[j]

VARIABLES
    journal,    \* does the table schema_migrations exist?
    recorded,   \* its rows
    applied,    \* how often each migration has taken effect on the schema
    pc,         \* where each replica is in its start-up
    at,         \* the migration its loop is at
    crashes

mvars == <<journal, recorded, applied, pc, at, crashes>>

Running == {"batch", "record", "commit"}
Places == {"down", "create", "make", "look", "discover", "serving"}
              \cup Running

MigrationsTypeOK ==
    /\ journal \in BOOLEAN
    /\ recorded \subseteq Names
    /\ applied \in [Names -> Nat]
    /\ pc \in [Replicas -> Places]
    /\ at \in [Replicas -> Nat]
    /\ \A i \in Replicas : pc[i] \in Running => at[i] \in Files[i]
    /\ crashes \in 0..MaxCrashes

MigrationsInit ==
    /\ journal = FALSE
    /\ recorded = {}
    /\ applied = [m \in Names |-> 0]
    /\ pc = [i \in Replicas |-> "down"]
    /\ at = [i \in Replicas |-> 0]
    /\ crashes = 0

At(i, place) == pc[i] = place
Goto(i, place) == pc' = [pc EXCEPT ![i] = place]
database == <<journal, recorded, applied>>

Start(i) ==
    /\ At(i, "down")
    /\ Goto(i, "create")
    /\ at' = [at EXCEPT ![i] = 0]
    /\ UNCHANGED <<database, crashes>>

-----------------------------------------------------------------------------
(* CREATE TABLE IF NOT EXISTS schema_migrations.  PostgreSQL looks first   *)
(* and creates afterwards: two replicas can both find no table, and then   *)
(* the second is refused.                                                  *)

CreateJournal(i) ==
    /\ At(i, "create")
    /\ Goto(i, IF journal THEN "look" ELSE "make")
    /\ UNCHANGED <<database, at, crashes>>

MakeJournal(i) ==
    /\ At(i, "make")
    /\ journal' = TRUE
    /\ \/ Goto(i, "look")
       \/ journal /\ Goto(i, "down")
    /\ UNCHANGED <<recorded, applied, at, crashes>>

-----------------------------------------------------------------------------
(* The loop over the file names, and run_migration.                        *)

Ahead_Unsorted(i) == {m \in Files[i] : m > at[i]}
Ahead_FromDisk(i) == {m \in Names : /\ m > at[i]
                                   /\ \A k \in Names : k > at[i] => m <= k}
\* The next file name, in order.
Ahead(i) == {m \in Files[i] : /\ m > at[i]
                              /\ \A k \in Files[i] : k > at[i] => m <= k}

Finished(i) == \A m \in Files[i] : m <= at[i]

Look_Rerun(i) ==
    /\ At(i, "look")
    /\ \/ \E m \in Ahead(i) : Goto(i, "batch") /\ at' = [at EXCEPT ![i] = m]
       \/ Finished(i) /\ Goto(i, "discover") /\ UNCHANGED at
    /\ UNCHANGED <<database, crashes>>
Look_LastOnly(i) ==
    /\ At(i, "look")
    /\ \/ \E m \in Ahead(i) :
              /\ Goto(i, IF recorded # {} THEN "look" ELSE "batch")
              /\ at' = [at EXCEPT ![i] = m]
       \/ Finished(i) /\ Goto(i, "discover") /\ UNCHANGED at
    /\ UNCHANGED <<database, crashes>>
\* SELECT COUNT(*) FROM schema_migrations WHERE name = ?
Look(i) ==
    /\ At(i, "look")
    /\ \/ \E m \in Ahead(i) :
              /\ Goto(i, IF m \in recorded THEN "look" ELSE "batch")
              /\ at' = [at EXCEPT ![i] = m]
       \/ Finished(i) /\ Goto(i, "discover") /\ UNCHANGED at
    /\ UNCHANGED <<database, crashes>>

Batch_Autocommit(i) ==
    /\ At(i, "batch")
    /\ Goto(i, "record")
    /\ applied' = [applied EXCEPT ![at[i]] = @ + 1]
    /\ UNCHANGED <<journal, recorded, at, crashes>>
\* The statements of the file.  They fail if what they create exists, and
\* under SQLite if another writer keeps the lock past busy_timeout.
Batch(i) ==
    /\ At(i, "batch")
    /\ \/ Goto(i, "record")
       \/ /\ applied[at[i]] > 0 \/ \E j \in Replicas : At(j, "commit")
          /\ Goto(i, "down")
    /\ UNCHANGED <<database, at, crashes>>

Record_NoKey(i) ==
    /\ At(i, "record")
    /\ Goto(i, "commit")
    /\ UNCHANGED <<database, at, crashes>>
Record(i) ==
    /\ At(i, "record")
    /\ \A j \in Replicas : at[j] = at[i] => ~At(j, "commit")
    /\ Goto(i, IF at[i] \in recorded THEN "down" ELSE "commit")
    /\ UNCHANGED <<database, at, crashes>>

Commit(i) ==
    /\ At(i, "commit")
    /\ recorded' = recorded \cup {at[i]}
    /\ applied' = [applied EXCEPT ![at[i]] = @ + 1]
    /\ Goto(i, "look")
    /\ UNCHANGED <<journal, at, crashes>>

\* The rest of run: OIDC discovery, the router, the listening socket.
Discover(i) ==
    /\ At(i, "discover")
    /\ Goto(i, "serving")
    /\ UNCHANGED <<database, at, crashes>>

-----------------------------------------------------------------------------
\* The process is killed, or a statement or the identity provider fails and
\* main exits; an open transaction is rolled back.
Crash(i) ==
    /\ crashes < MaxCrashes
    /\ ~At(i, "down")
    /\ crashes' = crashes + 1
    /\ Goto(i, "down")
    /\ UNCHANGED <<database, at>>

StartUp(i) ==
    \/ CreateJournal(i) \/ MakeJournal(i) \/ Look(i)
    \/ Batch(i) \/ Record(i) \/ Commit(i) \/ Discover(i)

MigrationsNext == \E i \in Replicas : Start(i) \/ StartUp(i) \/ Crash(i)

\* A process runs, and whoever runs it starts it again when it has died.
MigrationsFairness ==
    \A i \in Replicas : WF_mvars(StartUp(i)) /\ WF_mvars(Start(i))

MigrationsSpec == MigrationsInit /\ [][MigrationsNext]_mvars
FairMigrationsSpec == MigrationsSpec /\ MigrationsFairness

-----------------------------------------------------------------------------
(* Properties. *)

\* "Idempotent" (ADR 0006): no migration takes effect twice, however replicas
\* race from the SELECT to the COMMIT and wherever one of them dies.
AppliedOnce == \A m \in Names : applied[m] <= 1

\* "All-or-nothing" (db/mod.rs): the journal knows exactly the migrations
\* that took effect, so that a replica that died leaves nothing in between.
JournalIsTrue == \A m \in Names : m \in recorded <=> applied[m] > 0

\* "In filename order" (db/mod.rs): a migration never takes effect before an
\* earlier one of the same release, also when older replicas start as well.
NoGaps ==
    \A i \in Replicas : \A m, k \in Files[i] :
        m \in recorded /\ k < m => k \in recorded

\* A replica that answers requests has the whole schema of its release.
ServingHasSchema ==
    \A i \in Replicas : At(i, "serving") => \A m \in Files[i] : applied[m] > 0

\* A replica that lost a race, or died, comes up when it is started again.
EveryReplicaServes == \A i \in Replicas : <>[]At(i, "serving")
=============================================================================
