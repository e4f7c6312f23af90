-------------------------- MODULE MigrationsSafety --------------------------
(***************************************************************************)
(* Safety of start-up, for any number of replicas, of any releases that    *)
(* only add files, and any number of crashes.  The inductive invariant     *)
(* joins the table to the replicas: the journal counts what was applied,   *)
(* two replicas never commit the same file, and whatever a replica's loop  *)
(* has passed is recorded.                                                 *)
(***************************************************************************)
EXTENDS Migrations, TLAPS

Honest == \A m \in Names : applied[m] = IF m \in recorded THEN 1 ELSE 0

OneCommitter ==
    \A i \in Replicas : At(i, "commit") =>
        /\ at[i] \notin recorded
        /\ \A j \in Replicas : At(j, "commit") /\ at[j] = at[i] => j = i

FromTheStart == \A i \in Replicas : pc[i] \in {"create", "make"} => at[i] = 0

Behind ==
    \A i \in Replicas : \A m \in Files[i] :
        /\ At(i, "look") /\ m <= at[i] => m \in recorded
        /\ pc[i] \in Running /\ m < at[i] => m \in recorded
        /\ pc[i] \in {"discover", "serving"} => m \in recorded

IInv == MigrationsTypeOK /\ Honest /\ OneCommitter /\ FromTheStart /\ Behind
            /\ NoGaps

LEMMA FilesAreNames ==
    ASSUME NEW i \in Replicas, NEW m \in Files[i]
    PROVE  m \in Names /\ m \in Nat /\ m > 0
  <1>1. Files[i] \subseteq Nat \ {0}
    BY FilesAssumption
  <1>2. m \in Names
    BY DEF Names
  <1> QED
    BY <1>1, <1>2

LEMMA NamesAreNumbers == Names \subseteq Nat
  <1> SUFFICES ASSUME NEW m \in Names PROVE m \in Nat
    OBVIOUS
  <1>1. PICK i \in Replicas : m \in Files[i]
    BY DEF Names
  <1> QED
    BY <1>1, FilesAreNames

LEMMA InvInit == MigrationsInit => IInv
  <1> SUFFICES ASSUME MigrationsInit PROVE IInv
    OBVIOUS
  <1>0. 0 \in 0..MaxCrashes
    BY FilesAssumption
  <1>1. MigrationsTypeOK
    BY <1>0 DEF MigrationsInit, MigrationsTypeOK, Places, Running
  <1>2. Honest /\ OneCommitter /\ FromTheStart /\ Behind /\ NoGaps
    BY DEF MigrationsInit, Honest, OneCommitter, FromTheStart, Behind, NoGaps,
           At, Running
  <1> QED
    BY <1>1, <1>2 DEF IInv

(***************************************************************************)
(* Steps that leave the database alone keep everything that only says what *)
(* is recorded, if the replica that moves has passed no more than before.  *)
(***************************************************************************)
LEMMA QuietStep ==
    ASSUME IInv, NEW i \in Replicas,
           UNCHANGED <<recorded, applied>>, journal' \in BOOLEAN,
           crashes' \in 0..MaxCrashes,
           NEW place \in Places, place # "commit", pc' = [pc EXCEPT ![i] = place],
           NEW a \in Nat, at' = [at EXCEPT ![i] = a],
           place \in Running => a \in Files[i],
           place \in {"create", "make"} => a = 0,
           \A m \in Files[i] :
               /\ place = "look" /\ m <= a => m \in recorded
               /\ place \in Running /\ m < a => m \in recorded
               /\ place \in {"discover", "serving"} => m \in recorded
    PROVE  IInv'
  <1>1. pc'[i] = place /\ at'[i] = a
    BY DEF IInv, MigrationsTypeOK
  <1>2. \A j \in Replicas : j # i => pc'[j] = pc[j] /\ at'[j] = at[j]
    BY DEF IInv, MigrationsTypeOK
  <1>3. MigrationsTypeOK'
    BY <1>1, <1>2 DEF IInv, MigrationsTypeOK
  <1>4. Honest' /\ NoGaps'
    BY DEF IInv, Honest, NoGaps
  <1>5. OneCommitter'
    BY <1>1, <1>2 DEF IInv, OneCommitter, At
  <1>6. FromTheStart'
    BY <1>1, <1>2 DEF IInv, FromTheStart
  <1>7. Behind'
    BY <1>1, <1>2 DEF IInv, Behind, At
  <1> QED
    BY <1>3, <1>4, <1>5, <1>6, <1>7 DEF IInv


(***************************************************************************)
(* One lemma per step of a replica.                                        *)
(***************************************************************************)
LEMMA Bounds ==
    ASSUME IInv, NEW i \in Replicas
    PROVE  /\ crashes \in 0..MaxCrashes /\ journal \in BOOLEAN
           /\ at[i] \in Nat /\ 0 \in Nat
           /\ \A m \in Files[i] : m \in Nat /\ m > 0
           /\ at = [at EXCEPT ![i] = at[i]]
           /\ pc[i] \in Running => at[i] \in Files[i]
  BY FilesAreNames DEF IInv, MigrationsTypeOK

LEMMA PlaceNames ==
    /\ {"down", "create", "make", "look", "discover", "serving", "batch",
         "record"} \subseteq Places \ {"commit"}
    /\ Running = {"batch", "record", "commit"}
  BY DEF Places, Running

LEMMA StartKeeps ==
    ASSUME IInv, NEW i \in Replicas, Start(i)
    PROVE  IInv'
  BY Bounds, PlaceNames, QuietStep DEF Start, Goto, database

LEMMA CreateJournalKeeps ==
    ASSUME IInv, NEW i \in Replicas, CreateJournal(i)
    PROVE  IInv'
  <1>1. at[i] = 0 /\ at' = [at EXCEPT ![i] = at[i]]
    BY Bounds DEF CreateJournal, At, IInv, FromTheStart
  <1>2. \A m \in Files[i] : ~(m <= at[i])
    BY <1>1, Bounds
  <1>3. UNCHANGED <<recorded, applied>> /\ journal' \in BOOLEAN
        /\ crashes' \in 0..MaxCrashes
    BY Bounds DEF CreateJournal, database
  <1>4. PICK place \in {"look", "make"} : pc' = [pc EXCEPT ![i] = place]
    BY DEF CreateJournal, Goto
  <1>5. /\ place \in Places /\ place # "commit" /\ place \notin Running
        /\ place \notin {"discover", "serving", "create"}
    BY <1>4 DEF Places, Running
  <1> QED
    BY <1>1, <1>2, <1>3, <1>4, <1>5, QuietStep, Bounds

LEMMA MakeJournalKeeps ==
    ASSUME IInv, NEW i \in Replicas, MakeJournal(i)
    PROVE  IInv'
  <1>1. at[i] = 0 /\ at' = [at EXCEPT ![i] = at[i]]
    BY Bounds DEF MakeJournal, At, IInv, FromTheStart
  <1>2. \A m \in Files[i] : ~(m <= at[i])
    BY <1>1, Bounds
  <1>3. UNCHANGED <<recorded, applied>> /\ journal' \in BOOLEAN
        /\ crashes' \in 0..MaxCrashes
    BY Bounds DEF MakeJournal
  <1>4. PICK place \in {"look", "down"} : pc' = [pc EXCEPT ![i] = place]
    BY DEF MakeJournal, Goto
  <1>5. /\ place \in Places /\ place # "commit" /\ place \notin Running
        /\ place \notin {"discover", "serving", "create", "make"}
    BY <1>4 DEF Places, Running
  <1> QED
    BY <1>1, <1>2, <1>3, <1>4, <1>5, QuietStep, Bounds

\* The loop passes a file only if it is recorded, and ends past all of them.
LEMMA LookKeeps ==
    ASSUME IInv, NEW i \in Replicas, Look(i)
    PROVE  IInv'
  <1>0. UNCHANGED <<recorded, applied>> /\ journal' \in BOOLEAN
        /\ crashes' \in 0..MaxCrashes
    BY Bounds DEF Look, database
  <1>1. \A m \in Files[i] : m <= at[i] => m \in recorded
    BY DEF Look, At, IInv, Behind
  <1>2. CASE Finished(i) /\ Goto(i, "discover") /\ UNCHANGED at
    <2>1. \A m \in Files[i] : m \in recorded
      BY <1>1, <1>2 DEF Finished
    <2> QED
      BY <1>0, <1>2, <2>1, Bounds, PlaceNames, QuietStep DEF Goto
  <1>3. ASSUME NEW m \in Ahead(i), at' = [at EXCEPT ![i] = m],
               Goto(i, IF m \in recorded THEN "look" ELSE "batch")
        PROVE  IInv'
    <2>1. m \in Files[i] /\ m \in Nat
      BY Bounds DEF Ahead
    <2>2. \A k \in Files[i] : k < m => k \in recorded
      BY <1>1, <2>1, Bounds DEF Ahead
    <2>3. \A k \in Files[i] : k <= m /\ m \in recorded => k \in recorded
      BY <2>1, <2>2, Bounds
    <2>4. CASE m \in recorded
      BY <1>0, <1>3, <2>1, <2>3, <2>4, PlaceNames, QuietStep DEF Goto
    <2>5. CASE m \notin recorded
      BY <1>0, <1>3, <2>1, <2>2, <2>5, PlaceNames, QuietStep DEF Goto
    <2> QED
      BY <2>4, <2>5
  <1> QED
    BY <1>2, <1>3 DEF Look
LEMMA BatchKeeps ==
    ASSUME IInv, NEW i \in Replicas, Batch(i)
    PROVE  IInv'
  <1>0. /\ UNCHANGED <<recorded, applied>> /\ journal' \in BOOLEAN
        /\ crashes' \in 0..MaxCrashes
        /\ at' = [at EXCEPT ![i] = at[i]]
    BY Bounds DEF Batch, database
  <1>1. at[i] \in Files[i] /\ \A m \in Files[i] : m < at[i] => m \in recorded
    BY PlaceNames DEF Batch, At, IInv, Behind, MigrationsTypeOK
  <1>2. PICK place \in {"record", "down"} : pc' = [pc EXCEPT ![i] = place]
    BY DEF Batch, Goto
  <1>3. /\ place \in Places /\ place # "commit"
        /\ place \notin {"discover", "serving", "create", "make", "look"}
    BY <1>2 DEF Places, Running
  <1> QED
    BY <1>0, <1>1, <1>2, <1>3, QuietStep, Bounds

\* The primary key: a replica gets to its COMMIT only if no other replica is
\* at a COMMIT of the same file and the file is not recorded.
LEMMA RecordKeeps ==
    ASSUME IInv, NEW i \in Replicas, Record(i)
    PROVE  IInv'
  <1>0. /\ UNCHANGED <<recorded, applied>> /\ journal' \in BOOLEAN
        /\ crashes' \in 0..MaxCrashes
        /\ at' = [at EXCEPT ![i] = at[i]]
    BY Bounds DEF Record, database
  <1>1. at[i] \in Files[i] /\ \A m \in Files[i] : m < at[i] => m \in recorded
    BY PlaceNames DEF Record, At, IInv, Behind, MigrationsTypeOK
  <1>2. CASE at[i] \in recorded
    <2>1. pc' = [pc EXCEPT ![i] = "down"]
      BY <1>2 DEF Record, Goto
    <2> QED
      BY <1>0, <1>1, <2>1, PlaceNames, QuietStep, Bounds
  <1>3. CASE at[i] \notin recorded
    <2>1. pc' = [pc EXCEPT ![i] = "commit"] /\ UNCHANGED at
      BY <1>3 DEF Record, Goto
    <2>2. /\ pc'[i] = "commit"
          /\ \A j \in Replicas : j # i => pc'[j] = pc[j]
      BY <2>1 DEF IInv, MigrationsTypeOK
    <2>3. MigrationsTypeOK'
      <3>1. pc' \in [Replicas -> Places]
        BY <2>1 DEF IInv, MigrationsTypeOK, Places, Running
      <3>2. \A j \in Replicas : pc'[j] \in Running => at'[j] \in Files[j]
        BY <1>1, <2>1, <2>2 DEF IInv, MigrationsTypeOK
      <3> QED
        BY <1>0, <2>1, <3>1, <3>2 DEF IInv, MigrationsTypeOK
    <2>4. Honest' /\ NoGaps'
      BY <1>0 DEF IInv, Honest, NoGaps
    <2>5. OneCommitter'
      BY <1>0, <1>3, <2>1, <2>2 DEF IInv, OneCommitter, At, Record
    <2>6. FromTheStart'
      BY <2>1, <2>2 DEF IInv, FromTheStart
    <2>7. Behind'
      BY <1>0, <1>1, <2>1, <2>2 DEF IInv, Behind, At
    <2> QED
      BY <2>3, <2>4, <2>5, <2>6, <2>7 DEF IInv
  <1> QED
    BY <1>2, <1>3

\* What a COMMIT adds is new, and everything before it is there already, in
\* the committer's release and, as releases only add files, in any other.
LEMMA CommitKeeps ==
    ASSUME IInv, NEW i \in Replicas, Commit(i)
    PROVE  IInv'
  <1> DEFINE m == at[i]
  <1>0. /\ UNCHANGED <<journal, at, crashes>>
        /\ pc' = [pc EXCEPT ![i] = "look"]
        /\ recorded' = recorded \cup {m}
        /\ applied' = [applied EXCEPT ![m] = applied[m] + 1]
    BY DEF Commit, Goto
  <1>1. /\ m \in Files[i] /\ m \in Names /\ m \notin recorded
        /\ \A j \in Replicas : At(j, "commit") /\ at[j] = m => j = i
        /\ \A k \in Files[i] : k < m => k \in recorded
    BY PlaceNames, FilesAreNames
       DEF Commit, At, IInv, MigrationsTypeOK, OneCommitter, Behind
  <1>2. /\ pc'[i] = "look"
        /\ \A j \in Replicas : j # i => pc'[j] = pc[j]
    BY <1>0 DEF IInv, MigrationsTypeOK
  <1>3. applied[m] = 0 /\ applied \in [Names -> Nat]
    BY <1>1 DEF IInv, Honest, MigrationsTypeOK
  <1>4. MigrationsTypeOK'
    <2>1. applied' \in [Names -> Nat]
      BY <1>0, <1>1, <1>3
    <2>2. pc' \in [Replicas -> Places]
      BY <1>0, PlaceNames DEF IInv, MigrationsTypeOK
    <2>3. \A j \in Replicas : pc'[j] \in Running => at'[j] \in Files[j]
      BY <1>0, <1>2, PlaceNames DEF IInv, MigrationsTypeOK
    <2> QED
      BY <1>0, <1>1, <2>1, <2>2, <2>3 DEF IInv, MigrationsTypeOK
  <1>5. Honest'
    BY <1>0, <1>1, <1>3 DEF IInv, Honest
  <1>6. OneCommitter'
    BY <1>0, <1>1, <1>2 DEF IInv, OneCommitter, At
  <1>7. FromTheStart'
    BY <1>0, <1>2 DEF IInv, FromTheStart
  <1>8. Behind'
    <2>1. \A k \in Files[i] : k <= m => k \in recorded'
      BY <1>0, <1>1, Bounds
    <2>2. ASSUME NEW j \in Replicas, NEW k \in Files[j], j # i
          PROVE  /\ At(j, "look")' /\ k <= at'[j] => k \in recorded'
                 /\ pc'[j] \in Running /\ k < at'[j] => k \in recorded'
                 /\ pc'[j] \in {"discover", "serving"} => k \in recorded'
      BY <1>0, <1>2, <2>2 DEF IInv, Behind, At
    <2> QED
      BY <1>0, <1>2, <2>1, <2>2, PlaceNames DEF Behind, At
  <1>9. NoGaps'
    <2> SUFFICES ASSUME NEW j \in Replicas, NEW n \in Files[j],
                        NEW k \in Files[j], n \in recorded', k < n
                 PROVE  k \in recorded'
      BY DEF NoGaps
    <2>1. CASE n \in recorded
      BY <1>0, <2>1 DEF IInv, NoGaps
    <2>2. CASE n = m
      <3>1. k \in Files[i]
        BY <1>1, <2>2, ForwardOnly
      <3> QED
        BY <1>0, <1>1, <2>2, <3>1
    <2> QED
      BY <1>0, <2>1, <2>2
  <1> QED
    BY <1>4, <1>5, <1>6, <1>7, <1>8, <1>9 DEF IInv

LEMMA DiscoverKeeps ==
    ASSUME IInv, NEW i \in Replicas, Discover(i)
    PROVE  IInv'
  <1>1. \A m \in Files[i] : m \in recorded
    BY DEF Discover, At, IInv, Behind
  <1> QED
    BY <1>1, Bounds, PlaceNames, QuietStep DEF Discover, Goto, database

LEMMA CrashKeeps ==
    ASSUME IInv, NEW i \in Replicas, Crash(i)
    PROVE  IInv'
  <1>1. crashes' \in 0..MaxCrashes
    BY FilesAssumption DEF Crash, IInv, MigrationsTypeOK
  <1> QED
    BY <1>1, Bounds, PlaceNames, QuietStep DEF Crash, Goto, database

LEMMA InvNext == IInv /\ [MigrationsNext]_mvars => IInv'
  <1> SUFFICES ASSUME IInv, [MigrationsNext]_mvars PROVE IInv'
    OBVIOUS
  <1>1. ASSUME NEW i \in Replicas, Start(i) PROVE IInv'
    BY <1>1, StartKeeps
  <1>2. ASSUME NEW i \in Replicas, StartUp(i) PROVE IInv'
    BY <1>2, CreateJournalKeeps, MakeJournalKeeps, LookKeeps, BatchKeeps,
       RecordKeeps, CommitKeeps, DiscoverKeeps DEF StartUp
  <1>3. ASSUME NEW i \in Replicas, Crash(i) PROVE IInv'
    BY <1>3, CrashKeeps
  <1>4. CASE UNCHANGED mvars
    BY <1>4 DEF mvars, IInv, MigrationsTypeOK, Honest, OneCommitter,
       FromTheStart, Behind, NoGaps, At
  <1> QED
    BY <1>1, <1>2, <1>3, <1>4 DEF MigrationsNext

(* However replicas race, crash and start again, the journal is honest, a  *)
(* file has one committer, and what a loop has passed is recorded.         *)
THEOREM Inductive == MigrationsSpec => []IInv
  BY InvInit, InvNext, PTL DEF MigrationsSpec

(***************************************************************************)
(* The theorems.                                                           *)
(***************************************************************************)

\* No migration takes effect twice, for any replicas, releases and crashes
\* (ADR 0006: "idempotent").
THEOREM AppliedOnceHolds == MigrationsSpec => []AppliedOnce
  <1>1. IInv => AppliedOnce
    BY DEF IInv, Honest, AppliedOnce
  <1> QED
    BY <1>1, Inductive, PTL

\* The journal knows exactly the migrations that took effect (db/mod.rs,
\* run_migration: all-or-nothing).
THEOREM JournalIsTrueHolds == MigrationsSpec => []JournalIsTrue
  <1>1. IInv => JournalIsTrue
    BY DEF IInv, Honest, JournalIsTrue
  <1> QED
    BY <1>1, Inductive, PTL

\* Migrations take effect in the order of each release (db/mod.rs: "in
\* filename order"), if releases only add files.
THEOREM NoGapsHolds == MigrationsSpec => []NoGaps
  <1>1. IInv => NoGaps
    BY DEF IInv
  <1> QED
    BY <1>1, Inductive, PTL

\* A replica that serves has the whole schema of its release (main.rs opens
\* the database before it listens).
THEOREM ServingHasSchemaHolds == MigrationsSpec => []ServingHasSchema
  <1>1. IInv => ServingHasSchema
    BY FilesAreNames DEF IInv, Behind, Honest, ServingHasSchema, At
  <1> QED
    BY <1>1, Inductive, PTL
=============================================================================
