------------------------------ MODULE MCServer ------------------------------
(* Small instances of starting and serving replicas, for TLC. *)
EXTENDS Server, TLC

CONSTANTS p1, p2, ann, bob, s1, s2

\* The release of p2 adds a migration to that of p1.
Releases == (p1 :> {1}) @@ (p2 :> {1, 2})
=============================================================================
