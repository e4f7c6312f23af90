------------------------------- MODULE MCLogin -------------------------------
(* Small instances of signing in, for TLC. *)
EXTENDS Login, TLC

CONSTANTS ann, bob, mail1, mail2, u1, u2, u3, s1, s2, s3, c1, c2, c3, r1, r2

LoginSymmetry == Permutations(Requests) \cup Permutations(States)
                 \cup Permutations(SessionIds) \cup Permutations(UserIds)
                 \cup Permutations(Subjects) \cup Permutations(Emails)
=============================================================================
