---------------------------- MODULE MCSharedNote ----------------------------
(* A small shared note, for TLC. *)
EXTENDS SharedNote, TLC

CONSTANTS ann, bob, n1, t1, t2, r1, r2, k1, k2, c1, c2, l1, l2

NoMentions == {<<>>}
TickedSecond == <<FALSE, TRUE>>
Lists == [1..2 -> BOOLEAN]
At1 == (k1 :> ann) @@ (k2 :> bob)
Of1 == [k \in Cards |-> n1]
Alike == Permutations(Requests) \cup Permutations(Clicks) \cup Permutations(Reloads)
=============================================================================
