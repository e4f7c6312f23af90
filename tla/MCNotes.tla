------------------------------ MODULE MCNotes ------------------------------
(* Small instances of the notes service for TLC. *)
EXTENDS NotesService, TLC

CONSTANTS owner, guest, third, ghost, n1, n2, t1, t2, a, b, r1, r2, r3

NoMentions == {<<>>}
MentionGuest == {<<>>, <<guest>>}
MentionOne == {<<guest>>}
MentionStranger == {<<>>, <<guest, ghost>>}

SlotSymmetry == Permutations(Requests)
=============================================================================
