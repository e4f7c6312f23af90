--------------------------- MODULE MCNotesHistory ---------------------------
(* Small instances of the notes service with its history, for TLC. *)
EXTENDS NotesHistory, TLC

CONSTANTS owner, guest, third, ghost, n1, n2, t1, t2, a, b, r1, r2, r3

NoMentions == {<<>>}

SlotSymmetry == Permutations(Requests)
SlotTokenSymmetry == Permutations(Requests) \cup Permutations(Tokens)
=============================================================================
