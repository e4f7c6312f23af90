---------------------------- MODULE MCEditSession ----------------------------
(* Small instances of the editor tabs over the notes service, for TLC. *)
EXTENDS EditSession, TLC

CONSTANTS owner, guest, n1, n2, a, b, r1, r2, tab1, tab2

NoMentions == {<<>>}
SignedIn == [t \in Tabs |-> owner]
SlotSymmetry == Permutations(Requests)
TabSymmetry == Permutations(Requests) \cup Permutations(Tabs)
=============================================================================
