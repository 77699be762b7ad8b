-------------------------- MODULE MCFixturePreview --------------------------
(* Three entries and a selection of two of them. *)
EXTENDS FixturePreview, TLC

CONSTANTS a, b, c, o1, o2

EntryLists == {<< a, b, c >>, << a, b >>}
Alike == Permutations(Organisers)
=============================================================================
