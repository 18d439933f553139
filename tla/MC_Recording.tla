---------------------------- MODULE MC_Recording ----------------------------
(* Small instances of Recording.                                            *)
EXTENDS Recording, TLC

Plan(r, f, d, b, e) == [runs |-> r, frames |-> f, deletes |-> d, boots |-> b, fails |-> e]

\* Two runs over a crash or a failure; two deletions of what is being written,
\* of one run that fails or of two;
\* a deletion cut short by a crash.
FewPlans == {Plan(2, 4, 0, 1, 1), Plan(1, 3, 2, 0, 1), Plan(2, 2, 2, 0, 0), Plan(2, 2, 1, 1, 0)}
\* Deletions are alike: no definition names one.
Alike == Permutations(Deleters)
=============================================================================
