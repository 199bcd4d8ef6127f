----------------------------- MODULE MCPosting -----------------------------
(* Finite instances of Posting for TLC.                                     *)
EXTENDS Posting, TLC

CONSTANTS s1, s2, s3, e1, e2, e3, a1, a2, b1

Draft(p, as, b, ok) == [period |-> p, accounts |-> as, branch |-> b, balanced |-> ok]

(* Two branches, so two sequences, and overlapping accounts.                *)
BranchContents == {Draft(1, {a1, a2}, EntityWide, TRUE), Draft(2, {a1}, b1, TRUE)}

(* One branch; a draft may be saved unbalanced.                             *)
DraftContents == {Draft(1, {a1}, EntityWide, TRUE), Draft(1, {a1}, EntityWide, FALSE),
                  Draft(2, {a1}, EntityWide, TRUE)}

Symmetric == Permutations(Entries)

(* Where no session may soft-close, the sessions are interchangeable too.    *)
Interchangeable == Permutations(Entries) \cup Permutations(Sessions)
=============================================================================
