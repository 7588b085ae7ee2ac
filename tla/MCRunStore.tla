----------------------------- MODULE MCRunStore -----------------------------
(* RunStore on a small book, for TLC: the processes are alike, and so are   *)
(* the answers a page can be given.                                         *)
EXTENDS RunStore, TLC

Symmetry == Permutations(Proc) \cup Permutations(Content)

=============================================================================
