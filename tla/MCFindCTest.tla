---------------------------- MODULE MCFindCTest -----------------------------
(* Branches of four commits for TLC. *)
EXTENDS FindCTest

\* Commits that differ in one respect from a good one.
GoodCommit(l) == [lock |-> l, builds |-> TRUE, passes |-> TRUE, oldFails |-> FALSE]
Commits(renames) ==
  UNION {{GoodCommit(l), [GoodCommit(l) EXCEPT !.builds = FALSE],
          [GoodCommit(l) EXCEPT !.passes = FALSE]}
         \union (IF renames THEN {[GoodCommit(l) EXCEPT !.oldFails = TRUE]} ELSE {}) : l \in Locks}
BranchesOf(commits) == UNION {[1..n -> commits] : n \in 1..4}

PlainBranches == BranchesOf(Commits(FALSE))
RenamingBranches == BranchesOf(Commits(TRUE))
SomeInstall == SUBSET Locks
=============================================================================
