----------------------------- MODULE FindCTest ------------------------------
(***************************************************************************)
(* find_c_test_v2.sh: walk the commits of a pull request in chronological  *)
(* order, with C_final's test files laid over each, and stop at the first  *)
(* one that installs, builds and passes.  One node_modules directory is    *)
(* reused from commit to commit as long as the lockfile does not change.   *)
(***************************************************************************)
EXTENDS Integers, Sequences

CONSTANTS
  Locks,          \* the lockfile contents (hashes) that occur in the branch
  Absent,         \* no dependencies, no LAST_LOCKFILE
  Partial,        \* what an npm ci that failed leaves of node_modules
  Branches,       \* the branches to walk, see Branch
  Installables    \* the sets of lockfiles that can be installed, to choose from

(***************************************************************************)
(* What is true of a commit: its lockfile; whether it builds on a clean    *)
(* install; whether C_final's tests then pass; and whether it still has a  *)
(* test file that C_final has renamed and that fails there.  git diff      *)
(* --name-only lists a rename by its new name only, so the overlay removes *)
(* the old file nowhere.                                                   *)
(***************************************************************************)
Commit == [lock : Locks, builds : BOOLEAN, passes : BOOLEAN, oldFails : BOOLEAN]
Branch == Seq(Commit)

ASSUME FindAssumption ==
  /\ Absent \notin Locks /\ Partial \notin Locks /\ Absent # Partial
  /\ Branches \subseteq Branch
  /\ Installables \subseteq SUBSET Locks

VARIABLES
  branch,       \* COMMITS: the commits of C_base..C_final, oldest first
  installable,  \* the lockfiles npm ci succeeds on
  pc,           \* the statement of the script that runs next
  at,           \* the index in COMMITS of C
  last,         \* LAST_LOCKFILE
  deps,         \* the lockfile node_modules was installed from
  results,      \* RESULTS
  cTest         \* the index of c_test in find_c_test.json, 0 for null

findVars == <<branch, installable, pc, at, last, deps, results, cTest>>

C == branch[at]

\* The reference: what the commit does on a machine of its own.
Good(c) == branch[c].lock \in installable /\ branch[c].builds /\ branch[c].passes

FindInit ==
  /\ branch \in Branches
  /\ installable \in Installables
  /\ pc = "checkout"
  /\ at = 1
  /\ last = Absent
  /\ deps = Absent
  /\ results = <<>>
  /\ cTest = 0

\* The commit is done with; a forced checkout restores the tracked files.
Result(r) ==
  /\ results' = Append(results, r)
  /\ at' = at + 1
  /\ pc' = "checkout"

\* Mutant of LockfileChanged: installs once for the whole branch.
FirstLockfile == last = Absent
LockfileChanged == C.lock # last

\* Checkout and overlay are forced and cannot fail; then the lockfile is read.
Checkout ==
  /\ pc = "checkout"
  /\ at <= Len(branch)
  /\ pc' = IF LockfileChanged THEN "install" ELSE "build"
  /\ UNCHANGED <<branch, installable, at, last, deps, results, cTest>>

InstallPasses ==
  /\ pc = "install"
  /\ C.lock \in installable
  /\ deps' = C.lock
  /\ last' = C.lock
  /\ pc' = "build"
  /\ UNCHANGED <<branch, installable, at, results, cTest>>

\* npm ci deletes node_modules before it fails, pnpm and go may not touch it;
\* LAST_LOCKFILE keeps naming what was there before.
InstallFails ==
  /\ pc = "install"
  /\ C.lock \notin installable
  /\ deps' \in {deps, Partial}
  /\ Result("fail_install")
  /\ UNCHANGED <<branch, installable, last, cTest>>

\* With the dependencies of another lockfile, or a part of them, a build or
\* test run may have either outcome.
MayPass(ok) == ok \/ deps # C.lock
MayFail(ok) == ~ok \/ deps # C.lock

BuildPasses ==
  /\ pc = "build"
  /\ MayPass(C.builds)
  /\ pc' = "test"
  /\ UNCHANGED <<branch, installable, at, last, deps, results, cTest>>

BuildFails ==
  /\ pc = "build"
  /\ MayFail(C.builds)
  /\ Result("fail_build")
  /\ UNCHANGED <<branch, installable, last, deps, cTest>>

TestsPass ==
  /\ pc = "test"
  /\ MayPass(C.passes /\ ~C.oldFails)
  /\ results' = Append(results, "pass")
  /\ cTest' = at
  /\ pc' = "found"
  /\ UNCHANGED <<branch, installable, at, last, deps>>

\* Mutant of TestsFail: the loop does not move on.
TestsFailStays ==
  /\ pc = "test"
  /\ MayFail(C.passes /\ ~C.oldFails)
  /\ pc' = "checkout"
  /\ UNCHANGED <<branch, installable, at, last, deps, results, cTest>>

TestsFail ==
  /\ pc = "test"
  /\ MayFail(C.passes /\ ~C.oldFails)
  /\ Result("fail_test")
  /\ UNCHANGED <<branch, installable, last, deps, cTest>>

\* c_test is null, and the script exits 1.
NoneFound ==
  /\ pc = "checkout"
  /\ at > Len(branch)
  /\ pc' = "none"
  /\ UNCHANGED <<branch, installable, at, last, deps, results, cTest>>

FindNext == \/ Checkout \/ InstallPasses \/ InstallFails \/ BuildPasses \/ BuildFails
            \/ TestsPass \/ TestsFail \/ NoneFound

\* One sequential process whose commands return.
FindSpec == FindInit /\ [][FindNext]_findVars /\ WF_findVars(FindNext)
-----------------------------------------------------------------------------
\* The commits before the chosen one, or all of them if there is none.
Rejected == IF pc = "found" THEN 1..cTest - 1
            ELSE IF pc = "none" THEN 1..Len(branch) ELSE {}

\* Whether c would reuse the dependencies of an earlier commit a although an
\* install has failed since then.
Exposed(c) ==
  \E a, b \in 1..c - 1 : /\ a < b /\ results[b] = "fail_install"
                         /\ branch[a].lock = branch[c].lock

\* The verdict on a commit is the one a machine of its own would give, though
\* node_modules and LAST_LOCKFILE are handed from commit to commit, save for
\* two causes: a test that C_final has renamed fails under its old name, or an
\* install failed since the dependencies were installed that the commit reuses.
VerdictsAreRight ==
  \A c \in 1..Len(results) :
    Exposed(c) \/ (results[c] = "pass" <=> Good(c) /\ ~branch[c].oldFails)

\* "Earliest commit in PR branch where merge-time tests pass, with C_final's
\* test files overlaid."
ChosenIsEarliest == \A c \in Rejected : ~Good(c)

\* The walk comes to an end.
WalkEnds == <>(pc \in {"found", "none"})
=============================================================================
