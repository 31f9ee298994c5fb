------------------------------ MODULE Workspace ------------------------------
(***************************************************************************)
(* The merged workspace /tmp/refactor-eq-workdir/bb-merged-$PR that phases *)
(* 4f and 4g of the forge pipeline share: every agent of those phases      *)
(* edits it in place and every build and test command runs in it.          *)
(* Source: scripts/run_forge_v2_iterative.sh.                              *)
(***************************************************************************)
EXTENDS Integers

CONSTANTS
  MaxRounds,  \* MAX_ROUNDS, the cap of each of the three loops (10 in the code)
  Traits      \* the traits of a tree the properties tell apart, see Tree

ASSUME RoundsAssumption == MaxRounds \in Nat \ {0}

VARIABLES
  pc,         \* the statement of the script that runs next
  tree,       \* the merged tree as a set of traits; {} is a copy of C_test
  evidence,   \* history: what this run has found out about this very tree
  noop        \* the file no-op-class.txt of the trial directory

workspaceVars == <<pc, tree, evidence, noop>>

(***************************************************************************)
(* A tree has "in" when it differs from C_test in a file of the allowed    *)
(* edit set, "out" when it differs elsewhere, and "worse" when its scoped  *)
(* mean cognitive complexity, as the gate measures it, exceeds that of     *)
(* C_test by more than delta, which takes an edit inside the scope.        *)
(***************************************************************************)
Tree == {t \in SUBSET Traits : "worse" \in t => "in" \in t}

(***************************************************************************)
(* "builds": the last build and test run on this tree passed.              *)
(* "hunted": the hunt-code agent reported on it and listed no finding.     *)
(* "approved": the reviewer reported on it and listed no comment.          *)
(***************************************************************************)
Evidence == SUBSET {"builds", "hunted", "approved"}

NoopClass == {"empty", "trivial", "hard"}

\* An agent with write access leaves some tree behind, whatever it was asked.
Edit == tree' \in Tree /\ evidence' = {}

\* $BUILD_CMD and $TEST_CMD in the workspace.  Test runs of other trials can
\* disturb them, so the outcome is not a function of the tree.
Verify(ok) == /\ evidence' = IF ok THEN evidence \union {"builds"}
                                   ELSE evidence \ {"builds"}
              /\ UNCHANGED tree

\* What complexity_gate_v2.mjs finds when it measures the workspace.
Verdict == IF "worse" \in tree THEN "fail" ELSE "pass"

\* A file the measuring tool cannot parse: process.exit(2) in the try block
\* leaves no verdict, and the tool's copy in the directory it was to measure,
\* where every later diff against the cleanroom shows it.  The copied tool is no
\* part of the source, so that evidence about it stays.
LeaveTool == tree' = tree \union ({"out"} \cap Traits)
=============================================================================
