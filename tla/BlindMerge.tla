----------------------------- MODULE BlindMerge ------------------------------
(***************************************************************************)
(* Phases 4d and 4e: two implementers apply the final spec at the same     *)
(* time, each in a copy of the cleanroom of its own; the one whose diff    *)
(* has fewer lines becomes the merged workspace, and an outcome without a  *)
(* diff or without an implementer's summary is classed a trivial no-op.    *)
(***************************************************************************)
EXTENDS Workspace

CONSTANTS
  MaxLines,   \* bound: the most lines an implementer changes in or out of scope
  HunkLines,  \* the header and context lines diff -urN prints for one hunk
  Outputs     \* what the implementers may leave, see Work

VARIABLES
  impl,     \* the two background jobs: "working" until they exit
  work,     \* their directories, see Work
  churn,    \* OPUS_CHURN and CODEX_CHURN
  winner,   \* WINNER
  summary   \* the file blind-blind/winner-implement-summary.md exists

mergeOwnVars == <<impl, work, churn, winner, summary>>

Implementer == {"opus", "codex"}

(***************************************************************************)
(* What an implementer leaves in its directory: lines changed inside and   *)
(* outside of the allowed edit set, the hunks they form, whether it wrote  *)
(* IMPLEMENT_SUMMARY.md, and which side of the scope, if any, it touched   *)
(* in nothing but a root package.json that npm's install step puts back    *)
(* (in a pnpm or Go repository there is none).                             *)
(***************************************************************************)
Work == {w \in [in : 0..MaxLines, out : 0..MaxLines, hunks : 0..2 * MaxLines,
                told : BOOLEAN, pkg : {"neither", "in", "out"}] :
           /\ w.hunks <= w.in + w.out
           /\ w.hunks = 0 => w.in + w.out = 0
           /\ w.pkg # "neither" => w[w.pkg] > 0}
ASSUME MergeAssumption ==
  /\ MaxLines \in Nat /\ HunkLines \in Nat
  /\ Outputs \subseteq Work

Untouched == [in |-> 0, out |-> 0, hunks |-> 0, told |-> FALSE, pkg |-> "neither"]

\* wc -l of the diff.
DiffLines(w) == w.in + w.out + HunkLines * w.hunks

\* The install step puts the cleanroom's package.json back over the winner's,
\* which undoes what was edited there.
Kept(w) == {side \in {"in", "out"} : w[side] > 0 /\ w.pkg # side}

\* The merged trees a winner's work can give; its complexity is its own affair.
TreesOf(w) == {t \in Tree : t \cap {"in", "out"} = Kept(w) \cap Traits}

\* Both directories are fresh copies of the cleanroom; both agents start.
StartImplementers ==
  /\ pc = "implement"
  /\ impl' = [a \in Implementer |-> "working"]
  /\ work' = [a \in Implementer |-> Untouched]
  /\ pc' = "wait"
  /\ UNCHANGED <<noop, tree, evidence, churn, winner, summary>>

\* The agent exits, well or not, and leaves what it leaves.
Implement(a) ==
  /\ impl[a] = "working"
  /\ \E w \in Outputs : work' = [work EXCEPT ![a] = w]
  /\ impl' = [impl EXCEPT ![a] = "done"]
  /\ UNCHANGED <<workspaceVars, churn, winner, summary>>

\* Mutant of BothDone: wait -n, the first job that exits.
SomeoneDone == \E a \in Implementer : impl[a] = "done"
\* wait $OPUS_PID; wait $CODEX_PID
BothDone == \A a \in Implementer : impl[a] = "done"

MeasureChurn ==
  /\ pc = "wait"
  /\ BothDone
  /\ churn' = [a \in Implementer |-> DiffLines(work[a])]
  /\ pc' = "pick"
  /\ UNCHANGED <<noop, tree, evidence, impl, work, winner, summary>>

Fewer(opus, codex) == IF codex <= opus THEN "codex" ELSE "opus"

\* The winner's tree becomes the merged workspace, with the cleanroom's
\* package.json and without the pipeline's own files.  Its summary is kept; if
\* it wrote none, the summary of an earlier run of the trial stays.
Merge ==
  /\ pc = "pick"
  /\ winner' = Fewer(churn["opus"], churn["codex"])
  /\ tree' \in TreesOf(work[winner'])
  /\ evidence' = {}
  /\ summary' = (summary \/ work[winner'].told)
  /\ pc' = "evidence"
  /\ UNCHANGED <<noop, impl, work, churn>>

Unmodified == tree = {}

CheckEvidence ==
  /\ pc = "evidence"
  /\ noop' = IF ~summary \/ Unmodified THEN "trivial" ELSE noop
  /\ pc' = "huntStart"
  /\ UNCHANGED <<tree, evidence, mergeOwnVars>>

MergeNext == \/ StartImplementers
             \/ \E a \in Implementer : Implement(a)
             \/ MeasureChurn \/ Merge \/ CheckEvidence
-----------------------------------------------------------------------------
\* The directory that becomes the merged workspace is the one that was
\* measured: no implementer is still writing when the diffs are taken.
MeasuredIsMerged ==
  pc \in {"evidence", "huntStart"} =>
    /\ churn[winner] = DiffLines(work[winner])
    /\ tree \in TreesOf(work[winner])

=============================================================================
