---------------------------- MODULE SingleRound -----------------------------
(***************************************************************************)
(* run_forge_v2.sh: the pipeline with one round of each phase.  Its choice *)
(* of a spec is its own; the merge is that of BlindMerge; the hunter's and *)
(* the reviewer's reports are written for a reader and steer nothing.      *)
(***************************************************************************)
EXTENDS BlindMerge

CONSTANTS
  Mute,      \* the agents, of SpecWriters, that may return without writing
  MaxRuns,   \* bound: how often the script is started in one trial directory
  Crashes    \* TRUE: a run may be killed between any two of its steps

SpecWriters == {"volley", "reconcile"}

ASSUME SingleAssumption ==
  Mute \subseteq SpecWriters /\ MaxRuns \in Nat /\ Crashes \in BOOLEAN

VARIABLES
  run,         \* history: the number of the run
  claims1,     \* the run that wrote volley/round-1-claims.md, 0 if there is none
  claims2,     \* the same for round-2-claims.md
  spec,        \* sharpened-spec-final.md: the run and the agent it comes from
  patch,       \* blind-blind/merged.diff: the tree it was taken of
  passed,      \* history: the trees this run's explicit build and tests passed on
  gate,        \* the verdict in gates/complexity-gate.json
  cllm,        \* c_llm/diff.patch: the candidate that was shipped
  meta         \* the run that completed meta.json, and its no_op_class

choiceVars == <<claims1, claims2, spec>>
shipVars == <<gate, cllm, meta>>
singleVars ==
  <<workspaceVars, mergeOwnVars, run, choiceVars, patch, passed, shipVars>>

NoSpec == [run |-> 0, by |-> "none"]
SpecBy(r, agent) == [run |-> r, by |-> agent]

SingleInit ==
  /\ pc = "idle"
  /\ tree = {} /\ evidence = {} /\ noop = "empty"
  /\ impl = [a \in Implementer |-> "done"] /\ work = [a \in Implementer |-> Untouched]
  /\ churn = [a \in Implementer |-> 0] /\ winner = "codex" /\ summary = FALSE
  /\ run = 0
  /\ claims1 = 0 /\ claims2 = 0 /\ spec = NoSpec
  /\ patch = {} /\ passed = {}
  /\ gate = "none" /\ cllm = [run |-> 0, tree |-> {}, passed |-> {}]
  /\ meta = [run |-> 0, noop |-> "empty"]

\* Only no-op-class.txt is emptied; the log is appended to.
StartSingle ==
  /\ pc = "idle"
  /\ run < MaxRuns
  /\ run' = run + 1
  /\ noop' = "empty"
  /\ pc' = "volley"
  /\ UNCHANGED <<tree, evidence, mergeOwnVars, choiceVars, patch, passed, shipVars>>

\* The volley, and the hunt for defects in its claims, which only the
\* reconciler reads.
VolleyAndHunt ==
  /\ pc = "volley"
  /\ \/ claims1' = run
     \/ "volley" \in Mute /\ UNCHANGED claims1
  /\ pc' = "reconcile"
  /\ UNCHANGED <<noop, tree, evidence, mergeOwnVars, run, claims2, spec,
                 patch, passed, shipVars>>

ReconcileOnce ==
  /\ pc = "reconcile"
  /\ \/ /\ spec' = SpecBy(run, "reconcile")
        /\ UNCHANGED claims2
     \/ /\ claims2' = run
        /\ UNCHANGED spec
     \/ /\ "reconcile" \in Mute
        /\ UNCHANGED <<claims2, spec>>
  /\ pc' = "chooseSpec"
  /\ UNCHANGED <<noop, tree, evidence, mergeOwnVars, run, claims1,
                 patch, passed, shipVars>>

TakeSpec(s) ==
  /\ pc = "chooseSpec"
  /\ spec' = s
  /\ pc' = "implement"
  /\ UNCHANGED <<noop, tree, evidence, mergeOwnVars, run, claims1, claims2,
                 patch, passed, shipVars>>

\* The first that exists: a final spec, the reconciled claims, the claims of
\* the volley; else an empty spec is written.
KeepSpec == spec # NoSpec /\ TakeSpec(spec)
PromoteReconciled ==
  spec = NoSpec /\ claims2 # 0 /\ TakeSpec(SpecBy(claims2, "reconcile"))

PromoteVolley ==
  spec = NoSpec /\ claims2 = 0 /\ claims1 # 0 /\ TakeSpec(SpecBy(claims1, "volley"))

WriteEmptySpec ==
  spec = NoSpec /\ claims2 = 0 /\ claims1 = 0 /\ TakeSpec(SpecBy(run, "nobody"))

\* Mutant of SingleMerge: a merged.diff that is there already is kept.
SingleMergeKeeps ==
  /\ MergeNext
  /\ patch' = IF pc = "pick" /\ pc' = "evidence" /\ patch = {} THEN tree' ELSE patch
  /\ UNCHANGED <<run, choiceVars, passed, shipVars>>

\* 4d and 4e; merged.diff is saved with the merged workspace.
SingleMerge ==
  /\ MergeNext
  /\ patch' = IF pc = "pick" /\ pc' = "evidence" THEN tree' ELSE patch
  /\ UNCHANGED <<run, choiceVars, passed, shipVars>>

\* The hunt writes its report; nothing waits for what it says.
HuntOnce ==
  /\ pc = "huntStart"
  /\ pc' = "explicitBuild"
  /\ UNCHANGED <<noop, tree, evidence, mergeOwnVars, run, choiceVars,
                 patch, passed, shipVars>>

ExplicitPasses ==
  /\ pc = "explicitBuild"
  /\ Verify(TRUE)
  /\ passed' = passed \union {tree}
  /\ pc' = "reviewOnce"
  /\ UNCHANGED <<noop, mergeOwnVars, run, choiceVars, patch, shipVars>>

\* Mutant of ExplicitFails: the trial is classed, and goes on.
ExplicitFailsGoesOn ==
  /\ pc = "explicitBuild"
  /\ Verify(FALSE)
  /\ noop' = "hard"
  /\ pc' = "reviewOnce"
  /\ UNCHANGED <<mergeOwnVars, run, choiceVars, patch, passed, shipVars>>

\* "falling back to C_test": a placeholder is put beside c_llm/diff.patch, and
\* the script exits.
ExplicitFails ==
  /\ pc = "explicitBuild"
  /\ Verify(FALSE)
  /\ noop' = "hard"
  /\ pc' = "hard"
  /\ UNCHANGED <<mergeOwnVars, run, choiceVars, patch, passed, shipVars>>

\* The reviewer comments; nobody reads it here.
ReviewOnce ==
  /\ pc = "reviewOnce"
  /\ pc' = "gate"
  /\ UNCHANGED <<noop, tree, evidence, mergeOwnVars, run, choiceVars,
                 patch, passed, shipVars>>

\* The verdict is logged and noted in deviations.md, and the candidate is shipped
\* whatever it is; a gate that breaks down leaves an older one, and its tool.
\* An empty allowed edit set is not measured.
GateOnce ==
  /\ pc = "gate"
  /\ IF "in" \in Traits
       THEN \/ gate' = Verdict /\ UNCHANGED tree
            \/ LeaveTool /\ UNCHANGED gate
       ELSE UNCHANGED <<tree, gate>>
  /\ pc' = "ship"
  /\ UNCHANGED <<noop, evidence, mergeOwnVars, run, choiceVars, patch, passed, cllm, meta>>

\* merged.diff, as it was taken before the hunt, becomes the candidate.
ShipPatch ==
  /\ pc = "ship"
  /\ cllm' = [run |-> run, tree |-> patch, passed |-> passed]
  /\ pc' = "record"
  /\ UNCHANGED <<noop, tree, evidence, mergeOwnVars, run, choiceVars,
                 patch, passed, gate, meta>>

RecordClass ==
  /\ pc = "record"
  /\ meta' = [run |-> run, noop |-> noop]
  /\ pc' = "done"
  /\ UNCHANGED <<noop, tree, evidence, mergeOwnVars, run, choiceVars,
                 patch, passed, gate, cllm>>

\* The script is gone, with its jobs and the directories in /tmp.
StopSingle ==
  /\ pc' = "idle"
  /\ tree' = {} /\ evidence' = {} /\ passed' = {}
  /\ impl' = [a \in Implementer |-> "done"] /\ work' = [a \in Implementer |-> Untouched]
  /\ churn' = [a \in Implementer |-> 0] /\ winner' = "codex"
  /\ UNCHANGED <<noop, summary, run, choiceVars, patch, shipVars>>

ExitSingle == pc \in {"done", "hard"} /\ StopSingle
CrashSingle == Crashes /\ pc \notin {"idle", "done", "hard"} /\ StopSingle

SingleNext ==
  \/ StartSingle \/ VolleyAndHunt \/ ReconcileOnce
  \/ KeepSpec \/ PromoteReconciled \/ PromoteVolley \/ WriteEmptySpec
  \/ SingleMerge \/ HuntOnce
  \/ ExplicitPasses \/ ExplicitFails \/ ReviewOnce \/ GateOnce \/ ShipPatch
  \/ RecordClass \/ ExitSingle \/ CrashSingle

SingleSpec == SingleInit /\ [][SingleNext]_singleVars
-----------------------------------------------------------------------------
MakingPcs == {"volley", "reconcile", "chooseSpec", "implement", "wait", "pick", "evidence",
              "huntStart", "explicitBuild"}
ReleasingPcs == {"gate", "ship", "record"}

\* The patch in c_llm is of a tree that its own run built and tested, and that
\* passed, although it is taken before the hunt and the build come, and whatever
\* an earlier run or the gate's tool left behind; a hard no-op ships nothing.
ShippedPatchPassed ==
  /\ cllm.run # 0 => cllm.tree \in cllm.passed
  /\ noop = "hard" => cllm.run < run

SingleStage ==
  CASE pc \in MakingPcs -> "making"
    [] pc = "reviewOnce" -> "judging"
    [] pc \in ReleasingPcs -> "releasing"
    [] OTHER -> "idle"

SingleTrial == INSTANCE CandidateRelease WITH
  stage <- SingleStage,
  sound <- SingleStage # "idle" /\ "builds" \in evidence,
  released <- IF meta.run = 0 THEN "nothing" ELSE "sound"

\* The single-round pipeline implements CandidateRelease, and whatever its
\* record completes is a candidate whose last build and test run passed.
SingleReleasesAsPromised == SingleTrial!ReleaseSpec
=============================================================================
