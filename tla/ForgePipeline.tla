--------------------------- MODULE ForgePipeline -----------------------------
(***************************************************************************)
(* run_forge_v2_iterative.sh from end to end: the phases of the modules it *)
(* extends in their order, the ship-time gate, the files of the candidate  *)
(* and of its record, and the runs of the script in one trial directory,   *)
(* each of which may be killed anywhere and be started again.              *)
(***************************************************************************)
EXTENDS SpecLoop, BlindMerge, HuntCode, ReviewLoop

CONSTANTS
  MaxRuns,   \* bound: how often the script is started in one trial directory
  Crashes    \* TRUE: a run may be killed between any two of its steps

ASSUME PipelineAssumption == MaxRuns \in Nat /\ Crashes \in BOOLEAN

VARIABLES
  run,    \* history: the number of the run
  gate,   \* the verdict in gates/complexity-gate.json
  cllm,   \* c_llm/diff.patch and c_llm/files: the candidate that was shipped
  meta    \* the outcome recorded in meta.json

recordVars == <<run, gate, cllm, meta>>
pipelineVars == <<workspaceVars, specVars, mergeOwnVars, hcVars, rvVars, recordVars>>

NoCandidate == [run |-> 0, tree |-> {}, evidence |-> {}]
NoRecord == [run |-> 0, noop |-> "empty", state |-> "none"]

PipelineInit ==
  /\ pc = "idle"
  /\ tree = {} /\ evidence = {} /\ noop = "empty"
  /\ specRound = 1 /\ mute = {}
  /\ claims = [r \in 1..MaxRounds + 1 |-> NoFile] /\ newest = 0
  /\ specHunt = [r \in 1..MaxRounds |-> NoFile] /\ finalSpec = NoFile
  /\ impl = [a \in Implementer |-> "done"] /\ work = [a \in Implementer |-> Untouched]
  /\ churn = [a \in Implementer |-> 0] /\ winner = "codex" /\ summary = FALSE
  /\ hcRound = 1 /\ rvRound = 1 /\ prev = 999
  /\ hunt = [r \in 1..MaxRounds |-> "absent"]
  /\ comments = [r \in 1..MaxRounds |-> Blank]
  /\ finalState = "none"
  /\ run = 0 /\ gate = "none" /\ cllm = NoCandidate /\ meta = NoRecord

\* Only no-op-class.txt is emptied; every other file of an earlier run stays.
StartRun ==
  /\ pc = "idle"
  /\ run < MaxRuns
  /\ run' = run + 1
  /\ noop' = "empty"
  /\ pc' = "specStart"
  /\ UNCHANGED <<tree, evidence, specVars, mergeOwnVars, hcVars, rvVars, gate, cllm, meta>>

SpecPhase == SpecNext /\ UNCHANGED <<mergeOwnVars, hcVars, rvVars, recordVars>>
MergePhase == MergeNext /\ UNCHANGED <<specVars, hcVars, rvVars, recordVars>>
HuntPhase == HuntNext /\ UNCHANGED <<specVars, mergeOwnVars, rvVars, recordVars>>
ReviewPhase == ReviewNext /\ UNCHANGED <<specVars, mergeOwnVars, hcVars, recordVars>>

\* complexity_gate_v2.mjs writes its verdict; the script logs it, and nothing
\* depends on it.
Measure == gate' = Verdict /\ UNCHANGED tree

\* The gate breaks down.
BreakDown == LeaveTool /\ UNCHANGED gate

\* An empty allowed edit set is not measured.
SkipGate == UNCHANGED <<tree, gate>>

Gate ==
  /\ pc = "gate"
  /\ IF "in" \in Traits THEN Measure \/ BreakDown ELSE SkipGate
  /\ pc' = "ship"
  /\ UNCHANGED <<noop, evidence, specVars, mergeOwnVars, hcVars, rvVars, run, cllm, meta>>

\* Mutant of Ship: an empty diff is not copied.
ShipIfModified ==
  /\ pc = "ship"
  /\ cllm' = IF tree = {} THEN cllm ELSE [run |-> run, tree |-> tree, evidence |-> evidence]
  /\ pc' = "record"
  /\ UNCHANGED <<noop, tree, evidence, specVars, mergeOwnVars, hcVars, rvVars, run, gate, meta>>

Ship ==
  /\ pc = "ship"
  /\ cllm' = [run |-> run, tree |-> tree, evidence |-> evidence]
  /\ pc' = "record"
  /\ UNCHANGED <<noop, tree, evidence, specVars, mergeOwnVars, hcVars, rvVars, run, gate, meta>>

Record ==
  /\ pc = "record"
  /\ meta' = [run |-> run, noop |-> noop, state |-> finalState]
  /\ pc' = "done"
  /\ UNCHANGED <<noop, tree, evidence, specVars, mergeOwnVars, hcVars, rvVars, run, gate, cllm>>

\* The script is gone, with its shell variables, its jobs and the directories
\* in /tmp/refactor-eq-workdir; the files of the trial directory stay.
Stop ==
  /\ pc' = "idle"
  /\ tree' = {} /\ evidence' = {}
  /\ specRound' = 1 /\ mute' = {}
  /\ impl' = [a \in Implementer |-> "done"] /\ work' = [a \in Implementer |-> Untouched]
  /\ churn' = [a \in Implementer |-> 0] /\ winner' = "codex"
  /\ hcRound' = 1 /\ rvRound' = 1 /\ prev' = 999
  /\ UNCHANGED <<noop, claims, newest, specHunt, finalSpec, summary, hunt, comments,
                 finalState, recordVars>>

Exit == pc \in {"done", "hard", "aborted"} /\ Stop

Crash == Crashes /\ pc \notin {"idle", "done", "hard", "aborted"} /\ Stop

PipelineNext == \/ StartRun \/ SpecPhase \/ MergePhase \/ HuntPhase \/ ReviewPhase
                \/ Gate \/ Ship \/ Record \/ Exit \/ Crash

\* A run that is not killed goes on: agents, builds and tests return.
Progress == SpecPhase \/ MergePhase \/ HuntPhase \/ ReviewPhase
            \/ Gate \/ Ship \/ Record \/ Exit
PipelineSpec == PipelineInit /\ [][PipelineNext]_pipelineVars /\ WF_pipelineVars(Progress)
-----------------------------------------------------------------------------
SpecPcs == {"specStart", "volley", "huntSpec", "judgeSpec", "checkFinal", "ensureSpec"}
MergePcs == {"implement", "wait", "pick", "evidence"}
HuntPcs == {"huntStart", "build", "hunt", "weigh", "address", "finalBuild"}
ReviewPcs == {"reviewStart", "review", "judge", "reverify"}
ShipPcs == {"gate", "ship", "record"}

\* meta.json, as long as it is about the candidate in c_llm, tells whether the
\* last build and test run on that candidate passed: on every way out of the
\* reviewer loop, after crashes, and with the files of earlier runs around.
RecordTellsBuild ==
  meta.run # 0 /\ meta.run = cllm.run =>
    (meta.state = "impasse_build_broken" <=> "builds" \notin cllm.evidence)

\* A run that was classed a hard no-op shipped nothing and recorded no outcome.
HardShipsNothing == noop = "hard" => cllm.run < run /\ meta.run < run

\* The record is never ahead of the candidate: whatever meta.json describes has
\* been in c_llm, wherever a run was killed.
RecordFollowsShip == meta.run <= cllm.run

\* A run of the script comes to an end, if only by being killed.
RunEnds == pc # "idle" ~> pc = "idle"

\* The trial as CandidateRelease sees it: its candidate is in the making until
\* the last build and test run of 4f passes, and is released when the record
\* of its run is written.
Stage ==
  CASE pc \in SpecPcs \union MergePcs \union HuntPcs -> "making"
    [] pc \in ReviewPcs -> "judging"
    [] pc \in ShipPcs -> "releasing"
    [] OTHER -> "idle"
Released == IF meta.run = 0 THEN "nothing"
            ELSE IF meta.state = "impasse_build_broken" THEN "unsound" ELSE "sound"

Trial == INSTANCE CandidateRelease WITH
  stage <- Stage,
  sound <- Stage # "idle" /\ "builds" \in evidence,
  released <- Released

\* The pipeline implements CandidateRelease: no candidate reaches the reviewer
\* but after a build and test run that passed on it, and none is released
\* under a label that hides that its last such run failed.
ReleasesAsPromised == Trial!ReleaseSpec

\* "If mean_cog(C_llm) > mean_cog(C_test) + 0.05, reject the candidate and fall
\* back to C_test as no-op."
GateFailFallsBack == pc = "done" /\ gate = "fail" => cllm.tree = {}
=============================================================================
