------------------------- MODULE SingleRoundProofs ---------------------------
(***************************************************************************)
(* Theorems about any number of runs of the single-round pipeline in one   *)
(* trial directory, each of which may be killed anywhere.                  *)
(***************************************************************************)
EXTENDS SingleRound, TLAPS

\* merged.diff is a diff of the merged workspace until the explicit build has run,
\* and from then on of a tree that passed, whatever the gate leaves there.
PatchKnown ==
  /\ pc \in {"evidence", "huntStart", "explicitBuild"} => patch = tree
  /\ pc \in {"reviewOnce", "gate", "ship", "record", "done"} =>
       patch \in passed /\ "builds" \in evidence

\* The numbers of the runs that wrote c_llm and meta.json last.
SingleRunsKnown ==
  /\ run \in Nat /\ cllm.run \in Nat /\ meta.run \in Nat
  /\ cllm.run <= run
  /\ pc \notin {"idle", "done", "record"} => cllm.run < run
  /\ pc = "record" => cllm.run = run /\ run # 0

\* A script that is not running has found nothing out, and only a hard exit
\* leaves "hard" behind.
SingleRestKnown ==
  /\ pc = "idle" => evidence = {}
  /\ noop = "hard" => pc \in {"hard", "idle"}

SingleInv == PatchKnown /\ SingleRunsKnown /\ SingleRestKnown /\ ShippedPatchPassed
-----------------------------------------------------------------------------
\* An empty trial directory satisfies the invariant.
LEMMA SingleInit_Inv == SingleInit => SingleInv
  <1> SUFFICES ASSUME SingleInit PROVE SingleInv
    OBVIOUS
  <1>1. pc = "idle" /\ evidence = {} /\ noop = "empty" /\ run = 0 /\ cllm.run = 0 /\ meta.run = 0
    BY DEF SingleInit
  <1> QED
    BY <1>1 DEF SingleInv, PatchKnown, SingleRunsKnown, SingleRestKnown, ShippedPatchPassed

\* The merge: an implementer exits; or the script takes a step before the
\* merged workspace exists, makes it together with its diff, or classes it.
LEMMA SingleMergeMoves ==
  SingleMerge => /\ \/ UNCHANGED <<pc, tree, evidence, noop, patch>>
                    \/ /\ pc \in {"implement", "wait"} /\ pc' \in {"wait", "pick"}
                       /\ UNCHANGED <<tree, evidence, noop, patch>>
                    \/ pc = "pick" /\ pc' = "evidence" /\ patch' = tree' /\ UNCHANGED noop
                    \/ /\ pc = "evidence" /\ pc' = "huntStart"
                       /\ noop' \in {noop, "trivial"}
                       /\ UNCHANGED <<tree, evidence, patch>>
                 /\ UNCHANGED <<run, choiceVars, passed, shipVars>>
  <1> SUFFICES ASSUME SingleMerge
               PROVE  /\ \/ UNCHANGED <<pc, tree, evidence, noop, patch>>
                         \/ /\ pc \in {"implement", "wait"} /\ pc' \in {"wait", "pick"}
                            /\ UNCHANGED <<tree, evidence, noop, patch>>
                         \/ pc = "pick" /\ pc' = "evidence" /\ patch' = tree' /\ UNCHANGED noop
                         \/ /\ pc = "evidence" /\ pc' = "huntStart"
                            /\ noop' \in {noop, "trivial"}
                            /\ UNCHANGED <<tree, evidence, patch>>
                      /\ UNCHANGED <<run, choiceVars, passed, shipVars>>
    OBVIOUS
  <1>1. /\ patch' = IF pc = "pick" /\ pc' = "evidence" THEN tree' ELSE patch
        /\ UNCHANGED <<run, choiceVars, passed, shipVars>>
    BY DEF SingleMerge
  <1>2. CASE \E a \in Implementer : Implement(a)
    BY <1>1, <1>2 DEF Implement, workspaceVars
  <1>3. CASE StartImplementers \/ MeasureChurn
    BY <1>1, <1>3 DEF StartImplementers, MeasureChurn
  <1>4. CASE Merge \/ CheckEvidence
    BY <1>1, <1>4 DEF Merge, CheckEvidence
  <1> QED
    BY <1>2, <1>3, <1>4 DEF SingleMerge, MergeNext

\* Every step of the script, and every kill, keeps the invariant.
LEMMA SingleStep_Inv == SingleInv /\ [SingleNext]_singleVars => SingleInv'
  <1> SUFFICES ASSUME SingleInv, [SingleNext]_singleVars PROVE SingleInv'
    OBVIOUS
  <1> USE DEF SingleInv, PatchKnown, SingleRunsKnown, SingleRestKnown, ShippedPatchPassed,
              shipVars
  <1>1. CASE StartSingle
    BY <1>1 DEF StartSingle
  <1>2. CASE VolleyAndHunt \/ ReconcileOnce
    BY <1>2 DEF VolleyAndHunt, ReconcileOnce
  <1>3. CASE KeepSpec \/ PromoteReconciled \/ PromoteVolley \/ WriteEmptySpec
    BY <1>3 DEF KeepSpec, PromoteReconciled, PromoteVolley, WriteEmptySpec, TakeSpec
  <1>4. CASE SingleMerge
    BY <1>4, SingleMergeMoves
  <1>5. CASE HuntOnce \/ ReviewOnce
    BY <1>5 DEF HuntOnce, ReviewOnce
  <1>6. CASE ExplicitPasses
    BY <1>6 DEF ExplicitPasses, Verify
  <1>7. CASE ExplicitFails
    BY <1>7 DEF ExplicitFails, Verify
  <1>8. CASE GateOnce \/ RecordClass
    BY <1>8 DEF GateOnce, RecordClass
  <1>9. CASE ShipPatch
    BY <1>9 DEF ShipPatch
  <1>10. CASE ExitSingle \/ CrashSingle
    BY <1>10 DEF ExitSingle, CrashSingle, StopSingle
  <1>11. CASE UNCHANGED singleVars
    BY <1>11 DEF singleVars, workspaceVars
  <1> QED
    BY <1>1, <1>2, <1>3, <1>4, <1>5, <1>6, <1>7, <1>8, <1>9, <1>10, <1>11 DEF SingleNext

\* What is known of merged.diff, the runs and an idle directory holds at every
\* statement of any number of runs of run_forge_v2.sh.
THEOREM SingleInvariant == SingleSpec => []SingleInv
  BY SingleInit_Inv, SingleStep_Inv, PTL DEF SingleSpec

\* Whatever is in c_llm is a diff of a tree that its run built and tested, and that
\* passed, after any number of runs and kills; a hard no-op has shipped nothing.
THEOREM ShippedIsTested == SingleSpec => []ShippedPatchPassed
  <1>1. SingleInv => ShippedPatchPassed
    BY DEF SingleInv
  <1> QED
    BY <1>1, SingleInvariant, PTL
-----------------------------------------------------------------------------
\* The initial states of the script map to those of the promise.
LEMMA SingleInit_Maps == SingleInit => SingleTrial!ReleaseInit
  BY DEF SingleInit, SingleTrial!ReleaseInit, SingleStage, MakingPcs, ReleasingPcs

\* A step within the making of a candidate, whatever it finds out.
LEMMA MakingMaps ==
  ASSUME pc \in MakingPcs, pc' \in MakingPcs, UNCHANGED meta
  PROVE  SingleTrial!Work("making")
  <1>1. SingleStage = "making" /\ SingleStage' = "making"
    BY DEF SingleStage, MakingPcs, ReleasingPcs
  <1> QED
    BY <1>1 DEF SingleTrial!Work

\* A run that ends without shipping withdraws its candidate.
LEMMA SingleDropMaps ==
  ASSUME pc \in MakingPcs \union ReleasingPcs \union {"reviewOnce"},
         pc' \notin MakingPcs \union ReleasingPcs \union {"reviewOnce"},
         UNCHANGED meta
  PROVE  SingleTrial!Drop
  BY DEF SingleTrial!Drop, SingleStage, MakingPcs, ReleasingPcs

\* Every step of the script maps to a step of the promise or to a stutter.
LEMMA SingleStep_Maps ==
  SingleInv /\ [SingleNext]_singleVars
    => [SingleTrial!ReleaseNext]_(SingleTrial!releaseVars)
  <1> SUFFICES ASSUME SingleInv, [SingleNext]_singleVars
               PROVE  SingleTrial!ReleaseNext \/ UNCHANGED SingleTrial!releaseVars
    OBVIOUS
  <1> USE DEF SingleTrial!ReleaseNext, shipVars
  <1>1. CASE StartSingle
    <2>1. /\ pc = "idle" /\ pc' = "volley"
          /\ "builds" \notin evidence' /\ UNCHANGED meta
      BY <1>1 DEF StartSingle, SingleInv, SingleRestKnown
    <2>2. SingleTrial!Begin
      BY <2>1 DEF SingleTrial!Begin, SingleStage, MakingPcs, ReleasingPcs
    <2> QED
      BY <2>2
  <1>2. CASE VolleyAndHunt \/ ReconcileOnce \/ HuntOnce
             \/ KeepSpec \/ PromoteReconciled \/ PromoteVolley \/ WriteEmptySpec
    <2>1. pc \in MakingPcs /\ pc' \in MakingPcs /\ UNCHANGED meta
      BY <1>2 DEF VolleyAndHunt, ReconcileOnce, HuntOnce, KeepSpec, PromoteReconciled,
         PromoteVolley, WriteEmptySpec, TakeSpec, MakingPcs
    <2> QED
      BY <2>1, MakingMaps
  <1>3. CASE SingleMerge
    <2>1. UNCHANGED meta
      BY <1>3, SingleMergeMoves
    <2>2. CASE UNCHANGED <<pc, evidence>>
      BY <2>1, <2>2 DEF SingleTrial!releaseVars, SingleStage
    <2>3. CASE pc \in MakingPcs /\ pc' \in MakingPcs
      BY <2>1, <2>3, MakingMaps
    <2> QED
      BY <1>3, SingleMergeMoves, <2>2, <2>3 DEF MakingPcs
  <1>4. CASE ExplicitPasses
    <2>1. /\ pc = "explicitBuild" /\ pc' = "reviewOnce"
          /\ "builds" \in evidence' /\ UNCHANGED meta
      BY <1>4 DEF ExplicitPasses, Verify
    <2>2. SingleTrial!Admit
      BY <2>1 DEF SingleTrial!Admit, SingleStage, MakingPcs, ReleasingPcs
    <2> QED
      BY <2>2
  <1>5. CASE ExplicitFails
    <2>1. pc = "explicitBuild" /\ pc' = "hard" /\ UNCHANGED meta
      BY <1>5 DEF ExplicitFails
    <2> QED
      BY <2>1, SingleDropMaps DEF MakingPcs, ReleasingPcs
  <1>6. CASE ReviewOnce
    <2>1. pc = "reviewOnce" /\ pc' = "gate" /\ UNCHANGED meta
      BY <1>6 DEF ReviewOnce
    <2>2. SingleTrial!Settle
      BY <2>1 DEF SingleTrial!Settle, SingleStage, MakingPcs, ReleasingPcs
    <2> QED
      BY <2>2
  <1>7. CASE GateOnce \/ ShipPatch
    <2>1. pc \in ReleasingPcs /\ pc' \in ReleasingPcs /\ UNCHANGED <<meta, evidence>>
      BY <1>7 DEF GateOnce, ShipPatch, ReleasingPcs
    <2>2. SingleStage = "releasing" /\ SingleStage' = "releasing"
      BY <2>1 DEF SingleStage, MakingPcs, ReleasingPcs
    <2> QED
      BY <2>1, <2>2 DEF SingleTrial!releaseVars
  <1>8. CASE RecordClass
    <2>1. /\ pc = "record" /\ pc' = "done" /\ meta'.run = run
          /\ run # 0 /\ "builds" \in evidence
      BY <1>8 DEF RecordClass, SingleInv, SingleRunsKnown, PatchKnown
    <2>2. SingleTrial!Release
      BY <2>1 DEF SingleTrial!Release, SingleStage, MakingPcs, ReleasingPcs
    <2> QED
      BY <2>2
  <1>9. CASE ExitSingle \/ CrashSingle
    <2>1. pc' = "idle" /\ UNCHANGED meta
      BY <1>9 DEF ExitSingle, CrashSingle, StopSingle
    <2>2. CASE pc \in MakingPcs \union ReleasingPcs \union {"reviewOnce"}
      BY <2>1, <2>2, SingleDropMaps DEF MakingPcs, ReleasingPcs
    <2>3. CASE pc \notin MakingPcs \union ReleasingPcs \union {"reviewOnce"}
      <3>1. SingleStage = "idle" /\ SingleStage' = "idle"
        BY <2>1, <2>3 DEF SingleStage, MakingPcs, ReleasingPcs
      <3> QED
        BY <2>1, <3>1 DEF SingleTrial!releaseVars
    <2> QED
      BY <2>2, <2>3
  <1>10. CASE UNCHANGED singleVars
    BY <1>10 DEF singleVars, workspaceVars, SingleTrial!releaseVars, SingleStage
  <1> QED
    BY <1>1, <1>2, <1>3, <1>4, <1>5, <1>6, <1>7, <1>8, <1>9, <1>10 DEF SingleNext

\* The single-round pipeline implements CandidateRelease as the iterative one
\* does, crashes and re-runs included, and releases nothing unsound.
THEOREM SingleImplementsRelease == SingleSpec => SingleReleasesAsPromised
  <1>1. SingleSpec => SingleTrial!ReleaseSpec
    BY SingleInit_Maps, SingleStep_Maps, SingleInvariant, PTL
    DEF SingleSpec, SingleTrial!ReleaseSpec
  <1> QED
    BY <1>1 DEF SingleReleasesAsPromised
-----------------------------------------------------------------------------
\* Implementers work only while the script waits for both of them, so that what
\* was measured is what is merged.
MergeKnown ==
  /\ \A a \in Implementer : impl[a] # "done" => pc = "wait"
  /\ pc = "pick" => \A a \in Implementer : churn[a] = DiffLines(work[a])
  /\ MeasuredIsMerged

\* The winner is one of the two.
LEMMA FewerIsOne == \A m, n : Fewer(m, n) \in Implementer
  BY DEF Fewer, Implementer

\* A step of the merge, an implementer's included, keeps MergeKnown.
LEMMA MergeKeepsKnown == MergeKnown /\ MergeNext => MergeKnown'
  <1> SUFFICES ASSUME MergeKnown, MergeNext PROVE MergeKnown'
    OBVIOUS
  <1> USE DEF MergeKnown, MeasuredIsMerged
  <1>1. CASE StartImplementers
    BY <1>1 DEF StartImplementers
  <1>2. CASE \E a \in Implementer : Implement(a)
    <2>1. pc = "wait" /\ pc' = "wait"
      BY <1>2 DEF Implement, workspaceVars
    <2> QED
      BY <2>1
  <1>3. CASE MeasureChurn
    <2>1. /\ pc' = "pick" /\ impl' = impl /\ work' = work
          /\ \A a \in Implementer : impl[a] = "done" /\ churn'[a] = DiffLines(work[a])
      BY <1>3 DEF MeasureChurn, BothDone
    <2> QED
      BY <2>1 DEF DiffLines
  <1>4. CASE Merge
    <2>1. /\ pc = "pick" /\ pc' = "evidence" /\ UNCHANGED <<impl, work, churn>>
          /\ winner' \in Implementer /\ tree' \in TreesOf(work[winner'])
      BY <1>4, FewerIsOne DEF Merge
    <2> QED
      BY <2>1 DEF DiffLines, TreesOf, Kept
  <1>5. CASE CheckEvidence
    BY <1>5 DEF CheckEvidence, mergeOwnVars, DiffLines, TreesOf, Kept
  <1> QED
    BY <1>1, <1>2, <1>3, <1>4, <1>5 DEF MergeNext

\* So does every other step of the script, and every kill.
LEMMA SingleKeepsMergeKnown == MergeKnown /\ [SingleNext]_singleVars => MergeKnown'
  <1> SUFFICES ASSUME MergeKnown, [SingleNext]_singleVars PROVE MergeKnown'
    OBVIOUS
  <1>1. CASE SingleMerge
    BY <1>1, MergeKeepsKnown DEF SingleMerge
  <1> USE DEF MergeKnown, MeasuredIsMerged
  <1>2. CASE ExitSingle \/ CrashSingle
    <2>1. pc' = "idle" /\ impl' = [a \in Implementer |-> "done"]
      BY <1>2 DEF ExitSingle, CrashSingle, StopSingle
    <2> QED
      BY <2>1
  <1>3. CASE UNCHANGED singleVars
    BY <1>3 DEF singleVars, workspaceVars, mergeOwnVars, DiffLines, TreesOf, Kept
  <1>4. CASE \/ StartSingle \/ VolleyAndHunt \/ ReconcileOnce
             \/ KeepSpec \/ PromoteReconciled \/ PromoteVolley \/ WriteEmptySpec
             \/ HuntOnce \/ ExplicitPasses \/ ExplicitFails
             \/ ReviewOnce \/ GateOnce \/ ShipPatch \/ RecordClass
    <2>1. /\ impl' = impl /\ pc # "wait"
          /\ pc' \notin {"pick", "evidence", "huntStart"}
      BY <1>4 DEF StartSingle, VolleyAndHunt, ReconcileOnce, KeepSpec, PromoteReconciled,
         PromoteVolley, WriteEmptySpec, TakeSpec, HuntOnce, ExplicitPasses, ExplicitFails,
         ReviewOnce, GateOnce, ShipPatch, RecordClass, mergeOwnVars
    <2> QED
      BY <2>1
  <1> QED
    BY <1>1, <1>2, <1>3, <1>4 DEF SingleNext

\* In any number of runs the workspace that is merged is the one whose diff was
\* counted, although the implementers are two background jobs.
THEOREM MeasuredIsTheMerged == SingleSpec => []MeasuredIsMerged
  <1>1. SingleInit => MergeKnown
    BY DEF SingleInit, MergeKnown, MeasuredIsMerged
  <1>2. MergeKnown => MeasuredIsMerged
    BY DEF MergeKnown
  <1> QED
    BY <1>1, <1>2, SingleKeepsMergeKnown, PTL DEF SingleSpec
=============================================================================
