------------------------- MODULE ForgePipelineProofs -------------------------
(***************************************************************************)
(* Theorems about any number of runs in one trial directory, each of which *)
(* may be killed anywhere, for every cap and whatever the agents do.       *)
(***************************************************************************)
EXTENDS ForgePipeline, TLAPS

\* What is known of the candidate's last build and test run.
BuildKnown ==
  /\ pc \in {"reviewStart", "review", "judge"} => "builds" \in evidence
  /\ pc \in ShipPcs => (finalState = "impasse_build_broken" <=> "builds" \notin evidence)

\* The numbers of the runs that wrote c_llm and meta.json last.
RunsKnown ==
  /\ run \in Nat /\ cllm.run \in Nat /\ meta.run \in Nat
  /\ meta.run <= cllm.run /\ cllm.run <= run
  /\ pc \notin {"idle", "done"} => meta.run < run
  /\ pc \notin {"idle", "done", "record"} => cllm.run < run
  /\ pc = "record" => cllm.run = run /\ cllm.evidence = evidence

\* A script that is not running has found nothing out, and only a hard exit
\* leaves "hard" behind.
RestKnown ==
  /\ pc = "idle" => evidence = {}
  /\ noop = "hard" => pc \in {"hard", "idle"}

PipeInv == BuildKnown /\ RunsKnown /\ RestKnown /\ RecordTellsBuild /\ HardShipsNothing
-----------------------------------------------------------------------------
\* An empty trial directory satisfies the invariant.
LEMMA PipelineInit_Inv == PipelineInit => PipeInv
  <1> SUFFICES ASSUME PipelineInit PROVE PipeInv
    OBVIOUS
  <1>1. pc = "idle" /\ evidence = {} /\ noop = "empty" /\ run = 0
        /\ cllm.run = 0 /\ meta.run = 0
    BY DEF PipelineInit, NoCandidate, NoRecord
  <1> QED
    BY <1>1 DEF PipeInv, BuildKnown, RunsKnown, RestKnown, RecordTellsBuild,
       HardShipsNothing, ShipPcs

\* The spec loop: it ends, in the phases before a candidate is judged, and
\* touches neither the tree nor what is known of it.
LEMMA SpecPhaseMoves ==
  SpecPhase => /\ pc \in SpecPcs /\ pc' \in SpecPcs \union {"implement", "aborted"}
               /\ UNCHANGED <<evidence, noop, finalState, recordVars>>
  BY DEF SpecPhase, SpecPcs, SpecNext, BeginSpec, Volley, HuntSpecRound, SpecConverges,
     Reconcile, FinalSpecFound, NextSpecRound, SpecCap, EnsureSpec, SpecAbort, rvVars

\* The merge: either an implementer exits, or the script takes its next step.
LEMMA MergePhaseMoves ==
  MergePhase => /\ \/ UNCHANGED <<pc, evidence, noop>>
                   \/ /\ pc \in MergePcs /\ pc' \in MergePcs \union {"huntStart"}
                      /\ noop' \in {noop, "trivial"}
                /\ UNCHANGED <<finalState, recordVars>>
  <1> SUFFICES ASSUME MergePhase
               PROVE  /\ \/ UNCHANGED <<pc, evidence, noop>>
                         \/ /\ pc \in MergePcs /\ pc' \in MergePcs \union {"huntStart"}
                            /\ noop' \in {noop, "trivial"}
                      /\ UNCHANGED <<finalState, recordVars>>
    OBVIOUS
  <1>1. UNCHANGED <<finalState, recordVars>>
    BY DEF MergePhase, rvVars
  <1>2. CASE \E a \in Implementer : Implement(a)
    BY <1>1, <1>2 DEF Implement, workspaceVars
  <1>3. CASE StartImplementers \/ MeasureChurn \/ Merge \/ CheckEvidence
    BY <1>1, <1>3 DEF StartImplementers, MeasureChurn, Merge, CheckEvidence, MergePcs
  <1> QED
    BY <1>2, <1>3 DEF MergePhase, MergeNext

\* The hunt-code loop: a round, a passed final build, or a hard no-op.
LEMMA HuntPhaseMoves ==
  HuntPhase => /\ pc \in HuntPcs
               /\ \/ pc' \in HuntPcs /\ noop' = noop
                  \/ pc' = "reviewStart" /\ "builds" \in evidence' /\ noop' = noop
                  \/ pc' = "hard" /\ noop' = "hard"
               /\ UNCHANGED <<finalState, recordVars>>
  BY DEF HuntPhase, HuntPcs, HuntNext, BeginHunt, BuildPasses, BuildFails, Hunt, Converge,
     TakeFindings, AddressFindings, HuntCap, FinalBuildPasses, FinalBuildFails, Verify, rvVars

\* The reviewer loop: a round, or the exit to the gate under a label.
LEMMA ReviewPhaseMoves ==
  BuildKnown /\ ReviewPhase
    => /\ pc \in ReviewPcs
       /\ \/ pc' = "reverify"
          \/ pc' \in {"review", "judge"} /\ "builds" \in evidence'
          \/ /\ pc' = "gate"
             /\ finalState' = "impasse_build_broken" <=> "builds" \notin evidence'
       /\ UNCHANGED <<noop, recordVars>>
  BY DEF BuildKnown, ReviewPhase, ReviewPcs, ReviewNext, BeginReview, Review, Approve,
     Impasse, AddressComments, ReverifyPasses, ReverifyFails, HitCap, Leave, Verify, rvVars
-----------------------------------------------------------------------------
\* Every step of the script, and every kill, keeps the invariant.
LEMMA PipelineStep_Inv == PipeInv /\ [PipelineNext]_pipelineVars => PipeInv'
  <1> SUFFICES ASSUME PipeInv, [PipelineNext]_pipelineVars PROVE PipeInv'
    OBVIOUS
  <1> USE DEF PipeInv, BuildKnown, RunsKnown, RestKnown, RecordTellsBuild, HardShipsNothing,
              recordVars
  <1>1. CASE StartRun
    BY <1>1 DEF StartRun, ShipPcs, rvVars
  <1>2. CASE SpecPhase
    BY <1>2, SpecPhaseMoves DEF SpecPcs, ShipPcs
  <1>3. CASE MergePhase
    BY <1>3, MergePhaseMoves DEF MergePcs, ShipPcs
  <1>4. CASE HuntPhase
    BY <1>4, HuntPhaseMoves DEF HuntPcs, ShipPcs
  <1>5. CASE ReviewPhase
    BY <1>5, ReviewPhaseMoves DEF ReviewPcs, ShipPcs
  <1>6. CASE Gate
    BY <1>6 DEF Gate, ShipPcs, rvVars
  <1>7. CASE Ship
    BY <1>7 DEF Ship, ShipPcs, rvVars
  <1>8. CASE Record
    BY <1>8 DEF Record, ShipPcs, rvVars
  <1>9. CASE Exit \/ Crash
    BY <1>9 DEF Exit, Crash, Stop, ShipPcs
  <1>10. CASE UNCHANGED pipelineVars
    BY <1>10 DEF pipelineVars, workspaceVars, rvVars
  <1> QED
    BY <1>1, <1>2, <1>3, <1>4, <1>5, <1>6, <1>7, <1>8, <1>9, <1>10 DEF PipelineNext

\* What is known of the build, the runs and an idle directory holds at every
\* statement of any number of runs of run_forge_v2_iterative.sh.
THEOREM PipelineInvariant == PipelineSpec => []PipeInv
  BY PipelineInit_Inv, PipelineStep_Inv, PTL DEF PipelineSpec

\* However often the script is run in a trial directory and wherever it is
\* killed, a record that is about the candidate in c_llm tells whether the
\* last build and test run on that candidate passed.
THEOREM RecordIsHonest == PipelineSpec => []RecordTellsBuild
  <1>1. PipeInv => RecordTellsBuild
    BY DEF PipeInv
  <1> QED
    BY <1>1, PipelineInvariant, PTL

\* A hard no-op ships nothing and records nothing, in this run or later.
THEOREM HardIsHard == PipelineSpec => []HardShipsNothing
  <1>1. PipeInv => HardShipsNothing
    BY DEF PipeInv
  <1> QED
    BY <1>1, PipelineInvariant, PTL

\* meta.json never describes a candidate that has not been in c_llm.
THEOREM RecordNeverAhead == PipelineSpec => []RecordFollowsShip
  <1>1. PipeInv => RecordFollowsShip
    BY DEF PipeInv, RunsKnown, RecordFollowsShip
  <1> QED
    BY <1>1, PipelineInvariant, PTL
-----------------------------------------------------------------------------
\* Which stage of a trial a statement of the script belongs to.
LEMMA StageOf ==
  /\ pc \in SpecPcs \union MergePcs \union HuntPcs => Stage = "making"
  /\ pc \in ReviewPcs => Stage = "judging"
  /\ pc \in ShipPcs => Stage = "releasing"
  /\ pc \notin SpecPcs \union MergePcs \union HuntPcs \union ReviewPcs \union ShipPcs
       => Stage = "idle"
  BY DEF Stage, SpecPcs, MergePcs, HuntPcs, ReviewPcs, ShipPcs

\* The stage of the promise each statement of the script belongs to.
LEMMA StageOfNext ==
  /\ pc' \in SpecPcs \union MergePcs \union HuntPcs => Stage' = "making"
  /\ pc' \in ReviewPcs => Stage' = "judging"
  /\ pc' \in ShipPcs => Stage' = "releasing"
  /\ pc' \notin SpecPcs \union MergePcs \union HuntPcs \union ReviewPcs \union ShipPcs
       => Stage' = "idle"
  BY DEF Stage, SpecPcs, MergePcs, HuntPcs, ReviewPcs, ShipPcs

\* A step of the making or the judging of a candidate, whatever it finds out.
LEMMA WorkMaps ==
  ASSUME NEW where, where # "idle", Stage = where, Stage' = where, UNCHANGED meta
  PROVE  Trial!Work(where)
  BY DEF Trial!Work, Released

\* A run that ends without shipping withdraws its candidate.
LEMMA DropMaps ==
  ASSUME Stage # "idle", Stage' = "idle", UNCHANGED meta
  PROVE  Trial!Drop
  BY DEF Trial!Drop, Released

\* A step that changes nothing the promise sees is a stutter.
LEMMA StutterMaps ==
  ASSUME Stage' = Stage, UNCHANGED <<meta, evidence>>
  PROVE  UNCHANGED Trial!releaseVars
  BY DEF Trial!releaseVars, Released

\* The initial states of the script map to those of the promise.
LEMMA PipelineInit_Maps == PipelineInit => Trial!ReleaseInit
  <1> SUFFICES ASSUME PipelineInit PROVE Trial!ReleaseInit
    OBVIOUS
  <1>1. pc = "idle" /\ meta.run = 0
    BY DEF PipelineInit, NoRecord
  <1>2. Stage = "idle"
    BY <1>1, StageOf DEF SpecPcs, MergePcs, HuntPcs, ReviewPcs, ShipPcs
  <1> QED
    BY <1>1, <1>2 DEF Trial!ReleaseInit, Released

\* Every step of the script maps to a step of the promise or to a stutter.
LEMMA PipelineStep_Maps ==
  PipeInv /\ [PipelineNext]_pipelineVars => [Trial!ReleaseNext]_(Trial!releaseVars)
  <1> SUFFICES ASSUME PipeInv, [PipelineNext]_pipelineVars
               PROVE  Trial!ReleaseNext \/ UNCHANGED Trial!releaseVars
    OBVIOUS
  <1> USE DEF Trial!ReleaseNext
  <1>1. CASE StartRun
    <2>1. Stage = "idle" /\ Stage' = "making" /\ UNCHANGED meta /\ "builds" \notin evidence'
      BY <1>1, StageOf, StageOfNext
      DEF StartRun, PipeInv, RestKnown, SpecPcs, MergePcs, HuntPcs, ReviewPcs, ShipPcs
    <2>2. Trial!Begin
      BY <2>1 DEF Trial!Begin, Released
    <2> QED
      BY <2>2
  <1>2. CASE SpecPhase
    <2>1. Stage = "making" /\ (Stage' = "making" \/ Stage' = "idle") /\ UNCHANGED meta
      BY <1>2, SpecPhaseMoves, StageOf, StageOfNext
      DEF recordVars, SpecPcs, MergePcs, HuntPcs, ReviewPcs, ShipPcs
    <2> QED
      BY <2>1, WorkMaps, DropMaps
  <1>3. CASE MergePhase
    <2>1. UNCHANGED meta
      BY <1>3, MergePhaseMoves DEF recordVars
    <2>2. CASE UNCHANGED <<pc, evidence, noop>>
      <3>1. Stage' = Stage
        BY <2>2 DEF Stage
      <3> QED
        BY <2>1, <2>2, <3>1, StutterMaps
    <2>3. CASE pc \in MergePcs /\ pc' \in MergePcs \union {"huntStart"}
      <3>1. Stage = "making" /\ Stage' = "making"
        BY <2>3, StageOf, StageOfNext DEF MergePcs, HuntPcs
      <3> QED
        BY <2>1, <3>1, WorkMaps
    <2> QED
      BY <1>3, MergePhaseMoves, <2>2, <2>3
  <1>4. CASE HuntPhase
    <2>1. Stage = "making" /\ UNCHANGED meta
      BY <1>4, HuntPhaseMoves, StageOf DEF recordVars
    <2>2. CASE pc' \in HuntPcs
      <3>1. Stage' = "making"
        BY <2>2, StageOfNext
      <3> QED
        BY <2>1, <3>1, WorkMaps
    <2>3. CASE pc' = "reviewStart" /\ "builds" \in evidence'
      <3>1. Stage' = "judging"
        BY <2>3, StageOfNext DEF ReviewPcs
      <3>2. Trial!Admit
        BY <2>1, <2>3, <3>1 DEF Trial!Admit, Released
      <3> QED
        BY <3>2
    <2>4. CASE pc' = "hard"
      <3>1. Stage' = "idle"
        BY <2>4, StageOfNext DEF SpecPcs, MergePcs, HuntPcs, ReviewPcs, ShipPcs
      <3> QED
        BY <2>1, <3>1, DropMaps
    <2> QED
      BY <1>4, HuntPhaseMoves, <2>2, <2>3, <2>4
  <1>5. CASE ReviewPhase
    <2>1. Stage = "judging" /\ UNCHANGED meta
      BY <1>5, ReviewPhaseMoves, StageOf DEF recordVars, PipeInv
    <2>2. CASE pc' \in {"reverify", "review", "judge"}
      <3>1. Stage' = "judging"
        BY <2>2, StageOfNext DEF ReviewPcs
      <3> QED
        BY <2>1, <3>1, WorkMaps
    <2>3. CASE pc' = "gate"
      <3>1. Stage' = "releasing"
        BY <2>3, StageOfNext DEF ShipPcs
      <3>2. Trial!Settle
        BY <2>1, <3>1 DEF Trial!Settle, Released
      <3> QED
        BY <3>2
    <2> QED
      BY <1>5, ReviewPhaseMoves, <2>2, <2>3 DEF PipeInv
  <1>6. CASE Gate \/ Ship
    <2>1. UNCHANGED <<meta, evidence>> /\ pc \in ShipPcs /\ pc' \in ShipPcs
      BY <1>6 DEF Gate, Ship, ShipPcs
    <2> QED
      BY <2>1, StageOf, StageOfNext, StutterMaps
  <1>7. CASE Record
    <2>1. pc \in ShipPcs /\ pc' = "done" /\ meta'.run = run /\ meta'.state = finalState
      BY <1>7 DEF Record, ShipPcs
    <2>2. Stage = "releasing" /\ Stage' = "idle"
      BY <2>1, StageOf, StageOfNext DEF SpecPcs, MergePcs, HuntPcs, ReviewPcs, ShipPcs
    <2>3. run # 0 /\ (finalState = "impasse_build_broken" <=> "builds" \notin evidence)
      BY <2>1, <1>7 DEF Record, PipeInv, BuildKnown, RunsKnown
    <2>4. Trial!Release
      BY <2>1, <2>2, <2>3 DEF Trial!Release, Released
    <2> QED
      BY <2>4
  <1>8. CASE Exit \/ Crash
    <2>1. UNCHANGED meta /\ pc' = "idle"
      BY <1>8 DEF Exit, Crash, Stop, recordVars
    <2>2. Stage' = "idle"
      BY <2>1, StageOfNext DEF SpecPcs, MergePcs, HuntPcs, ReviewPcs, ShipPcs
    <2>3. CASE Stage = "idle"
      BY <2>1, <2>2, <2>3 DEF Trial!releaseVars, Released
    <2> QED
      BY <2>1, <2>2, <2>3, DropMaps
  <1>9. CASE UNCHANGED pipelineVars
    <2>1. UNCHANGED <<pc, meta, evidence>>
      BY <1>9 DEF pipelineVars, workspaceVars, recordVars
    <2>2. Stage' = Stage
      BY <2>1 DEF Stage
    <2> QED
      BY <2>1, <2>2, StutterMaps
  <1> QED
    BY <1>1, <1>2, <1>3, <1>4, <1>5, <1>6, <1>7, <1>8, <1>9 DEF PipelineNext

\* The pipeline implements CandidateRelease, crashes and re-runs included.
THEOREM PipelineImplementsRelease == PipelineSpec => ReleasesAsPromised
  <1>1. PipelineSpec => Trial!ReleaseSpec
    BY PipelineInit_Maps, PipelineStep_Maps, PipelineInvariant, PTL
    DEF PipelineSpec, Trial!ReleaseSpec
  <1> QED
    BY <1>1 DEF ReleasesAsPromised
-----------------------------------------------------------------------------
\* The files of the spec loop, alone and in a fresh trial directory.
SpecTypes ==
  /\ specRound \in 1..MaxRounds + 1
  /\ claims \in [1..MaxRounds + 1 -> (SUBSET Claims) \union {NoFile}]
  /\ newest \in 0..MaxRounds + 1
  /\ specHunt \in [1..MaxRounds -> (SUBSET Claims) \union {NoFile, Clean}]
  /\ finalSpec \in (SUBSET Claims) \union {NoFile}
  /\ pc \in {"huntSpec", "judgeSpec", "checkFinal"} => specRound =< MaxRounds
  /\ pc = "specStart" =>
       /\ specRound = 1 /\ newest = 0 /\ finalSpec = NoFile /\ claims[1] = NoFile
       /\ mute = {}

\* The claims of a file were before the hunter of round r, who did not block them.
PassedHunt(file, r) == Accepted(file) \subseteq Accepted(claims[r]) \ Blocked(specHunt[r])

\* Round r has claims to hunt, or is the first one and has none.
HasClaims(r) ==
  \/ newest = r /\ claims[r] # NoFile
  \/ newest = 0 /\ r = 1 /\ claims[1] = NoFile

\* Nobody but the volley agent was mute: what each step of the loop leaves behind.
SpecKnown ==
  /\ pc \in {"volley", "huntSpec", "judgeSpec"} =>
       finalSpec = NoFile /\ HasClaims(specRound)
  /\ pc = "volley" /\ specRound > 1 => PassedHunt(claims[specRound], specRound - 1)
  /\ pc = "checkFinal" =>
       \/ finalSpec # NoFile /\ PassedHunt(finalSpec, specRound)
       \/ /\ finalSpec = NoFile
          /\ newest = specRound + 1 /\ claims[newest] # NoFile
          /\ PassedHunt(claims[newest], specRound)
  /\ pc = "ensureSpec" =>
       \/ finalSpec # NoFile /\ PassedHunt(finalSpec, LastHunt)
       \/ finalSpec = NoFile /\ newest = 0
       \/ finalSpec = NoFile /\ newest # 0 /\ PassedHunt(claims[newest], LastHunt)
  /\ pc = "implement" => PassedHunt(finalSpec, LastHunt)

SpecLoopInv == SpecTypes /\ (mute \subseteq {"volley"} => SpecKnown)

\* A file is no hunt report, and a set of claims is neither.
LEMMA FilesDiffer ==
  /\ NoFile # Clean /\ NoFile \notin SUBSET Claims /\ Clean \notin SUBSET Claims
  /\ MaxRounds \in Nat \ {0}
  BY SpecAssumption, RoundsAssumption

\* A claims file holds claims.
LEMMA AcceptedAreClaims ==
  ASSUME SpecTypes, NEW r \in 1..MaxRounds + 1
  PROVE  Accepted(claims[r]) \subseteq Claims
  <1>1. claims[r] \in SUBSET Claims \/ claims[r] = NoFile
    BY DEF SpecTypes
  <1> QED
    BY <1>1 DEF Accepted

\* The files keep their types.
LEMMA SpecTypesStay == SpecTypes /\ [SpecNext]_specLoopVars => SpecTypes'
  <1> SUFFICES ASSUME SpecTypes, [SpecNext]_specLoopVars PROVE SpecTypes'
    OBVIOUS
  <1> USE FilesDiffer DEF SpecTypes
  <1>1. CASE BeginSpec
    BY <1>1 DEF BeginSpec
  <1>2. CASE Volley
    BY <1>2 DEF Volley, MuteAgent
  <1>3. CASE HuntSpecRound
    <2>1. /\ pc = "huntSpec" /\ pc' = "judgeSpec"
          /\ UNCHANGED <<specRound, claims, newest, finalSpec>>
          /\ \/ \E report \in {Clean} \union SUBSET Accepted(claims[specRound]) :
                  specHunt' = [specHunt EXCEPT ![specRound] = report]
             \/ UNCHANGED specHunt
      BY <1>3 DEF HuntSpecRound
    <2>2. {Clean} \union SUBSET Accepted(claims[specRound]) \subseteq {Clean} \union SUBSET Claims
      BY AcceptedAreClaims
    <2>3. specHunt' \in [1..MaxRounds -> (SUBSET Claims) \union {NoFile, Clean}]
      BY <2>1, <2>2
    <2> QED
      BY <2>1, <2>3
  <1>4. CASE SpecConverges
    BY <1>4 DEF SpecConverges, PromoteIfThere
  <1>5. CASE Reconcile
    <2>2. SUBSET (Accepted(claims[specRound]) \ Blocked(specHunt[specRound])) \subseteq SUBSET Claims
      BY AcceptedAreClaims
    <2>3. pc = "judgeSpec" /\ pc' = "checkFinal" /\ specRound' = specRound /\ specHunt' = specHunt
      BY <1>5 DEF Reconcile
    <2>4. \/ /\ \E c \in SUBSET Claims : claims' = [claims EXCEPT ![specRound + 1] = c]
             /\ newest' = specRound + 1 /\ finalSpec' = finalSpec
          \/ finalSpec' \in SUBSET Claims /\ UNCHANGED <<claims, newest>>
          \/ UNCHANGED <<claims, newest, finalSpec>>
      BY <1>5, <2>2 DEF Reconcile, MuteAgent
    <2> QED
      BY <2>3, <2>4
  <1>6. CASE FinalSpecFound \/ SpecCap \/ SpecAbort
    BY <1>6 DEF FinalSpecFound, SpecCap, SpecAbort, specVars
  <1>7. CASE NextSpecRound
    BY <1>7 DEF NextSpecRound
  <1>8. CASE EnsureSpec
    BY <1>8 DEF EnsureSpec, LatestClaims
  <1>9. CASE UNCHANGED specLoopVars
    BY <1>9 DEF specLoopVars, workspaceVars, specVars
  <1> QED
    BY <1>1, <1>2, <1>3, <1>4, <1>5, <1>6, <1>7, <1>8, <1>9 DEF SpecNext

\* Every step of the loop keeps what is known of the files.
LEMMA SpecKnownStays ==
  ASSUME SpecLoopInv, [SpecNext]_specLoopVars, mute' \subseteq {"volley"}
  PROVE  SpecKnown'
  <1>1. SpecTypes /\ SpecTypes'
    BY SpecTypesStay DEF SpecLoopInv
  <1>2. mute \subseteq {"volley"} /\ SpecKnown
    <2>1. mute \subseteq mute' \/ pc = "specStart"
      BY DEF SpecNext, BeginSpec, Volley, HuntSpecRound, SpecConverges, Reconcile,
         FinalSpecFound, NextSpecRound, SpecCap, EnsureSpec, SpecAbort, MuteAgent, specVars,
         specLoopVars
    <2> QED
      BY <1>1, <2>1 DEF SpecLoopInv, SpecTypes
  <1> USE FilesDiffer
  <1>3. CASE BeginSpec
    BY <1>1, <1>3 DEF BeginSpec, SpecKnown, SpecTypes, HasClaims
  <1>4. CASE Volley
    BY <1>1, <1>2, <1>4 DEF Volley, MuteAgent, SpecKnown, SpecTypes, HasClaims
  <1>5. CASE HuntSpecRound
    BY <1>1, <1>2, <1>5 DEF HuntSpecRound, MuteAgent, SpecKnown, SpecTypes, HasClaims
  <1>6. CASE SpecConverges
    <2>1. /\ pc = "judgeSpec" /\ pc' = "ensureSpec" /\ UNCHANGED <<specRound, claims, newest, specHunt>>
          /\ Blocked(specHunt[specRound]) = {} /\ finalSpec = NoFile
          /\ specRound =< MaxRounds /\ HasClaims(specRound)
          /\ finalSpec' = claims[specRound]
      BY <1>1, <1>2, <1>6 DEF SpecConverges, PromoteIfThere, Blocked, SpecKnown, SpecTypes
    <2>2. LastHunt' = specRound
      BY <1>1, <2>1 DEF LastHunt, SpecTypes
    <2> QED
      BY <2>1, <2>2 DEF SpecKnown, HasClaims, PassedHunt
  <1>7. CASE Reconcile
    <2>1. /\ pc = "judgeSpec" /\ pc' = "checkFinal" /\ UNCHANGED <<specRound, specHunt>>
          /\ specRound \in 1..MaxRounds /\ finalSpec = NoFile
      BY <1>1, <1>2, <1>7 DEF Reconcile, SpecKnown, SpecTypes
    <2>2. PICK c \in SUBSET (Accepted(claims[specRound]) \ Blocked(specHunt[specRound])) :
            \/ /\ claims' = [claims EXCEPT ![specRound + 1] = c]
               /\ newest' = specRound + 1
               /\ UNCHANGED finalSpec
            \/ finalSpec' = c /\ UNCHANGED <<claims, newest>>
      BY <1>7 DEF Reconcile, MuteAgent
    <2>3. c \in SUBSET Claims /\ c # NoFile /\ Accepted(c) = c
      <3>1. c \in SUBSET Claims
        BY <1>1, <2>1, AcceptedAreClaims
      <3> QED
        BY <3>1 DEF Accepted
    <2>4. CASE finalSpec' = c /\ UNCHANGED <<claims, newest>>
      BY <2>1, <2>2, <2>3, <2>4 DEF SpecKnown, PassedHunt
    <2>5. CASE claims' = [claims EXCEPT ![specRound + 1] = c] /\ newest' = specRound + 1
               /\ UNCHANGED finalSpec
      <3>1. claims'[specRound + 1] = c /\ claims'[specRound] = claims[specRound]
        BY <1>1, <2>1, <2>5 DEF SpecTypes
      <3> QED
        BY <2>1, <2>2, <2>3, <2>5, <3>1 DEF SpecKnown, PassedHunt
    <2> QED
      BY <2>2, <2>4, <2>5
  <1>8. CASE FinalSpecFound
    BY <1>1, <1>2, <1>8 DEF FinalSpecFound, SpecKnown, SpecTypes, specVars, PassedHunt, LastHunt
  <1>9. CASE NextSpecRound
    BY <1>1, <1>2, <1>9 DEF NextSpecRound, SpecKnown, SpecTypes, PassedHunt, HasClaims
  <1>10. CASE SpecCap
    BY <1>1, <1>2, <1>10 DEF SpecCap, SpecKnown, SpecTypes, specVars, PassedHunt, HasClaims, LastHunt
  <1>11. CASE EnsureSpec
    BY <1>1, <1>2, <1>11 DEF EnsureSpec, LatestClaims, SpecKnown, SpecTypes, PassedHunt, LastHunt
  <1>12. CASE SpecAbort
    BY <1>12 DEF SpecAbort, SpecKnown
  <1>13. CASE UNCHANGED specLoopVars
    BY <1>2, <1>13 DEF specLoopVars, workspaceVars, specVars, SpecKnown, PassedHunt, HasClaims,
       LastHunt
  <1> QED
    BY <1>3, <1>4, <1>5, <1>6, <1>7, <1>8, <1>9, <1>10, <1>11, <1>12, <1>13 DEF SpecNext

\* Nothing that the last hunter blocked or did not see is handed to the implementers,
\* for any number of rounds and claims, unless the hunter or the reconciler was mute.
THEOREM HandedOverIsHunted == SpecLoopSpec => []HandedOverWasHunted
  <1>1. SpecInit => SpecLoopInv
    <2> SUFFICES ASSUME SpecInit PROVE SpecLoopInv
      OBVIOUS
    <2>1. /\ 1 \in 1..MaxRounds + 1 /\ 0 \in 0..MaxRounds + 1
      BY FilesDiffer
    <2>2. SpecTypes
      BY <2>1 DEF SpecInit, SpecTypes
    <2> QED
      BY <2>2 DEF SpecInit, SpecLoopInv, SpecKnown
  <1>2. SpecLoopInv /\ [SpecNext]_specLoopVars => SpecLoopInv'
    BY SpecTypesStay, SpecKnownStays DEF SpecLoopInv
  <1>3. SpecLoopInv => HandedOverWasHunted
    BY DEF SpecLoopInv, SpecKnown, PassedHunt, HandedOverWasHunted
  <1> QED
    BY <1>1, <1>2, <1>3, PTL DEF SpecLoopSpec
=============================================================================
