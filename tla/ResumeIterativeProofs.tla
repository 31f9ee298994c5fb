------------------------ MODULE ResumeIterativeProofs ------------------------
(***************************************************************************)
(* Theorems about the hunt-code loop and the reviewer loop, each on its    *)
(* own, and about a resumption that runs the one after the other: for      *)
(* every cap, every number of comments, every leftover and agents that may *)
(* fail.                                                                   *)
(***************************************************************************)
EXTENDS ResumeIterative, TLAPS

\* Learning or forgetting one fact about a tree leaves legal evidence.
LEMMA EvidenceMoves ==
  ASSUME NEW e \in Evidence, NEW x \in {"builds", "hunted", "approved"}
  PROVE  e \union {x} \in Evidence /\ e \ {x} \in Evidence
  BY DEF Evidence

-----------------------------------------------------------------------------
(* The hunt-code loop *)

\* Rounds that do something are legal ones, and the loop starts at 1.
HuntRoundInRange ==
  /\ pc = "huntStart" => hcRound = 1
  /\ pc \in {"hunt", "weigh", "address"} => hcRound <= MaxRounds

HuntInv ==
  /\ HuntTypeOK
  /\ HuntRoundInRange
  /\ GateIsTheBuild

\* The reports of this round, before it is written, and of rounds to come are
\* what was there before the run.
NothingHuntedAhead ==
  \A r \in 1..MaxRounds :
    r > hcRound \/ (r = hcRound /\ pc \in {"huntStart", "build", "hunt"})
      => hunt[r] \in HuntLeft

\* A report under judgement that would end the loop is about this very tree.
ReportIsOfThisTree ==
  /\ pc = "weigh" /\ CurHunt \in {"nothing", "failure"} => "hunted" \in evidence
  /\ ConvergedWasHunted
-----------------------------------------------------------------------------
\* What the merge hands over satisfies the invariant.
LEMMA HuntInit_Inv == HuntInit => HuntInv
  <1> SUFFICES ASSUME HuntInit PROVE HuntInv
    OBVIOUS
  <1>1. pc = "huntStart" /\ tree \in Tree /\ evidence \in Evidence /\ noop \in {"empty", "trivial"}
    BY DEF HuntInit, Evidence
  <1>2. hcRound = 1 /\ hunt \in [1..MaxRounds -> HuntLeft]
    BY DEF HuntInit
  <1>3. hunt \in [1..MaxRounds -> HuntFile]
    BY <1>2, HuntAssumption
  <1>4. HuntTypeOK
    <2>1. noop \in NoopClass
      BY <1>1 DEF NoopClass
    <2>2. HcTypeOK
      BY <1>2, <1>3, RoundsAssumption DEF HcTypeOK
    <2> QED
      BY <1>1, <2>1, <2>2 DEF HuntTypeOK
  <1> QED
    BY <1>1, <1>2, <1>4 DEF HuntInv, HuntRoundInRange, GateIsTheBuild

\* Every step that edits, verifies or hunts leaves legal evidence behind.
LEMMA HuntStep_Evidence ==
  evidence \in Evidence /\ tree \in Tree /\ [HuntNext]_huntVars
    => evidence' \in Evidence /\ tree' \in Tree
  <1> SUFFICES ASSUME evidence \in Evidence, tree \in Tree, [HuntNext]_huntVars
               PROVE  evidence' \in Evidence /\ tree' \in Tree
    OBVIOUS
  <1>a. /\ evidence \union {"builds"} \in Evidence /\ evidence \ {"builds"} \in Evidence
        /\ evidence \union {"hunted"} \in Evidence /\ evidence \ {"hunted"} \in Evidence
    BY EvidenceMoves
  <1>b. {} \in Evidence
    BY DEF Evidence
  <1>1. CASE UNCHANGED <<tree, evidence>>
    BY <1>1
  <1>2. CASE BuildPasses \/ FinalBuildPasses
    <2>1. evidence' = evidence \union {"builds"} /\ tree' = tree
      BY <1>2 DEF BuildPasses, FinalBuildPasses, Verify
    <2> QED
      BY <2>1, <1>a
  <1>3. CASE BuildFails \/ FinalBuildFails
    <2>1. evidence' = evidence \ {"builds"} /\ tree' = tree
      BY <1>3 DEF BuildFails, FinalBuildFails, Verify
    <2> QED
      BY <2>1, <1>a
  <1>4. CASE Hunt
    <2>1. \/ evidence' = evidence \union {"hunted"}
          \/ evidence' = evidence \ {"hunted"}
          \/ evidence' = evidence
      BY <1>4, Zenon DEF Hunt
    <2>2. tree' = tree
      BY <1>4 DEF Hunt
    <2> QED
      BY <2>1, <2>2, <1>a
  <1>5. CASE AddressFindings
    BY <1>5, <1>b DEF AddressFindings, Edit
  <1>6. CASE BeginHunt \/ Converge \/ TakeFindings \/ HuntCap
    BY <1>6 DEF BeginHunt, Converge, TakeFindings, HuntCap
  <1>7. CASE UNCHANGED huntVars
    BY <1>7 DEF huntVars, workspaceVars
  <1> QED
    BY <1>2, <1>3, <1>4, <1>5, <1>6, <1>7 DEF HuntNext

\* Every statement of 4f keeps the types.
LEMMA HuntStep_Type ==
  HuntTypeOK /\ HuntRoundInRange /\ [HuntNext]_huntVars => HuntTypeOK' /\ HuntRoundInRange'
  <1> SUFFICES ASSUME HuntTypeOK, HuntRoundInRange, [HuntNext]_huntVars
               PROVE  HuntTypeOK' /\ HuntRoundInRange'
    OBVIOUS
  <1>a. evidence' \in Evidence /\ tree' \in Tree
    BY HuntStep_Evidence DEF HuntTypeOK
  <1>b. /\ hcRound \in 1..MaxRounds + 1 /\ hunt \in [1..MaxRounds -> HuntFile]
        /\ noop \in NoopClass /\ MaxRounds \in Nat \ {0}
    BY RoundsAssumption DEF HuntTypeOK, HcTypeOK
  <1> USE <1>a, <1>b DEF HuntTypeOK, HcTypeOK, HuntRoundInRange, hcVars
  <1>1. CASE BeginHunt
    BY <1>1 DEF BeginHunt
  <1>2. CASE BuildPasses
    BY <1>2 DEF BuildPasses
  <1>3. CASE BuildFails
    BY <1>3 DEF BuildFails, HuntFile
  <1>4. CASE Hunt
    BY <1>4 DEF Hunt, HuntFile
  <1>5. CASE Converge
    BY <1>5 DEF Converge
  <1>6. CASE TakeFindings
    BY <1>6 DEF TakeFindings
  <1>7. CASE AddressFindings
    BY <1>7 DEF AddressFindings
  <1>8. CASE HuntCap
    BY <1>8 DEF HuntCap
  <1>9. CASE FinalBuildPasses
    BY <1>9 DEF FinalBuildPasses
  <1>10. CASE FinalBuildFails
    BY <1>10 DEF FinalBuildFails, NoopClass
  <1>11. CASE UNCHANGED huntVars
    BY <1>11 DEF huntVars, workspaceVars
  <1> QED
    BY <1>1, <1>2, <1>3, <1>4, <1>5, <1>6, <1>7, <1>8, <1>9, <1>10, <1>11 DEF HuntNext

\* Every statement of 4f keeps the gate: past it, the last build passed.
LEMMA HuntStep_Gate == GateIsTheBuild /\ [HuntNext]_huntVars => GateIsTheBuild'
  <1> SUFFICES ASSUME GateIsTheBuild, [HuntNext]_huntVars PROVE GateIsTheBuild'
    OBVIOUS
  <1>1. CASE UNCHANGED huntVars
    BY <1>1 DEF huntVars, workspaceVars, GateIsTheBuild
  <1>2. CASE HuntNext
    BY <1>2 DEF HuntNext, GateIsTheBuild, BeginHunt, BuildPasses, BuildFails, Hunt, Converge,
       TakeFindings, AddressFindings, HuntCap, FinalBuildPasses, FinalBuildFails, Verify
  <1> QED
    BY <1>1, <1>2

\* The strengthened invariant of the hunt-code loop, at every statement of 4f.
THEOREM HuntInvariant == HuntSpec => []HuntInv
  <1>1. HuntInv /\ [HuntNext]_huntVars => HuntInv'
    BY HuntStep_Type, HuntStep_Gate DEF HuntInv
  <1> QED
    BY HuntInit_Inv, <1>1, PTL DEF HuntSpec

\* The hunt-code loop keeps its variables in their types.
THEOREM HuntTypeCorrect == HuntSpec => []HuntTypeOK
  <1>1. HuntInv => HuntTypeOK
    BY DEF HuntInv
  <1> QED
    BY <1>1, HuntInvariant, PTL

\* Whatever the agents do, and whatever an earlier run left, the reviewer only
\* sees a candidate that was built and tested with success after its last
\* edit, and the loop ends in a hard no-op only when that last run failed.
THEOREM GateHolds == HuntSpec => []GateIsTheBuild
  <1>1. HuntInv => GateIsTheBuild
    BY DEF HuntInv
  <1> QED
    BY <1>1, HuntInvariant, PTL
-----------------------------------------------------------------------------
\* Every statement of 4f keeps the reports of rounds to come as they were, and
\* what the report of this round says true of the tree.
LEMMA HuntStep_Report ==
  ASSUME HuntLeft \cap {"nothing", "failure"} = {}
  PROVE  HuntInv /\ NothingHuntedAhead /\ ReportIsOfThisTree /\ [HuntNext]_huntVars
           => NothingHuntedAhead' /\ ReportIsOfThisTree'
  <1> SUFFICES ASSUME HuntInv, NothingHuntedAhead, ReportIsOfThisTree, [HuntNext]_huntVars
               PROVE  NothingHuntedAhead' /\ ReportIsOfThisTree'
    OBVIOUS
  <1>a. hcRound \in Int /\ hunt \in [1..MaxRounds -> HuntFile] /\ hcRound >= 1
        /\ MaxRounds \in Nat \ {0} /\ (pc = "huntStart" => hcRound = 1)
    BY RoundsAssumption DEF HuntInv, HuntTypeOK, HcTypeOK, HuntRoundInRange
  <1> USE <1>a DEF NothingHuntedAhead, ReportIsOfThisTree, ConvergedWasHunted, CurHunt, hcVars
  <1>1. CASE BeginHunt
    BY <1>1 DEF BeginHunt
  <1>2. CASE BuildPasses
    BY <1>2 DEF BuildPasses
  <1>3. CASE BuildFails
    BY <1>3 DEF BuildFails
  <1>4. CASE Hunt
    <2>1. /\ pc = "hunt" /\ pc' = "weigh" /\ hcRound' = hcRound
          /\ hcRound \in 1..MaxRounds
      BY <1>4 DEF Hunt, HuntInv, HuntRoundInRange
    <2>2. CASE UNCHANGED <<hunt, evidence>>
      BY <2>1, <2>2
    <2>3. CASE /\ hunt' = [hunt EXCEPT ![hcRound] = "nothing"]
               /\ evidence' = evidence \union {"hunted"}
      BY <2>1, <2>3
    <2>4. CASE hunt' = [hunt EXCEPT ![hcRound] = "findings"]
      BY <2>1, <2>4
    <2> QED
      BY <1>4, <2>2, <2>3, <2>4 DEF Hunt
  <1>5. CASE Converge
    BY <1>5 DEF Converge
  <1>6. CASE TakeFindings
    BY <1>6 DEF TakeFindings
  <1>7. CASE AddressFindings
    BY <1>7 DEF AddressFindings
  <1>8. CASE HuntCap
    BY <1>8 DEF HuntCap
  <1>9. CASE FinalBuildPasses
    BY <1>9 DEF FinalBuildPasses, Verify
  <1>10. CASE FinalBuildFails
    BY <1>10 DEF FinalBuildFails
  <1>11. CASE UNCHANGED huntVars
    BY <1>11 DEF huntVars, workspaceVars
  <1> QED
    BY <1>1, <1>2, <1>3, <1>4, <1>5, <1>6, <1>7, <1>8, <1>9, <1>10, <1>11 DEF HuntNext

\* In a directory without reports of an earlier run that list no finding, a
\* loop that ends below its cap ends on a report about the very tree that
\* leaves, even if the hunter failed to report in some rounds.
THEOREM ConvergenceIsEarned ==
  ASSUME HuntLeft \cap {"nothing", "failure"} = {}
  PROVE  HuntSpec => []ConvergedWasHunted
  <1>1. HuntInit => NothingHuntedAhead /\ ReportIsOfThisTree
    BY DEF HuntInit, NothingHuntedAhead, ReportIsOfThisTree, ConvergedWasHunted
  <1>2. HuntInv /\ NothingHuntedAhead /\ ReportIsOfThisTree /\ [HuntNext]_huntVars
          => NothingHuntedAhead' /\ ReportIsOfThisTree'
    BY HuntStep_Report
  <1>3. ReportIsOfThisTree => ConvergedWasHunted
    BY DEF ReportIsOfThisTree
  <1> QED
    BY <1>1, <1>2, <1>3, HuntInvariant, PTL DEF HuntSpec
-----------------------------------------------------------------------------
(* The reviewer loop *)

\* The round that is being judged is a legal one, and the loop starts at 1.
RoundInRange ==
  /\ pc = "reviewStart" => rvRound = 1
  /\ pc \in {"judge", "reverify"} => rvRound <= MaxRounds

\* PREV_COMMENTS is the count of the round before, the file as it still is.
PrevIsLastCount == prev = IF rvRound = 1 THEN 999 ELSE comments[rvRound - 1]

\* Where the last build and test run is known to have passed, and the label.
BuildIsKnown ==
  /\ pc \in {"reviewStart", "review", "judge"} => "builds" \in evidence
  /\ LabelTellsBuild

\* The round whose comments were just addressed did shrink.
AddressedShrank == pc = "reverify" => ~NoComments /\ ~ShGe(CurComments, prev)

AllReported == \A i \in 1..rvRound - 1 : comments[i] # Blank

\* RoundsArePaidFor, strengthened with the count of the last round.
PaidWithInterest ==
  AllReported => /\ prev >= 1
                 /\ \A i \in 1..rvRound - 1 : comments[i] >= prev + (rvRound - 1 - i)

ReviewInv ==
  /\ ReviewTypeOK
  /\ RoundInRange
  /\ PrevIsLastCount
  /\ BuildIsKnown
  /\ AddressedShrank
  /\ PaidWithInterest

\* On a fresh directory the files of rounds to come do not exist, and a count
\* of 0 under judgement was reported for this very tree.
NothingAhead ==
  \A r \in 1..MaxRounds :
    r > rvRound \/ (r = rvRound /\ pc \in {"reviewStart", "review"})
      => comments[r] \in CommentsLeft

ApprovalIsKnown ==
  /\ pc = "judge" /\ NoComments => "approved" \in evidence
  /\ ApprovalIsOfThisTree
-----------------------------------------------------------------------------
\* Comment counts, and Blank for a missing report, are integers.
LEMMA CommentsFileInt == CommentsFile \subseteq Int /\ 0 \in CommentsFile
                         /\ \A n \in CommentsFile : n # Blank => n >= 0
  BY ReviewAssumption DEF CommentsFile, Blank

\* The review may begin: the candidate builds, and the reports are leftovers.
ReviewReady ==
  /\ pc = "reviewStart"
  /\ tree \in Tree /\ evidence \in Evidence /\ "builds" \in evidence /\ noop \in NoopClass
  /\ rvRound = 1 /\ prev = 999
  /\ comments \in [1..MaxRounds -> CommentsLeft]
  /\ finalState \in FinalStates \union {"none"}

\* A candidate that builds, and what a directory may hold before the loop, satisfy the
\* invariant.
LEMMA ReviewReady_Inv == ReviewReady => ReviewInv
  <1> SUFFICES ASSUME ReviewReady PROVE ReviewInv
    OBVIOUS
  <1> USE DEF ReviewReady
  <1>1. 1 \in 1..MaxRounds + 1 /\ 1..rvRound - 1 = {}
    BY RoundsAssumption
  <1>2. ReviewTypeOK
    <2>1. comments \in [1..MaxRounds -> CommentsFile]
      BY ReviewAssumption
    <2> QED
      BY <1>1, <2>1 DEF ReviewTypeOK, RvTypeOK
  <1>3. RoundInRange /\ PrevIsLastCount /\ BuildIsKnown /\ AddressedShrank
    BY DEF RoundInRange, PrevIsLastCount, BuildIsKnown, LabelTellsBuild, AddressedShrank
  <1>4. PaidWithInterest
    BY <1>1 DEF PaidWithInterest
  <1> QED
    BY <1>2, <1>3, <1>4 DEF ReviewInv

\* What 4f hands over satisfies the invariant.
LEMMA ReviewInit_Inv == ReviewInit => ReviewInv
  <1> SUFFICES ASSUME ReviewInit PROVE ReviewInv
    OBVIOUS
  <1>1. noop \in NoopClass /\ evidence \in Evidence /\ "builds" \in evidence
    BY DEF ReviewInit, NoopClass
  <1> QED
    BY <1>1, ReviewReady_Inv DEF ReviewInit, ReviewReady

\* Every statement of 4g keeps the types.
LEMMA ReviewStep_Type ==
  ReviewTypeOK /\ RoundInRange /\ [ReviewNext]_reviewVars => ReviewTypeOK' /\ RoundInRange'
  <1> SUFFICES ASSUME ReviewTypeOK, RoundInRange, [ReviewNext]_reviewVars
               PROVE  ReviewTypeOK' /\ RoundInRange'
    OBVIOUS
  <1> USE RoundsAssumption, CommentsFileInt
      DEF ReviewTypeOK, RvTypeOK, RoundInRange, rvVars
  <1>1. CASE BeginReview
    BY <1>1, 999 \in Int DEF BeginReview
  <1>2. CASE Review
    <2>1. comments' \in [1..MaxRounds -> CommentsFile]
      BY <1>2 DEF Review, CommentsFile
    <2>2. evidence' \in Evidence
      <3>1. evidence \in Evidence
        OBVIOUS
      <3>2. evidence \union {"approved"} \in Evidence /\ evidence \ {"approved"} \in Evidence
        BY ONLY <3>1, EvidenceMoves
      <3>3. evidence' = evidence \/ evidence' = evidence \union {"approved"}
              \/ evidence' = evidence \ {"approved"}
        BY ONLY <1>2, Zenon DEF Review
      <3> QED
        BY ONLY <3>1, <3>2, <3>3
    <2> QED
      BY <1>2, <2>1, <2>2 DEF Review
  <1>3. CASE Approve
    BY <1>3 DEF Approve, Leave, FinalStates
  <1>4. CASE Impasse
    BY <1>4 DEF Impasse, Leave, FinalStates
  <1>5. CASE AddressComments
    BY <1>5 DEF AddressComments, Edit, Evidence
  <1>6. CASE ReverifyPasses
    <2>1. evidence' \in Evidence
      BY <1>6 DEF ReverifyPasses, Verify, Evidence
    <2> QED
      BY <1>6, <2>1 DEF ReverifyPasses, Verify, CurComments
  <1>7. CASE ReverifyFails
    <2>1. evidence' \in Evidence
      BY <1>7 DEF ReverifyFails, Verify, Evidence
    <2> QED
      BY <1>7, <2>1 DEF ReverifyFails, Verify, Leave, FinalStates
  <1>8. CASE HitCap
    BY <1>8 DEF HitCap, Leave, FinalStates
  <1>9. CASE UNCHANGED reviewVars
    BY <1>9 DEF reviewVars, workspaceVars
  <1> QED
    BY <1>1, <1>2, <1>3, <1>4, <1>5, <1>6, <1>7, <1>8, <1>9 DEF ReviewNext

\* Every statement of 4g keeps what label and statement say of the last build.
LEMMA ReviewStep_Build ==
  BuildIsKnown /\ [ReviewNext]_reviewVars => BuildIsKnown'
  <1> SUFFICES ASSUME BuildIsKnown, [ReviewNext]_reviewVars PROVE BuildIsKnown'
    OBVIOUS
  <1>1. CASE UNCHANGED reviewVars
    BY <1>1 DEF reviewVars, workspaceVars, rvVars, BuildIsKnown, LabelTellsBuild
  <1>2. CASE ReviewNext
    BY <1>2 DEF ReviewNext, BuildIsKnown, LabelTellsBuild, BeginReview, Review, Approve,
       Impasse, AddressComments, ReverifyPasses, ReverifyFails, HitCap, Leave, Edit,
       Verify, rvVars
  <1> QED
    BY <1>1, <1>2

\* The counts: what a step does to PREV_COMMENTS and the files behind it.
LEMMA ReviewStep_Counts ==
  ReviewInv /\ [ReviewNext]_reviewVars
    => PrevIsLastCount' /\ AddressedShrank' /\ PaidWithInterest'
  <1> SUFFICES ASSUME ReviewInv, [ReviewNext]_reviewVars
               PROVE  PrevIsLastCount' /\ AddressedShrank' /\ PaidWithInterest'
    OBVIOUS
  <1> USE RoundsAssumption
      DEF ReviewInv, PrevIsLastCount, AddressedShrank, PaidWithInterest, AllReported,
          NoComments, CurComments, rvVars
  <1>a. rvRound \in 1..MaxRounds + 1 /\ comments \in [1..MaxRounds -> CommentsFile]
    BY DEF ReviewTypeOK, RvTypeOK
  <1>b. ASSUME NEW i \in 1..MaxRounds
        PROVE  comments[i] \in Int /\ (comments[i] # Blank => comments[i] >= 0)
    <2>1. comments[i] \in CommentsFile
      BY <1>a
    <2> QED
      BY <2>1, CommentsFileInt
  <1>1. CASE BeginReview
    BY <1>1 DEF BeginReview, RoundInRange
  <1>2. CASE Review
    BY <1>2, <1>a DEF Review
  <1>3. CASE Approve \/ Impasse \/ HitCap \/ ReverifyFails \/ UNCHANGED reviewVars
    <2>1. UNCHANGED <<rvRound, prev, comments>> /\ (pc' = "reverify" => UNCHANGED pc)
      BY <1>3 DEF Approve, Impasse, HitCap, ReverifyFails, reviewVars, workspaceVars, Leave
    <2> QED
      BY <2>1 DEF ShGe
  <1>4. CASE AddressComments
    BY <1>4 DEF AddressComments, ShGe
  <1>5. CASE ReverifyPasses
    <2>1. /\ rvRound' = rvRound + 1 /\ prev' = comments[rvRound]
          /\ comments' = comments /\ pc' = "review"
      BY <1>5 DEF ReverifyPasses
    <2>2. rvRound \in 1..MaxRounds
      BY <1>5, <1>a DEF ReverifyPasses, RoundInRange
    <2>3. PrevIsLastCount' /\ AddressedShrank'
      BY <2>1, <2>2
    <2>4. ASSUME AllReported' PROVE PaidWithInterest'
      <3>1. \A i \in 1..rvRound : comments[i] # Blank
        BY <2>1, <2>2, <2>4
      <3>2. /\ AllReported
            /\ prev >= 1
            /\ \A i \in 1..rvRound - 1 : comments[i] >= prev + (rvRound - 1 - i)
        BY <3>1, <2>2
      <3>3. comments[rvRound] \in Nat \ {0} /\ comments[rvRound] < prev
        <4>1. comments[rvRound] \in Int /\ comments[rvRound] >= 0
          BY <1>b, <2>2, <3>1
        <4>2. prev \in Int /\ prev # Blank
          <5>1. CASE rvRound = 1
            BY <5>1 DEF Blank
          <5>2. CASE rvRound # 1
            <6>1. rvRound - 1 \in 1..rvRound /\ rvRound - 1 \in 1..MaxRounds
              BY <5>2, <2>2
            <6> QED
              BY <6>1, <5>2, <1>b, <3>1
          <5> QED
            BY <5>1, <5>2
        <4> QED
          BY <1>5, <4>1, <4>2, <2>2, <3>1 DEF ReverifyPasses, ShGe
      <3>4. \A i \in 1..rvRound - 1 : comments[i] \in Int
        BY <1>b, <2>2
      <3>5. prev \in Int
        BY <1>b, <2>2
      <3>6. ASSUME NEW i \in 1..rvRound
            PROVE  comments[i] >= comments[rvRound] + (rvRound - i)
        <4>1. CASE i = rvRound
          BY <4>1, <3>3
        <4>2. CASE i # rvRound
          <5>1. i \in 1..rvRound - 1
            BY <4>2, <2>2
          <5> HIDE DEF ReviewInv
          <5> QED
            BY <5>1, <3>2, <3>3, <3>4, <3>5, <2>2
        <4> QED
          BY <4>1, <4>2
      <3> QED
        BY <2>1, <2>2, <3>3, <3>6
    <2> QED
      BY <2>3, <2>4
  <1> QED
    BY <1>1, <1>2, <1>3, <1>4, <1>5 DEF ReviewNext

\* The strengthened invariant of the reviewer loop, at every statement of 4g.
THEOREM ReviewInvariant == ReviewSpec => []ReviewInv
  <1>1. ReviewInv /\ [ReviewNext]_reviewVars => ReviewInv'
    BY ReviewStep_Type, ReviewStep_Build, ReviewStep_Counts DEF ReviewInv
  <1> QED
    BY ReviewInit_Inv, <1>1, PTL DEF ReviewSpec

\* The reviewer loop keeps its variables in their types, rounds within
\* 1..MAX_ROUNDS + 1 among them.
THEOREM ReviewTypeCorrect == ReviewSpec => []ReviewTypeOK
  <1>1. ReviewInv => ReviewTypeOK
    BY DEF ReviewInv
  <1> QED
    BY <1>1, ReviewInvariant, PTL

\* On every way out of the loop the label impasse_build_broken is written
\* exactly when the last build and test run of the tree that leaves failed.
THEOREM LabelIsHonest == ReviewSpec => []LabelTellsBuild
  <1>1. ReviewInv => LabelTellsBuild
    BY DEF ReviewInv, BuildIsKnown
  <1> QED
    BY <1>1, ReviewInvariant, PTL

\* The strengthened sum is what the rounds promise.
LEMMA InterestPays == ReviewInv => RoundsArePaidFor
  <1> SUFFICES ASSUME ReviewInv,
                      \A i \in 1..rvRound - 1 : comments[i] # Blank,
                      NEW i \in 1..rvRound - 1
               PROVE  comments[i] >= rvRound - i
    BY DEF RoundsArePaidFor
  <1>1. prev >= 1 /\ comments[i] >= prev + (rvRound - 1 - i)
    BY DEF ReviewInv, PaidWithInterest, AllReported
  <1>2. rvRound \in 1..MaxRounds + 1 /\ comments \in [1..MaxRounds -> CommentsFile]
        /\ prev \in CommentsFile \union {999}
    BY DEF ReviewInv, ReviewTypeOK, RvTypeOK
  <1>3. i \in 1..MaxRounds /\ i \in Int /\ rvRound \in Int
    BY <1>2, RoundsAssumption
  <1>4. comments[i] \in Int
    <2>1. comments[i] \in CommentsFile
      BY <1>2, <1>3
    <2> QED
      BY <2>1, CommentsFileInt
  <1>5. prev \in Int
    BY <1>2, CommentsFileInt
  <1> QED
    BY <1>1, <1>3, <1>4, <1>5

\* A report of n comments buys at most n addressed rounds, so the loop
\* reaches its cap only from a first report of at least MAX_ROUNDS comments.
THEOREM CommentsPayForRounds == ReviewSpec => []RoundsArePaidFor
  <1>1. ReviewInv => RoundsArePaidFor
    BY InterestPays
  <1> QED
    BY <1>1, ReviewInvariant, PTL
-----------------------------------------------------------------------------
\* Every statement of 4g keeps approvals about the tree that leaves.
LEMMA ReviewStep_Approval ==
  ASSUME 0 \notin CommentsLeft
  PROVE  ReviewInv /\ NothingAhead /\ ApprovalIsKnown /\ [ReviewNext]_reviewVars
           => NothingAhead' /\ ApprovalIsKnown'
  <1> SUFFICES ASSUME ReviewInv, NothingAhead, ApprovalIsKnown, [ReviewNext]_reviewVars
               PROVE  NothingAhead' /\ ApprovalIsKnown'
    OBVIOUS
  <1>a. rvRound \in Int /\ comments \in [1..MaxRounds -> CommentsFile]
        /\ (pc = "reviewStart" => rvRound = 1)
    BY RoundsAssumption DEF ReviewInv, ReviewTypeOK, RvTypeOK, RoundInRange
  <1> USE DEF NothingAhead, ApprovalIsKnown, ApprovalIsOfThisTree, NoComments,
              CurComments, rvVars
  <1>1. CASE BeginReview
    BY <1>1, <1>a DEF BeginReview
  <1>2. CASE Review
    <2>1. /\ pc = "review" /\ pc' = "judge" /\ rvRound' = rvRound /\ rvRound <= MaxRounds
          /\ rvRound \in 1..MaxRounds
      BY <1>2, <1>a DEF Review, ReviewInv, ReviewTypeOK, RvTypeOK
    <2>2. CASE UNCHANGED <<comments, evidence>>
      BY <2>1, <2>2
    <2>3. ASSUME NEW n \in 0..MaxComments,
                 comments' = [comments EXCEPT ![rvRound] = n],
                 evidence' = IF n = 0 THEN evidence \union {"approved"}
                                      ELSE evidence \ {"approved"}
          PROVE  NothingAhead' /\ ApprovalIsKnown'
      <3>1. NothingAhead'
        BY <1>a, <2>1, <2>3
      <3>2. comments'[rvRound'] = n
        BY <1>a, <2>1, <2>3
      <3>3. n = 0 => "approved" \in evidence'
        BY <2>3
      <3> QED
        BY <2>1, <3>1, <3>2, <3>3
    <2> QED
      BY <1>2, <2>2, <2>3 DEF Review
  <1>3. CASE Approve
    BY <1>3 DEF Approve, Leave
  <1>4. CASE Impasse
    BY <1>4 DEF Impasse, Leave
  <1>5. CASE AddressComments
    BY <1>5 DEF AddressComments
  <1>6. CASE ReverifyPasses
    BY <1>6, <1>a DEF ReverifyPasses
  <1>7. CASE ReverifyFails
    BY <1>7 DEF ReverifyFails, Leave
  <1>8. CASE HitCap
    BY <1>8 DEF HitCap, Leave
  <1>9. CASE UNCHANGED reviewVars
    BY <1>9 DEF reviewVars, workspaceVars
  <1> QED
    BY <1>1, <1>2, <1>3, <1>4, <1>5, <1>6, <1>7, <1>8, <1>9 DEF ReviewNext

\* In a directory that holds no old approval, "converged_approved" means that
\* the reviewer had nothing to say about exactly the tree that leaves, even
\* if it failed to report in some rounds.
THEOREM ApprovalIsEarned ==
  ASSUME 0 \notin CommentsLeft
  PROVE  ReviewSpec => []ApprovalIsOfThisTree
  <1>1. ReviewInit => NothingAhead /\ ApprovalIsKnown
    BY DEF ReviewInit, NothingAhead, ApprovalIsKnown, ApprovalIsOfThisTree
  <1>2. ReviewInv /\ NothingAhead /\ ApprovalIsKnown /\ [ReviewNext]_reviewVars
          => NothingAhead' /\ ApprovalIsKnown'
    BY ReviewStep_Approval
  <1>3. ApprovalIsKnown => ApprovalIsOfThisTree
    BY DEF ApprovalIsKnown
  <1> QED
    BY <1>1, <1>2, <1>3, ReviewInvariant, PTL DEF ReviewSpec
-----------------------------------------------------------------------------
(* The resumption *)

\* Until the hunt begins its loop, and until the review begins its own, what each loop
\* uses is as the directory was found.
LoopsAreReady ==
  /\ pc = "rebuild" =>
       hcRound = 1 /\ hunt \in [1..MaxRounds -> HuntLeft] /\ evidence = {}
  /\ pc \in {"rebuild"} \union HuntPcs =>
       /\ rvRound = 1 /\ prev = 999
       /\ comments \in [1..MaxRounds -> CommentsLeft]
       /\ finalState \in FinalStates \union {"none"}

\* The invariant of each loop holds while it runs, and on its ways out.
LoopsAreSound ==
  /\ pc \in HuntPcs \union {"reviewStart", "hard"} => HuntInv
  /\ pc \in ReviewPcs \union {"gate"} => ReviewInv

\* In the first round of the hunt the candidate is what was rebuilt.
CandidateIsKnown ==
  /\ pc = "rebuild" => ~rejected
  /\ pc \in HuntPcs \union {"reviewStart"} /\ hcRound = 1 /\ ~rejected
       => tree = single.tree

\* Past the review the label stays true of the tree, and becomes the outcome; until
\* then meta.json says what it said.
OutcomeIsKnown ==
  /\ pc \in {"record", "done"} =>
       (finalState = "impasse_build_broken" <=> "builds" \notin evidence)
  /\ pc = "done" /\ metaThere => outcome = finalState
  /\ pc # "done" => outcome = found
  /\ pc = "hard" => noop = "hard"

ResumeInv ==
  /\ pc \in {"rebuild", "gate", "record", "done", "hard"} \union HuntPcs \union ReviewPcs
  /\ tree \in Tree /\ evidence \in Evidence /\ noop \in NoopClass
  /\ single \in Single
  /\ LoopsAreReady
  /\ LoopsAreSound
  /\ CandidateIsKnown
  /\ OutcomeIsKnown
  /\ RoundsArePaidFor

\* The same of the next state.
LEMMA ReviewReady_InvNext == (ReviewReady => ReviewInv)' /\ (ReviewInv => RoundsArePaidFor)'
  BY ReviewReady_Inv, InterestPays, PTL

\* The script starts with a directory in which both loops are ready.
LEMMA ResumeInit_Inv == ResumeInit => ResumeInv
  <1> SUFFICES ASSUME ResumeInit PROVE ResumeInv
    OBVIOUS
  <1>1. pc = "rebuild" /\ tree = {} /\ evidence = {} /\ tree \in Tree /\ evidence \in Evidence
    BY DEF ResumeInit, Tree, Evidence
  <1>2. LoopsAreReady
    BY <1>1, ResumeAssumption DEF ResumeInit, LoopsAreReady
  <1>3. LoopsAreSound /\ CandidateIsKnown /\ OutcomeIsKnown
    BY <1>1
    DEF ResumeInit, LoopsAreSound, CandidateIsKnown, OutcomeIsKnown, HuntPcs, ReviewPcs
  <1>4. RoundsArePaidFor
    BY DEF ResumeInit, RoundsArePaidFor
  <1> QED
    BY <1>1, <1>2, <1>3, <1>4 DEF ResumeInit, ResumeInv

\* Rebuilding leads to the hunt, with the candidate or, after rejects, with a part of it.
LEMMA ResumeStep_Rebuild ==
  ResumeInv /\ (PatchApplies \/ PatchRejects \/ CopyFiles \/ NothingToApply) => ResumeInv'
  <1> SUFFICES ASSUME ResumeInv,
                      PatchApplies \/ PatchRejects \/ CopyFiles \/ NothingToApply
               PROVE  ResumeInv'
    OBVIOUS
  <1>1. \E t \in Tree : Rebuild(t) /\ (t = single.tree \/ rejected')
    <2>1. single.tree \in Tree /\ {} \in Tree /\ (~single.saved => single.tree = {})
      BY DEF ResumeInv, Single, Tree
    <2> QED
      BY <2>1 DEF PatchApplies, PatchRejects, CopyFiles, NothingToApply
  <1>2. PICK t \in Tree : Rebuild(t) /\ (t = single.tree \/ rejected')
    BY <1>1
  <1>3. /\ pc = "rebuild" /\ pc' = "huntStart" /\ tree' = t /\ evidence' = {}
        /\ UNCHANGED <<noop, single, hcRound, hunt, rvRound, prev, comments, finalState,
                       outcome, found>>
    BY <1>2 DEF Rebuild, hcVars, rvVars
  <1>4. LoopsAreReady'
    BY <1>3 DEF ResumeInv, LoopsAreReady, HuntPcs
  <1>5. HuntInv'
    <2>1. hcRound' = 1 /\ hunt' \in [1..MaxRounds -> HuntFile]
      BY <1>3, HuntAssumption DEF ResumeInv, LoopsAreReady
    <2>2. noop' \in NoopClass /\ evidence' \in Evidence /\ tree' \in Tree
      BY <1>2, <1>3 DEF ResumeInv, Evidence
    <2>3. HuntTypeOK'
      BY <1>3, <2>1, <2>2, RoundsAssumption DEF HuntTypeOK, HcTypeOK
    <2> QED
      BY <1>3, <2>1, <2>3 DEF HuntInv, HuntRoundInRange, GateIsTheBuild
  <1>6. LoopsAreSound' /\ CandidateIsKnown' /\ OutcomeIsKnown'
    <2>1. outcome' = found'
      BY <1>3 DEF ResumeInv, OutcomeIsKnown
    <2> QED
      BY <1>2, <1>3, <1>5, <2>1
      DEF LoopsAreSound, CandidateIsKnown, OutcomeIsKnown, ReviewPcs
  <1>7. RoundsArePaidFor'
    BY <1>3 DEF ResumeInv, RoundsArePaidFor
  <1>8. /\ pc' \in HuntPcs
        /\ tree' \in Tree /\ evidence' \in Evidence /\ noop' \in NoopClass
        /\ single' \in Single
    BY <1>2, <1>3 DEF ResumeInv, HuntPcs, Evidence
  <1> QED
    BY <1>4, <1>6, <1>7, <1>8 DEF ResumeInv

\* A step of the hunt keeps the candidate in its first round, and what it leaves for
\* the review.
LEMMA ResumeStep_Hunt == ResumeInv /\ ResumeHunt => ResumeInv'
  <1> SUFFICES ASSUME ResumeInv, ResumeHunt PROVE ResumeInv'
    OBVIOUS
  <1>1. HuntNext /\ UNCHANGED <<rvRound, prev, comments, finalState, single, rejected,
                               metaThere, outcome, found>>
    BY DEF ResumeHunt, rvVars, resumeOwnVars
  <1>2. pc \in HuntPcs /\ pc' \in HuntPcs \union {"reviewStart", "hard"}
    BY <1>1
    DEF HuntNext, HuntPcs, BeginHunt, BuildPasses, BuildFails, Hunt, Converge, TakeFindings,
        AddressFindings, HuntCap, FinalBuildPasses, FinalBuildFails
  <1>3. HuntInv
    BY <1>2 DEF ResumeInv, LoopsAreSound
  <1>4. HuntInv'
    BY <1>1, <1>3, HuntStep_Type, HuntStep_Gate DEF HuntInv
  <1>5. tree' \in Tree /\ evidence' \in Evidence /\ noop' \in NoopClass
    BY <1>4 DEF HuntInv, HuntTypeOK
  <1>6. /\ rvRound' = 1 /\ prev' = 999
        /\ comments' \in [1..MaxRounds -> CommentsLeft]
        /\ finalState' \in FinalStates \union {"none"}
    BY <1>1, <1>2 DEF ResumeInv, LoopsAreReady
  <1>7. LoopsAreReady' /\ OutcomeIsKnown'
    <2>1. pc' = "hard" => noop' = "hard"
      BY <1>1
      DEF HuntNext, BeginHunt, BuildPasses, BuildFails, Hunt, Converge, TakeFindings,
          AddressFindings, HuntCap, FinalBuildPasses, FinalBuildFails
    <2>2. outcome' = found'
      BY <1>1, <1>2 DEF ResumeInv, OutcomeIsKnown, HuntPcs
    <2> QED
      BY <1>2, <1>6, <2>1, <2>2 DEF LoopsAreReady, OutcomeIsKnown, HuntPcs
  <1>8. LoopsAreSound'
    <2>1. ASSUME pc' = "reviewStart" PROVE ReviewInv'
      <3>1. "builds" \in evidence'
        BY <1>4, <2>1 DEF HuntInv, GateIsTheBuild
      <3> QED
        BY <1>5, <1>6, <2>1, <3>1, ReviewReady_InvNext DEF ReviewReady
    <2> QED
      BY <1>2, <1>4, <2>1 DEF LoopsAreSound, HuntPcs, ReviewPcs
  <1>9. CandidateIsKnown'
    <2>1. hcRound \in Nat /\ hcRound >= 1 /\ (pc = "huntStart" => hcRound = 1)
      BY <1>3, RoundsAssumption DEF HuntInv, HuntTypeOK, HcTypeOK, HuntRoundInRange
    <2>2. hcRound' = hcRound + 1 \/ (hcRound' = hcRound /\ tree' = tree)
      BY <1>1, <2>1
      DEF HuntNext, BeginHunt, BuildPasses, BuildFails, Hunt, Converge, TakeFindings,
          AddressFindings, HuntCap, FinalBuildPasses, FinalBuildFails, Verify, hcVars
    <2> QED
      BY <1>1, <1>2, <2>1, <2>2 DEF ResumeInv, CandidateIsKnown, HuntPcs
  <1>10. RoundsArePaidFor'
    BY <1>6 DEF RoundsArePaidFor
  <1> QED
    BY <1>1, <1>2, <1>5, <1>7, <1>8, <1>9, <1>10 DEF ResumeInv, ReviewPcs

\* A step of the review keeps what that loop promises, up to the gate.
LEMMA ResumeStep_Review == ResumeInv /\ ResumeReview => ResumeInv'
  <1> SUFFICES ASSUME ResumeInv, ResumeReview PROVE ResumeInv'
    OBVIOUS
  <1>1. ReviewNext /\ UNCHANGED <<hcRound, hunt, single, rejected, metaThere, outcome, found>>
    BY DEF ResumeReview, hcVars, resumeOwnVars
  <1>2. pc \in ReviewPcs /\ pc' \in {"review", "judge", "reverify", "gate"}
    BY <1>1
    DEF ReviewNext, ReviewPcs, BeginReview, Review, Approve, Impasse, AddressComments,
        ReverifyPasses, ReverifyFails, HitCap, Leave
  <1>3. ReviewInv
    BY <1>2 DEF ResumeInv, LoopsAreSound
  <1>4. ReviewInv'
    BY <1>1, <1>3, ReviewStep_Type, ReviewStep_Build, ReviewStep_Counts DEF ReviewInv
  <1>5. tree' \in Tree /\ evidence' \in Evidence /\ noop' \in NoopClass
    BY <1>4 DEF ReviewInv, ReviewTypeOK
  <1>6. RoundsArePaidFor'
    BY <1>4, ReviewReady_InvNext
  <1>7. LoopsAreReady' /\ LoopsAreSound' /\ CandidateIsKnown' /\ OutcomeIsKnown'
    <2>1. outcome' = found'
      BY <1>1, <1>2 DEF ResumeInv, OutcomeIsKnown, ReviewPcs
    <2> QED
      BY <1>2, <1>4, <2>1
      DEF LoopsAreReady, LoopsAreSound, CandidateIsKnown, OutcomeIsKnown, HuntPcs
  <1> QED
    BY <1>1, <1>2, <1>5, <1>6, <1>7 DEF ResumeInv, ReviewPcs

\* The gate and the record only pass on what the review has found.
LEMMA ResumeStep_End ==
  ResumeInv /\ (ResumeGate \/ RecordOutcome \/ LoseOutcome) => ResumeInv'
  <1> SUFFICES ASSUME ResumeInv, ResumeGate \/ RecordOutcome \/ LoseOutcome
               PROVE  ResumeInv'
    OBVIOUS
  <1>1. /\ UNCHANGED <<evidence, noop, rvRound, comments, finalState, single, metaThere,
                       found>>
        /\ \/ pc = "gate" /\ pc' = "record" /\ UNCHANGED outcome
           \/ pc = "record" /\ pc' = "done" /\ (metaThere => outcome' = finalState)
    BY DEF ResumeGate, RecordOutcome, LoseOutcome, hcVars, rvVars, resumeOwnVars
  <1>2. pc = "gate" => LabelTellsBuild
    BY DEF ResumeInv, LoopsAreSound, ReviewInv, BuildIsKnown
  <1>3. OutcomeIsKnown'
    BY <1>1, <1>2 DEF ResumeInv, OutcomeIsKnown, LabelTellsBuild
  <1>4. LoopsAreReady' /\ LoopsAreSound' /\ CandidateIsKnown'
    BY <1>1 DEF LoopsAreReady, LoopsAreSound, CandidateIsKnown, HuntPcs, ReviewPcs
  <1>5. RoundsArePaidFor'
    BY <1>1 DEF ResumeInv, RoundsArePaidFor
  <1>6. tree' \in Tree
    BY DEF ResumeGate, RecordOutcome, LoseOutcome, ResumeInv, LeaveTool, Tree
  <1> QED
    BY <1>1, <1>3, <1>4, <1>5, <1>6 DEF ResumeInv

\* The invariant of a resumption, at every statement of the script.
THEOREM ResumeInvariant == ResumeSpec => []ResumeInv
  <1>1. ResumeInv /\ UNCHANGED resumeVars => ResumeInv'
    <2> SUFFICES ASSUME ResumeInv, UNCHANGED resumeVars PROVE ResumeInv'
      OBVIOUS
    <2> USE DEF resumeVars, workspaceVars, hcVars, rvVars, resumeOwnVars
    <2>1. LoopsAreReady' /\ CandidateIsKnown' /\ OutcomeIsKnown' /\ RoundsArePaidFor'
      BY DEF ResumeInv, LoopsAreReady, CandidateIsKnown, OutcomeIsKnown, RoundsArePaidFor
    <2>2. ASSUME HuntInv PROVE HuntInv'
      BY <2>2, HuntStep_Type, HuntStep_Gate DEF HuntInv, huntVars
    <2>3. ASSUME ReviewInv PROVE ReviewInv'
      BY <2>3, ReviewStep_Type, ReviewStep_Build, ReviewStep_Counts DEF ReviewInv, reviewVars
    <2>4. LoopsAreSound'
      BY <2>2, <2>3 DEF ResumeInv, LoopsAreSound
    <2> QED
      BY <2>1, <2>4 DEF ResumeInv
  <1>2. ResumeInv /\ [ResumeNext]_resumeVars => ResumeInv'
    BY <1>1, ResumeStep_Rebuild, ResumeStep_Hunt, ResumeStep_Review, ResumeStep_End
    DEF ResumeNext
  <1> QED
    BY ResumeInit_Inv, <1>2, PTL DEF ResumeSpec

\* What is hunted first is the candidate of the single-round trial, or a part of it that
\* the script knows to be one; and the reviewer reads that same candidate if the hunt
\* found nothing in it.
THEOREM CandidateIsResumed == ResumeSpec => []ResumesTheCandidate
  <1>1. ResumeInv => ResumesTheCandidate
    BY DEF ResumeInv, CandidateIsKnown, ResumesTheCandidate, HuntPcs
  <1> QED
    BY <1>1, ResumeInvariant, PTL

\* A resumption that records leaves a meta.json that tells whether its candidate passed
\* its last build and test run, whatever an earlier run had written in it; one that is
\* a hard no-op leaves meta.json as it was, and its class in no-op-class.txt.
THEOREM OutcomeIsHonest == ResumeSpec => []OutcomeTellsBuild
  <1>1. ResumeInv => OutcomeTellsBuild
    BY DEF ResumeInv, OutcomeIsKnown, OutcomeTellsBuild
  <1> QED
    BY <1>1, ResumeInvariant, PTL

\* The loops keep inside the resumption what they promise on their own: the gate between
\* them, the label, and the bound on the rounds.
THEOREM LoopsKeepTheirWord ==
  ResumeSpec => [](GateIsTheBuild /\ LabelTellsBuild /\ RoundsArePaidFor)
  <1>1. ASSUME ResumeInv PROVE GateIsTheBuild /\ LabelTellsBuild /\ RoundsArePaidFor
    <2>1. pc \in {"reviewStart", "hard"} => HuntInv
      BY <1>1 DEF ResumeInv, LoopsAreSound
    <2>2. pc = "gate" => ReviewInv
      BY <1>1 DEF ResumeInv, LoopsAreSound
    <2>3. GateIsTheBuild
      BY <2>1 DEF HuntInv, GateIsTheBuild
    <2>4. LabelTellsBuild
      BY <2>2 DEF ReviewInv, BuildIsKnown, LabelTellsBuild
    <2> QED
      BY <1>1, <2>3, <2>4 DEF ResumeInv
  <1> QED
    BY <1>1, ResumeInvariant, PTL

\* Resumed without a report of an earlier run that would end it, the hunt converges only
\* on a candidate it has seen as it is.
THEOREM ConvergenceIsEarnedAgain ==
  ASSUME HuntLeft \cap {"nothing", "failure"} = {}
  PROVE  ResumeSpec => []ConvergedWasHunted
  <1> DEFINE Inv == pc \in HuntPcs \union {"reviewStart", "hard"}
                      => NothingHuntedAhead /\ ReportIsOfThisTree
  <1>1. ResumeInit => Inv
    BY DEF ResumeInit, HuntPcs
  <1>2. ResumeInv /\ Inv /\ [ResumeNext]_resumeVars => Inv'
    <2> SUFFICES ASSUME ResumeInv, Inv, [ResumeNext]_resumeVars PROVE Inv'
      OBVIOUS
    <2>1. CASE PatchApplies \/ PatchRejects \/ CopyFiles \/ NothingToApply
      <3>1. pc = "rebuild" /\ pc' = "huntStart" /\ UNCHANGED <<hcRound, hunt>>
        BY <2>1
        DEF PatchApplies, PatchRejects, CopyFiles, NothingToApply, Rebuild, hcVars
      <3> QED
        BY <3>1
        DEF ResumeInv, LoopsAreReady, NothingHuntedAhead, ReportIsOfThisTree,
            ConvergedWasHunted
    <2>2. CASE ResumeHunt
      <3>1. HuntNext /\ pc \in HuntPcs
        BY <2>2
        DEF ResumeHunt, HuntNext, HuntPcs, BeginHunt, BuildPasses, BuildFails, Hunt, Converge,
            TakeFindings, AddressFindings, HuntCap, FinalBuildPasses, FinalBuildFails
      <3> QED
        BY <3>1, HuntStep_Report DEF ResumeInv, LoopsAreSound
    <2>3. CASE ResumeReview \/ ResumeGate \/ RecordOutcome \/ LoseOutcome
      <3>1. ResumeReview => pc' \in {"review", "judge", "reverify", "gate"}
        BY DEF ResumeReview, ReviewNext, BeginReview, Review, Approve, Impasse,
               AddressComments, ReverifyPasses, ReverifyFails, HitCap, Leave
      <3>2. ResumeGate \/ RecordOutcome \/ LoseOutcome => pc' \in {"record", "done"}
        BY DEF ResumeGate, RecordOutcome, LoseOutcome
      <3> QED
        BY <2>3, <3>1, <3>2 DEF HuntPcs
    <2>4. CASE UNCHANGED resumeVars
      BY <2>4
      DEF resumeVars, workspaceVars, hcVars, NothingHuntedAhead, ReportIsOfThisTree,
          ConvergedWasHunted, CurHunt
    <2> QED
      BY <2>1, <2>2, <2>3, <2>4 DEF ResumeNext
  <1>3. Inv => ConvergedWasHunted
    BY DEF ReportIsOfThisTree, ConvergedWasHunted, HuntPcs
  <1> QED
    BY <1>1, <1>2, <1>3, ResumeInvariant, PTL DEF ResumeSpec

\* Resumed without an approval of an earlier run in the directory, the review approves
\* only the tree that leaves.
THEOREM ApprovalIsEarnedAgain ==
  ASSUME 0 \notin CommentsLeft
  PROVE  ResumeSpec => []ApprovalIsOfThisTree
  <1> DEFINE Inv == pc \in ReviewPcs \union {"gate"} => NothingAhead /\ ApprovalIsKnown
  <1>1. ResumeInit => Inv
    BY DEF ResumeInit, ReviewPcs
  <1>2. ResumeInv /\ Inv /\ [ResumeNext]_resumeVars => Inv'
    <2> SUFFICES ASSUME ResumeInv, Inv, [ResumeNext]_resumeVars PROVE Inv'
      OBVIOUS
    <2>1. CASE ResumeHunt
      <3>1. /\ pc \in HuntPcs /\ pc' \in HuntPcs \union {"reviewStart", "hard"}
            /\ UNCHANGED <<rvRound, comments>>
        BY <2>1
        DEF ResumeHunt, rvVars, HuntNext, HuntPcs, BeginHunt, BuildPasses, BuildFails, Hunt,
            Converge, TakeFindings, AddressFindings, HuntCap, FinalBuildPasses,
            FinalBuildFails
      <3>2. comments' \in [1..MaxRounds -> CommentsLeft]
        BY <3>1 DEF ResumeInv, LoopsAreReady
      <3>3. NothingAhead'
        BY <3>2 DEF NothingAhead
      <3>4. pc' \notin {"judge", "gate"}
        BY <3>1 DEF HuntPcs
      <3>5. ApprovalIsKnown'
        BY <3>4 DEF ApprovalIsKnown, ApprovalIsOfThisTree
      <3> QED
        BY <3>3, <3>5
    <2>2. CASE ResumeReview
      <3>1. ReviewNext /\ pc \in ReviewPcs
        BY <2>2
        DEF ResumeReview, ReviewNext, ReviewPcs, BeginReview, Review, Approve, Impasse,
            AddressComments, ReverifyPasses, ReverifyFails, HitCap
      <3> QED
        BY <3>1, ReviewStep_Approval DEF ResumeInv, LoopsAreSound
    <2>3. CASE \/ PatchApplies \/ PatchRejects \/ CopyFiles \/ NothingToApply
               \/ ResumeGate \/ RecordOutcome \/ LoseOutcome
      <3>1. pc' \in {"huntStart", "record", "done"}
        BY <2>3
        DEF PatchApplies, PatchRejects, CopyFiles, NothingToApply, Rebuild, ResumeGate,
            RecordOutcome, LoseOutcome
      <3> QED
        BY <3>1 DEF ReviewPcs
    <2>4. CASE UNCHANGED resumeVars
      BY <2>4
      DEF resumeVars, workspaceVars, rvVars, NothingAhead, ApprovalIsKnown,
          ApprovalIsOfThisTree, NoComments, CurComments
    <2> QED
      BY <2>1, <2>2, <2>3, <2>4 DEF ResumeNext
  <1>3. Inv => ApprovalIsOfThisTree
    BY DEF ApprovalIsKnown, ApprovalIsOfThisTree
  <1> QED
    BY <1>1, <1>2, <1>3, ResumeInvariant, PTL DEF ResumeSpec
=============================================================================
