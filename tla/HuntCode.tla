------------------------------ MODULE HuntCode -------------------------------
(***************************************************************************)
(* Phase 4f: build and test the candidate; while that fails, or while the  *)
(* adversarial hunt lists findings, an implementer edits the candidate and *)
(* the round is repeated.  A last build and test run decides whether the   *)
(* trial goes on or ends as a hard no-op.                                  *)
(***************************************************************************)
EXTENDS Workspace

CONSTANTS
  HunterMayFail,  \* TRUE: the hunter may return without writing its report
  HuntLeft        \* what hunt-code-round-N.md may hold before the run

(***************************************************************************)
(* hunt-code-round-N.md: "absent"; "nothing" (it says "No findings", or    *)
(* has no "## Finding" heading); "findings"; or "failure", the build and   *)
(* test failure the script itself writes there for the implementer, which  *)
(* has no such heading either.                                             *)
(***************************************************************************)
HuntFile == {"absent", "nothing", "findings", "failure"}

ASSUME HuntAssumption ==
  /\ HunterMayFail \in BOOLEAN
  /\ HuntLeft \subseteq HuntFile

VARIABLES
  hcRound,  \* HC_ROUND
  hunt      \* the files gates/hunt-code-round-N.md

hcVars == <<hcRound, hunt>>
huntVars == <<workspaceVars, hcVars>>

CurHunt == hunt[hcRound]

HuntInit ==
  /\ pc = "huntStart"
  /\ tree \in Tree
  /\ evidence = {}
  /\ hcRound = 1
  /\ hunt \in [1..MaxRounds -> HuntLeft]
  /\ noop \in {"empty", "trivial"}

BeginHunt ==
  /\ pc = "huntStart"
  /\ hcRound' = 1
  /\ pc' = "build"
  /\ UNCHANGED <<tree, evidence, hunt, noop>>

BuildPasses ==
  /\ pc = "build"
  /\ hcRound <= MaxRounds
  /\ Verify(TRUE)
  /\ pc' = "hunt"
  /\ UNCHANGED <<hcVars, noop>>

BuildFails ==
  /\ pc = "build"
  /\ hcRound <= MaxRounds
  /\ Verify(FALSE)
  /\ hunt' = [hunt EXCEPT ![hcRound] = "failure"]
  /\ pc' = "address"
  /\ UNCHANGED <<hcRound, noop>>

\* The hunter's turn.  One that fails leaves the file as it was.
Hunt ==
  /\ pc = "hunt"
  /\ \/ /\ hunt' = [hunt EXCEPT ![hcRound] = "nothing"]
        /\ evidence' = evidence \union {"hunted"}
     \/ /\ hunt' = [hunt EXCEPT ![hcRound] = "findings"]
        /\ evidence' = evidence \ {"hunted"}
     \/ /\ HunterMayFail
        /\ UNCHANGED <<hunt, evidence>>
  /\ pc' = "weigh"
  /\ UNCHANGED <<tree, hcRound, noop>>

\* Mutant of Converge: a count that is empty is read as 0.
ConvergeOnNoFile ==
  /\ pc = "weigh"
  /\ CurHunt \in {"nothing", "failure", "absent"}
  /\ pc' = "finalBuild"
  /\ UNCHANGED <<tree, evidence, hcVars, noop>>

\* The file exists and grep counts no "## Finding" in it.
Converge ==
  /\ pc = "weigh"
  /\ CurHunt \in {"nothing", "failure"}
  /\ pc' = "finalBuild"
  /\ UNCHANGED <<tree, evidence, hcVars, noop>>

\* Findings, or no file: the count is then empty and [ "" -eq 0 ] is false.
TakeFindings ==
  /\ pc = "weigh"
  /\ CurHunt \in {"findings", "absent"}
  /\ pc' = "address"
  /\ UNCHANGED <<tree, evidence, hcVars, noop>>

\* Mutant of AddressFindings: the round is not counted.
AddressUncounted ==
  /\ pc = "address"
  /\ Edit
  /\ pc' = "build"
  /\ UNCHANGED <<hcVars, noop>>

AddressFindings ==
  /\ pc = "address"
  /\ Edit
  /\ hcRound' = hcRound + 1
  /\ pc' = "build"
  /\ UNCHANGED <<hunt, noop>>

\* The cap is only logged.
HuntCap ==
  /\ pc = "build"
  /\ hcRound > MaxRounds
  /\ pc' = "finalBuild"
  /\ UNCHANGED <<tree, evidence, hcVars, noop>>

\* Mutant of FinalBuildPasses: the last verification is trusted instead.
FinalBuildSkipped ==
  /\ pc = "finalBuild"
  /\ pc' = "reviewStart"
  /\ UNCHANGED <<tree, evidence, hcVars, noop>>

FinalBuildPasses ==
  /\ pc = "finalBuild"
  /\ Verify(TRUE)
  /\ pc' = "reviewStart"
  /\ UNCHANGED <<hcVars, noop>>

\* "pipeline aborted at 4f"; the script exits 0.
FinalBuildFails ==
  /\ pc = "finalBuild"
  /\ Verify(FALSE)
  /\ noop' = "hard"
  /\ pc' = "hard"
  /\ UNCHANGED hcVars

HuntNext == \/ BeginHunt \/ BuildPasses \/ BuildFails \/ Hunt \/ Converge
            \/ TakeFindings \/ AddressFindings \/ HuntCap
            \/ FinalBuildPasses \/ FinalBuildFails

\* The script is one sequential process and each agent call returns.
HuntSpec == HuntInit /\ [][HuntNext]_huntVars /\ WF_huntVars(HuntNext)
-----------------------------------------------------------------------------
HcTypeOK ==
  /\ hcRound \in 1..MaxRounds + 1
  /\ hunt \in [1..MaxRounds -> HuntFile]

\* Type invariant of the loop run on its own.
HuntTypeOK ==
  /\ pc \in {"huntStart", "build", "hunt", "weigh", "address", "finalBuild",
             "reviewStart", "hard"}
  /\ tree \in Tree
  /\ evidence \in Evidence
  /\ noop \in NoopClass
  /\ HcTypeOK

\* A candidate that leaves the loop below the cap was hunted as it is: the
\* hunter's last report is about this very tree, after its last edit, and
\* lists nothing.  A hunter that wrote no report never ends the loop.
ConvergedWasHunted ==
  pc \in {"finalBuild", "reviewStart"} /\ hcRound <= MaxRounds => "hunted" \in evidence

\* The reviewer only sees a candidate whose last build and test run passed
\* after its last edit, and the loop ends in a hard no-op, and records one,
\* only if that run failed.
GateIsTheBuild ==
  /\ pc = "reviewStart" => "builds" \in evidence
  /\ pc = "hard" => noop = "hard" /\ "builds" \notin evidence

=============================================================================
