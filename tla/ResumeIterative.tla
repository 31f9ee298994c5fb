--------------------------- MODULE ResumeIterative ---------------------------
(***************************************************************************)
(* resume_iterative.sh: rebuild the candidate of a single-round trial from *)
(* its saved diff, and run the loops of HuntCode and ReviewLoop on it, in  *)
(* a trial directory that may hold the files of an earlier pipeline run.   *)
(***************************************************************************)
EXTENDS HuntCode, ReviewLoop

CONSTANT Outcomes   \* what meta.json may say of an earlier resumption

VARIABLES
  single,     \* c_llm of the single-round trial: what was saved, and its tree
  rejected,   \* history: patch rejected some hunks of the diff
  metaThere,  \* meta.json exists
  outcome,    \* iterative_reviewer_state in meta.json, "none" without one
  found,      \* history: what it was when the resumption began
  gate        \* the verdict in gates/complexity-gate.json

resumeOwnVars == <<single, rejected, metaThere, outcome, found, gate>>
resumeVars == <<workspaceVars, hcVars, rvVars, resumeOwnVars>>

(***************************************************************************)
(* A trial that shipped has c_llm/files and c_llm/diff.patch, which is     *)
(* empty if nothing was modified; one that never shipped has neither.  A   *)
(* run that was a hard no-op puts a placeholder beside what is there.      *)
(***************************************************************************)
Single == {s \in [saved : BOOLEAN, tree : Tree] : ~s.saved => s.tree = {}}

ASSUME ResumeAssumption == Outcomes \subseteq FinalStates \union {"none"}

ResumeInit ==
  /\ pc = "rebuild"
  /\ tree = {} /\ evidence = {}
  /\ noop \in NoopClass
  /\ hcRound = 1 /\ hunt \in [1..MaxRounds -> HuntLeft]
  /\ rvRound = 1 /\ prev = 999 /\ comments \in [1..MaxRounds -> CommentsLeft]
  /\ finalState \in Outcomes
  /\ single \in Single
  /\ rejected = FALSE
  /\ metaThere \in BOOLEAN
  /\ outcome \in IF metaThere THEN Outcomes ELSE {"none"}
  /\ found = outcome
  /\ gate = "none"

Rebuild(t) ==
  /\ pc = "rebuild"
  /\ tree' = t
  /\ evidence' = {}
  /\ pc' = "huntStart"
  /\ UNCHANGED <<noop, hcVars, rvVars, single, metaThere, outcome, found, gate>>

\* Mutant of PatchApplies: a fuzzy patch that drops hunks without a word.
PatchAppliesSome ==
  /\ single.tree # {}
  /\ \E t \in Tree : t \ {"worse"} \subseteq single.tree /\ Rebuild(t)
  /\ UNCHANGED rejected

\* patch -p0 --forward applies every hunk of a diff that is not empty.
PatchApplies == single.tree # {} /\ Rebuild(single.tree) /\ UNCHANGED rejected

\* "patch had rejects (may be ok)": any part of the diff is missing.
PatchRejects ==
  /\ single.tree # {}
  /\ \E t \in Tree : t \ {"worse"} \subseteq single.tree /\ Rebuild(t)
  /\ rejected' = TRUE

\* An empty diff: the allowed files are copied, which are those of C_test.
CopyFiles == single.tree = {} /\ single.saved /\ Rebuild({}) /\ UNCHANGED rejected

\* "no diff or files to apply": C_test itself is hunted and reviewed.
NothingToApply == ~single.saved /\ Rebuild({}) /\ UNCHANGED rejected

ResumeHunt == HuntNext /\ UNCHANGED <<rvVars, resumeOwnVars>>
ResumeReview == ReviewNext /\ UNCHANGED <<hcVars, resumeOwnVars>>

\* The verdict is logged, and a breakdown is logged as FAIL.
ResumeGate ==
  /\ pc = "gate"
  /\ IF "in" \in Traits
       THEN \/ gate' = Verdict /\ UNCHANGED tree
            \/ LeaveTool /\ UNCHANGED gate
       ELSE UNCHANGED <<tree, gate>>
  /\ pc' = "record"
  /\ UNCHANGED <<noop, evidence, hcVars, rvVars, single, rejected, metaThere, outcome, found>>

\* Mutant of RecordOutcome: the outcome is only filled in.
RecordFirstOutcome ==
  /\ pc = "record"
  /\ metaThere
  /\ outcome' = IF outcome = "none" THEN finalState ELSE outcome
  /\ pc' = "done"
  /\ UNCHANGED <<noop, tree, evidence, hcVars, rvVars, single, rejected, metaThere,
                 found, gate>>

\* jq reads meta.json and writes meta.json.tmp, which takes its place.
RecordOutcome ==
  /\ pc = "record"
  /\ metaThere
  /\ outcome' = finalState
  /\ pc' = "done"
  /\ UNCHANGED <<noop, tree, evidence, hcVars, rvVars, single, rejected, metaThere,
                 found, gate>>

\* jq finds no meta.json; the failure is waved through.
LoseOutcome ==
  /\ pc = "record"
  /\ ~metaThere
  /\ pc' = "done"
  /\ UNCHANGED <<noop, tree, evidence, hcVars, rvVars, resumeOwnVars>>

ResumeNext == \/ PatchApplies \/ PatchRejects \/ CopyFiles \/ NothingToApply
              \/ ResumeHunt \/ ResumeReview \/ ResumeGate \/ RecordOutcome \/ LoseOutcome

\* The script is one sequential process and each agent call returns.
ResumeSpec == ResumeInit /\ [][ResumeNext]_resumeVars /\ WF_resumeVars(ResumeNext)
-----------------------------------------------------------------------------
HuntPcs == {"huntStart", "build", "hunt", "weigh", "address", "finalBuild"}
ReviewPcs == {"reviewStart", "review", "judge", "reverify"}

\* What is hunted first is the candidate of the single-round trial, unless
\* hunks were rejected; so is what the reviewer reads first, if the hunt found
\* nothing in its first round.
ResumesTheCandidate ==
  pc \in {"huntStart", "finalBuild", "reviewStart"} /\ hcRound = 1 /\ ~rejected
    => tree = single.tree

\* A resumption that gets to its record leaves a meta.json, if there is one, that
\* tells whether its candidate passed its last build and test run, whatever labels
\* an earlier one left.  A hard no-op exits before the record: meta.json then still
\* says what it said before, of another candidate, and no-op-class.txt tells.
OutcomeTellsBuild ==
  /\ pc = "done" /\ metaThere =>
       /\ outcome = finalState
       /\ outcome = "impasse_build_broken" <=> "builds" \notin evidence
  /\ pc = "hard" => noop = "hard" /\ outcome = found

\* Whatever was rebuilt, and whatever the agents of both loops do or fail to
\* write, the script comes to its end: with a candidate the reviewer's loop has
\* labelled, or with a hard no-op.
ResumeEnds == <>(pc = "hard" \/ (pc = "done" /\ finalState \in FinalStates))
=============================================================================
