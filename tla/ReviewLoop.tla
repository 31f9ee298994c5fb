----------------------------- MODULE ReviewLoop ------------------------------
(***************************************************************************)
(* Phase 4g: the reviewer reads the candidate's diff and writes            *)
(* round-N-comments.md; while it lists fewer comments than the round       *)
(* before, the implementer addresses them and build and tests run again.   *)
(***************************************************************************)
EXTENDS Workspace

CONSTANTS
  MaxComments,      \* bound: the most comments one report lists
  ReviewerMayFail,  \* TRUE: the reviewer may return without writing its report
  CommentsLeft      \* what round-N-comments.md may hold before the run

(***************************************************************************)
(* A comments file is the number of its "## Comment" headings; 0 also      *)
(* stands for a report that says "No comments".  For a file that does not  *)
(* exist grep -c prints nothing, and the shell variable is empty.          *)
(***************************************************************************)
Blank == -1
CommentsFile == {Blank} \union 0..MaxComments

ASSUME ReviewAssumption ==
  /\ MaxComments \in 0..998
  /\ ReviewerMayFail \in BOOLEAN
  /\ CommentsLeft \subseteq CommentsFile

VARIABLES
  rvRound,     \* RV_ROUND
  prev,        \* PREV_COMMENTS
  comments,    \* the files reviewer-loop/round-N-comments.md
  finalState   \* the file reviewer-loop/final-state.txt

rvVars == <<rvRound, prev, comments, finalState>>
reviewVars == <<workspaceVars, rvVars>>

FinalStates == {"converged_approved", "impasse", "impasse_build_broken", "cap_hit"}

\* [ a -ge b ]: an empty operand makes test fail with an error, which the if
\* takes for false.
\* Mutant: -gt for -ge.
ShGt(a, b) == a # Blank /\ b # Blank /\ a > b
ShGe(a, b) == a # Blank /\ b # Blank /\ a >= b

CurComments == comments[rvRound]

\* Mutant of NoComments: an empty count is read as 0.
NoCommentsOrNoFile == CurComments \in {0, Blank}
NoComments == CurComments = 0

Leave(state) == finalState' = state /\ pc' = "gate"

ReviewInit ==
  /\ pc = "reviewStart"
  /\ tree \in Tree
  /\ evidence \in {e \in Evidence : "builds" \in e}
  /\ noop \in {"empty", "trivial"}
  /\ rvRound = 1
  /\ prev = 999
  /\ comments \in [1..MaxRounds -> CommentsLeft]
  /\ finalState = "none"

BeginReview ==
  /\ pc = "reviewStart"
  /\ rvRound' = 1
  /\ prev' = 999
  /\ pc' = "review"
  /\ UNCHANGED <<noop, tree, evidence, comments, finalState>>

\* The reviewer's turn.  One that fails leaves the file as it was.
Review ==
  /\ pc = "review"
  /\ rvRound <= MaxRounds
  /\ \/ \E n \in 0..MaxComments :
          /\ comments' = [comments EXCEPT ![rvRound] = n]
          /\ evidence' = IF n = 0 THEN evidence \union {"approved"}
                                  ELSE evidence \ {"approved"}
     \/ /\ ReviewerMayFail
        /\ UNCHANGED <<comments, evidence>>
  /\ pc' = "judge"
  /\ UNCHANGED <<noop, tree, rvRound, prev, finalState>>

\* "No comments", or a report without a structured comment.
Approve ==
  /\ pc = "judge"
  /\ NoComments
  /\ Leave("converged_approved")
  /\ UNCHANGED <<noop, tree, evidence, rvRound, prev, comments>>

Impasse ==
  /\ pc = "judge"
  /\ ~NoComments
  /\ ShGe(CurComments, prev)
  /\ Leave("impasse")
  /\ UNCHANGED <<noop, tree, evidence, rvRound, prev, comments>>

AddressComments ==
  /\ pc = "judge"
  /\ ~NoComments
  /\ ~ShGe(CurComments, prev)
  /\ Edit
  /\ pc' = "reverify"
  /\ UNCHANGED <<noop, rvVars>>

ReverifyPasses ==
  /\ pc = "reverify"
  /\ Verify(TRUE)
  /\ prev' = CurComments
  /\ rvRound' = rvRound + 1
  /\ pc' = "review"
  /\ UNCHANGED <<noop, comments, finalState>>

\* Mutant of ReverifyFails: the break is forgotten.
ReverifyFailsGoesOn ==
  /\ pc = "reverify"
  /\ Verify(FALSE)
  /\ prev' = CurComments
  /\ rvRound' = rvRound + 1
  /\ pc' = "review"
  /\ UNCHANGED <<noop, comments, finalState>>

\* "reverting is too complex, accepting with comments"
ReverifyFails ==
  /\ pc = "reverify"
  /\ Verify(FALSE)
  /\ Leave("impasse_build_broken")
  /\ UNCHANGED <<noop, rvRound, prev, comments>>

\* Mutant of HitCap: the cap is logged and no label is written.
HitCapUnlabelled ==
  /\ pc = "review"
  /\ rvRound > MaxRounds
  /\ pc' = "gate"
  /\ UNCHANGED <<noop, tree, evidence, rvVars>>

HitCap ==
  /\ pc = "review"
  /\ rvRound > MaxRounds
  /\ Leave("cap_hit")
  /\ UNCHANGED <<noop, tree, evidence, rvRound, prev, comments>>

ReviewNext == \/ BeginReview \/ Review \/ Approve \/ Impasse \/ AddressComments
              \/ ReverifyPasses \/ ReverifyFails \/ HitCap

\* The script is one sequential process and each agent call returns.
ReviewSpec == ReviewInit /\ [][ReviewNext]_reviewVars /\ WF_reviewVars(ReviewNext)
-----------------------------------------------------------------------------
RvTypeOK ==
  /\ rvRound \in 1..MaxRounds + 1
  /\ prev \in CommentsFile \union {999}
  /\ comments \in [1..MaxRounds -> CommentsFile]
  /\ finalState \in FinalStates \union {"none"}

\* Type invariant of the loop run on its own.
ReviewTypeOK ==
  /\ pc \in {"reviewStart", "review", "judge", "reverify", "gate"}
  /\ tree \in Tree
  /\ evidence \in Evidence
  /\ noop \in NoopClass
  /\ RvTypeOK

\* A candidate leaves the loop as approved only if the reviewer really looked
\* at the tree that leaves, and had nothing to say: a missing report is never
\* an approval, and nothing edits the tree between the approval and the exit.
ApprovalIsOfThisTree ==
  pc = "gate" /\ finalState = "converged_approved" => "approved" \in evidence

\* Whoever reads final-state.txt can tell a candidate whose last build and
\* test run failed from one whose last run passed, on every way out.
LabelTellsBuild ==
  pc = "gate" => (finalState = "impasse_build_broken" <=> "builds" \notin evidence)

\* Comments pay for rounds: while every round got its report, each addressed
\* round had at least one comment more than the next, so that a round number
\* is at most one above the first report's comments (and a loop that runs
\* into its cap began with at least MAX_ROUNDS comments).
RoundsArePaidFor ==
  (\A i \in 1..rvRound - 1 : comments[i] # Blank)
    => \A i \in 1..rvRound - 1 : comments[i] >= rvRound - i

=============================================================================
