------------------------------ MODULE Phase7b -------------------------------
(***************************************************************************)
(* run_phase7b.sh and run_phase7b_codex.sh: two batch scripts that ask two *)
(* reviewers which of C_llm and C_final they would merge.  Both keep a     *)
(* trial's answer in phase7b/review.json and skip what is answered; only   *)
(* the second tallies.  Each may fail, be killed and be started again.     *)
(***************************************************************************)
EXTENDS Integers, FiniteSets

CONSTANTS
  N,         \* the eligible trials are 1..N, in the order of their names
  ForgeIsA,  \* the trials whose PR number makes C_llm version A
  MaxRuns    \* bound: how often a batch is started

Trials == 1..N

ASSUME BatchAssumption ==
  /\ N \in Nat /\ MaxRuns \in Nat
  /\ ForgeIsA \subseteq Trials

(***************************************************************************)
(* review.json: "absent"; "empty"; "A" or "B"; "null", JSON without one of *)
(* these choices, which includes the {} the codex script writes; or        *)
(* "garbled", which jq cannot parse.                                       *)
(***************************************************************************)
Review == {"absent", "empty", "A", "B", "null", "garbled"}
Version == {"c_llm", "c_final"}

VARIABLES
  pc,       \* "idle", "gemini" or "codex" (which script runs), or "printed"
  at,       \* the trial whose turn it is
  review,   \* the files phase7b/review.json
  llm,      \* PICKED_CLLM
  final,    \* PICKED_CFINAL
  total,    \* TOTAL
  votes,    \* history: what this run of the codex script counted for a trial
  before,   \* history: the last tally printed, if nobody was asked since
  runs      \* history: how often a batch was started

tallyVars == <<llm, final, total, votes>>
batchVars == <<pc, at, review, tallyVars, before, runs>>

LabelA(t) == IF t \in ForgeIsA THEN "c_llm" ELSE "c_final"
LabelB(t) == IF t \in ForgeIsA THEN "c_final" ELSE "c_llm"

\* Mutant of Picked: everything but B is A.
PickedUnlessB(t, choice) == IF choice = "B" THEN LabelB(t) ELSE LabelA(t)
\* [ "$CHOICE" = "A" ]: everything but A is B.
Picked(t, choice) == IF choice = "A" THEN LabelA(t) ELSE LabelB(t)

NoTally == [llm |-> -1, final |-> -1]
NoVotes == [t \in Trials |-> "none"]

BatchInit ==
  /\ pc = "idle"
  /\ at = 1
  /\ review = [t \in Trials |-> "absent"]
  /\ llm = 0 /\ final = 0 /\ total = 0 /\ votes = NoVotes
  /\ before = NoTally
  /\ runs = 0

Start(script) ==
  /\ pc = "idle" /\ runs < MaxRuns
  /\ pc' = script
  /\ at' = 1
  /\ runs' = runs + 1

StartGemini == Start("gemini") /\ UNCHANGED <<review, tallyVars, before>>

StartCodex ==
  /\ Start("codex")
  /\ llm' = 0 /\ final' = 0 /\ total' = 0 /\ votes' = NoVotes
  /\ UNCHANGED <<review, before>>

Turn(script) == pc = script /\ at <= N
GoOn == at' = at + 1 /\ UNCHANGED <<pc, runs>>
\* errexit, or a kill: no tally is printed.
Die == pc' = "idle" /\ UNCHANGED <<at, runs>>
Store(r) == review' = [review EXCEPT ![at] = r] /\ before' = NoTally

\* "already done, skip": any file is enough, an empty one too.
GeminiSkips ==
  /\ Turn("gemini")
  /\ review[at] # "absent"
  /\ GoOn
  /\ UNCHANGED <<review, tallyVars, before>>

\* The last {...} of the answer; a choice jq cannot read ends the batch.
GeminiAnswers ==
  /\ Turn("gemini")
  /\ review[at] = "absent"
  /\ \/ \E r \in {"A", "B", "null"} : Store(r) /\ GoOn
     \/ Store("garbled") /\ Die
  /\ UNCHANGED tallyVars

\* The shell has created review.json when grep finds no {...} and fails.
GeminiNoJson ==
  /\ Turn("gemini")
  /\ review[at] = "absent"
  /\ Store("empty")
  /\ Die
  /\ UNCHANGED tallyVars

GeminiEnds == pc = "gemini" /\ at > N /\ Die /\ UNCHANGED <<review, tallyVars, before>>

\* Mutant of Unanswered: nothing is skipped.
AnyTrial(t) == TRUE
\* [ -f review.json ] && [ -s review.json ] fails.
Unanswered(t) == review[t] \in {"absent", "empty"}

Count(choice) ==
  LET v == Picked(at, choice) IN
  /\ llm' = IF v = "c_llm" THEN llm + 1 ELSE llm
  /\ final' = IF v = "c_final" THEN final + 1 ELSE final
  /\ total' = total + 1
  /\ votes' = [votes EXCEPT ![at] = v]

\* Mutant of CodexTallies: an existing result is skipped as by the other script.
CodexSkips ==
  /\ Turn("codex")
  /\ review[at] \in {"A", "B", "null"}
  /\ GoOn
  /\ UNCHANGED <<review, tallyVars, before>>

\* An existing result; jq prints "null" for a choice that is not there.
CodexTallies ==
  /\ Turn("codex")
  /\ review[at] \in {"A", "B", "null"}
  /\ Count(review[at])
  /\ GoOn
  /\ UNCHANGED <<review, before>>

\* jq fails, CHOICE is empty, and the trial is not counted.
CodexPassesOver ==
  /\ Turn("codex")
  /\ review[at] = "garbled"
  /\ GoOn
  /\ UNCHANGED <<review, tallyVars, before>>

\* The last {... "forced_choice" ...} of the output, which may be the template
\* of the prompt itself; it is counted, whatever jq makes of it.
CodexAnswers ==
  /\ Turn("codex")
  /\ Unanswered(at)
  /\ \E r \in {"A", "B", "null", "garbled"} : Store(r) /\ Count(r)
  /\ GoOn

\* "no JSON extracted": {} is stored and nothing is counted.
CodexNoJson ==
  /\ Turn("codex")
  /\ Unanswered(at)
  /\ Store("null")
  /\ GoOn
  /\ UNCHANGED tallyVars

Report ==
  /\ pc = "codex" /\ at > N
  /\ pc' = "printed"
  /\ UNCHANGED <<at, review, tallyVars, before, runs>>

CodexEnds ==
  /\ pc = "printed"
  /\ before' = [llm |-> llm, final |-> final]
  /\ Die
  /\ UNCHANGED <<review, tallyVars>>

\* The reviewer's command fails, or the batch is killed.
BatchDies == pc \in {"gemini", "codex"} /\ Die /\ UNCHANGED <<review, tallyVars, before>>

BatchNext == \/ StartGemini \/ GeminiSkips \/ GeminiAnswers \/ GeminiNoJson \/ GeminiEnds
             \/ StartCodex \/ CodexTallies \/ CodexPassesOver \/ CodexAnswers \/ CodexNoJson
             \/ Report \/ CodexEnds \/ BatchDies

BatchSpec == BatchInit /\ [][BatchNext]_batchVars
-----------------------------------------------------------------------------
\* Type invariant.
BatchTypeOK ==
  /\ pc \in {"idle", "gemini", "codex", "printed"}
  /\ at \in 1..N + 1
  /\ review \in [Trials -> Review]
  /\ llm \in 0..N /\ final \in 0..N /\ total \in 0..N
  /\ votes \in [Trials -> Version \union {"none"}]
  /\ runs \in 0..MaxRuns

Answered(t) == review[t] \in {"A", "B"}

\* An answer is never asked for again nor overwritten, by either script, in
\* any order of their runs, failures and restarts.
AnswersAreFinal == [][\A t \in Trials : Answered(t) => review'[t] = review[t]]_batchVars

VotesFor(v) == {t \in Trials : votes[t] = v}

\* A printed tally counts every answer there is, each once and for the version
\* it names; what else it counts, it counts for version B; and its counters are
\* those of one vote for each trial at the most.
AnswersAreCounted ==
  pc = "printed" =>
    /\ \A t \in Trials : /\ Answered(t) => votes[t] = Picked(t, review[t])
                         /\ ~Answered(t) => votes[t] \in {"none", LabelB(t)}
    /\ llm = Cardinality(VotesFor("c_llm"))
    /\ final = Cardinality(VotesFor("c_final"))
    /\ total = llm + final

\* "Tally existing result": when nobody was asked since the last tally, the
\* votes with a choice weigh the same again.  Only a trial whose answer names
\* neither version may be counted in one tally and not in the other, and always
\* for its version B: a first tally passes over an answer without JSON and
\* counts one that jq cannot parse, a second one does the reverse.
WithoutChoice(v) == {t \in Trials : review[t] \in {"null", "garbled"} /\ LabelB(t) = v}
RetallyDriftsByMuteOnly ==
  pc = "printed" /\ before # NoTally =>
    /\ before.llm - llm \in -Cardinality(WithoutChoice("c_llm"))..Cardinality(WithoutChoice("c_llm"))
    /\ before.final - final \in -Cardinality(WithoutChoice("c_final"))..Cardinality(WithoutChoice("c_final"))
=============================================================================
