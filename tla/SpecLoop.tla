------------------------------ MODULE SpecLoop -------------------------------
(***************************************************************************)
(* Phases 4a to 4c: a volley agent proposes refactor claims, a hunter      *)
(* attacks them, a reconciler rejects what was blocked, round after round, *)
(* until sharpened-spec-final.md is there for the implementers.            *)
(***************************************************************************)
EXTENDS Workspace

CONSTANTS
  Claims,    \* the refactor claims an agent may put forward
  NoFile,    \* the content of a file that does not exist
  Clean,     \* a hunt report without findings
  Silent     \* the agents, of SpecAgents, that may return without writing

SpecAgents == {"volley", "hunt", "reconcile"}

ASSUME SpecAssumption ==
  /\ NoFile # Clean
  /\ \A c \in SUBSET Claims : c # NoFile /\ c # Clean
  /\ Silent \subseteq SpecAgents

VARIABLES
  specRound,  \* SPEC_ROUND
  claims,     \* the files volley/round-N-claims.md: the accepted claims
  newest,     \* the N of the claims file written last, 0 if there is none
  specHunt,   \* hunt-spec-round-N.md: Clean, or the claims it blocks ({}: warnings)
  finalSpec,  \* the file volley/sharpened-spec-final.md
  mute        \* history: the agents of this run that have not written a file

specVars == <<specRound, claims, newest, specHunt, finalSpec, mute>>
specLoopVars == <<workspaceVars, specVars>>

Accepted(file) == IF file = NoFile THEN {} ELSE file
Blocked(report) == IF report \in {NoFile, Clean} THEN {} ELSE report

\* cp "$1" sharpened-spec-final.md, if the file is there.
PromoteIfThere(file) == finalSpec' = IF file = NoFile THEN finalSpec ELSE file

\* The agent returns without its file.
MuteAgent(a) == a \in Silent /\ mute' = mute \union {a}

SpecInit ==
  /\ pc = "specStart"
  /\ tree = {} /\ evidence = {} /\ noop = "empty"
  /\ specRound = 1
  /\ claims = [r \in 1..MaxRounds + 1 |-> NoFile]
  /\ newest = 0
  /\ specHunt = [r \in 1..MaxRounds |-> NoFile]
  /\ finalSpec = NoFile
  /\ mute = {}

BeginSpec ==
  /\ pc = "specStart"
  /\ specRound' = 1
  /\ mute' = {}
  /\ pc' = "volley"
  /\ UNCHANGED <<noop, tree, evidence, claims, newest, specHunt, finalSpec>>

\* The volley is prompted with the goal and the diff, never with the claims of
\* an earlier round, and writes round-N-claims.md whether or not it exists.
Volley ==
  /\ pc = "volley"
  /\ specRound <= MaxRounds
  /\ \/ /\ \E c \in SUBSET Claims : claims' = [claims EXCEPT ![specRound] = c]
        /\ newest' = specRound
        /\ UNCHANGED mute
     \/ MuteAgent("volley") /\ UNCHANGED <<claims, newest>>
  /\ pc' = "huntSpec"
  /\ UNCHANGED <<noop, tree, evidence, specRound, specHunt, finalSpec>>

HuntSpecRound ==
  /\ pc = "huntSpec"
  /\ \/ \E report \in {Clean} \union SUBSET Accepted(claims[specRound]) :
          specHunt' = [specHunt EXCEPT ![specRound] = report] /\ UNCHANGED mute
     \/ MuteAgent("hunt") /\ UNCHANGED specHunt
  /\ pc' = "judgeSpec"
  /\ UNCHANGED <<noop, tree, evidence, specRound, claims, newest, finalSpec>>

\* No report, or one without findings.
SpecConverges ==
  /\ pc = "judgeSpec"
  /\ specHunt[specRound] \in {NoFile, Clean}
  /\ PromoteIfThere(claims[specRound])
  /\ pc' = "ensureSpec"
  /\ UNCHANGED <<noop, tree, evidence, specRound, claims, newest, specHunt, mute>>

\* The reconciler keeps to its rules: no new claim, no blocked claim.  It
\* writes the next round's claims, or the final spec.
Reconcile ==
  /\ pc = "judgeSpec"
  /\ specHunt[specRound] \notin {NoFile, Clean}
  /\ \/ /\ UNCHANGED mute
        /\ \E c \in SUBSET (Accepted(claims[specRound]) \ Blocked(specHunt[specRound])) :
             \/ /\ claims' = [claims EXCEPT ![specRound + 1] = c]
                /\ newest' = specRound + 1
                /\ UNCHANGED finalSpec
             \/ /\ finalSpec' = c
                /\ UNCHANGED <<claims, newest>>
     \/ MuteAgent("reconcile") /\ UNCHANGED <<claims, newest, finalSpec>>
  /\ pc' = "checkFinal"
  /\ UNCHANGED <<noop, tree, evidence, specRound, specHunt>>

\* A final spec ends the loop, whoever wrote it and whenever.
FinalSpecFound ==
  /\ pc = "checkFinal"
  /\ finalSpec # NoFile
  /\ pc' = "ensureSpec"
  /\ UNCHANGED <<noop, tree, evidence, specVars>>

NextSpecRound ==
  /\ pc = "checkFinal"
  /\ finalSpec = NoFile
  /\ specRound' = specRound + 1
  /\ pc' = "volley"
  /\ UNCHANGED <<noop, tree, evidence, claims, newest, specHunt, finalSpec, mute>>

\* Mutant of SpecCap: the cap starts the loop over.
SpecCapRestarts ==
  /\ pc = "volley"
  /\ specRound > MaxRounds
  /\ specRound' = 1
  /\ UNCHANGED <<pc, noop, tree, evidence, claims, newest, specHunt, finalSpec, mute>>

SpecCap ==
  /\ pc = "volley"
  /\ specRound > MaxRounds
  /\ pc' = "ensureSpec"
  /\ UNCHANGED <<noop, tree, evidence, specVars>>

\* Mutant of LatestClaims: ls for ls -t, which lists the lowest N first.
FirstClaims ==
  claims[CHOOSE r \in 1..newest : claims[r] # NoFile
                                  /\ \A q \in 1..r - 1 : claims[q] = NoFile]

\* ls -t round-*-claims.md | head -1
LatestClaims == claims[newest]

EnsureSpec ==
  /\ pc = "ensureSpec"
  /\ finalSpec # NoFile \/ newest # 0
  /\ finalSpec' = IF finalSpec = NoFile THEN LatestClaims ELSE finalSpec
  /\ pc' = "implement"
  /\ UNCHANGED <<noop, tree, evidence, specRound, claims, newest, specHunt, mute>>

\* Without any claims file the pipeline ls | head fails, and pipefail and
\* errexit end the script before it can write an empty spec.
SpecAbort ==
  /\ pc = "ensureSpec"
  /\ finalSpec = NoFile
  /\ newest = 0
  /\ pc' = "aborted"
  /\ UNCHANGED <<noop, tree, evidence, specVars>>

SpecNext == \/ BeginSpec \/ Volley \/ HuntSpecRound \/ SpecConverges \/ Reconcile
            \/ FinalSpecFound \/ NextSpecRound \/ SpecCap \/ EnsureSpec \/ SpecAbort

\* The script is one sequential process and each agent call returns.
SpecLoopSpec == SpecInit /\ [][SpecNext]_specLoopVars /\ WF_specLoopVars(SpecNext)
-----------------------------------------------------------------------------
LastHunt == IF specRound > MaxRounds THEN MaxRounds ELSE specRound

\* If no hunter and no reconciler was mute, the implementers get claims the last
\* hunter read, without those it blocked: on each way out of the loop, the cap
\* too, where the choice hangs on the modification times of the claims files.
HandedOverWasHunted ==
  pc = "implement" /\ mute \subseteq {"volley"} =>
    Accepted(finalSpec) \subseteq Accepted(claims[LastHunt]) \ Blocked(specHunt[LastHunt])

\* The loop comes to an end.
SpecEnds == <>(pc \in {"implement", "aborted"})
=============================================================================
