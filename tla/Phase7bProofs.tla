---------------------------- MODULE Phase7bProofs ----------------------------
(***************************************************************************)
(* Theorems about phase 7b: any number of trials, however they are         *)
(* labelled, and any number of batches, each of which may fail anywhere.   *)
(***************************************************************************)
EXTENDS Phase7b, FiniteSetTheorems, TLAPS

\* The types, without the bounds of the counters, which need CountsKnown.
BatchTypes ==
  /\ pc \in {"idle", "gemini", "codex", "printed"}
  /\ at \in 1..N + 1
  /\ review \in [Trials -> Review]
  /\ llm \in Nat /\ final \in Nat /\ total \in Nat
  /\ votes \in [Trials -> Version \union {"none"}]
  /\ runs \in 0..MaxRuns

\* The counters are those of the votes, between two statements as well.
CountsKnown ==
  /\ llm = Cardinality(VotesFor("c_llm"))
  /\ final = Cardinality(VotesFor("c_final"))
  /\ total = llm + final

VoteIsRight(t) ==
  /\ Answered(t) => votes[t] = Picked(t, review[t])
  /\ ~Answered(t) => votes[t] \in {"none", LabelB(t)}

\* The trials before the current one are counted, the others are not yet.
VotesKnown ==
  /\ pc \in {"codex", "printed"} =>
       \A t \in Trials : IF t < at THEN VoteIsRight(t) ELSE votes[t] = "none"
  /\ pc = "printed" => at = N + 1

BatchInv == BatchTypes /\ CountsKnown /\ VotesKnown
-----------------------------------------------------------------------------
\* A vote is for one of the two versions.
LEMMA PickedIsVersion == \A t, r : Picked(t, r) \in Version
  BY DEF Picked, LabelA, LabelB, Version

\* There are finitely many trials, so the votes for a version can be counted.
LEMMA VotesFinite == \A v : IsFiniteSet(VotesFor(v)) /\ Cardinality(VotesFor(v)) \in Nat
  <1> TAKE v
  <1>1. IsFiniteSet(Trials)
    BY BatchAssumption, FS_Interval DEF Trials
  <1>2. VotesFor(v) \in SUBSET Trials
    BY DEF VotesFor
  <1> QED
    BY <1>1, <1>2, FS_Subset, FS_CardinalityType

\* Counting a trial that has no vote yet keeps counters and votes together.
LEMMA CountKeepsCounts ==
  ASSUME BatchTypes, CountsKnown, at \in Trials, votes[at] = "none", NEW r, Count(r)
  PROVE  /\ CountsKnown'
         /\ llm' \in Nat /\ final' \in Nat /\ total' \in Nat
         /\ votes' = [votes EXCEPT ![at] = Picked(at, r)]
         /\ votes' \in [Trials -> Version \union {"none"}]
  <1> DEFINE v == Picked(at, r)
  <1>1. /\ llm' = IF v = "c_llm" THEN llm + 1 ELSE llm
        /\ final' = IF v = "c_final" THEN final + 1 ELSE final
        /\ total' = total + 1
        /\ votes' = [votes EXCEPT ![at] = v]
        /\ v \in {"c_llm", "c_final"}
    BY PickedIsVersion DEF Count, Version
  <1> HIDE DEF v
  <1>2. votes' \in [Trials -> Version \union {"none"}]
    BY <1>1 DEF BatchTypes, Version
  <1>3. ASSUME NEW w \in {"c_llm", "c_final"}
        PROVE  VotesFor(w)' = IF w = v THEN VotesFor(w) \union {at} ELSE VotesFor(w)
    BY <1>1, <1>3 DEF VotesFor, BatchTypes, Version
  <1>4. ASSUME NEW w \in {"c_llm", "c_final"}
        PROVE  Cardinality(VotesFor(w))' =
                 IF w = v THEN Cardinality(VotesFor(w)) + 1 ELSE Cardinality(VotesFor(w))
    <2>1. at \notin VotesFor(w)
      BY <1>4 DEF VotesFor
    <2>2. CASE w = v
      BY <2>1, <2>2, <1>3, <1>4, VotesFinite, FS_AddElement
    <2>3. CASE w # v
      BY <2>3, <1>3, <1>4
    <2> QED
      BY <2>2, <2>3
  <1>5. CountsKnown'
    BY <1>1, <1>4, VotesFinite DEF CountsKnown
  <1> QED
    BY <1>1, <1>2, <1>5 DEF BatchTypes, v

\* Without a vote nobody is counted.
LEMMA NoVotesCount ==
  ASSUME votes = NoVotes
  PROVE  Cardinality(VotesFor("c_llm")) = 0 /\ Cardinality(VotesFor("c_final")) = 0
  <1>1. VotesFor("c_llm") = {} /\ VotesFor("c_final") = {}
    BY DEF VotesFor, NoVotes
  <1> QED
    BY <1>1, FS_EmptySet

\* Nothing is answered or counted before the first batch.
LEMMA BatchInit_Inv == BatchInit => BatchInv
  <1> SUFFICES ASSUME BatchInit PROVE BatchInv
    OBVIOUS
  <1>1. BatchTypes
    BY BatchAssumption DEF BatchInit, BatchTypes, Review, NoVotes
  <1>2. CountsKnown
    BY NoVotesCount DEF BatchInit, CountsKnown
  <1>3. VotesKnown
    BY DEF BatchInit, VotesKnown
  <1> QED
    BY <1>1, <1>2, <1>3 DEF BatchInv

\* A step that leaves counters and votes alone leaves CountsKnown alone.
LEMMA CountsStay ==
  ASSUME CountsKnown, UNCHANGED tallyVars
  PROVE  CountsKnown'
  <1>1. \A v : VotesFor(v)' = VotesFor(v)
    BY DEF VotesFor, tallyVars
  <1> QED
    BY <1>1 DEF CountsKnown, tallyVars

\* Going on to the next trial, once this one is counted as it should be.
LEMMA GoOnKeepsVotes ==
  ASSUME BatchTypes, VotesKnown, Turn("codex"), GoOn,
         \A t \in Trials : t = at => VoteIsRight(t)',
         \A t \in Trials : t # at => review'[t] = review[t] /\ votes'[t] = votes[t]
  PROVE  VotesKnown'
  <1>1. ASSUME NEW t \in Trials
        PROVE  IF t < at' THEN VoteIsRight(t)' ELSE votes'[t] = "none"
    <2>1. CASE t < at
      <3>1. VoteIsRight(t) /\ t # at
        BY <2>1 DEF VotesKnown, Turn, Trials, BatchTypes
      <3>2. review'[t] = review[t] /\ votes'[t] = votes[t]
        BY <3>1
      <3>3. VoteIsRight(t)'
        BY <3>1, <3>2 DEF VoteIsRight, Answered
      <3> QED
        BY <2>1, <3>3 DEF GoOn, Trials, BatchTypes
    <2>2. CASE t = at
      BY <2>2 DEF GoOn, Trials, BatchTypes
    <2>3. CASE t > at
      BY <2>3 DEF GoOn, VotesKnown, Turn, Trials, BatchTypes
    <2> QED
      BY <2>1, <2>2, <2>3 DEF Trials, BatchTypes
  <1>2. pc' # "printed"
    BY DEF GoOn, Turn
  <1> QED
    BY <1>1, <1>2 DEF VotesKnown

\* Every statement of either script keeps the invariant.
LEMMA BatchStep_Inv == BatchInv /\ [BatchNext]_batchVars => BatchInv'
  <1> SUFFICES ASSUME BatchInv, [BatchNext]_batchVars PROVE BatchInv'
    OBVIOUS
  <1> USE DEF BatchInv
  <1>0. /\ N \in Nat /\ MaxRuns \in Nat
        /\ Trials = 1..N
    BY BatchAssumption DEF Trials
  <1>1. CASE StartGemini
    <2>1. BatchTypes'
      BY <1>1, <1>0 DEF StartGemini, Start, BatchTypes, tallyVars
    <2>2. CountsKnown'
      BY <1>1, CountsStay DEF StartGemini
    <2>3. VotesKnown'
      BY <1>1 DEF StartGemini, Start, VotesKnown
    <2> QED
      BY <2>1, <2>2, <2>3
  <1>2. CASE StartCodex
    <2>1. BatchTypes'
      BY <1>2, <1>0 DEF StartCodex, Start, BatchTypes, NoVotes
    <2>2. CountsKnown'
      <3>1. \A v : VotesFor(v)' = {t \in Trials : NoVotes[t] = v}
        BY <1>2 DEF StartCodex, VotesFor
      <3>2. VotesFor("c_llm")' = {} /\ VotesFor("c_final")' = {}
        BY <3>1 DEF NoVotes
      <3>3. llm' = 0 /\ final' = 0 /\ total' = 0
        BY <1>2 DEF StartCodex
      <3> QED
        BY <3>2, <3>3, FS_EmptySet DEF CountsKnown
    <2>3. VotesKnown'
      BY <1>2, <1>0 DEF StartCodex, Start, VotesKnown, NoVotes
    <2> QED
      BY <2>1, <2>2, <2>3
  <1>3. CASE GeminiSkips \/ CodexPassesOver
    <2>1. BatchTypes' /\ UNCHANGED tallyVars
      BY <1>3, <1>0 DEF GeminiSkips, CodexPassesOver, Turn, GoOn, BatchTypes, tallyVars
    <2>2. CountsKnown'
      BY <2>1, CountsStay
    <2>3. VotesKnown'
      <3>1. CASE GeminiSkips
        BY <3>1 DEF GeminiSkips, Turn, GoOn, VotesKnown
      <3>2. CASE CodexPassesOver
        <4>1. votes[at] = "none" /\ at \in Trials
          BY <3>2, <1>0 DEF CodexPassesOver, Turn, VotesKnown, BatchTypes
        <4>2. ASSUME NEW t \in Trials, t = at PROVE VoteIsRight(t)'
          BY <3>2, <4>1, <4>2 DEF CodexPassesOver, VoteIsRight, Answered, tallyVars
        <4> QED
          BY <3>2, <4>2, GoOnKeepsVotes DEF CodexPassesOver, tallyVars
      <3> QED
        BY <1>3, <3>1, <3>2
    <2> QED
      BY <2>1, <2>2, <2>3
  <1>4. CASE GeminiAnswers \/ GeminiNoJson
    <2>1. PICK r \in Review : Store(r)
      BY <1>4 DEF GeminiAnswers, GeminiNoJson, Review
    <2>2. Turn("gemini") /\ (GoOn \/ Die) /\ UNCHANGED tallyVars
      BY <1>4 DEF GeminiAnswers, GeminiNoJson
    <2>3. BatchTypes'
      BY <2>1, <2>2, <1>0 DEF Turn, GoOn, Die, Store, BatchTypes, tallyVars
    <2>4. CountsKnown'
      BY <2>2, CountsStay
    <2>5. VotesKnown'
      BY <2>2 DEF Turn, GoOn, Die, VotesKnown
    <2> QED
      BY <2>3, <2>4, <2>5
  <1>5. CASE GeminiEnds \/ CodexEnds \/ BatchDies
    <2>1. Die /\ UNCHANGED <<review, tallyVars>>
      BY <1>5 DEF GeminiEnds, CodexEnds, BatchDies
    <2>2. BatchTypes'
      BY <2>1 DEF Die, BatchTypes, tallyVars
    <2>3. CountsKnown'
      BY <2>1, CountsStay
    <2>4. VotesKnown'
      BY <2>1 DEF Die, VotesKnown
    <2> QED
      BY <2>2, <2>3, <2>4
  <1>6. CASE CodexTallies \/ CodexAnswers
    <2>1. PICK r \in {"A", "B", "null", "garbled"} :
                 Count(r) /\ review' = [review EXCEPT ![at] = r]
      <3>1. CASE CodexTallies
        BY <3>1 DEF CodexTallies, BatchTypes
      <3>2. CASE CodexAnswers
        BY <3>2 DEF CodexAnswers, Store
      <3> QED
        BY <1>6, <3>1, <3>2
    <2>2. Turn("codex") /\ GoOn
      BY <1>6 DEF CodexTallies, CodexAnswers
    <2>3. at \in Trials /\ votes[at] = "none"
      BY <2>2, <1>0 DEF Turn, VotesKnown, BatchTypes
    <2>4. /\ CountsKnown'
          /\ llm' \in Nat /\ final' \in Nat /\ total' \in Nat
          /\ votes' = [votes EXCEPT ![at] = Picked(at, r)]
          /\ votes' \in [Trials -> Version \union {"none"}]
      BY <2>1, <2>3, CountKeepsCounts
    <2>5. BatchTypes'
      <3>1. review' \in [Trials -> Review]
        BY <2>1 DEF BatchTypes, Review
      <3> QED
        BY <2>2, <2>4, <3>1, <1>0 DEF Turn, GoOn, BatchTypes
    <2>6. ASSUME NEW t \in Trials, t = at PROVE VoteIsRight(t)'
      <3>1. votes'[t] = Picked(t, r) /\ review'[t] = r
        BY <2>1, <2>3, <2>4, <2>6 DEF BatchTypes
      <3>2. r # "A" => Picked(t, r) = LabelB(t)
        BY DEF Picked
      <3> QED
        BY <3>1, <3>2 DEF VoteIsRight, Answered
    <2>7. VotesKnown'
      BY <2>1, <2>2, <2>3, <2>4, <2>6, GoOnKeepsVotes DEF BatchTypes
    <2> QED
      BY <2>4, <2>5, <2>7
  <1>7. CASE CodexNoJson
    <2>1. /\ Turn("codex") /\ GoOn /\ UNCHANGED tallyVars
          /\ review' = [review EXCEPT ![at] = "null"]
      BY <1>7 DEF CodexNoJson, Store
    <2>2. at \in Trials /\ votes[at] = "none"
      BY <2>1, <1>0 DEF Turn, VotesKnown, BatchTypes
    <2>3. BatchTypes'
      BY <2>1, <2>2, <1>0 DEF Turn, GoOn, BatchTypes, tallyVars, Review
    <2>4. ASSUME NEW t \in Trials, t = at PROVE VoteIsRight(t)'
      BY <2>1, <2>2, <2>4 DEF VoteIsRight, Answered, BatchTypes, tallyVars
    <2>5. VotesKnown'
      BY <2>1, <2>4, GoOnKeepsVotes DEF BatchTypes, tallyVars
    <2>6. CountsKnown'
      BY <2>1, CountsStay
    <2> QED
      BY <2>3, <2>5, <2>6
  <1>8. CASE Report
    <2>1. BatchTypes' /\ UNCHANGED tallyVars
      BY <1>8 DEF Report, BatchTypes, tallyVars
    <2>2. at = N + 1
      BY <1>8, <1>0 DEF Report, BatchTypes
    <2>3. VotesKnown'
      BY <1>8, <2>2 DEF Report, VotesKnown, VoteIsRight, Answered, tallyVars
    <2> QED
      BY <2>1, <2>3, CountsStay
  <1>9. CASE UNCHANGED batchVars
    <2>1. UNCHANGED tallyVars
      BY <1>9 DEF batchVars, tallyVars
    <2> QED
      BY <1>9, <2>1, CountsStay DEF batchVars, tallyVars, BatchTypes, VotesKnown, VoteIsRight,
         Answered
  <1> QED
    BY <1>1, <1>2, <1>3, <1>4, <1>5, <1>6, <1>7, <1>8, <1>9 DEF BatchNext

\* Counters, votes and answers belong together at every statement of either
\* batch, from the counters' reset to the printed tally.
THEOREM BatchInvariant == BatchSpec => []BatchInv
  <1> QED
    BY BatchInit_Inv, BatchStep_Inv, PTL DEF BatchSpec
-----------------------------------------------------------------------------
\* Type correctness: no counter exceeds the number of trials, over any number
\* of batches (run_phase7b_codex.sh sets its counters to 0 when it starts).
THEOREM BatchTypeCorrect == BatchSpec => []BatchTypeOK
  <1>1. BatchInv => BatchTypeOK
    <2> SUFFICES ASSUME BatchInv PROVE BatchTypeOK
      OBVIOUS
    <2> DEFINE L == VotesFor("c_llm")
               F == VotesFor("c_final")
    <2>1. IsFiniteSet(Trials) /\ Cardinality(Trials) = N
      BY BatchAssumption, FS_Interval DEF Trials
    <2>2. L \union F \in SUBSET Trials /\ L \intersect F = {}
      BY DEF VotesFor
    <2>3. /\ IsFiniteSet(L) /\ Cardinality(L) \in Nat
          /\ IsFiniteSet(F) /\ Cardinality(F) \in Nat
      BY VotesFinite
    <2> HIDE DEF L, F
    <2>4. Cardinality(L \union F) <= N
      BY <2>1, <2>2, FS_Subset
    <2>5. Cardinality(L \union F) = Cardinality(L) + Cardinality(F)
      <3>1. Cardinality(L \intersect F) = 0
        BY <2>2, FS_EmptySet
      <3>2. Cardinality(L \union F) = Cardinality(L) + Cardinality(F) - Cardinality(L \intersect F)
        BY <2>3, FS_Union, Zenon
      <3> QED
        BY <3>1, <3>2, <2>3
    <2>6. llm = Cardinality(L) /\ final = Cardinality(F) /\ total = llm + final
      BY DEF BatchInv, CountsKnown, L, F
    <2>7. llm \in 0..N /\ final \in 0..N /\ total \in 0..N
      BY <2>3, <2>4, <2>5, <2>6, BatchAssumption
    <2> QED
      BY <2>7 DEF BatchInv, BatchTypes, BatchTypeOK
  <1> QED
    BY <1>1, BatchInvariant, PTL

\* A printed tally of run_phase7b_codex.sh counts every answer there is once,
\* for the version it names, however many batches died before it.
THEOREM EveryAnswerCounts == BatchSpec => []AnswersAreCounted
  <1>1. BatchInv => AnswersAreCounted
    BY BatchAssumption DEF BatchInv, BatchTypes, CountsKnown, VotesKnown, VoteIsRight,
       AnswersAreCounted, Trials
  <1> QED
    BY <1>1, BatchInvariant, PTL

\* Neither script ever changes an answer it or the other script has stored.
THEOREM AnswersStay == BatchSpec => AnswersAreFinal
  <1>1. BatchInv /\ [BatchNext]_batchVars
          => [\A t \in Trials : Answered(t) => review'[t] = review[t]]_batchVars
    <2> SUFFICES ASSUME BatchInv, BatchNext, NEW t \in Trials, Answered(t)
                 PROVE  review'[t] = review[t]
      OBVIOUS
    <2>1. CASE GeminiAnswers \/ GeminiNoJson \/ CodexAnswers \/ CodexNoJson
      <3>1. \E r : review' = [review EXCEPT ![at] = r]
        BY <2>1 DEF GeminiAnswers, GeminiNoJson, CodexAnswers, CodexNoJson, Store
      <3>2. t # at
        BY <2>1 DEF GeminiAnswers, GeminiNoJson, CodexAnswers, CodexNoJson, Unanswered, Answered
      <3> QED
        BY <3>1, <3>2 DEF BatchInv, BatchTypes
    <2>2. CASE ~(GeminiAnswers \/ GeminiNoJson \/ CodexAnswers \/ CodexNoJson)
      <3>1. UNCHANGED review
        BY <2>2 DEF BatchNext, StartGemini, StartCodex, GeminiSkips, GeminiEnds, CodexTallies,
           CodexPassesOver, Report, CodexEnds, BatchDies
      <3> QED
        BY <3>1
    <2> QED
      BY <2>1, <2>2
  <1> QED
    BY <1>1, BatchInvariant, PTL DEF BatchSpec, AnswersAreFinal
-----------------------------------------------------------------------------
VotedFor(V, v) == {t \in Trials : V[t] = v}

\* V may be the votes of a tally printed over the reviews that are there now.
Explains(V) ==
  /\ \A t \in Trials : /\ Answered(t) => V[t] = Picked(t, review[t])
                       /\ ~Answered(t) => V[t] \in {"none", LabelB(t)}
  /\ before.llm = Cardinality(VotedFor(V, "c_llm"))
  /\ before.final = Cardinality(VotedFor(V, "c_final"))

\* While nobody is asked every trial has an answer of some kind, and the last tally
\* is one of them.
TallyKnown ==
  /\ pc \in {"codex", "printed"} =>
       \A t \in Trials : t < at => review[t] \notin {"absent", "empty"}
  /\ before # NoTally =>
       /\ \A t \in Trials : review[t] \notin {"absent", "empty"}
       /\ \E V : Explains(V)

\* While neither the reviews nor the last tally change, it remains explained.
LEMMA ExplanationStays ==
  ASSUME TallyKnown, UNCHANGED <<review, before>>, before # NoTally
  PROVE  /\ \A t \in Trials : review'[t] \notin {"absent", "empty"}
         /\ \E V : Explains(V)'
  <1>1. PICK V : Explains(V)
    BY DEF TallyKnown
  <1>2. Explains(V)'
    BY <1>1 DEF Explains, Answered, VotedFor
  <1> QED
    BY <1>2 DEF TallyKnown

\* Every statement of either script keeps TallyKnown.
LEMMA TallyStaysKnown ==
  ASSUME BatchInv, TallyKnown, [BatchNext]_batchVars
  PROVE  TallyKnown'
  <1>0. /\ N \in Nat /\ Trials = 1..N /\ at \in 1..N + 1 /\ review \in [Trials -> Review]
    BY BatchAssumption DEF Trials, BatchInv, BatchTypes
  <1>1. CASE UNCHANGED <<review, before>>
    <2>1. pc' \in {"codex", "printed"} =>
            \A t \in Trials : t < at' => review'[t] \notin {"absent", "empty"}
      <3>1. CASE StartCodex
        BY <1>0, <3>1 DEF StartCodex, Start
      <3>2. CASE CodexTallies \/ CodexPassesOver
        <4>1. /\ pc = "codex" /\ at' = at + 1 /\ review[at] \notin {"absent", "empty"}
          BY <3>2 DEF CodexTallies, CodexPassesOver, Turn, GoOn
        <4>2. ASSUME NEW t \in Trials, t < at' PROVE t < at \/ t = at
          BY <1>0, <4>1, <4>2
        <4> QED
          BY <1>1, <4>1, <4>2 DEF TallyKnown
      <3>3. CASE CodexAnswers \/ CodexNoJson
        <4>1. review[at] \in {"absent", "empty"} /\ review'[at] \notin {"absent", "empty"}
          BY <1>0, <3>3 DEF CodexAnswers, CodexNoJson, Store, Turn, Unanswered
        <4> QED
          BY <1>1, <4>1
      <3>4. CASE Report \/ UNCHANGED batchVars
        BY <1>1, <3>4 DEF Report, batchVars, TallyKnown
      <3>5. CASE \/ StartGemini \/ GeminiSkips \/ GeminiAnswers \/ GeminiNoJson \/ GeminiEnds
                 \/ CodexEnds \/ BatchDies
        BY <3>5 DEF StartGemini, GeminiSkips, GeminiAnswers, GeminiNoJson, GeminiEnds,
           CodexEnds, BatchDies, Start, Turn, GoOn, Die
      <3> QED
        BY <3>1, <3>2, <3>3, <3>4, <3>5 DEF BatchNext
    <2> QED
      BY <1>1, <2>1, ExplanationStays DEF TallyKnown, NoTally
  <1>2. CASE GeminiAnswers \/ GeminiNoJson
    <2>1. pc' \in {"gemini", "idle"} /\ before' = NoTally
      BY <1>2 DEF GeminiAnswers, GeminiNoJson, Store, Turn, GoOn, Die
    <2> QED
      BY <2>1 DEF TallyKnown, NoTally
  <1>3. CASE CodexAnswers \/ CodexNoJson
    <2>1. PICK r \in {"A", "B", "null", "garbled"} : Store(r)
      BY <1>3 DEF CodexAnswers, CodexNoJson
    <2>2. /\ pc = "codex" /\ pc' = "codex" /\ at' = at + 1 /\ at <= N
          /\ before' = NoTally /\ review' = [review EXCEPT ![at] = r]
      BY <1>3, <2>1 DEF CodexAnswers, CodexNoJson, Turn, GoOn, Store
    <2>3. ASSUME NEW t \in Trials, t < at' PROVE review'[t] \notin {"absent", "empty"}
      <3>1. t = at \/ t < at
        BY <1>0, <2>2, <2>3
      <3>2. review'[t] = IF t = at THEN r ELSE review[t]
        BY <1>0, <2>2
      <3> QED
        BY <2>1, <2>2, <3>1, <3>2 DEF TallyKnown
    <2> QED
      BY <2>2, <2>3 DEF TallyKnown, NoTally
  <1>4. CASE CodexEnds
    <2>1. /\ pc = "printed" /\ pc' = "idle" /\ UNCHANGED <<review, at, tallyVars>>
          /\ before' = [llm |-> llm, final |-> final]
      BY <1>4 DEF CodexEnds, Die
    <2>2. at = N + 1 /\ \A t \in Trials : VoteIsRight(t)
      BY <1>0, <2>1 DEF BatchInv, VotesKnown
    <2>3. \A t \in Trials : review[t] \notin {"absent", "empty"}
      BY <1>0, <2>1, <2>2 DEF TallyKnown
    <2>4. /\ before'.llm = Cardinality(VotedFor(votes, "c_llm"))
          /\ before'.final = Cardinality(VotedFor(votes, "c_final"))
      BY <2>1 DEF BatchInv, CountsKnown, VotesFor, VotedFor
    <2>5. \A t \in Trials : /\ Answered(t)' => votes[t] = Picked(t, review'[t])
                            /\ ~Answered(t)' => votes[t] \in {"none", LabelB(t)}
      BY <2>1, <2>2 DEF VoteIsRight, Answered
    <2>6. \E V : Explains(V)'
      <3> DEFINE W == votes
      <3>1. /\ before'.llm = Cardinality({t \in Trials : W[t] = "c_llm"})
            /\ before'.final = Cardinality({t \in Trials : W[t] = "c_final"})
            /\ \A t \in Trials : /\ Answered(t)' => W[t] = Picked(t, review'[t])
                                 /\ ~Answered(t)' => W[t] \in {"none", LabelB(t)}
        BY <2>4, <2>5 DEF VotedFor
      <3> HIDE DEF W
      <3> QED
        BY <3>1 DEF Explains, VotedFor
    <2> QED
      BY <2>1, <2>3, <2>6 DEF TallyKnown
  <1>5. \/ UNCHANGED <<review, before>> \/ GeminiAnswers \/ GeminiNoJson
        \/ CodexAnswers \/ CodexNoJson \/ CodexEnds
    BY DEF BatchNext, StartGemini, GeminiSkips, GeminiEnds, StartCodex, CodexTallies,
       CodexPassesOver, Report, BatchDies, batchVars
  <1> QED
    BY <1>1, <1>2, <1>3, <1>4, <1>5

AnswersFor(v) == {t \in Trials : Answered(t) /\ Picked(t, review[t]) = v}

\* A tally over reviews that are all there counts the answers for a version, and
\* besides them only trials without a choice.
LEMMA TallyIsBetween ==
  ASSUME review \in [Trials -> Review], NEW V, NEW v \in Version,
         \A t \in Trials : review[t] \notin {"absent", "empty"},
         \A t \in Trials : /\ Answered(t) => V[t] = Picked(t, review[t])
                           /\ ~Answered(t) => V[t] \in {"none", LabelB(t)}
  PROVE  /\ Cardinality(AnswersFor(v)) \in Nat /\ Cardinality(WithoutChoice(v)) \in Nat
         /\ Cardinality(VotedFor(V, v)) >= Cardinality(AnswersFor(v))
         /\ Cardinality(VotedFor(V, v)) =< Cardinality(AnswersFor(v)) + Cardinality(WithoutChoice(v))
         /\ Cardinality(VotedFor(V, v)) \in Nat
  <1> DEFINE A == AnswersFor(v)
             W == WithoutChoice(v)
             X == VotedFor(V, v)
  <1>1. A \subseteq X
    BY DEF AnswersFor, VotedFor
  <1>2. X \subseteq A \union W
    <2>1. ASSUME NEW t \in Trials, V[t] = v, ~Answered(t)
          PROVE  review[t] \in {"null", "garbled"} /\ LabelB(t) = v
      BY <2>1 DEF Answered, Review, Version
    <2> QED
      BY <2>1 DEF AnswersFor, VotedFor, WithoutChoice
  <1>3. IsFiniteSet(Trials) /\ A \subseteq Trials /\ W \subseteq Trials
    BY BatchAssumption, FS_Interval DEF Trials, AnswersFor, WithoutChoice
  <1> HIDE DEF A, W, X
  <1>4. /\ IsFiniteSet(A) /\ IsFiniteSet(W) /\ IsFiniteSet(A \intersect W)
        /\ IsFiniteSet(A \union W)
    BY <1>3, FS_Subset, FS_Union, FS_Intersection
  <1>5. /\ Cardinality(A) \in Nat /\ Cardinality(W) \in Nat
        /\ Cardinality(A \intersect W) \in Nat
    BY <1>4, FS_CardinalityType
  <1>6. Cardinality(A \union W) = Cardinality(A) + Cardinality(W) - Cardinality(A \intersect W)
    BY <1>4, FS_Union, Zenon
  <1>7. IsFiniteSet(X) /\ Cardinality(X) \in Nat
    BY <1>2, <1>4, FS_Subset, FS_CardinalityType
  <1>8. Cardinality(X) =< Cardinality(A \union W) /\ Cardinality(A) =< Cardinality(X)
    BY <1>1, <1>2, <1>4, <1>7, FS_Subset
  <1> QED
    BY <1>5, <1>6, <1>7, <1>8 DEF A, W, X

\* Two tallies without a question between them differ for a version by no more than
\* the trials that name neither version and count, if at all, for that one.
THEOREM RetalliesAgreeOnChoices == BatchSpec => []RetallyDriftsByMuteOnly
  <1>1. ASSUME BatchInv, TallyKnown, pc = "printed", before # NoTally
        PROVE  /\ before.llm - llm \in
                    -Cardinality(WithoutChoice("c_llm"))..Cardinality(WithoutChoice("c_llm"))
               /\ before.final - final \in
                    -Cardinality(WithoutChoice("c_final"))..Cardinality(WithoutChoice("c_final"))
    <2>1. /\ review \in [Trials -> Review]
          /\ \A t \in Trials : review[t] \notin {"absent", "empty"}
      BY <1>1 DEF BatchInv, BatchTypes, TallyKnown
    <2>2. PICK V : Explains(V)
      BY <1>1 DEF TallyKnown
    <2>3. \A t \in Trials : /\ Answered(t) => V[t] = Picked(t, review[t])
                            /\ ~Answered(t) => V[t] \in {"none", LabelB(t)}
      BY <2>2 DEF Explains
    <2>4. \A t \in Trials : /\ Answered(t) => votes[t] = Picked(t, review[t])
                            /\ ~Answered(t) => votes[t] \in {"none", LabelB(t)}
      BY <1>1, BatchAssumption DEF BatchInv, VotesKnown, VoteIsRight, Trials
    <2> DEFINE A(v) == Cardinality(AnswersFor(v))
               W(v) == Cardinality(WithoutChoice(v))
    <2>5. ASSUME NEW v \in Version
          PROVE  /\ A(v) \in Nat /\ W(v) \in Nat
                 /\ Cardinality(VotedFor(V, v)) \in A(v)..(A(v) + W(v))
                 /\ Cardinality(VotedFor(votes, v)) \in A(v)..(A(v) + W(v))
      <3>1. /\ A(v) \in Nat /\ W(v) \in Nat
            /\ Cardinality(VotedFor(V, v)) \in A(v)..(A(v) + W(v))
        BY <2>1, <2>3, TallyIsBetween
      <3>2. Cardinality(VotedFor(votes, v)) \in A(v)..(A(v) + W(v))
        BY <2>1, <2>4, TallyIsBetween
      <3> QED
        BY <3>1, <3>2
    <2>6. /\ before.llm = Cardinality(VotedFor(V, "c_llm"))
          /\ before.final = Cardinality(VotedFor(V, "c_final"))
          /\ llm = Cardinality(VotedFor(votes, "c_llm"))
          /\ final = Cardinality(VotedFor(votes, "c_final"))
      BY <1>1, <2>2 DEF Explains, BatchInv, CountsKnown, VotesFor, VotedFor
    <2> HIDE DEF A, W
    <2>7. /\ before.llm - llm \in -W("c_llm")..W("c_llm")
          /\ before.final - final \in -W("c_final")..W("c_final")
      BY <2>5, <2>6 DEF Version
    <2> QED
      BY <2>7 DEF W
  <1>2. BatchInit => TallyKnown
    BY DEF BatchInit, TallyKnown
  <1>3. BatchInv /\ TallyKnown /\ [BatchNext]_batchVars => TallyKnown'
    BY TallyStaysKnown
  <1>4. BatchInv /\ TallyKnown => RetallyDriftsByMuteOnly
    BY <1>1 DEF RetallyDriftsByMuteOnly
  <1> QED
    BY <1>2, <1>3, <1>4, BatchInvariant, PTL DEF BatchSpec
=============================================================================
