-------------------------- MODULE CandidateRelease ---------------------------
(***************************************************************************)
(* What one trial of the forge pipeline promises, whatever its agents do   *)
(* and wherever it is interrupted: a candidate reaches the reviewer only   *)
(* after a build and test run that passed on it, and the trial's record    *)
(* never calls a released candidate sound whose last such run failed.      *)
(***************************************************************************)
VARIABLES
  stage,     \* "idle", "making", "judging" or "releasing" a candidate
  sound,     \* the candidate's last build and test run passed, after its last edit
  released   \* what the record says of the candidate released last

releaseVars == <<stage, sound, released>>

ReleaseInit == stage = "idle" /\ sound = FALSE /\ released = "nothing"

Begin ==
  /\ stage = "idle"
  /\ stage' = "making"
  /\ sound' = FALSE
  /\ UNCHANGED released

\* Edits and build and test runs, in any order.
Work(where) ==
  /\ stage = where
  /\ sound' \in BOOLEAN
  /\ UNCHANGED <<stage, released>>

Admit ==
  /\ stage = "making"
  /\ sound'
  /\ stage' = "judging"
  /\ UNCHANGED released

Settle ==
  /\ stage = "judging"
  /\ stage' = "releasing"
  /\ sound' \in BOOLEAN
  /\ UNCHANGED released

Release ==
  /\ stage = "releasing"
  /\ released' = IF sound THEN "sound" ELSE "unsound"
  /\ stage' = "idle"
  /\ sound' = FALSE

\* A no-op, an abort or a crash: what was released before stays.
Drop ==
  /\ stage # "idle"
  /\ stage' = "idle"
  /\ sound' = FALSE
  /\ UNCHANGED released

ReleaseNext == Begin \/ Work("making") \/ Admit \/ Work("judging") \/ Settle
               \/ Release \/ Drop

ReleaseSpec == ReleaseInit /\ [][ReleaseNext]_releaseVars
=============================================================================
