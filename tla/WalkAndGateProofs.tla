-------------------------- MODULE WalkAndGateProofs --------------------------
(***************************************************************************)
(* Theorems about the two tools on either side of the pipelines, for every *)
(* branch and every set of files: the walk that picks C_test, and the gate *)
(* that compares a candidate with it.                                      *)
(***************************************************************************)
EXTENDS FindCTest, ComplexityGate, FiniteSetTheorems, TLAPS

-----------------------------------------------------------------------------
(* The walk *)

Verdict == {"fail_install", "fail_build", "fail_test", "pass"}

\* Each commit before the one at hand has its verdict, and none has two.
WalkTypeOK ==
  /\ branch \in Branches
  /\ installable \in SUBSET Locks
  /\ pc \in {"checkout", "install", "build", "test", "found", "none"}
  /\ at \in 1..(Len(branch) + 1)
  /\ pc \in {"install", "build", "test", "found"} => at =< Len(branch)
  /\ last \in Locks \union {Absent}
  /\ deps \in Locks \union {Absent, Partial}
  /\ results \in Seq(Verdict)
  /\ Len(results) = IF pc = "found" THEN at ELSE at - 1

\* LAST_LOCKFILE is the lockfile of a commit that was installed, the one at hand once it
\* is being built.
LastIsKnown ==
  /\ last # Absent => /\ last \in installable
                      /\ \E a \in 1..at : a =< Len(branch) /\ branch[a].lock = last
  /\ pc = "checkout" /\ last # Absent => \E a \in 1..(at - 1) : branch[a].lock = last
  /\ pc = "install" => C.lock # last
  /\ pc \in {"build", "test"} => C.lock = last

\* Dependencies that are not those LAST_LOCKFILE names are what a later install that
\* failed has left.
DepsAreKnown ==
  last # Absent /\ deps # last =>
    \E a, b \in 1..Len(results) : /\ a < b /\ results[b] = "fail_install"
                                  /\ branch[a].lock = last

\* A commit whose tests run was built, or has not its own dependencies.
BuiltIsKnown == pc = "test" => C.builds \/ deps # C.lock

WalkInv ==
  /\ WalkTypeOK
  /\ LastIsKnown
  /\ DepsAreKnown
  /\ BuiltIsKnown
  /\ VerdictsAreRight

\* The next verdict disturbs no earlier one, nor what excuses it.
LEMMA NextVerdict ==
  ASSUME WalkTypeOK, VerdictsAreRight, UNCHANGED <<branch, installable>>,
         NEW r \in Verdict, results' = Append(results, r), pc # "found",
         at =< Len(branch),
         \/ \E a, b \in 1..(at - 1) : /\ a < b /\ results[b] = "fail_install"
                                      /\ branch[a].lock = C.lock
         \/ r = "pass" <=> Good(at) /\ ~C.oldFails
  PROVE  VerdictsAreRight'
<1>1. /\ Len(results) = at - 1 /\ at \in Nat /\ at >= 1
      /\ results \in Seq(Verdict) /\ branch \in Seq(Commit)
  BY FindAssumption DEF WalkTypeOK, Branch
<1>2. /\ Len(results') = at
      /\ \A i \in 1..(at - 1) : results'[i] = results[i]
      /\ results'[at] = r
  BY <1>1
<1>3. ASSUME NEW c \in 1..at
      PROVE  Exposed(c)' <=> \E a, b \in 1..(c - 1) : /\ a < b /\ results[b] = "fail_install"
                                                     /\ branch[a].lock = branch[c].lock
  <2>1. \A b \in 1..(c - 1) : results'[b] = results[b]
    BY <1>1, <1>2
  <2> QED BY <2>1 DEF Exposed
<1>4. ASSUME NEW c \in 1..at
      PROVE  Exposed(c)' \/ (results'[c] = "pass" <=> Good(c)' /\ ~branch'[c].oldFails)
  <2>1. Good(c)' <=> Good(c)
    BY DEF Good
  <2>2. CASE c = at
    BY <1>2, <1>3, <2>1, <2>2 DEF C
  <2>3. CASE c # at
    <3>1. c \in 1..Len(results) /\ results'[c] = results[c]
      BY <1>1, <1>2, <2>3
    <3>2. Exposed(c) \/ (results[c] = "pass" <=> Good(c) /\ ~branch[c].oldFails)
      BY <3>1 DEF VerdictsAreRight
    <3>3. Exposed(c) => Exposed(c)'
      BY <1>3 DEF Exposed
    <3> QED BY <2>1, <3>1, <3>2, <3>3
  <2> QED BY <2>2, <2>3
<1> QED BY <1>2, <1>4 DEF VerdictsAreRight

\* Dependencies that are not its own excuse the commit at hand.
LEMMA StaleIsExposed ==
  ASSUME WalkInv, pc \in {"build", "test"}, deps # C.lock
  PROVE  \E a, b \in 1..(at - 1) : /\ a < b /\ results[b] = "fail_install"
                                   /\ branch[a].lock = C.lock
<1>1. C.lock = last /\ last # Absent /\ Len(results) = at - 1
  <2>1. branch \in Seq(Commit) /\ at \in 1..Len(branch) /\ Len(results) = at - 1
    BY FindAssumption DEF WalkInv, WalkTypeOK, Branch
  <2>2. C \in Commit
    BY <2>1 DEF C
  <2>3. C.lock = last /\ C.lock # Absent
    BY <2>2, FindAssumption DEF WalkInv, LastIsKnown, Commit
  <2> QED BY <2>1, <2>3
<1> QED BY <1>1 DEF WalkInv, DepsAreKnown

\* What a failed install, build or test run leaves for the next commit.
LEMMA ResultGoesOn ==
  ASSUME WalkInv, NEW r \in Verdict, Result(r), at =< Len(branch),
         pc \in {"install", "build", "test"},
         UNCHANGED <<branch, installable, last>>,
         deps' = deps \/ (r = "fail_install" /\ pc = "install" /\ deps' = Partial),
         VerdictsAreRight'
  PROVE  WalkInv'
<1>1. /\ results' = Append(results, r) /\ at' = at + 1 /\ pc' = "checkout"
  BY DEF Result
<1>2. /\ Len(results) = at - 1 /\ at \in Nat /\ at >= 1 /\ Len(branch) \in Nat
      /\ results \in Seq(Verdict) /\ branch \in Seq(Commit)
  BY FindAssumption DEF WalkInv, WalkTypeOK, Branch
<1>3. /\ results' \in Seq(Verdict) /\ Len(results') = at
      /\ \A i \in 1..(at - 1) : results'[i] = results[i]
      /\ results'[at] = r
  BY <1>1, <1>2
<1>4. WalkTypeOK'
  BY <1>1, <1>2, <1>3 DEF WalkInv, WalkTypeOK
<1>5. ASSUME last # Absent
      PROVE  \E a \in 1..at : branch[a].lock = last /\ (pc = "install" => a # at)
  BY <1>5 DEF WalkInv, LastIsKnown, C
<1>6. LastIsKnown'
  <2>1. ASSUME last # Absent
        PROVE  \E a \in 1..at : a =< Len(branch) /\ branch[a].lock = last
    BY <1>2, <1>5, <2>1
  <2>2. last # Absent => last \in installable
    BY DEF WalkInv, LastIsKnown
  <2>3. at' - 1 = at /\ 1..at \in SUBSET (1..at')
    BY <1>1, <1>2
  <2> QED BY <1>1, <2>1, <2>2, <2>3 DEF LastIsKnown
<1>7. DepsAreKnown'
  <2> SUFFICES ASSUME last # Absent, deps' # last
               PROVE  \E a, b \in 1..at : /\ a < b /\ results'[b] = "fail_install"
                                          /\ branch[a].lock = last
    BY <1>3 DEF DepsAreKnown
  <2>1. CASE deps' = deps
    <3>1. PICK a \in 1..Len(results), b \in 1..Len(results) :
            a < b /\ results[b] = "fail_install" /\ branch[a].lock = last
      BY <2>1 DEF WalkInv, DepsAreKnown
    <3> QED BY <1>2, <1>3, <3>1
  <2>2. CASE r = "fail_install" /\ pc = "install"
    <3>1. PICK a \in 1..at : branch[a].lock = last /\ a # at
      BY <1>5, <2>2
    <3>2. a \in 1..at /\ at \in 1..at /\ a < at
      BY <1>2, <3>1
    <3> QED BY <1>3, <2>2, <3>1, <3>2
  <2> QED BY <2>1, <2>2
<1> QED BY <1>1, <1>4, <1>6, <1>7 DEF WalkInv, BuiltIsKnown

LEMMA WalkInit_Inv == FindInit => WalkInv
<1> SUFFICES ASSUME FindInit PROVE WalkInv
  OBVIOUS
<1>1. branch \in Seq(Commit) /\ installable \in SUBSET Locks
  BY FindAssumption DEF FindInit, Branch
<1>2. WalkTypeOK
  BY <1>1 DEF FindInit, WalkTypeOK
<1> QED
  BY <1>2 DEF FindInit, WalkInv, LastIsKnown, DepsAreKnown, BuiltIsKnown, VerdictsAreRight

LEMMA WalkStep_Inv == WalkInv /\ [FindNext]_findVars => WalkInv'
<1> SUFFICES ASSUME WalkInv, [FindNext]_findVars PROVE WalkInv'
  OBVIOUS
<1>1. /\ at \in Nat /\ at >= 1 /\ Len(branch) \in Nat /\ branch \in Seq(Commit)
      /\ at =< Len(branch) => C \in Commit
      /\ pc \in {"install", "build", "test"} => at =< Len(branch)
  BY FindAssumption DEF WalkInv, WalkTypeOK, Branch, C
<1>2. CASE Checkout
  <2> USE <1>2 DEF Checkout, WalkInv
  <2>1. WalkTypeOK'
    BY <1>1 DEF WalkTypeOK
  <2>2. LastIsKnown' /\ DepsAreKnown' /\ BuiltIsKnown'
    BY DEF LastIsKnown, LockfileChanged, DepsAreKnown, BuiltIsKnown, C
  <2>3. VerdictsAreRight'
    BY DEF VerdictsAreRight, Exposed, Good
  <2> QED BY <2>1, <2>2, <2>3
<1>3. CASE InstallPasses
  <2> USE <1>3 DEF InstallPasses, WalkInv
  <2>1. C \in Commit
    BY <1>1
  <2>2. WalkTypeOK'
    BY <1>1, <2>1 DEF WalkTypeOK, Commit
  <2>3. LastIsKnown' /\ DepsAreKnown' /\ BuiltIsKnown'
    <3>1. at \in 1..at /\ at =< Len(branch) /\ branch[at].lock = C.lock
      BY <1>1 DEF C
    <3> QED BY <3>1 DEF LastIsKnown, DepsAreKnown, BuiltIsKnown, C
  <2>4. VerdictsAreRight'
    BY DEF VerdictsAreRight, Exposed, Good
  <2> QED BY <2>2, <2>3, <2>4
<1>4. CASE InstallFails
  <2>1. ~Good(at)
    BY <1>4 DEF InstallFails, Good, C
  <2>2. VerdictsAreRight'
    BY <1>1, <1>4, <2>1, NextVerdict DEF InstallFails, Result, WalkInv, Verdict
  <2> QED BY <1>1, <1>4, <2>2, ResultGoesOn DEF InstallFails, Verdict
<1>5. CASE BuildPasses
  <2> USE <1>5 DEF BuildPasses, WalkInv
  <2>1. WalkTypeOK'
    BY <1>1 DEF WalkTypeOK
  <2>2. LastIsKnown' /\ DepsAreKnown' /\ BuiltIsKnown'
    BY DEF LastIsKnown, DepsAreKnown, BuiltIsKnown, MayPass, C
  <2>3. VerdictsAreRight'
    BY DEF VerdictsAreRight, Exposed, Good
  <2> QED BY <2>1, <2>2, <2>3
<1>6. CASE BuildFails
  <2>1. CASE deps = C.lock
    <3>1. ~Good(at)
      BY <1>6, <2>1 DEF BuildFails, MayFail, Good, C
    <3>2. VerdictsAreRight'
      BY <1>1, <1>6, <3>1, NextVerdict DEF BuildFails, Result, WalkInv, Verdict
    <3> QED BY <1>1, <1>6, <3>2, ResultGoesOn DEF BuildFails, Verdict
  <2>2. CASE deps # C.lock
    <3>1. VerdictsAreRight'
      BY <1>1, <1>6, <2>2, StaleIsExposed, NextVerdict
      DEF BuildFails, Result, WalkInv, Verdict
    <3> QED BY <1>1, <1>6, <3>1, ResultGoesOn DEF BuildFails, Verdict
  <2> QED BY <2>1, <2>2
<1>7. CASE TestsPass
  <2>1. /\ pc = "test" /\ pc' = "found" /\ results' = Append(results, "pass")
        /\ UNCHANGED <<branch, installable, at, last, deps>>
    BY <1>7 DEF TestsPass
  <2>2. VerdictsAreRight'
    <3>1. CASE deps = C.lock
      <4>1. C.passes /\ ~C.oldFails /\ C.builds
        BY <1>7, <3>1 DEF TestsPass, MayPass, WalkInv, BuiltIsKnown
      <4>2. C.lock \in installable
        <5>1. C.lock = last /\ C.lock \in Locks
          BY <1>1, <2>1 DEF WalkInv, LastIsKnown, Commit
        <5> QED BY <5>1, FindAssumption DEF WalkInv, LastIsKnown
      <4>3. Good(at)
        BY <4>1, <4>2 DEF Good, C
      <4> QED BY <1>1, <2>1, <4>1, <4>3, NextVerdict DEF WalkInv, Verdict
    <3>2. CASE deps # C.lock
      BY <1>1, <2>1, <3>2, StaleIsExposed, NextVerdict DEF WalkInv, Verdict
    <3> QED BY <3>1, <3>2
  <2>3. /\ results \in Seq(Verdict) /\ Len(results) = at - 1
        /\ results' \in Seq(Verdict) /\ Len(results') = at
        /\ \A i \in 1..(at - 1) : results'[i] = results[i]
    BY <1>1, <2>1 DEF WalkInv, WalkTypeOK, Verdict
  <2>4. WalkTypeOK'
    BY <1>1, <2>1, <2>3 DEF WalkInv, WalkTypeOK
  <2>5. LastIsKnown' /\ BuiltIsKnown'
    BY <2>1 DEF WalkInv, LastIsKnown, BuiltIsKnown
  <2>6. DepsAreKnown'
    <3> SUFFICES ASSUME last # Absent, deps # last
                 PROVE  \E a, b \in 1..at : /\ a < b /\ results'[b] = "fail_install"
                                            /\ branch[a].lock = last
      BY <2>1, <2>3 DEF DepsAreKnown
    <3>1. PICK a \in 1..Len(results), b \in 1..Len(results) :
            a < b /\ results[b] = "fail_install" /\ branch[a].lock = last
      BY DEF WalkInv, DepsAreKnown
    <3> QED BY <1>1, <2>3, <3>1
  <2> QED BY <2>2, <2>4, <2>5, <2>6 DEF WalkInv
<1>8. CASE TestsFail
  <2>1. CASE deps = C.lock
    <3>1. ~(Good(at) /\ ~C.oldFails)
      BY <1>8, <2>1 DEF TestsFail, MayFail, Good, C
    <3>2. VerdictsAreRight'
      BY <1>1, <1>8, <3>1, NextVerdict DEF TestsFail, Result, WalkInv, Verdict
    <3> QED BY <1>1, <1>8, <3>2, ResultGoesOn DEF TestsFail, Verdict
  <2>2. CASE deps # C.lock
    <3>1. VerdictsAreRight'
      BY <1>1, <1>8, <2>2, StaleIsExposed, NextVerdict
      DEF TestsFail, Result, WalkInv, Verdict
    <3> QED BY <1>1, <1>8, <3>1, ResultGoesOn DEF TestsFail, Verdict
  <2> QED BY <2>1, <2>2
<1>9. CASE NoneFound \/ UNCHANGED findVars
  <2>1. /\ UNCHANGED <<branch, installable, at, last, deps, results>>
        /\ UNCHANGED pc \/ (pc = "checkout" /\ pc' = "none")
    BY <1>9 DEF NoneFound, findVars
  <2>2. WalkTypeOK' /\ LastIsKnown' /\ DepsAreKnown' /\ BuiltIsKnown'
    BY <2>1 DEF WalkInv, WalkTypeOK, LastIsKnown, DepsAreKnown, BuiltIsKnown, C
  <2>3. VerdictsAreRight'
    BY <2>1 DEF WalkInv, VerdictsAreRight, Exposed, Good
  <2> QED BY <2>2, <2>3 DEF WalkInv
<1> QED BY <1>2, <1>3, <1>4, <1>5, <1>6, <1>7, <1>8, <1>9 DEF FindNext

\* The invariant of the walk, at every statement of the script.
THEOREM WalkInvariant == FindSpec => []WalkInv
<1> QED BY WalkInit_Inv, WalkStep_Inv, PTL DEF FindSpec

\* However many commits share a node_modules, a commit gets the verdict of a machine of
\* its own, save for a renamed test and for dependencies it shares with an earlier commit
\* across an install that failed.
THEOREM VerdictsAreOwn == FindSpec => []VerdictsAreRight
<1>1. WalkInv => VerdictsAreRight
  BY DEF WalkInv
<1> QED BY <1>1, WalkInvariant, PTL
-----------------------------------------------------------------------------
(* The gate *)

\* Where a call has measured C_test, and where it has measured both snapshots, the copies
\* that lie about are in snapshots without a file of the scope.
CopiesAreKnown ==
  /\ step \in {"copy", "tool"} /\ on = "C_llm" /\ "C_test" \in copies => Existing("C_test") = {}
  /\ step = "compare" => \A s \in copies : Existing(s) = {}

GateInv ==
  /\ step \in {"idle", "filter", "copy", "tool", "compare"}
  /\ on \in Snapshot
  /\ step = "filter" => on = "C_test"
  /\ copies \in SUBSET Snapshot
  /\ step # "idle" => exit = -1
  /\ CopiesAreKnown
  /\ SnapshotsAreClean

LEMMA GateInit_Inv == GateInit => GateInv
BY DEF GateInit, GateInv, Snapshot, CopiesAreKnown, SnapshotsAreClean

\* Measuring leaves no new copy behind, and goes from C_test to C_llm.
LEMMA GateStep_Measured ==
  ASSUME GateInv, NEW m, Measured(m), step \in {"copy", "tool"},
         copies' \in SUBSET copies,
         on \in copies' => Existing(on) = {}
  PROVE  GateInv'
<1>1. /\ on' = "C_llm" /\ UNCHANGED <<files, scope, exit>>
      /\ step' = IF on = "C_test" THEN "copy" ELSE "compare"
  BY DEF Measured
<1>2. \A s \in Snapshot : Existing(s)' = Existing(s)
  BY <1>1 DEF Existing
<1>3. CopiesAreKnown'
  <2>1. CASE on = "C_test"
    BY <1>1, <1>2, <2>1 DEF CopiesAreKnown, Snapshot
  <2>2. CASE on = "C_llm"
    BY <1>1, <1>2, <2>2 DEF GateInv, CopiesAreKnown, Snapshot
  <2> QED BY <2>1, <2>2 DEF GateInv, Snapshot
<1> QED BY <1>1, <1>3 DEF GateInv, SnapshotsAreClean, Snapshot

LEMMA GateStep_Inv == GateInv /\ [GateNext]_gateVars => GateInv'
<1> SUFFICES ASSUME GateInv, [GateNext]_gateVars PROVE GateInv'
  OBVIOUS
<1>1. CASE Call
  BY <1>1 DEF Call, GateInv, Snapshot, CopiesAreKnown, SnapshotsAreClean
<1>2. CASE PassEmptyScope
  <2>1. \A s \in Snapshot : Existing(s)' = {}
    BY <1>2 DEF PassEmptyScope, Existing
  <2> QED
    BY <1>2, <2>1
    DEF PassEmptyScope, ExitWith, GateInv, CopiesAreKnown, SnapshotsAreClean
<1>3. CASE BeginMeasuring
  BY <1>3 DEF BeginMeasuring, GateInv, CopiesAreKnown, SnapshotsAreClean
<1>4. CASE NothingThere
  BY <1>4, GateStep_Measured DEF NothingThere
<1>5. CASE CopyTool
  <2>1. \A s \in Snapshot : Existing(s)' = Existing(s)
    BY <1>5 DEF CopyTool, Existing
  <2> QED
    BY <1>5, <2>1 DEF CopyTool, GateInv, CopiesAreKnown, SnapshotsAreClean, Snapshot
<1>6. CASE ToolSucceeds
  BY <1>6, GateStep_Measured DEF ToolSucceeds
<1>7. CASE ToolFails
  BY <1>7 DEF ToolFails, ExitWith, GateInv, CopiesAreKnown, SnapshotsAreClean
<1>8. CASE Compare
  <2>1. \A s \in Snapshot : Existing(s)' = Existing(s)
    BY <1>8 DEF Compare, Existing
  <2>2. /\ step = "compare" /\ step' = "idle" /\ UNCHANGED <<on, copies>>
    BY <1>8 DEF Compare, ExitWith
  <2> QED BY <2>1, <2>2 DEF GateInv, CopiesAreKnown, SnapshotsAreClean
<1>9. CASE Kill
  BY <1>9 DEF Kill, ExitWith, GateInv, CopiesAreKnown, SnapshotsAreClean
<1>10. CASE UNCHANGED gateVars
  BY <1>10 DEF gateVars, GateInv, CopiesAreKnown, SnapshotsAreClean, Existing
<1> QED
  BY <1>1, <1>2, <1>3, <1>4, <1>5, <1>6, <1>7, <1>8, <1>9, <1>10 DEF GateNext

\* After any number of calls, killed or broken down anywhere, one that measures both
\* snapshots leaves no copy of the tool in either.
THEOREM CleanSnapshots == GateSpec => []SnapshotsAreClean
<1>1. GateInv => SnapshotsAreClean
  BY DEF GateInv
<1> QED BY <1>1, GateInit_Inv, GateStep_Inv, PTL DEF GateSpec
-----------------------------------------------------------------------------
(* Sums over the files of a scope *)

\* A set of natural numbers that is not empty has a least element.
LEMMA LeastOf ==
  ASSUME NEW H \in SUBSET Nat, H # {}
  PROVE  \E n \in H : \A m \in H : n =< m
<1> DEFINE Less == {ss \in Nat \X Nat : ss[1] < ss[2]}
<1>1. IsWellFoundedOn(Less, Nat)
  BY NatLessThanWellFounded DEF OpToRel
<1>2. \E n \in H : \A m \in H : ~ (<<m, n>> \in Less)
  BY <1>1, WFMin
<1>3. \A m, n \in Nat : <<m, n>> \in Less \/ n =< m
  OBVIOUS
<1> QED BY <1>2, <1>3

\* The element a sum takes first.
Some(u) == CHOOSE x \in u : TRUE
Rest(u) == u \ {Some(u)}

\* One element less: the measure of the induction below.
LEMMA TakingSome ==
  ASSUME NEW E, IsFiniteSet(E), NEW u \in SUBSET E
  PROVE  /\ IsFiniteSet(u) /\ Cardinality(u) \in Nat
         /\ u # {} => /\ Some(u) \in u
                      /\ Rest(u) \in SUBSET E
                      /\ Cardinality(Rest(u)) \in Nat
                      /\ Cardinality(u) = Cardinality(Rest(u)) + 1
<1>1. IsFiniteSet(u) /\ Cardinality(u) \in Nat
  BY FS_Subset, FS_CardinalityType
<1>2. ASSUME u # {}
      PROVE  /\ Some(u) \in u
             /\ Cardinality(Rest(u)) = Cardinality(u) - 1
             /\ Cardinality(Rest(u)) \in Nat
  <2>1. Some(u) \in u
    BY <1>2 DEF Some
  <2> QED BY <1>1, <2>1, FS_RemoveElement, FS_CardinalityType DEF Rest
<1> QED BY <1>1, <1>2 DEF Rest

\* What holds of the empty set, and of a set when it holds of the set without the element
\* a sum takes first, holds of all subsets of a finite set.
LEMMA SumInduction ==
  ASSUME NEW E, IsFiniteSet(E), NEW X \in SUBSET (SUBSET E), {} \in X,
         \A u \in SUBSET E : u # {} /\ Rest(u) \in X => u \in X
  PROVE  X = SUBSET E
<1> DEFINE H == {Cardinality(u) : u \in (SUBSET E) \ X}
<1> SUFFICES ASSUME X # SUBSET E PROVE FALSE
  OBVIOUS
<1>0. \A u \in SUBSET E : /\ Cardinality(u) \in Nat
                          /\ u # {} => /\ Rest(u) \in SUBSET E
                                       /\ Cardinality(Rest(u)) \in Nat
                                       /\ Cardinality(u) = Cardinality(Rest(u)) + 1
  BY TakingSome
<1>1. H \in SUBSET Nat /\ H # {}
  <2>1. PICK u \in SUBSET E : u \notin X
    OBVIOUS
  <2>2. Cardinality(u) \in H
    BY <2>1
  <2>3. \A v \in (SUBSET E) \ X : Cardinality(v) \in Nat
    BY <1>0
  <2> QED BY <2>2, <2>3
<1>2. PICK n \in H : \A m \in H : n =< m
  BY <1>1, LeastOf
<1>3. PICK u \in (SUBSET E) \ X : n = Cardinality(u)
  BY <1>2
<1>4. u # {} /\ Rest(u) \notin X
  BY <1>3
<1>5. /\ Rest(u) \in (SUBSET E) \ X /\ Cardinality(Rest(u)) \in Nat
      /\ Cardinality(u) = Cardinality(Rest(u)) + 1
  BY <1>0, <1>3, <1>4
<1>6. Cardinality(Rest(u)) \in H
  BY <1>5
<1> HIDE DEF H
<1> QED BY <1>2, <1>3, <1>5, <1>6

\* sum adds g up over the subsets of E.
AddsUp(sum, g, E) ==
  sum = [u \in SUBSET E |-> IF u = {} THEN 0 ELSE g[Some(u)] + sum[Rest(u)]]

\* The subsets of up to n elements.
Small(E, n) == {u \in SUBSET E : Cardinality(u) =< n}

\* It is there: a sum over the small subsets is extended by those of one element more.
LEMMA SumExists ==
  ASSUME NEW E, IsFiniteSet(E), NEW g
  PROVE  \E sum : AddsUp(sum, g, E)
<1> DEFINE Next(sum, u) == IF u = {} THEN 0 ELSE g[Some(u)] + sum[Rest(u)]
           Upto(n) == \E sum : sum = [u \in Small(E, n) |-> Next(sum, u)]
           H == {n \in Nat : ~Upto(n)}
<1>0. \A u \in SUBSET E : /\ Cardinality(u) \in Nat
                          /\ u # {} => /\ Rest(u) \in SUBSET E
                                       /\ Cardinality(Rest(u)) \in Nat
                                       /\ Cardinality(u) = Cardinality(Rest(u)) + 1
  BY TakingSome
<1>1. Upto(0)
  <2>1. \A u \in Small(E, 0) : u = {}
    BY <1>0 DEF Small
  <2>2. [u \in Small(E, 0) |-> 0] = [u \in Small(E, 0) |-> Next([v \in Small(E, 0) |-> 0], u)]
    BY <2>1
  <2> QED BY <2>2
<1>2. ASSUME NEW n \in Nat, Upto(n)
      PROVE  Upto(n + 1)
  <2>1. PICK sum : sum = [u \in Small(E, n) |-> Next(sum, u)]
    BY <1>2
  <2> DEFINE more == [u \in Small(E, n + 1) |-> Next(sum, u)]
  <2>2. \A u \in Small(E, n) : u \in Small(E, n + 1) /\ sum[u] = Next(sum, u)
    BY <1>0, <2>1 DEF Small
  <2>3. \A u \in Small(E, n) : more[u] = sum[u]
    BY <2>2
  <2>4. \A u \in Small(E, n + 1) : u # {} => Rest(u) \in Small(E, n)
    BY <1>0 DEF Small
  <2> HIDE DEF more
  <2>5. \A u \in Small(E, n + 1) : Next(sum, u) = Next(more, u)
    BY <2>3, <2>4
  <2>6. more = [u \in Small(E, n + 1) |-> Next(more, u)]
    BY <2>5 DEF more
  <2> QED BY <2>6
<1> HIDE DEF Upto
<1>3. \A n \in Nat : Upto(n)
  <2> SUFFICES ASSUME H # {} PROVE FALSE
    OBVIOUS
  <2>1. PICK n \in H : \A m \in H : n =< m
    BY LeastOf
  <2>2. n # 0 /\ n - 1 \in Nat /\ n - 1 \notin H
    BY <1>1, <2>1
  <2>3. Upto(n - 1) /\ (n - 1) + 1 = n
    BY <2>2
  <2> QED BY <1>2, <2>1, <2>2, <2>3
<1>4. Cardinality(E) \in Nat /\ Small(E, Cardinality(E)) = SUBSET E
  BY FS_Subset, FS_CardinalityType DEF Small
<1> QED BY <1>3, <1>4 DEF Upto, AddsUp

\* SumFunction adds a function up over its domain.
LEMMA TotalAddsUp ==
  ASSUME NEW g, IsFiniteSet(DOMAIN g)
  PROVE  \E sum : AddsUp(sum, g, DOMAIN g) /\ SumFunction(g) = sum[DOMAIN g]
<1>1. \E sum : AddsUp(sum, g, DOMAIN g)
  BY SumExists
<1> QED BY <1>1 DEF AddsUp, Some, Rest, SumFunction, SumFunctionOnSet, FoldFunctionOnSet, MapThenFoldSet

\* A total of natural numbers is one.
LEMMA SumsAreNatural ==
  ASSUME NEW E, IsFiniteSet(E), NEW g \in [E -> Nat], NEW sum, AddsUp(sum, g, E)
  PROVE  \A u \in SUBSET E : sum[u] \in Nat
<1> DEFINE X == {u \in SUBSET E : sum[u] \in Nat}
<1>1. {} \in X
  BY DEF AddsUp
<1>2. ASSUME NEW u \in SUBSET E, u # {}, Rest(u) \in X
      PROVE  u \in X
  <2>1. sum[u] = g[Some(u)] + sum[Rest(u)]
    BY <1>2 DEF AddsUp
  <2>2. Some(u) \in E
    BY <1>2, TakingSome
  <2> QED BY <1>2, <2>1, <2>2
<1>3. X \in SUBSET (SUBSET E)
  OBVIOUS
<1>4. \A u \in X : sum[u] \in Nat
  OBVIOUS
<1> HIDE DEF X
<1>5. X = SUBSET E
  BY <1>1, <1>2, <1>3, SumInduction
<1> QED BY <1>4, <1>5

\* If each term of one sum vanishes with that of another, so does the sum.
LEMMA SumsVanish ==
  ASSUME NEW E, IsFiniteSet(E), NEW g \in [E -> Nat], NEW h \in [E -> Nat],
         \A e \in E : g[e] = 0 => h[e] = 0,
         NEW sum, AddsUp(sum, g, E), NEW other, AddsUp(other, h, E)
  PROVE  \A u \in SUBSET E : sum[u] = 0 => other[u] = 0
<1> DEFINE X == {u \in SUBSET E : sum[u] = 0 => other[u] = 0}
<1>1. {} \in X
  BY DEF AddsUp
<1>2. ASSUME NEW u \in SUBSET E, u # {}, Rest(u) \in X
      PROVE  u \in X
  <2>1. sum[u] = g[Some(u)] + sum[Rest(u)] /\ other[u] = h[Some(u)] + other[Rest(u)]
    BY <1>2 DEF AddsUp
  <2>2. Some(u) \in E
    BY <1>2, TakingSome
  <2>3. sum[Rest(u)] \in Nat /\ other[Rest(u)] \in Nat
    BY <1>2, SumsAreNatural
  <2>4. g[Some(u)] \in Nat /\ h[Some(u)] \in Nat
    BY <2>2
  <2>5. sum[u] = 0 => g[Some(u)] = 0 /\ sum[Rest(u)] = 0
    BY <2>1, <2>3, <2>4
  <2> QED BY <1>2, <2>1, <2>2, <2>5
<1>3. X \in SUBSET (SUBSET E)
  OBVIOUS
<1>4. \A u \in X : sum[u] = 0 => other[u] = 0
  OBVIOUS
<1> HIDE DEF X
<1>5. X = SUBSET E
  BY <1>1, <1>2, <1>3, SumInduction
<1> QED BY <1>4, <1>5

\* The totals of the files that are there, if they can be parsed.
LEMMA TotalsKnown ==
  ASSUME NEW s \in Snapshot, files \in [Snapshot -> [Files -> Content]], scope \in {Files, {}},
         Parses(s)
  PROVE  /\ Functions(s) \in Nat /\ Cognitive(s) \in Nat
         /\ Functions(s) = 0 => Cognitive(s) = 0
         /\ Existing(s) = {} => Functions(s) = 0
<1> DEFINE E == Existing(s)
           g == [f \in E |-> files[s][f].fns]
           h == [f \in E |-> files[s][f].cog]
<1>1. E \in SUBSET Files /\ IsFiniteSet(E)
  BY GateAssumption, FS_Subset DEF Existing
<1>2. \A f \in E : files[s][f] \in Sources
  BY <1>1 DEF Existing, Parses, Content
<1>3. g \in [E -> Nat] /\ h \in [E -> Nat] /\ \A f \in E : g[f] = 0 => h[f] = 0
  BY <1>2, GateAssumption DEF Source
<1>4. DOMAIN g = E /\ DOMAIN h = E /\ Functions(s) = SumFunction(g) /\ Cognitive(s) = SumFunction(h)
  BY DEF Functions, Cognitive
<1> HIDE DEF E, g, h
<1>5. PICK sum : AddsUp(sum, g, E) /\ SumFunction(g) = sum[E]
  BY <1>1, <1>4, TotalAddsUp
<1>6. PICK other : AddsUp(other, h, E) /\ SumFunction(h) = other[E]
  BY <1>1, <1>4, TotalAddsUp
<1>7. sum[E] \in Nat /\ other[E] \in Nat
  BY <1>1, <1>3, <1>5, <1>6, SumsAreNatural
<1>8. sum[E] = 0 => other[E] = 0
  BY <1>1, <1>3, <1>5, <1>6, SumsVanish
<1>9. E = {} => sum[E] = 0
  BY <1>5 DEF AddsUp
<1> QED BY <1>4, <1>5, <1>6, <1>7, <1>8, <1>9 DEF E

\* What the mean is taken over: no function counts as one.
OneOrMore(n) == IF n = 0 THEN 1 ELSE n

\* A rounded mean is within half a unit of the mean.
LEMMA RoundedIsNear ==
  ASSUME NEW cog \in Nat, NEW fns \in Nat, fns = 0 => cog = 0
  PROVE  /\ Rounded(cog, fns) \in Nat /\ OneOrMore(fns) \in Nat \ {0}
         /\ (2 * Rounded(cog, fns) - 1) * OneOrMore(fns) =< 20000 * cog
         /\ 20000 * cog < (2 * Rounded(cog, fns) + 1) * OneOrMore(fns)
<1> DEFINE m == Rounded(cog, fns)
           n == OneOrMore(fns)
<1>1. CASE fns = 0
  BY <1>1 DEF Rounded, OneOrMore
<1>2. CASE fns # 0
  <2> DEFINE a == 20000 * cog + fns
             b == 2 * fns
  <2>1. a \in Nat /\ b \in Nat \ {0} /\ n = fns /\ m = a \div b
    BY <1>2 DEF Rounded, OneOrMore
  <2> HIDE DEF a, b
  <2>2. (a \div b) \in Nat /\ b * (a \div b) =< a /\ a < b * (a \div b) + b
    BY <2>1
  <2> HIDE DEF m, n
  <2>3. m \in Nat
    BY <2>1, <2>2
  <2>4. b * m = (2 * m) * n
    <3>1. b = 2 * fns /\ n = fns
      BY <2>1 DEF b
    <3> QED BY <2>3, <3>1
  <2>5. (2 * m - 1) * n = (2 * m) * n - n /\ (2 * m + 1) * n = (2 * m) * n + n
    BY <1>2, <2>1, <2>3
  <2> QED BY <1>2, <2>1, <2>2, <2>3, <2>4, <2>5 DEF a, b, m, n
<1> QED BY <1>1, <1>2

\* So the difference of two rounded means is within a unit of that of the means.
LEMMA RoundingTwice ==
  ASSUME NEW a \in Nat, NEW m \in Nat, NEW k \in Nat \ {0},
         NEW b \in Nat, NEW n \in Nat, NEW l \in Nat \ {0},
         (2 * m - 1) * k =< 20000 * a, 20000 * a < (2 * m + 1) * k,
         (2 * n - 1) * l =< 20000 * b, 20000 * b < (2 * n + 1) * l,
         NEW t \in Nat
  PROVE  /\ 10000 * (b * k - a * l) > (t + 1) * k * l => n - m > t
         /\ ~(10000 * (b * k - a * l) > (t - 1) * k * l) => n - m < t
<1> DEFINE p == k * l
           x == b * k
           y == a * l
<1>1. p \in Nat \ {0} /\ x \in Nat /\ y \in Nat
  OBVIOUS
<1>2. (2 * m - 1) * p =< 20000 * y /\ 20000 * y < (2 * m + 1) * p
  OBVIOUS
<1>3. (2 * n - 1) * p =< 20000 * x /\ 20000 * x < (2 * n + 1) * p
  OBVIOUS
<1>4. (t + 1) * k * l = (t + 1) * p /\ (t - 1) * k * l = (t - 1) * p
  OBVIOUS
<1> HIDE DEF p, x, y
<1>5. 2 * ((n - m) - 1) * p < 2 * 10000 * (x - y) /\ 2 * 10000 * (x - y) < 2 * ((n - m) + 1) * p
  BY <1>1, <1>2, <1>3
<1>6. 10000 * (x - y) > (t + 1) * p => n - m > t
  BY <1>1, <1>5
<1>7. ~(10000 * (x - y) > (t - 1) * p) => n - m < t
  BY <1>1, <1>5
<1> QED BY <1>4, <1>6, <1>7 DEF p, x, y

-----------------------------------------------------------------------------
(* The verdict *)

\* The files of a snapshot were measured, and this is their rounded mean.
MeanIsKnown(s) == Parses(s) /\ mean[s] = Rounded(Cognitive(s), Functions(s))

\* What a call has measured is known until it has compared.
VerdictInv ==
  /\ files \in [Snapshot -> [Files -> Content]] /\ scope \in {Files, {}}
  /\ DOMAIN mean = Snapshot
  /\ step \in {"copy", "tool"} /\ on = "C_llm" => MeanIsKnown("C_test")
  /\ step = "compare" => \A s \in Snapshot : MeanIsKnown(s)
  /\ VerdictIsRight

LEMMA VerdictInit_Inv == GateInit => VerdictInv
BY DEF GateInit, VerdictInv, VerdictIsRight, Snapshot

\* As long as neither the files nor the scope change, nor do the totals.
LEMMA TotalsStay ==
  ASSUME UNCHANGED <<files, scope>>
  PROVE  \A s \in Snapshot : /\ Existing(s)' = Existing(s)
                             /\ Functions(s)' = Functions(s)
                             /\ Cognitive(s)' = Cognitive(s)
                             /\ Parses(s)' = Parses(s)
<1>1. \A s \in Snapshot : Existing(s)' = Existing(s)
  BY DEF Existing
<1> QED BY <1>1 DEF Functions, Cognitive, Parses

\* A snapshot is measured by the rounded mean of its functions, and that is known from
\* then on.
LEMMA VerdictStep_Measured ==
  ASSUME GateInv, VerdictInv, step \in {"copy", "tool"}, Parses(on),
         Measured(Rounded(Cognitive(on), Functions(on)))
  PROVE  VerdictInv'
<1>1. /\ mean' = [mean EXCEPT ![on] = Rounded(Cognitive(on), Functions(on))]
      /\ on' = "C_llm" /\ UNCHANGED <<files, scope, exit>>
      /\ step' = IF on = "C_test" THEN "copy" ELSE "compare"
  BY DEF Measured
<1>2. on \in Snapshot
  BY DEF GateInv
<1>3. \A s \in Snapshot : s = on => MeanIsKnown(s)'
  BY <1>1, <1>2, TotalsStay DEF MeanIsKnown, VerdictInv
<1>4. \A s \in Snapshot : s # on /\ MeanIsKnown(s) => MeanIsKnown(s)'
  BY <1>1, TotalsStay DEF MeanIsKnown, VerdictInv
<1> QED BY <1>1, <1>2, <1>3, <1>4 DEF VerdictInv, VerdictIsRight, Snapshot

\* The comparison of the rounded means is right of the exact ones, but for a unit.
LEMMA VerdictStep_Compare ==
  ASSUME VerdictInv, Compare
  PROVE  VerdictIsRight'
<1> DEFINE a == Cognitive("C_test")
           b == Cognitive("C_llm")
           k == OneOrMore(Functions("C_test"))
           l == OneOrMore(Functions("C_llm"))
           m == mean["C_test"]
           n == mean["C_llm"]
<1>1. MeanIsKnown("C_test") /\ MeanIsKnown("C_llm")
  BY DEF VerdictInv, Compare, Snapshot
<1>2. ASSUME NEW s \in Snapshot, MeanIsKnown(s)
      PROVE  /\ Cognitive(s) \in Nat /\ mean[s] \in Nat
             /\ OneOrMore(Functions(s)) \in Nat \ {0}
             /\ (2 * mean[s] - 1) * OneOrMore(Functions(s)) =< 20000 * Cognitive(s)
             /\ 20000 * Cognitive(s) < (2 * mean[s] + 1) * OneOrMore(Functions(s))
  <2>1. /\ Functions(s) \in Nat /\ Cognitive(s) \in Nat
        /\ Functions(s) = 0 => Cognitive(s) = 0
    BY <1>2, TotalsKnown DEF VerdictInv, MeanIsKnown
  <2>2. mean[s] = Rounded(Cognitive(s), Functions(s))
    BY <1>2 DEF MeanIsKnown
  <2> DEFINE cog == Cognitive(s)
             fns == Functions(s)
  <2>3. cog \in Nat /\ fns \in Nat /\ (fns = 0 => cog = 0)
    BY <2>1
  <2> HIDE DEF cog, fns
  <2>4. /\ Rounded(cog, fns) \in Nat /\ OneOrMore(fns) \in Nat \ {0}
        /\ (2 * Rounded(cog, fns) - 1) * OneOrMore(fns) =< 20000 * cog
        /\ 20000 * cog < (2 * Rounded(cog, fns) + 1) * OneOrMore(fns)
    BY <2>3, RoundedIsNear
  <2> QED BY <2>2, <2>3, <2>4 DEF cog, fns
<1>3. /\ a \in Nat /\ m \in Nat /\ k \in Nat \ {0}
      /\ (2 * m - 1) * k =< 20000 * a /\ 20000 * a < (2 * m + 1) * k
  BY <1>1, <1>2 DEF Snapshot
<1>4. /\ b \in Nat /\ n \in Nat /\ l \in Nat \ {0}
      /\ (2 * n - 1) * l =< 20000 * b /\ 20000 * b < (2 * n + 1) * l
  BY <1>1, <1>2 DEF Snapshot
<1>5. UNCHANGED <<files, scope>>
  BY DEF Compare
<1>6. \A u : Exceeds(u)' <=> 10000 * (b * k - a * l) > u * k * l
  BY <1>5, TotalsStay DEF Exceeds, OneOrMore, Snapshot
<1>7. \E pass \in Within(n - m, m) : exit' = IF pass THEN 0 ELSE 1
  BY DEF Compare, ExitWith
<1> HIDE DEF a, b, k, l, m, n
<1>8. /\ 10000 * (b * k - a * l) > (Threshold + 1) * k * l => n - m > Threshold
      /\ ~(10000 * (b * k - a * l) > (Threshold - 1) * k * l) => n - m < Threshold
  BY <1>3, <1>4, RoundingTwice DEF Threshold
<1>9. PICK pass \in Within(n - m, m) : exit' = IF pass THEN 0 ELSE 1
  BY <1>7
<1>10. ASSUME n - m > Threshold \/ n - m < Threshold
       PROVE  exit' = IF n - m =< Threshold THEN 0 ELSE 1
  <2>1. n - m # Threshold
    BY <1>3, <1>4, <1>10 DEF Threshold
  <2>2. pass \in {n - m =< Threshold}
    BY <1>9, <2>1 DEF Within
  <2> QED BY <1>9, <2>2
<1>11. /\ n - m > Threshold => exit' = 1
       /\ n - m < Threshold => exit' = 0
  BY <1>3, <1>4, <1>10 DEF Threshold
<1> QED BY <1>6, <1>8, <1>11 DEF VerdictIsRight

LEMMA VerdictStep_Inv == GateInv /\ VerdictInv /\ [GateNext]_gateVars => VerdictInv'
<1> SUFFICES ASSUME GateInv, VerdictInv, [GateNext]_gateVars PROVE VerdictInv'
  OBVIOUS
<1>1. CASE Call
  BY <1>1 DEF Call, VerdictInv, VerdictIsRight, Snapshot
<1>2. CASE PassEmptyScope
  <2>1. UNCHANGED <<files, scope, mean>> /\ scope = {} /\ step' = "idle" /\ exit' = 0
    BY <1>2 DEF PassEmptyScope, ExitWith
  <2>2. \A s \in Snapshot : Existing(s) = {} /\ Parses(s)
    BY <2>1 DEF Existing, Parses
  <2>3. \A s \in Snapshot : Functions(s)' = 0 /\ Cognitive(s)' = 0
    BY <2>1, <2>2, TotalsKnown, TotalsStay DEF VerdictInv
  <2>4. ~Exceeds(Threshold + 1)'
    BY <2>3 DEF Exceeds, Threshold, Snapshot
  <2> QED BY <2>1, <2>4 DEF VerdictInv, VerdictIsRight
<1>3. CASE BeginMeasuring
  BY <1>3 DEF BeginMeasuring, GateInv, VerdictInv, VerdictIsRight
<1>4. CASE NothingThere
  <2>1. on \in Snapshot /\ Existing(on) = {} /\ Parses(on) /\ Measured(0)
    BY <1>4 DEF NothingThere, Parses, GateInv
  <2>2. Rounded(Cognitive(on), Functions(on)) = 0
    BY <2>1, TotalsKnown DEF VerdictInv, Rounded
  <2> QED BY <1>4, <2>1, <2>2, VerdictStep_Measured DEF NothingThere
<1>5. CASE CopyTool
  <2>1. UNCHANGED <<files, scope, mean, on>> /\ step = "copy" /\ step' = "tool"
    BY <1>5 DEF CopyTool
  <2> QED BY <2>1, TotalsStay DEF VerdictInv, VerdictIsRight, MeanIsKnown, Snapshot
<1>6. CASE ToolSucceeds
  BY <1>6, VerdictStep_Measured DEF ToolSucceeds
<1>7. CASE ToolFails \/ Kill
  BY <1>7 DEF ToolFails, Kill, ExitWith, VerdictInv, VerdictIsRight
<1>8. CASE Compare
  BY <1>8, VerdictStep_Compare DEF Compare, ExitWith, VerdictInv
<1>9. CASE UNCHANGED gateVars
  <2>1. UNCHANGED <<files, scope, mean, on, step, exit>>
    BY <1>9 DEF gateVars
  <2> QED
    BY <2>1, TotalsStay DEF VerdictInv, VerdictIsRight, MeanIsKnown, Exceeds, Snapshot
<1> QED
  BY <1>1, <1>2, <1>3, <1>4, <1>5, <1>6, <1>7, <1>8, <1>9 DEF GateNext

\* For every set of files and any contents of them, the exit code is right of the exact
\* means, but for a unit of 1/10000 on either side of the threshold.
THEOREM ExitCodeIsRight == GateSpec => []VerdictIsRight
<1>1. GateSpec => []GateInv
  BY GateInit_Inv, GateStep_Inv, PTL DEF GateSpec
<1>2. VerdictInv => VerdictIsRight
  BY DEF VerdictInv
<1> QED BY <1>1, <1>2, VerdictInit_Inv, VerdictStep_Inv, PTL DEF GateSpec
=============================================================================
