--------------------------- MODULE ComplexityGate ----------------------------
(***************************************************************************)
(* complexity_gate_v2.mjs: the mean cognitive complexity of the functions  *)
(* in the scoped files of C_llm against that of C_test.  The measuring     *)
(* tool is copied into each snapshot in turn, to find its node_modules     *)
(* there, and is removed again unless the tool fails or the gate dies.     *)
(* The gate is called once for each candidate made from one C_test.        *)
(***************************************************************************)
EXTENDS Integers, FiniteSets, Functions

CONSTANTS
  Files,       \* the source files a scope may name
  Sources,     \* the contents that occur, see Source
  Missing,     \* no such file in the snapshot
  Unparsable,  \* a file the tool cannot parse
  MaxCalls     \* bound: how often the gate is called

\* What a file counts for: its functions, and the sum of their complexities.
Source == [fns : Nat, cog : Nat]

ASSUME GateAssumption ==
  /\ IsFiniteSet(Files) /\ IsFiniteSet(Sources) /\ Sources \subseteq Source
  /\ \A c \in Sources : c.fns = 0 => c.cog = 0
  /\ Missing \notin Sources /\ Unparsable \notin Sources /\ Missing # Unparsable
  /\ MaxCalls \in Nat

Snapshot == {"C_test", "C_llm"}
Content == Sources \union {Missing, Unparsable}

VARIABLES
  step,     \* "idle", "filter", "copy", "tool" or "compare"
  on,       \* the snapshot that is measured
  files,    \* the contents of the files of both snapshots
  scope,    \* the files left of --scope-files after the filter
  copies,   \* the snapshots with a _complexity_measure_tmp.mjs in them
  mean,     \* mean_cog of the snapshots, in units of 1/10000
  verdict,  \* gates/complexity-gate.json: the call that wrote it, gate_pass
  exit,     \* the exit code of the last call, -1 if it was killed or has none
  call      \* history: the number of the call

gateVars == <<step, on, files, scope, copies, mean, verdict, exit, call>>

Threshold == 500   \* --delta 0.05

Existing(s) == {f \in scope : files[s][f] # Missing}
Functions(s) == SumFunction([f \in Existing(s) |-> files[s][f].fns])
Cognitive(s) == SumFunction([f \in Existing(s) |-> files[s][f].cog])
Parses(s) == \A f \in Existing(s) : files[s][f] # Unparsable

\* (cog / fns).toFixed(4), half a unit and more rounded up; 0 of no function.
Rounded(cog, fns) == IF fns = 0 THEN 0 ELSE (20000 * cog + fns) \div (2 * fns)

GateInit ==
  /\ step = "idle"
  /\ on = "C_test"
  /\ files \in [Snapshot -> [Files -> Content]]
  /\ files["C_llm"] = files["C_test"]
  /\ scope \in {Files, {}}
  /\ copies = {}
  /\ mean = [s \in Snapshot |-> 0]
  /\ verdict = [call |-> 0, pass |-> TRUE]
  /\ exit = -1
  /\ call = 0

\* A candidate is made from C_test, with what lies about in its directory.
Call ==
  /\ step = "idle" /\ call < MaxCalls
  /\ \E c \in [Files -> Content] : files' = [files EXCEPT !["C_llm"] = c]
  /\ copies' = IF "C_test" \in copies THEN Snapshot ELSE {}
  /\ call' = call + 1
  /\ exit' = -1
  /\ on' = "C_test"
  /\ step' = "filter"
  /\ UNCHANGED <<scope, mean, verdict>>

ExitWith(code) == exit' = code /\ step' = "idle"

\* "gate skipped (pass)": the verdict of an empty scope.
PassEmptyScope ==
  /\ step = "filter"
  /\ scope = {}
  /\ verdict' = [call |-> call, pass |-> TRUE]
  /\ ExitWith(0)
  /\ UNCHANGED <<on, files, scope, copies, mean, call>>

BeginMeasuring ==
  /\ step = "filter"
  /\ scope # {}
  /\ step' = "copy"
  /\ UNCHANGED <<on, files, scope, copies, mean, verdict, exit, call>>

\* measureSnapshot returns mean_cog, and the next snapshot is measured.
Measured(m) ==
  /\ mean' = [mean EXCEPT ![on] = m]
  /\ on' = "C_llm"
  /\ step' = IF on = "C_test" THEN "copy" ELSE "compare"
  /\ UNCHANGED <<files, scope, verdict, exit, call>>

NothingThere ==
  /\ step = "copy"
  /\ Existing(on) = {}
  /\ Measured(0)
  /\ UNCHANGED copies

CopyTool ==
  /\ step = "copy"
  /\ Existing(on) # {}
  /\ copies' = copies \union {on}
  /\ step' = "tool"
  /\ UNCHANGED <<on, files, scope, mean, verdict, exit, call>>

\* Mutant of ToolSucceeds: the copy is removed before C_llm is measured only.
ToolSucceedsOnce ==
  /\ step = "tool"
  /\ Parses(on)
  /\ Measured(Rounded(Cognitive(on), Functions(on)))
  /\ copies' = IF on = "C_test" THEN copies \ {on} ELSE copies

ToolSucceeds ==
  /\ step = "tool"
  /\ Parses(on)
  /\ Measured(Rounded(Cognitive(on), Functions(on)))
  /\ copies' = copies \ {on}

\* process.exit(2) inside the try block: its finally clause never runs.
ToolFails ==
  /\ step = "tool"
  /\ ~Parses(on)
  /\ ExitWith(2)
  /\ UNCHANGED <<on, files, scope, copies, mean, verdict, call>>

\* Mutant of Within: a difference the wrong way round.
WithinReversed(d, t) == {-d <= Threshold}
\* diff <= delta in binary floating point: with neither mean 0, a difference
\* of the threshold itself comes out on either side of it.
Within(d, t) == IF d = Threshold /\ t # 0 THEN BOOLEAN ELSE {d <= Threshold}

Compare ==
  /\ step = "compare"
  /\ \E pass \in Within(mean["C_llm"] - mean["C_test"], mean["C_test"]) :
       /\ verdict' = [call |-> call, pass |-> pass]
       /\ ExitWith(IF pass THEN 0 ELSE 1)
  /\ UNCHANGED <<on, files, scope, copies, mean, call>>

\* The gate is killed, with the script that called it.
Kill ==
  /\ step # "idle"
  /\ ExitWith(-1)
  /\ UNCHANGED <<on, files, scope, copies, mean, verdict, call>>

GateNext == \/ Call \/ PassEmptyScope \/ BeginMeasuring \/ NothingThere \/ CopyTool
            \/ ToolSucceeds \/ ToolFails \/ Compare \/ Kill

GateSpec == GateInit /\ [][GateNext]_gateVars
-----------------------------------------------------------------------------
\* C_llm is so much more complex than C_test, by the exact means, in 1/10000.
Exceeds(units) ==
  LET n == [s \in Snapshot |-> IF Functions(s) = 0 THEN 1 ELSE Functions(s)] IN
  10000 * (Cognitive("C_llm") * n["C_test"] - Cognitive("C_test") * n["C_llm"])
    > units * n["C_test"] * n["C_llm"]

\* The exit code is right of the functions of all scoped files together: more
\* than a unit above the threshold fails, more than a unit below it passes.
\* (Within a unit of it the rounding of the two means decides.)  So a
\* candidate that leaves the scoped files alone is never rejected.
VerdictIsRight ==
  step = "idle" /\ exit \in {0, 1} =>
    /\ Exceeds(Threshold + 1) => exit = 1
    /\ ~Exceeds(Threshold - 1) => exit = 0

\* A call that measured both snapshots leaves them without the tool's copy,
\* whatever earlier calls left there.
SnapshotsAreClean ==
  step = "idle" /\ exit \in {0, 1} => \A s \in copies : Existing(s) = {}
=============================================================================
