# TLA+ models of the refactor-equivalence harness

The repository is an experiment: language models refactor the code of real pull
requests, and a set of scripts drives them, decides what ships and records the
outcome. The conclusions drawn from the experiment (approval rates, no-op rates)
are only as good as those decisions, and as the candidates that were shipped. This
directory holds TLA+ models of the scripts and of the concurrent parts of two
shipped candidates, TLC configurations that check them on small instances, and
theorems that TLAPS proves for every value of the constants.

`scripts/X` below is `src/scripts/X` in `PROJECT.json`. `PREREG_V2.md`, the
preregistration of the experiment, says what the scripts are meant to do; the
models follow the scripts. Where the two disagree on something that matters most, a run
shows it; section 4 lists all the disagreements met.

## 1. Inventory

Everything under `scripts/` (25 files, 2927 lines) is the program that runs the
experiment. `samples/` holds its trials: for each pull request the candidate that was
shipped (`c_llm`), as a diff and as snapshots of the files it touches, 400 files of other
projects with 190000 lines. Three parts of two candidates are rewritten concurrent
code and are modelled: the range cache and the endpoint clients of the Spanner client
(`samples/v2-single-round/gcloud-14418`, below `gcloud-14418/`), and the tool scheduler of a
command line agent (`gemini-cli-24941`). `prompts/` holds the texts given to the agents, and
the Markdown files at the top are protocol and results; none of them runs. There is no
test suite of the harness.

| component | scripts | state it keeps | operations |
|---|---|---|---|
| spec loop, 4a-4c | `run_forge_v2_iterative.sh` 51-118 | `SPEC_ROUND`; `volley/round-N-claims.md`, `hunt-spec-round-N.md`, `sharpened-spec-final.md` | volley, hunt, reconcile, promote |
| blind-blind merge, 4d-4e | same, 120-189 | two background jobs, three workspaces, `no-op-class.txt`, the winner's summary | implement twice, measure churn, pick, merge, evidence check |
| hunt-code loop, 4f | same, 191-274 | `HC_ROUND`; `gates/hunt-code-round-N.md`; the merged workspace | build and test, hunt, address, last verification, hard no-op |
| reviewer loop, 4g | same, 276-344 | `RV_ROUND`, `PREV_COMMENTS`; `reviewer-loop/round-N-comments.md`, `final-state.txt` | review, count, address, re-verify |
| gate, shipping, record | same, 25-47 and 346-377; `complexity_gate_v2.mjs` | `gates/complexity-gate.json`, `c_llm/`, `meta.json` | measure, copy, record, run again |
| single-round pipeline | `run_forge_v2.sh` | the same files, each phase once | its own choice of spec, gate and hard no-op |
| resumption | `resume_iterative.sh` | a workspace rebuilt from an earlier diff | 4f, 4g and the gate again |
| search for C_test | `find_c_test_v2.sh`; earlier `find_c_test.sh`, `find_c_test_py.sh` | work tree, `node_modules`, `LAST_LOCKFILE`, the list of results | checkout, overlay of C_final's tests, install, build, test |
| phase 7b | `run_phase7b.sh`, `run_phase7b_codex.sh` | `phase7b/review.json`, `assignment.json`, the tally | assign A and B, ask, parse, skip what is done |
| end to end, cleanroom | `run_pr_end_to_end.sh`, `build_cleanroom_v2.sh` | directories named by the PR number | check inputs, build the cleanroom, run the pipeline |
| complexity measurement | `measure_complexity.mjs`, `_go.sh`, `_py.sh`, `measure_all.sh` | none | per-function metrics |
| review bundles, phase 7 | `build_review_bundle.sh`, `_go.sh`, `run_gemini_review.sh`, `_go.sh` | the bundle's files, `/tmp/_base_file` | diffs, two agent calls |
| range cache | `gcloud-14418/` `key_range_cache.go`, `channel_finder.go` | sorted ranges, groups with reference counts, the database label | apply an update, look a key up, evict |
| endpoint clients | `endpoint_client_cache.go`, `endpoint_lifecycle_manager.go`, with `location_aware_client.go`, `location_router.go` | clients by address, creations under way, managed addresses, a goroutine | get or dial, evict, close, report traffic, probe, shut down |
| tool scheduler | `gemini-cli-24941/` `scheduler.ts`, with `tool-executor.ts`, `policy.ts`, `useGeminiStream.ts`, `useToolScheduler.ts` | the running batch, its queue and active calls, the queue of requests | schedule, validate, confirm, execute, tail call, abort, cancel all |
| preparation | `extract_snapshots.sh`, `build_cleanroom.sh`, `build_cleanroom_go.sh`, `feasibility_v2.sh`, `post_exclusion_size.sh`, `run_forge_pr.sh` | none that outlives a command | copies, counts, checks |

**How they interact.** `find_c_test_v2.sh` picks the commit C_test;
`run_pr_end_to_end.sh` reads its choice, builds the cleanroom (the tree at C_test)
and starts the iterative pipeline. The phases of the pipeline run one after the
other and hand each other files of the trial directory and the merged workspace;
only the two implementers run at the same time. Agents are child processes: a
script sees the files they left and ignores their exit codes. The gate is called
by the pipeline and the resumption; phase 7b reads what the single-round pipeline
shipped. The range cache and the lifecycle manager share the endpoint clients of one
Spanner client: a request finds its range, gets the client of the range's server, and
reports what it saw of its connection. The scheduler is called by the hooks of the user
interface, calls policy, hooks, dialogs and tools, and keeps its calls in a state manager.

**What is hard.** Agents may fail without writing the file the next statement
reads, and an empty shell variable makes a numeric test neither true nor false. A
script may be killed anywhere, and is then run again in a directory that holds the
files of the run before, of which it empties one. Claims about a candidate
(hunted, approved, built) are made about one tree and used after later edits. Two
implementers race with the measurement of their work. Build and test runs depend
on state outside the tree. `errexit` and `pipefail` end a script where its author
meant to recover. In the candidates: locks that are given up between reading and acting
on what was read (a dial, an eviction, a label read without any lock); reference counts
shared by the pieces of a split range; a goroutine that waits for what others are making
while they may stop it; promises that are awaited together while their batch is
cancelled, and a queue behind them.

**What makes each part correct.** Spec loop: what is implemented was hunted, and
nothing that was blocked. Merge: what is merged is what was measured, and the class
says what happened. Hunt-code: only a candidate whose last build passed goes on,
and one that converged was hunted as it is. Reviewer loop: an approval is about
the tree that leaves, and the label tells a broken build. Pipeline: the record and
the candidate belong together, over crashes and restarts. Search: a verdict on a
commit depends on that commit only. Range cache: it is a map from keys to routes in
which a route is replaced by newer ones only. Endpoint clients: each open client is known
to somebody, each managed address is served, and shutting down ends. Scheduler: each tool
call of a batch is answered once, no tool starts after an abort, requests are served in
their order and always settled.

## 2. Modules

| module | models | extends |
|---|---|---|
| `Workspace` | the merged workspace, what is known about it, edits, verification | |
| `SpecLoop` | 4a-4c | `Workspace` |
| `BlindMerge` | 4d-4e, as both pipelines have it | `Workspace` |
| `HuntCode` | 4f | `Workspace` |
| `ReviewLoop` | 4g | `Workspace` |
| `CandidateRelease` | nothing: what a trial promises, as an abstract specification | |
| `ForgePipeline` (`MCForgePipeline`) | the iterative script from end to end, and its repetition | the four phases; `INSTANCE CandidateRelease` |
| `SingleRound` (`MCSingleRound`) | `run_forge_v2.sh`, and its repetition | `BlindMerge`; `INSTANCE CandidateRelease` |
| `ResumeIterative` (`MCResumeIterative`) | `resume_iterative.sh` | `HuntCode`, `ReviewLoop` |
| `FindCTest` (`MCFindCTest`) | `find_c_test_v2.sh` | |
| `Phase7b` | `run_phase7b.sh` and `run_phase7b_codex.sh` over the same files | |
| `ComplexityGate` (`MCComplexityGate`) | `complexity_gate_v2.mjs` | |
| `RouteMap` | nothing: a map from keys to routes, as an abstract specification | |
| `KeyRangeCache` (`MCKeyRangeCache`) | the range cache and the finder's label | `INSTANCE RouteMap` |
| `EndpointClientCache` | one client per address: get, dial, evict, close | |
| `EndpointLifecycle` | the manager's goroutine, the requests, and shutdown | `EndpointClientCache` |
| `RequestLine` | nothing: a line of requests, each answered once and whole | |
| `ToolScheduler` (`MCToolScheduler`) | the tool scheduler | `INSTANCE RequestLine` |
| `ForgePipelineProofs`, `SingleRoundProofs`, `Phase7bProofs`, `KeyRangeCacheProofs`, `EndpointLifecycleProofs`, `ToolSchedulerProofs` | theorems | the module they are about |
| `ResumeIterativeProofs` | theorems about both loops, alone and resumed | `ResumeIterative` |
| `WalkAndGateProofs` | theorems about the search and the gate | `FindCTest`, `ComplexityGate` |

**Shared abstraction of the scripts.** `pc` is the statement that runs next. A tree is the set of
traits by which it differs from C_test: `"in"` (a file of the allowed edit set),
`"out"` (any other file), `"worse"` (higher mean complexity than the gate allows,
which takes an edit in scope). `evidence` is a history variable: `"builds"`,
`"hunted"` and `"approved"` hold if the last build and test run passed, the hunter
reported nothing, or the reviewer reported nothing *about this very tree*; every
edit empties it. No guard reads it, so it changes no behaviour; it lets invariants
compare what the files claim with what happened. An agent with write access
(`Edit`) leaves any tree behind. A build and test run has either outcome on any
tree, since trials disturb each other (PREREG_V2.md:612 wants them serialized for
this reason). Reports are modelled by what the script extracts from them: the
number of `## Comment` headings, whether there is a `## Finding`, the claims a
report blocks; a missing file is a value of its own (`Blank`, `"absent"`,
`NoFile`), and the guards say what the shell does with it. `no-op-class.txt`
holds `"trivial"` or `"hard"`, or nothing, written `"empty"`.

**The phases.** Each loop is one action per statement that changes state or
branches, with the round counters and the report files as variables. Every loop
is a specification of its own (`SpecLoopSpec`, `HuntSpec`, `ReviewSpec`) with the
initial states the phase before can leave; `ForgePipeline` composes their next-state
relations with the merge, `SingleRound` the merge with its own phases, and
`ResumeIterative` the last two loops. The merge is checked in the two pipelines. There the phases start with
whatever the trial directory holds; `StartRun` empties only `no-op-class.txt`, and
`Stop` (exit or crash) resets what lives in shell variables and `/tmp` and keeps
the files. A killed script's agents are taken to die with it.

**SpecLoop.** Claims are model values, a claims file a set of them. `newest` stands
for the modification times `ls -t` sorts by. Volley and hunter are free within
their task (a hunter blocks claims it was shown); the reconciler keeps the rules of
its prompt (no new claim, no blocked one), so that what goes wrong goes wrong
because of the script. `mute` (agents of this run that wrote no file) is a history
variable.

**BlindMerge.** An implementer's output is the lines changed in and out of scope,
the hunks they form, whether it wrote a summary and whether it edited
`package.json`, which the install step of the npm trials restores. `DiffLines` is the length of the
diff, `HunkLines` lines of header and context for each hunk included.

**ForgePipeline.** `cllm` and `meta` are `c_llm/` and the outcome in `meta.json`,
with the number of the run that wrote them. The gate either writes its verdict or
breaks down: the measuring tool fails on a file, and the script's copy of the tool
stays behind. `CandidateRelease` has three variables: the stage of the trial,
whether the candidate's last build passed, and what the record says of the
candidate that was released. A candidate is admitted only when sound, may be edited
and verified at will afterwards, and is released under the label that is true of it.
The refinement maps the stage from `pc`, soundness from `evidence`, and the
release to `Record`.

**SingleRound.** A spec is told apart by the run and the agent it comes from, so that
a spec an earlier run left is not mistaken for this run's. `patch` is `merged.diff`,
which is taken once, before the hunt, and is what ships; `passed` is a history variable, the
trees this run's explicit build and tests passed on, and the invariant compares the two in
`c_llm`. The gate is that of the iterative script, its breakdown included: the copy it then leaves
changes the workspace, but not what ships. The hunter's and the reviewer's reports steer
nothing and are not kept. The refinement maps soundness to the last build and the
release to `meta.json`, which this script completes only after shipping.

**ResumeIterative.** `single` is what the single-round trial saved: a diff, or
nothing if it never shipped (a hard no-op leaves what an earlier run did). `patch` applies it
or rejects hunks, which leaves any part of it. The trial directory of the iterative run may
hold a label and a `meta.json` of an earlier run, or none of them (`found` is a history
variable: the outcome it holds at the start); reports of an earlier run are in the model too
(`HuntLeft`, `CommentsLeft`) and left out of the run, since they break what it checks:
section 4, lines 233 and 296.

**FindCTest.** A commit is a record: its lockfile, whether it builds on a clean
install, whether C_final's tests pass, whether it still has a failing test under a
name C_final has changed. `deps` is what is really installed, `last` what
`LAST_LOCKFILE` says. With dependencies that are not the commit's own, a build or
test run may have either outcome.

**Phase7b.** `review.json` holds a choice, JSON without one, text `jq` cannot read,
nothing, or does not exist. `votes` is a history variable: what this run of the codex
script counted for each trial; `before` is the last tally, if nobody was asked since.
The eligible trials and their labels are fixed. A batch dies where a command of it
fails under `errexit`, or is killed, and may be started again, in any order with the
other. Two batches do not run at once.

**ComplexityGate.** A file is its number of functions and the sum of their
complexities; means are integers in units of 1/10000, as `toFixed(4)` leaves them, half a
unit rounded up (a tie that is not exact in binary may go the other way: the property
allows a unit). The threshold is 500 units. `diff <= delta` is computed in doubles: a
difference of exactly the threshold comes out on either side of it when neither mean is 0,
so `Within` is a choice there. `--scope-files` is never missing, as in all callers. One
C_test is compared with several candidates, each a copy of it made afresh, with a
copy of the tool if one was left in it.

**KeyRangeCache.** Keys are small numbers; the sorted slice is the set of its ranges, each of
which has its index (`Rank`) from the number of limits below it. An
update is applied step by step, as `channelFinder.update` does under `updateMu`: clear,
store the label, hold its groups, replace range by range, release. From `HoldGroups` to
`ReleaseGroups` the cache's own lock is held, and no other action touches it; between the
earlier steps lookups, label reads and evictions may come. `hint` is the label a request has
read and carries to its lookup, whatever label is stored meanwhile; `overtaken` is a history
variable that remembers that one was. A reference count of 0 is a
group that is not in the map. `db` of a range, the label of the update that brought it, is
a history variable. `PickedFrom` is `findRangeLocked` with a random choice among
what it walked over; the mode that wants one covering range is its first case. `RouteMap` has one
variable, the route of each key, and three steps: a range of one generation replaces
the routes of an interval that are not newer, some keys are forgotten, all are.

**EndpointLifecycle.** `at` is where each process (the requests, and the goroutine `Run`) is
in the code; a section under a lock is one action. `EndpointClientCache` has the actions of
the cache for whoever is there; the goroutine and the requests come from
`EndpointLifecycle`. The state of a connection is chosen where the code reads it, for a
closed client it is Shutdown. A tablet keeps its endpoint from request to request (`got`),
which may be closed meanwhile. Clients get a free number, so that finitely many
can be told apart; a dial waits for one if `MaxClient` are in use, which a run never needs.

**ToolScheduler.** An action is what the event loop runs between two awaits. `loop` is where
the loop of the batch is, `at` where the promise of each call is. A batch is a list of
calls that are bad from the start (no such tool, wrong arguments), may run in parallel, or
wait for those before them. The state manager is not among the shipped files; its
operations are modelled from how the scheduler uses them, and `terminalStays` leaves open
whether it lets late output overwrite a final status. Success, error and cancellation are one
status, since no step tells them apart. `RequestLine` says what callers see: a line, the
request that is served, and answers with one result for each call.

## 3. Runs

`CHECK_DEADLOCK FALSE` where scripts end or all requests are settled; the range cache and
the endpoints never stop, and deadlock is checked.

| run | question | bounds |
|---|---|---|
| `spec_agents` | does the spec loop end, what does it hand over | 3 rounds, 2 claims, any agent may be mute: a claim can be blocked, dropped and proposed again, and the cap is passed |
| `pipeline_rerun` | the whole iterative script, with crashes, and the refinement | 1 round per loop, 2 runs: the second meets every leftover the first can leave |
| `single` | the single-round script, with crashes, the merge, and the refinement | 2 runs, all traits; implementers with one line in and out of scope, one or two hunks, 7 lines per hunk (the header, and three lines of context on each side) |
| `resume` | what leaves the two loops, and what a resumption makes of it | 3 rounds per loop, up to 2 comments, failing hunter and reviewer; edits in scope only, so that the copy a failing gate leaves does not show; the loops are those of the iterative pipeline, and the resumption starts them with any build result |
| `find_walk` | are the verdicts right | branches of 1 to 4 commits over 2 lockfiles, any of which may be impossible to install; three commits are the least that shows a stale install |
| `phase7b` | are answers kept, is a tally right | 3 trials, both labellings, 3 batches: an answer survives a batch of either script and is counted by the last |
| `gate` | is the verdict right, are the copies removed | 2 files of six contents each side of the threshold, two calls over one C_test |
| `ranges` | is the cache a map, are groups counted, does a lookup find what is there | keys 0 to 3, 2 groups, 2 generations, updates of up to two ranges of one database, of one range of another, and of one without a label: an update can split a range in three, join two, and bring one that the other half of it makes stale; 2 entries for a random pick; the groups are symmetric |
| `endpoints` | do clients leak, are addresses forgotten, is each client asked for tried, does shutdown end | 1 address, 2 requests and the goroutine, eviction after 2 failures; the locks are per cache and manager and every section concerns one address |
| `toolcalls` | is every call answered once, every request in its turn and in the end | 3 requests, one of two calls of all kinds (two that run together, one that waits for the other, an invalid one and another) and two of one call, 1 tail call or expansion for each call: a request waits behind another, in either order |

What they show, beyond termination:

* `HandedOverWasHunted`: if hunters and reconcilers write their files, the implementers
  get claims the last hunter read, without those it blocked, at the cap too, where the
  script relies on file times. A mute volley does no harm.
* `MeasuredIsMerged`: no implementer writes after the diffs are taken.
* `ConvergedWasHunted`, `GateIsTheBuild`: below the cap a candidate leaves the
  hunt-code loop only after a hunt of this very tree that found nothing, and always
  after a build that passed.
* `ApprovalIsOfThisTree`, `LabelTellsBuild`, `RoundsArePaidFor`: an approval is about
  the tree that leaves, though reports may be missing; the label tells a broken build
  on every way out; comments strictly decrease while no report is missing.
* `RecordTellsBuild`, `RecordFollowsShip`, `ReleasesAsPromised`:
  over two runs, each killed anywhere, `meta.json` tells the truth of the candidate in
  `c_llm` as long as it is about that one, it is never ahead of it, and the pipeline
  implements `CandidateRelease`. A run killed between the copy and the record leaves a
  `meta.json` about an older candidate: that is not excluded (section 4, line 370).
* `ShippedPatchPassed`, `SingleReleasesAsPromised`: the diff in `c_llm` is of a tree that the run
  which put it there built and tested, although it is taken before the hunt, among the files of
  earlier runs, and shipped after a gate that may break down; a failed build ships nothing; the
  script implements the same promise.
* `ResumesTheCandidate`, `OutcomeTellsBuild`: a resumption starts from the very
  candidate unless hunks are rejected (and then only the log knows); one that gets to its
  record leaves its own outcome in a `meta.json` that is there, not a leftover; a hard no-op
  leaves the outcome it found, and only `no-op-class.txt` tells.
* `VerdictsAreRight`: reusing `node_modules` gives a commit the verdict a machine of its
  own would give, save after a failed install and for renamed tests.
* `AnswersAreFinal`, `AnswersAreCounted`: no stored answer is changed by either script;
  a tally counts each once, for the version it names, after any failures.
  `RetallyDriftsByMuteOnly`: two tallies of the same answers differ by those without a
  choice only, and only in favour of version B.
* `VerdictIsRight`, `SnapshotsAreClean`: rounding twice costs at most
  a unit of 1/10000; a call
  that measures both snapshots removes copies earlier calls left.
* `RangesAreDisjoint`, `RoutesAsAMap`: however updates of any generation split, join and
  overlap the ranges, no key is in two, and a key's route is replaced by one at least
  as new, or forgotten, with no effect on its neighbours.
* `GroupsAreCounted`: no group is dropped under a range that routes to it, and none is kept
  without one, over remainders, stale updates and evictions.
* `FindsWhatCovers`: an interval the cache covers gets a range, one it does not gets none
  unless enough ranges lie on the way, and no request a range it does not overlap.
* `FoundIsOfLabel`: a request finds nothing of a database the finder left before it read the
  label: the old ranges are gone before the new label is there, and no range comes before its
  label. Every path must clear, also that of an update with neither ranges nor groups. It does
  not make the unlocked read safe: a request a new label overtakes finds routes of the new
  database under the old id (section 4).
* `NoClientLeaks`: when dials, evictions and Close meet, every open client is cached or about
  to be closed by the process that holds it, and a closed one is never cached. (So the
  probe never sees a cached client in state Shutdown.)
* `ManagedIsServed`, `FailuresAreOfThisClient`, `CreationsAreTried`: a managed address has a
  client, or one being made, or one asked for; probe failures of an evicted client are not
  held against its successor; what is asked for is tried, though the failed creation signals
  nobody.
* `ShutdownEnds`: Close returns, though the goroutine may be waiting for a client that a
  request is dialling.
* `CallsAreInOnePlace`, `NothingIsLeftBehind`: over denials, tail calls, aborts and
  cancellations, each call of the running batch is queued, active or completed, once; a
  batch never leaves an active call, after which every request would queue for ever.
* `WaitersRunAlone`, `NoneStartsAfterAbort`: a call that waits for the previous ones runs
  alone, after them and their tail calls; no tool starts after its signal was aborted.
* `ServesTheLine`, `EveryRequestSettles`: requests are served in order, one at a time, with one
  result per call, and each promise is settled.

Two runs expect a violation; `PROJECT.json` quotes both sides.

| run | what the script does |
|---|---|
| `pipeline_gate` | ignores the complexity gate |
| `find_lockfile` | passes over a good commit after another one's install failed |

**Bounds.** `MaxRounds` stands for `MAX_ROUNDS=10`. The loops treat all rounds alike
but for the first (no earlier count) and the one past the cap, so two rounds meet
every case; the runs of a single loop use three or four. The composed run uses one: a
second round multiplies its states beyond reach and shows the composition nothing new,
and its theorems hold for every `MaxRounds`. `MaxComments`, `MaxLines`, `MaxRuns` and the
`MaxCalls` of the gate bound what agents may write and how often a script is started; the
theorems do without them (they hold for every value). Of the Go and TypeScript models:
`Updates` is a set of update messages, in the run every one of a first database with any one
range over three keys and both groups or none, or any two adjacent ranges and both groups,
every one of a second database with one range, and some with one range and no label (the two
databases are alike to the code, so splits need come from one only); `MinEntries` stands for
`defaultMinEntriesForRandomPick`, 1000; `MaxClient` is the number of clients that can be known
at one time, large enough that a free one is always there (a guard of `Created`); `MaxFailures` stands for
`maxTransientFailureProbeCount`, 3; `MaxAgain` bounds tail calls and expansions of one call,
which the code does not.

**Fairness.** Each script is one sequential process that calls commands and waits. The
loops (`SpecLoop`, `HuntCode`, `ReviewLoop`) and `FindCTest` assume weak fairness of
their whole next-state relation: the process goes on as long as it has a next
statement. This takes for granted that agents, builds and tests return; no script sets
a timeout. In `ForgePipeline` fairness is on the progress of a run; starting and killing
runs are never forced. `RunEnds`, `ResumeEnds`, `SpecEnds` and `WalkEnds` rest on it.

In `EndpointLifecycle` the goroutine is scheduled (weak fairness of `RunStep`); its `select`
chooses at random among the ready cases, and tickers fire again and again, so no case that
is ready again and again is passed over for ever (strong fairness of `Collect` and
`ReturnOnStop`). A dial ends, with a client or without: this is assumed of the
`clientFactory`, which is not among the shipped files. Requests are never forced to begin. In `ToolScheduler` the event loop goes on (weak fairness of
`LoopStep`), and hooks, policy and tools return, and dialogs are answered or end with their
signal (weak fairness of each call's step). No batch needs to be scheduled, no signal
aborted. The other specifications have no loop whose end is in doubt, state no fairness and
no liveness.

## 4. Other disagreements between code and documents

Met while modelling, present in the models, and each reproduced once with TLC; they
have no run of their own. Lines without a file are of `scripts/run_forge_v2_iterative.sh`.

* :57, :93: a claim that was blocked in an earlier round is handed over if the volley
  proposes it again and the hunter does not block it again; PREREG_V2.md:539 moves a
  blocked claim to Rejected.
* :55, :107: a spec blocked in every round is handed over and logged as "Converged";
  PREREG_V2.md:537 wants the trial failed back to a no-op.
* :72: a missing hunt report counts as one without findings, in the first round too.
* :111: without a claims file `ls` fails, and `pipefail` with `errexit` ends the script
  before the `else` branch can write the empty spec (`SpecAbort`).
* :99: the final spec of an earlier run ends the spec loop at its first blocked round.
* :147: churn counts headers, context lines and files out of scope, so that the
  implementer who changed fewer lines can lose (PREREG_V2.md:541).
* :186: "trivial" is decided before 4f and 4g edit the candidate, and also when a
  summary is missing; PREREG_V2.md:731 means zero source modifications.
* :233: a `hunt-code-round-N.md` of an earlier run that says "No findings", or has no
  "## Finding", ends the loop with a candidate nobody hunted, if the hunter leaves no report
  in the same round of a later run.
* :258: the cap of the hunt is only logged; PREREG_V2.md:549 wants a no-op.
* :271: after a hard no-op `c_llm` keeps an earlier run's candidate, not C_test
  (PREREG_V2.md:564).
* :317: what was edited for the reviewer is never hunted again (PREREG_V2.md:553).
* :335: `PREV_COMMENTS` takes the empty count of a round whose report is missing; the next
  count is compared with nothing, and a round that did not shrink is addressed
  (PREREG_V2.md:551 stops there).
* :296: "No comments" in a report of an earlier run approves a candidate nobody read,
  if the reviewer leaves no report in the same round of a later run.
* :330: a candidate whose build or tests broke in the reviewer loop ships under the
  label `impasse_build_broken`; PREREG_V2.md:562 wants a hard no-op.
* :364: edits out of scope are shipped; PREREG_V2.md:557 wants the scope enforced. The
  measuring tool that a failing gate leaves behind (`scripts/complexity_gate_v2.mjs`:107)
  ships with them; in the single-round script it does not, whose diff is older than the gate.
* :370: killed between the copy of the candidate and this line, a run leaves a `meta.json`
  that describes an older candidate than the one in `c_llm`, and nothing in it shows that.
* `scripts/find_c_test_v2.sh`:47: a test C_final has renamed stays under its old name and
  is run (`oldFails`); a good commit is passed over.
* `scripts/run_forge_v2.sh`:102: the final spec of an earlier run goes before the claims
  this run has reconciled. :290 and :251: "falling back to C_test" is logged, and the
  candidate ships, or nothing is put in `c_llm` but a placeholder.
* `scripts/resume_iterative.sh`:65: a hard no-op is resumed as C_test itself; :57: rejected
  hunks are only logged; :241: without a `meta.json` the outcome is lost.
  `worklog/WORK_LOG.md`:737 says that iteration "can only fix issues, never introduce
  them"; the candidate of a resumption that ends as `impasse_build_broken` built before it.
* `scripts/run_phase7b.sh`:77: the shell creates `review.json` before `grep` finds no answer
  and ends the batch; :30 then skips the trial as done for ever.
* `scripts/run_phase7b.sh`:12: the log is appended to, so a trial whose last attempt failed
  its tests is still eligible with that attempt's diff, under the text "Both pass tests"
  (:60).
* `scripts/run_phase7b_codex.sh`:107: an answer without JSON is stored as `{}` and not
  counted; under "# Tally existing result" (:32) the next run reads its choice as "null" and
  counts a vote for version B, so that a second tally of the same answers differs.
* `scripts/resume_iterative.sh`:155: a resumption that is a hard no-op exits before :236 and
  keeps the `iterative_reviewer_state` an earlier one wrote, which is of another candidate. And
  `no-op-class.txt` of an earlier resumption may still say "hard" when the one after it
  succeeds; nothing empties it, so that the two cannot be told apart by these files.
* `scripts/build_review_bundle.sh`:59: `/tmp/_base_file` is one file for all bundles;
  PREREG_V2.md:612 says "Generation and review phases may parallelize."
* `scripts/run_phase7b_codex.sh`: the last JSON of the output may be the template of the
  prompt, which `jq` cannot read; it is counted for version B.
* `scripts/complexity_gate_v2.mjs`:23 gives code 2 to a "file missing in one snapshot"; :87
  filters it out, and the mean is over the files that are there. :6 and :21: a candidate
  exactly at the threshold can fail (0.4 - 0.35 is 0.05000000000000004).

Of the candidates, observations of the same kind (files of section 1):

* `key_range_cache.go`:510: a range whose group is not known yet is stored without one and
  routes nobody; when the group comes with the same range and generation, the range is
  "not newer" (:446) and stays so. :337: a range with an empty limit key, which stands for
  the end of the key space, sorts first and is never found. `shrinkTo` (:288) has no caller.
* `channel_finder.go`:76: an update without a database id sets the label to 0, after which
  nothing is routed, and the next labelled update clears nothing (:77): its ranges join those
  the unlabelled one brought. `FoundIsOfLabel` excepts them. :207: the label a request has read
  goes into its hint, though :81 may have stored another before it looks its range up: it then
  sends the old database's id with a route of the new one.
* `endpoint_lifecycle_manager.go`: a client whose request falls back after its first look
  at the connection stays cached and is managed by nobody until Close; affinity can be
  recorded for an endpoint although `clientForEndpoint` fell back to the default client.
* `scheduler.ts`:680: a denied confirmation "cascades to entire batch": it cancels what is
  still queued; calls already taken, and tail calls they ask for, go on.
* `scheduler.ts`:258: after `cancelAll` the flag stays until the next batch begins, and a second
  `cancelAll` before that returns at once: requests queued in between are not cancelled.
* `scheduler.ts`:306: the topic tool is sorted first "to ensure Topic changes happen before
  actions", but it runs in parallel with the calls after it unless they wait.
* `scheduler.ts`:518-534: the loop never waits for something external and is never stuck: no
  call is active when a round begins (`NothingIsLeftBehind`). Tail calls and expansions have
  no bound.

## 5. Proofs

All theorems hold for every value of the constants the `ASSUME`s of the modules allow:
`MaxRounds` is positive, `MaxComments` below 999, the initial value of `PREV_COMMENTS`
(`ReviewLoop`); update messages have finitely many groups and nonempty ranges, and `MinEntries` is at least 2 (`KeyRangeCache`); there is
an address, the goroutine is not a request, and an eviction takes a failure
(`EndpointLifecycle`); requests have 1 to `MaxCalls` calls (`ToolScheduler`); there are
finitely many files, and a file without functions has no complexity (`ComplexityGate`).
Every safety property that a passing run checks is stated by a theorem.

* **ResumeIterativeProofs**, about the two loops alone and resumed.
  * `ReviewInvariant`: `ReviewInv` is inductive. Type
    correctness and the label are not enough: `RoundsArePaidFor` needs that
    `PREV_COMMENTS` is the count of the round before (`PrevIsLastCount`), that the round
    being re-verified did shrink, and the sum strengthened by the last count
    (`PaidWithInterest`: each addressed report has at least `prev` comments plus the
    number of rounds since). From it `ReviewTypeCorrect`, `LabelIsHonest`,
    `CommentsPayForRounds`. `ApprovalIsEarned` has a second invariant, that reports of
    rounds to come are leftovers, and assumes that no leftover says "No comments":
    without that assumption it is false (section 4, line 296).
  * `HuntInvariant` carries where a build is known to have passed
    and that rounds are in range; `HuntTypeCorrect` and `GateHolds` follow.
    `ConvergenceIsEarned` adds that reports of rounds to come are as they were before
    the run, and assumes that none of them would end the loop.
  * `ResumeInvariant`: until a loop begins its files are as the resumption found them
    (`LoopsAreReady`), while it runs and on its ways out its own invariant holds
    (`LoopsAreSound`: the two inductions above are used again, not repeated), the first
    round of the hunt sees just what was rebuilt (`CandidateIsKnown`), and past the reviewer
    the label is true of the tree and is what becomes the outcome, which until then is the one
    found (`OutcomeIsKnown`). From
    it `CandidateIsResumed`, `OutcomeIsHonest` and `LoopsKeepTheirWord` (the guarantees of
    the loops hold in a resumption too); `ConvergenceIsEarnedAgain` and
    `ApprovalIsEarnedAgain` under the same assumptions on leftovers.
* **ForgePipelineProofs.** `PipelineInvariant`: for any number of runs, killed
  anywhere. Its parts relate the numbers of the runs that wrote `c_llm` and
  `meta.json` to the current run and statement (`RunsKnown`), the last build to the
  statement and label (`BuildKnown`), and say what an idle directory knows
  (`RestKnown`). One lemma per phase says how the phase moves `pc` and what it
  leaves alone, so that the step proof never opens the loops again. `RecordIsHonest`,
  `HardIsHard`, `RecordNeverAhead` follow, and `PipelineImplementsRelease`: initial
  states map to initial states and, under the invariant, every step to a step of
  `CandidateRelease` or a stutter. `HandedOverIsHunted` is about the spec loop: as long as
  only volleys were mute, `SpecKnown` says of each statement which claims file has passed
  the last hunt; at the cap that is the newest one, which the script takes.
* **SingleRoundProofs.** `SingleInvariant`: from the merge to the explicit build `merged.diff` is
  of the tree in the workspace, and from there to the end of one of the trees that passed, whatever
  the gate leaves in the workspace (`PatchKnown`); and the run that wrote `c_llm` is the current one only when recording
  (`SingleRunsKnown`). `ShippedIsTested` follows, and `SingleImplementsRelease`: the same
  promise, by its own refinement. `MeasuredIsTheMerged`: implementers only work while the
  script waits for them, so what is picked and merged is what was measured (`MergeKnown`).
* **Phase7bProofs.** `BatchInvariant`: at every statement the counters are the numbers of
  votes (`CountsKnown`, by the library's facts on finite sets), and a running tally has
  counted the trials before the current one as it should and none after it
  (`VotesKnown`). `BatchTypeCorrect` (no counter exceeds the number of trials),
  `EveryAnswerCounts` and `AnswersStay` follow. `RetalliesAgreeOnChoices`: the last tally is
  explained by votes that are a possible reading of the reviews as they still are
  (`TallyKnown`); two such readings differ at answers without a choice only.
* **KeyRangeCacheProofs.** `RangeTypeCorrect` and `DisjointRanges` are one induction: a range
  replaces all it overlaps, and what it leaves of them lies outside it. Disjointness is what
  makes the rest true: the remainders are at most one to each side, so that
  `CountedGroups` can count the pieces of a split (with the library's facts on finite
  sets), and a key is covered by at most one range, so that the route of a key is
  well defined. `FoundIsNeverOlder` carries that no labelled range is left between the
  clearing and the new label, that ranges are of the finder's label, and that a request whose
  label is not the finder's was overtaken (`LabelInv`). `CacheImplementsMap`: a range that is not stale changes just the
  routes of its interval, none of which is newer; an eviction only forgets.
  `LookupFindsWhatCovers` follows from disjointness alone, by what the operators of a
  lookup compute: the ranks of n ranges are just 1 to n (by
  cardinalities), so the slice lists each range once and in order of limits; the binary search
  gives the least index whose limit is past the key; the walk over the slice counts the
  ranges that overlap the interval.
* **EndpointLifecycleProofs.** `LifecycleInvariant` has a part for the cache and one for the
  manager. `CacheInv`: one process at most dials for an address, and only while no client is
  cached for it (`OneDials`), two processes never close the same client, nor one that is cached
  (`ClosersApart`), and no client leaks. For the manager: the cache is closed after the
  goroutine has ended, nothing is managed after the stop (`ClosedAfterStop`), and what the
  goroutine got is still cached, while an address it is about to evict, if managed again, is
  asked for again and counts no failures (`GoroutineKnows`). From it
  `ClientsAreAccountedFor`, `ManagedAddressesAreServed` and `FailuresFollowTheClient`.
* **ToolSchedulerProofs.** `SchedulerInvariant`, in four parts: each request is new,
  in the line once, running or answered (`RequestsInv`); each call of the running batch is in
  one of queue, active and completed, and no other call in any (`OnePlaceInv`); only active
  calls have a promise, of the phase the loop waits for, and one whose promise is done with is
  scheduled or finished after the first phase, finished after the second (`PlacesInv`); a call
  that waits is active alone, after those before it (`WaitersInv`). From it
  `SchedulerTypeCorrect`, `CallsStayInOnePlace`, `NothingStaysBehind`,
  `WaitersAreAlone`, the action property `AbortedStartNothing`, and
  `RequestsAreServedInTurn`: the scheduler implements `RequestLine`.
* **WalkAndGateProofs.** `WalkInvariant` relates what is installed, what `LAST_LOCKFILE`
  says and what was built last to the commit of the walk (`LastIsKnown`, `DepsAreKnown`,
  `BuiltIsKnown`), from which `VerdictsAreOwn`. `CleanSnapshots`: where a copy of the tool
  can be (`CopiesAreKnown`). `ExitCodeIsRight`: `VerdictInv` keeps what was measured until
  it is compared, `SumExists` shows what the sum over the files is (an induction
  over the subsets of a finite set, put as a set of natural numbers without a least
  element), and `RoundingTwice` that rounding two means moves their difference by at most
  a unit.

**Only model-checked** is liveness: `SpecEnds`, `RunEnds`, `WalkEnds`, `ResumeEnds`,
`CreationsAreTried`, `ShutdownEnds` and `EveryRequestSettles`, since the provers handle neither
`ENABLED` nor fairness; and that the two runs which expect a violation find one. The proofs about the
phases are proofs about each phase alone, except for those of the resumption: that the spec
loop and the merge keep their promise inside `ForgePipeline` (where they start with the
leftovers of an earlier run) is checked in `pipeline_rerun` only so far as
`RecordTellsBuild` and the refinement need it.

## 6. Assumptions, and what is left out

* The hunter and the reviewer do not edit the tree they read. Both have write access
  (`danger-full-access`, `--approval-mode yolo`); their prompts ask for a report.
* An agent's failure means that its report is missing, not that it is cut off.
* `c_llm/files` is one with `c_llm/diff.patch`; files an earlier run copied there and
  that no longer exist stay, which is not modelled.
* A failed install is part of the build and test run that follows it.
* `deviations.md`, `anomalies.md`, logs and timestamps are left out.
* `KeyRangeCache` leaves out tablets, leaders and incarnations of a group, split ids, recipes,
  access times and the choice among replicas; `EndpointLifecycle` times, the default
  endpoint, the addresses noted after transient failures, exclusions and traces. A stale
  group update still replaces the tablets in the code; no property here is about tablets.
* `Run` is the only process that evicts, as in the code.

**Not modelled.**

* The other files of the shipped candidates (some 400 files, 190000 lines: nearly all of
  what is not shell in the repository). They are data of the experiment: the files a pull
  request touches, without what they import, most of them user interface, configuration,
  generated code or tests of other projects, in the state one candidate leaves them. No
  process of this repository runs them, and what they call is not here to be read; the
  three modelled parts were chosen because their state and their interleavings are
  all in the files. Coverage by lines is small for this reason.
* `find_c_test.sh`, `find_c_test_py.sh` (planned: `OverlayWalk`), `run_pr_end_to_end.sh`,
  `build_cleanroom_v2.sh` (planned: `ParallelTrials`).
* `measure_complexity.mjs` and its variants: a recursion over syntax trees of an external
  parser.
* Review bundles, phase 7 and preparation: straight-line I/O without state of its own.

## 7. Plan

Done: both pipelines, the iterative one phase by phase and composed, the abstract
promise and the two refinements, the resumption with both loops, the search for C_test,
phase 7b, the complexity gate; the range cache and its map, the endpoint clients, the tool
scheduler and its line; and a theorem for every safety property of a passing run. Next, in this order:

1. What the phases promise, inside the pipelines: `ConvergedWasHunted`, `ApprovalIsOfThisTree`
   and `HandedOverWasHunted` over `ForgePipeline` as they are proved over `ResumeIterative`,
   with the assumptions on leftovers stated of the runs before; `MeasuredIsMerged` there.
2. `OverlayWalk`: the v1 and Python walks against the verdicts of `FindCTest`.
3. `ParallelTrials`: two runs of `run_pr_end_to_end.sh` over directories named by the PR
   number.
4. `measure_complexity.mjs` as a recursive function over small syntax trees.
