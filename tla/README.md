# Radio Scheduler: a verification project

TLA+ models of the Radio Scheduler, the TLC runs that check them on small
instances, and TLAPS proofs of the most important properties for every instance.
Paths below are relative to the repository; `rs/` stands for
`src/radio_scheduler/`.

Contents: [the system](#the-system) · [modules](#modules) · [runs](#runs) ·
[bounds](#bounds-and-why-they-are-enough) · [fairness](#fairness) ·
[proofs](#proofs) · [disagreements found](#disagreements-found) ·
[not modelled](#what-is-not-modelled) · [plan](#plan) · [how to run](#how-to-run)

## The system

The program is Python and single-threaded, with places where something else runs
beside it: the *algorithm* it calls back into (any object with `initial_state()`
and `allocate()`), the *check process* the harness spawns for a candidate, the
*agent or editor* that owns the candidate files, and other code of the process
that turns the switch of memory tracing. The evidence it writes is read by a page
in JavaScript, where answers, clicks and reloads come in any order.

| Component | State it keeps | Operations | Interacts with |
| --- | --- | --- | --- |
| `domain` | none (frozen dataclasses) | none | everything |
| `scheduling_interface` | none | validation of an `ObservableState` | loop builds it, algorithms read it |
| `simulation_loop` | backlog per UE, algorithm state, decisions so far | `run()` | calls `allocate()` once per TTI |
| `RoundRobin` | UE served last (threaded through the loop) | `allocate()` | loop |
| `MaxCQI` | none | `allocate()` | loop |
| `ProportionalFair` | moving average per UE (threaded) | `allocate()` | loop |
| `scenario_generator` | its random generator, the records drawn so far | validation of a configuration, `generate_scenario()` | produces what the loop reads |
| `benchmark` | the process-wide tracing switch, samples so far | `benchmark_run()`, `measure_run()` | calls the loop 1 + 2n times |
| `harness6g` checks | one algorithm object, violations and results so far, a result file | check process with a timeout | runs the loop on candidates, several times on one object |
| `harness6g` orchestrator | observations, counter, reason; the run directory; bytecode that an import keeps | `run_harness6g()`, `evaluate_public()` | files, check process |
| `baseline` | worktree, run directory, terminal record | `run_baseline()` | git, agent CLI, `evaluate_public()` |
| `demo` | results so far | `run_demo()`, `decisions_trace()`, `render_report_pt()` | loop and benchmark on shared algorithm objects |
| `scripts` | two evidence files (`demo.py`) | wrappers | demo, harness, baseline |
| `web` | language (also in `localStorage`), loaded evidence, status line, sections | fetch, render, switch language, reload | evidence files |

What is hard in each of them, and the property that goes with it, is the list
`hazards` of `PROJECT.json`, at the lines where it bites. In short:

* **Loop.** The algorithm is not trusted: it may return any decisions, name
  another TTI, repeat a block within or across decisions, return empty
  decisions, or raise. The order arrivals → observation → decision → validation
  → drain carries the closed-loop semantics of ADR-002 and ADR-009. Correct when
  no block is granted twice, no byte is lost or served twice, every TTI is served
  once and in order, and a failed run leaves nothing half done.
* **Schedulers.** State is threaded across TTIs in which UEs come and go from
  the eligible set, blocks are missing or more numerous than UEs. Correct when
  the rotation is fair across TTIs, the scan ends at the maximum, averages equal
  the history, and the loop never refuses a decision.
* **Check process.** Several `run()`s on one algorithm object that may hide state,
  raise, exit or hang, and a parent that waits. Correct when what the parent is
  told is one outcome of the candidate and verdicts of a stateless candidate do
  not depend on the order of the checks.
* **Harness.** One candidate file is read three times while somebody else may
  rewrite, delete or create it, and imported through a cache that may be older
  than the file; a process may hang; the harness may die between or in the
  middle of three writes; a run directory may be used again. Correct when the
  evidence explains its reason and the frozen copy is what passed.
* **Baseline.** Eight ways to end and a `finally` block behind all of them; git's
  account of what the agent touched; a base commit that may hold the candidate
  file already; an agent that outlives its kill.
* **Benchmark.** Its precondition is a switch of the whole process that any code
  can turn, looked at twice. Correct when what gets past the two looks is bounded,
  and the switch is left as it was found.
* **Scenario generator.** Identifiers are put together from two indices and name a
  block alone; the order of the draws decides what a seed means. Correct when
  identifiers are unique, every (TTI, UE) pair has its records in order, and
  `run()` accepts whatever the generator accepted.
* **Demo.** Nine pairs on three algorithm objects, each pair executed by `run()`
  and again by the benchmark in one process. Correct when no run leaves anything
  for the next, and files written to their end come from whole runs.
* **Viewer.** Three fetches outstanding, any of them failing, rendering that
  throws, a language switch at any moment. Correct when the texts the
  page rewrites are in one language and a loaded page answers for every section.

## Modules

| Module | Models | Notes |
| --- | --- | --- |
| `SchedulingInterface` | `rs/domain`, `rs/scheduling_interface` | the data of one TTI; no state |
| `SimulationLoop` | `rs/simulation_loop/runner.py` | the loop around any algorithm |
| `ClosedLoop` | the promise of ADR-002 and ADR-009 | abstract; `SimulationLoop` implements it |
| `SimulationLoopProofs` | | theorems about `SimulationLoop` and `BacklogCheck` |
| `RoundRobin` | `round_robin.py` composed with the loop | block by block |
| `UeScan` | what `max_cqi.py` and `proportional_fair.py` have in common, composed with the loop | one pass over the UEs, the winner takes every block |
| `MaxCqi` | the comparison of `max_cqi.py`, on `UeScan` | UE by UE |
| `ProportionalFair` | the comparison and the averages of `proportional_fair.py`, on `UeScan` | UE by UE, exact averages |
| `SchedulerProofs` | | theorems about `RoundRobin`, `MaxCqi` and `ProportionalFair` |
| `BacklogCheck` | the oracle `_check_served_ue_must_have_backlog` composed with the loop | `MCSimulationLoop` runs both |
| `CandidateChecks` | outcome of a check process, result lists, `verify_integrity` | operators only |
| `CheckRunner` | `_check_runner.py` and `checks.py` | the process step by step, and the harness that waits |
| `CheckRunnerProofs` | | theorems about `CheckRunner` |
| `Harness6G` | `orchestrator.py`, `candidate.py`, `freeze.py`, `evaluator.py` | with editor and crashes |
| `Harness6GProofs` | | theorems about `Harness6G` |
| `Baseline` | `baseline/runner.py` | every kind of agent and base commit |
| `BaselineProofs` | | theorems about `Baseline` |
| `Benchmark` | `benchmark/measurement.py` | with interference |
| `BenchmarkProofs` | | theorems about `Benchmark` |
| `Scenarios` | the `Scenario` both builders return and how `run()` reads it | operators only |
| `ScenarioGenerator` | `scenario_generator/generator.py` | one step per draw |
| `DemoScenarios` | `demo/scenarios.py`, `decisions_trace` | operators only |
| `Demo` | `demo/runner.py`, `demo/report.py`, `scripts/demo.py` | composes `RoundRobin`, `ProportionalFair`, `MaxCqi` (each with the loop) and `Benchmark` |
| `ScenarioProofs` | | theorems about `ScenarioGenerator` and `Demo` |
| `EvidenceViewer` | `web/app.js`, `web/index.html` | one action per handler and continuation |
| `EvidenceViewerProofs` | | theorems about `EvidenceViewer` |
| `MC…` | | instances for TLC |

### How the state and the actions correspond to the code

**`SimulationLoop`.** `pc` is the position in `run()`; `occupancyBytes`,
`schedulerState`, `allDecisions`, `observable`, `step` are the variables of those
names; `pending` is the part of `ttis` still ahead. A TTI is three steps, because
two of them can raise and the algorithm runs between them: `OpenTti` (lines
75-102), `AllocateReturns`/`AllocateRaises` (104), `CommitTti` or `RefuseStep`
(105-116). `RefuseArguments`, `Start` and `InitialStateRaises` (the algorithm's
`initial_state()` raises) are lines 58-73, `Return` 118-121.
Nothing can observe the loop between other statements, so nothing is lost by
making each of these atomic. `calls` and `arrivalLog` are history. The exogenous
records of a TTI are chosen when it is opened, from `TtiInputs`: they do not
depend on decisions, so this is the same as choosing the scenario beforehand.
Record lists are functions from a UE to the *sequence* of its records, because
repeated records are legal input with different consequences: repeated CQI
records are refused, repeated arrivals keep the last one only.

Two behaviours of repeated UEs do not appear: a scenario that lists a UE twice
adds its arrivals twice and then raises when the first `ObservableState` is
built, so the double sum is never seen by anyone.

**Schedulers.** Each extends `SimulationLoop` and replaces the arbitrary
`allocate()` by its own: a start, one step per iteration of its `for` loop, and an
end that is the loop's `AllocateReturns`. `MaxCqi` and `ProportionalFair` do so
through `UeScan`, which has the steps of a scan for the best UE; they add what
"best" means and the state handed on, which is the loop's `schedulerState`.
`passed` in `RoundRobin` and `serviceLog` in `ProportionalFair` are history.
Averages in `ProportionalFair` are scaled integers: after n calls `A` stands for
`A / 10^n`, so that 0.9·avg + 0.1·x is 9·A + x·10^n, exact. (`Power` is a recursive
function because the prover knows nothing of `^`.) What floating point does to a
comparison is kept in two places: two *equal* finite scores may come out either
way (`Ties`), and a score is infinite not only when the average is 0 but also when
the quotient exceeds the range of a double (`ScoreIsInfinite`, beyond the constant
`MaxScore`), as it does after thousands of TTIs without service. What is left out
is rounding: it may also order two unequal scores that are nearly equal.

**`BacklogCheck`.** Runs the loop with an arbitrary candidate, then replays it:
`ReplayTti` adds the arrivals of the next TTI (taken from the loop's log, to
which the dict the check builds is equal: both keep the last of repeated
records), `ReplayDecision` is one iteration of the loop over `result.decisions`,
`GiveVerdict` the result. `shown` records the buffers the candidate was actually
given.

**`Harness6G`.** One action per read, write or process event: `Load` (hash),
`ChildReads`, `ChildEnds`/`ChildTimesOut`, `FreezeCopy`, `FreezeManifest`,
`WriteEvidence…`, and `Evaluate…` afterwards. `Edit` rewrites, deletes or
creates a candidate file at any moment, `Crash` ends the harness and may leave
the file it was writing torn. A text stands for its own SHA-256. What a check
process does with a text is `Outcomes[text]`, a set: flaky candidates have
several outcomes, hanging ones none. A text in `Garbling` may print bytes that
are not UTF-8, on which `subprocess.run(..., text=True)` raises in the harness
(`ChildGarbles`). A second invocation on the same directory starts with what the
first one left there. `bytecode` and `frozenCode` are the compiled texts CPython
keeps in `__pycache__` beside a candidate file and beside the frozen copy, as
long as they count as current; an import prefers them to the file (`Imported`).
CPython goes by size and modification time in whole seconds: `SameStamp` says
whether a rewrite may keep both, and then the old compiled text stays current.
The text itself is still read by the harness, which is why hash and behaviour
can part.

**`CheckRunner`.** The process is `Build`, then for each requested check one of
`SkipUnknown`, `SkipUnbuilt` or `StartCheck`, `RunScenario` for every `run()` of
it, `FinishCheck`, and at last `WriteOutput`. `Answers` is what `run()` may do;
an algorithm without hidden state repeats itself (`answers`), another need not.
`violated` is the list `violations` of a check, empty or not. `ParentReads`,
`ParentRaises` (the output is not UTF-8) and `ParentTimesOut` are the ends of
`subprocess.run` in `checks.py`. A process that is passed no check id makes all
of them (`AllChecks`). What `Harness6G` and `Baseline` assume of a check
process, `ChildResults` of one outcome, is the property `OneOutcomeExplainsIt`
here. The list of results is a set: nothing reads its order. Only whether it is
empty, whether all of it passed and what it says of one check matter to the
harness.

**`Baseline`.** `agent` is everything one invocation does, good or bad; every
return and every exception passes through `WriteRecord` and `RemoveWorktree`, the
two statements of the `finally` block, except `SetupFails`, which is before it.
`config` says what the base commit holds at the editable path and whether
`git status --porcelain` prints that path the way it is configured; `ExtraPaths`
is what the code makes of the output, in which ignored paths do not occur.

**`Benchmark`.** `tracing` is `tracemalloc.is_tracing()`; `Interfere` is any
other code switching it between two statements, or during a call of the
algorithm. `timedOff` is history: tracing was off at every moment from the look
before the timing pass to the look after it. Of the peak of a sample only its
origin is kept (`peak`): the tracing `measure_run` started, somebody else's, or
none.

**`Scenarios`, `ScenarioGenerator`.** A configuration is refused or accepted as in
`__post_init__`; then one step per `rng.randint`, first every quality and then
every arrival, as the two comprehensions do; `Build` makes identifiers and blocks
and returns. `genPc` is the position in the call, `qualityRecords` and
`arrivalRecords` are the two lists under construction. `InputOf` is how `run()`
filters one TTI out of the record lists; the filter itself (`Selected`) is a
recursive function, because the prover knows nothing of `SelectSeq`.

**`DemoScenarios`, `Demo`.** `BuildScenario` is `_build_scenario`; the
dictionaries given to it are functions. `Grouped` is the `setdefault` loop of the
report, `Sections` what the report then walks over. In `Demo` the
variables of the loop and the schedulers belong to the one `run()` in progress,
those of the benchmark (`benchPc` is its `pc`) to the `benchmark_run()` of the
pair. Where `Benchmark` makes a call of `run()` in one step, `Demo` lets the loop
take its steps (`RunStep`) until it ends and then takes that step
(`BenchmarkStep`), with the outcome `run()` had. `Call` leaves the locals of the
run before in place, so that whatever `run()` forgot to set anew would be seen.
`Path.write_text` is two steps, `OpenResults` and `WriteResults`, `OpenReport` and
`WriteReport`: the first empties the file. `Stop`, the end of the script from
outside or by a write that fails, may come anywhere, between them too, and leaves
a torn file; `Launch` starts the script again over its files.

**`EvidenceViewer`.** JavaScript runs a handler to its end, so each is one action:
`FetchSettles` is the answer to a request, `FinishLoading` the continuation of
`loadAll` with everything it renders, `SwitchLanguage` a click, `Reload` a new
page. A text on the page is the key of its string and the language it was written
in; `Rendered` is how far `renderAll` comes before it throws. An answer may also be
`falsy`: `null` or the like, which `rawData` cannot tell from no answer.

## Runs

| Run | Module | Shows |
| --- | --- | --- |
| `SimulationLoop` | `MCSimulationLoop` | the loop around any algorithm, judged by the oracle afterwards. `BlockGrantedOnce`: no block of a TTI recorded twice; `BacklogIsUnserved`: the backlog is exactly what arrived since the last recorded service, in what is carried and in what the algorithm is shown; `EveryTtiOnceInOrder`; `KeepsPromise`: the refinement of `ClosedLoop`; `ReplayAgreesWithLoop`: the oracle recomputes the loop's backlogs; `EmptyServiceIsReported`, and by `ExactOnWholeServices` nothing else is, while each UE is served by one decision per TTI |
| `RoundRobin` | `MCRoundRobin` | `EvenSplit` within a TTI, `NoOvertaking` across TTIs, `WorkConserving`, `NeverRefused` |
| `MaxCqi` | `MCMaxCqi` | `PicksBestChannel`: the result against its definition, and the loop accepts it |
| `ProportionalFair` | `MCProportionalFair` | `BestScoreWins`; `OnlyOverflowPassesTheNeverServed`: a UE that was never served is passed only by an earlier one whose score overflows; `AveragesMatchHistory`: the threaded averages against the closed form over the history |
| `CheckRunner` | `MCCheckRunner` | `OneOutcomeExplainsIt`: what the harness is told is one outcome of the candidate, the assumption `Harness6G` and `Baseline` make; `ChecksAreIndependent`: without hidden state the order of the checks is of no consequence; `PassedMeansCompleted` |
| `Harness6G` | `MCHarness6G` | the evidence explains its reason; accepted means every exposed known check passed; hash, checked text, copy, manifest and evidence agree unless the file was rewritten meanwhile or its bytecode is stale unnoticed; the evidence's manifest is always that of the copy; evaluation only accepts whole copies, and within one run only the one the evidence tells of; every invocation stops |
| `Baseline` | `MCBaseline` | record on disk at every end, and no worktree except after a timeout, where a process of the agent may outlive its kill and keep it; `AcceptedIsWhatTheAgentLeft`: accepted is what stood at the editable path when the agent ended in time, its own text wherever the base commit has none; a run that ends before the evaluation names no candidate; the run ends |
| `BaselineTimeout` | `MCBaseline` | a violation, see [below](#disagreements-found) |
| `Benchmark` | `MCBenchmark` | complete result or none; `SpoiledSamplesTakeTwoSwitches`: a sample timed under tracing takes two switches by other code between the two looks; undisturbed peaks are the pass's own; own tracing stopped |
| `ScenarioGenerator` | `MCScenarioGenerator` | `GeneratedIsRunnable`: an invalid configuration yields nothing, a valid one a scenario whose identifiers name one thing each, with one reading and one arrival for every (TTI, UE), that `run()` does not refuse in any TTI |
| `Demo` | `MCDemo` | `ResultsMatchTheOracles`: the nine traces that the documents promise; `MeasuredRunsAgree`: the runs the benchmark measures decide like the one reported; `UndisturbedIsNotRefused`: no `run()` over a demo scenario raises, recorded or measured, and no pair refuses the next by tracing it left on; `FilesComeFromWholeRuns`: no whole file from part of the pairs, no report begun ahead of whole data, stops in the middle of a write included |
| `EvidenceViewer` | `MCEvidenceViewer` | `PageSpeaksOneLanguage` at every moment, of the texts the page rewrites (not the messages of failed fetches); `EverySectionIsAnswered`: a loaded page shows each section or why it is missing, except one whose file holds `null` or the like |

Every property of a passing run has a *mutant*: a plausible bug in one
definition, written next to it (`… \* Mutant: …`) and never used by the
specification. With the mutant in place TLC finds the property violated, which
shows that the instance is large enough for the property to bite.

## Bounds, and why they are enough

* `SimulationLoop`: two UEs and one that no scenario knows, two blocks, two TTIs
  given unsorted, plus runs with no or repeated TTIs, no or repeated UEs, delay 1,
  and malformed records, and up to two decisions per TTI. Two decisions reach
  every cross-decision conflict, in the loop and in the oracle that replays it,
  two TTIs every carry-over. What holds for any number is proved.
* `RoundRobin`: three UEs, three TTIs, 0, 1 or 4 blocks: 4 blocks wrap the
  rotation of 3 UEs, 1 block makes it span TTIs, and a third TTI lets the cursor
  go stale over an idle one. Every pattern of new demand per TTI.
* `MaxCqi`: three UEs with CQI missing, 0, 7 or 15 and every pattern of demand;
  no state is threaded, so one TTI decides and a second only checks that nothing
  carries over.
* `ProportionalFair`: two UEs and four TTIs, so that an average can have been
  served, decayed and been overtaken again. `MaxScore` is 31: CQI 3
  over the average of a service at CQI 1 overflows after one TTI of decay, where a
  double takes thousands. The scaled averages grow by a digit
  per TTI and are the reason not to go further; what holds for any number is
  proved.
* `CheckRunner`: the three checks that exist, in two orders, and once with an
  unknown and a repeated id; algorithms with and without hidden state.
* `Harness6G`: two invocations (`MaxRuns`), one rewrite (`MaxEdits`), one crash
  (`MaxCrashes`), up to three revisions against a maximum of two, five kinds of
  text, rewrites that the bytecode cache does not notice (`SameStamp`). One
  rewrite between any two of the three reads, or one crash in any write followed
  by a second run, is the shortest form of each hazard.
* `Baseline`: no counters; every combination of how an agent ends, what it
  leaves and what it touches, a path that git ignores included; three base
  commits: without the candidate file, with it, and with an editable path that
  git prints in another way; a candidate whose output cannot be decoded.
* `Benchmark`: −1 to 3 repetitions, the switch turned up to five times
  (`MaxInterference`): enough to spoil two samples and be found on in a third.
* `ScenarioGenerator`: small scenarios with every draw; twelve TTIs of twelve
  blocks, where indices have two digits and identifiers could collide; for each
  field that `__post_init__` checks a configuration that fails only there.
* `Demo`: the shipped scenarios and algorithms as they are (no score comes near
  `MaxScore`, an average being 0 or at least 0.09); 0 or 1 repetitions
  instead of 10, one interference with tracing (`MaxInterference`), two launches
  of the script over the same files (`MaxLaunches`).
* `EvidenceViewer`: its three sections and two languages, and two reloads
  (`MaxReloads`), enough for a language chosen on one page to meet a fetch that
  fails on the next.

No symmetry is declared: the order of UEs, blocks and paths matters to the code.

## Fairness

`run()`, `allocate()`, `run_baseline()`, `benchmark_run()` and the demonstration
are sequential Python: while a statement can be executed it is. Each
specification states weak fairness of that program's steps and of nothing else.
In `Harness6G` and `CheckRunner` the steps of the harness and of the check process
are fair, the editor, the crash and the next invocation are not. A check process
that hangs has no outcome; what ends the wait is the timeout of `subprocess.run`,
which is a step of the harness and real (`checks.py:42`). In `EvidenceViewer` a
fetch settles and its continuation runs; clicks and reloads need never come. In
`Demo` the program advances, while `Stop`, `Launch` and `Interfere` are left to
chance. An algorithm whose `allocate()` never returns is outside the loop's
control and is not modelled inside `SimulationLoop`; there each call returns or
raises.

The two liveness properties, `EveryRunStops` of the harness and `RunEnds` of the
baseline, are where ending is not plain: a candidate may hang, and an exception
must still reach the end of the `finally` block.

## Proofs

`SimulationLoopProofs` proves for all constants (any UEs, blocks, scenarios, any
decisions an algorithm may return), from the assumptions named in
`SimulationLoop` (arguments and records have their types; the instances of every
run satisfy them):

| Theorem | Statement |
| --- | --- |
| `LoopTypes` | `AnyRun => []LoopTypeOK` |
| `GrantsAreExclusive` | `AnyRun => []BlockGrantedOnce` |
| `TtisInOrder` | `AnyRun => []EveryTtiOnceInOrder` |
| `LoopKeepsPromise` | `AnyRun => KeepsPromise` |
| `BacklogIsWhatIsUnserved` | `AnyRun => []BacklogIsUnserved` |
| `CheckRunsTheLoop` | `CheckSpec => AnyRun` |
| `ReplayEndsWhereTheLoopDid` | `CheckSpec => []ReplayAgreesWithLoop` |
| `NoEmptyServicePasses` | `CheckSpec => []EmptyServiceIsReported` |
| `WholeServicesAreJudgedExactly` | `CheckSpec => []ExactOnWholeServices` |

`AnyRun` is the loop around an `allocate()` about which nothing is known but that
it returns a tuple of decisions: the specification of every run of the loop,
without the bound `StepResults`. `CheckSpec` is such a run followed by the replay of
the oracle in `_check_runner.py`.

The argument. None of the properties is inductive alone. *Order* (`OrderInv`)
says what `pending` hides: TTIs already called are those not pending, plus the
one being processed; every recorded decision is of a committed TTI; the calls and
the decisions ascend; every pending TTI is later than all committed ones. From it
follows that a commit adds decisions of a TTI no earlier decision is of, so that
`NoBlockTwice` of the new decisions, which the validation established, gives
`BlockGrantedOnce` of all. For the refinement, *traffic* (`TrafficInv`) relates
the backlog to the arrivals of the TTI in progress: while a TTI is open its
arrivals are contained in `occupancyBytes`, and the log has an entry for exactly
the TTIs committed or open. The refinement mapping then subtracts them: a TTI
takes effect in the promise when it is committed, opening one is a stutter.
Serving the minimum of `due`, the two conditions on the new grants and the drain
are one step each.

The *backlog* (`BacklogInv`) is a sum over the TTIs opened since the last service of
a UE, so its proof needs to know how such a sum grows. The sum over a finite set is
a recursive function on its subsets; that it exists, and that adding an element
adds its value, is shown by induction over the subsets ordered by inclusion (a
smallest subset for which the statement fails would have a smaller one). Opening a
TTI then adds one summand, and a commit that serves a UE leaves none: every TTI in
the log is at or before the one committed.

The *replay* keeps a second book of backlogs. While the loop runs, what the
algorithm was shown is the backlog *as of* that TTI, counted from the decisions
before it (`ShownInv`); this is the middle term. During the replay the book is the
same sum, with the decisions applied so far in place of all (`BookInv`), and the
order of the replay (`ReplayOrder`) says which those are: all those of earlier TTIs
and the first few of the current one. So the first decision that serves a UE in a
TTI meets exactly what the algorithm was shown, and the book differs from it only
if the UE was served in this TTI before. From that follow the two directions of the
verdict (`ReportInv`): a service of a UE shown without backlog is reported, and
whatever else is reported is a second decision for one UE in one TTI.

`SchedulerProofs` proves every safety property of the runs `RoundRobin`,
`MaxCqi` and `ProportionalFair`, from the same assumptions `MaxScoreAssumption`
(`MaxScore` is a natural number) and `NoUeAssumption` of `SimulationLoop`
(`NoUe` is no UE). The state each algorithm starts in, nobody served yet or no
average at all, is part of `RoundRobinInit` and `FairInit`:

| Theorem | Statement |
| --- | --- |
| `RoundRobinTypes` | `RoundRobinSpec => []RoundRobinTypeOK` |
| `RoundRobinNeverRefused` | `RoundRobinSpec => []NeverRefused` |
| `RoundRobinIsWorkConserving` | `RoundRobinSpec => []WorkConserving` |
| `RoundRobinSplitsEvenly` | `RoundRobinSpec => []EvenSplit` |
| `RoundRobinNeverOvertakes` | `RoundRobinSpec => []NoOvertaking` |
| `MaxCqiTypes` | `MaxCqiSpec => []MaxCqiTypeOK` |
| `MaxCqiPicksBest` | `MaxCqiSpec => []PicksBestChannel` |
| `ProportionalFairPicksAMaximum` | `FairSpec => []BestScoreWins` |
| `NewcomersYieldToOverflowOnly` | `FairSpec => []OnlyOverflowPassesTheNeverServed` |
| `AveragesAreTheHistory` | `FairSpec => []AveragesMatchHistory` |
| `ProportionalFairIsAccepted` | the loop never refuses what it returns |
| `RoundRobinIsAnAlgorithm`, `MaxCqiIsAnAlgorithm`, `ProportionalFairIsAnAlgorithm` | the algorithm's specification implies `AnyRun` |

The last three make the theorems about the loop theorems about each of them.

The arguments. *What allocate() returns* (`AssignedInv`): in the middle of the
loop over the blocks, the blocks before `blockIndex` are assigned, each once, to
UEs with demand, and nothing else is; that a block is not assigned twice rests on
the blocks of a well-formed `ObservableState` being distinct. *Even split*
(`SoonerHasLess`): of two eligible UEs the one the search from the cursor meets
sooner has as many blocks as the other or one less. *Overtaking*
(`PassedIsSooner`): a UE that was passed stands before those that passed it, seen
from the cursor, wherever the cursor is at the moment (`Cursor`: in the loop, in
the result of the call, or in the loop's `scheduler_state`). Both use one fact
about positions, `RotationTurns`: serving a position makes it the last, and the
others behind it keep their order. *The scan* (`WinnerIsBestSoFar`): the winner is
the best of the UEs compared so far, and there is none exactly when no contender
was among them.

*The scores* (`WinnerIsUnbeaten`): none of the contenders compared so far
outscores the winner. A tie may replace the winner, so this needs "does not
outscore" to be transitive. Scores are compared as products of a CQI and the
other average; that a factor greater than 0 can be dropped from both sides
(`RatiosCompose`) is the only arithmetic beyond the prover's linear one, and is
proved apart. The first contender whose score is infinite keeps the lead,
whatever `MaxScore` is. *Newcomers*: an average is 0 exactly when no recorded
decision serves the UE, since a service adds a power of ten times a CQI that is
greater than 0 and decay multiplies by 9. *The closed form* (`HistoryInv`): a
call multiplies every summand of the history by 9, because its weight has one
more factor 9 (`PowerFacts`), and adds the one of the UE it served, which is
what `NewAverages` does to the average (`HistoryGrows`, `SumScaled`).

Induction occurs in these proofs twice, over the natural numbers and over finite
sets. The library's induction rules take an operator as a parameter and cannot be
instantiated by the provers installed; each induction here goes through
`WFMin` and a relation known to be well-founded instead.

### The harness, the baseline, the benchmark and the page

Five more proof modules cover every safety property of their runs, each for
any number of what the run bounds: invocations, rewrites, crashes, revisions and
texts; agents and base commits; repetitions and interference; requested checks;
sections, languages, clicks and reloads.

| Module | Theorem | Statement |
| --- | --- | --- |
| `Harness6GProofs` | `TheObservationsTellOneStory` | `Spec => []ObservationsExplainTheReason` |
| | `AcceptedRevisionPassed` | `Spec => []AcceptedPassedEveryCheck` |
| | `FrozenTextIsTheOneThatPassed` | `Spec => []FrozenIsWhatPassed` |
| | `EvidenceDescribesTheCopy` | `Spec => []EvidenceMatchesTheCopy` |
| | `OnlyWholeCopiesAreEvaluated` | `Spec => []VerifiedWasFrozenWhole` |
| | `EvaluationAgreesWithTheEvidence` | `Spec => []EvaluatedIsInTheEvidence` |
| | `HarnessTypes` | `Spec => []TypeOK` |
| `CheckRunnerProofs` | `OneOutcomeIsTold` | `Spec => []OneOutcomeExplainsIt` |
| | `VerdictsAreIndependent` | `Spec => []ChecksAreIndependent` |
| | `PassingCandidatesComplete` | `Spec => []PassedMeansCompleted` |
| `BaselineProofs` | `BaselineLeavesNothing` | `Spec => []NothingLeftBehind` |
| | `BaselineSubstitutesNothing` | `Spec => []NothingSubstituted` |
| | `BaselineAcceptsWhatTheAgentLeft` | `Spec => []AcceptedIsWhatTheAgentLeft` |
| | `BaselineEvaluatesWhatTheAgentLeft` | whatever is evaluated, also what fails, is what the agent left at the editable path |
| `BenchmarkProofs` | `BenchmarkIsComplete` | `Spec => []ResultIsComplete` |
| | `SpoilingTakesTwoSwitches` | `Spec => []SpoiledSamplesTakeTwoSwitches` |
| | `BenchmarkMeasuresPeaks` | `Spec => []PeakIsMeasured` |
| | `BenchmarkStopsTracing` | `Spec => []OwnTracingIsStopped` |
| `EvidenceViewerProofs` | `RewrittenTextsShareOneLanguage` | `Spec => []PageSpeaksOneLanguage` |
| | `PageAnswersForEverySection` | `Spec => []EverySectionIsAnswered` |

The assumptions are those the modules name: `TasksAssumption` (`max_revisions` is
a natural number and the task is valid), `PathsAssumption` (revisions are lists of
paths), `NoTextAssumption` and `OutcomesAssumption` (a missing or torn file is no
text; an outcome says whether it builds and which checks fail, and a process that
cannot decode the text dies), `AgentsAssumption` (only an agent that timed out
survives its kill), `RepetitionsAssumption` (any integers), `LanguagesAssumption`,
`OrderAssumption`, `KnownChecksAssumption` and `RequestsAssumption` (checks are
requested in a list).

The arguments, by the invariant that makes each of them go through:

* `Harness6G`. *The story* (`StoryInv`): every revision tried so far failed in
  time; the reason is chosen once, and the last observation is the one that caused
  it. *One text* (`OneTextInv`): from the first read to the evidence the file is
  the text that was hashed, as long as nobody rewrites it, and the process checked
  that text, as long as no other compiled one was preferred to it; each write adds
  one more place where the text is. *The directory* (`DirectoryInv`,
  `FirstRunInv`): a frozen copy is whole, torn or absent, and its manifest is
  written of it and of nothing else; a first invocation finds the directory empty
  and writes its three files in order, so that whole evidence implies the files
  before it.
* `CheckRunner`. *Completion* (`CompletedInv`): either some result has failed, or
  every scenario of the checks behind the current one is completed. *The shape of
  the list* (`ShapeInv`, `UniqueInv`): the build, and for each known id behind the
  current one at least one result, all alike if ids are requested once. *The
  verdicts* (`VerdictInv`): without hidden state each result is explained by the
  answers alone, and answers, once given, do not change; so each is the verdict
  the check has when it is the only one.
* `Baseline`. *Before the copy* (`BeforeFreeze`) nothing is recorded or frozen, and
  the worktree is what the base commit and an agent within its timeout made of it;
  *after it* (`Frozen`) record, copy and manifest name one text, whatever the
  evaluation says; *at the end* (`EndingInv`) the record on disk is the one
  returned, and that of a killed agent says so if it gives a reason at all.
* `Benchmark`. The calls of `run()` are one, two for each sample, and those of
  the repetition in progress (`CountInv`); every sample timed under tracing has
  used up two of the switches made so far, and during the timing pass the
  switches of the sample in progress are counted as the state of `tracing` shows
  them (`Switches`, `TimedInv`); without interference the switch stands where
  `measure_run` put it (`QuietInv`).
* `EvidenceViewer`. Nothing is taken from the answers before all are in
  (`DataInv`, `SettledInv`); a page that loaded did not throw, and what it shows as
  evidence is what `renderAll` reaches, and so writes again when the language
  changes (`EvidenceIsRendered`, `LoadedInv`).

### The generator and the demonstration

`ScenarioProofs` is about the two places that build scenarios, and composes what
the modules of the parts have proved.

| Theorem | Statement |
| --- | --- |
| `GeneratedScenariosAreRunnable` | `BlockIdsAreUnique => (GeneratorSpec => []GeneratedIsRunnable)` |
| `DemoIsUndisturbed` | `Spec => []UndisturbedIsNotRefused`, `Spec` of `Demo` |
| `FilesHoldWholeRuns` | `Spec => []FilesComeFromWholeRuns` |
| `MeasuredRunsDecideTheSame` | `Spec => []MeasuredRunsAgree` |

The assumptions: the numbers of a configuration are integers
(`ConfigsAssumption`), the UEs of a valid one have different names among `UeIds`
(`UeIdsAssumption`); the two UEs and the blocks of one TTI of the demonstration are
different identifiers among those there are (`DemoIdsAssumption`); repetitions are
integers; `NoUe` is no UE. The prover has no theory of strings, so that `BlockId`
of different indices are different strings is a hypothesis, `BlockIdsAreUnique`, of
the first theorem and not concluded from how the string is put together. It is
kept out of the assumptions because the property is there to test it: in the run
`ScenarioGenerator` TLC finds the identifiers of twelve TTIs of twelve blocks
unique, and those of the mutant without a separator not.

The arguments:

* *Generated scenarios.* While values are drawn, the k-th record of a list is the
  one of pair k, `k \div ues` and `k % ues` (`Drawn`, `GeneratorInv`). When all are
  drawn each pair has exactly one record (`PairNumber`, `DrawnOnce`), so that the
  filter of `run()` finds one value (`SelectedOne`); the blocks of a TTI are a part
  of a list in which no identifier occurs twice (`GeneratedBlocks`). Filter,
  concatenation and grouping are recursions over a list, whose functions are shown
  to exist by the same induction over an interval (`Recursion`, `Induction`).
* *The files* (`DemoInv`). Results are those of the first pairs in order, each with
  all its repetitions, by the invariant of the benchmark (`Measured`, an instance of
  `BenchmarkProofs`, whose lemmas hold of each `benchmark_run()` in turn); the data
  are of an earlier launch until their file is opened, torn until they are written,
  whole from then on, and so is the report. That the
  sections hold exactly the data's results (`SectionsHoldTheResults`) rests on the
  pairs of one scenario following each other: the report groups by scenario, and
  with the pairs in another order it would rearrange them.
* *The runs* (`CleanInv`). Every demo scenario is one that `run()` accepts, and the
  records of each of its TTIs make an `ObservableState` (`BuiltIsRunnable`,
  `DemoIsRunnable`). While a pair is executed the loop holds its arguments and the
  invariant of its algorithm (`PairInv`), taken over from `SchedulerProofs` through
  the instances `Rotated` and `Weighed`: so `allocate()`'s result passes validation
  and no step raises (`RotatedGoesOn`, `GreedyGoesOn`, `WeighedGoesOn`). A call for
  the next pair, another algorithm's perhaps, establishes that invariant over
  whatever the calls before left in the variables (`CallKeeps`). The benchmark then
  ends in an exception only if its repetitions are below one or tracing is on that
  it did not start (`BenchInv`).
* *The measured runs* (`MeasuredInv`). The property relates two runs, the recorded
  one and one the benchmark makes, and no invariant of one run implies it. The
  strengthening says where a run is: `Place` is every local that is still live at
  the program counter, and leaves out what calls before left in the others;
  `Follows` says which place comes next. A run is at the end of a course, a
  sequence of places that starts with the call and in which each follows the one
  before (`OnCourse`, `CourseGoesOn`); since one place follows (`Outset`, `Opening`,
  `Allocated`, `Settled`), two courses of a pair agree as far as both go
  (`CoursesAgree`), and so does what they return (`OneReturn`). `ProportionalFair`
  is where this could fail: of two equal finite scores (`Ties`) rounding may put
  either first. In the demonstration none are ever compared: at any
  call at most one UE has been served before, so that one average at most is
  positive and every other score is infinite (`TieFree`, `OneAverage`,
  `NothingTies`), which needs how many TTIs a run has served at each place (`Pace`).
  For scenarios with ties no such theorem holds of the model.

### Model-checked only

* Everything under fairness (`EveryRunStops`, `RunEnds`): liveness is beyond the
  prover.
* `ResultsMatchTheOracles` of `Demo`: a computation on the shipped scenarios and
  their strings, nine traces, with `NumberOf` choosing a digit by its string and a
  library sort. That these traces do not depend on which call computes them is the
  theorem `MeasuredRunsDecideTheSame`.
* That no two block identifiers are the same string (`BlockIdsAreUnique`).
* The counterexamples of the next section.

## Disagreements found

Statements of the repository that the code does not keep. The first is the run
`BaselineTimeout` and the finding of `PROJECT.json`; for the others the statement
is a definition beside the properties, and TLC shows the counterexample when it is
made the only `INVARIANT` of the configuration named.

1. `EveryEndIsNamed` (`BaselineTimeout.cfg`): a timeout after output ends in a
   `TypeError` and a record without a reason (`rs/baseline/runner.py:157`), though
   "every distinct way this can end is a named `termination_reason`" (112).
   Confirmed on CPython 3.11.
2. `TiesGoToTheFirst` (`ProportionalFair.cfg` with `RunInputs <- TieRunInputs` and
   `TtiInputs <- TieTtiInputs`): equal scores are ordered by rounding, not by
   canonical order (`proportional_fair.py:44` against 90). Confirmed by running the
   Python code on the trace.
3. `OnlyEmptyServiceFails` (`SimulationLoop.cfg`): the oracle reports a UE served by
   two decisions of one TTI as served without backlog (`_check_runner.py:100-105`
   against the rule at 76), which `scheduling_algorithm.py:27` declares valid.
4. `MaxRevisionsIsReported` (`Harness6G.cfg`): exactly `max_revisions` failing
   revisions are reported as `revisions_exhausted` (`orchestrator.py:123` against
   42).
5. `TwoRevisionsNeverCollide` (`Harness6G.cfg`): a revision of the same size written
   within the second at the same path is checked with the bytecode of the one
   before (`candidate.py:64` against 43). Confirmed on CPython 3.11.
6. `NoCandidateNoSubstitute` (`Baseline.cfg`): an agent that writes nothing is
   credited with a candidate file the base commit holds (`rs/baseline/runner.py:165`
   against 33).
7. `OnlyTheScopeWasTouched` (`Baseline.cfg`): writes to ignored paths are not seen
   (`rs/baseline/runner.py:169` against 105).
8. `ViolationsTouchOthers` (`Baseline.cfg`): git prints a new directory in place of
   the files in it, so an obedient agent may end as `editable_scope_violation`
   (`rs/baseline/runner.py:175` against 103).
9. `LoadingIsSaidWhileLoading` (`EvidenceViewer.cfg`): a language switch after the
   load puts the loading text back on the status line for good (`web/app.js:171`,
   `web/index.html:24`).
10. `LoadedMeansSomething` (`EvidenceViewer.cfg`): with all three fetches rejected
    the status line says that the evidence was loaded (`web/app.js:341`); the text
    written for that case (84) is not reached.
11. `DrawnPairByPair` (`ScenarioGenerator.cfg`): every Channel Quality value is drawn
    before the first arrival (`generator.py:117-138`), where ADR-007, point 2, has
    the two alternate.
12. `NoSampleTimedUnderTracing` (`Benchmark.cfg`): tracing that other code switches on
    and off again between the two looks of `measure_run` gives a sample timed under
    tracing (`measurement.py:136-152`), where the docstring says "never both at once"
    (128).
13. `NeverServedFirst` (`ProportionalFair.cfg`, with the small `MaxScore`
    there): a UE served once and idle for thousands of TTIs has a score that
    overflows to infinity (`proportional_fair.py:25`) and passes a UE that was
    never served, which the docstring rules out: "guaranteeing it is served
    before any UE with a nonzero average" (43).
14. `LoadedPageAwaitsNothing` (`EvidenceViewer.cfg`): the section of an evidence file
    that holds `null` says "Awaiting data…" on a page that has loaded
    (`web/app.js:297-305`).

## What is not modelled

* The pseudo-random generator: draws are any values in range, so that equal seeds
  give equal scenarios is not a statement of the model.
* The scripts other than `demo.py`: argument parsing and printing around one
  modelled call each. The test suite.
* The wording and layout of reports, sections and messages.
* `evaluate_protected`, which raises and does nothing else.
* Times, amounts of memory, medians, provenance, timestamps.
* Rounding in `ProportionalFair`, except in the order of equal scores: averages are
  exact, so that one never underflows to 0.
* `<title>` of the page and the descriptions inside the evidence files, which have
  one language each.
* Importing a candidate is one step: that it builds, does not, dies or hangs.

## Plan

Done, in this order: the loop and its promise; the three schedulers; the harness,
the baseline and the benchmark; the check process, the generator, the
demonstration and the page; the faults that lie outside the code (bytecode cache,
base commit, ignored paths, worktrees that stay); proofs of every safety property
of the loop and its oracle, the three schedulers, the harness, the check process,
the baseline, the benchmark, the page and the generator, and of three of the four
of the demonstration.

Left, most useful first:

1. `Harness6G` over `CheckRunner` instead of over outcomes. `OneOutcomeExplainsIt`
   is the interface between the two; a refinement would state it as one.
2. That each algorithm decides the same when `run()` is called again, for any
   scenario without ties and not only those of the demonstration: the courses of
   `MeasuredRunsDecideTheSame`, stated in `SchedulerProofs`.
3. Averages of `ProportionalFair` with rounding: a floating-point format of a few
   bits, to see when two unequal scores change places.

## How to run

    tlc -config SimulationLoop.cfg MCSimulationLoop.tla
    tlapm SimulationLoopProofs.tla

and so on for the other configurations (each names its module in `PROJECT.json`)
and proof modules. The longest runs, `SimulationLoop`, `Demo` and `Harness6G`, take
well under a minute each with two workers. `ScenarioProofs` takes some twelve
minutes to prove from nothing, the other proof modules less.
