-------------------------------- MODULE Demo --------------------------------
(***************************************************************************)
(* scripts/demo.py: run_demo over every pair of a demo scenario and a      *)
(* reference implementation, then the two files of evidence/demo.          *)
(*                                                                         *)
(* The parts are the modules of the components themselves.  A pair is one  *)
(* run() for its decisions and one benchmark_run(), whose warm-up, timing  *)
(* pass and memory pass are each another run() of the same algorithm       *)
(* object.  While one of them is due the Simulation Loop takes the steps,  *)
(* and the benchmark goes on when run() has ended.  The script may be      *)
(* stopped at any moment and started again over the files it left.         *)
(***************************************************************************)
EXTENDS DemoScenarios

CONSTANTS
    Repetitions,      \* values of benchmark_repetitions
    MaxInterference,  \* bound: times other code switches memory tracing
    MaxLaunches,      \* bound: times the script is started
    NoUe,             \* no UE, as in SimulationLoop
    MaxScore          \* the largest finite score, as in ProportionalFair

ASSUME RepetitionsAssumption == Repetitions \subseteq Int

ASSUME NoUeAssumption == NoUe \notin UeIds

ASSUME MaxScoreAssumption == MaxScore \in Nat

\* The identifiers of the demo scenarios are among those there are, and those
\* of one TTI differ.
ASSUME DemoIdsAssumption ==
    /\ {UeId(0), UeId(1)} \subseteq UeIds
    /\ UeId(0) # UeId(1)
    /\ \A t \in 0 .. 1 : /\ {BlockId(t, 0), BlockId(t, 1)} \subseteq BlockIds
                         /\ BlockId(t, 0) # BlockId(t, 1)

VARIABLES
    launch,     \* history: which start of the script this is
    phase,      \* "decide", "benchmark", "write", "writing" (results.json is
                \* open), "report", "reporting", "done" or "stopped"
    results,    \* the DemoRunResults so far
    decisions,  \* simulation_result.decisions of the current pair
    jsonFile,   \* results.json: the launch that opened it, whether it was written
                \* to its end, and its results
    reportFile  \* relatorio.md: the same, and its sections

demoVars == <<launch, phase, results, decisions, jsonFile, reportFile>>

\* The variables of the Simulation Loop and of the three algorithms.
VARIABLES input, pc, pending, occupancyBytes, observable, arrivals, step,
          schedulerState, allDecisions, calls, arrivalLog,
          blockIndex, pointer, lastAssigned, assignments, served, passed,
          scanning, scanned, bestCqi, winner, serviceLog

\* The variables of benchmark_run; benchPc is its pc.
VARIABLES benchPc, repetitions, tracing, samples, timedOff, startedHere, peak,
          quiet, runCalls, interference

loopVars == <<input, pc, pending, occupancyBytes, observable, arrivals, step,
              schedulerState, allDecisions, calls, arrivalLog>>
rrVars == <<blockIndex, pointer, lastAssigned, assignments, served, passed>>
scanVars == <<scanning, scanned, bestCqi, winner, serviceLog>>
runVars == <<loopVars, rrVars, scanVars>>
benchVars == <<benchPc, repetitions, tracing, samples, timedOff, startedHere,
               peak, quiet, runCalls, interference>>
vars == <<demoVars, runVars, benchVars>>

----------------------------------------------------------------------------
Algorithms == <<"RoundRobin", "ProportionalFair", "MaxCQI">>

PairCount == Len(BuildDemoScenarios) * Len(Algorithms)

\* The k-th iteration: for demo_scenario ... for spec in algorithms.
Pair(k) ==
    [demo |-> BuildDemoScenarios[((k - 1) \div Len(Algorithms)) + 1],
     algorithm |-> Algorithms[((k - 1) % Len(Algorithms)) + 1]]

Current == Pair(Len(results) + 1)

ArgumentsOf(scenario) ==
    [delay |-> 0, ttis |-> scenario.ttis, ues |-> scenario.ues]

AllArguments == {ArgumentsOf(d.scenario) : d \in Range(BuildDemoScenarios)}

AllInputs ==
    UNION {{InputOf(d.scenario, t) : t \in Range(d.scenario.ttis)} :
              d \in Range(BuildDemoScenarios)}

Rotation == INSTANCE RoundRobin WITH
    RunInputs <- AllArguments, TtiInputs <- AllInputs, StepResults <- {},
    InitialState <- NoUe
Fair == INSTANCE ProportionalFair WITH
    RunInputs <- AllArguments, TtiInputs <- AllInputs, StepResults <- {},
    InitialState <- [u \in {} |-> 0]
Greedy == INSTANCE MaxCqi WITH
    RunInputs <- AllArguments, TtiInputs <- AllInputs, StepResults <- {},
    InitialState <- NoUe
Bench == INSTANCE Benchmark WITH pc <- benchPc

\* No file; a file that write_text has emptied and not filled, or in part; one
\* it has written to its end.
Nothing == [launch |-> 0, whole |-> FALSE, content |-> <<>>]
Torn == [launch |-> launch, whole |-> FALSE, content |-> <<>>]
Whole(content) == [launch |-> launch, whole |-> TRUE, content |-> content]

Init ==
    /\ launch = 1
    /\ phase = "decide"
    /\ results = <<>>
    /\ decisions = <<>>
    /\ jsonFile = Nothing
    /\ reportFile = Nothing
    /\ Rotation!RoundRobinInit
    /\ input = ArgumentsOf(Pair(1).demo.scenario)
    /\ scanning = FALSE /\ scanned = 0 /\ bestCqi = 0 /\ winner = NoUe
    /\ serviceLog = <<>>
    /\ Bench!Init

----------------------------------------------------------------------------
\* run() is called for a pair.  Its locals are those of the call before until
\* run() itself sets them; only what is history starts anew.
Call(pair) ==
    /\ input' = ArgumentsOf(pair.demo.scenario)
    /\ pc' = "called"
    /\ pending' = Range(pair.demo.scenario.ttis)
    /\ calls' = <<>>
    /\ arrivalLog' = [t \in {} |-> <<>>]
    /\ blockIndex' = 0
    /\ scanning' = FALSE
    /\ serviceLog' = <<>>
    /\ UNCHANGED <<occupancyBytes, observable, arrivals, step, schedulerState,
                   allDecisions, pointer, lastAssigned, assignments, served,
                   passed, scanned, bestCqi, winner>>

RunEnded == pc \in {"returned", "raised"}

\* The benchmark waits for the run() it called.
Executing == phase = "benchmark" /\ repetitions >= 1
                 /\ benchPc \in {"called", "time", "trace"}

\* A TTI is opened with the records the Scenario holds for it.
OpensItsOwnRecords ==
    pc = "between" /\ pc' \in {"allocate", "raised"} =>
        LET in == InputOf(Current.demo.scenario, observable'.tti)
        IN /\ observable' = Rotation!Observe(observable'.tti, in)
           /\ arrivals' = Rotation!ArrivalsByUe(in)

RunStep ==
    /\ phase = "decide" \/ Executing
    /\ ~RunEnded
    /\ CASE Current.algorithm = "RoundRobin" ->
              Rotation!RoundRobinNext /\ UNCHANGED scanVars
         [] Current.algorithm = "ProportionalFair" ->
              Fair!FairNext /\ UNCHANGED <<rrVars, bestCqi>>
         [] Current.algorithm = "MaxCQI" ->
              Greedy!MaxCqiNext /\ UNCHANGED <<rrVars, serviceLog>>
    /\ OpensItsOwnRecords
    /\ UNCHANGED <<demoVars, benchVars>>

Failed ==
    IF phase = "decide" THEN pc = "raised"
    ELSE phase = "benchmark" /\ benchPc = "raised"

\* Mutant: the script goes on to write what it has.
FailAndWrite ==
    /\ Failed
    /\ phase' = "write"
    /\ UNCHANGED <<launch, results, decisions, jsonFile, reportFile, runVars,
                   benchVars>>

\* An exception of run() or of benchmark_run() ends the script.
Fail ==
    /\ Failed
    /\ phase' = "stopped"
    /\ UNCHANGED <<launch, results, decisions, jsonFile, reportFile, runVars,
                   benchVars>>

\* run() returned: its decisions are kept and benchmark_run is called.
Decide ==
    /\ phase = "decide"
    /\ pc = "returned"
    /\ decisions' = allDecisions
    /\ phase' = "benchmark"
    /\ Call(Current)
    /\ UNCHANGED <<launch, results, jsonFile, reportFile, benchVars>>

BenchmarkStep ==
    /\ phase = "benchmark"
    /\ IF Executing
       THEN /\ RunEnded
            /\ Bench!Step
            /\ (pc = "raised") <=> benchPc' \in {"raised", "stop_raising"}
            /\ Call(Current)
       ELSE Bench!Step /\ UNCHANGED runVars
    /\ UNCHANGED demoVars

Interfere ==
    /\ phase \in {"decide", "benchmark"}
    /\ Bench!Interfere
    /\ UNCHANGED <<demoVars, runVars>>

\* benchmark_run is a new call with the same argument; tracing is the process's.
FreshBenchmark ==
    /\ benchPc' = "called"
    /\ samples' = <<>>
    /\ timedOff' = FALSE
    /\ quiet' = FALSE
    /\ runCalls' = 0

\* results.append(DemoRunResult(...)), and the next pair.
AppendResult ==
    /\ phase = "benchmark"
    /\ benchPc = "returned"
    /\ results' = Append(results, [scenario |-> Current.demo.id,
                                   algorithm |-> Current.algorithm,
                                   decisions |-> decisions,
                                   samples |-> Len(samples)])
    /\ IF Len(results') = PairCount
       THEN phase' = "write" /\ UNCHANGED <<runVars, benchVars>>
       ELSE /\ phase' = "decide"
            /\ Call(Pair(Len(results') + 1))
            /\ FreshBenchmark
            /\ UNCHANGED <<repetitions, tracing, startedHere, peak, interference>>
    /\ UNCHANGED <<launch, decisions, jsonFile, reportFile>>

----------------------------------------------------------------------------
ResultToDict(r) ==
    [scenario |-> r.scenario, algorithm |-> r.algorithm,
     trace |-> DecisionsTrace(r.decisions), repetitions |-> r.samples]

\* Path.write_text opens the file, which empties it, and then writes.
OpenResults ==
    /\ phase = "write"
    /\ jsonFile' = Torn
    /\ phase' = "writing"
    /\ UNCHANGED <<launch, results, decisions, reportFile, runVars, benchVars>>

WriteResults ==
    /\ phase = "writing"
    /\ jsonFile' = Whole([i \in DOMAIN results |-> ResultToDict(results[i])])
    /\ phase' = "report"
    /\ UNCHANGED <<launch, results, decisions, reportFile, runVars, benchVars>>

\* by_scenario.setdefault(result.scenario_id, []).append(result)
Grouped(groups, r) ==
    LET own == {g \in DOMAIN groups : groups[g][1].scenario = r.scenario}
    IN IF own = {} THEN Append(groups, <<r>>)
       ELSE [g \in DOMAIN groups |->
                IF g \in own THEN Append(groups[g], r) ELSE groups[g]]

\* render_report_pt: a section for each scenario_id, in the order they first
\* occur, with the trace and the repetitions of each of its results.
Sections(rs) ==
    LET upTo[n \in 0 .. Len(rs)] ==
            IF n = 0 THEN <<>> ELSE Grouped(upTo[n - 1], ResultToDict(rs[n]))
    IN upTo[Len(rs)]

OpenReport ==
    /\ phase = "report"
    /\ reportFile' = Torn
    /\ phase' = "reporting"
    /\ UNCHANGED <<launch, results, decisions, jsonFile, runVars, benchVars>>

WriteReport ==
    /\ phase = "reporting"
    /\ reportFile' = Whole(Sections(results))
    /\ phase' = "done"
    /\ UNCHANGED <<launch, results, decisions, jsonFile, runVars, benchVars>>

\* The script is stopped from outside, or a write fails: a file that is open then
\* stays torn.
Stop ==
    /\ phase \notin {"done", "stopped"}
    /\ phase' = "stopped"
    /\ UNCHANGED <<launch, results, decisions, jsonFile, reportFile, runVars,
                   benchVars>>

\* It is started again: a new process, over the files there are.
Launch ==
    /\ phase \in {"done", "stopped"}
    /\ launch < MaxLaunches
    /\ launch' = launch + 1
    /\ phase' = "decide"
    /\ results' = <<>>
    /\ Call(Pair(1))
    /\ FreshBenchmark
    /\ tracing' = FALSE
    /\ startedHere' = FALSE
    /\ UNCHANGED <<decisions, jsonFile, reportFile, repetitions, peak, interference>>

----------------------------------------------------------------------------
Advance == RunStep \/ Fail \/ Decide \/ BenchmarkStep \/ AppendResult
               \/ OpenResults \/ WriteResults \/ OpenReport \/ WriteReport

Next == Advance \/ Interfere \/ Stop \/ Launch

\* A sequential script: it goes on while it can.  Nobody has to start it again.
Spec == Init /\ [][Next]_vars /\ WF_vars(Advance)

----------------------------------------------------------------------------
Entry(i, blocks) == [ue |-> UeId(i), blocks |-> blocks]

\* The oracles of tests/test_demo.py, traced by hand there.
OracleTrace(scenario, algorithm) ==
    CASE scenario = "ue_competition" /\ algorithm = "RoundRobin" ->
           (0 :> <<Entry(0, <<"rb-0-0">>), Entry(1, <<"rb-0-1">>)>>)
             @@ (1 :> <<Entry(0, <<"rb-1-0">>), Entry(1, <<"rb-1-1">>)>>)
      [] scenario = "ue_competition" /\ algorithm # "RoundRobin" ->
           (0 :> <<Entry(0, <<"rb-0-0", "rb-0-1">>)>>)
             @@ (1 :> <<Entry(IF algorithm = "MaxCQI" THEN 0 ELSE 1,
                              <<"rb-1-0", "rb-1-1">>)>>)
      [] scenario = "cqi_difference" ->
           0 :> <<Entry(IF algorithm = "MaxCQI" THEN 1 ELSE 0, <<"rb-0-0">>)>>
      [] scenario = "no_eligibility_or_resources" -> <<>>

\* Every pair is run once, scenario by scenario, and its recorded trace is the
\* one computed by hand, wherever in the sequence of runs over shared algorithm
\* objects it comes (run_demo, the three algorithms and the loop together).
ResultsMatchTheOracles ==
    \A i \in DOMAIN results :
        LET scenario  == BuildDemoScenarios[((i - 1) \div 3) + 1].id
            algorithm == Algorithms[((i - 1) % 3) + 1]
        IN /\ results[i].scenario = scenario /\ results[i].algorithm = algorithm
           /\ DecisionsTrace(results[i].decisions) = OracleTrace(scenario, algorithm)

\* What is measured is what is reported: each run() the benchmark of a pair
\* makes decides exactly as the run whose decisions are recorded, so no state
\* of one run reaches the next.
MeasuredRunsAgree == Executing /\ pc = "returned" => allDecisions = decisions

\* Undisturbed, the script is never refused by its own benchmark: the tracing
\* of one pair's memory pass is off when the next pair is measured, and no run
\* over a demo scenario ever raises.  What ends a benchmark is a number of
\* repetitions below one, or tracing that other code turned on.
UndisturbedIsNotRefused ==
    /\ pc # "raised"
    /\ benchPc = "raised" => repetitions < 1 \/ (tracing /\ ~startedHere)

\* The two files of evidence/demo come from whole runs, whatever is refused or
\* stopped, in the middle of a write too, and started again.  A results.json that
\* was written to its end holds every pair with all its repetitions.  The report
\* is never of a later launch than the data; one of the same launch, torn or not,
\* was begun after data that is whole, and when it is whole too its sections hold
\* exactly the results of the data.  A script that is done leaves both whole.
FilesComeFromWholeRuns ==
    /\ jsonFile.whole =>
          /\ Len(jsonFile.content) = PairCount
          /\ \A r \in Range(jsonFile.content) : r.repetitions = repetitions
    /\ reportFile.launch <= jsonFile.launch
    /\ reportFile # Nothing /\ reportFile.launch = jsonFile.launch => jsonFile.whole
    /\ reportFile.whole /\ reportFile.launch = jsonFile.launch =>
          FlattenSeq(reportFile.content) = jsonFile.content
    /\ phase = "done" => /\ jsonFile.whole /\ reportFile.whole
                         /\ jsonFile.launch = launch /\ reportFile.launch = launch
=============================================================================
