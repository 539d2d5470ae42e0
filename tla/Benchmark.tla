----------------------------- MODULE Benchmark -----------------------------
(***************************************************************************)
(* benchmark_run and measure_run.  Memory tracing is a switch of the whole *)
(* process: the measured algorithm, or any other code of the process, may  *)
(* turn it on or off at any moment, and measure_run can only look.         *)
(*                                                                         *)
(* Of times and peaks only what makes a sample a clean one is modelled,    *)
(* and provenance is left out.                                             *)
(***************************************************************************)
EXTENDS Integers, Sequences, FiniteSets

CONSTANTS
    Repetitions,     \* values of the argument repetitions
    MaxInterference  \* bound: times other code switches tracing

ASSUME RepetitionsAssumption == Repetitions \subseteq Int

VARIABLES
    pc,            \* where benchmark_run or the measure_run it calls is
    repetitions,   \* the argument
    tracing,       \* tracemalloc.is_tracing()
    samples,       \* what is known of each RunMeasurement appended
    timedOff,      \* history: tracing was off all through the timing pass, from
                   \* the look before it to the look after it
    startedHere,   \* history: the tracing that is on was started by measure_run
    peak,          \* what get_traced_memory() told: "real" when tracing started
                   \* here went on, "foreign" when other code started it, "zero"
                   \* when tracing was off
    quiet,         \* history: no interference since measure_run looked again
    runCalls,      \* history: calls of simulation_loop.run()
    interference   \* history: times other code switched tracing

vars == <<pc, repetitions, tracing, samples, timedOff, startedHere, peak, quiet,
          runCalls, interference>>

Init ==
    /\ pc = "called"
    /\ repetitions \in Repetitions
    /\ tracing \in BOOLEAN
    /\ samples = <<>>
    /\ timedOff = FALSE
    /\ startedHere = FALSE
    /\ peak = "none"
    /\ quiet = FALSE
    /\ runCalls = 0
    /\ interference = 0

----------------------------------------------------------------------------
RefuseRepetitions ==
    /\ pc = "called"
    /\ repetitions < 1
    /\ pc' = "raised"
    /\ UNCHANGED <<peak, quiet, repetitions, tracing, samples, timedOff, startedHere,
                   runCalls, interference>>

\* A call of simulation_loop.run() returns, or raises with the algorithm.
RunThen(returned, raised) ==
    /\ runCalls' = runCalls + 1
    /\ pc' \in {returned, raised}

\* The warm-up is executed once, untimed, and leaves no sample.
WarmUp ==
    /\ pc = "called"
    /\ repetitions >= 1
    /\ RunThen("enter", "raised")
    /\ UNCHANGED <<peak, quiet, repetitions, tracing, samples, timedOff, startedHere,
                   interference>>

\* measure_run: the first thing it does is to look at the switch.
RefuseEntry ==
    /\ pc = "enter"
    /\ tracing
    /\ pc' = "raised"
    /\ UNCHANGED <<peak, quiet, repetitions, tracing, samples, timedOff, startedHere,
                   runCalls, interference>>

Enter ==
    /\ pc = "enter"
    /\ ~tracing
    /\ pc' = "time"
    /\ timedOff' = TRUE
    /\ UNCHANGED <<peak, quiet, repetitions, tracing, samples, startedHere, runCalls,
                   interference>>

\* Pass (a)
TimedPass ==
    /\ pc = "time"
    /\ RunThen("look_again", "raised")
    /\ UNCHANGED <<peak, quiet, repetitions, tracing, samples, timedOff, startedHere,
                   interference>>

RefuseBetween ==
    /\ pc = "look_again"
    /\ tracing
    /\ pc' = "raised"
    /\ UNCHANGED <<peak, quiet, repetitions, tracing, samples, timedOff, startedHere,
                   runCalls, interference>>

\* Mutant: the switch is looked at on entry only.
LookAgainAnyway ==
    /\ pc = "look_again"
    /\ quiet' = TRUE
    /\ pc' = "start"
    /\ UNCHANGED <<peak, repetitions, tracing, samples, timedOff, startedHere,
                   runCalls, interference>>

LookAgain ==
    /\ pc = "look_again"
    /\ ~tracing
    /\ quiet' = TRUE
    /\ pc' = "start"
    /\ UNCHANGED <<peak, repetitions, tracing, samples, timedOff, startedHere,
                   runCalls, interference>>

\* tracemalloc.start() does nothing when other code was faster.
StartTracing ==
    /\ pc = "start"
    /\ tracing' = TRUE
    /\ startedHere' = (startedHere \/ ~tracing)
    /\ pc' = "trace"
    /\ UNCHANGED <<peak, quiet, repetitions, samples, timedOff, runCalls, interference>>

\* get_traced_memory()[1]
Peak == IF ~tracing THEN "zero" ELSE IF startedHere THEN "real" ELSE "foreign"

\* Mutants: an exception of run() skips the stop; the peak is read after it.
TracedPassWithoutFinally ==
    /\ pc = "trace"
    /\ RunThen("stop", "raised")
    /\ peak' = Peak
    /\ UNCHANGED <<quiet, repetitions, tracing, samples, timedOff, startedHere,
                   interference>>

TracedPassReadAfterStop ==
    /\ pc = "trace"
    /\ RunThen("stop", "stop_raising")
    /\ peak' = "zero"
    /\ UNCHANGED <<quiet, repetitions, tracing, samples, timedOff, startedHere,
                   interference>>

\* Pass (b), and the reading of its peak when it returns.
TracedPass ==
    /\ pc = "trace"
    /\ RunThen("stop", "stop_raising")
    /\ peak' = Peak
    /\ UNCHANGED <<quiet, repetitions, tracing, samples, timedOff, startedHere,
                   interference>>

Sample == [timedOff |-> timedOff, peak |-> peak, quiet |-> quiet]

\* Mutant: one repetition too many.
StopTracingOneMore ==
    /\ pc \in {"stop", "stop_raising"}
    /\ tracing' = FALSE
    /\ startedHere' = FALSE
    /\ samples' = IF pc = "stop" THEN Append(samples, Sample)
                  ELSE samples
    /\ timedOff' = FALSE
    /\ pc' = IF pc = "stop_raising" THEN "raised"
             ELSE IF Len(samples') <= repetitions THEN "enter" ELSE "aggregate"
    /\ UNCHANGED <<peak, quiet, repetitions, runCalls, interference>>

\* Mutant: tracing is stopped when the pass raises only.
StopTracingOnError ==
    /\ pc \in {"stop", "stop_raising"}
    /\ tracing' = (tracing /\ pc = "stop")
    /\ startedHere' = (startedHere /\ pc = "stop")
    /\ samples' = IF pc = "stop" THEN Append(samples, Sample)
                  ELSE samples
    /\ timedOff' = FALSE
    /\ pc' = IF pc = "stop_raising" THEN "raised"
             ELSE IF Len(samples') < repetitions THEN "enter" ELSE "aggregate"
    /\ UNCHANGED <<peak, quiet, repetitions, runCalls, interference>>

\* The finally block, and the RunMeasurement of a pass that returned.
StopTracing ==
    /\ pc \in {"stop", "stop_raising"}
    /\ tracing' = FALSE
    /\ startedHere' = FALSE
    /\ samples' = IF pc = "stop" THEN Append(samples, Sample)
                  ELSE samples
    /\ timedOff' = FALSE
    /\ pc' = IF pc = "stop_raising" THEN "raised"
             ELSE IF Len(samples') < repetitions THEN "enter" ELSE "aggregate"
    /\ UNCHANGED <<peak, quiet, repetitions, runCalls, interference>>

\* The medians and the result.
Aggregate ==
    /\ pc = "aggregate"
    /\ pc' = "returned"
    /\ UNCHANGED <<peak, quiet, repetitions, tracing, samples, timedOff, startedHere,
                   runCalls, interference>>

----------------------------------------------------------------------------
Ended == pc \in {"returned", "raised"}

Step == \/ RefuseRepetitions \/ WarmUp
        \/ RefuseEntry \/ Enter \/ TimedPass
        \/ RefuseBetween \/ LookAgain \/ StartTracing \/ TracedPass
        \/ StopTracing \/ Aggregate

\* Other code of the process switches tracing on or off.
Interfere ==
    /\ ~Ended
    /\ interference < MaxInterference
    /\ interference' = interference + 1
    /\ tracing' = ~tracing
    /\ startedHere' = FALSE
    /\ quiet' = FALSE
    /\ timedOff' = (timedOff /\ ~(pc = "time" /\ tracing'))
    /\ UNCHANGED <<peak, pc, repetitions, samples, runCalls>>

Next == Step \/ Interfere

\* A sequential call: it goes on while it can.
Spec == Init /\ [][Next]_vars /\ WF_vars(Step)

----------------------------------------------------------------------------
\* A result is complete or there is none: a call that returns holds one sample
\* per repetition and executed run() 1 + 2 * repetitions times, and no call of
\* run() beyond those of the samples so far, the warm-up and the measurement in
\* progress is ever made.
ResultIsComplete ==
    /\ pc = "returned" =>
          Len(samples) = repetitions /\ runCalls = 1 + 2 * repetitions
    /\ runCalls <= 1 + 2 * Len(samples) + 2
    /\ pc \in {"enter", "aggregate"} => runCalls = 1 + 2 * Len(samples)

\* What the docstring of measure_run says, "never both at once": no sample is
\* timed while memory is traced.  Other code that switches tracing on after the
\* first look and off again before the second makes it false.
NoSampleTimedUnderTracing ==
    \A i \in DOMAIN samples : samples[i].timedOff

SpoiledSamples == {i \in DOMAIN samples : ~samples[i].timedOff}

\* What the two looks of measure_run do guarantee: every sample that was timed
\* while memory was traced took two switches by other code, one on and one off
\* again, within its own timing pass.  A program whose other code switches
\* tracing at most once has clean times only.
SpoiledSamplesTakeTwoSwitches ==
    2 * Cardinality(SpoiledSamples) <= interference

\* The peak of a sample is that of its memory pass, measured by the tracing
\* measure_run started itself, unless other code used the switch after
\* measure_run looked at it for the second time.
PeakIsMeasured ==
    \A i \in DOMAIN samples : samples[i].quiet => samples[i].peak = "real"

\* The tracing measure_run starts never outlives its memory pass, whether the
\* pass returns or raises and whatever other code does with the switch.
OwnTracingIsStopped ==
    tracing /\ startedHere => pc \in {"trace", "stop", "stop_raising"}

=============================================================================
