--------------------------- MODULE BenchmarkProofs ---------------------------
(***************************************************************************)
(* benchmark_run for any number of repetitions and any interference with   *)
(* the tracing switch.                                                     *)
(***************************************************************************)
EXTENDS Benchmark, FiniteSetTheorems, TLAPS

Positions ==
    {"called", "enter", "time", "look_again", "start", "trace", "stop",
     "stop_raising", "aggregate", "returned", "raised"}

Samples ==
    [timedOff : BOOLEAN, peak : {"none", "real", "foreign", "zero"}, quiet : BOOLEAN]

Types ==
    /\ pc \in Positions
    /\ repetitions \in Int
    /\ tracing \in BOOLEAN
    /\ startedHere \in BOOLEAN
    /\ timedOff \in BOOLEAN
    /\ quiet \in BOOLEAN
    /\ peak \in {"none", "real", "foreign", "zero"}
    /\ samples \in Seq(Samples)
    /\ runCalls \in Nat
    /\ interference \in Nat

\* Where the execution of one repetition is, in calls of run() made for it.
CallsInProgress ==
    IF pc \in {"enter", "time"} THEN 0
    ELSE IF pc \in {"look_again", "start", "trace"} THEN 1 ELSE 2

Measuring ==
    {"enter", "time", "look_again", "start", "trace", "stop", "stop_raising"}

\* Calls of run() are counted by the samples and the place in the code.
CountInv ==
    /\ pc = "called" => samples = <<>> /\ runCalls = 0
    /\ pc \in Measuring =>
          /\ Len(samples) < repetitions
          /\ runCalls = 1 + 2 * Len(samples) + CallsInProgress
    /\ pc \in {"aggregate", "returned"} =>
          /\ Len(samples) = repetitions
          /\ runCalls = 1 + 2 * Len(samples)
    /\ pc = "raised" => runCalls <= 3 + 2 * Len(samples)

\* The switches other code has surely made in the measurement in progress: none
\* while it is clean; once it is spoiled, one until tracing is off again, and two
\* from the second look on, which refuses to go on with tracing on.
Switches ==
    IF timedOff \/ pc \notin Measuring \ {"enter"} THEN 0
    ELSE IF pc \in {"time", "look_again"} /\ tracing THEN 1 ELSE 2

TimedInv ==
    /\ pc = "time" /\ timedOff => ~tracing
    /\ 2 * Cardinality(SpoiledSamples) + Switches <= interference

\* While nobody interferes, the switch is where measure_run has put it.
QuietInv ==
    /\ pc = "start" /\ quiet => ~tracing
    /\ pc = "trace" /\ quiet => tracing /\ startedHere
    /\ pc \in {"stop", "stop_raising"} /\ quiet => peak = "real"
    /\ \A i \in 1 .. Len(samples) : samples[i].quiet => samples[i].peak = "real"

IInv == Types /\ CountInv /\ TimedInv /\ QuietInv /\ OwnTracingIsStopped

----------------------------------------------------------------------------
LEMMA InitEstablishes == Init => IInv
<1> SUFFICES ASSUME Init PROVE IInv
  OBVIOUS
<1> USE RepetitionsAssumption DEF Init
<1>1. samples \in Seq(Samples) /\ Len(samples) = 0
  OBVIOUS
<1>2. Types
  BY <1>1 DEF Types, Positions
<1>3. CountInv /\ QuietInv /\ OwnTracingIsStopped
  BY <1>1 DEF CountInv, QuietInv, OwnTracingIsStopped, Measuring
<1>4. SpoiledSamples = {}
  BY <1>1 DEF SpoiledSamples
<1>5. TimedInv
  BY <1>4, FS_EmptySet DEF TimedInv, Switches, Measuring
<1> QED
  BY <1>2, <1>3, <1>5 DEF IInv

LEMMA SpoiledIsFinite ==
    ASSUME Types
    PROVE  IsFiniteSet(SpoiledSamples) /\ Cardinality(SpoiledSamples) \in Nat
<1>1. Len(samples) \in Nat /\ DOMAIN samples = 1 .. Len(samples)
  BY DEF Types
<1>2. IsFiniteSet(1 .. Len(samples)) /\ SpoiledSamples \subseteq 1 .. Len(samples)
  BY <1>1, FS_Interval DEF SpoiledSamples
<1> QED
  BY <1>2, FS_Subset, FS_CardinalityType

\* A step that appends no sample keeps what is known of the samples.
LEMMA StepsBeforeTheStop ==
    ASSUME IInv, Step \/ Interfere, ~StopTracing
    PROVE  IInv'
<1> USE DEF IInv, Positions
<1>1. samples' = samples
  BY DEF Step, RefuseRepetitions, WarmUp, RefuseEntry, Enter, TimedPass,
     RefuseBetween, LookAgain, StartTracing, TracedPass, Aggregate, Interfere
<1>2. Len(samples) \in Nat
  BY DEF Types
<1>a. Types'
  <2>1. /\ pc' \in Positions
        /\ repetitions' \in Int
        /\ runCalls' \in Nat
        /\ interference' \in Nat
        /\ peak' \in {"none", "real", "foreign", "zero"}
    BY DEF Types, Step, RefuseRepetitions, WarmUp, RefuseEntry, Enter, TimedPass,
       RefuseBetween, LookAgain, StartTracing, TracedPass, Aggregate, Interfere,
       RunThen, Peak
  <2>2. /\ tracing' \in BOOLEAN
        /\ startedHere' \in BOOLEAN
        /\ timedOff' \in BOOLEAN
        /\ quiet' \in BOOLEAN
    BY DEF Types, Step, RefuseRepetitions, WarmUp, RefuseEntry, Enter, TimedPass,
       RefuseBetween, LookAgain, StartTracing, TracedPass, Aggregate, Interfere
  <2> QED
    BY <1>1, <2>1, <2>2 DEF Types
<1>b. CountInv'
  BY <1>1, <1>2 DEF Types, CountInv, CallsInProgress, Measuring, Step,
     RefuseRepetitions, WarmUp, RefuseEntry, Enter, TimedPass, RefuseBetween,
     LookAgain, StartTracing, TracedPass, Aggregate, Interfere, RunThen
<1>3. Cardinality(SpoiledSamples') = Cardinality(SpoiledSamples)
      /\ Cardinality(SpoiledSamples) \in Nat
  BY <1>1, SpoiledIsFinite DEF SpoiledSamples
<1>4. (pc = "time" /\ timedOff => ~tracing)'
  BY DEF TimedInv, Types, Step, RefuseRepetitions, WarmUp, RefuseEntry, Enter,
     TimedPass, RefuseBetween, LookAgain, StartTracing, TracedPass, Aggregate,
     Interfere, RunThen
<1>5. /\ interference \in Nat /\ interference' \in Nat
      /\ Switches' <= Switches + (interference' - interference)
  BY DEF TimedInv, Types, Switches, Measuring, Step, RefuseRepetitions, WarmUp,
     RefuseEntry, Enter, TimedPass, RefuseBetween, LookAgain, StartTracing,
     TracedPass, Aggregate, Interfere, RunThen
<1>6. Switches \in Nat /\ Switches' \in Nat
  BY DEF Switches
<1>7. 2 * Cardinality(SpoiledSamples) + Switches <= interference
  BY DEF TimedInv
<1>8. 2 * Cardinality(SpoiledSamples') + Switches' <= interference'
  <2>1. \A c, c2, s, s2, i, i2 \in Nat :
          c2 = c /\ s2 <= s + (i2 - i) /\ 2 * c + s <= i => 2 * c2 + s2 <= i2
    OBVIOUS
  <2>2. Cardinality(SpoiledSamples') \in Nat
    BY <1>3
  <2> QED
    BY <1>3, <1>5, <1>6, <1>7, <2>1, <2>2
<1>c. TimedInv'
  BY <1>4, <1>8 DEF TimedInv
<1>d. QuietInv'
  BY <1>1 DEF QuietInv, Types, Step, RefuseRepetitions, WarmUp, RefuseEntry, Enter,
     TimedPass, RefuseBetween, LookAgain, StartTracing, TracedPass, Aggregate,
     Interfere, RunThen, Peak
<1>e. OwnTracingIsStopped'
  BY <1>1 DEF OwnTracingIsStopped, Types, Step, RefuseRepetitions, WarmUp,
     RefuseEntry, Enter, TimedPass, RefuseBetween, LookAgain, StartTracing,
     TracedPass, Aggregate, Interfere, RunThen
<1> QED
  BY <1>a, <1>b, <1>c, <1>d, <1>e

\* The sample of a pass that returned joins the others.
LEMMA StoppingKeeps ==
    ASSUME IInv, StopTracing
    PROVE  IInv'
<1> USE DEF IInv, StopTracing, Positions
<1>1. Sample \in Samples /\ samples \in Seq(Samples) /\ Len(samples) \in Nat
  BY DEF Types, Sample, Samples
<1>2. CASE pc = "stop_raising"
  <2>1. samples' = samples /\ pc' = "raised"
    BY <1>2
  <2>2. /\ ~tracing' /\ tracing' \in BOOLEAN
        /\ ~startedHere' /\ startedHere' \in BOOLEAN
        /\ ~timedOff' /\ timedOff' \in BOOLEAN
    OBVIOUS
  <2>a. Types'
    BY <1>1, <2>1, <2>2 DEF Types
  <2>b. CountInv'
    BY <1>1, <1>2, <2>1 DEF Types, CountInv, CallsInProgress, Measuring
  <2>c. QuietInv' /\ OwnTracingIsStopped'
    BY <1>2, <2>1 DEF QuietInv, OwnTracingIsStopped
  <2>3. SpoiledSamples' = SpoiledSamples /\ interference' = interference
    BY <2>1 DEF SpoiledSamples
  <2>4. Switches' = 0 /\ Switches \in Nat
    BY <2>1 DEF Switches, Measuring
  <2>5. Cardinality(SpoiledSamples) \in Nat /\ interference \in Nat
    BY SpoiledIsFinite DEF Types
  <2>d. TimedInv'
    BY <2>1, <2>3, <2>4, <2>5 DEF TimedInv
  <2> QED
    BY <2>a, <2>b, <2>c, <2>d
<1>3. CASE pc = "stop"
  <2>1. samples' = Append(samples, Sample)
    BY <1>3
  <2>2. /\ samples' \in Seq(Samples)
        /\ Len(samples') = Len(samples) + 1
        /\ \A i \in 1 .. Len(samples) : samples'[i] = samples[i]
        /\ samples'[Len(samples) + 1] = Sample
    BY <1>1, <2>1
  <2>3. ASSUME NEW i \in 1 .. Len(samples')
        PROVE  samples'[i].quiet => samples'[i].peak = "real"
    <3>1. CASE i = Len(samples) + 1
      BY <1>3, <2>2, <3>1 DEF Sample, QuietInv
    <3>2. CASE i \in 1 .. Len(samples)
      BY <2>2, <3>2 DEF QuietInv
    <3> QED
      BY <1>1, <2>2, <3>1, <3>2
  <2>4. pc' = IF Len(samples') < repetitions THEN "enter" ELSE "aggregate"
    BY <1>3
  <2>a. Types'
    BY <1>3, <2>2, <2>4 DEF Types
  <2>b. CountInv'
    BY <1>1, <1>3, <2>2, <2>4 DEF Types, CountInv, CallsInProgress, Measuring
  <2>c. QuietInv' /\ OwnTracingIsStopped'
    BY <1>3, <2>3, <2>4 DEF QuietInv, OwnTracingIsStopped
  <2>5. /\ DOMAIN samples = 1 .. Len(samples)
        /\ DOMAIN samples' = 1 .. Len(samples) + 1
    BY <1>1, <2>2
  <2>6. SpoiledSamples' = IF timedOff THEN SpoiledSamples
                          ELSE SpoiledSamples \cup {Len(samples) + 1}
    BY <1>1, <2>2, <2>5 DEF SpoiledSamples, Sample, Types
  <2>7. /\ IsFiniteSet(SpoiledSamples) /\ Cardinality(SpoiledSamples) \in Nat
        /\ Len(samples) + 1 \notin SpoiledSamples
    BY <1>1, <2>5, SpoiledIsFinite DEF SpoiledSamples
  <2>8. Cardinality(SpoiledSamples') = IF timedOff THEN Cardinality(SpoiledSamples)
                                       ELSE Cardinality(SpoiledSamples) + 1
    BY <2>6, <2>7, FS_AddElement
  <2>9. Switches' = 0 /\ Switches = IF timedOff THEN 0 ELSE 2
    BY <1>3, <2>4 DEF Switches, Measuring
  <2>10. interference' = interference /\ interference \in Nat
    BY DEF Types
  <2>d. TimedInv'
    BY <1>3, <2>4, <2>7, <2>8, <2>9, <2>10 DEF TimedInv
  <2> QED
    BY <2>a, <2>b, <2>c, <2>d
<1> QED
  BY <1>2, <1>3

\* A new call of benchmark_run has no sample that could be spoiled.
LEMMA CalledWithNoSample ==
    ASSUME pc' = "called", samples' = <<>>, interference' \in Nat
    PROVE  TimedInv'
<1>1. SpoiledSamples' = {}
  BY DEF SpoiledSamples
<1>2. Cardinality(SpoiledSamples') = 0
  BY <1>1, FS_EmptySet
<1>3. Switches' = 0
  BY DEF Switches, Measuring
<1> QED
  BY <1>2, <1>3 DEF TimedInv

LEMMA StutteringKeeps ==
    ASSUME IInv, UNCHANGED vars
    PROVE  IInv'
BY DEF IInv, vars, Types, CountInv, CallsInProgress, Measuring, TimedInv, Switches,
   SpoiledSamples, QuietInv, OwnTracingIsStopped

LEMMA EveryStepKeeps == IInv /\ [Next]_vars => IInv'
BY StepsBeforeTheStop, StoppingKeeps, StutteringKeeps DEF Next

LEMMA Inductive == Spec => []IInv
BY InitEstablishes, EveryStepKeeps, PTL DEF Spec

----------------------------------------------------------------------------
\* benchmark_run returns a complete result or none: one sample per repetition
\* and 1 + 2 * repetitions executions of run(), for any number of repetitions.
THEOREM BenchmarkIsComplete == Spec => []ResultIsComplete
<1>1. IInv => ResultIsComplete
  <2> SUFFICES ASSUME IInv PROVE ResultIsComplete
    OBVIOUS
  <2>1. Len(samples) \in Nat
    BY DEF IInv, Types
  <2> QED
    BY <2>1 DEF IInv, Types, Positions, CountInv, CallsInProgress, Measuring,
       ResultIsComplete
<1> QED
  BY Inductive, <1>1, PTL

\* A RunMeasurement timed while memory was traced costs other code two switches,
\* for any number of repetitions and of switches: below two, no time is spoiled.
THEOREM SpoilingTakesTwoSwitches == Spec => []SpoiledSamplesTakeTwoSwitches
<1>1. IInv => SpoiledSamplesTakeTwoSwitches
  <2> SUFFICES ASSUME IInv PROVE SpoiledSamplesTakeTwoSwitches
    OBVIOUS
  <2>1. /\ Cardinality(SpoiledSamples) \in Nat
        /\ interference \in Nat
        /\ Switches \in Nat
    BY SpoiledIsFinite DEF IInv, Types, Switches
  <2> QED
    BY <2>1 DEF IInv, TimedInv, SpoiledSamplesTakeTwoSwitches
<1> QED
  BY Inductive, <1>1, PTL

\* An undisturbed peak is the one of measure_run's own tracing.
THEOREM BenchmarkMeasuresPeaks == Spec => []PeakIsMeasured
<1>1. IInv => PeakIsMeasured
  BY DEF IInv, Types, QuietInv, PeakIsMeasured
<1> QED
  BY Inductive, <1>1, PTL

\* measure_run never leaves the tracing it started switched on.
THEOREM BenchmarkStopsTracing == Spec => []OwnTracingIsStopped
<1>1. IInv => OwnTracingIsStopped
  BY DEF IInv
<1> QED
  BY Inductive, <1>1, PTL
=============================================================================
