--------------------------- MODULE SimulationLoop ---------------------------
(***************************************************************************)
(* simulation_loop.run(scenario, algorithm, pipeline_delay): the closed    *)
(* loop of ADR-002 and ADR-009, run against a scheduling algorithm that    *)
(* may return any decisions and any state, or raise.                       *)
(*                                                                         *)
(* run() is one sequential call.  A TTI is three steps, because two of     *)
(* them can raise and the algorithm sits between them: OpenTti applies the *)
(* arrivals and builds the ObservableState, the algorithm returns a step   *)
(* (AllocateReturns), and CommitTti validates, drains and records it.      *)
(* The exogenous records of a TTI are picked when the TTI is reached; they *)
(* do not depend on anything the algorithm did.                            *)
(***************************************************************************)
EXTENDS SchedulingInterface, Integers, FiniteSets

CONSTANTS
    RunInputs,     \* arguments of run(): records of delay, ttis and ues
    TtiInputs,     \* the exogenous records one TTI may hold
    InitialState,  \* what algorithm.initial_state() returns
    StepResults,   \* the (decisions, state) results the algorithm may return
    NoUe           \* None, where an algorithm keeps a ue_id or none

ASSUME RunInputsAssumption ==
    RunInputs \subseteq [delay : Int, ttis : Seq(Nat), ues : Seq(UeIds)]

ASSUME StepResultsAssumption ==
    \A r \in StepResults : r.decisions \in Decisions

ASSUME TtiInputsAssumption == TtiInputs \subseteq TtiInput

ASSUME NoUeAssumption == NoUe \notin UeIds

VARIABLES
    input,           \* the arguments of this call
    pc,              \* where run() is
    pending,         \* indices of the TTIs still to process
    occupancyBytes,  \* occupancy_bytes
    observable,      \* observable_state of the TTI being processed
    arrivals,        \* arrivals_by_ue_id of the TTI being processed
    step,            \* what allocate() returned for this TTI
    schedulerState,  \* scheduler_state
    allDecisions,    \* all_decisions
    calls,           \* history: the TTI of every call of allocate()
    arrivalLog       \* history: the arrivals of every TTI opened so far

loopVars == <<input, pc, pending, occupancyBytes, observable, arrivals, step,
              schedulerState, allDecisions, calls, arrivalLog>>

NoObservable == [tti |-> 0, ues |-> <<>>, blocks |-> <<>>,
                 qualities |-> [u \in UeIds |-> <<>>],
                 buffers |-> [u \in UeIds |-> 0]]

\* occupancy_bytes holds an entry for the UEs of the scenario only; a UE that
\* is not one of them keeps the value 0 here and is never read.
NoBytes == [u \in UeIds |-> 0]

NoStep == [decisions |-> <<>>, state |-> InitialState]

----------------------------------------------------------------------------
LoopInit ==
    /\ input \in RunInputs
    /\ pc = "called"
    /\ pending = Range(input.ttis)
    /\ occupancyBytes = NoBytes
    /\ observable = NoObservable
    /\ arrivals = NoBytes
    /\ step = NoStep
    /\ schedulerState = InitialState
    /\ allDecisions = <<>>
    /\ calls = <<>>
    /\ arrivalLog = [t \in {} |-> NoBytes]

\* The checks before any TTI is processed: d = 0 is the only delay, and no TTI
\* index may occur twice.
AcceptsArguments == input.delay = 0 /\ IsInjective(input.ttis)

Raise == pc' = "raised"

RefuseArguments ==
    /\ pc = "called"
    /\ ~AcceptsArguments
    /\ Raise
    /\ UNCHANGED <<input, pending, occupancyBytes, observable, arrivals, step,
                   schedulerState, allDecisions, calls, arrivalLog>>

\* Mutant: the list of decisions is shared by all calls.
StartKeepingDecisions ==
    /\ pc = "called"
    /\ AcceptsArguments
    /\ pc' = "between"
    /\ schedulerState' = InitialState
    /\ occupancyBytes' = NoBytes
    /\ UNCHANGED <<input, pending, observable, arrivals, step, allDecisions,
                   calls, arrivalLog>>

\* initial_state() is called once, also for a scenario without TTIs.
Start ==
    /\ pc = "called"
    /\ AcceptsArguments
    /\ pc' = "between"
    /\ schedulerState' = InitialState
    /\ occupancyBytes' = NoBytes
    /\ allDecisions' = <<>>
    /\ UNCHANGED <<input, pending, observable, arrivals, step, calls,
                   arrivalLog>>

\* initial_state() is the algorithm's own code: what it raises is not caught.
InitialStateRaises ==
    /\ pc = "called"
    /\ AcceptsArguments
    /\ Raise
    /\ UNCHANGED <<input, pending, occupancyBytes, observable, arrivals, step,
                   schedulerState, allDecisions, calls, arrivalLog>>

----------------------------------------------------------------------------
\* Mutant: scenario.ttis is not sorted, so a later TTI can come first.
AnyTti(t) == t \in pending

\* TTIs are taken in ascending order of index.
IsNextTti(t) == t \in pending /\ \A s \in pending : t <= s

\* arrivals_by_ue_id: a dict comprehension over the arrival records of this
\* TTI, so the last record of a UE replaces the ones before it.
ArrivalsByUe(in) ==
    [u \in UeIds |->
        IF in.arrivals[u] = <<>> THEN 0
        ELSE in.arrivals[u][Len(in.arrivals[u])]]

\* Mutant: the arrivals replace the backlog instead of adding to it.
ReplacedByArrivals(in) ==
    [u \in UeIds |->
        IF u \in Range(input.ues) THEN ArrivalsByUe(in)[u] ELSE 0]

\* occupancy_bytes[ue_id] += arrivals_by_ue_id.get(ue_id, 0), for every UE of
\* the scenario; an arrival of any other UE is ignored.
WithArrivals(in) ==
    [u \in UeIds |->
        IF u \in Range(input.ues)
        THEN occupancyBytes[u] + ArrivalsByUe(in)[u]
        ELSE occupancyBytes[u]]

Observe(t, in) ==
    [tti |-> t, ues |-> input.ues, blocks |-> in.blocks,
     qualities |-> in.qualities, buffers |-> WithArrivals(in)]

\* Arrivals are applied before the ObservableState is built, so that the
\* algorithm sees this TTI's traffic.  Building it raises on malformed records.
OpenTti ==
    /\ pc = "between"
    /\ \E t \in pending, in \in TtiInputs :
          /\ IsNextTti(t)
          /\ occupancyBytes' = WithArrivals(in)
          /\ observable' = Observe(t, in)
          /\ arrivals' = ArrivalsByUe(in)
          /\ arrivalLog' = [s \in DOMAIN arrivalLog \cup {t} |->
                               IF s = t THEN ArrivalsByUe(in) ELSE arrivalLog[s]]
          /\ pc' = IF WellFormed(Observe(t, in)) THEN "allocate" ELSE "raised"
    /\ UNCHANGED <<input, pending, step, schedulerState, allDecisions, calls>>

\* allocate() is called once with this TTI's ObservableState and the state the
\* previous call returned.
AllocateReturns(decisions, state) ==
    /\ pc = "allocate"
    /\ pc' = "commit"
    /\ step' = [decisions |-> decisions, state |-> state]
    /\ calls' = Append(calls, observable.tti)
    /\ UNCHANGED <<input, pending, occupancyBytes, observable, arrivals,
                   schedulerState, allDecisions, arrivalLog>>

\* An exception raised by allocate() is never caught.
AllocateRaises ==
    /\ pc = "allocate"
    /\ Raise
    /\ calls' = Append(calls, observable.tti)
    /\ UNCHANGED <<input, pending, occupancyBytes, observable, arrivals, step,
                   schedulerState, allDecisions, arrivalLog>>

----------------------------------------------------------------------------
\* _validate_decisions
ValidDecision(d) ==
    /\ d.tti = observable.tti
    /\ d.ue \in Range(observable.ues)
    /\ Range(d.blocks) \subseteq Range(observable.blocks)

\* Mutant: the set of assigned blocks is started afresh for each decision.
NoBlockTwiceInOneDecision(ds) == \A i \in DOMAIN ds : IsInjective(ds[i].blocks)

\* No block is assigned twice, within one decision or across two of them.
NoBlockTwice(ds) ==
    \A i, j \in DOMAIN ds :
        \A a \in DOMAIN ds[i].blocks, b \in DOMAIN ds[j].blocks :
            ds[i].blocks[a] = ds[j].blocks[b] => i = j /\ a = b

ValidDecisions(ds) ==
    /\ \A i \in DOMAIN ds : ValidDecision(ds[i])
    /\ NoBlockTwice(ds)

RefuseStep ==
    /\ pc = "commit"
    /\ ~ValidDecisions(step.decisions)
    /\ Raise
    /\ UNCHANGED <<input, pending, occupancyBytes, observable, arrivals, step,
                   schedulerState, allDecisions, calls, arrivalLog>>

\* Every UE served with at least one block has its whole backlog cleared.
Drained(ds) ==
    [u \in UeIds |-> IF u \in ServedBy(ds) THEN 0 ELSE occupancyBytes[u]]

CommitTti ==
    /\ pc = "commit"
    /\ ValidDecisions(step.decisions)
    /\ pc' = "between"
    /\ occupancyBytes' = Drained(step.decisions)
    /\ schedulerState' = step.state
    /\ allDecisions' = allDecisions \o step.decisions
    /\ pending' = pending \ {observable.tti}
    /\ UNCHANGED <<input, observable, arrivals, step, calls, arrivalLog>>

Return ==
    /\ pc = "between"
    /\ pending = {}
    /\ pc' = "returned"
    /\ UNCHANGED <<input, pending, occupancyBytes, observable, arrivals, step,
                   schedulerState, allDecisions, calls, arrivalLog>>

----------------------------------------------------------------------------
\* Everything run() does itself; an algorithm adds the call of allocate(), and
\* may raise in either of its two methods.
LoopStep == \/ RefuseArguments
            \/ Start
            \/ OpenTti
            \/ RefuseStep
            \/ CommitTti
            \/ Return

AllocateAnything ==
    \E r \in StepResults : AllocateReturns(r.decisions, r.state)

\* One call of allocate() that returns some tuple of decisions and some state.
AllocateReturnsSomething ==
    /\ step'.decisions \in Decisions
    /\ AllocateReturns(step'.decisions, step'.state)

\* What every algorithm's run is: the loop around an unknown allocate().
AnyNext == \/ LoopStep
           \/ InitialStateRaises
           \/ AllocateReturnsSomething
           \/ AllocateRaises

AnyRun == LoopInit /\ [][AnyNext]_loopVars

LoopNext == \/ LoopStep
            \/ InitialStateRaises
            \/ AllocateAnything
            \/ AllocateRaises

\* run() is a sequential program: it keeps executing while it can.
LoopSpec == LoopInit /\ [][LoopNext]_loopVars /\ WF_loopVars(LoopNext)

----------------------------------------------------------------------------
\* Types of the loop's variables.
LoopTypeOK ==
    /\ input \in RunInputs
    /\ pc \in {"called", "between", "allocate", "commit", "returned", "raised"}
    /\ pending \subseteq Range(input.ttis)
    /\ occupancyBytes \in [UeIds -> Nat]
    /\ observable \in Observable
    /\ arrivals \in [UeIds -> Nat]
    /\ step.decisions \in Decisions
    /\ allDecisions \in Decisions
    /\ calls \in Seq(Nat)
    /\ DOMAIN arrivalLog \subseteq Range(input.ttis)
    /\ arrivalLog \in [DOMAIN arrivalLog -> [UeIds -> Nat]]

\* No Resource Block of a TTI is ever granted twice in the recorded decisions
\* of a run, whether within one decision, across the decisions of a TTI, or
\* because a later TTI's decisions name an earlier TTI (_validate_decisions
\* and the order in which run() records what passed it).
BlockGrantedOnce ==
    \A i, j \in DOMAIN allDecisions :
        allDecisions[i].tti = allDecisions[j].tti =>
            \A a \in DOMAIN allDecisions[i].blocks,
               b \in DOMAIN allDecisions[j].blocks :
                allDecisions[i].blocks[a] = allDecisions[j].blocks[b]
                    => i = j /\ a = b

\* The TTIs whose recorded decisions served u with at least one block.
ServiceTtis(u) ==
    {d.tti : d \in {x \in Range(allDecisions) : x.ue = u /\ x.blocks # <<>>}}

\* What arrived for u in the TTIs opened since u was last served.
ArrivedSinceService(u) ==
    SumFunctionOnSet([t \in DOMAIN arrivalLog |-> arrivalLog[t][u]],
                     {t \in DOMAIN arrivalLog : \A s \in ServiceTtis(u) : s < t})

\* The backlog run() carries from TTI to TTI, and shows to the algorithm,
\* is exactly what arrived since the UE's last recorded service: no arrival is
\* lost, counted twice or cleared by a decision without blocks (ADR-009's
\* drain rule against the recorded decisions).
BacklogIsUnserved ==
    \A u \in Range(input.ues) :
        /\ pc \in {"between", "allocate", "commit", "returned"} =>
              occupancyBytes[u] = ArrivedSinceService(u)
        /\ pc \in {"allocate", "commit"} =>
              observable.buffers[u] = ArrivedSinceService(u)

\* allocate() is called for strictly ascending TTIs whatever the order of
\* scenario.ttis, the recorded decisions follow the same order, none of them
\* is of a TTI still to be committed, and a run that returns has called
\* allocate() exactly once for every TTI of the scenario.
EveryTtiOnceInOrder ==
    /\ \A i, j \in DOMAIN calls : i < j => calls[i] < calls[j]
    /\ \A i, j \in DOMAIN allDecisions :
          i < j => allDecisions[i].tti <= allDecisions[j].tti
    /\ \A i \in DOMAIN allDecisions :
          allDecisions[i].tti \in Range(calls) \ pending
    /\ pc = "returned" => Range(calls) = Range(input.ttis)

----------------------------------------------------------------------------
(***************************************************************************)
(* Refinement.  A TTI is served at the moment it is committed; until then  *)
(* its arrivals are already in occupancy_bytes and not yet in the promise. *)
(***************************************************************************)
TtiOpen == DOMAIN arrivalLog \cap pending # {}

CarriedOver ==
    [u \in UeIds |->
        IF TtiOpen /\ u \in Range(input.ues)
        THEN occupancyBytes[u] - arrivals[u]
        ELSE occupancyBytes[u]]

\* arrivalLog without what arrived for UEs outside the scenario, over the TTIs
\* already committed.
ServedTraffic ==
    [t \in Range(input.ttis) \ pending |->
        [u \in UeIds |-> IF u \in Range(input.ues) THEN arrivalLog[t][u] ELSE 0]]

Promise == INSTANCE ClosedLoop WITH
    due     <- pending,
    traffic <- ServedTraffic,
    backlog <- CarriedOver,
    granted <- Grants(allDecisions),
    status  <- CASE pc = "returned" -> "complete"
                 [] pc = "raised"   -> "failed"
                 [] OTHER           -> "running"

\* run() keeps the closed-loop promise with any algorithm.
KeepsPromise == Promise!Spec
=============================================================================
