--------------------------- MODULE DemoScenarios ---------------------------
(***************************************************************************)
(* The hand-built scenarios of demo.scenarios and the trace of a run that  *)
(* demo.report makes of its decisions.                                     *)
(***************************************************************************)
EXTENDS Scenarios

\* dict.get(key, 0)
Get(dict, key) == IF key \in DOMAIN dict THEN dict[key] ELSE 0

\* ChannelQuality and TrafficArrival records of every UE in every TTI.
Records(numTtis, ues, dict) ==
    PerTti([t \in 0 .. numTtis - 1 |->
        [k \in DOMAIN ues |-> [tti |-> t, ue |-> ues[k],
                               value |-> Get(dict, <<t, ues[k]>>)]]])

\* _build_scenario.  An int in place of a dict is the constant function.
BuildScenario(ues, numTtis, blocksPerTti, cqis, bytes) ==
    [ttis      |-> TtiIndices(numTtis),
     ues       |-> ues,
     blocks    |-> ResourceBlocks([t \in 0 .. numTtis - 1 |-> Get(blocksPerTti, t)]),
     qualities |-> Records(numTtis, ues, cqis),
     arrivals  |-> Records(numTtis, ues, bytes)]

TwoUes == <<UeId(0), UeId(1)>>

Everywhere(numTtis, value) ==
    [p \in (0 .. numTtis - 1) \X Range(TwoUes) |-> value]

UeCompetition ==
    BuildScenario(TwoUes, 2, [t \in 0 .. 1 |-> 2], Everywhere(2, 10),
                  [p \in DOMAIN Everywhere(2, 0) |-> IF p[1] = 0 THEN 100 ELSE 50])

CqiDifference ==
    BuildScenario(TwoUes, 1, [t \in 0 .. 0 |-> 1],
                  [p \in DOMAIN Everywhere(1, 0) |-> IF p[2] = UeId(0) THEN 3 ELSE 12],
                  Everywhere(1, 100))

NoEligibilityOrResources ==
    BuildScenario(TwoUes, 2, [t \in 0 .. 1 |-> IF t = 0 THEN 1 ELSE 0],
                  Everywhere(2, 10),
                  [p \in DOMAIN Everywhere(2, 0) |-> IF p[1] = 0 THEN 0 ELSE 100])

BuildDemoScenarios ==
    <<[id |-> "ue_competition", scenario |-> UeCompetition],
      [id |-> "cqi_difference", scenario |-> CqiDifference],
      [id |-> "no_eligibility_or_resources", scenario |-> NoEligibilityOrResources]>>

----------------------------------------------------------------------------
\* ue_id is sorted as a string.  The UEs here have one digit each.
NumberOf(u) == CHOOSE i \in 0 .. 9 : UeId(i) = u

\* Mutant: the entry of one UE replaces the one before it.
DecisionsTraceOfLast(decisions) ==
    [t \in {d.tti : d \in Range(decisions)} |->
        LET last == Last(OfTti(decisions, t))
        IN <<[ue |-> last.ue, blocks |-> last.blocks]>>]

\* decisions_trace
DecisionsTrace(decisions) ==
    [t \in {d.tti : d \in Range(decisions)} |->
        LET own == SortSeq(OfTti(decisions, t),
                           LAMBDA d, e : NumberOf(d.ue) < NumberOf(e.ue))
        IN [i \in DOMAIN own |-> [ue |-> own[i].ue, blocks |-> own[i].blocks]]]
=============================================================================
