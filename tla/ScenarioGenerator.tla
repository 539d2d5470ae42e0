------------------------- MODULE ScenarioGenerator -------------------------
(***************************************************************************)
(* generate_scenario(ScenarioGeneratorConfig(...)).  The values come from  *)
(* one random.Random(seed), so that the order of the draws is part of what *)
(* a seed means: every randint() is a step here.  The generator itself is  *)
(* not modelled, a draw may return any value of its range.                 *)
(***************************************************************************)
EXTENDS Scenarios

CONSTANTS
    Configs,    \* arguments of ScenarioGeneratorConfig
    Blank,      \* a QoS class name without a visible character
    NotAString  \* a QoS class name that is no str

ASSUME ConfigsAssumption ==
    \A c \in Configs :
        {c.ues, c.ttis, c.blocks, c.cqiMin, c.cqiMax, c.bytesMin, c.bytesMax}
            \subseteq Int

VARIABLES
    genPc,           \* where the call is
    config,          \* its configuration
    qualityRecords,  \* the ChannelQuality records drawn so far
    arrivalRecords,  \* the TrafficArrival records drawn so far
    scenario         \* the Scenario returned

generatorVars == <<genPc, config, qualityRecords, arrivalRecords, scenario>>

NoScenario == [ttis |-> <<>>, ues |-> <<>>, blocks |-> <<>>,
               qualities |-> <<>>, arrivals |-> <<>>]

GeneratorInit ==
    /\ genPc = "called"
    /\ config \in Configs
    /\ qualityRecords = <<>>
    /\ arrivalRecords = <<>>
    /\ scenario = NoScenario

----------------------------------------------------------------------------
\* __post_init__
Valid(c) ==
    /\ c.ues > 0 /\ c.ttis > 0 /\ c.blocks > 0
    /\ c.classes # <<>> /\ Range(c.classes) \cap {Blank, NotAString} = {}
    /\ c.cqiMin \in Cqi /\ c.cqiMax \in Cqi /\ c.cqiMin <= c.cqiMax
    /\ c.bytesMin >= 0 /\ c.bytesMax >= 0 /\ c.bytesMin <= c.bytesMax

\* The UEs of a scenario have different names, all of them in UeIds.
ASSUME UeIdsAssumption ==
    \A c \in Configs : Valid(c) =>
        [i \in 0 .. c.ues - 1 |-> UeId(i)] \in Injection(0 .. c.ues - 1, UeIds)

Refuse ==
    /\ genPc = "called"
    /\ ~Valid(config)
    /\ genPc' = "refused"
    /\ UNCHANGED <<config, qualityRecords, arrivalRecords, scenario>>

\* UE i has class i modulo the number of classes.
Ues(c) ==
    [i \in 1 .. c.ues |-> [id |-> UeId(i - 1),
                           class |-> c.classes[((i - 1) % Len(c.classes)) + 1]]]

UeIdsOf(ues) == [i \in DOMAIN ues |-> ues[i].id]

Accept ==
    /\ genPc = "called"
    /\ Valid(config)
    /\ genPc' = "qualities"
    /\ UNCHANGED <<config, qualityRecords, arrivalRecords, scenario>>

----------------------------------------------------------------------------
Pairs == config.ttis * config.ues

\* The k-th record of ... for tti in ttis for ue in ues, counted from 0.
Record(k, value) ==
    [tti |-> k \div config.ues, ue |-> Ues(config)[(k % config.ues) + 1].id,
     value |-> value]

\* One rng.randint(cqi_min, cqi_max); all of them come before any arrival.
DrawQuality ==
    /\ genPc = "qualities"
    /\ \E cqi \in config.cqiMin .. config.cqiMax :
          qualityRecords' = Append(qualityRecords, Record(Len(qualityRecords), cqi))
    /\ genPc' = IF Len(qualityRecords') = Pairs THEN "arrivals" ELSE genPc
    /\ UNCHANGED <<config, arrivalRecords, scenario>>

\* One rng.randint(traffic_arrival_min_bytes, traffic_arrival_max_bytes); a
\* draw of 0 is a record like any other.
DrawArrival ==
    /\ genPc = "arrivals"
    /\ \E bytes \in config.bytesMin .. config.bytesMax :
          arrivalRecords' = Append(arrivalRecords, Record(Len(arrivalRecords), bytes))
    /\ genPc' = IF Len(arrivalRecords') = Pairs THEN "build" ELSE genPc
    /\ UNCHANGED <<config, qualityRecords, scenario>>

Build ==
    /\ genPc = "build"
    /\ scenario' = [ttis      |-> TtiIndices(config.ttis),
                    ues       |-> UeIdsOf(Ues(config)),
                    blocks    |-> ResourceBlocks([t \in 0 .. config.ttis - 1 |->
                                                     config.blocks]),
                    qualities |-> qualityRecords,
                    arrivals  |-> arrivalRecords]
    /\ genPc' = "returned"
    /\ UNCHANGED <<config, qualityRecords, arrivalRecords>>

----------------------------------------------------------------------------
GeneratorNext == Refuse \/ Accept \/ DrawQuality \/ DrawArrival \/ Build

\* A sequential call: it goes on while it can.
GeneratorSpec ==
    /\ GeneratorInit
    /\ [][GeneratorNext]_generatorVars
    /\ WF_generatorVars(GeneratorNext)

----------------------------------------------------------------------------
\* What the generator accepts, run() accepts, whatever the configuration and the
\* draws: a block_id alone names one block of the whole Scenario, as a decision
\* that carries no TTI per block needs; no TTI is repeated; in every TTI run()
\* finds one CQI and one arrival, possibly of 0 bytes, for every UE, each a value
\* the domain allows; and the ObservableState made of them is not refused.
GeneratedIsRunnable ==
    genPc = "returned" =>
        /\ IsInjective([i \in DOMAIN scenario.blocks |-> scenario.blocks[i].id])
        /\ IsInjective(scenario.ttis)
        /\ \A t \in Range(scenario.ttis) :
              LET in == InputOf(scenario, t)
              IN /\ \A u \in Range(scenario.ues) :
                        /\ Len(in.qualities[u]) = 1 /\ in.qualities[u][1] \in Cqi
                        /\ Len(in.arrivals[u]) = 1 /\ in.arrivals[u][1] \in Nat
                 /\ WellFormed([ues |-> scenario.ues, blocks |-> in.blocks,
                                qualities |-> in.qualities])

\* ADR-007, point 2: "for each (TTI, UE) pair, the Channel Quality value is drawn
\* before the corresponding Traffic Arrival value", pair after pair.
DrawnPairByPair == Len(qualityRecords) <= Len(arrivalRecords) + 1
=============================================================================
