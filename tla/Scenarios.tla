----------------------------- MODULE Scenarios -----------------------------
(***************************************************************************)
(* The Scenario both builders of it return, scenario_generator and the     *)
(* hand-built scenarios of demo, and how run() reads one TTI out of it.    *)
(* Identifiers are the strings of the source, because what makes them      *)
(* unique is how they are put together.                                    *)
(***************************************************************************)
EXTENDS SchedulingInterface, SequencesExt

\* Mutant: nothing separates the two indices.
BlockIdUnseparated(t, j) == "rb-" \o ToString(t) \o ToString(j)

\* f"rb-{tti.index}-{j}"
BlockId(t, j) == "rb-" \o ToString(t) \o "-" \o ToString(j)

\* f"ue-{i}"
UeId(i) == "ue-" \o ToString(i)

\* (... for tti in ttis for x in items[tti]): all of one TTI before the next.
PerTti(items) ==
    FlattenSeq([i \in 1 .. Cardinality(DOMAIN items) |-> items[i - 1]])

ResourceBlocks(counts) ==
    PerTti([t \in DOMAIN counts |->
        [j \in 1 .. counts[t] |-> [tti |-> t, id |-> BlockId(t, j - 1)]]])

TtiIndices(numTtis) == [i \in 1 .. numTtis |-> i - 1]

\* The elements of s that are in W, in the order of s.
Selected(s, W) ==
    LET upTo[n \in 0 .. Len(s)] ==
            IF n = 0 THEN <<>>
            ELSE IF s[n] \in W THEN Append(upTo[n - 1], s[n]) ELSE upTo[n - 1]
    IN upTo[Len(s)]

\* The filters of run() over the record lists, by TTI and by TTI and UE.
OfTti(records, t) == Selected(records, {r \in Range(records) : r.tti = t})

ValuesOf(records, t) ==
    [u \in UeIds |->
        LET own == Selected(records, {r \in Range(records) : r.tti = t /\ r.ue = u})
        IN [i \in DOMAIN own |-> own[i].value]]

InputOf(scenario, t) ==
    LET blocks == OfTti(scenario.blocks, t)
    IN [blocks    |-> [i \in DOMAIN blocks |-> blocks[i].id],
        qualities |-> ValuesOf(scenario.qualities, t),
        arrivals  |-> ValuesOf(scenario.arrivals, t)]
=============================================================================
