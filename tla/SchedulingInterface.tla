------------------------ MODULE SchedulingInterface ------------------------
(***************************************************************************)
(* The data that crosses the boundary between the Simulation Loop and a    *)
(* scheduling algorithm: the exogenous records of one TTI, the             *)
(* ObservableState built from them, and the AllocationDecisions returned.  *)
(*                                                                         *)
(* A record list the source filters by TTI and looks up by ue_id is        *)
(* modelled as a function from UE identifier to the records of that UE in  *)
(* this TTI, in scenario order: an empty sequence is a UE without a        *)
(* record, a longer one is a UE with repeated records.                     *)
(***************************************************************************)
EXTENDS Naturals, Sequences, Functions

CONSTANTS
    UeIds,    \* ue_id strings that a scenario or a decision may mention
    BlockIds  \* block_id strings that a scenario or a decision may mention

\* CQI indices are 0 .. 15; 0 is "no usable CQI indication".
Cqi == 0 .. 15

\* domain.AllocationDecision.  A decision may name any TTI, UE and blocks:
\* nothing in the dataclass ties them to a scenario.
Decision == [tti : Nat, ue : UeIds, blocks : Seq(BlockIds)]

\* SchedulingStepResult.decisions: an arbitrary tuple, several decisions for
\* one UE included.
Decisions == Seq(Decision)

\* The exogenous records a Scenario holds for one TTI.
TtiInput == [blocks    : Seq(BlockIds),
             qualities : [UeIds -> Seq(Cqi)],
             arrivals  : [UeIds -> Seq(Nat)]]

\* ObservableState.  harq_states is always () in v0.1 and is left out.
Observable == [tti : Nat, ues : Seq(UeIds), blocks : Seq(BlockIds),
               qualities : [UeIds -> Seq(Cqi)],
               buffers : [UeIds -> Nat]]

----------------------------------------------------------------------------
\* ObservableState.__post_init__.  The loop filters every list by the current
\* TTI and builds exactly one Buffer per entry of ues, so what is left to
\* reject is a repeated UE, a repeated block, a repeated CQI record, and a CQI
\* record of a UE that is not observable.
WellFormed(o) ==
    /\ IsInjective(o.ues)
    /\ IsInjective(o.blocks)
    /\ \A u \in UeIds : Len(o.qualities[u]) <= 1
    /\ \A u \in UeIds : o.qualities[u] # <<>> => u \in Range(o.ues)

\* cqi_by_ue_id.get(ue_id, 0)
CqiOf(o, u) == IF o.qualities[u] = <<>> THEN 0 ELSE o.qualities[u][1]

\* The UEs of ues whose Buffer entry holds at least one byte.
Backlogged(o) == {u \in Range(o.ues) : o.buffers[u] > 0}

\* The (TTI, block, UE) triples a tuple of decisions grants.
Grants(ds) ==
    UNION {{<<d.tti, b, d.ue>> : b \in Range(d.blocks)} : d \in Range(ds)}

\* Mutant: a decision without blocks counts as service.
ServedByAnyDecision(ds) == {d.ue : d \in Range(ds)}

\* served_ue_ids: the UEs with a decision that holds at least one block.
ServedBy(ds) == {d.ue : d \in {x \in Range(ds) : x.blocks # <<>>}}
=============================================================================
