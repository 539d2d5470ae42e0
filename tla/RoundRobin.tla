----------------------------- MODULE RoundRobin -----------------------------
(***************************************************************************)
(* reference_implementations.RoundRobin driven by the Simulation Loop.     *)
(*                                                                         *)
(* allocate() is modelled one Resource Block at a time, the iteration of   *)
(* its for loop, with the loop's own variables; the rotation order is the  *)
(* position of a UE in observable_state.ues.  blockIndex is 0 outside the  *)
(* loop.                                                                   *)
(***************************************************************************)
EXTENDS SimulationLoop

VARIABLES
    blockIndex,    \* position of the block to assign next, 0 when not running
    pointer,       \* position in ues where the search for its UE starts
    lastAssigned,  \* last_assigned_ue_id
    assignments,   \* assignments: the blocks given to each UE in this TTI
    served,        \* the keys of assignments in insertion order
    passed         \* history: passed[u][v] counts the blocks given to v since
                   \* u last had one or last lacked demand in a served TTI

rrVars == <<blockIndex, pointer, lastAssigned, assignments, served, passed>>
roundRobinVars == <<loopVars, rrVars>>

Ues == observable.ues

NoBlocks == [u \in UeIds |-> <<>>]
NonePassed == [u \in UeIds |-> [v \in UeIds |-> 0]]

\* RoundRobinState(): no UE has been served yet.
RoundRobinInit ==
    /\ LoopInit
    /\ InitialState = NoUe
    /\ blockIndex = 0
    /\ pointer = 1
    /\ lastAssigned = NoUe
    /\ assignments = NoBlocks
    /\ served = <<>>
    /\ passed = NonePassed

----------------------------------------------------------------------------
\* Mutant: the cursor stays on the UE just served.
AfterItself(i) == i

\* (index + 1) % len(ue_order), on positions 1 .. Len(Ues)
After(i) == IF i = Len(Ues) THEN 1 ELSE i + 1

\* How many positions the rotation walks from i to reach j.
Ahead(i, j) == IF j >= i THEN j - i ELSE j - i + Len(Ues)

\* The positions whose UE is in eligible_ue_ids.
Eligible == {i \in DOMAIN Ues : Ues[i] \in Backlogged(observable)}

\* _find_next_eligible_index(ue_order, eligible_ue_ids, start)
IsNextEligible(start, i) ==
    /\ i \in Eligible
    /\ \A j \in Eligible : Ahead(start, i) <= Ahead(start, j)

PositionOf(u) == CHOOSE i \in DOMAIN Ues : Ues[i] = u

\* Mutant: a last served UE without demand restarts the rotation.
SearchStartIfEligible(last) ==
    IF last \in Range(Ues) /\ last \in Backlogged(observable)
    THEN After(PositionOf(last))
    ELSE 1

\* Right after the UE served last while it is still observable, else the first.
SearchStart(last) ==
    IF last \in Range(Ues) THEN After(PositionOf(last)) ELSE 1

NothingToServe == observable.blocks = <<>> \/ Eligible = {}

\* The early returns: no UE, no block, or nobody with a backlog.
AllocateNothing ==
    /\ blockIndex = 0
    /\ NothingToServe
    /\ AllocateReturns(<<>>, schedulerState)
    /\ UNCHANGED rrVars

\* Mutant: the assignments of the previous TTI are not cleared.
StartAssigningStale ==
    /\ pc = "allocate"
    /\ blockIndex = 0
    /\ ~NothingToServe
    /\ blockIndex' = 1
    /\ pointer' = SearchStart(schedulerState)
    /\ lastAssigned' = schedulerState
    /\ UNCHANGED <<loopVars, assignments, served, passed>>

StartAssigning ==
    /\ pc = "allocate"
    /\ blockIndex = 0
    /\ ~NothingToServe
    /\ blockIndex' = 1
    /\ pointer' = SearchStart(schedulerState)
    /\ lastAssigned' = schedulerState
    /\ assignments' = NoBlocks
    /\ served' = <<>>
    /\ UNCHANGED <<loopVars, passed>>

\* History: a block went to position i.  A UE without demand is not waiting.
Overtaken(i) ==
    [u \in UeIds |->
        IF u = Ues[i] \/ u \notin Backlogged(observable)
        THEN NonePassed[u]
        ELSE [passed[u] EXCEPT ![Ues[i]] = @ + 1]]

\* One iteration: the block goes to the next eligible UE.
AssignBlock ==
    /\ blockIndex \in DOMAIN observable.blocks
    /\ \E i \in Eligible :
          /\ IsNextEligible(pointer, i)
          /\ assignments' = [assignments EXCEPT
                                ![Ues[i]] = Append(@, observable.blocks[blockIndex])]
          /\ served' = IF Ues[i] \in Range(served) THEN served
                       ELSE Append(served, Ues[i])
          /\ lastAssigned' = Ues[i]
          /\ pointer' = After(i)
          /\ passed' = Overtaken(i)
    /\ blockIndex' = blockIndex + 1
    /\ UNCHANGED loopVars

\* One AllocationDecision per UE that got a block, in the order they first did.
RoundRobinDecisions ==
    [k \in DOMAIN served |->
        [tti |-> observable.tti, ue |-> served[k],
         blocks |-> assignments[served[k]]]]

\* Mutant: the loop may stop one block short.
FinishAssigningEarly ==
    /\ blockIndex > 0
    /\ blockIndex >= Len(observable.blocks)
    /\ AllocateReturns(RoundRobinDecisions, lastAssigned)
    /\ blockIndex' = 0
    /\ UNCHANGED <<pointer, lastAssigned, assignments, served, passed>>

FinishAssigning ==
    /\ blockIndex > Len(observable.blocks)
    /\ AllocateReturns(RoundRobinDecisions, lastAssigned)
    /\ blockIndex' = 0
    /\ UNCHANGED <<pointer, lastAssigned, assignments, served, passed>>

----------------------------------------------------------------------------
RoundRobinNext == \/ LoopStep /\ UNCHANGED rrVars
        \/ AllocateNothing
        \/ StartAssigning
        \/ AssignBlock
        \/ FinishAssigning

RoundRobinSpec ==
    /\ RoundRobinInit
    /\ [][RoundRobinNext]_roundRobinVars
    /\ WF_roundRobinVars(RoundRobinNext)

----------------------------------------------------------------------------
\* Types of the algorithm in the loop.  What is left of an earlier run in the
\* locals of run() is overwritten before it is read.
RoundRobinTypeOK ==
    /\ LoopTypeOK
    /\ InitialState = NoUe
    /\ pc \notin {"called", "raised"} => schedulerState \in UeIds \cup {NoUe}
    /\ pc = "commit" => step.state \in UeIds \cup {NoUe}
    /\ blockIndex \in Nat
    /\ blockIndex > 0 =>
          /\ pc = "allocate"
          /\ blockIndex <= Len(observable.blocks) + 1
          /\ pointer \in DOMAIN Ues
          /\ Eligible # {}
    /\ lastAssigned \in UeIds \cup {NoUe}
    /\ assignments \in [UeIds -> Seq(BlockIds)]
    /\ served \in Seq(UeIds)
    /\ passed \in [UeIds -> [UeIds -> Nat]]

\* A run on well-formed input is never raised by RoundRobin: what allocate()
\* returns always passes _validate_decisions.
NeverRefused ==
    pc = "commit" => ValidDecisions(step.decisions)

\* Among the UEs that have demand in a TTI, none gets more than one block more
\* than another, at every iteration of the loop and so in the result.
EvenSplit ==
    blockIndex > 0 =>
        \A i, j \in Eligible :
            Len(assignments[Ues[i]]) <= Len(assignments[Ues[j]]) + 1

\* Across TTIs, a UE that keeps having demand is passed at most once by each
\* other UE between two of its own blocks: the cursor carries the rotation
\* from one TTI to the next, past TTIs where others were skipped, where the
\* last served UE lacks demand, and where nothing was served at all.
NoOvertaking == \A u, v \in UeIds : passed[u][v] <= 1

\* Every block of a TTI in which someone has demand is assigned, to UEs that
\* have demand; in a TTI without demand or blocks nothing is returned and the
\* cursor stays.
WorkConserving ==
    pc = "commit" =>
        IF NothingToServe
        THEN step = [decisions |-> <<>>, state |-> schedulerState]
        ELSE /\ \A b \in Range(observable.blocks) :
                  \E d \in Range(step.decisions) : b \in Range(d.blocks)
             /\ ServedBy(step.decisions) \subseteq Backlogged(observable)
=============================================================================
