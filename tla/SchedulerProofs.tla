--------------------------- MODULE SchedulerProofs ---------------------------
(***************************************************************************)
(* The three reference implementations in the Simulation Loop, for any     *)
(* number of UEs, blocks and TTIs and any pattern of demand: the rotation  *)
(* of RoundRobin, the scan that MaxCQI and ProportionalFair share, and     *)
(* what each of the two comparisons makes of it.                           *)
(***************************************************************************)
EXTENDS RoundRobin, MaxCqi, ProportionalFair, SimulationLoopProofs

USE DEF loopVars, rrVars, scanVars

----------------------------------------------------------------------------
(***************************************************************************)
(* Positions in the rotation                                               *)
(***************************************************************************)

\* The rotation stays within the UEs of the TTI.
LEMMA AfterType ==
    ASSUME Ues \in Seq(UeIds), NEW i \in DOMAIN Ues
    PROVE  After(i) \in DOMAIN Ues
<1>1. DOMAIN Ues = 1 .. Len(Ues) /\ Len(Ues) \in Nat
  BY LenProperties
<1> QED
  BY <1>1 DEF After

LEMMA PositionOfType ==
    ASSUME NEW u \in Range(Ues)
    PROVE  PositionOf(u) \in DOMAIN Ues /\ Ues[PositionOf(u)] = u
<1>1. \E i \in DOMAIN Ues : Ues[i] = u
  BY DEF Range
<1> QED
  BY <1>1 DEF PositionOf

LEMMA SearchStartType ==
    ASSUME Ues \in Seq(UeIds), Ues # <<>>, NEW last
    PROVE  SearchStart(last) \in DOMAIN Ues
<1>1. DOMAIN Ues = 1 .. Len(Ues) /\ Len(Ues) \in Nat /\ Len(Ues) # 0
  BY LenProperties, EmptySeq
<1>2. CASE last \in Range(Ues)
  BY <1>2, PositionOfType, AfterType DEF SearchStart
<1>3. CASE last \notin Range(Ues)
  BY <1>1, <1>3 DEF SearchStart
<1> QED
  BY <1>2, <1>3

----------------------------------------------------------------------------
(***************************************************************************)
(* Types, and RoundRobin as one algorithm among all                        *)
(***************************************************************************)

LEMMA DecisionsType ==
    ASSUME RoundRobinTypeOK, pc = "allocate"
    PROVE  RoundRobinDecisions \in Decisions
<1>1. /\ observable.tti \in Nat
      /\ served \in Seq(UeIds)
      /\ assignments \in [UeIds -> Seq(BlockIds)]
  BY DEF RoundRobinTypeOK, LoopTypeOK, Observable
<1>2. DOMAIN served = 1 .. Len(served) /\ Len(served) \in Nat
  BY <1>1, LenProperties
<1>3. ASSUME NEW k \in DOMAIN served
      PROVE  served[k] \in UeIds
  BY <1>1, <1>2, <1>3, ElementOfSeq
<1>4. \A k \in 1 .. Len(served) :
         [tti |-> observable.tti, ue |-> served[k],
          blocks |-> assignments[served[k]]] \in Decision
  BY <1>1, <1>2, <1>3 DEF Decision
<1> QED
  BY <1>2, <1>4 DEF RoundRobinDecisions, Decisions

\* A step of RoundRobin's run is a step of the loop around some algorithm.
LEMMA StepOfAnyRun ==
    RoundRobinTypeOK /\ [RoundRobinNext]_roundRobinVars => [AnyNext]_loopVars
<1> SUFFICES ASSUME RoundRobinTypeOK, [RoundRobinNext]_roundRobinVars
             PROVE  [AnyNext]_loopVars
  OBVIOUS
<1>1. CASE LoopStep /\ UNCHANGED rrVars
  BY <1>1 DEF AnyNext
<1>2. CASE AllocateNothing
  <2>1. AllocateReturns(<<>>, schedulerState)
    BY <1>2 DEF AllocateNothing
  <2>2. step'.decisions = <<>> /\ step'.state = schedulerState
    BY <2>1 DEF AllocateReturns
  <2>3. step'.decisions \in Decisions
    BY <2>2 DEF Decisions
  <2> QED
    BY <2>1, <2>2, <2>3 DEF AnyNext, AllocateReturnsSomething
<1>3. CASE StartAssigning
  BY <1>3 DEF StartAssigning
<1>4. CASE AssignBlock
  BY <1>4 DEF AssignBlock
<1>5. CASE FinishAssigning
  <2>1. AllocateReturns(RoundRobinDecisions, lastAssigned)
    BY <1>5 DEF FinishAssigning
  <2>2. step'.decisions = RoundRobinDecisions /\ step'.state = lastAssigned
    BY <2>1 DEF AllocateReturns
  <2>3. step'.decisions \in Decisions
    BY <2>1, <2>2, DecisionsType DEF AllocateReturns
  <2> QED
    BY <2>1, <2>2, <2>3 DEF AnyNext, AllocateReturnsSomething
<1>6. CASE UNCHANGED roundRobinVars
  BY <1>6 DEF roundRobinVars
<1> QED
  BY <1>1, <1>2, <1>3, <1>4, <1>5, <1>6 DEF RoundRobinNext

LEMMA TypeInit == RoundRobinInit => RoundRobinTypeOK
<1> SUFFICES ASSUME RoundRobinInit PROVE RoundRobinTypeOK
  OBVIOUS
<1>1. LoopTypeOK
  BY LoopTypeInit DEF RoundRobinInit
<1>2. schedulerState = NoUe /\ step.state = NoUe
  BY DEF RoundRobinInit, LoopInit, NoStep
<1>3. /\ assignments \in [UeIds -> Seq(BlockIds)]
      /\ passed \in [UeIds -> [UeIds -> Nat]]
  BY DEF RoundRobinInit, NoBlocks, NonePassed
<1> QED
  BY <1>1, <1>2, <1>3 DEF RoundRobinInit, RoundRobinTypeOK

\* The loop itself steps only outside allocate(), so the block loop is not
\* running, and it hands on the state allocate() returned.
LEMMA LoopStepTypes ==
    ASSUME RoundRobinTypeOK, LoopStep
    PROVE  /\ pc # "allocate" /\ blockIndex = 0
           /\ pc' # "commit"
           /\ pc' # "raised" => schedulerState' \in UeIds \cup {NoUe}
           /\ step' = step
<1>1. pc # "allocate"
  BY DEF LoopStep, RefuseArguments, Start, OpenTti, RefuseStep, CommitTti, Return
<1>2. blockIndex = 0
  BY <1>1 DEF RoundRobinTypeOK
<1>3. /\ pc' # "commit" /\ step' = step
      /\ pc' # "raised" => schedulerState' \in UeIds \cup {NoUe}
  BY DEF LoopStep, RefuseArguments, Raise, Start, OpenTti, RefuseStep, CommitTti,
     Return, RoundRobinTypeOK
<1> QED
  BY <1>1, <1>2, <1>3

LEMMA TypeStep ==
    RoundRobinTypeOK /\ [RoundRobinNext]_roundRobinVars => RoundRobinTypeOK'
<1> SUFFICES ASSUME RoundRobinTypeOK, [RoundRobinNext]_roundRobinVars
             PROVE  RoundRobinTypeOK'
  OBVIOUS
<1>1. LoopTypeOK'
  BY StepOfAnyRun, LoopTypeStep DEF RoundRobinTypeOK
<1>2. CASE LoopStep /\ UNCHANGED rrVars
  BY <1>1, <1>2, LoopStepTypes DEF RoundRobinTypeOK
<1>3. CASE AllocateNothing
  BY <1>1, <1>3 DEF AllocateNothing, AllocateReturns, RoundRobinTypeOK
<1>4. CASE StartAssigning
  <2>1. Ues \in Seq(UeIds)
    BY DEF RoundRobinTypeOK, LoopTypeOK, Observable, Ues
  <2>2. Ues # <<>> /\ Eligible # {}
    BY <1>4, <2>1, EmptySeq, LenProperties
    DEF StartAssigning, NothingToServe, Eligible
  <2>3. pointer' \in DOMAIN Ues
    BY <1>4, <2>1, <2>2, SearchStartType DEF StartAssigning
  <2>4. Ues' = Ues /\ Eligible' = Eligible
    BY <1>4 DEF StartAssigning, Ues, Eligible, Backlogged
  <2>5. Len(observable.blocks) \in Nat
    BY LenProperties DEF RoundRobinTypeOK, LoopTypeOK, Observable
  <2>6. NoBlocks \in [UeIds -> Seq(BlockIds)] /\ <<>> \in Seq(UeIds)
    BY DEF NoBlocks
  <2>7. /\ assignments' \in [UeIds -> Seq(BlockIds)]
        /\ served' \in Seq(UeIds)
    BY <1>4, <2>6 DEF StartAssigning
  <2>8. /\ pc = "allocate" /\ blockIndex' = 1 /\ lastAssigned' = schedulerState
        /\ UNCHANGED <<pc, observable, schedulerState, step, passed>>
    BY <1>4 DEF StartAssigning
  <2>9. /\ schedulerState' \in UeIds \cup {NoUe}
        /\ lastAssigned' \in UeIds \cup {NoUe}
        /\ passed' \in [UeIds -> [UeIds -> Nat]]
    BY <2>8 DEF RoundRobinTypeOK
  <2>10. /\ blockIndex' \in Nat
         /\ pc' = "allocate"
         /\ blockIndex' <= Len(observable'.blocks) + 1
         /\ pointer' \in DOMAIN Ues'
         /\ Eligible' # {}
    BY <2>2, <2>3, <2>4, <2>5, <2>8
  <2> QED
    BY <1>1, <2>7, <2>9, <2>10 DEF RoundRobinTypeOK
<1>5. CASE AssignBlock
  <2>1. /\ Ues \in Seq(UeIds)
        /\ observable.blocks \in Seq(BlockIds)
    BY DEF RoundRobinTypeOK, LoopTypeOK, Observable, Ues
  <2>2. blockIndex \in 1 .. Len(observable.blocks) /\ Len(observable.blocks) \in Nat
    BY <1>5, <2>1, LenProperties DEF AssignBlock
  <2>3. observable.blocks[blockIndex] \in BlockIds
    BY <2>1, <2>2, ElementOfSeq
  <2> PICK i \in Eligible :
        /\ IsNextEligible(pointer, i)
        /\ assignments' = [assignments EXCEPT
                              ![Ues[i]] = Append(@, observable.blocks[blockIndex])]
        /\ served' = IF Ues[i] \in Range(served) THEN served
                     ELSE Append(served, Ues[i])
        /\ lastAssigned' = Ues[i]
        /\ pointer' = After(i)
        /\ passed' = Overtaken(i)
    BY <1>5 DEF AssignBlock
  <2>4. i \in DOMAIN Ues /\ Ues[i] \in UeIds
    BY <2>1, LenProperties, ElementOfSeq DEF Eligible
  <2>5. pointer' \in DOMAIN Ues
    BY <2>1, <2>4, AfterType
  <2>6. Ues' = Ues /\ Eligible' = Eligible
    BY <1>5 DEF AssignBlock, Ues, Eligible, Backlogged
  <2>7. assignments' \in [UeIds -> Seq(BlockIds)]
    BY <2>3, <2>4, AppendProperties DEF RoundRobinTypeOK
  <2>8. served' \in Seq(UeIds)
    BY <2>4, AppendProperties DEF RoundRobinTypeOK
  <2>9. passed' \in [UeIds -> [UeIds -> Nat]]
    <3>1. passed \in [UeIds -> [UeIds -> Nat]]
      BY DEF RoundRobinTypeOK
    <3>2. ASSUME NEW u \in UeIds
          PROVE  [passed[u] EXCEPT ![Ues[i]] = @ + 1] \in [UeIds -> Nat]
      <4>1. passed[u] \in [UeIds -> Nat]
        BY <3>1
      <4>2. passed[u][Ues[i]] + 1 \in Nat
        BY <2>4, <4>1
      <4> QED
        BY <4>1, <4>2
    <3>3. \A u \in UeIds : NonePassed[u] \in [UeIds -> Nat]
      BY DEF NonePassed
    <3> QED
      BY <3>2, <3>3 DEF Overtaken
  <2>10. /\ blockIndex' = blockIndex + 1
         /\ UNCHANGED <<pc, observable, schedulerState, step>>
    BY <1>5 DEF AssignBlock
  <2>11. pc = "allocate" /\ Eligible # {}
    BY <2>2 DEF RoundRobinTypeOK
  <2>12. schedulerState' \in UeIds \cup {NoUe}
    BY <2>10, <2>11 DEF RoundRobinTypeOK
  <2>13. lastAssigned' \in UeIds \cup {NoUe}
    BY <2>4
  <2>14. /\ blockIndex' \in Nat
         /\ pc' = "allocate"
         /\ blockIndex' <= Len(observable'.blocks) + 1
         /\ pointer' \in DOMAIN Ues'
         /\ Eligible' # {}
    BY <2>2, <2>5, <2>6, <2>10, <2>11
  <2> QED
    BY <1>1, <2>7, <2>8, <2>9, <2>12, <2>13, <2>14 DEF RoundRobinTypeOK
<1>6. CASE FinishAssigning
  BY <1>1, <1>6 DEF FinishAssigning, AllocateReturns, RoundRobinTypeOK
<1>7. CASE UNCHANGED roundRobinVars
  BY <1>1, <1>7 DEF roundRobinVars, RoundRobinTypeOK, Eligible, Ues, Backlogged
<1> QED
  BY <1>2, <1>3, <1>4, <1>5, <1>6, <1>7 DEF RoundRobinNext

\* Types are kept in every run, of any size: in particular the search for the
\* UE of a block always starts at a position of the rotation and somebody in it
\* is eligible, so _find_next_eligible_index never returns None.
THEOREM RoundRobinTypes == RoundRobinSpec => []RoundRobinTypeOK
<1> QED
  BY TypeInit, TypeStep, PTL DEF RoundRobinSpec

\* RoundRobin in the loop is a run of the loop with some algorithm, so all that
\* is proved of run() with any algorithm holds of it.
THEOREM RoundRobinIsAnAlgorithm == RoundRobinSpec => AnyRun
<1>1. RoundRobinInit => LoopInit
  BY DEF RoundRobinInit
<1>2. RoundRobinInit /\ [][RoundRobinNext]_roundRobinVars => []RoundRobinTypeOK
  BY TypeInit, TypeStep, PTL
<1> QED
  BY <1>1, <1>2, StepOfAnyRun, PTL DEF RoundRobinSpec, AnyRun
----------------------------------------------------------------------------
(***************************************************************************)
(* What allocate() returns                                                 *)
(*                                                                         *)
(* NeverRefused and WorkConserving speak of the result; what makes them    *)
(* true is an invariant of the loop over the blocks: the blocks before     *)
(* blockIndex are assigned, each once, and nothing else is.                *)
(***************************************************************************)

\* Two assigned blocks are never the same block.
AssignedOnce ==
    \A u, v \in UeIds :
        \A a \in DOMAIN assignments[u], b \in DOMAIN assignments[v] :
            assignments[u][a] = assignments[v][b] => u = v /\ a = b

OnlyEarlierBlocks ==
    \A u \in UeIds : \A a \in DOMAIN assignments[u] :
        \E k \in 1 .. blockIndex - 1 : assignments[u][a] = observable.blocks[k]

EveryEarlierBlock ==
    \A k \in 1 .. blockIndex - 1 :
        \E u \in Range(served) : observable.blocks[k] \in Range(assignments[u])

AssignedInv ==
    /\ RoundRobinTypeOK
    /\ pc \in {"allocate", "commit"} => WellFormed(observable)
    /\ blockIndex > 0 =>
          /\ ~NothingToServe
          /\ IsInjective(served)
          /\ Range(served) \subseteq Backlogged(observable)
          /\ AssignedOnce
          /\ OnlyEarlierBlocks
          /\ EveryEarlierBlock
    /\ NeverRefused
    /\ WorkConserving

LEMMA AssignedInit == RoundRobinInit => AssignedInv
<1> SUFFICES ASSUME RoundRobinInit PROVE AssignedInv
  OBVIOUS
<1>1. pc = "called" /\ blockIndex = 0
  BY DEF RoundRobinInit, LoopInit
<1> QED
  BY <1>1, TypeInit DEF AssignedInv, NeverRefused, WorkConserving

\* The next block goes to a UE that has demand.
LEMMA AssignedBlock ==
    ASSUME AssignedInv, AssignBlock, RoundRobinTypeOK'
    PROVE  AssignedInv'
<1>1. /\ Ues \in Seq(UeIds)
      /\ observable.blocks \in Seq(BlockIds)
      /\ assignments \in [UeIds -> Seq(BlockIds)]
      /\ served \in Seq(UeIds)
  BY DEF AssignedInv, RoundRobinTypeOK, LoopTypeOK, Observable, Ues
<1>2. /\ blockIndex \in 1 .. Len(observable.blocks)
      /\ DOMAIN observable.blocks = 1 .. Len(observable.blocks)
      /\ Len(observable.blocks) \in Nat
  BY <1>1, LenProperties DEF AssignBlock
<1> DEFINE b == observable.blocks[blockIndex]
<1> PICK i \in Eligible :
      /\ assignments' = [assignments EXCEPT ![Ues[i]] = Append(@, b)]
      /\ served' = IF Ues[i] \in Range(served) THEN served
                   ELSE Append(served, Ues[i])
  BY DEF AssignBlock
<1> DEFINE w == Ues[i]
<1>3. b \in BlockIds
  BY <1>1, <1>2, ElementOfSeq
<1>4. w \in UeIds /\ w \in Backlogged(observable)
  BY <1>1, LenProperties, ElementOfSeq DEF Eligible
<1>5. blockIndex' = blockIndex + 1 /\ pc' = pc /\ observable' = observable
      /\ step' = step /\ schedulerState' = schedulerState
  BY DEF AssignBlock
<1>6. /\ pc = "allocate" /\ WellFormed(observable)
      /\ ~NothingToServe
      /\ IsInjective(served)
      /\ Range(served) \subseteq Backlogged(observable)
      /\ AssignedOnce /\ OnlyEarlierBlocks /\ EveryEarlierBlock
  BY <1>2 DEF AssignedInv, RoundRobinTypeOK
<1> DEFINE n == Len(assignments[w])
<1>7. /\ assignments[w] \in Seq(BlockIds)
      /\ DOMAIN assignments'[w] = DOMAIN assignments[w] \cup {n + 1}
      /\ \A a \in DOMAIN assignments[w] : assignments'[w][a] = assignments[w][a]
      /\ assignments'[w][n + 1] = b
      /\ \A u \in UeIds \ {w} : assignments'[u] = assignments[u]
      /\ \A u \in UeIds : Range(assignments[u]) \subseteq Range(assignments'[u])
      /\ b \in Range(assignments'[w])
  <2>1. assignments[w] \in Seq(BlockIds)
    BY <1>1, <1>4
  <2>2. assignments'[w] = Append(assignments[w], b)
    BY <1>1, <1>4
  <2>3. \A u \in UeIds \ {w} : assignments'[u] = assignments[u]
    BY <1>1
  <2>4. Range(assignments'[w]) = Range(assignments[w]) \cup {b}
    BY <2>1, <2>2, <1>3, RangeOfAppend
  <2> HIDE DEF b, w
  <2> QED
    BY <2>1, <2>2, <2>3, <2>4, <1>3, RangeOfAppend
<1>8. /\ Range(served') = Range(served) \cup {w}
      /\ IsInjective(served')
  <2>1. CASE w \in Range(served)
    BY <2>1, <1>6
  <2>2. CASE w \notin Range(served)
    <3>0. served' = Append(served, w)
      BY <2>2
    <3> HIDE DEF w
    <3>1. /\ Range(served') = Range(served) \cup {w}
          /\ DOMAIN served' = DOMAIN served \cup {Len(served) + 1}
          /\ \A k \in DOMAIN served : served'[k] = served[k]
          /\ served'[Len(served) + 1] = w
      BY <3>0, <1>1, <1>4, RangeOfAppend
    <3>2. \A k \in DOMAIN served : served[k] # w
      BY <2>2 DEF Range
    <3> QED
      BY <3>1, <3>2, <1>6 DEF IsInjective
  <2> QED
    BY <2>1, <2>2
<1> HIDE DEF b, w, n
\* The block is new: the assigned ones are blocks at other positions.
<1>9. \A u \in UeIds : \A a \in DOMAIN assignments[u] : assignments[u][a] # b
  <2> SUFFICES ASSUME NEW u \in UeIds, NEW a \in DOMAIN assignments[u],
                      assignments[u][a] = b
               PROVE  FALSE
    OBVIOUS
  <2> PICK k \in 1 .. blockIndex - 1 : assignments[u][a] = observable.blocks[k]
    BY <1>6 DEF OnlyEarlierBlocks
  <2>1. k \in DOMAIN observable.blocks /\ blockIndex \in DOMAIN observable.blocks
        /\ k # blockIndex
    BY <1>2
  <2> QED
    BY <2>1, <1>6 DEF b, WellFormed, IsInjective
<1>10. AssignedOnce'
  <2> SUFFICES ASSUME NEW u \in UeIds, NEW v \in UeIds,
                      NEW a \in DOMAIN assignments'[u], NEW c \in DOMAIN assignments'[v],
                      assignments'[u][a] = assignments'[v][c]
               PROVE  u = v /\ a = c
    BY DEF AssignedOnce
  <2>1. \/ a \in DOMAIN assignments[u] /\ assignments'[u][a] = assignments[u][a]
        \/ u = w /\ a = n + 1 /\ assignments'[u][a] = b
    BY <1>7
  <2>2. \/ c \in DOMAIN assignments[v] /\ assignments'[v][c] = assignments[v][c]
        \/ v = w /\ c = n + 1 /\ assignments'[v][c] = b
    BY <1>7
  <2> QED
    BY <2>1, <2>2, <1>6, <1>9 DEF AssignedOnce
<1>11. OnlyEarlierBlocks'
  <2> SUFFICES ASSUME NEW u \in UeIds, NEW a \in DOMAIN assignments'[u]
               PROVE  \E k \in 1 .. blockIndex :
                         assignments'[u][a] = observable.blocks[k]
    BY <1>2, <1>5 DEF OnlyEarlierBlocks
  <2>1. CASE a \in DOMAIN assignments[u]
    <3>1. assignments'[u][a] = assignments[u][a]
      BY <2>1, <1>7
    <3> QED
      BY <2>1, <3>1, <1>2, <1>6 DEF OnlyEarlierBlocks
  <2>2. CASE u = w /\ a = n + 1
    BY <2>2, <1>2, <1>7 DEF b
  <2> QED
    BY <2>1, <2>2, <1>7
<1>12. EveryEarlierBlock'
  <2> SUFFICES ASSUME NEW k \in 1 .. blockIndex
               PROVE  \E u \in Range(served') :
                         observable.blocks[k] \in Range(assignments'[u])
    <3>1. blockIndex' - 1 = blockIndex
      BY <1>2, <1>5
    <3> QED
      BY <1>5, <3>1 DEF EveryEarlierBlock
  <2>1. CASE k = blockIndex
    BY <2>1, <1>7, <1>8 DEF b
  <2>2. CASE k # blockIndex
    <3>1. k \in 1 .. blockIndex - 1
      BY <2>2, <1>2
    <3>2. PICK u \in Range(served) : observable.blocks[k] \in Range(assignments[u])
      BY <3>1, <1>6 DEF EveryEarlierBlock
    <3>3. u \in UeIds
      BY <1>1, RangeOfSeq
    <3> QED
      BY <3>2, <3>3, <1>7, <1>8
  <2> QED
    BY <2>1, <2>2
<1>13. WellFormed(observable)' /\ ~NothingToServe'
       /\ Range(served') \subseteq Backlogged(observable)'
  BY <1>4, <1>5, <1>6, <1>8 DEF w, WellFormed, NothingToServe, Eligible, Ues, Backlogged
<1>14. NeverRefused' /\ WorkConserving'
  BY <1>5, <1>6 DEF NeverRefused, WorkConserving
<1> QED
  BY <1>8, <1>10, <1>11, <1>12, <1>13, <1>14 DEF AssignedInv

\* All blocks are assigned: the decisions pass the loop's validation.
LEMMA AssignedResult ==
    ASSUME AssignedInv, FinishAssigning, RoundRobinTypeOK'
    PROVE  AssignedInv'
<1>1. /\ pc = "allocate" /\ pc' = "commit"
      /\ observable' = observable
      /\ step'.decisions = RoundRobinDecisions
      /\ blockIndex > 0 /\ blockIndex > Len(observable.blocks)
      /\ blockIndex' = 0
  <2>1. Len(observable.blocks) \in Nat
    BY LenProperties DEF AssignedInv, RoundRobinTypeOK, LoopTypeOK, Observable
  <2> QED
    BY <2>1 DEF FinishAssigning, AllocateReturns, AssignedInv, RoundRobinTypeOK
<1>2. /\ WellFormed(observable)
      /\ ~NothingToServe
      /\ IsInjective(served)
      /\ Range(served) \subseteq Backlogged(observable)
      /\ AssignedOnce /\ OnlyEarlierBlocks /\ EveryEarlierBlock
  BY <1>1 DEF AssignedInv
<1>3. /\ assignments \in [UeIds -> Seq(BlockIds)]
      /\ served \in Seq(UeIds)
      /\ observable.blocks \in Seq(BlockIds)
      /\ blockIndex = Len(observable.blocks) + 1
      /\ DOMAIN observable.blocks = 1 .. blockIndex - 1
  <2>1. observable.blocks \in Seq(BlockIds) /\ blockIndex \in Nat
        /\ blockIndex <= Len(observable.blocks) + 1
    BY <1>1 DEF AssignedInv, RoundRobinTypeOK, LoopTypeOK, Observable
  <2>2. DOMAIN observable.blocks = 1 .. Len(observable.blocks)
        /\ Len(observable.blocks) \in Nat
    BY <2>1, LenProperties
  <2>3. blockIndex = Len(observable.blocks) + 1
    BY <1>1, <2>1, <2>2
  <2>4. /\ assignments \in [UeIds -> Seq(BlockIds)]
        /\ served \in Seq(UeIds)
    BY DEF AssignedInv, RoundRobinTypeOK
  <2> QED
    BY <2>1, <2>2, <2>3, <2>4
<1> DEFINE ds == RoundRobinDecisions
<1>4. /\ DOMAIN ds = DOMAIN served
      /\ \A k \in DOMAIN served :
            /\ ds[k].tti = observable.tti
            /\ ds[k].ue = served[k]
            /\ ds[k].blocks = assignments[served[k]]
            /\ served[k] \in UeIds /\ served[k] \in Range(served)
  <2>1. \A k \in DOMAIN served : served[k] \in Range(served)
    BY DEF Range
  <2>2. Range(served) \subseteq UeIds
    BY <1>3, RangeOfSeq
  <2> QED
    BY <2>1, <2>2 DEF RoundRobinDecisions
<1> HIDE DEF ds
<1>5. NoBlockTwice(ds)
  <2> SUFFICES ASSUME NEW i \in DOMAIN ds, NEW j \in DOMAIN ds,
                      NEW a \in DOMAIN ds[i].blocks, NEW c \in DOMAIN ds[j].blocks,
                      ds[i].blocks[a] = ds[j].blocks[c]
               PROVE  i = j /\ a = c
    BY DEF NoBlockTwice
  <2>1. served[i] = served[j] /\ a = c
    BY <1>2, <1>4 DEF AssignedOnce
  <2> QED
    BY <2>1, <1>2, <1>4 DEF IsInjective
<1>6. ASSUME NEW k \in DOMAIN ds
      PROVE  ValidDecision(ds[k])
  <2>1. ds[k].ue \in Range(observable.ues)
    BY <1>2, <1>4 DEF Backlogged
  <2>2. Range(ds[k].blocks) \subseteq Range(observable.blocks)
    <3> SUFFICES ASSUME NEW a \in DOMAIN assignments[served[k]]
                 PROVE  assignments[served[k]][a] \in Range(observable.blocks)
      BY <1>4 DEF Range
    <3> PICK m \in 1 .. blockIndex - 1 :
          assignments[served[k]][a] = observable.blocks[m]
      BY <1>2, <1>4 DEF OnlyEarlierBlocks
    <3> QED
      BY <1>3 DEF Range
  <2> QED
    BY <2>1, <2>2, <1>4 DEF ValidDecision
<1>7. ValidDecisions(step.decisions)'
  BY <1>1, <1>5, <1>6 DEF ds, ValidDecisions, ValidDecision, NoBlockTwice
<1>8. NeverRefused'
  BY <1>1, <1>7 DEF NeverRefused
<1>9. \A b \in Range(observable.blocks) : \E d \in Range(ds) : b \in Range(d.blocks)
  <2> TAKE b \in Range(observable.blocks)
  <2>1. PICK k \in 1 .. blockIndex - 1 : b = observable.blocks[k]
    BY <1>3 DEF Range
  <2>2. PICK u \in Range(served) : b \in Range(assignments[u])
    BY <2>1, <1>2 DEF EveryEarlierBlock
  <2>3. PICK m \in DOMAIN served : u = served[m]
    BY DEF Range
  <2>4. ds[m] \in Range(ds) /\ b \in Range(ds[m].blocks)
    BY <2>2, <2>3, <1>4 DEF Range
  <2> QED
    BY <2>4
<1>10. ServedBy(ds) \subseteq Backlogged(observable)
  <2> SUFFICES ASSUME NEW d \in Range(ds) PROVE d.ue \in Backlogged(observable)
    BY DEF ServedBy
  <2>1. PICK m \in DOMAIN ds : d = ds[m]
    BY DEF Range
  <2> QED
    BY <2>1, <1>2, <1>4
<1>11. ~NothingToServe' /\ WellFormed(observable)'
  BY <1>1, <1>2 DEF NothingToServe, Eligible, Ues, Backlogged, WellFormed
<1>12. WorkConserving'
  BY <1>1, <1>9, <1>10, <1>11 DEF WorkConserving, ds
<1> QED
  BY <1>1, <1>8, <1>11, <1>12 DEF AssignedInv

LEMMA AssignedStep == AssignedInv /\ [RoundRobinNext]_roundRobinVars => AssignedInv'
<1> SUFFICES ASSUME AssignedInv, [RoundRobinNext]_roundRobinVars
             PROVE  AssignedInv'
  OBVIOUS
<1>1. RoundRobinTypeOK'
  BY TypeStep DEF AssignedInv
<1>2. CASE LoopStep /\ UNCHANGED rrVars
  <2>1. blockIndex' = 0
    BY <1>2, LoopStepTypes DEF AssignedInv
  <2>2. pc' # "commit"
    BY <1>2 DEF LoopStep, RefuseArguments, Raise, Start, OpenTti, RefuseStep,
       CommitTti, Return
  <2>3. pc' = "allocate" => WellFormed(observable)'
    BY <1>2 DEF LoopStep, RefuseArguments, Raise, Start, OpenTti, RefuseStep,
       CommitTti, Return
  <2> QED
    BY <1>1, <2>1, <2>2, <2>3 DEF AssignedInv, NeverRefused, WorkConserving
<1>3. CASE AllocateNothing
  <2>1. /\ blockIndex' = 0 /\ pc = "allocate"
        /\ observable' = observable /\ schedulerState' = schedulerState
        /\ step' = [decisions |-> <<>>, state |-> schedulerState]
    BY <1>3 DEF AllocateNothing, AllocateReturns
  <2>2. ValidDecisions(<<>>)'
    BY DEF ValidDecisions, NoBlockTwice
  <2>3. NothingToServe'
    BY <1>3, <2>1 DEF AllocateNothing, NothingToServe, Eligible, Ues, Backlogged
  <2>4. WellFormed(observable)'
    BY <2>1 DEF AssignedInv, WellFormed
  <2> QED
    BY <1>1, <2>1, <2>2, <2>3, <2>4 DEF AssignedInv, NeverRefused, WorkConserving
<1>4. CASE StartAssigning
  <2>1. /\ blockIndex' = 1 /\ pc = "allocate" /\ pc' = pc
        /\ observable' = observable
        /\ assignments' = NoBlocks /\ served' = <<>>
        /\ ~NothingToServe
    BY <1>4 DEF StartAssigning
  <2>2. Range(served') = {} /\ IsInjective(served')
    BY <2>1 DEF Range, IsInjective
  <2>3. \A u \in UeIds : DOMAIN assignments'[u] = {}
    BY <2>1 DEF NoBlocks
  <2>4. WellFormed(observable)' /\ ~NothingToServe'
    BY <2>1 DEF AssignedInv, WellFormed, NothingToServe, Eligible, Ues, Backlogged
  <2>5. AssignedOnce' /\ OnlyEarlierBlocks' /\ EveryEarlierBlock'
    BY <2>1, <2>3 DEF AssignedOnce, OnlyEarlierBlocks, EveryEarlierBlock
  <2> QED
    BY <1>1, <2>1, <2>2, <2>4, <2>5 DEF AssignedInv, NeverRefused, WorkConserving
<1>5. CASE AssignBlock
  BY <1>1, <1>5, AssignedBlock
<1>6. CASE FinishAssigning
  BY <1>1, <1>6, AssignedResult
<1>7. CASE UNCHANGED roundRobinVars
  BY <1>1, <1>7 DEF roundRobinVars, AssignedInv, WellFormed, NothingToServe, AssignedOnce,
     OnlyEarlierBlocks, EveryEarlierBlock, NeverRefused, WorkConserving,
     ValidDecisions, ValidDecision, NoBlockTwice, Eligible, Ues, Backlogged
<1> QED
  BY <1>2, <1>3, <1>4, <1>5, <1>6, <1>7 DEF RoundRobinNext

\* What RoundRobin returns always passes _validate_decisions: in the loop it is
\* never the algorithm that makes the run raise.
THEOREM RoundRobinNeverRefused == RoundRobinSpec => []NeverRefused
<1>1. AssignedInv => NeverRefused
  BY DEF AssignedInv
<1> QED
  BY <1>1, AssignedInit, AssignedStep, PTL DEF RoundRobinSpec

\* A TTI is opened with an ObservableState that can be built.
OpensWell ==
    pc = "between" /\ pc' \in {"allocate", "raised"} => WellFormed(observable')

\* What is opened is a pending TTI.
LEMMA OpensPending ==
    LoopStep /\ pc = "between" /\ pc' \in {"allocate", "raised"}
        => observable'.tti \in pending
<1> SUFFICES ASSUME LoopStep, pc = "between", pc' \in {"allocate", "raised"}
             PROVE  observable'.tti \in pending
  OBVIOUS
<1>1. OpenTti
  BY DEF LoopStep, RefuseArguments, Start, RefuseStep, CommitTti, Return
<1>2. PICK t \in pending, in \in TtiInputs : observable' = Observe(t, in)
  BY <1>1 DEF OpenTti
<1> QED
  BY <1>2 DEF Observe

\* Nothing but malformed arguments, a malformed record or a refused decision
\* makes a step of the loop raise.
LEMMA LoopGoesOn ==
    ASSUME LoopStep, AcceptsArguments, OpensWell,
           pc = "commit" => ValidDecisions(step.decisions), pc # "raised"
    PROVE  pc' # "raised" /\ input' = input
BY DEF LoopStep, OpensWell, RefuseArguments, Start, OpenTti, RefuseStep, CommitTti, Return

LEMMA RotationGoesOn ==
    ASSUME AssignedInv, RoundRobinNext, AcceptsArguments, OpensWell, pc # "raised"
    PROVE  pc' # "raised" /\ input' = input
<1>1. CASE LoopStep
  BY <1>1, LoopGoesOn DEF AssignedInv, NeverRefused
<1>2. CASE AllocateNothing \/ StartAssigning \/ AssignBlock \/ FinishAssigning
  BY <1>2 DEF AllocateNothing, StartAssigning, AssignBlock, FinishAssigning, AllocateReturns
<1> QED
  BY <1>1, <1>2 DEF RoundRobinNext

LEMMA RotationOpensPending ==
    ASSUME RoundRobinNext, pc = "between", pc' \in {"allocate", "raised"}
    PROVE  observable'.tti \in pending
BY OpensPending DEF RoundRobinNext, AllocateNothing, StartAssigning, AssignBlock,
   FinishAssigning, AllocateReturns

\* Whenever somebody has demand every block of the TTI is assigned, to UEs that
\* have demand; otherwise nothing is and the cursor stays.
THEOREM RoundRobinIsWorkConserving == RoundRobinSpec => []WorkConserving
<1>1. AssignedInv => WorkConserving
  BY DEF AssignedInv
<1> QED
  BY <1>1, AssignedInit, AssignedStep, PTL DEF RoundRobinSpec
----------------------------------------------------------------------------
(***************************************************************************)
(* Fairness of the rotation                                                *)
(*                                                                         *)
(* Within a TTI and across TTIs the argument is the same: the UEs the      *)
(* search from the cursor meets first are those that are owed most.        *)
(***************************************************************************)

LEMMA AheadType ==
    ASSUME Ues \in Seq(UeIds), NEW p \in DOMAIN Ues, NEW i \in DOMAIN Ues
    PROVE  Ahead(p, i) \in 0 .. Len(Ues) - 1
<1>1. DOMAIN Ues = 1 .. Len(Ues) /\ Len(Ues) \in Nat
  BY LenProperties
<1> QED
  BY <1>1 DEF Ahead

LEMMA AheadInjective ==
    ASSUME Ues \in Seq(UeIds), NEW p \in DOMAIN Ues,
           NEW i \in DOMAIN Ues, NEW j \in DOMAIN Ues,
           Ahead(p, i) = Ahead(p, j)
    PROVE  i = j
<1>1. DOMAIN Ues = 1 .. Len(Ues) /\ Len(Ues) \in Nat
  BY LenProperties
<1> QED
  BY <1>1 DEF Ahead

\* Serving position i turns the rotation: i becomes the last one, and the
\* others behind it keep their order.
LEMMA RotationTurns ==
    ASSUME Ues \in Seq(UeIds), NEW p \in DOMAIN Ues, NEW i \in DOMAIN Ues
    PROVE  /\ Ahead(After(i), i) = Len(Ues) - 1
           /\ \A j \in DOMAIN Ues :
                 Ahead(p, i) < Ahead(p, j)
                     => Ahead(After(i), j) = Ahead(p, j) - Ahead(p, i) - 1
<1>1. DOMAIN Ues = 1 .. Len(Ues) /\ Len(Ues) \in Nat
  BY LenProperties
<1>2. Ahead(After(i), i) = Len(Ues) - 1
  BY <1>1 DEF Ahead, After
<1>3. ASSUME NEW j \in DOMAIN Ues, Ahead(p, i) < Ahead(p, j)
      PROVE  Ahead(After(i), j) = Ahead(p, j) - Ahead(p, i) - 1
  BY <1>1, <1>3 DEF Ahead, After
<1> QED
  BY <1>2, <1>3

\* The next eligible UE is before every other eligible one.
LEMMA NextIsStrictlyFirst ==
    ASSUME Ues \in Seq(UeIds), NEW p \in DOMAIN Ues, NEW i, IsNextEligible(p, i),
           NEW j \in Eligible, j # i
    PROVE  Ahead(p, i) < Ahead(p, j)
<1>1. i \in DOMAIN Ues /\ j \in DOMAIN Ues /\ Ahead(p, i) <= Ahead(p, j)
  BY DEF IsNextEligible, Eligible
<1>2. Ahead(p, i) # Ahead(p, j)
  BY <1>1, AheadInjective
<1>3. Ahead(p, i) \in Int /\ Ahead(p, j) \in Int
  BY <1>1, AheadType
<1> QED
  BY <1>1, <1>2, <1>3

Given(i) == Len(assignments[Ues[i]])

\* Those the search meets sooner have as many blocks or one less.
SoonerHasLess ==
    blockIndex > 0 =>
        \A i, j \in Eligible :
            Ahead(pointer, i) < Ahead(pointer, j) =>
                Given(i) <= Given(j) /\ Given(j) <= Given(i) + 1

EvenInv == AssignedInv /\ SoonerHasLess

LEMMA FairBlock ==
    ASSUME EvenInv, AssignBlock
    PROVE  SoonerHasLess'
<1>1. /\ Ues \in Seq(UeIds)
      /\ observable.blocks \in Seq(BlockIds)
      /\ assignments \in [UeIds -> Seq(BlockIds)]
      /\ blockIndex \in Nat
  BY DEF EvenInv, AssignedInv, RoundRobinTypeOK, LoopTypeOK, Observable, Ues
<1>2. blockIndex > 0 /\ DOMAIN observable.blocks = 1 .. Len(observable.blocks)
  BY <1>1, LenProperties DEF AssignBlock
<1>3. pointer \in DOMAIN Ues /\ IsInjective(Ues)
  BY <1>2 DEF EvenInv, AssignedInv, RoundRobinTypeOK, WellFormed, Ues
<1> PICK i \in Eligible :
      /\ IsNextEligible(pointer, i)
      /\ assignments' = [assignments EXCEPT
                            ![Ues[i]] = Append(@, observable.blocks[blockIndex])]
      /\ pointer' = After(i)
  BY DEF AssignBlock
<1>4. Ues' = Ues /\ Eligible' = Eligible /\ Eligible \subseteq DOMAIN Ues
  BY DEF AssignBlock, Ues, Eligible, Backlogged
<1>5. \A k \in DOMAIN Ues : Ues[k] \in UeIds /\ Given(k) \in Nat
  <2>1. \A k \in DOMAIN Ues : Ues[k] \in UeIds
    BY <1>1, ElementOfSeq, LenProperties
  <2> QED
    BY <2>1, <1>1, LenProperties DEF Given
<1>6. observable.blocks[blockIndex] \in BlockIds
  BY <1>1, <1>2, ElementOfSeq DEF AssignBlock
<1>7. Given(i)' = Given(i) + 1
  <2>1. assignments'[Ues[i]] = Append(assignments[Ues[i]], observable.blocks[blockIndex])
    BY <1>1, <1>4, <1>5
  <2>2. assignments[Ues[i]] \in Seq(BlockIds)
    BY <1>1, <1>4, <1>5
  <2> QED
    BY <2>1, <2>2, <1>4, <1>6, AppendProperties DEF Given
<1>8. \A k \in Eligible : k # i => Given(k)' = Given(k)
  BY <1>1, <1>3, <1>4, <1>5 DEF Given, IsInjective
<1>9. \A p \in DOMAIN Ues, k \in DOMAIN Ues : Ahead(p, k)' = Ahead(p, k)
  BY <1>4 DEF Ahead
<1>10. pointer' \in DOMAIN Ues
  BY <1>1, <1>4, AfterType
<1> SUFFICES ASSUME NEW j \in Eligible, NEW k \in Eligible,
                    Ahead(After(i), j) < Ahead(After(i), k)
             PROVE  Given(j)' <= Given(k)' /\ Given(k)' <= Given(j)' + 1
  <2>1. ASSUME NEW j \in Eligible, NEW k \in Eligible
        PROVE  /\ Ahead(pointer, j)' = Ahead(After(i), j)
               /\ Ahead(pointer, k)' = Ahead(After(i), k)
    BY <1>4 DEF Ahead
  <2> QED
    BY <2>1, <1>4 DEF SoonerHasLess
<1>11. \A m \in Eligible : m # i =>
          /\ Ahead(pointer, i) < Ahead(pointer, m)
          /\ Ahead(After(i), m) = Ahead(pointer, m) - Ahead(pointer, i) - 1
  BY <1>1, <1>3, <1>4, NextIsStrictlyFirst, RotationTurns
<1>12. \A m \in Eligible : Ahead(pointer, m) \in Int
                           /\ Ahead(After(i), m) \in 0 .. Len(Ues) - 1
  BY <1>1, <1>3, <1>4, <1>10, AheadType
<1>13. j # i
  <2>1. Ahead(After(i), i) = Len(Ues) - 1
    BY <1>1, <1>3, <1>4, RotationTurns
  <2>2. Len(Ues) \in Nat
    BY <1>1, LenProperties
  <2> QED
    BY <2>1, <2>2, <1>12
<1>14. CASE k = i
  <2>1. Given(i) <= Given(j) /\ Given(j) <= Given(i) + 1
    BY <1>2, <1>11, <1>13 DEF EvenInv, SoonerHasLess
  <2> QED
    BY <2>1, <1>4, <1>5, <1>7, <1>8, <1>13, <1>14
<1>15. CASE k # i
  <2>1. Ahead(pointer, j) < Ahead(pointer, k)
    BY <1>11, <1>12, <1>13, <1>15
  <2> QED
    BY <2>1, <1>2, <1>8, <1>13, <1>15 DEF EvenInv, SoonerHasLess
<1> QED
  BY <1>14, <1>15

LEMMA EvenStep == EvenInv /\ [RoundRobinNext]_roundRobinVars => EvenInv'
<1> SUFFICES ASSUME EvenInv, [RoundRobinNext]_roundRobinVars
             PROVE  EvenInv'
  OBVIOUS
<1>1. AssignedInv'
  BY AssignedStep DEF EvenInv
<1>2. CASE LoopStep /\ UNCHANGED rrVars
  <2>1. blockIndex' = 0
    BY <1>2, LoopStepTypes DEF EvenInv, AssignedInv
  <2> QED
    BY <2>1, <1>1 DEF EvenInv, SoonerHasLess
<1>3. CASE AllocateNothing \/ FinishAssigning
  BY <1>1, <1>3 DEF AllocateNothing, FinishAssigning, EvenInv, SoonerHasLess
<1>4. CASE StartAssigning
  <2>1. \A i \in Eligible' : Given(i)' = 0
    <3>1. Ues \in Seq(UeIds) /\ Eligible' = Eligible /\ Ues' = Ues
      BY <1>4 DEF StartAssigning, EvenInv, AssignedInv, RoundRobinTypeOK, LoopTypeOK,
         Observable, Ues, Eligible, Backlogged
    <3>2. \A i \in Eligible : Ues[i] \in UeIds
      BY <3>1, ElementOfSeq, LenProperties DEF Eligible
    <3>3. \A i \in Eligible : assignments'[Ues[i]] = <<>>
      BY <1>4, <3>2 DEF StartAssigning, NoBlocks
    <3> QED
      BY <3>1, <3>3, EmptySeq DEF Given
  <2> QED
    BY <2>1, <1>1 DEF EvenInv, SoonerHasLess
<1>5. CASE AssignBlock
  BY <1>1, <1>5, FairBlock DEF EvenInv
<1>6. CASE UNCHANGED roundRobinVars
  BY <1>1, <1>6 DEF roundRobinVars, EvenInv, SoonerHasLess, Eligible, Given, Ahead, Ues, Backlogged
<1> QED
  BY <1>2, <1>3, <1>4, <1>5, <1>6 DEF RoundRobinNext

\* In every TTI, with any number of UEs and blocks, the UEs that have demand
\* get as many blocks as each other, up to one.
THEOREM RoundRobinSplitsEvenly == RoundRobinSpec => []EvenSplit
<1>1. RoundRobinInit => EvenInv
  <2>1. RoundRobinInit => blockIndex = 0
    BY DEF RoundRobinInit
  <2> QED
    BY <2>1, AssignedInit DEF EvenInv, SoonerHasLess
<1>2. EvenInv => EvenSplit
  <2> SUFFICES ASSUME EvenInv, blockIndex > 0, NEW i \in Eligible, NEW j \in Eligible
               PROVE  Given(i) <= Given(j) + 1
    BY DEF EvenSplit, Given
  <2>1. /\ Ues \in Seq(UeIds) /\ pointer \in DOMAIN Ues
        /\ assignments \in [UeIds -> Seq(BlockIds)]
    BY DEF EvenInv, AssignedInv, RoundRobinTypeOK, LoopTypeOK, Observable, Ues
  <2>2. i \in DOMAIN Ues /\ j \in DOMAIN Ues /\ Given(i) \in Nat /\ Given(j) \in Nat
    <3>1. i \in DOMAIN Ues /\ j \in DOMAIN Ues
      BY DEF Eligible
    <3>2. Ues[i] \in UeIds /\ Ues[j] \in UeIds
      BY <2>1, <3>1, ElementOfSeq, LenProperties
    <3> QED
      BY <2>1, <3>1, <3>2, LenProperties DEF Given
  <2>3. Ahead(pointer, i) \in Int /\ Ahead(pointer, j) \in Int
    BY <2>1, <2>2, AheadType
  <2>4. CASE Ahead(pointer, i) = Ahead(pointer, j)
    BY <2>1, <2>2, <2>4, AheadInjective
  <2>5. CASE Ahead(pointer, i) < Ahead(pointer, j)
    BY <2>2, <2>5 DEF EvenInv, SoonerHasLess
  <2>6. CASE Ahead(pointer, j) < Ahead(pointer, i)
    BY <2>6 DEF EvenInv, SoonerHasLess
  <2> QED
    BY <2>3, <2>4, <2>5, <2>6
<1> QED
  BY <1>1, <1>2, EvenStep, PTL DEF RoundRobinSpec
\* The UE the rotation continues after, wherever it is kept at the moment.
Cursor ==
    IF blockIndex > 0 THEN lastAssigned
    ELSE IF pc = "commit" THEN step.state
    ELSE schedulerState

\* Who was passed comes before those who passed it, so it is served before any
\* of them is again.  Ues changes once, when the first TTI is opened.
PassedIsSooner ==
    /\ Ues = input.ues \/ passed = NonePassed
    /\ pc \in {"allocate", "commit"} => Ues = input.ues
    /\ pc = "called" => passed = NonePassed
    /\ blockIndex > 0 => pointer = SearchStart(lastAssigned)
    /\ pc # "raised" =>
          \A i, j \in DOMAIN Ues :
              passed[Ues[i]][Ues[j]] # 0 =>
                  Ahead(SearchStart(Cursor), i) < Ahead(SearchStart(Cursor), j)

OvertakingInv == AssignedInv /\ PassedIsSooner /\ NoOvertaking

LEMMA OvertakingBlock ==
    ASSUME OvertakingInv, AssignBlock
    PROVE  PassedIsSooner' /\ NoOvertaking'
<1>1. /\ Ues \in Seq(UeIds)
      /\ passed \in [UeIds -> [UeIds -> Nat]]
      /\ blockIndex \in Nat
      /\ DOMAIN observable.blocks = 1 .. Len(observable.blocks)
      /\ observable.ues = Ues
  BY LenProperties DEF OvertakingInv, AssignedInv, RoundRobinTypeOK, LoopTypeOK, Observable, Ues
<1>2. blockIndex > 0 /\ blockIndex' = blockIndex + 1 /\ pc = "allocate"
      /\ UNCHANGED <<pc, input, observable, step, schedulerState>>
  BY <1>1 DEF AssignBlock, OvertakingInv, AssignedInv, RoundRobinTypeOK
<1>3. /\ pointer \in DOMAIN Ues /\ IsInjective(Ues)
      /\ pointer = SearchStart(lastAssigned) /\ Cursor = lastAssigned
  BY <1>2 DEF OvertakingInv, AssignedInv, RoundRobinTypeOK, WellFormed, Ues, PassedIsSooner, Cursor
<1> PICK i \in Eligible :
      /\ IsNextEligible(pointer, i)
      /\ lastAssigned' = Ues[i]
      /\ pointer' = After(i)
      /\ passed' = Overtaken(i)
  BY DEF AssignBlock
<1>4. Ues' = Ues /\ Eligible \subseteq DOMAIN Ues
      /\ \A k \in DOMAIN Ues : Ues[k] \in UeIds /\ Ues[k] \in Range(Ues)
  <2>1. \A k \in DOMAIN Ues : Ues[k] \in UeIds
    BY <1>1, ElementOfSeq, LenProperties
  <2> QED
    BY <2>1, <1>2 DEF Ues, Eligible, Range
<1>5. \A q : SearchStart(q)' = SearchStart(q)
  BY <1>4 DEF SearchStart, PositionOf, After
<1>6. SearchStart(Ues[i]) = After(i)
  <2>1. PositionOf(Ues[i]) = i
    BY <1>3, <1>4, PositionOfType DEF IsInjective
  <2> QED
    BY <2>1, <1>4 DEF SearchStart
<1>7. Cursor' = Ues[i]
  BY <1>1, <1>2 DEF Cursor
<1>8. \A p \in DOMAIN Ues, k \in DOMAIN Ues : Ahead(p, k)' = Ahead(p, k)
  BY <1>4 DEF Ahead
<1>9. \A k \in Eligible : k # i =>
         /\ Ahead(pointer, i) < Ahead(pointer, k)
         /\ passed[Ues[k]][Ues[i]] = 0
  <2> SUFFICES ASSUME NEW k \in Eligible, k # i
               PROVE  /\ Ahead(pointer, i) < Ahead(pointer, k)
                      /\ passed[Ues[k]][Ues[i]] = 0
    OBVIOUS
  <2>1. Ahead(pointer, i) < Ahead(pointer, k)
    BY <1>1, <1>3, NextIsStrictlyFirst
  <2>2. Ahead(pointer, i) \in Int /\ Ahead(pointer, k) \in Int
    BY <1>1, <1>3, <1>4, AheadType
  <2>3. ~(Ahead(pointer, k) < Ahead(pointer, i))
    BY <2>1, <2>2
  <2>4. passed[Ues[k]][Ues[i]] = 0
    BY <2>3, <1>2, <1>3, <1>4 DEF OvertakingInv, PassedIsSooner
  <2> QED
    BY <2>1, <2>4
\* What the block changes: the served UE and those without demand start anew,
\* everybody else has been passed once more by the served one.
<1>10. \A u, v \in UeIds :
          passed'[u][v] =
            IF u = Ues[i] \/ u \notin Backlogged(observable) THEN 0
            ELSE IF v = Ues[i] THEN passed[u][v] + 1
            ELSE passed[u][v]
  <2> SUFFICES ASSUME NEW u \in UeIds, NEW v \in UeIds
               PROVE  passed'[u][v] =
                        IF u = Ues[i] \/ u \notin Backlogged(observable) THEN 0
                        ELSE IF v = Ues[i] THEN passed[u][v] + 1
                        ELSE passed[u][v]
    OBVIOUS
  <2>1. CASE u = Ues[i] \/ u \notin Backlogged(observable)
    BY <2>1 DEF Overtaken, NonePassed
  <2>2. CASE ~(u = Ues[i] \/ u \notin Backlogged(observable))
    <3>1. passed'[u] = [passed[u] EXCEPT ![Ues[i]] = @ + 1]
      BY <2>2 DEF Overtaken
    <3>2. passed[u] \in [UeIds -> Nat]
      BY <1>1
    <3> QED
      BY <2>2, <3>1, <3>2
  <2> QED
    BY <2>1, <2>2
\* A UE with demand other than the served one is at another eligible position.
<1>11. \A u \in Backlogged(observable) : u # Ues[i] =>
          \E k \in Eligible : k # i /\ u = Ues[k]
  BY <1>1 DEF Backlogged, Eligible, Range
<1>12. NoOvertaking'
  <2> SUFFICES ASSUME NEW u \in UeIds, NEW v \in UeIds
               PROVE  passed'[u][v] <= 1
    BY DEF NoOvertaking
  <2>1. passed[u][v] <= 1 /\ passed[u][v] \in Nat
    BY <1>1 DEF OvertakingInv, NoOvertaking
  <2>2. CASE u # Ues[i] /\ u \in Backlogged(observable) /\ v = Ues[i]
    <3>1. passed[u][v] = 0
      BY <2>2, <1>9, <1>11
    <3> QED
      BY <2>2, <3>1, <1>10
  <2>3. CASE ~(u # Ues[i] /\ u \in Backlogged(observable) /\ v = Ues[i])
    <3>1. passed'[u][v] = 0 \/ passed'[u][v] = passed[u][v]
      BY <2>3, <1>10
    <3> QED
      BY <3>1, <2>1
  <2> QED
    BY <2>2, <2>3
<1>13. PassedIsSooner'
  <2>1. Ues' = input'.ues
    BY <1>2, <1>4 DEF OvertakingInv, PassedIsSooner
  <2>2. blockIndex' > 0 => pointer' = SearchStart(lastAssigned)'
    BY <1>4, <1>5, <1>6 DEF SearchStart, PositionOf, After
  <2>3. ASSUME NEW j \in DOMAIN Ues, NEW k \in DOMAIN Ues,
               passed'[Ues[k]][Ues[j]] # 0
        PROVE  Ahead(After(i), k) < Ahead(After(i), j)
    <3>1. Ues[k] # Ues[i] /\ Ues[k] \in Backlogged(observable)
      BY <2>3, <1>4, <1>10
    <3>2. k # i /\ k \in Eligible
      BY <3>1 DEF Eligible
    <3>3. /\ Ahead(pointer, i) < Ahead(pointer, k)
          /\ Ahead(After(i), k) = Ahead(pointer, k) - Ahead(pointer, i) - 1
      BY <3>2, <1>1, <1>3, <1>4, <1>9, RotationTurns
    <3>4. /\ Ahead(pointer, i) \in 0 .. Len(Ues) - 1
          /\ Ahead(pointer, j) \in 0 .. Len(Ues) - 1
          /\ Ahead(pointer, k) \in 0 .. Len(Ues) - 1
          /\ Len(Ues) \in Nat
      BY <1>1, <1>3, <1>4, AheadType, LenProperties
    <3>5. CASE j = i
      <4>1. Ahead(After(i), i) = Len(Ues) - 1
        BY <1>1, <1>3, <1>4, RotationTurns
      <4> QED
        BY <3>3, <3>4, <3>5, <4>1
    <3>6. CASE j # i
      <4>1. Ues[j] # Ues[i]
        BY <3>6, <1>3, <1>4 DEF IsInjective
      <4>2. passed[Ues[k]][Ues[j]] # 0
        BY <2>3, <3>1, <4>1, <1>4, <1>10
      <4>3. Ahead(pointer, k) < Ahead(pointer, j)
        BY <4>2, <1>2, <1>3 DEF OvertakingInv, PassedIsSooner
      <4>4. Ahead(pointer, i) < Ahead(pointer, j)
        BY <4>3, <3>3, <3>4
      <4>5. Ahead(After(i), j) = Ahead(pointer, j) - Ahead(pointer, i) - 1
        BY <4>4, <1>1, <1>3, <1>4, RotationTurns
      <4> QED
        BY <3>3, <3>4, <4>3, <4>5
    <3> QED
      BY <3>5, <3>6
  <2>4. SearchStart(Cursor)' = After(i)
    BY <1>4, <1>6, <1>7 DEF SearchStart, PositionOf, After
  <2>5. \A j, k \in DOMAIN Ues' :
           passed'[Ues'[j]][Ues'[k]] # 0 =>
             Ahead(SearchStart(Cursor), j)' < Ahead(SearchStart(Cursor), k)'
    BY <2>3, <2>4, <1>4 DEF Ahead
  <2> QED
    BY <2>1, <2>2, <2>5, <1>2 DEF PassedIsSooner
<1> QED
  BY <1>12, <1>13

\* Outside the loop over the blocks the cursor only moves from one place to
\* another.
LEMMA CursorKept ==
    ASSUME OvertakingInv, passed' = passed, Ues' = Ues, input' = input,
           pc = "raised" => pc' = "raised",
           pc' = "called" => pc = "called",
           pc' \in {"allocate", "commit"} => Ues = input.ues,
           Cursor' = Cursor,
           blockIndex' > 0 => pointer' = SearchStart(lastAssigned)'
    PROVE  PassedIsSooner' /\ NoOvertaking'
<1>1. SearchStart(Cursor)' = SearchStart(Cursor)
  BY DEF SearchStart, PositionOf, After
<1>2. pc # "raised" =>
         \A i, j \in DOMAIN Ues :
           passed[Ues[i]][Ues[j]] # 0 =>
             Ahead(SearchStart(Cursor), i)' < Ahead(SearchStart(Cursor), j)'
  BY <1>1 DEF OvertakingInv, PassedIsSooner, Ahead
<1> QED
  BY <1>2 DEF OvertakingInv, PassedIsSooner, NoOvertaking

LEMMA OvertakingStep == OvertakingInv /\ [RoundRobinNext]_roundRobinVars => OvertakingInv'
<1> SUFFICES ASSUME OvertakingInv, [RoundRobinNext]_roundRobinVars
             PROVE  OvertakingInv'
  OBVIOUS
<1>1. AssignedInv'
  BY AssignedStep DEF OvertakingInv
<1> SUFFICES PassedIsSooner' /\ NoOvertaking'
  BY <1>1 DEF OvertakingInv
<1>0. pc \in {"allocate", "commit"} => Ues = input.ues
  BY DEF OvertakingInv, PassedIsSooner
<1>2. CASE LoopStep /\ UNCHANGED rrVars
  <2>0. /\ blockIndex = 0 /\ blockIndex' = 0 /\ passed' = passed
        /\ pc # "allocate"
    BY <1>2, LoopStepTypes DEF OvertakingInv, AssignedInv
  <2>1. CASE pc' = "raised" /\ UNCHANGED <<input, observable>> /\ pc # "raised"
    BY <2>0, <2>1 DEF OvertakingInv, PassedIsSooner, NoOvertaking, Ues
  <2>2. CASE Start
    <3>1. passed = NonePassed /\ passed' = passed /\ pc' = "between"
      BY <2>0, <2>2 DEF Start, OvertakingInv, PassedIsSooner
    <3>2. \A u, v \in UeIds : passed'[u][v] = 0
      BY <3>1 DEF NonePassed
    <3>3. Ues' \in Seq(UeIds)
      BY <1>1 DEF AssignedInv, RoundRobinTypeOK, LoopTypeOK, Observable, Ues
    <3>4. \A i \in DOMAIN Ues' : Ues'[i] \in UeIds
      BY <3>3, ElementOfSeq, LenProperties
    <3> QED
      BY <2>0, <3>1, <3>2, <3>4 DEF PassedIsSooner, NoOvertaking, NonePassed
  <2>3. CASE OpenTti
    <3>1. /\ pc = "between" /\ pc' \in {"allocate", "raised"}
          /\ UNCHANGED <<input, schedulerState>>
          /\ Ues' = input.ues
      BY <2>3 DEF OpenTti, Observe, Ues
    <3>2. CASE Ues = input.ues
      <4>1. Cursor' = Cursor
        BY <2>0, <3>1 DEF Cursor
      <4> QED
        BY <2>0, <3>1, <3>2, <4>1, CursorKept
    <3>3. CASE passed = NonePassed
      <4>1. \A u, v \in UeIds : passed'[u][v] = 0
        BY <2>0, <3>3 DEF NonePassed
      <4>2. Ues' \in Seq(UeIds)
        BY <1>1 DEF AssignedInv, RoundRobinTypeOK, LoopTypeOK, Observable, Ues
      <4>3. \A i \in DOMAIN Ues' : Ues'[i] \in UeIds
        BY <4>2, ElementOfSeq, LenProperties
      <4> QED
        BY <2>0, <3>1, <4>1, <4>3 DEF PassedIsSooner, NoOvertaking
    <3> QED
      BY <3>2, <3>3 DEF OvertakingInv, PassedIsSooner
  <2>4. CASE CommitTti \/ Return
    <3>1. /\ pc' \in {"between", "returned"} /\ pc # "raised"
          /\ UNCHANGED <<input, Ues>>
          /\ Cursor' = Cursor
      BY <2>0, <2>4 DEF CommitTti, Return, Cursor, Ues
    <3> QED
      BY <2>0, <3>1, CursorKept
  <2> QED
    BY <1>2, <2>1, <2>2, <2>3, <2>4 DEF LoopStep, RefuseArguments, RefuseStep, Raise
<1>3. CASE AllocateNothing
  <2>1. /\ pc = "allocate" /\ pc' = "commit" /\ UNCHANGED <<input, Ues, passed>>
        /\ blockIndex = 0 /\ blockIndex' = 0
        /\ Cursor' = Cursor
    BY <1>3 DEF AllocateNothing, AllocateReturns, Cursor, Ues
  <2> QED
    BY <2>1, <1>0, CursorKept
<1>4. CASE StartAssigning
  <2>1. /\ pc = "allocate" /\ pc' = pc /\ UNCHANGED <<input, Ues, passed>>
        /\ blockIndex = 0 /\ blockIndex' = 1
        /\ lastAssigned' = schedulerState
        /\ pointer' = SearchStart(schedulerState)
    BY <1>4 DEF StartAssigning, Ues
  <2>2. Cursor' = Cursor
    BY <2>1 DEF Cursor
  <2>3. pointer' = SearchStart(lastAssigned)'
    BY <2>1 DEF SearchStart, PositionOf, After
  <2> QED
    BY <2>1, <2>2, <2>3, <1>0, CursorKept
<1>5. CASE AssignBlock
  BY <1>5, OvertakingBlock
<1>6. CASE FinishAssigning
  <2>1. /\ pc = "allocate" /\ pc' = "commit" /\ UNCHANGED <<input, Ues, passed>>
        /\ blockIndex > 0 /\ blockIndex' = 0
        /\ step'.state = lastAssigned
    <3>1. Len(observable.blocks) \in Nat
      BY LenProperties DEF OvertakingInv, AssignedInv, RoundRobinTypeOK, LoopTypeOK, Observable
    <3>2. blockIndex \in Nat
      BY DEF OvertakingInv, AssignedInv, RoundRobinTypeOK
    <3> QED
      BY <1>6, <3>1, <3>2 DEF FinishAssigning, AllocateReturns, Ues
  <2>2. Cursor' = Cursor
    BY <2>1 DEF Cursor
  <2> QED
    BY <2>1, <2>2, <1>0, CursorKept
<1>7. CASE UNCHANGED roundRobinVars
  <2>1. UNCHANGED <<pc, input, Ues, passed>> /\ Cursor' = Cursor
    BY <1>7 DEF roundRobinVars, Ues, Cursor
  <2>2. blockIndex' > 0 => pointer' = SearchStart(lastAssigned)'
    BY <1>7 DEF roundRobinVars, OvertakingInv, PassedIsSooner, SearchStart, PositionOf, After, Ues
  <2>3. pc' \in {"allocate", "commit"} => Ues = input.ues
    BY <2>1 DEF OvertakingInv, PassedIsSooner
  <2> QED
    BY <2>1, <2>2, <2>3, CursorKept
<1> QED
  BY <1>2, <1>3, <1>4, <1>5, <1>6, <1>7 DEF RoundRobinNext

\* Across TTIs, with any number of UEs and any pattern of demand, a UE that
\* keeps having demand is passed at most once by each other UE between two of
\* its own blocks: the cursor that one call returns and the next one receives
\* is all the memory the rotation needs.
THEOREM RoundRobinNeverOvertakes == RoundRobinSpec => []NoOvertaking
<1>1. RoundRobinInit => OvertakingInv
  <2> SUFFICES ASSUME RoundRobinInit PROVE OvertakingInv
    OBVIOUS
  <2>1. passed = NonePassed /\ blockIndex = 0 /\ pc = "called"
    BY DEF RoundRobinInit, LoopInit
  <2>2. \A u, v \in UeIds : passed[u][v] = 0
    BY <2>1 DEF NonePassed
  <2>3. DOMAIN Ues = {}
    BY DEF RoundRobinInit, LoopInit, NoObservable, Ues
  <2> QED
    BY <2>1, <2>2, <2>3, AssignedInit DEF OvertakingInv, PassedIsSooner, NoOvertaking
<1>2. OvertakingInv => NoOvertaking
  BY DEF OvertakingInv
<1> QED
  BY <1>1, <1>2, OvertakingStep, PTL DEF RoundRobinSpec
----------------------------------------------------------------------------
(***************************************************************************)
(* The scan                                                                *)
(***************************************************************************)

CqiAt(i) == CqiOf(observable, observable.ues[i])

LEMMA ObservableTypes ==
    ASSUME LoopTypeOK
    PROVE  /\ observable.ues \in Seq(UeIds)
           /\ observable.blocks \in Seq(BlockIds)
           /\ observable.tti \in Nat
           /\ DOMAIN observable.ues = 1 .. Len(observable.ues)
           /\ Len(observable.ues) \in Nat
           /\ \A i \in DOMAIN observable.ues :
                 /\ observable.ues[i] \in UeIds
                 /\ observable.ues[i] \in Range(observable.ues)
           /\ \A u \in UeIds : CqiOf(observable, u) \in Cqi
<1>1. /\ observable.ues \in Seq(UeIds)
      /\ observable.blocks \in Seq(BlockIds)
      /\ observable.tti \in Nat
      /\ observable.qualities \in [UeIds -> Seq(Cqi)]
  BY DEF LoopTypeOK, Observable
<1>2. DOMAIN observable.ues = 1 .. Len(observable.ues) /\ Len(observable.ues) \in Nat
  BY <1>1, LenProperties
<1>3. \A i \in DOMAIN observable.ues :
         /\ observable.ues[i] \in UeIds
         /\ observable.ues[i] \in Range(observable.ues)
  BY <1>1, <1>2, ElementOfSeq DEF Range
<1>4. ASSUME NEW u \in UeIds PROVE CqiOf(observable, u) \in Cqi
  <2>1. CASE observable.qualities[u] = <<>>
    BY <2>1 DEF CqiOf, Cqi
  <2>2. CASE observable.qualities[u] # <<>>
    <3>1. observable.qualities[u] \in Seq(Cqi)
      BY <1>1
    <3>2. 1 \in 1 .. Len(observable.qualities[u])
      BY <2>2, <3>1, EmptySeq, LenProperties
    <3> QED
      BY <2>2, <3>1, <3>2, ElementOfSeq DEF CqiOf
  <2> QED
    BY <2>1, <2>2
<1> QED
  BY <1>1, <1>2, <1>3, <1>4

\* A step of either algorithm's run, as far as the scan goes.
ScanStep ==
    \/ LoopStep /\ UNCHANGED scanVars
    \/ StartScan
    \/ LookAtUe /\ \/ Contends(ScannedUe) /\ winner' = ScannedUe
                   \/ winner' = winner
    \/ \E state : FinishScan(state)
    \/ UNCHANGED <<loopVars, scanVars>>

LEMMA WinnerTakesAllType ==
    ASSUME ScanTypeOK
    PROVE  WinnerTakesAll \in Decisions
<1>1. CASE winner = NoUe
  BY <1>1 DEF WinnerTakesAll, Decisions
<1>2. CASE winner # NoUe
  <2>1. [tti |-> observable.tti, ue |-> winner, blocks |-> observable.blocks] \in Decision
    BY <1>2, ObservableTypes DEF ScanTypeOK, Decision
  <2> QED
    BY <1>2, <2>1 DEF WinnerTakesAll, Decisions
<1> QED
  BY <1>1, <1>2

\* A scan in the loop is a run of the loop with some algorithm.
LEMMA ScanStepOfAnyRun == ScanTypeOK /\ ScanStep => [AnyNext]_loopVars
<1> SUFFICES ASSUME ScanTypeOK, ScanStep
             PROVE  [AnyNext]_loopVars
  OBVIOUS
<1>1. CASE LoopStep /\ UNCHANGED scanVars
  BY <1>1 DEF AnyNext
<1>2. CASE StartScan
  BY <1>2 DEF StartScan
<1>3. CASE LookAtUe
  BY <1>3 DEF LookAtUe
<1>4. ASSUME NEW state, FinishScan(state) PROVE AnyNext
  <2>1. AllocateReturns(WinnerTakesAll, state)
    BY <1>4 DEF FinishScan
  <2>2. step'.decisions = WinnerTakesAll /\ step'.state = state
    BY <2>1 DEF AllocateReturns
  <2> QED
    BY <2>1, <2>2, WinnerTakesAllType DEF AnyNext, AllocateReturnsSomething
<1>5. CASE UNCHANGED <<loopVars, scanVars>>
  BY <1>5
<1> QED
  BY <1>1, <1>2, <1>3, <1>4, <1>5 DEF ScanStep

\* The loop itself does not step while a scan runs.
LEMMA NoScanInLoopStep ==
    ASSUME ScanTypeOK, LoopStep
    PROVE  scanning = FALSE
<1>1. pc # "allocate"
  BY DEF LoopStep, RefuseArguments, Start, OpenTti, RefuseStep, CommitTti, Return
<1> QED
  BY <1>1 DEF ScanTypeOK

\* The UE looked at.
LEMMA ScannedUeFacts ==
    ASSUME ScanTypeOK, Scanning
    PROVE  /\ scanned \in Nat /\ scanned + 1 \in DOMAIN observable.ues
           /\ scanned + 1 <= Len(observable.ues)
           /\ ScannedUe = observable.ues[scanned + 1]
           /\ ScannedUe \in UeIds /\ ScannedUe \in Range(observable.ues)
           /\ ScannedUe # NoUe
           /\ CqiOf(observable, ScannedUe) \in Cqi
<1>1. LoopTypeOK /\ scanned \in Nat /\ scanned < Len(observable.ues)
  BY DEF Scanning, ScanTypeOK
<1>2. scanned + 1 \in DOMAIN observable.ues /\ scanned + 1 <= Len(observable.ues)
  BY <1>1, ObservableTypes
<1> QED
  BY <1>1, <1>2, ObservableTypes, NoUeAssumption DEF ScannedUe

LEMMA ContendersTypes ==
    ASSUME LoopTypeOK, NEW j \in Contenders
    PROVE  /\ j \in 1 .. Len(observable.ues) /\ j \in Nat
           /\ j \in DOMAIN observable.ues
           /\ observable.ues[j] \in UeIds /\ observable.ues[j] # NoUe
           /\ observable.ues[j] \in Range(observable.ues)
           /\ Contends(observable.ues[j])
           /\ CqiAt(j) \in 1 .. 15
<1>1. j \in DOMAIN observable.ues /\ Contends(observable.ues[j])
  BY DEF Contenders
<1>2. CqiAt(j) \in Cqi /\ CqiAt(j) > 0
  BY <1>1, ObservableTypes DEF CqiAt, Contends
<1> QED
  BY <1>1, <1>2, ObservableTypes, NoUeAssumption DEF Cqi

\* Whatever the comparison, the winner so far is a contender among the UEs
\* compared so far, and the loop accepts what the scan returns.
WinnerContends ==
    winner # NoUe => \E i \in Contenders : i <= scanned /\ winner = observable.ues[i]

ScanInv ==
    /\ ScanTypeOK
    /\ pc \in {"allocate", "commit"} => WellFormed(observable)
    /\ scanning =>
          /\ scanned <= Len(observable.ues)
          /\ observable.blocks = <<>> => scanned = 0
          /\ WinnerContends
    /\ pc = "commit" => ValidDecisions(step.decisions)

LEMMA ScanInvInit == ScanInit => ScanInv
<1> SUFFICES ASSUME ScanInit PROVE ScanInv
  OBVIOUS
<1>1. LoopTypeOK /\ pc = "called" /\ scanning = FALSE /\ winner = NoUe /\ scanned = 0
  BY LoopTypeInit DEF ScanInit, LoopInit
<1> QED
  BY <1>1 DEF ScanInv, ScanTypeOK

\* What the winner's decision is, when there is one.
LEMMA ScanDecides ==
    ASSUME ScanInv, Deciding, winner # NoUe
    PROVE  /\ observable.blocks # <<>>
           /\ winner \in UeIds /\ winner \in Range(observable.ues)
           /\ Contends(winner) /\ CqiOf(observable, winner) \in 1 .. 15
           /\ \E i \in Contenders : winner = observable.ues[i]
           /\ ServedBy(WinnerTakesAll) = {winner}
           /\ ValidDecisions(WinnerTakesAll)
<1>1. /\ LoopTypeOK /\ scanning /\ WellFormed(observable) /\ WinnerContends
      /\ observable.blocks = <<>> => scanned = 0
  BY DEF Deciding, ScanInv, ScanTypeOK
<1>2. PICK i \in Contenders : i <= scanned /\ winner = observable.ues[i]
  BY <1>1 DEF WinnerContends
<1>3. observable.blocks # <<>>
  BY <1>1, <1>2, ContendersTypes
<1>4. /\ winner \in UeIds /\ winner \in Range(observable.ues)
      /\ Contends(winner) /\ CqiOf(observable, winner) \in 1 .. 15
  BY <1>1, <1>2, ContendersTypes DEF CqiAt
<1> DEFINE d == [tti |-> observable.tti, ue |-> winner, blocks |-> observable.blocks]
<1>5. WinnerTakesAll = <<d>>
  BY DEF WinnerTakesAll
<1>6. DOMAIN <<d>> = {1} /\ <<d>>[1] = d
  OBVIOUS
<1>7. /\ d.tti = observable.tti /\ d.ue = winner /\ d.blocks = observable.blocks
  OBVIOUS
<1> HIDE DEF d
<1>8. ValidDecisions(<<d>>)
  <2>1. ValidDecision(d)
    BY <1>4, <1>7 DEF ValidDecision
  <2>2. NoBlockTwice(<<d>>)
    BY <1>6, <1>7, <1>1 DEF NoBlockTwice, WellFormed, IsInjective
  <2> QED
    BY <1>6, <2>1, <2>2 DEF ValidDecisions
<1>9. ServedBy(<<d>>) = {winner}
  <2>1. Range(<<d>>) = {d}
    BY <1>6 DEF Range
  <2> QED
    BY <1>3, <1>7, <2>1 DEF ServedBy
<1> QED
  BY <1>2, <1>3, <1>4, <1>5, <1>8, <1>9

LEMMA ScanInvStep == ScanInv /\ ScanStep => ScanInv'
<1> SUFFICES ASSUME ScanInv, ScanStep PROVE ScanInv'
  OBVIOUS
<1>0. LoopTypeOK' /\ LoopTypeOK /\ ScanTypeOK
  BY ScanStepOfAnyRun, LoopTypeStep DEF ScanInv, ScanTypeOK
<1>1. CASE LoopStep /\ UNCHANGED scanVars
  <2>1. scanning' = FALSE
    BY <1>1, NoScanInLoopStep DEF ScanInv
  <2>2. pc' # "commit"
    BY <1>1 DEF LoopStep, RefuseArguments, Raise, Start, OpenTti, RefuseStep, CommitTti, Return
  <2>3. pc' = "allocate" => WellFormed(observable)'
    BY <1>1 DEF LoopStep, RefuseArguments, Raise, Start, OpenTti, RefuseStep, CommitTti, Return
  <2> QED
    BY <1>0, <1>1, <2>1, <2>2, <2>3 DEF ScanInv, ScanTypeOK
<1>2. CASE StartScan
  <2>1. /\ pc = "allocate" /\ pc' = pc /\ observable' = observable
        /\ scanned' = 0 /\ winner' = NoUe /\ scanning' = TRUE
    BY <1>2 DEF StartScan
  <2>2. 0 <= Len(observable.ues)
    BY <1>0, ObservableTypes
  <2> QED
    BY <1>0, <2>1, <2>2 DEF ScanInv, ScanTypeOK, WinnerContends, WellFormed
<1>3. CASE /\ LookAtUe
           /\ \/ Contends(ScannedUe) /\ winner' = ScannedUe
              \/ winner' = winner
  <2>1. /\ Scanning /\ scanning /\ scanning' = scanning /\ pc' = pc
        /\ observable' = observable /\ step' = step /\ scanned' = scanned + 1
        /\ observable.blocks # <<>>
    BY <1>3 DEF LookAtUe, Scanning
  <2>2. /\ scanned \in Nat /\ scanned + 1 \in DOMAIN observable.ues
        /\ scanned + 1 <= Len(observable.ues)
        /\ ScannedUe = observable.ues[scanned + 1]
        /\ ScannedUe \in UeIds /\ ScannedUe \in Range(observable.ues)
    BY <1>0, <2>1, ScannedUeFacts
  <2>3. Contenders' = Contenders
    BY <2>1 DEF Contenders, Contends
  <2>4. WinnerContends'
    <3> SUFFICES ASSUME winner' # NoUe
                 PROVE  \E i \in Contenders : i <= scanned + 1 /\ winner' = observable.ues[i]
      BY <2>1, <2>3 DEF WinnerContends
    <3>1. CASE Contends(ScannedUe) /\ winner' = ScannedUe
      BY <2>2, <3>1 DEF Contenders
    <3>2. CASE winner' = winner
      <4> PICK i \in Contenders : i <= scanned /\ winner = observable.ues[i]
        BY <2>1, <3>2 DEF ScanInv, WinnerContends
      <4>1. i <= scanned + 1
        BY <1>0, <2>2, ContendersTypes
      <4> QED
        BY <3>2, <4>1
    <3> QED
      BY <1>3, <3>1, <3>2
  <2>5. ScanTypeOK'
    BY <1>0, <1>3, <2>1, <2>2 DEF ScanTypeOK
  <2> QED
    BY <2>1, <2>2, <2>4, <2>5 DEF ScanInv, ScanTypeOK, WellFormed
<1>4. ASSUME NEW state, FinishScan(state) PROVE ScanInv'
  <2>1. /\ Deciding /\ scanning' = FALSE /\ pc' = "commit" /\ pc = "allocate"
        /\ observable' = observable /\ step'.decisions = WinnerTakesAll
        /\ UNCHANGED <<scanned, winner>>
    BY <1>4 DEF FinishScan, AllocateReturns
  <2>2. ValidDecisions(WinnerTakesAll)
    <3>1. CASE winner = NoUe
      BY <3>1 DEF WinnerTakesAll, ValidDecisions, NoBlockTwice
    <3>2. CASE winner # NoUe
      BY <2>1, <3>2, ScanDecides
    <3> QED
      BY <3>1, <3>2
  <2>3. ValidDecisions(step.decisions)'
    BY <2>1, <2>2 DEF ValidDecisions, ValidDecision, NoBlockTwice
  <2> QED
    BY <1>0, <2>1, <2>3 DEF ScanInv, ScanTypeOK, WellFormed
<1>5. CASE UNCHANGED <<loopVars, scanVars>>
  <2>1. Contenders' = Contenders
    BY <1>5 DEF Contenders, Contends
  <2>2. ValidDecisions(step.decisions)' <=> ValidDecisions(step.decisions)
    BY <1>5 DEF ValidDecisions, ValidDecision, NoBlockTwice
  <2> QED
    BY <1>0, <1>5, <2>1, <2>2 DEF ScanInv, ScanTypeOK, WinnerContends, WellFormed
<1> QED
  BY <1>1, <1>2, <1>3, <1>4, <1>5 DEF ScanStep

LEMMA ScanGoesOn ==
    ASSUME ScanInv, ScanStep, AcceptsArguments, OpensWell, pc # "raised"
    PROVE  pc' # "raised" /\ input' = input
<1>1. CASE LoopStep
  BY <1>1, LoopGoesOn DEF ScanInv
<1>2. CASE StartScan \/ LookAtUe \/ UNCHANGED <<loopVars, scanVars>>
  BY <1>2 DEF StartScan, LookAtUe
<1>3. ASSUME NEW state, FinishScan(state) PROVE pc' # "raised" /\ input' = input
  BY <1>3 DEF FinishScan, AllocateReturns
<1> QED
  BY <1>1, <1>2, <1>3 DEF ScanStep

LEMMA ScanOpensPending ==
    ASSUME ScanStep, pc = "between", pc' \in {"allocate", "raised"}
    PROVE  observable'.tti \in pending
<1>1. LoopStep
  BY DEF ScanStep, StartScan, LookAtUe, FinishScan, AllocateReturns
<1> QED
  BY <1>1, OpensPending

----------------------------------------------------------------------------
(***************************************************************************)
(* MaxCQI                                                                  *)
(*                                                                         *)
(* PicksBestChannel speaks of the result; the invariant behind it is that  *)
(* the winner so far is the best of the UEs compared so far.               *)
(***************************************************************************)

LEMMA MaxCqiStepScans == [MaxCqiNext]_maxCqiVars => ScanStep
<1> SUFFICES ASSUME [MaxCqiNext]_maxCqiVars
             PROVE  ScanStep
  OBVIOUS
<1>1. CASE LoopStep /\ UNCHANGED <<scanVars, bestCqi>>
  BY <1>1 DEF ScanStep
<1>2. CASE StartCqiScan
  BY <1>2 DEF StartCqiScan, ScanStep
<1>3. CASE CompareCqi
  BY <1>3 DEF CompareCqi, Leads, ScanStep
<1>4. CASE FinishCqiScan
  BY <1>4 DEF FinishCqiScan, ScanStep
<1>5. CASE UNCHANGED maxCqiVars
  BY <1>5 DEF maxCqiVars, ScanStep
<1> QED
  BY <1>1, <1>2, <1>3, <1>4, <1>5 DEF MaxCqiNext

\* i is the best contender among the first n positions.
BestOfFirst(i, n) ==
    /\ i \in Contenders /\ i <= n
    /\ \A j \in Contenders :
          j <= n => CqiAt(i) > CqiAt(j) \/ (CqiAt(i) = CqiAt(j) /\ i <= j)

WinnerIsBestSoFar ==
    IF winner = NoUe
    THEN \A j \in Contenders : ~(j <= scanned)
    ELSE \E i \in Contenders :
            /\ BestOfFirst(i, scanned)
            /\ winner = observable.ues[i]
            /\ bestCqi = CqiAt(i)

CqiInv ==
    /\ ScanInv
    /\ MaxCqiTypeOK
    /\ scanning => WinnerIsBestSoFar
    /\ PicksBestChannel

LEMMA CqiInvInit == MaxCqiInit => CqiInv
<1> SUFFICES ASSUME MaxCqiInit PROVE CqiInv
  OBVIOUS
<1>1. ScanInv /\ pc = "called" /\ scanning = FALSE /\ winner = NoUe /\ bestCqi = 0
  BY ScanInvInit DEF MaxCqiInit, ScanInit, LoopInit
<1> QED
  BY <1>1 DEF CqiInv, MaxCqiTypeOK, PicksBestChannel, ScanInv, Cqi

LEMMA CqiCompares ==
    ASSUME CqiInv, CompareCqi, ScanInv'
    PROVE  CqiInv'
<1> DEFINE n == scanned + 1
           u == observable.ues[n]
<1>1. /\ scanned \in Nat /\ LoopTypeOK /\ bestCqi \in Cqi
      /\ scanning /\ pc = "allocate" /\ Scanning /\ ScanTypeOK
      /\ WinnerIsBestSoFar
      /\ winner = NoUe <=> bestCqi = 0
  BY DEF CompareCqi, LookAtUe, Scanning, CqiInv, ScanInv, ScanTypeOK, MaxCqiTypeOK
<1>2. /\ scanned' = n /\ ScannedUe = u
      /\ IF Leads(u) THEN bestCqi' = CqiOf(observable, u) /\ winner' = u
         ELSE UNCHANGED <<bestCqi, winner>>
      /\ UNCHANGED <<pc, observable, step, scanning>>
  BY DEF CompareCqi, LookAtUe, ScannedUe
<1>3. n \in DOMAIN observable.ues /\ n \in Nat /\ n <= Len(observable.ues)
      /\ u \in UeIds /\ CqiAt(n) \in Cqi /\ CqiAt(n) = CqiOf(observable, u)
  BY <1>1, <1>2, ScannedUeFacts DEF CqiAt
<1>4. \A j \in Contenders : j <= n <=> j <= scanned \/ j = n
  BY <1>1, ContendersTypes
<1>5. Contends(u) <=> n \in Contenders
  BY <1>3 DEF Contenders
<1>6. Contenders' = Contenders /\ \A j : CqiAt(j)' = CqiAt(j)
  BY <1>2 DEF Contenders, Contends, CqiAt, Backlogged, CqiOf
<1>7. ScanTypeOK' /\ pc' # "commit"
  BY <1>1, <1>2 DEF ScanInv
<1> HIDE DEF n
<1>8. CASE Leads(u)
  <2>1. n \in Contenders /\ CqiAt(n) > bestCqi
    BY <1>3, <1>5, <1>8 DEF Leads
  <2>2. \A j \in Contenders : j <= scanned => CqiAt(n) > CqiAt(j)
    <3> SUFFICES ASSUME NEW j \in Contenders, j <= scanned
                 PROVE  CqiAt(n) > CqiAt(j)
      OBVIOUS
    <3>1. winner # NoUe
      BY <1>1 DEF WinnerIsBestSoFar
    <3> PICK i \in Contenders : BestOfFirst(i, scanned) /\ bestCqi = CqiAt(i)
      BY <3>1, <1>1 DEF WinnerIsBestSoFar
    <3>2. CqiAt(i) > CqiAt(j) \/ CqiAt(i) = CqiAt(j)
      BY DEF BestOfFirst
    <3>3. CqiAt(i) \in 1 .. 15 /\ CqiAt(j) \in 1 .. 15
      BY <1>1, ContendersTypes
    <3>4. CqiAt(n) \in 0 .. 15 /\ bestCqi \in 0 .. 15
      BY <1>1, <1>3 DEF Cqi
    <3> QED
      BY <2>1, <3>2, <3>3, <3>4
  <2>3. BestOfFirst(n, n)
    BY <2>1, <2>2, <1>3, <1>4 DEF BestOfFirst
  <2>4. winner' = u /\ bestCqi' = CqiAt(n) /\ winner' # NoUe
    BY <1>2, <1>3, <1>8, NoUeAssumption
  <2>5. WinnerIsBestSoFar'
    BY <2>1, <2>3, <2>4, <1>2, <1>6 DEF WinnerIsBestSoFar, BestOfFirst
  <2>6. bestCqi' \in Cqi /\ bestCqi' # 0
    BY <2>1, <2>4, <1>1, <1>3 DEF Cqi
  <2> QED
    BY <2>4, <2>5, <2>6, <1>7 DEF CqiInv, PicksBestChannel, MaxCqiTypeOK
<1>9. CASE ~Leads(u)
  <2>1. winner' = winner /\ bestCqi' = bestCqi
    BY <1>2, <1>9
  <2>2. n \in Contenders => CqiAt(n) > 0 /\ CqiAt(n) <= bestCqi
    BY <1>1, <1>3, <1>5, <1>9 DEF Leads, Contends, Cqi
  <2>3. WinnerIsBestSoFar'
    <3>1. CASE winner = NoUe
      <4>1. n \notin Contenders
        BY <2>2, <3>1, <1>1, <1>3 DEF Cqi
      <4>2. \A j \in Contenders : ~(j <= n)
        BY <4>1, <3>1, <1>1, <1>4 DEF WinnerIsBestSoFar
      <4> QED
        BY <4>2, <2>1, <3>1, <1>2, <1>6 DEF WinnerIsBestSoFar
    <3>2. CASE winner # NoUe
      <4> PICK i \in Contenders : /\ BestOfFirst(i, scanned)
                                  /\ winner = observable.ues[i]
                                  /\ bestCqi = CqiAt(i)
        BY <3>2, <1>1 DEF WinnerIsBestSoFar
      <4>1. i <= n /\ i \in Nat
        BY <1>4, ContendersTypes, <1>1 DEF BestOfFirst
      <4>2. ASSUME NEW j \in Contenders, j <= n
            PROVE  CqiAt(i) > CqiAt(j) \/ (CqiAt(i) = CqiAt(j) /\ i <= j)
        <5>1. CASE j <= scanned
          BY <5>1 DEF BestOfFirst
        <5>2. CASE j = n
          <6>1. CqiAt(n) <= CqiAt(i)
            BY <5>2, <2>2
          <6>2. CqiAt(i) \in 1 .. 15 /\ CqiAt(n) \in 1 .. 15
            BY <5>2, <1>1, ContendersTypes
          <6>3. CqiAt(i) > CqiAt(n) \/ CqiAt(i) = CqiAt(n)
            BY <6>1, <6>2
          <6> QED
            BY <6>3, <5>2, <4>1
        <5> QED
          BY <4>2, <5>1, <5>2, <1>4
      <4>3. BestOfFirst(i, n)
        BY <4>1, <4>2 DEF BestOfFirst
      <4> QED
        BY <4>3, <2>1, <3>2, <1>2, <1>6 DEF WinnerIsBestSoFar, BestOfFirst
    <3> QED
      BY <3>1, <3>2
  <2> QED
    BY <2>1, <2>3, <1>1, <1>7 DEF CqiInv, PicksBestChannel, MaxCqiTypeOK
<1> QED
  BY <1>8, <1>9

LEMMA CqiFinishes ==
    ASSUME CqiInv, FinishCqiScan, ScanInv'
    PROVE  CqiInv'
<1>1. /\ Deciding /\ scanning /\ scanning' = FALSE /\ pc' = "commit"
      /\ observable' = observable /\ winner' = winner /\ bestCqi' = bestCqi
      /\ step'.decisions = WinnerTakesAll
      /\ WinnerIsBestSoFar /\ LoopTypeOK /\ ScanInv
  BY DEF FinishCqiScan, FinishScan, AllocateReturns, Deciding, CqiInv, ScanInv, ScanTypeOK
<1>2. /\ scanned \in Nat /\ scanned <= Len(observable.ues)
      /\ observable.blocks = <<>> => scanned = 0
      /\ observable.blocks = <<>> \/ scanned = Len(observable.ues)
  <2>1. observable.blocks = <<>> \/ ~(scanned < Len(observable.ues))
    BY <1>1 DEF Deciding, Scanning
  <2> QED
    BY <2>1, <1>1, ObservableTypes DEF ScanInv, ScanTypeOK
<1>3. /\ Contenders' = Contenders
      /\ \A i : IsBest(i)' <=> IsBest(i)
      /\ ValidDecisions(step.decisions)'
  BY <1>1 DEF Contenders, Contends, IsBest, Backlogged, CqiOf, ScanInv
<1>4. MaxCqiTypeOK'
  BY <1>1 DEF CqiInv, ScanInv, MaxCqiTypeOK
<1>5. PicksBestChannel'
  <2>1. CASE winner = NoUe
    <3>1. step'.decisions = <<>>
      BY <1>1, <2>1 DEF WinnerTakesAll
    <3>2. observable.blocks = <<>> \/ Contenders = {}
      BY <1>1, <1>2, <2>1, ContendersTypes DEF WinnerIsBestSoFar
    <3> QED
      BY <3>1, <3>2, <1>1, <1>3 DEF PicksBestChannel
  <2>2. CASE winner # NoUe
    <3> DEFINE d(i) == [tti |-> observable.tti, ue |-> observable.ues[i],
                        blocks |-> observable.blocks]
    <3>1. PICK i \in Contenders : BestOfFirst(i, scanned) /\ winner = observable.ues[i]
      BY <1>1, <2>2 DEF WinnerIsBestSoFar
    <3>2. observable.blocks # <<>>
      BY <3>1, <1>1, <1>2, ContendersTypes DEF BestOfFirst
    <3>3. IsBest(i)
      BY <3>1, <3>2, <1>1, <1>2, ContendersTypes DEF BestOfFirst, IsBest, CqiAt
    <3>4. step'.decisions = <<d(i)>>
      BY <1>1, <2>2, <3>1 DEF WinnerTakesAll
    <3> HIDE DEF d
    <3>5. d(i)' = d(i)
      BY <1>1 DEF d
    <3> QED
      BY <3>1, <3>2, <3>3, <3>4, <3>5, <1>1, <1>3 DEF PicksBestChannel, d
  <2> QED
    BY <2>1, <2>2
<1> QED
  BY <1>1, <1>4, <1>5 DEF CqiInv

LEMMA CqiInvStep == CqiInv /\ [MaxCqiNext]_maxCqiVars => CqiInv'
<1> SUFFICES ASSUME CqiInv, [MaxCqiNext]_maxCqiVars
             PROVE  CqiInv'
  OBVIOUS
<1>0. ScanInv' /\ ScanTypeOK'
  BY MaxCqiStepScans, ScanInvStep DEF CqiInv, ScanInv
<1>1. CASE LoopStep /\ UNCHANGED <<scanVars, bestCqi>>
  <2>1. scanning' = FALSE
    BY <1>1, NoScanInLoopStep DEF CqiInv, ScanInv
  <2>2. pc' # "commit"
    BY <1>1 DEF LoopStep, RefuseArguments, Raise, Start, OpenTti, RefuseStep,
       CommitTti, Return
  <2> QED
    BY <1>0, <1>1, <2>1, <2>2 DEF CqiInv, PicksBestChannel, MaxCqiTypeOK
<1>2. CASE StartCqiScan
  <2>1. /\ pc' = "allocate" /\ observable' = observable
        /\ scanned' = 0 /\ winner' = NoUe /\ bestCqi' = 0
    BY <1>2 DEF StartCqiScan, StartScan
  <2>2. LoopTypeOK'
    BY <1>0 DEF ScanTypeOK
  <2>3. \A j \in Contenders' : ~(j <= 0)
    <3>1. Contenders' = Contenders /\ LoopTypeOK
      BY <2>1 DEF Contenders, Contends, Backlogged, CqiOf, CqiInv, ScanInv, ScanTypeOK
    <3> QED
      BY <3>1, ContendersTypes
  <2>4. WinnerIsBestSoFar'
    BY <2>1, <2>3 DEF WinnerIsBestSoFar
  <2> QED
    BY <1>0, <2>1, <2>4 DEF CqiInv, PicksBestChannel, MaxCqiTypeOK, Cqi
<1>3. CASE CompareCqi
  BY <1>0, <1>3, CqiCompares
<1>4. CASE FinishCqiScan
  BY <1>0, <1>4, CqiFinishes
<1>5. CASE UNCHANGED maxCqiVars
  <2>1. UNCHANGED <<pc, observable, step, scanning, scanned, bestCqi, winner>>
    BY <1>5 DEF maxCqiVars
  <2>2. /\ Contenders' = Contenders
        /\ \A i : CqiAt(i)' = CqiAt(i)
        /\ \A i : IsBest(i)' <=> IsBest(i)
    BY <2>1 DEF Contenders, Contends, IsBest, Backlogged, CqiOf, CqiAt
  <2>3. WinnerIsBestSoFar' <=> WinnerIsBestSoFar
    BY <2>1, <2>2 DEF WinnerIsBestSoFar, BestOfFirst
  <2>4. ValidDecisions(step.decisions)' <=> ValidDecisions(step.decisions)
    BY <2>1 DEF ValidDecisions, ValidDecision, NoBlockTwice
  <2>5. PicksBestChannel' <=> PicksBestChannel
    BY <2>1, <2>2, <2>4 DEF PicksBestChannel
  <2> QED
    BY <1>0, <2>1, <2>3, <2>5 DEF CqiInv, MaxCqiTypeOK
<1> QED
  BY <1>1, <1>2, <1>3, <1>4, <1>5 DEF MaxCqiNext

\* Types are kept in every run: in particular best_cqi is 0 exactly while
\* there is no served_ue_id.
THEOREM MaxCqiTypes == MaxCqiSpec => []MaxCqiTypeOK
<1>1. CqiInv => MaxCqiTypeOK
  BY DEF CqiInv
<1> QED
  BY <1>1, CqiInvInit, CqiInvStep, PTL DEF MaxCqiSpec

\* MaxCQI in the loop is a run of the loop with some algorithm, so all that is
\* proved of run() with any algorithm holds of it.
THEOREM MaxCqiIsAnAlgorithm == MaxCqiSpec => AnyRun
<1>1. MaxCqiInit => LoopInit
  BY DEF MaxCqiInit, ScanInit
<1>2. CqiInv /\ [MaxCqiNext]_maxCqiVars => [AnyNext]_loopVars
  BY MaxCqiStepScans, ScanStepOfAnyRun DEF CqiInv, ScanInv
<1> QED
  BY <1>1, <1>2, CqiInvInit, CqiInvStep, PTL DEF MaxCqiSpec, AnyRun

\* In every TTI MaxCQI gives all blocks to the contender with the highest CQI,
\* the first in canonical order on a tie, decides nothing exactly when nobody
\* contends or there is no block, and the loop accepts what it decides.
THEOREM MaxCqiPicksBest == MaxCqiSpec => []PicksBestChannel
<1>1. CqiInv => PicksBestChannel
  BY DEF CqiInv
<1> QED
  BY <1>1, CqiInvInit, CqiInvStep, PTL DEF MaxCqiSpec

----------------------------------------------------------------------------
(***************************************************************************)
(* Powers, products and scaled sums                                        *)
(*                                                                         *)
(* Power is a recursive function: that its equation holds takes a table of *)
(* the powers up to every n, by induction over n.                          *)
(***************************************************************************)

\* A class of natural numbers has a least member, so induction holds.
LEMMA Least ==
    ASSUME NEW S \in SUBSET Nat, S # {}
    PROVE  \E m \in S : \A k \in S : m <= k
<1>1. PICK m \in S : \A k \in S : ~(<<k, m>> \in OpToRel(<, Nat))
  BY NatLessThanWellFounded, WFMin, Zenon
<1>2. \A k \in S : ~(k < m)
  BY <1>1 DEF OpToRel
<1> QED
  BY <1>2

LEMMA Induction ==
    ASSUME NEW S \in SUBSET Nat, 0 \in S, \A n \in S : n + 1 \in S
    PROVE  S = Nat
<1> DEFINE T == Nat \ S
<1> SUFFICES ASSUME T # {} PROVE FALSE
  OBVIOUS
<1>1. PICK m \in T : \A k \in T : m <= k
  <2>1. T \in SUBSET Nat
    OBVIOUS
  <2> HIDE DEF T
  <2> QED
    BY <2>1, Least, Zenon
<1>2. m # 0 /\ m - 1 \in Nat
  OBVIOUS
<1>3. m - 1 \in S
  BY <1>1, <1>2
<1> QED
  BY <1>2, <1>3

\* g holds the powers of b up to n.
ArePowers(g, b, n) ==
    g = [k \in 0 .. n |-> IF k = 0 THEN 1 ELSE b * g[k - 1]]

LEMMA PowersExist ==
    ASSUME NEW b \in Nat, NEW n \in Nat
    PROVE  \E g : ArePowers(g, b, n)
<1> DEFINE S == {m \in Nat : \E g : ArePowers(g, b, m)}
<1>1. 0 \in S
  <2> DEFINE g == [k \in 0 .. 0 |-> 1]
  <2>1. ArePowers(g, b, 0)
    BY DEF ArePowers
  <2> QED
    BY <2>1
<1>2. ASSUME NEW m \in S PROVE m + 1 \in S
  <2> PICK g : ArePowers(g, b, m)
    BY <1>2
  <2> DEFINE h == [k \in 0 .. m + 1 |-> IF k = m + 1 THEN b * g[m] ELSE g[k]]
             A(k) == IF k = m + 1 THEN b * g[m] ELSE g[k]
             B(k) == IF k = 0 THEN 1 ELSE b * h[k - 1]
  <2>1. ASSUME NEW k \in 0 .. m + 1 PROVE A(k) = B(k)
    <3>1. CASE k = m + 1
      <4>1. k - 1 = m /\ k # 0 /\ h[m] = g[m]
        BY <3>1
      <4> HIDE DEF h
      <4> QED
        BY <3>1, <4>1
    <3>2. CASE k # m + 1
      <4>1. k \in 0 .. m /\ (k # 0 => h[k - 1] = g[k - 1])
        BY <3>2
      <4>2. g[k] = IF k = 0 THEN 1 ELSE b * g[k - 1]
        BY <4>1 DEF ArePowers
      <4> HIDE DEF h
      <4> QED
        BY <3>2, <4>1, <4>2
    <3> QED
      BY <3>1, <3>2
  <2>2. h = [k \in 0 .. m + 1 |-> A(k)]
    OBVIOUS
  <2>3. h = [k \in 0 .. m + 1 |-> B(k)]
    <3> HIDE DEF A, B, h
    <3> QED
      BY <2>1, <2>2
  <2>4. ArePowers(h, b, m + 1)
    <3> HIDE DEF h
    <3> QED
      BY <2>3 DEF ArePowers
  <2> HIDE DEF h
  <2> QED
    BY <2>4
<1>3. S = Nat
  <2>1. S \in SUBSET Nat
    OBVIOUS
  <2> HIDE DEF S
  <2> QED
    BY <1>1, <1>2, <2>1, Induction
<1> QED
  BY <1>3

LEMMA PowersAgree ==
    ASSUME NEW b \in Nat, NEW m \in Nat, NEW n \in Nat, NEW g, NEW h,
           ArePowers(g, b, m), ArePowers(h, b, n), NEW j \in 0 .. m, j <= n
    PROVE  g[j] = h[j]
<1> DEFINE S == {k \in Nat : k <= m /\ k <= n => g[k] = h[k]}
<1>1. \A k \in Nat : k <= m => g[k] = IF k = 0 THEN 1 ELSE b * g[k - 1]
  BY DEF ArePowers
<1>2. \A k \in Nat : k <= n => h[k] = IF k = 0 THEN 1 ELSE b * h[k - 1]
  BY DEF ArePowers
<1>3. 0 \in S
  BY <1>1, <1>2
<1>4. ASSUME NEW k \in S PROVE k + 1 \in S
  <2>1. CASE k + 1 <= m /\ k + 1 <= n
    <3>1. g[k] = h[k] /\ k \in Nat
      BY <2>1
    <3>2. g[k + 1] = b * g[k] /\ h[k + 1] = b * h[k]
      BY <2>1, <3>1, <1>1, <1>2
    <3> QED
      BY <3>1, <3>2
  <2>2. CASE ~(k + 1 <= m /\ k + 1 <= n)
    BY <2>2
  <2> QED
    BY <2>1, <2>2
<1>5. S = Nat
  <2>1. S \in SUBSET Nat
    OBVIOUS
  <2> HIDE DEF S
  <2> QED
    BY <1>3, <1>4, <2>1, Induction
<1> QED
  BY <1>5

\* What the recursive function in Power computes.
LEMMA PowerFacts ==
    ASSUME NEW b \in Nat, b > 0
    PROVE  /\ Power(b, 0) = 1
           /\ \A n \in Nat : Power(b, n + 1) = b * Power(b, n)
           /\ \A n \in Nat : Power(b, n) \in Nat /\ Power(b, n) > 0
<1> DEFINE IsPower(p) == p = [k \in Nat |-> IF k = 0 THEN 1 ELSE b * p[k - 1]]
           G(n) == CHOOSE g : ArePowers(g, b, n)
           p == [k \in Nat |-> G(k)[k]]
           A(k) == G(k)[k]
           B(k) == IF k = 0 THEN 1 ELSE b * p[k - 1]
<1>1. \A n \in Nat : ArePowers(G(n), b, n)
  BY PowersExist
<1>2. ASSUME NEW k \in Nat PROVE A(k) = B(k)
  <2>1. G(k)[k] = IF k = 0 THEN 1 ELSE b * G(k)[k - 1]
    <3>1. ArePowers(G(k), b, k) /\ k \in 0 .. k
      BY <1>1
    <3> HIDE DEF G
    <3> QED
      BY <3>1 DEF ArePowers
  <2>2. CASE k = 0
    BY <2>1, <2>2
  <2>3. CASE k # 0
    <3>1. k - 1 \in Nat /\ k - 1 \in 0 .. k /\ k - 1 <= k - 1
      BY <2>3
    <3>2. ArePowers(G(k), b, k) /\ ArePowers(G(k - 1), b, k - 1)
      BY <1>1, <3>1
    <3>3. G(k)[k - 1] = G(k - 1)[k - 1]
      <4> HIDE DEF G
      <4> QED
        BY <3>1, <3>2, PowersAgree
    <3>4. p[k - 1] = G(k - 1)[k - 1]
      BY <3>1
    <3> HIDE DEF G, p
    <3> QED
      BY <2>1, <2>3, <3>3, <3>4
  <2> QED
    BY <2>2, <2>3
<1>3. IsPower(p)
  <2>1. p = [k \in Nat |-> B(k)]
    <3>1. p = [k \in Nat |-> A(k)]
      OBVIOUS
    <3> HIDE DEF A, B, p
    <3> QED
      BY <1>2, <3>1
  <2> HIDE DEF p
  <2> QED
    BY <2>1
<1> DEFINE q == CHOOSE f : IsPower(f)
<1>4. IsPower(q)
  <2> HIDE DEF IsPower, p
  <2> QED
    BY <1>3
<1>5. \A n : Power(b, n) = q[n]
  BY DEF Power
<1> HIDE DEF q
<1>6. \A k \in Nat : q[k] = IF k = 0 THEN 1 ELSE b * q[k - 1]
  BY <1>4
<1>7. q[0] = 1 /\ \A n \in Nat : q[n + 1] = b * q[n]
  <2>1. ASSUME NEW n \in Nat PROVE q[n + 1] = b * q[n]
    <3>1. n + 1 \in Nat /\ n + 1 # 0 /\ (n + 1) - 1 = n
      OBVIOUS
    <3> HIDE DEF IsPower
    <3> QED
      BY <1>6, <3>1
  <2> QED
    BY <1>6, <2>1
<1> DEFINE S == {n \in Nat : q[n] \in Nat /\ q[n] > 0}
<1>8. S = Nat
  <2>1. S \in SUBSET Nat /\ 0 \in S
    BY <1>7
  <2>2. ASSUME NEW n \in S PROVE n + 1 \in S
    <3>1. q[n + 1] = b * q[n] /\ q[n] \in Nat /\ q[n] > 0
      BY <1>7
    <3>2. b * q[n] \in Nat /\ b * q[n] > 0
      BY <3>1
    <3> QED
      BY <3>1, <3>2
  <2> HIDE DEF S
  <2> QED
    BY <2>1, <2>2, Induction
<1>9. \A n \in Nat : q[n] \in Nat /\ q[n] > 0
  BY <1>8
<1> HIDE DEF IsPower, S
<1> QED
  BY <1>5, <1>7, <1>9

\* Products keep the order of a factor.
LEMMA TimesKeepsOrder ==
    ASSUME NEW p \in Nat, NEW q \in Nat, NEW r \in Nat, p <= q
    PROVE  p * r <= q * r
<1>1. PICK d \in Nat : q = p + d
  <2>1. q - p \in Nat /\ q = p + (q - p)
    OBVIOUS
  <2> QED
    BY <2>1
<1>2. q * r = p * r + d * r
  BY <1>1
<1>3. p * r \in Nat /\ d * r \in Nat
  OBVIOUS
<1> QED
  BY <1>2, <1>3

\* A factor on both sides can be taken away.
LEMMA FactorGoes ==
    ASSUME NEW p \in Nat, NEW q \in Nat, NEW r \in Nat, r > 0, p * r <= q * r
    PROVE  p <= q
<1> SUFFICES ASSUME q < p PROVE FALSE
  OBVIOUS
<1>1. (q + 1) * r <= p * r
  BY TimesKeepsOrder
<1>2. (q + 1) * r = q * r + r
  OBVIOUS
<1>3. p * r \in Nat /\ q * r \in Nat
  OBVIOUS
<1> QED
  BY <1>1, <1>2, <1>3

\* From x / a <= y / b and y / b <= z / c follows x / a <= z / c, in products.
LEMMA RatiosCompose ==
    ASSUME NEW a \in Nat, NEW b \in Nat, NEW c \in Nat, b > 0,
           NEW x \in Nat, NEW y \in Nat, NEW z \in Nat,
           x * b <= y * a, y * c <= z * b
    PROVE  x * c <= z * a
<1>1. /\ x * b \in Nat /\ y * a \in Nat /\ y * c \in Nat /\ z * b \in Nat
      /\ x * c \in Nat /\ z * a \in Nat
  OBVIOUS
<1>2. (x * b) * c <= (y * a) * c
  BY <1>1, TimesKeepsOrder
<1>3. (y * c) * a <= (z * b) * a
  BY <1>1, TimesKeepsOrder
<1>4. /\ (x * b) * c = (x * c) * b
      /\ (y * a) * c = (y * c) * a
      /\ (z * b) * a = (z * a) * b
  OBVIOUS
<1>5. (x * c) * b <= (z * a) * b
  <2>1. (x * c) * b \in Nat /\ (y * c) * a \in Nat /\ (z * a) * b \in Nat
    BY <1>1
  <2> QED
    BY <1>2, <1>3, <1>4, <2>1
<1> QED
  BY <1>1, <1>5, FactorGoes

\* A common factor of all summands.
LEMMA SumScaled ==
    ASSUME NEW f, NEW g, NEW c \in Nat, NEW S, IsFiniteSet(S),
           \A x \in S : f[x] \in Nat /\ g[x] = c * f[x]
    PROVE  SumFunctionOnSet(g, S) = c * SumFunctionOnSet(f, S)
<1> DEFINE C == {V \in SUBSET S : SumFunctionOnSet(g, V) # c * SumFunctionOnSet(f, V)}
<1> SUFFICES ASSUME C # {} PROVE FALSE
  OBVIOUS
<1>1. PICK V \in C : \A W \in SUBSET V : W # V => W \notin C
  <2>1. C \in SUBSET (SUBSET S)
    OBVIOUS
  <2> HIDE DEF C
  <2> QED
    BY <2>1, SmallestSubset, Zenon
<1>2. /\ IsFiniteSet(V) /\ V \in SUBSET S
      /\ SumFunctionOnSet(g, V) # c * SumFunctionOnSet(f, V)
  BY FS_Subset
<1>3. V # {}
  <2>1. c * 0 = 0
    OBVIOUS
  <2>2. SumFunctionOnSet(f, {}) = 0 /\ SumFunctionOnSet(g, {}) = 0
    BY EmptySum
  <2> QED
    BY <1>2, <2>1, <2>2
<1> DEFINE x == Pick(V)
           W == V \ {x}
<1>4. x \in V /\ f[x] \in Nat /\ g[x] = c * f[x]
  BY <1>2, <1>3, PickIsMember
<1>5. SumFunctionOnSet(g, W) = c * SumFunctionOnSet(f, W)
  BY <1>1, <1>2, <1>4
<1>6. SumFunctionOnSet(f, W) \in Nat
  <2>1. IsFiniteSet(W) /\ \A y \in W : f[y] \in Nat
    BY <1>2, FS_Subset
  <2> HIDE DEF W
  <2> QED
    BY <2>1, SumIsNat
<1>7. /\ SumFunctionOnSet(f, V) = f[x] + SumFunctionOnSet(f, W)
      /\ SumFunctionOnSet(g, V) = g[x] + SumFunctionOnSet(g, W)
  BY <1>2, <1>3, SumEquation
<1>8. c * (f[x] + SumFunctionOnSet(f, W)) = c * f[x] + c * SumFunctionOnSet(f, W)
  <2>1. \A p, q \in Nat : c * (p + q) = c * p + c * q
    OBVIOUS
  <2> QED
    BY <2>1, <1>4, <1>6
<1> HIDE DEF x, W
<1> QED
  BY <1>2, <1>4, <1>5, <1>7, <1>8

----------------------------------------------------------------------------
(***************************************************************************)
(* ProportionalFair                                                        *)
(*                                                                         *)
(* Behind BestScoreWins and OnlyOverflowPassesTheNeverServed are two       *)
(* facts: the winner so far is a maximum of the scores compared so far,    *)
(* for which "no worse than" has to be transitive, and an average is 0     *)
(* exactly for a UE that no recorded decision serves.                      *)
(***************************************************************************)

LEMMA FairStepScans == [FairNext]_fairVars => ScanStep
<1> SUFFICES ASSUME [FairNext]_fairVars
             PROVE  ScanStep
  OBVIOUS
<1>1. CASE LoopStep /\ UNCHANGED <<scanVars, serviceLog>>
  BY <1>1 DEF ScanStep
<1>2. CASE StartFairScan
  BY <1>2 DEF StartFairScan, ScanStep
<1>3. CASE CompareScores
  BY <1>3 DEF CompareScores, MayLead, ScanStep
<1>4. CASE FinishFairScan
  BY <1>4 DEF FinishFairScan, ScanStep
<1>5. CASE UNCHANGED fairVars
  BY <1>5 DEF fairVars, ScanStep
<1> QED
  BY <1>1, <1>2, <1>3, <1>4, <1>5 DEF FairNext

\* A scheduler state's entry of u.
AverageIn(state, u) == IF u \in DOMAIN state THEN state[u] ELSE 0

\* The winner so far is a maximum of the scores compared so far, and the first
\* UE whose score is infinite if there is one.
WinnerIsUnbeaten ==
    IF winner = NoUe
    THEN \A j \in Contenders : ~(j <= scanned)
    ELSE /\ \A j \in Contenders :
               j <= scanned => ~Outscores(observable.ues[j], winner)
         /\ \E i \in Contenders :
               /\ i <= scanned
               /\ winner = observable.ues[i]
               /\ ScoreIsInfinite(winner) =>
                     \A j \in Contenders : ScoreIsInfinite(observable.ues[j]) => i <= j

FairInv ==
    /\ ScanInv
    /\ InitialState = [u \in {} |-> 0]
    /\ schedulerState \in [DOMAIN schedulerState -> Nat]
    /\ pc \in {"allocate", "commit"} => observable.ues = input.ues
    /\ \A u \in Range(input.ues) :
          Average(u) = 0 <=> u \notin ServedBy(allDecisions)
    /\ pc = "commit" =>
          /\ step.state \in [DOMAIN step.state -> Nat]
          /\ \A u \in Range(input.ues) :
                AverageIn(step.state, u) = 0 <=>
                    u \notin ServedBy(allDecisions \o step.decisions)
    /\ scanning => WinnerIsUnbeaten

LEMMA ScoreTypes ==
    ASSUME LoopTypeOK, schedulerState \in [DOMAIN schedulerState -> Nat],
           NEW u \in UeIds
    PROVE  Average(u) \in Nat /\ CqiOf(observable, u) \in Nat
<1>1. Average(u) \in Nat
  BY DEF Average
<1>2. CqiOf(observable, u) \in 0 .. 15
  BY ObservableTypes DEF Cqi
<1> QED
  BY <1>1, <1>2

\* Who may take the lead from the winner is not outscored by whom the winner
\* was not outscored by.
LEMMA LeaderIsUnbeaten ==
    ASSUME LoopTypeOK, schedulerState \in [DOMAIN schedulerState -> Nat],
           NEW x \in UeIds, NEW y \in UeIds, NEW z \in UeIds,
           ~Outscores(x, y), Outscores(z, y) \/ Ties(z, y)
    PROVE  ~Outscores(x, z)
<1> DEFINE cx == CqiOf(observable, x)
           cy == CqiOf(observable, y)
           cz == CqiOf(observable, z)
<1>1. /\ cx \in Nat /\ cy \in Nat /\ cz \in Nat
      /\ Average(x) \in Nat /\ Average(y) \in Nat /\ Average(z) \in Nat
  BY ScoreTypes
<1>2. /\ cx * Average(y) \in Nat /\ cy * Average(x) \in Nat
      /\ cy * Average(z) \in Nat /\ cz * Average(y) \in Nat
      /\ cx * Average(z) \in Nat /\ cz * Average(x) \in Nat
  BY <1>1
<1> SUFFICES ASSUME ~ScoreIsInfinite(z)
             PROVE  /\ ~ScoreIsInfinite(x)
                    /\ ~(cx * Average(z) > cz * Average(x))
  BY DEF Outscores
<1>3. /\ ~ScoreIsInfinite(y) /\ ~ScoreIsInfinite(x) /\ Average(y) # 0
      /\ ~(cx * Average(y) > cy * Average(x))
  <2>1. /\ ~ScoreIsInfinite(y) /\ ~ScoreIsInfinite(x)
        /\ ~(cx * Average(y) > cy * Average(x))
    BY DEF Outscores, Ties
  <2> QED
    BY <2>1 DEF ScoreIsInfinite
<1>4. \/ cz * Average(y) > cy * Average(z)
      \/ cz * Average(y) = cy * Average(z)
  BY DEF Outscores, Ties
<1>5. cx * Average(y) <= cy * Average(x) /\ cy * Average(z) <= cz * Average(y)
  <2> HIDE DEF cx, cy, cz
  <2> QED
    BY <1>2, <1>3, <1>4
<1>6. cx * Average(z) <= cz * Average(x)
  <2>1. Average(y) > 0
    BY <1>1, <1>3
  <2> HIDE DEF cx, cy, cz
  <2> QED
    BY <1>1, <1>5, <2>1, RatiosCompose
<1> HIDE DEF cx, cy, cz
<1> QED
  BY <1>2, <1>3, <1>6

\* A UE's own score is no greater than itself.
LEMMA OwnScore ==
    ASSUME LoopTypeOK, schedulerState \in [DOMAIN schedulerState -> Nat],
           NEW u \in UeIds
    PROVE  ~Outscores(u, u)
<1>1. CqiOf(observable, u) * Average(u) \in Nat
  BY ScoreTypes
<1> QED
  BY <1>1 DEF Outscores

LEMMA ServedByConcat ==
    ASSUME NEW s \in Decisions, NEW t \in Decisions
    PROVE  ServedBy(s \o t) = ServedBy(s) \cup ServedBy(t)
<1>1. Range(s \o t) = Range(s) \cup Range(t)
  BY RangeConcatenation DEF Decisions
<1> QED
  BY <1>1 DEF ServedBy

LEMMA FairInvInit == FairInit => FairInv
<1> SUFFICES ASSUME FairInit PROVE FairInv
  OBVIOUS
<1>1. /\ ScanInv /\ pc = "called" /\ scanning = FALSE
      /\ InitialState = [u \in {} |-> 0] /\ schedulerState = InitialState
      /\ allDecisions = <<>>
  BY ScanInvInit DEF FairInit, ScanInit, LoopInit
<1>2. schedulerState \in [DOMAIN schedulerState -> Nat] /\ DOMAIN schedulerState = {}
  BY <1>1
<1>3. ServedBy(allDecisions) = {}
  BY <1>1 DEF ServedBy, Range
<1>4. \A u \in Range(input.ues) : Average(u) = 0 <=> u \notin ServedBy(allDecisions)
  BY <1>2, <1>3 DEF Average
<1> QED
  BY <1>1, <1>2, <1>4 DEF FairInv

LEMMA UnbeatenStep ==
    ASSUME FairInv, CompareScores, ScanInv'
    PROVE  WinnerIsUnbeaten'
<1> DEFINE n == scanned + 1
           u == observable.ues[n]
<1>1. /\ scanned \in Nat /\ LoopTypeOK /\ scanning /\ Scanning /\ ScanTypeOK
      /\ WinnerContends /\ WinnerIsUnbeaten
      /\ schedulerState \in [DOMAIN schedulerState -> Nat]
  BY DEF CompareScores, LookAtUe, Scanning, FairInv, ScanInv, ScanTypeOK
<1>2. /\ scanned' = n /\ ScannedUe = u
      /\ \/ MayLead(u) /\ winner' = u
         \/ MayTrail(u) /\ winner' = winner
      /\ UNCHANGED <<observable, schedulerState, calls>>
  BY DEF CompareScores, LookAtUe, ScannedUe
<1>3. n \in DOMAIN observable.ues /\ n \in Nat /\ u \in UeIds /\ u # NoUe
  BY <1>1, <1>2, ScannedUeFacts
<1>4. \A j \in Contenders : j <= n <=> j <= scanned \/ j = n
  BY <1>1, ContendersTypes
<1>5. Contends(u) <=> n \in Contenders
  BY <1>3 DEF Contenders
<1>6. /\ Contenders' = Contenders
      /\ \A x : ScoreIsInfinite(x)' <=> ScoreIsInfinite(x)
      /\ \A x, y : Outscores(x, y)' <=> Outscores(x, y)
  BY <1>2 DEF Contenders, Contends, Average, ScoreIsInfinite, Outscores, Backlogged, CqiOf
<1>7. \A j \in Contenders : j \in Nat /\ observable.ues[j] \in UeIds
  BY <1>1, ContendersTypes
<1>8. \A x, y : ScoreIsInfinite(x) /\ ~Outscores(x, y) => ScoreIsInfinite(y)
  BY DEF Outscores
<1> HIDE DEF n
<1>9. CASE MayLead(u) /\ winner' = u
  <2>1. n \in Contenders /\ (winner = NoUe \/ Outscores(u, winner) \/ Ties(u, winner))
    BY <1>5, <1>9 DEF MayLead
  <2>2. ASSUME NEW j \in Contenders, j <= scanned
        PROVE  /\ ~Outscores(observable.ues[j], u)
               /\ ~ScoreIsInfinite(observable.ues[j])
    <3>1. winner # NoUe
      BY <1>1, <2>2 DEF WinnerIsUnbeaten
    <3>2. ~Outscores(observable.ues[j], winner) /\ winner \in UeIds
      BY <1>1, <2>2, <3>1 DEF WinnerIsUnbeaten, ScanTypeOK
    <3>3. ~ScoreIsInfinite(winner)
      BY <2>1, <3>1 DEF Outscores, Ties
    <3> QED
      BY <1>1, <1>3, <1>7, <1>8, <2>1, <2>2, <3>1, <3>2, <3>3, LeaderIsUnbeaten
  <2>3. ~Outscores(u, u)
    BY <1>1, <1>3, OwnScore
  <2>4. \A j \in Contenders : j <= n => ~Outscores(observable.ues[j], u)
    BY <1>4, <2>2, <2>3
  <2>5. \A j \in Contenders : ScoreIsInfinite(observable.ues[j]) => n <= j
    BY <1>1, <1>3, <1>7, <2>2 DEF n
  <2>6. n <= n
    BY <1>3
  <2> QED
    BY <1>2, <1>3, <1>6, <1>9, <2>1, <2>4, <2>5, <2>6 DEF WinnerIsUnbeaten
<1>10. CASE MayTrail(u) /\ winner' = winner
  <2>1. CASE winner = NoUe
    <3>1. n \notin Contenders
      BY <1>5, <1>10, <2>1 DEF MayTrail
    <3> QED
      BY <1>1, <1>2, <1>4, <1>6, <1>10, <2>1, <3>1 DEF WinnerIsUnbeaten
  <2>2. CASE winner # NoUe
    <3>1. \A j \in Contenders : j <= n => ~Outscores(observable.ues[j], winner)
      BY <1>1, <1>4, <1>5, <1>10, <2>2 DEF WinnerIsUnbeaten, MayTrail
    <3>2. PICK i \in Contenders :
             /\ i <= scanned
             /\ winner = observable.ues[i]
             /\ ScoreIsInfinite(winner) =>
                   \A j \in Contenders : ScoreIsInfinite(observable.ues[j]) => i <= j
      BY <1>1, <2>2 DEF WinnerIsUnbeaten
    <3>3. i <= n
      BY <1>4, <3>2
    <3> QED
      BY <1>2, <1>6, <1>10, <2>2, <3>1, <3>2, <3>3 DEF WinnerIsUnbeaten
  <2> QED
    BY <2>1, <2>2
<1> QED
  BY <1>2, <1>9, <1>10

\* The decayed average and what was achieved are both 0 or the new average is
\* not.
LEMMA WeightedSum ==
    ASSUME NEW p \in Nat, NEW q \in Nat, NEW r \in Nat, r > 0
    PROVE  /\ 9 * p + q * r \in Nat
           /\ 9 * p + q * r = 0 <=> p = 0 /\ q = 0
<1>1. q * r \in Nat /\ 9 * p \in Nat /\ (q = 0 => q * r = 0)
  OBVIOUS
<1>2. q > 0 => q * r > 0
  <2> SUFFICES ASSUME q > 0 PROVE q * r > 0
    OBVIOUS
  <2>1. 1 * r <= q * r
    BY TimesKeepsOrder
  <2> QED
    BY <1>1, <2>1
<1> QED
  BY <1>1, <1>2

\* The scheduler state a finished scan hands on.
LEMMA NewAveragesFacts ==
    ASSUME FairInv, Deciding
    PROVE  /\ NewAverages \in [DOMAIN NewAverages -> Nat]
           /\ \A u \in Range(input.ues) :
                 /\ AverageIn(NewAverages, u) =
                       9 * Average(u) + Achieved(u) * Power(10, Len(calls))
                 /\ Average(u) \in Nat /\ Achieved(u) \in Nat
                 /\ Achieved(u) > 0 <=> u \in ServedBy(WinnerTakesAll)
                 /\ AverageIn(NewAverages, u) = 0 <=>
                       Average(u) = 0 /\ u \notin ServedBy(WinnerTakesAll)
<1>1. /\ LoopTypeOK /\ ScanInv /\ observable.ues = input.ues
      /\ schedulerState \in [DOMAIN schedulerState -> Nat]
  BY DEF Deciding, FairInv, ScanInv, ScanTypeOK
<1>2. \A u \in Range(input.ues) : u \in UeIds /\ u # NoUe
  BY <1>1, ObservableTypes, NoUeAssumption DEF Range
<1>3. Len(calls) \in Nat /\ Power(10, Len(calls)) \in Nat /\ Power(10, Len(calls)) > 0
  <2>1. calls \in Seq(Nat)
    BY <1>1 DEF LoopTypeOK
  <2>2. Len(calls) \in Nat
    BY <2>1, LenProperties
  <2>3. 10 \in Nat /\ 10 > 0
    OBVIOUS
  <2> QED
    BY <2>2, <2>3, PowerFacts
<1>4. ASSUME NEW u \in Range(input.ues)
      PROVE  /\ Average(u) \in Nat /\ Achieved(u) \in Nat
             /\ Achieved(u) > 0 <=> u \in ServedBy(WinnerTakesAll)
  <2>1. Average(u) \in Nat /\ CqiOf(observable, u) \in Nat
    BY <1>1, <1>2, ScoreTypes
  <2>2. CASE winner = NoUe
    <3>1. ServedBy(WinnerTakesAll) = {}
      BY <2>2 DEF WinnerTakesAll, ServedBy, Range
    <3> QED
      BY <1>2, <2>1, <2>2, <3>1 DEF Achieved
  <2>3. CASE winner # NoUe
    <3>1. ServedBy(WinnerTakesAll) = {winner} /\ CqiOf(observable, winner) \in 1 .. 15
      BY <1>1, <2>3, ScanDecides
    <3> QED
      BY <2>1, <3>1 DEF Achieved
  <2> QED
    BY <2>2, <2>3
<1> DEFINE New(u) == 9 * Average(u) + Achieved(u) * Power(10, Len(calls))
<1>5. ASSUME NEW u \in Range(input.ues)
      PROVE  New(u) \in Nat /\ (New(u) = 0 <=> Average(u) = 0 /\ Achieved(u) = 0)
  <2>1. Average(u) \in Nat /\ Achieved(u) \in Nat
    BY <1>4
  <2> QED
    BY <1>3, <2>1, WeightedSum
<1>6. NewAverages = [u \in Range(input.ues) |-> New(u)]
  BY <1>1 DEF NewAverages
<1> HIDE DEF New
<1>7. /\ NewAverages \in [DOMAIN NewAverages -> Nat]
      /\ \A u \in Range(input.ues) : AverageIn(NewAverages, u) = New(u)
  BY <1>5, <1>6 DEF AverageIn
<1>8. \A u \in Range(input.ues) :
         New(u) = 0 <=> Average(u) = 0 /\ u \notin ServedBy(WinnerTakesAll)
  <2>1. \A u \in Range(input.ues) : Achieved(u) = 0 <=> ~(Achieved(u) > 0)
    BY <1>4
  <2> QED
    BY <1>4, <1>5, <2>1
<1> QED
  BY <1>4, <1>7, <1>8 DEF New

LEMMA FairFinishes ==
    ASSUME FairInv, FinishFairScan, ScanInv'
    PROVE  FairInv'
<1>1. /\ Deciding /\ pc = "allocate" /\ pc' = "commit" /\ scanning' = FALSE
      /\ step' = [decisions |-> WinnerTakesAll, state |-> NewAverages]
      /\ UNCHANGED <<input, observable, schedulerState, allDecisions>>
  BY DEF FinishFairScan, FinishScan, AllocateReturns
<1>2. /\ LoopTypeOK /\ ScanTypeOK /\ observable.ues = input.ues
  BY <1>1 DEF FairInv, ScanInv, ScanTypeOK
<1>3. step'.decisions = WinnerTakesAll /\ step'.state = NewAverages
  BY <1>1
<1>4. \A u : Average(u)' = Average(u)
  BY <1>1 DEF Average
<1>5. ServedBy(allDecisions \o WinnerTakesAll)
        = ServedBy(allDecisions) \cup ServedBy(WinnerTakesAll)
  BY <1>2, WinnerTakesAllType, ServedByConcat DEF LoopTypeOK
<1>6. ASSUME NEW u \in Range(input.ues)
      PROVE  AverageIn(NewAverages, u) = 0 <=>
                u \notin ServedBy(allDecisions \o WinnerTakesAll)
  <2>1. Average(u) = 0 <=> u \notin ServedBy(allDecisions)
    BY DEF FairInv
  <2>2. AverageIn(NewAverages, u) = 0 <=>
           Average(u) = 0 /\ u \notin ServedBy(WinnerTakesAll)
    BY <1>1, NewAveragesFacts
  <2> QED
    BY <1>5, <2>1, <2>2
<1>7. step'.state \in [DOMAIN step'.state -> Nat]
  BY <1>1, <1>3, NewAveragesFacts
<1>8. \A u \in Range(input'.ues) :
         AverageIn(step'.state, u) = 0 <=>
            u \notin ServedBy(allDecisions' \o step'.decisions)
  BY <1>1, <1>3, <1>6
<1>9. \A u \in Range(input'.ues) : Average(u)' = 0 <=> u \notin ServedBy(allDecisions')
  BY <1>1, <1>4 DEF FairInv
<1>10. /\ InitialState = [u \in {} |-> 0]
       /\ schedulerState' \in [DOMAIN schedulerState' -> Nat]
       /\ observable'.ues = input'.ues
  BY <1>1, <1>2 DEF FairInv
<1> QED
  BY <1>1, <1>7, <1>8, <1>9, <1>10 DEF FairInv, AverageIn, ServedBy

\* What a step of the loop does to the averages and the recorded decisions.
LEMMA FairLoopSteps ==
    ASSUME FairInv, LoopStep, UNCHANGED <<scanVars, serviceLog>>, ScanInv'
    PROVE  FairInv'
<1>0. /\ LoopTypeOK /\ scanning' = FALSE /\ input' = input
      /\ InitialState = [u \in {} |-> 0]
  <2>1. LoopTypeOK /\ scanning = FALSE
    BY NoScanInLoopStep DEF FairInv, ScanInv, ScanTypeOK
  <2>2. input' = input
    BY DEF LoopStep, RefuseArguments, Start, OpenTti, RefuseStep, CommitTti, Return
  <2> QED
    BY <2>1, <2>2 DEF FairInv
<1>1. CASE Start
  <2>1. /\ pc' = "between" /\ schedulerState' = InitialState /\ allDecisions' = <<>>
    BY <1>1 DEF Start
  <2>2. schedulerState' \in [DOMAIN schedulerState' -> Nat] /\ DOMAIN schedulerState' = {}
    BY <1>0, <2>1
  <2>3. ServedBy(allDecisions') = {}
    BY <2>1 DEF ServedBy, Range
  <2>4. \A u \in Range(input') : Average(u)' = 0
    BY <2>2 DEF Average
  <2>5. \A u \in Range(input'.ues) : Average(u)' = 0 <=> u \notin ServedBy(allDecisions')
    BY <2>2, <2>3 DEF Average
  <2> QED
    BY <1>0, <2>1, <2>2, <2>5 DEF FairInv, ServedBy
<1>2. CASE CommitTti
  <2>1. /\ pc = "commit" /\ pc' = "between" /\ schedulerState' = step.state
        /\ allDecisions' = allDecisions \o step.decisions
    BY <1>2 DEF CommitTti
  <2>2. step.state \in [DOMAIN step.state -> Nat]
    BY <2>1 DEF FairInv
  <2>3. \A u : Average(u)' = AverageIn(step.state, u)
    BY <2>1 DEF Average, AverageIn
  <2>4. \A u \in Range(input'.ues) : Average(u)' = 0 <=> u \notin ServedBy(allDecisions')
    BY <1>0, <2>1, <2>3 DEF FairInv
  <2> QED
    BY <1>0, <2>1, <2>2, <2>4 DEF FairInv, ServedBy
<1>3. CASE OpenTti
  <2>1. /\ pc' # "commit" /\ observable'.ues = input'.ues
        /\ UNCHANGED <<schedulerState, allDecisions>>
    BY <1>3 DEF OpenTti, Observe
  <2>2. \A u : Average(u)' = Average(u)
    BY <2>1 DEF Average
  <2>3. \A u \in Range(input'.ues) : Average(u)' = 0 <=> u \notin ServedBy(allDecisions')
    BY <1>0, <2>1, <2>2 DEF FairInv
  <2> QED
    BY <1>0, <2>1, <2>3 DEF FairInv, ServedBy
<1>4. CASE RefuseArguments \/ RefuseStep \/ Return
  <2>1. /\ pc' \in {"raised", "returned"}
        /\ UNCHANGED <<schedulerState, allDecisions>>
    BY <1>4 DEF RefuseArguments, RefuseStep, Return, Raise
  <2>2. \A u : Average(u)' = Average(u)
    BY <2>1 DEF Average
  <2>3. \A u \in Range(input'.ues) : Average(u)' = 0 <=> u \notin ServedBy(allDecisions')
    BY <1>0, <2>1, <2>2 DEF FairInv
  <2> QED
    BY <1>0, <2>1, <2>3 DEF FairInv, ServedBy
<1> QED
  BY <1>1, <1>2, <1>3, <1>4 DEF LoopStep

LEMMA FairInvStep == FairInv /\ [FairNext]_fairVars => FairInv'
<1> SUFFICES ASSUME FairInv, [FairNext]_fairVars
             PROVE  FairInv'
  OBVIOUS
<1>0. ScanInv' /\ LoopTypeOK
  BY FairStepScans, ScanInvStep DEF FairInv, ScanInv, ScanTypeOK
<1>1. CASE LoopStep /\ UNCHANGED <<scanVars, serviceLog>>
  BY <1>0, <1>1, FairLoopSteps
\* The scan itself leaves the averages and the decisions alone.
<1>2. ASSUME UNCHANGED <<input, pc, observable, schedulerState, allDecisions, step>>,
             scanning' => WinnerIsUnbeaten'
      PROVE  FairInv'
  <2>1. \A u : Average(u)' = Average(u)
    BY <1>2 DEF Average
  <2>2. \A u \in Range(input'.ues) : Average(u)' = 0 <=> u \notin ServedBy(allDecisions')
    BY <1>2, <2>1 DEF FairInv
  <2> QED
    BY <1>0, <1>2, <2>2 DEF FairInv, AverageIn, ServedBy
<1>3. CASE StartFairScan
  <2>1. /\ UNCHANGED <<input, pc, observable, schedulerState, allDecisions, step>>
        /\ scanned' = 0 /\ winner' = NoUe
    BY <1>3 DEF StartFairScan, StartScan
  <2>2. Contenders' = Contenders
    BY <2>1 DEF Contenders, Contends
  <2>3. \A j \in Contenders : ~(j <= 0)
    BY <1>0, ContendersTypes
  <2>4. WinnerIsUnbeaten'
    BY <2>1, <2>2, <2>3 DEF WinnerIsUnbeaten
  <2> QED
    BY <1>2, <2>1, <2>4
<1>4. CASE CompareScores
  <2>1. UNCHANGED <<input, pc, observable, schedulerState, allDecisions, step>>
    BY <1>4 DEF CompareScores, LookAtUe
  <2> QED
    BY <1>0, <1>2, <1>4, <2>1, UnbeatenStep
<1>5. CASE FinishFairScan
  BY <1>0, <1>5, FairFinishes
<1>6. CASE UNCHANGED fairVars
  <2>1. UNCHANGED <<input, pc, observable, schedulerState, allDecisions, step,
                    calls, scanning, scanned, winner>>
    BY <1>6 DEF fairVars
  <2>2. WinnerIsUnbeaten' <=> WinnerIsUnbeaten
    BY <2>1 DEF WinnerIsUnbeaten, Contenders, Contends, Average, ScoreIsInfinite, Outscores
  <2> QED
    BY <1>2, <2>1, <2>2 DEF FairInv
<1> QED
  BY <1>1, <1>3, <1>4, <1>5, <1>6 DEF FairNext

\* ProportionalFair in the loop is a run of the loop with some algorithm, so
\* all that is proved of run() with any algorithm holds of it.
THEOREM ProportionalFairIsAnAlgorithm == FairSpec => AnyRun
<1>1. FairInit => LoopInit
  BY DEF FairInit, ScanInit
<1>2. FairInv /\ [FairNext]_fairVars => [AnyNext]_loopVars
  BY FairStepScans, ScanStepOfAnyRun DEF FairInv, ScanInv
<1> QED
  BY <1>1, <1>2, FairInvInit, FairInvStep, PTL DEF FairSpec, AnyRun

\* No step that ProportionalFair decides is refused by the loop's checks.
THEOREM ProportionalFairIsAccepted ==
    FairSpec => [](pc = "commit" => ValidDecisions(step.decisions))
<1>1. FairInv => (pc = "commit" => ValidDecisions(step.decisions))
  BY DEF FairInv, ScanInv
<1> QED
  BY <1>1, FairInvInit, FairInvStep, PTL DEF FairSpec

LEMMA AllCompared ==
    ASSUME FairInv, Deciding
    PROVE  /\ LoopTypeOK /\ observable.ues = input.ues /\ WinnerIsUnbeaten
           /\ observable.blocks = <<>> => scanned = 0
           /\ observable.blocks # <<>> => \A j \in Contenders : j <= scanned
<1>1. /\ LoopTypeOK /\ scanning /\ scanned \in Nat /\ scanned <= Len(observable.ues)
      /\ observable.blocks = <<>> => scanned = 0
      /\ WinnerIsUnbeaten /\ observable.ues = input.ues
  BY DEF Deciding, FairInv, ScanInv, ScanTypeOK
<1>2. observable.blocks # <<>> => scanned = Len(observable.ues)
  BY <1>1, ObservableTypes DEF Deciding, Scanning
<1> QED
  BY <1>1, <1>2, ContendersTypes

\* In every TTI ProportionalFair lets a UE win that no contender outscores,
\* and decides nothing exactly when nobody contends or there is no block.
THEOREM ProportionalFairPicksAMaximum == FairSpec => []BestScoreWins
<1>1. FairInv => BestScoreWins
  <2> SUFFICES ASSUME FairInv, Deciding
               PROVE  IF observable.blocks = <<>> \/ Contenders = {}
                      THEN winner = NoUe
                      ELSE /\ \E i \in Contenders : winner = observable.ues[i]
                           /\ \A i \in Contenders : ~Outscores(observable.ues[i], winner)
    BY DEF BestScoreWins
  <2>1. CASE observable.blocks = <<>> \/ Contenders = {}
    <3>1. \A i \in Contenders : ~(i <= scanned)
      BY <2>1, AllCompared, ContendersTypes
    <3> QED
      BY <2>1, <3>1, AllCompared DEF WinnerIsUnbeaten
  <2>2. CASE ~(observable.blocks = <<>> \/ Contenders = {})
    BY <2>2, AllCompared DEF WinnerIsUnbeaten
  <2> QED
    BY <2>1, <2>2
<1> QED
  BY <1>1, FairInvInit, FairInvStep, PTL DEF FairSpec

\* A contender that no recorded decision has served loses the TTI to a UE that
\* comes before it in canonical order: one not served either, or one whose score
\* overflows; to no other, in whatever order and however often UEs were served.
THEOREM NewcomersYieldToOverflowOnly == FairSpec => []OnlyOverflowPassesTheNeverServed
<1>1. FairInv => OnlyOverflowPassesTheNeverServed
  <2> SUFFICES ASSUME FairInv, Deciding, observable.blocks # <<>>, NeverServed # {}
               PROVE  \E i \in Contenders :
                         /\ winner = observable.ues[i]
                         /\ \A j \in NeverServed : i <= j
                         /\ i \in NeverServed \/ ScoreIsInfinite(winner)
    BY DEF OnlyOverflowPassesTheNeverServed
  <2>1. \A i \in NeverServed : i \in Contenders /\ ScoreIsInfinite(observable.ues[i])
    <3>1. \A i \in NeverServed : i \in Contenders /\ Average(observable.ues[i]) = 0
      BY AllCompared, ContendersTypes DEF FairInv, NeverServed
    <3> QED
      BY <3>1 DEF ScoreIsInfinite
  <2>2. PICK k \in Contenders : ScoreIsInfinite(observable.ues[k]) /\ k <= scanned
    BY <2>1, AllCompared
  <2>3. winner # NoUe /\ ~Outscores(observable.ues[k], winner)
    BY <2>2, AllCompared DEF WinnerIsUnbeaten
  <2>4. ScoreIsInfinite(winner)
    BY <2>2, <2>3 DEF Outscores
  <2>5. PICK i \in Contenders :
           /\ winner = observable.ues[i]
           /\ \A j \in Contenders : ScoreIsInfinite(observable.ues[j]) => i <= j
    BY <2>3, <2>4, AllCompared DEF WinnerIsUnbeaten
  <2> QED
    BY <2>1, <2>4, <2>5
<1> QED
  BY <1>1, FairInvInit, FairInvStep, PTL DEF FairSpec

----------------------------------------------------------------------------
(***************************************************************************)
(* The moving average and the history of services                          *)
(*                                                                         *)
(* AverageOfHistory sums over the whole history.  A further call takes     *)
(* every summand times 9, for each of them carries one more power of 9,    *)
(* and adds the summand of that call: that is the source's update.         *)
(***************************************************************************)

Service == [ue : UeIds \cup {NoUe}, cqi : Nat]

\* What the service of call k is worth to the average after n calls.
Weighted(log, k, n) == log[k].cqi * (Power(10, k - 1) * Power(9, n - k))

ServicesOf(log, u) == {k \in DOMAIN log : log[k].ue = u}

HistorySum(log, u, n) ==
    SumFunctionOnSet([k \in DOMAIN log |-> Weighted(log, k, n)], ServicesOf(log, u))

LEMMA AverageIsHistorySum ==
    \A u, n : AverageOfHistory(u, n) = HistorySum(serviceLog, u, n)
BY DEF AverageOfHistory, HistorySum, Weighted, ServicesOf

LEMMA NoHistory ==
    ASSUME NEW u, NEW n
    PROVE  HistorySum(<<>>, u, n) = 0
<1>1. ServicesOf(<<>>, u) = {}
  BY DEF ServicesOf
<1> QED
  BY <1>1, EmptySum DEF HistorySum

LEMMA WeightedTypes ==
    ASSUME NEW log \in Seq(Service), NEW k \in DOMAIN log, NEW n \in Nat, k <= n
    PROVE  /\ log[k].cqi \in Nat /\ Weighted(log, k, n) \in Nat
           /\ Weighted(log, k, n + 1) = 9 * Weighted(log, k, n)
<1>1. k \in Nat /\ k - 1 \in Nat /\ n - k \in Nat /\ n + 1 - k = (n - k) + 1
  BY LenProperties
<1>2. log[k].cqi \in Nat
  <2>1. log[k] \in Service
    BY ElementOfSeq, LenProperties
  <2> QED
    BY <2>1 DEF Service
<1> DEFINE c == log[k].cqi
           p == Power(10, k - 1)
           q == Power(9, n - k)
<1>3. p \in Nat /\ q \in Nat /\ Power(9, n + 1 - k) = 9 * q
  <2>1. 9 \in Nat /\ 9 > 0 /\ 10 \in Nat /\ 10 > 0
    OBVIOUS
  <2> QED
    BY <1>1, <2>1, PowerFacts
<1>4. Weighted(log, k, n) = c * (p * q) /\ Weighted(log, k, n + 1) = c * (p * (9 * q))
  BY <1>3 DEF Weighted
<1>5. \A x, y, z \in Nat : x * (y * z) \in Nat /\ x * (y * (9 * z)) = 9 * (x * (y * z))
  OBVIOUS
<1>6. c \in Nat
  BY <1>2
<1> HIDE DEF c, p, q
<1>7. c * (p * q) \in Nat /\ c * (p * (9 * q)) = 9 * (c * (p * q))
  <2> p \in Nat /\ q \in Nat
    BY <1>3
  <2> QED
    BY <1>5, <1>6, Zenon
<1> QED
  BY <1>2, <1>4, <1>7

\* One more call.
LEMMA HistoryGrows ==
    ASSUME NEW log \in Seq(Service), NEW e \in Service, NEW u
    PROVE  HistorySum(Append(log, e), u, Len(log) + 1) =
             9 * HistorySum(log, u, Len(log))
               + (IF e.ue = u THEN e.cqi * Power(10, Len(log)) ELSE 0)
<1> DEFINE n == Len(log)
           new == Append(log, e)
           f == [k \in DOMAIN log |-> Weighted(log, k, n)]
           g == [k \in DOMAIN new |-> Weighted(new, k, n + 1)]
           S == ServicesOf(log, u)
<1>1. /\ n \in Nat /\ new \in Seq(Service) /\ Len(new) = n + 1
      /\ DOMAIN log = 1 .. n /\ DOMAIN new = 1 .. n + 1
      /\ DOMAIN new = DOMAIN log \cup {n + 1}
      /\ \A k \in DOMAIN log : new[k] = log[k]
      /\ new[n + 1] = e
  BY AppendProperties, LenProperties
<1>2. IsFiniteSet(S) /\ S \subseteq DOMAIN log
  <2>1. IsFiniteSet(1 .. n)
    BY <1>1, FS_Interval
  <2>2. S \subseteq 1 .. n
    BY <1>1 DEF ServicesOf
  <2> QED
    BY <1>1, <2>1, <2>2, FS_Subset
<1>3. \A k \in S : f[k] \in Nat /\ g[k] = 9 * f[k]
  <2> TAKE k \in S
  <2>1. k \in DOMAIN log /\ k \in DOMAIN new /\ k <= n
    BY <1>1, <1>2
  <2>2. Weighted(new, k, n + 1) = Weighted(log, k, n + 1)
    BY <1>1, <2>1 DEF Weighted
  <2>3. /\ Weighted(log, k, n) \in Nat
        /\ Weighted(log, k, n + 1) = 9 * Weighted(log, k, n)
    BY <1>1, <2>1, WeightedTypes
  <2> QED
    BY <2>1, <2>2, <2>3
<1>4. SumFunctionOnSet(g, S) = 9 * SumFunctionOnSet(f, S)
  <2> HIDE DEF f, g, S
  <2> QED
    BY <1>2, <1>3, SumScaled
<1>5. ServicesOf(new, u) = IF e.ue = u THEN S \cup {n + 1} ELSE S
  BY <1>1 DEF ServicesOf
<1>6. g[n + 1] = e.cqi * Power(10, n) /\ g[n + 1] \in Nat
  <2>1. Power(10, n) \in Nat /\ Power(9, 0) = 1 /\ e.cqi \in Nat
    <3>1. 9 \in Nat /\ 9 > 0 /\ 10 \in Nat /\ 10 > 0
      OBVIOUS
    <3> QED
      BY <1>1, <3>1, PowerFacts DEF Service
  <2>2. n + 1 \in DOMAIN new /\ (n + 1) - 1 = n /\ (n + 1) - (n + 1) = 0
    BY <1>1
  <2>3. g[n + 1] = e.cqi * (Power(10, n) * Power(9, 0))
    BY <1>1, <2>2 DEF Weighted
  <2> HIDE DEF g
  <2> QED
    BY <2>1, <2>3
<1>7. n + 1 \notin S
  BY <1>1, <1>2
<1>8. HistorySum(log, u, n) = SumFunctionOnSet(f, S)
  BY DEF HistorySum
<1>9. HistorySum(new, u, n + 1) = SumFunctionOnSet(g, ServicesOf(new, u))
  BY DEF HistorySum
<1>10. CASE e.ue = u
  <2> DEFINE T == S \cup {n + 1}
  <2>1. IsFiniteSet(T) /\ n + 1 \in T /\ T \ {n + 1} = S
    BY <1>2, <1>7, FS_AddElement
  <2>2. \A k \in T : g[k] \in Nat
    <3>1. \A m \in Nat : 9 * m \in Nat
      OBVIOUS
    <3> HIDE DEF f, g, S
    <3> QED
      BY <1>3, <1>6, <3>1
  <2>3. SumFunctionOnSet(g, T) = g[n + 1] + SumFunctionOnSet(g, S)
    <3> HIDE DEF T, g, S
    <3> QED
      BY <2>1, <2>2, SumWithout
  <2>4. SumFunctionOnSet(f, S) \in Nat
    <3> HIDE DEF f, S
    <3> QED
      BY <1>2, <1>3, SumIsNat
  <2> HIDE DEF f, g, S, new
  <2> QED
    BY <1>4, <1>5, <1>6, <1>8, <1>9, <1>10, <2>3, <2>4 DEF new
<1>11. CASE e.ue # u
  <2>1. SumFunctionOnSet(f, S) \in Nat
    <3> HIDE DEF f, S
    <3> QED
      BY <1>2, <1>3, SumIsNat
  <2> HIDE DEF f, g, S, new
  <2> QED
    BY <1>4, <1>5, <1>8, <1>9, <1>11, <2>1 DEF new
<1> QED
  BY <1>10, <1>11

HistoryInv ==
    /\ FairInv
    /\ serviceLog \in Seq(Service)
    /\ Len(serviceLog) = Len(calls)
    /\ pc = "called" => serviceLog = <<>>
    /\ \A u \in Range(input.ues) :
          /\ pc \in {"between", "allocate", "returned"} =>
                Average(u) = HistorySum(serviceLog, u, Len(serviceLog))
          /\ pc = "commit" =>
                AverageIn(step.state, u) = HistorySum(serviceLog, u, Len(serviceLog))

LEMMA HistoryInit == FairInit => HistoryInv
<1> SUFFICES ASSUME FairInit PROVE HistoryInv
  OBVIOUS
<1>1. FairInv /\ pc = "called" /\ serviceLog = <<>> /\ calls = <<>>
  BY FairInvInit DEF FairInit, ScanInit, LoopInit
<1> QED
  BY <1>1 DEF HistoryInv

\* A finished scan writes the history and the new averages together.
LEMMA HistoryFinishes ==
    ASSUME HistoryInv, FinishFairScan, FairInv'
    PROVE  HistoryInv'
<1> DEFINE e == [ue |-> winner,
                 cqi |-> IF winner = NoUe THEN 0 ELSE CqiOf(observable, winner)]
           n == Len(serviceLog)
<1>1. /\ Deciding /\ pc = "allocate" /\ pc' = "commit" /\ input' = input
      /\ step' = [decisions |-> WinnerTakesAll, state |-> NewAverages]
      /\ calls' = Append(calls, observable.tti)
      /\ serviceLog' = Append(serviceLog, e)
  BY DEF FinishFairScan, FinishScan, AllocateReturns
<1>2. /\ FairInv /\ LoopTypeOK /\ ScanTypeOK /\ serviceLog \in Seq(Service)
      /\ n = Len(calls) /\ n \in Nat /\ observable.ues = input.ues
      /\ calls \in Seq(Nat) /\ observable.tti \in Nat
  <2>1. FairInv /\ LoopTypeOK /\ ScanTypeOK /\ serviceLog \in Seq(Service)
    BY DEF HistoryInv, FairInv, ScanInv, ScanTypeOK
  <2>2. calls \in Seq(Nat) /\ observable.tti \in Nat
    BY <2>1, ObservableTypes DEF LoopTypeOK
  <2> QED
    BY <1>1, <2>1, <2>2, LenProperties DEF HistoryInv, FairInv
<1>3. e \in Service
  <2>1. winner \in UeIds \cup {NoUe}
    BY <1>2 DEF ScanTypeOK
  <2>2. winner # NoUe => CqiOf(observable, winner) \in Nat
    <3>1. winner # NoUe => CqiOf(observable, winner) \in 0 .. 15
      BY <1>2, <2>1, ObservableTypes DEF Cqi
    <3> QED
      BY <3>1
  <2> QED
    BY <2>1, <2>2 DEF Service
<1>4. /\ serviceLog' \in Seq(Service) /\ Len(serviceLog') = n + 1
      /\ Len(calls') = n + 1
  <2> HIDE DEF e
  <2> QED
    BY <1>1, <1>2, <1>3, AppendProperties
<1>5. ASSUME NEW u \in Range(input.ues)
      PROVE  AverageIn(NewAverages, u) = HistorySum(serviceLog', u, n + 1)
  <2>1. AverageIn(NewAverages, u) = 9 * Average(u) + Achieved(u) * Power(10, n)
    BY <1>1, <1>2, NewAveragesFacts
  <2>2. Average(u) = HistorySum(serviceLog, u, n)
    BY <1>1 DEF HistoryInv
  <2>3. HistorySum(serviceLog', u, n + 1)
          = 9 * Average(u) + (IF e.ue = u THEN e.cqi * Power(10, n) ELSE 0)
    <3> HIDE DEF e
    <3> QED
      BY <1>1, <1>2, <1>3, <2>2, HistoryGrows
  <2>4. u # NoUe
    BY <1>2, ObservableTypes, NoUeAssumption DEF Range
  <2>5. Achieved(u) = (IF e.ue = u THEN e.cqi ELSE 0)
    BY <2>4 DEF Achieved
  <2>6. 0 * Power(10, n) = 0
    <3>1. Power(10, n) \in Nat
      <4>1. 10 \in Nat /\ 10 > 0
        OBVIOUS
      <4> QED
        BY <1>2, <4>1, PowerFacts
    <3> QED
      BY <3>1
  <2> HIDE DEF e
  <2> QED
    BY <2>1, <2>3, <2>5, <2>6
<1>6. step'.state = NewAverages
  BY <1>1
<1>7. \A u \in Range(input'.ues) :
         AverageIn(step'.state, u) = HistorySum(serviceLog', u, Len(serviceLog'))
  BY <1>1, <1>4, <1>5, <1>6
<1> QED
  BY <1>1, <1>4, <1>7 DEF HistoryInv, HistorySum, ServicesOf, Weighted, AverageIn

LEMMA HistoryStep == HistoryInv /\ [FairNext]_fairVars => HistoryInv'
<1> SUFFICES ASSUME HistoryInv, [FairNext]_fairVars
             PROVE  HistoryInv'
  OBVIOUS
<1>0. FairInv'
  BY FairInvStep DEF HistoryInv
<1>1. CASE FinishFairScan
  BY <1>0, <1>1, HistoryFinishes
\* Every other step leaves the history and the calls alone.
<1>2. ASSUME UNCHANGED <<input, serviceLog, calls>>,
             pc' = "called" => pc = "called",
             pc' = "commit" => pc = "commit" /\ step' = step,
             \A u \in Range(input.ues) : pc' \in {"between", "allocate", "returned"} =>
                Average(u)' = HistorySum(serviceLog, u, Len(serviceLog))
      PROVE  HistoryInv'
  <2>1. \A u : HistorySum(serviceLog, u, Len(serviceLog))'
              = HistorySum(serviceLog, u, Len(serviceLog))
    BY <1>2 DEF HistorySum, ServicesOf, Weighted
  <2>2. \A u \in Range(input'.ues) : pc' \in {"between", "allocate", "returned"} =>
           Average(u)' = HistorySum(serviceLog, u, Len(serviceLog))'
    BY <1>2, <2>1
  <2>3. \A u \in Range(input'.ues) : pc' = "commit" =>
           AverageIn(step.state, u)' = HistorySum(serviceLog, u, Len(serviceLog))'
    <3> SUFFICES ASSUME pc' = "commit", NEW u \in Range(input.ues)
                 PROVE  AverageIn(step.state, u)' = HistorySum(serviceLog, u, Len(serviceLog))'
      BY <1>2
    <3>1. AverageIn(step.state, u)' = AverageIn(step.state, u)
      BY <1>2 DEF AverageIn
    <3>2. AverageIn(step.state, u) = HistorySum(serviceLog, u, Len(serviceLog))
      BY <1>2 DEF HistoryInv
    <3> QED
      BY <2>1, <3>1, <3>2
  <2>4. /\ serviceLog' \in Seq(Service) /\ Len(serviceLog') = Len(calls')
        /\ pc' = "called" => serviceLog' = <<>>
    BY <1>2 DEF HistoryInv
  <2> QED
    BY <1>0, <2>2, <2>3, <2>4 DEF HistoryInv
\* So do the averages, but at the start and when a TTI is committed.
<1>3. ASSUME UNCHANGED <<input, serviceLog, calls, schedulerState>>,
             pc' = "called" => pc = "called",
             pc' = "commit" => pc = "commit" /\ step' = step,
             pc' \in {"between", "allocate", "returned"} =>
                pc \in {"between", "allocate", "returned"}
      PROVE  HistoryInv'
  <2>1. \A u : Average(u)' = Average(u)
    BY <1>3 DEF Average
  <2>2. \A u \in Range(input.ues) : pc' \in {"between", "allocate", "returned"} =>
           Average(u)' = HistorySum(serviceLog, u, Len(serviceLog))
    BY <1>3, <2>1 DEF HistoryInv
  <2> QED
    BY <1>2, <1>3, <2>2
<1>4. CASE LoopStep /\ UNCHANGED <<scanVars, serviceLog>>
  <2>1. CASE Start
    <3>1. /\ pc = "called" /\ pc' = "between" /\ schedulerState' = InitialState
          /\ UNCHANGED <<input, calls>>
      BY <2>1 DEF Start
    <3>2. InitialState = [u \in {} |-> 0] /\ serviceLog = <<>>
      BY <3>1 DEF HistoryInv, FairInv
    <3>3. \A u : Average(u)' = 0
      BY <3>1, <3>2 DEF Average
    <3>4. \A u : HistorySum(serviceLog, u, Len(serviceLog)) = 0
      BY <3>2, NoHistory
    <3> QED
      BY <1>2, <1>4, <3>1, <3>3, <3>4
  <2>2. CASE CommitTti
    <3>1. /\ pc = "commit" /\ pc' = "between" /\ schedulerState' = step.state
          /\ UNCHANGED <<input, calls>>
      BY <2>2 DEF CommitTti
    <3>2. \A u : Average(u)' = AverageIn(step.state, u)
      BY <3>1 DEF Average, AverageIn
    <3>3. \A u \in Range(input.ues) :
             Average(u)' = HistorySum(serviceLog, u, Len(serviceLog))
      BY <3>1, <3>2 DEF HistoryInv
    <3> QED
      BY <1>2, <1>4, <3>1, <3>3
  <2>3. CASE OpenTti
    BY <1>3, <1>4, <2>3 DEF OpenTti
  <2>4. CASE RefuseArguments \/ RefuseStep \/ Return
    BY <1>3, <1>4, <2>4 DEF RefuseArguments, RefuseStep, Return, Raise
  <2> QED
    BY <1>4, <2>1, <2>2, <2>3, <2>4 DEF LoopStep
<1>5. CASE StartFairScan
  BY <1>3, <1>5 DEF StartFairScan, StartScan
<1>6. CASE CompareScores
  BY <1>3, <1>6 DEF CompareScores, LookAtUe
<1>7. CASE UNCHANGED fairVars
  BY <1>3, <1>7 DEF fairVars
<1> QED
  BY <1>1, <1>4, <1>5, <1>6, <1>7 DEF FairNext

\* Between two calls every average is the closed form of the moving average
\* over the whole history of services: TTIs that served nobody and UEs without
\* demand decay like all others, and no service counts twice or is forgotten.
THEOREM AveragesAreTheHistory == FairSpec => []AveragesMatchHistory
<1>1. HistoryInv => AveragesMatchHistory
  BY AverageIsHistorySum DEF HistoryInv, AveragesMatchHistory
<1> QED
  BY <1>1, HistoryInit, HistoryStep, PTL DEF FairSpec
=============================================================================
