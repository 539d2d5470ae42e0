-------------------------- MODULE ProportionalFair --------------------------
(***************************************************************************)
(* reference_implementations.ProportionalFair driven by the Simulation     *)
(* Loop: UeScan for the highest score.                                     *)
(*                                                                         *)
(* The averages are exact: after n calls of allocate() the value A stands  *)
(* for the average A / 10^n, so that 0.9 * avg + 0.1 * achieved is         *)
(* 9 * A + achieved * 10^n.  The source computes in floating point.  Over  *)
(* the few calls of a run here two different scores differ by far more     *)
(* than the rounding of a double, so rounding shows in one place only: of  *)
(* two equal finite scores either may come out the greater.  The range of  *)
(* a double is kept: cqi / average is infinite above MaxScore.  Over long  *)
(* runs what is said here holds of the exact averages; two scores that are *)
(* nearly equal may then be ordered otherwise by the source.               *)
(***************************************************************************)
EXTENDS UeScan

CONSTANT MaxScore  \* the largest finite score, about 1.8e308 in the source

ASSUME MaxScoreAssumption == MaxScore \in Nat

VARIABLE serviceLog  \* history: the UE served by each call and its CQI

fairVars == <<loopVars, scanVars, serviceLog>>

\* ProportionalFairState(): no UE is tracked yet.
FairInit ==
    /\ ScanInit
    /\ InitialState = [u \in {} |-> 0]
    /\ serviceLog = <<>>

----------------------------------------------------------------------------
\* b to the power n
Power(b, n) ==
    LET power[k \in Nat] == IF k = 0 THEN 1 ELSE b * power[k - 1]
    IN power[n]

\* averages.get(ue_id, 0.0), scaled
Average(u) == IF u \in DOMAIN schedulerState THEN schedulerState[u] ELSE 0

\* _score(u) is inf: the average is 0, or the quotient exceeds the range of a
\* double, which takes thousands of TTIs without service.
ScoreIsInfinite(u) ==
    \/ Average(u) = 0
    \/ CqiOf(observable, u) * Power(10, Len(calls)) > MaxScore * Average(u)

\* Mutant: the average 0 scores 0, as dividing by it must be avoided somehow.
OutscoresWithNewAtZero(u, v) ==
    /\ Average(u) # 0
    /\ IF Average(v) = 0 THEN TRUE
       ELSE CqiOf(observable, u) * Average(v) > CqiOf(observable, v) * Average(u)

\* _score(u) > _score(v)
Outscores(u, v) ==
    /\ ~ScoreIsInfinite(v)
    /\ \/ ScoreIsInfinite(u)
       \/ CqiOf(observable, u) * Average(v) > CqiOf(observable, v) * Average(u)

\* Two equal finite scores, which rounding may order either way.
Ties(u, v) ==
    /\ ~ScoreIsInfinite(u)
    /\ ~ScoreIsInfinite(v)
    /\ CqiOf(observable, u) * Average(v) = CqiOf(observable, v) * Average(u)

\* Mutant: a UE leads by its CQI alone.
MayLeadByCqi(u) ==
    /\ Contends(u)
    /\ IF winner = NoUe THEN TRUE
       ELSE CqiOf(observable, u) > CqiOf(observable, winner)

MayLead(u) ==
    Contends(u) /\ (winner = NoUe \/ Outscores(u, winner) \/ Ties(u, winner))

MayTrail(u) ==
    ~Contends(u) \/ (winner # NoUe /\ ~Outscores(u, winner))

\* best_score needs no variable of its own: it is the winner's score.
StartFairScan == StartScan /\ UNCHANGED serviceLog

\* One iteration of the loop over observable_state.ues.
CompareScores ==
    /\ LookAtUe
    /\ \/ MayLead(ScannedUe) /\ winner' = ScannedUe
       \/ MayTrail(ScannedUe) /\ UNCHANGED winner
    /\ UNCHANGED serviceLog

\* What the UE achieved in this TTI: its CQI if it was served, else 0.
Achieved(u) == IF u = winner THEN CqiOf(observable, u) ELSE 0

\* Mutant: nothing decays in a TTI that served nobody.
AveragesOnService ==
    IF winner = NoUe THEN schedulerState
    ELSE [u \in Range(observable.ues) |->
             9 * Average(u) + Achieved(u) * Power(10, Len(calls))]

\* Every UE of the TTI gets a new average, also when nobody was served.
NewAverages ==
    [u \in Range(observable.ues) |->
        9 * Average(u) + Achieved(u) * Power(10, Len(calls))]

FinishFairScan ==
    /\ FinishScan(NewAverages)
    /\ serviceLog' = Append(serviceLog,
                            [ue |-> winner,
                             cqi |-> IF winner = NoUe THEN 0
                                     ELSE CqiOf(observable, winner)])

----------------------------------------------------------------------------
FairNext ==
    \/ LoopStep /\ UNCHANGED <<scanVars, serviceLog>>
    \/ StartFairScan
    \/ CompareScores
    \/ FinishFairScan

FairSpec == FairInit /\ [][FairNext]_fairVars /\ WF_fairVars(FairNext)

----------------------------------------------------------------------------
\* No contender outscores the UE that takes the TTI, and somebody takes it
\* whenever there is a block and a contender: the scan ends at a maximum of
\* the scores, ties aside.
BestScoreWins ==
    Deciding =>
        IF observable.blocks = <<>> \/ Contenders = {}
        THEN winner = NoUe
        ELSE /\ \E i \in Contenders : winner = observable.ues[i]
             /\ \A i \in Contenders : ~Outscores(observable.ues[i], winner)

\* The contenders that no recorded decision of the run has ever served.
NeverServed == {i \in Contenders : observable.ues[i] \notin ServedBy(allDecisions)}

\* While a UE that was never served contends, the TTI goes to the first such UE
\* in canonical order, or to a UE before it whose average has decayed so far
\* that its score overflows.  No other UE that has been served is preferred.
OnlyOverflowPassesTheNeverServed ==
    Deciding /\ observable.blocks # <<>> /\ NeverServed # {} =>
        \E i \in Contenders :
            /\ winner = observable.ues[i]
            /\ \A j \in NeverServed : i <= j
            /\ i \in NeverServed \/ ScoreIsInfinite(winner)

\* The closed form of the moving average: the service of call k still counts
\* with weight 0.1 * 0.9^(n - k) after n calls, whatever happened between,
\* calls that served nobody and UEs without demand included.
AverageOfHistory(u, n) ==
    SumFunctionOnSet([k \in DOMAIN serviceLog |->
                         serviceLog[k].cqi * (Power(10, k - 1) * Power(9, n - k))],
                     {k \in DOMAIN serviceLog : serviceLog[k].ue = u})

AveragesMatchHistory ==
    pc \in {"between", "returned"} =>
        \A u \in Range(input.ues) :
            Average(u) = AverageOfHistory(u, Len(serviceLog))

\* A UE that was never served is served before any UE that has been (the
\* docstring of ProportionalFair: "guaranteeing it").
NeverServedFirst ==
    Deciding /\ observable.blocks # <<>> /\ NeverServed # {} =>
        \E i \in NeverServed : winner = observable.ues[i]

\* Ties are broken by canonical order: of the contenders no one outscores, the
\* first takes the TTI.
TiesGoToTheFirst ==
    Deciding /\ winner # NoUe =>
        \E i \in Contenders :
            /\ winner = observable.ues[i]
            /\ \A j \in Contenders :
                  j < i => Outscores(winner, observable.ues[j])
=============================================================================
