------------------------------- MODULE MaxCqi -------------------------------
(***************************************************************************)
(* reference_implementations.MaxCQI driven by the Simulation Loop: UeScan  *)
(* for the highest CQI.                                                    *)
(***************************************************************************)
EXTENDS UeScan

VARIABLE bestCqi  \* best_cqi

maxCqiVars == <<loopVars, scanVars, bestCqi>>

MaxCqiInit == ScanInit /\ bestCqi = 0

----------------------------------------------------------------------------
\* Mutant: a later UE with the same CQI replaces the winner.
LeadsOnTie(u) == Contends(u) /\ CqiOf(observable, u) >= bestCqi

\* The UE replaces the winner so far.
Leads(u) == Contends(u) /\ CqiOf(observable, u) > bestCqi

StartCqiScan == StartScan /\ bestCqi' = 0

\* One iteration of the loop over observable_state.ues.
CompareCqi ==
    /\ LookAtUe
    /\ IF Leads(ScannedUe)
       THEN bestCqi' = CqiOf(observable, ScannedUe) /\ winner' = ScannedUe
       ELSE UNCHANGED <<bestCqi, winner>>

FinishCqiScan == FinishScan(schedulerState) /\ UNCHANGED bestCqi

----------------------------------------------------------------------------
MaxCqiNext ==
    \/ LoopStep /\ UNCHANGED <<scanVars, bestCqi>>
    \/ StartCqiScan
    \/ CompareCqi
    \/ FinishCqiScan

MaxCqiSpec == MaxCqiInit /\ [][MaxCqiNext]_maxCqiVars /\ WF_maxCqiVars(MaxCqiNext)

----------------------------------------------------------------------------
\* A contender of a higher CQI than every other, the first of them on a tie.
IsBest(i) ==
    \A j \in Contenders :
        LET mine == CqiOf(observable, observable.ues[i])
            its  == CqiOf(observable, observable.ues[j])
        IN mine > its \/ (mine = its /\ i <= j)

MaxCqiTypeOK ==
    /\ ScanTypeOK
    /\ bestCqi \in Cqi
    /\ winner = NoUe <=> bestCqi = 0

\* What MaxCQI returns: every block to the contender with the strictly highest
\* CQI, the first in canonical order on a tie, or nothing exactly when nobody
\* contends or there is no block; and the loop always accepts it.
PicksBestChannel ==
    pc = "commit" =>
        /\ ValidDecisions(step.decisions)
        /\ IF observable.blocks = <<>> \/ Contenders = {}
           THEN step.decisions = <<>>
           ELSE \E i \in Contenders :
                  /\ IsBest(i)
                  /\ step.decisions =
                       <<[tti |-> observable.tti, ue |-> observable.ues[i],
                          blocks |-> observable.blocks]>>
=============================================================================
