------------------------------- MODULE UeScan -------------------------------
(***************************************************************************)
(* The scan that MaxCQI.allocate() and ProportionalFair.allocate() share:  *)
(* one pass over observable_state.ues that keeps the best UE so far, which *)
(* then takes every Resource Block of the TTI.                             *)
(*                                                                         *)
(* A step of the scan is one iteration of the for loop.  What makes a UE   *)
(* the best so far, and the state handed on, is the algorithm's.           *)
(***************************************************************************)
EXTENDS SimulationLoop

VARIABLES
    scanning,  \* allocate() is running
    scanned,   \* how many UEs of observable_state.ues it has compared
    winner     \* served_ue_id, NoUe while there is none

scanVars == <<scanning, scanned, winner>>

ScanInit ==
    /\ LoopInit
    /\ scanning = FALSE
    /\ scanned = 0
    /\ winner = NoUe

\* A UE takes part with a backlog and a usable CQI; one that lacks either is
\* passed over before any comparison.
Contends(u) == u \in Backlogged(observable) /\ CqiOf(observable, u) > 0

StartScan ==
    /\ pc = "allocate"
    /\ ~scanning
    /\ scanning' = TRUE
    /\ scanned' = 0
    /\ winner' = NoUe
    /\ UNCHANGED loopVars

\* Without Resource Blocks the UEs are not looked at.
Scanning ==
    scanning /\ observable.blocks # <<>> /\ scanned < Len(observable.ues)

ScannedUe == observable.ues[scanned + 1]

\* One iteration looks at the next UE; whether it becomes the winner is the
\* algorithm's.
LookAtUe ==
    /\ Scanning
    /\ scanned' = scanned + 1
    /\ UNCHANGED <<loopVars, scanning>>

Deciding == scanning /\ ~Scanning

\* The winner takes every block of the TTI; without one nothing is decided.
WinnerTakesAll ==
    IF winner = NoUe THEN <<>>
    ELSE <<[tti |-> observable.tti, ue |-> winner, blocks |-> observable.blocks]>>

FinishScan(state) ==
    /\ Deciding
    /\ AllocateReturns(WinnerTakesAll, state)
    /\ scanning' = FALSE
    /\ UNCHANGED <<scanned, winner>>

----------------------------------------------------------------------------
\* The UEs that take part in this TTI, by position in ues.
Contenders == {i \in DOMAIN observable.ues : Contends(observable.ues[i])}

\* Types of the scan, in the loop.
ScanTypeOK ==
    /\ LoopTypeOK
    /\ scanning \in BOOLEAN
    /\ scanning => pc = "allocate"
    /\ scanned \in Nat
    /\ winner \in UeIds \cup {NoUe}
    /\ scanning => winner \in Range(observable.ues) \cup {NoUe}
=============================================================================
