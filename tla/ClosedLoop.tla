----------------------------- MODULE ClosedLoop -----------------------------
(***************************************************************************)
(* What a closed-loop simulation promises of one run (ADR-002, ADR-009),   *)
(* without saying how run() gets there: TTIs are served one at a time in   *)
(* ascending order; serving one grants each of its blocks to at most one   *)
(* UE; a UE granted at least one block ends the TTI with no backlog, every *)
(* other UE keeps its backlog plus what arrived.  A run may fail at any    *)
(* point, and then nothing more happens to it.                             *)
(*                                                                         *)
(* traffic is the environment: the bytes that arrived in each served TTI.  *)
(***************************************************************************)
EXTENDS Naturals

CONSTANTS UeIds, BlockIds

VARIABLES
    due,      \* indices of the TTIs still to serve
    traffic,  \* bytes that arrived, by served TTI and UE
    backlog,  \* bytes waiting, by UE
    granted,  \* every (TTI, block, UE) granted so far
    status    \* "running", "complete" or "failed"

vars == <<due, traffic, backlog, granted, status>>

Init ==
    /\ due \subseteq Nat
    /\ traffic = [t \in {} |-> [u \in UeIds |-> 0]]
    /\ backlog = [u \in UeIds |-> 0]
    /\ granted = {}
    /\ status = "running"

\* The grants of TTI t: of its own blocks, each to one UE at most.
GrantsOf(t, new) ==
    /\ new \subseteq {t} \X BlockIds \X UeIds
    /\ \A g, h \in new : g[2] = h[2] => g = h

ServeTti ==
    /\ status = "running"
    /\ \E t \in due :
        /\ \A s \in due : t <= s
        /\ due' = due \ {t}
        /\ traffic' \in [DOMAIN traffic \cup {t} -> [UeIds -> Nat]]
        /\ \A s \in DOMAIN traffic : traffic'[s] = traffic[s]
        /\ granted \subseteq granted'
        /\ GrantsOf(t, granted' \ granted)
        /\ backlog' =
             [u \in UeIds |->
                IF \E b \in BlockIds : <<t, b, u>> \in granted' \ granted
                THEN 0
                ELSE backlog[u] + traffic'[t][u]]
    /\ UNCHANGED status

Complete ==
    /\ status = "running"
    /\ due = {}
    /\ status' = "complete"
    /\ UNCHANGED <<due, traffic, backlog, granted>>

Fail ==
    /\ status = "running"
    /\ status' = "failed"
    /\ UNCHANGED <<due, traffic, backlog, granted>>

Next == ServeTti \/ Complete \/ Fail

Spec == Init /\ [][Next]_vars
=============================================================================
