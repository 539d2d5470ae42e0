---------------------------- MODULE MCRoundRobin ----------------------------
(***************************************************************************)
(* RoundRobin on three UEs and three TTIs: every combination of demand, in *)
(* TTIs without blocks, with fewer blocks than UEs and with more.          *)
(***************************************************************************)
EXTENDS RoundRobin, TLC

CONSTANTS a, b, c, r1, r2, r3, r4

MCUeIds == {a, b, c}
MCBlockIds == {r1, r2, r3, r4}

MCRunInputs == {[delay |-> 0, ttis |-> <<0, 1, 2>>, ues |-> <<b, c, a>>],
                [delay |-> 0, ttis |-> <<0>>, ues |-> <<>>]}

MCTtiInputs ==
    [blocks    : {<<>>, <<r1>>, <<r3, r1, r4, r2>>},
     qualities : {[u \in MCUeIds |-> <<>>]},
     arrivals  : [MCUeIds -> {<<>>, <<1>>}]]

=============================================================================
