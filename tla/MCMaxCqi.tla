------------------------------ MODULE MCMaxCqi ------------------------------
(***************************************************************************)
(* MaxCqi on three UEs: every combination of demand with CQI 0, 7, 15 or   *)
(* missing in the first of two TTIs, and a TTI that follows it.            *)
(***************************************************************************)
EXTENDS MaxCqi

CONSTANTS a, b, c, r1, r2

MCUeIds == {a, b, c}
MCBlockIds == {r1, r2}

MCRunInputs == {[delay |-> 0, ttis |-> <<0>>, ues |-> <<b, c, a>>],
                [delay |-> 0, ttis |-> <<1, 0>>, ues |-> <<a, c>>],
                [delay |-> 0, ttis |-> <<0>>, ues |-> <<>>]}

MCTtiInputs ==
    [blocks    : {<<>>, <<r2, r1>>},
     qualities : {q \in [MCUeIds -> {<<>>, <<0>>, <<7>>, <<15>>}] :
                    q[b] # <<7>>},
     arrivals  : {x \in [MCUeIds -> {<<>>, <<1>>}] : x[a] # <<>> \/ x[c] # <<>>}]
=============================================================================
