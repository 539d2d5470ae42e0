-------------------------- MODULE MCSimulationLoop --------------------------
(***************************************************************************)
(* The loop and the oracle behind it (BacklogCheck) on two UEs, two blocks *)
(* and two TTIs, with every way an algorithm's decisions can be acceptable *)
(* or not.                                                                 *)
(***************************************************************************)
EXTENDS BacklogCheck, TLC

CONSTANTS a, b, ghost,  \* UE identifiers; ghost is never in a scenario
          r1, r2        \* block identifiers

MCUeIds == {a, b, ghost}
MCBlockIds == {r1, r2}

\* TTIs unsorted, absent, repeated; a delay of 1; UEs repeated or absent.
MCRunInputs ==
    [delay : {0}, ttis : {<<2, 1>>}, ues : {<<b, a>>}]
        \cup [delay : {0, 1}, ttis : {<<>>, <<1>>, <<1, 1>>},
              ues : {<<>>, <<a>>, <<a, a>>}]

NoRecords == [u \in MCUeIds |-> <<>>]

Input(blocks, qualities, arrs) ==
    [blocks |-> blocks, qualities |-> qualities @@ NoRecords,
     arrivals |-> arrs @@ NoRecords]

\* Well-formed inputs first; then a repeated block, a repeated CQI record and
\* a CQI record of an unknown UE.
MCTtiInputs ==
    { Input(<<r1, r2>>, a :> <<3>>, (a :> <<2>>) @@ (b :> <<1>>)),
      Input(<<r2>>, b :> <<0>>, (a :> <<1, 2>>) @@ (ghost :> <<1>>)),
      Input(<<>>, <<>>, b :> <<0, 1>>),
      Input(<<r1, r1>>, <<>>, a :> <<1>>),
      Input(<<r1>>, a :> <<3, 4>>, <<>>),
      Input(<<r1>>, ghost :> <<3>>, <<>>) }

MCDecisions ==
    [tti : {1, 2}, ue : {a, b},
     blocks : {<<>>, <<r1>>, <<r2>>, <<r2, r1>>}]

Odd == { [tti |-> 1, ue |-> ghost, blocks |-> <<r1>>],
         [tti |-> 2, ue |-> a, blocks |-> <<r1, r1>>] }

\* No decision, any one decision, and pairs that share a TTI.
MCStepResults ==
    [decisions : {<<>>} \cup {<<d>> : d \in MCDecisions \cup Odd}
                    \cup {<<d, e>> : d, e \in {x \in MCDecisions : x.tti = 2}}
                    \cup {<<d, e>> : d, e \in
                            {x \in MCDecisions : x.tti = 1 /\ Len(x.blocks) < 2}},
     state : {"next"}]
=============================================================================
