------------------------- MODULE MCProportionalFair -------------------------
(***************************************************************************)
(* ProportionalFair on two UEs and four TTIs: any CQI of 0, 1 or 3 with   *)
(* demand of both UEs, of one, or of none, and a TTI without blocks.       *)
(* MaxScore is small, so that the average of a service at CQI 1 needs one  *)
(* TTI of decay, in place of thousands, until CQI 3 divided by it          *)
(* overflows.                                                              *)
(***************************************************************************)
EXTENDS ProportionalFair, TLC

CONSTANTS a, b, r1

MCUeIds == {a, b}
MCBlockIds == {r1}

MCInitialState == [u \in {} |-> 0]

MCRunInputs == {[delay |-> 0, ttis |-> <<0, 1, 2, 3>>, ues |-> <<b, a>>]}

Input(blocks, cqis, arrs) ==
    [blocks |-> blocks, qualities |-> cqis,
     arrivals |-> arrs @@ [u \in MCUeIds |-> <<>>]]

Both == (a :> <<1>>) @@ (b :> <<1>>)

MCTtiInputs ==
    {Input(<<r1>>, q, Both) : q \in [MCUeIds -> {<<0>>, <<1>>, <<3>>}]}
        \cup {Input(<<r1>>, (a :> <<2>>) @@ (b :> <<3>>), arrs) :
                arrs \in {a :> <<1>>, b :> <<1>>, <<>>}}
        \cup {Input(<<>>, (a :> <<>>) @@ (b :> <<1>>), Both)}

\* Two UEs that have each been served once meet in TTI 2 with equal scores:
\* 9 / (1.2 * 0.9) and 10 / 1.2.  No other TTI has a tie of finite scores.
TieRunInputs == {[delay |-> 0, ttis |-> <<0, 1, 2>>, ues |-> <<a, b>>]}

TieTtiInputs ==
    {Input(<<r1>>, (a :> <<12>>) @@ (b :> <<7>>), Both),
     Input(<<r1>>, (a :> <<12>>) @@ (b :> <<12>>), Both),
     Input(<<r1>>, (a :> <<9>>) @@ (b :> <<10>>), Both)}
=============================================================================
