------------------------------- MODULE MCDemo -------------------------------
(***************************************************************************)
(* The demonstration as the repository ships it, with one repetition (and  *)
(* none, which is refused) instead of ten.  A run has two TTIs at most, so *)
(* an average is 0 or no less than 0.09, and no score comes near MaxScore. *)
(***************************************************************************)
EXTENDS Demo

MCUeIds == {UeId(0), UeId(1)}
MCBlockIds == {BlockId(t, j) : t \in 0 .. 1, j \in 0 .. 1}
MCRepetitions == {0, 1}
=============================================================================
