---------------------------- MODULE MCCheckRunner ----------------------------
(***************************************************************************)
(* CheckRunner with the checks requested in the order of the default task, *)
(* in the opposite order, once with an unknown id and a repeated check,    *)
(* and with none.                                                          *)
(***************************************************************************)
EXTENDS CheckRunner

IC == "interface_conformance"
SB == "served_ue_must_have_backlog"
NE == "no_eligibility_or_resources_yields_empty_decisions"

MCKnownChecks == {IC, SB, NE}

MCRequests == {<<IC, SB, NE>>, <<NE, SB, IC>>, <<SB, "unknown", IC, SB>>, <<>>}
=============================================================================
