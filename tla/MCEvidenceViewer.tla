-------------------------- MODULE MCEvidenceViewer --------------------------
(***************************************************************************)
(* EvidenceViewer with its three sections and two languages.               *)
(***************************************************************************)
EXTENDS EvidenceViewer

MCOrder == <<"demo", "harness", "baseline">>
=============================================================================
