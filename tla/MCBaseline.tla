----------------------------- MODULE MCBaseline -----------------------------
(***************************************************************************)
(* Baseline with every kind of agent: one that exits, is killed at its     *)
(* timeout (after printing or silently) or is not installed; that leaves   *)
(* no candidate or any kind of one; that touches other paths, tracked or   *)
(* ignored, or does not.                                                   *)
(***************************************************************************)
EXTENDS Baseline, TLC

CONSTANTS good, flaky, unbuilt, hanging, binary

MCTexts == {good, flaky, unbuilt, hanging, binary}

MCOutcomes ==
    (good :> {Ends(TRUE, {})})
        @@ (flaky :> {Ends(TRUE, f) : f \in SUBSET {"conformance", "backlog"}} \cup {Dies})
        @@ (unbuilt :> {Ends(FALSE, {})}) @@ (hanging :> {}) @@ (binary :> {Dies})

MCExposedChecks == <<"conformance", "backlog">>

MCAgents ==
    {a \in [ends : {"exits", "times_out", "not_found"}, printed : BOOLEAN,
            survives : BOOLEAN, candidate : MCTexts \cup {Missing},
            others : SUBSET {"README.md", "build/out"}] :
        a.survives => a.ends = "times_out"}

\* A new file at the root, one that the base commit has already, and one in a
\* new directory.
MCConfigs ==
    {ClaudeCodeNative, [ClaudeCodeNative EXCEPT !.atBase = good],
     [ClaudeCodeNative EXCEPT !.asWritten = FALSE]}
=============================================================================
