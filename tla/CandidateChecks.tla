-------------------------- MODULE CandidateChecks --------------------------
(***************************************************************************)
(* What HARNESS6G knows of a candidate: its source text, the outcome of    *)
(* running the exposed checks on it in a separate process, and the frozen  *)
(* copy a run directory keeps of it.                                       *)
(*                                                                         *)
(* A text stands for its SHA-256 too: two texts have one hash only if they *)
(* are equal.                                                              *)
(***************************************************************************)
EXTENDS Naturals, Sequences, Functions

CONSTANTS
    Texts,        \* complete candidate source texts
    Undecodable,  \* those of Texts that are not valid UTF-8
    Garbling,     \* those whose code may print bytes that are not UTF-8
    Missing,      \* no file
    Torn,         \* what a write interrupted by a crash leaves in a file
    KnownChecks,  \* the check ids of _ALL_CHECKS
    Outcomes      \* Outcomes[t]: how a check process on text t may end; {}
                  \* when it never ends

ASSUME NoTextAssumption ==
    Missing \notin Texts /\ Torn \notin Texts /\ Missing # Torn

\* The process may end before writing its results (SystemExit is not caught).
Dies == [dies |-> TRUE, builds |-> FALSE, fails |-> {}]

Ends(builds, fails) == [dies |-> FALSE, builds |-> builds, fails |-> fails]

Outcome == {Dies} \cup {Ends(b, f) : b \in BOOLEAN, f \in SUBSET KnownChecks}

\* The check process dies on a text it cannot decode.
ASSUME OutcomesAssumption ==
    /\ \A t \in Texts : Outcomes[t] \subseteq Outcome
    /\ \A t \in Undecodable : Outcomes[t] = {Dies}

\* A check process that finds no file reports a failed build, or dies when the file
\* goes away between its two looks.
OutcomesOf(t) == IF t \in Texts THEN Outcomes[t] ELSE {Ends(FALSE, {}), Dies}

Result(check, passed) == [check |-> check, passed |-> passed]

----------------------------------------------------------------------------
\* Nothing depends on the order of a result list: it is the set of its results.

\* Mutant: the checks of a candidate that does not build are left out.
RunnerResultsOfBuilt(o, requested) ==
    {Result("build_validity", TRUE)}
        \cup {Result(c, c \notin o.fails) : c \in Range(requested) \cap KnownChecks}

\* _check_runner.main: the build and the requested checks, those of an unknown id
\* left out and all of them failed when the candidate did not build.
RunnerResults(o, requested) ==
    {Result("build_validity", o.builds)}
        \cup {Result(c, o.builds /\ c \notin o.fails) :
                c \in Range(requested) \cap KnownChecks}

\* run_checks_in_subprocess, unless it times out: never an empty list.
ChildResults(o, requested) ==
    IF o.dies THEN {Result("build_validity", FALSE)}
    ELSE RunnerResults(o, requested)

AllPassed(results) == results # {} /\ \A r \in results : r.passed

----------------------------------------------------------------------------
\* Mutant: the files only have to exist.
VerifiesByExistence(dir) == dir.manifest # Missing /\ dir.frozen # Missing

\* verify_integrity(run_dir), where it returns
Verifies(dir) ==
    /\ dir.manifest # Missing
    /\ dir.frozen # Missing
    /\ dir.frozen = dir.manifest

\* An incomplete manifest is not JSON, and json.loads raises.
VerifyRaises(dir) == dir.manifest = Torn /\ dir.frozen # Missing
=============================================================================
