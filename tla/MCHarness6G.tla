----------------------------- MODULE MCHarness6G -----------------------------
(***************************************************************************)
(* Harness6G on two candidate files in scope and one outside: texts that   *)
(* pass, fail a check, do not build, hang, kill the check process, behave  *)
(* differently from one execution to the next, or cannot be decoded.       *)
(***************************************************************************)
EXTENDS Harness6G, TLC

CONSTANTS p1, p2, outside,                       \* paths
          good, flaky, unbuilt, hanging, binary  \* texts

MCTexts == {good, flaky, unbuilt, hanging, binary}

Passing == Ends(TRUE, {})

MCKnownChecks == Range(DefaultTask.exposed_checks)

ABacklogCheck == "served_ue_must_have_backlog"

MCOutcomes ==
    (good :> {Passing}) @@ (flaky :> {Passing, Ends(TRUE, {ABacklogCheck}), Dies})
        @@ (unbuilt :> {Ends(FALSE, {})}) @@ (hanging :> {}) @@ (binary :> {Dies})

MCTasks ==
    {DefaultTask,
     [max_revisions |-> 1, exposed_checks |-> <<"unknown", ABacklogCheck>>]}

MCRevisions == {<<p2, p1>>, <<outside, p1, p2>>}

\* A file that passes with one that does not build or is missing, and one that
\* may fail or never ends with one that cannot be decoded.
MCFiles ==
    {(p1 :> x[1]) @@ (p2 :> x[2]) @@ (outside :> good) :
        x \in {<<good, Missing>>, <<flaky, unbuilt>>, <<flaky, binary>>,
               <<hanging, binary>>}}
=============================================================================
