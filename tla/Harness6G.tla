----------------------------- MODULE Harness6G -----------------------------
(***************************************************************************)
(* run_harness6g and evaluate_public on one run directory: successive      *)
(* invocations, each over its own list of candidate revisions, an editor   *)
(* that may rewrite, delete or create a candidate file at any moment (the  *)
(* generating process of mode "live"), and a crash of the harness between  *)
(* any two steps or in the middle of a write.                              *)
(*                                                                         *)
(* A candidate file is read three times: by the harness, which hashes it;  *)
(* by the check process; and again by the harness, which freezes it.  The  *)
(* check process imports it, and the import system prefers the compiled    *)
(* text it keeps beside the file to the file itself, as long as the file   *)
(* has the size and the modification time, in whole seconds, that the      *)
(* compiled text was made from.                                            *)
(***************************************************************************)
EXTENDS CandidateChecks, FiniteSets

CONSTANTS
    Paths,      \* candidate files
    InScope,    \* those that resolve inside the task's editable_scope
    Tasks,      \* task_spec: records of max_revisions and exposed_checks
    Revisions,  \* candidate_revisions: sequences of paths
    Files,      \* the candidate files an evaluation may start from
    NoPath,     \* accepted_source is None
    SameStamp,  \* whether a rewrite may keep a file's size and second
    MaxRuns,    \* bound: invocations on the run directory
    MaxEdits,   \* bound: changes of a candidate file
    MaxCrashes  \* bound: crashes of the harness

\* StoppingPolicy and TaskSpec refuse anything else; the other fields are not
\* looked at by the harness, and the scope is InScope.
ValidPolicy(t) == t.max_revisions >= 1

ValidTask(t) == ValidPolicy(t) /\ t.exposed_checks # <<>>

DefaultTask ==
    [max_revisions  |-> 3,
     exposed_checks |-> <<"interface_conformance", "served_ue_must_have_backlog",
                          "no_eligibility_or_resources_yields_empty_decisions">>]

ASSUME TasksAssumption ==
    (\A t \in Tasks : t.max_revisions \in Nat /\ ValidTask(t)) /\ SameStamp \in BOOLEAN

ASSUME PathsAssumption ==
    /\ InScope \subseteq Paths /\ NoPath \notin Paths
    /\ Files \subseteq [Paths -> Texts \cup {Missing}]
    /\ Revisions \subseteq Seq(Paths)

VARIABLES
    files,              \* the text of every candidate file
    bytecode,           \* the compiled text that counts as current for each file
    runDir,             \* frozen_candidate.py, frozen_manifest.json, evidence.json
    pc,                 \* where the harness is
    task,               \* task_spec of this invocation
    revisions,          \* candidate_revisions
    index,              \* revision being tried, from 0
    loaded,             \* source_text, by its hash
    child,              \* the text the check process has read
    observations,       \* state.observations
    correctionCount,    \* state.correction_count
    terminationReason,  \* state.termination_reason
    accepted,           \* accepted_source
    evaluation,         \* what the last evaluate_public returned
    frozenCode,         \* the compiled text that counts as that of the frozen copy
    runs, edits, crashes,
    touched,            \* history: files rewritten since this run loaded them
    frozenTexts         \* history: the texts freeze_candidate set out to copy

codeVars == <<bytecode, frozenCode>>
runVars == <<task, revisions, index, loaded, child, observations,
             correctionCount, terminationReason, accepted>>
history == <<runs, edits, crashes, touched, frozenTexts>>
vars == <<files, codeVars, runDir, pc, runVars, evaluation, history>>

NoEvaluation == [integrity |-> "none", text |-> Missing, results |-> {}]

Stopped == {"idle", "refused", "returned", "raised", "crashed", "evaluated"}

Init ==
    /\ files \in Files
    /\ bytecode = [p \in Paths |-> Missing]
    /\ frozenCode = Missing
    /\ runDir = [frozen |-> Missing, manifest |-> Missing, evidence |-> Missing]
    /\ pc = "idle"
    /\ task \in Tasks
    /\ revisions = <<>>
    /\ index = 0
    /\ loaded = Missing
    /\ child = Missing
    /\ observations = <<>>
    /\ correctionCount = 0
    /\ terminationReason = "None"
    /\ accepted = NoPath
    /\ evaluation = NoEvaluation
    /\ runs = 0 /\ edits = 0 /\ crashes = 0
    /\ touched = {}
    /\ frozenTexts = {}

----------------------------------------------------------------------------
\* A mode other than live, replay and import is refused before anything else.
RefuseMode ==
    /\ pc \in Stopped
    /\ runs < MaxRuns
    /\ pc' = "refused"
    /\ runs' = runs + 1
    /\ UNCHANGED <<files, codeVars, runDir, runVars, evaluation, edits, crashes, touched,
                   frozenTexts>>

Invoke ==
    /\ pc \in Stopped
    /\ runs < MaxRuns
    /\ pc' = "load"
    /\ runs' = runs + 1
    /\ task' \in Tasks
    /\ revisions' \in Revisions
    /\ index' = 0
    /\ loaded' = Missing
    /\ child' = Missing
    /\ observations' = <<>>
    /\ correctionCount' = 0
    /\ terminationReason' = "None"
    /\ accepted' = NoPath
    /\ evaluation' = NoEvaluation
    /\ touched' = {}
    /\ UNCHANGED <<files, codeVars, runDir, edits, crashes, frozenTexts>>

\* revisions_to_try = candidate_revisions[:max_revisions]
Tried ==
    IF Len(revisions) <= task.max_revisions THEN Len(revisions)
    ELSE task.max_revisions

Candidate == revisions[index + 1]

Observe(hash, results) ==
    observations' =
        Append(observations, [revision |-> index, hash |-> hash, results |-> results])

\* A revision outside the scope or without a file is observed as a failed build
\* and the next one is tried.
LoadRefused ==
    /\ pc = "load"
    /\ index < Tried
    /\ Candidate \notin InScope \/ files[Candidate] = Missing
    /\ Observe(Missing, {Result("build_validity", FALSE)})
    /\ correctionCount' = correctionCount + 1
    /\ index' = index + 1
    /\ UNCHANGED <<files, codeVars, runDir, pc, task, revisions, loaded, child,
                   terminationReason, accepted, evaluation, history>>

\* read_text raises on bytes that are not UTF-8, and nothing catches it.
LoadRaises ==
    /\ pc = "load"
    /\ index < Tried
    /\ Candidate \in InScope
    /\ files[Candidate] \in Undecodable
    /\ pc' = "raised"
    /\ UNCHANGED <<files, codeVars, runDir, runVars, evaluation, history>>

Load ==
    /\ pc = "load"
    /\ index < Tried
    /\ Candidate \in InScope
    /\ files[Candidate] \in Texts \ Undecodable
    /\ loaded' = files[Candidate]
    /\ touched' = touched \ {Candidate}
    /\ pc' = "spawned"
    /\ UNCHANGED <<files, codeVars, runDir, task, revisions, index, child, observations,
                   correctionCount, terminationReason, accepted, evaluation,
                   runs, edits, crashes, frozenTexts>>

\* The text an import of a file executes: build_candidate_algorithm decodes the
\* file first, to name the module, so one that cannot be decoded is not imported.
Imported(file, code) ==
    IF code = Missing \/ file \in Undecodable \cup {Missing, Torn} THEN file ELSE code

\* The compiled text kept after it: that of the text executed, unless it could
\* not be compiled or not be kept.
KeptCode(file, code) ==
    IF file \in Undecodable \cup {Missing, Torn} THEN {code} ELSE {code, Imported(file, code)}

\* The check process imports the file for itself.
ChildReads ==
    /\ pc = "spawned"
    /\ child' = Imported(files[Candidate], bytecode[Candidate])
    /\ \E code \in KeptCode(files[Candidate], bytecode[Candidate]) :
          bytecode' = [bytecode EXCEPT ![Candidate] = code]
    /\ pc' = "checking"
    /\ UNCHANGED <<files, frozenCode, runDir, task, revisions, index, loaded, observations,
                   correctionCount, terminationReason, accepted, evaluation,
                   history>>

\* Mutant: a result list with a failed check is accepted if any check passed.
ChildEndsOnAnyPass ==
    /\ pc = "checking"
    /\ \E o \in OutcomesOf(child) :
          LET results == ChildResults(o, task.exposed_checks)
          IN /\ Observe(loaded, results)
             /\ IF \E r \in results : r.passed
                THEN /\ accepted' = Candidate
                     /\ terminationReason' = "checks_passed"
                     /\ pc' = "conclude"
                     /\ UNCHANGED <<correctionCount, index>>
                ELSE /\ correctionCount' = correctionCount + 1
                     /\ index' = index + 1
                     /\ pc' = "load"
                     /\ UNCHANGED <<accepted, terminationReason>>
    /\ UNCHANGED <<files, codeVars, runDir, task, revisions, loaded, child, evaluation,
                   history>>

\* Its results become an observation; the first revision that passes everything
\* ends the loop.
ChildEnds ==
    /\ pc = "checking"
    /\ \E o \in OutcomesOf(child) :
          LET results == ChildResults(o, task.exposed_checks)
          IN /\ Observe(loaded, results)
             /\ IF AllPassed(results)
                THEN /\ accepted' = Candidate
                     /\ terminationReason' = "checks_passed"
                     /\ pc' = "conclude"
                     /\ UNCHANGED <<correctionCount, index>>
                ELSE /\ correctionCount' = correctionCount + 1
                     /\ index' = index + 1
                     /\ pc' = "load"
                     /\ UNCHANGED <<accepted, terminationReason>>
    /\ UNCHANGED <<files, codeVars, runDir, task, revisions, loaded, child, evaluation,
                   history>>

\* The output of a check process that has ended is decoded before anything else is
\* looked at; only a timeout is caught.
ChildGarbles ==
    /\ pc = "checking"
    /\ child \in Garbling
    /\ OutcomesOf(child) # {}
    /\ pc' = "raised"
    /\ UNCHANGED <<files, codeVars, runDir, runVars, evaluation, history>>

\* Mutant: a check process that never ends is not interrupted.
ChildTimesOutIfItWouldEnd ==
    /\ pc \in {"spawned", "checking"}
    /\ pc = "checking" => OutcomesOf(child) # {}
    /\ Observe(loaded, {Result("timeout", FALSE)})
    /\ correctionCount' = correctionCount + 1
    /\ terminationReason' = "timeout"
    /\ pc' = "conclude"
    /\ UNCHANGED <<files, codeVars, runDir, task, revisions, index, loaded, child,
                   accepted, evaluation, history>>

\* The process is killed at timeout_seconds, whatever it was doing, and the run
\* tries no further revision.
ChildTimesOut ==
    /\ pc \in {"spawned", "checking"}
    /\ Observe(loaded, {Result("timeout", FALSE)})
    /\ correctionCount' = correctionCount + 1
    /\ terminationReason' = "timeout"
    /\ pc' = "conclude"
    /\ UNCHANGED <<files, codeVars, runDir, task, revisions, index, loaded, child,
                   accepted, evaluation, history>>

RunOut ==
    /\ pc = "load"
    /\ index = Tried
    /\ terminationReason' = IF Len(revisions) > Tried THEN "max_revisions_exceeded"
                            ELSE "revisions_exhausted"
    /\ pc' = "conclude"
    /\ UNCHANGED <<files, codeVars, runDir, task, revisions, index, loaded, child,
                   observations, correctionCount, accepted, evaluation, history>>

----------------------------------------------------------------------------
Evidence(manifest) ==
    [reason |-> terminationReason, corrections |-> correctionCount,
     observations |-> observations, frozen |-> manifest]

\* Nothing was accepted: only the evidence is written.
WriteEvidence ==
    /\ pc = "conclude"
    /\ accepted = NoPath
    /\ runDir' = [runDir EXCEPT !.evidence = Evidence(Missing)]
    /\ pc' = "returned"
    /\ UNCHANGED <<files, codeVars, runVars, evaluation, history>>

\* The compiled texts that count as current after the file is rewritten.
Restamped(code) == {Missing} \cup (IF SameStamp THEN {code} ELSE {})

\* Mutant: the first revision is frozen, not the accepted one.
FreezeCopyOfTheFirst ==
    /\ pc = "conclude"
    /\ accepted # NoPath
    /\ files[revisions[1]] \in Texts \ Undecodable
    /\ runDir' = [runDir EXCEPT !.frozen = files[revisions[1]]]
    /\ frozenCode' \in Restamped(frozenCode)
    /\ frozenTexts' = frozenTexts \cup {files[revisions[1]]}
    /\ pc' = "frozen"
    /\ UNCHANGED <<files, bytecode, runVars, evaluation, runs, edits, crashes, touched>>

\* freeze_candidate: the accepted file is read again and copied.
FreezeCopy ==
    /\ pc = "conclude"
    /\ accepted # NoPath
    /\ files[accepted] \in Texts \ Undecodable
    /\ runDir' = [runDir EXCEPT !.frozen = files[accepted]]
    /\ frozenCode' \in Restamped(frozenCode)
    /\ frozenTexts' = frozenTexts \cup {files[accepted]}
    /\ pc' = "frozen"
    /\ UNCHANGED <<files, bytecode, runVars, evaluation, runs, edits, crashes, touched>>

\* It raises if the file is gone by then or can no longer be decoded.
FreezeRaises ==
    /\ pc = "conclude"
    /\ accepted # NoPath
    /\ files[accepted] \in Undecodable \cup {Missing}
    /\ pc' = "raised"
    /\ UNCHANGED <<files, codeVars, runDir, runVars, evaluation, history>>

\* Mutant: the manifest keeps the hash taken when the candidate was loaded.
FreezeManifestOfLoaded ==
    /\ pc = "frozen"
    /\ runDir' = [runDir EXCEPT !.manifest = loaded]
    /\ pc' = "manifest"
    /\ UNCHANGED <<files, codeVars, runVars, evaluation, history>>

\* compute_manifest hashes the copy, not the accepted file.
FreezeManifest ==
    /\ pc = "frozen"
    /\ runDir' = [runDir EXCEPT !.manifest = runDir.frozen]
    /\ pc' = "manifest"
    /\ UNCHANGED <<files, codeVars, runVars, evaluation, history>>

\* Mutant: the evidence is put together before the freeze, without its manifest.
WriteEvidenceOfNothing ==
    /\ pc = "manifest"
    /\ runDir' = [runDir EXCEPT !.evidence = Evidence(Missing)]
    /\ pc' = "returned"
    /\ UNCHANGED <<files, codeVars, runVars, evaluation, history>>

WriteEvidenceOfFrozen ==
    /\ pc = "manifest"
    /\ runDir' = [runDir EXCEPT !.evidence = Evidence(runDir.manifest)]
    /\ pc' = "returned"
    /\ UNCHANGED <<files, codeVars, runVars, evaluation, history>>

----------------------------------------------------------------------------
\* evaluate_public, once the harness has stopped
Evaluate ==
    /\ pc \in {"returned", "raised", "crashed"}
    /\ evaluation = NoEvaluation
    /\ IF VerifyRaises(runDir)
       THEN /\ pc' = "evaluated"
            /\ evaluation' = [NoEvaluation EXCEPT !.integrity = "raised"]
       ELSE IF Verifies(runDir)
       THEN /\ pc' = "evaluating"
            /\ evaluation' = [NoEvaluation EXCEPT !.integrity = "ok",
                                                  !.text = runDir.frozen]
       ELSE /\ pc' = "evaluated"
            /\ evaluation' = [NoEvaluation EXCEPT !.integrity = "refused"]
    /\ UNCHANGED <<files, codeVars, runDir, runVars, history>>

\* The checks run again, on the frozen copy; a timeout is raised to the caller, and
\* so is output that cannot be decoded.
EvaluateChecks ==
    /\ pc = "evaluating"
    /\ pc' = "evaluated"
    /\ frozenCode' \in KeptCode(evaluation.text, frozenCode)
    /\ LET text == Imported(evaluation.text, frozenCode)
       IN \/ \E o \in OutcomesOf(text) :
                evaluation' = [evaluation EXCEPT
                                  !.results = ChildResults(o, task.exposed_checks)]
          \/ evaluation' = [evaluation EXCEPT !.integrity = "raised"]
    /\ UNCHANGED <<files, bytecode, runDir, runVars, history>>

----------------------------------------------------------------------------
\* The environment rewrites a candidate file, deletes it or creates it.
Edit ==
    /\ edits < MaxEdits
    /\ \E p \in Paths, t \in Texts \cup {Missing} :
          /\ files[p] # t
          /\ files' = [files EXCEPT ![p] = t]
          /\ \E code \in Restamped(bytecode[p]) :
                bytecode' = [bytecode EXCEPT ![p] = code]
          /\ touched' = touched \cup {p}
    /\ edits' = edits + 1
    /\ UNCHANGED <<frozenCode, runDir, pc, runVars, evaluation, runs, crashes, frozenTexts>>

\* The file the harness is about to write; a crash may leave it half written.
Writing ==
    CASE pc = "conclude" /\ accepted = NoPath -> {"evidence"}
      [] pc = "conclude" /\ accepted # NoPath /\ files[accepted] \in Texts \ Undecodable
                                              -> {"frozen"}
      [] pc = "frozen"                        -> {"manifest"}
      [] pc = "manifest"                      -> {"evidence"}
      [] OTHER                                -> {}

Crash ==
    /\ pc \notin Stopped \cup {"evaluating"}
    /\ crashes < MaxCrashes
    /\ crashes' = crashes + 1
    /\ pc' = "crashed"
    /\ \/ UNCHANGED <<runDir, frozenCode>>
       \/ \E f \in Writing :
             /\ runDir' = [runDir EXCEPT ![f] = Torn]
             /\ frozenCode' = IF f = "frozen" THEN Missing ELSE frozenCode
    /\ UNCHANGED <<files, bytecode, runVars, evaluation, runs, edits, touched, frozenTexts>>

\* Everything the harness does by itself once invoked.
HarnessStep ==
    \/ LoadRefused \/ LoadRaises \/ Load
    \/ ChildReads \/ ChildEnds \/ ChildGarbles \/ ChildTimesOut
    \/ RunOut
    \/ WriteEvidence \/ FreezeCopy \/ FreezeRaises
    \/ FreezeManifest \/ WriteEvidenceOfFrozen
    \/ EvaluateChecks

Next == HarnessStep \/ RefuseMode \/ Invoke \/ Evaluate \/ Edit \/ Crash

\* The harness runs on while it can: its own steps never wait for anything but
\* the check process, which the timeout ends.
Spec == Init /\ [][Next]_vars /\ WF_vars(HarnessStep)

----------------------------------------------------------------------------
Kept == Texts \cup {Missing, Torn}

TypeOK ==
    /\ files \in [Paths -> Texts \cup {Missing}]
    /\ bytecode \in [Paths -> (Texts \ Undecodable) \cup {Missing}]
    /\ frozenCode \in (Texts \ Undecodable) \cup {Missing}
    /\ runDir.frozen \in Kept /\ runDir.manifest \in Kept /\ evaluation.text \in Kept
    /\ pc \in Stopped \cup {"load", "spawned", "checking", "conclude", "frozen",
                           "manifest", "evaluating"}
    /\ index \in 0 .. Tried
    /\ loaded \in (Texts \ Undecodable) \cup {Missing}
    /\ child \in Texts \cup {Missing}
    /\ Len(observations) <= Tried
    /\ correctionCount \in 0 .. Len(observations)
    /\ accepted \in Paths \cup {NoPath}
    /\ terminationReason \in {"None", "checks_passed", "timeout",
                             "max_revisions_exceeded", "revisions_exhausted"}

Last == observations[Len(observations)]

TimedOut(o) == o.results = {Result("timeout", FALSE)}

\* The evidence of a run tells one story: its observations are the revisions in
\* order with none left out, all but the last of them failed without a timeout,
\* correction_count is the number of failed ones, and the termination reason is
\* the one the last observation and the revisions left over call for.
ObservationsExplainTheReason ==
    LET n == Len(observations)
        failed(k) == ~AllPassed(observations[k].results)
    IN /\ \A k \in 1 .. n : observations[k].revision = k - 1
       /\ \A k \in 1 .. n - 1 : failed(k) /\ ~TimedOut(observations[k])
       /\ correctionCount = Cardinality({k \in 1 .. n : failed(k)})
       /\ terminationReason = "checks_passed" <=> n > 0 /\ ~failed(n)
       /\ terminationReason = "timeout" <=> n > 0 /\ TimedOut(Last)
       /\ terminationReason = "max_revisions_exceeded" =>
              n = task.max_revisions /\ n < Len(revisions)
       /\ terminationReason = "revisions_exhausted" => n = Len(revisions)
       /\ pc = "returned" => terminationReason # "None"

\* What the harness accepts built and passed every exposed check that exists, in
\* the process that checked it.
AcceptedPassedEveryCheck ==
    terminationReason = "checks_passed" =>
        \E o \in OutcomesOf(child) :
            /\ o.builds
            /\ \A c \in Range(task.exposed_checks) \cap KnownChecks : c \notin o.fails
            /\ Last.results = ChildResults(o, task.exposed_checks)

\* Unless the accepted file is rewritten between its first read and the end of
\* the run, or keeps the stamp of an earlier compiled text, the text that was
\* hashed, the text that was checked, the frozen copy, its manifest and the
\* evidence are one and the same.
FrozenIsWhatPassed ==
    pc = "returned" /\ terminationReason = "checks_passed" /\ accepted \notin touched
        /\ bytecode[accepted] \in {Missing, files[accepted]} =>
        /\ child = Last.hash
        /\ runDir.frozen = child
        /\ runDir.manifest = child
        /\ runDir.evidence.frozen = child

\* Even if the file is rewritten during the run, the manifest in the evidence is
\* that of the copy in the run directory.
EvidenceMatchesTheCopy ==
    pc = "returned" /\ runDir.evidence.frozen # Missing =>
        /\ runDir.manifest = runDir.evidence.frozen
        /\ runDir.frozen = runDir.evidence.frozen

\* Whatever crashes and earlier runs left in the run directory, evaluate_public
\* only ever checks a text that some run accepted and copied whole.
VerifiedWasFrozenWhole ==
    evaluation.integrity = "ok" => evaluation.text \in frozenTexts

\* In a run directory that one invocation has used, and whose evidence is whole,
\* evaluate_public accepts only the copy that evidence tells of; nothing that a
\* run without an accepted revision left there is ever evaluated.
EvaluatedIsInTheEvidence ==
    runs = 1 /\ evaluation.integrity = "ok"
        /\ runDir.evidence \notin {Missing, Torn} =>
            runDir.evidence.frozen = evaluation.text

\* Every invocation stops, hanging candidates included.
EveryRunStops == pc = "load" ~> pc \in Stopped

\* "revisions_exhausted" is for a sequence that runs out before max_revisions is
\* reached; reaching max_revisions without a pass is "max_revisions_exceeded".
MaxRevisionsIsReported ==
    terminationReason = "revisions_exhausted" =>
        Len(observations) < task.max_revisions

\* Two revisions never collide: what is checked under the hash of a text nobody
\* rewrites meanwhile is that text.
TwoRevisionsNeverCollide ==
    pc = "checking" /\ Candidate \notin touched => child = loaded
=============================================================================
