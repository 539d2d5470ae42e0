------------------------------ MODULE Baseline ------------------------------
(***************************************************************************)
(* run_baseline: one agent invocation in a throwaway git worktree, whose   *)
(* candidate is frozen and fed to the evaluator HARNESS6G uses.            *)
(*                                                                         *)
(* An invocation is what one agent does, whatever it means to do: how it   *)
(* ends, what it writes at the editable path (Missing when it writes       *)
(* nothing there), the other paths it touches, whether it printed before a *)
(* timeout and whether a process of its own outlives the kill.  git is     *)
(* installed and does as it is told, except that the worktree may be       *)
(* impossible to create, or to remove while such a process writes to it.   *)
(***************************************************************************)
EXTENDS CandidateChecks, FiniteSets

CONSTANTS
    Agents,         \* invocations
    Configs,        \* records: the file at the editable path at the base commit,
                    \* and whether git status prints that path as it is configured
    ExposedChecks,  \* exposed_checks of the default task
    OtherPaths,     \* paths outside the editable scope
    Unreported      \* those of them .gitignore hides from git status

Invocations ==
    [ends      : {"exits", "times_out", "not_found"},
     printed   : BOOLEAN,
     survives  : BOOLEAN,
     candidate : Texts \cup {Missing},
     others    : SUBSET OtherPaths]

\* The configuration of the repository: candidate.py, new and at the root.
ClaudeCodeNative == [atBase |-> Missing, asWritten |-> TRUE]

ASSUME AgentsAssumption ==
    /\ Agents \subseteq Invocations
    /\ \A a \in Agents : a.survives => a.ends = "times_out"
    /\ Configs \subseteq [atBase : Texts \cup {Missing}, asWritten : BOOLEAN]

VARIABLES
    pc,          \* where run_baseline is
    config,      \* the configuration, as far as it matters here
    agent,       \* what the invocation of this run does
    worktree,    \* {} or {the candidate file and the other paths touched}
    record,      \* the terminal record
    runDir,      \* frozen_candidate.py, frozen_manifest.json, record.json
    evaluated    \* history: the outcome of the check process, by {} or {o}

vars == <<pc, config, agent, worktree, record, runDir, evaluated>>

NoRecord == [reason |-> "None", hash |-> Missing, candidate |-> FALSE,
             manifest |-> Missing]

Init ==
    /\ pc = "setup"
    /\ config \in Configs
    /\ agent \in Agents
    /\ worktree = {}
    /\ record = NoRecord
    /\ runDir = [frozen |-> Missing, manifest |-> Missing, record |-> {}]
    /\ evaluated = {}

----------------------------------------------------------------------------
\* The one end that writes its record outside the finally block.
SetupFails ==
    /\ pc = "setup"
    /\ pc' = "returned"
    /\ record' = [record EXCEPT !.reason = "worktree_setup_failed"]
    /\ runDir' = [runDir EXCEPT !.record = {record'}]
    /\ UNCHANGED <<config, agent, worktree, evaluated>>

SetUp ==
    /\ pc = "setup"
    /\ pc' = "invoke"
    /\ worktree' = {[candidate |-> config.atBase, others |-> {}]}
    /\ UNCHANGED <<config, agent, record, runDir, evaluated>>

\* What the invocation leaves in the worktree.
Touched ==
    {[candidate |-> IF agent.candidate = Missing THEN config.atBase ELSE agent.candidate,
      others    |-> agent.others]}

\* A CLI that is not found leaves nothing, and is not told apart from one that
\* exits: succeeded is never looked at.
AgentEnds ==
    /\ pc = "invoke"
    /\ agent.ends \in {"exits", "not_found"}
    /\ worktree' = IF agent.ends = "exits" THEN Touched ELSE worktree
    /\ pc' = "look"
    /\ UNCHANGED <<config, agent, record, runDir, evaluated>>

AgentKilledSilent ==
    /\ pc = "invoke"
    /\ agent.ends = "times_out"
    /\ ~agent.printed
    /\ worktree' = Touched
    /\ record' = [record EXCEPT !.reason = "timeout"]
    /\ pc' = "ending"
    /\ UNCHANGED <<config, agent, runDir, evaluated>>

\* The output TimeoutExpired carries is bytes even in text mode (CPython on
\* POSIX), and write_text refuses it before timed_out is looked at.
AgentKilledAfterPrinting ==
    /\ pc = "invoke"
    /\ agent.ends = "times_out"
    /\ agent.printed
    /\ worktree' = Touched
    /\ pc' = "raising"
    /\ UNCHANGED <<config, agent, record, runDir, evaluated>>

Worktree == CHOOSE w \in worktree : TRUE

\* extra_paths: what git status --porcelain prints that is not the editable path.
\* It prints no ignored path, a new directory in place of the files in it, and
\* names with blanks or non-ASCII characters in quotes.
ExtraPaths ==
    (Worktree.others \ Unreported)
        \cup (IF Worktree.candidate # config.atBase /\ ~config.asWritten
              THEN {"editable_path_otherwise_written"} ELSE {})

NoCandidate ==
    /\ pc = "look"
    /\ Worktree.candidate = Missing
    /\ pc' = "ending"
    /\ record' = [record EXCEPT !.reason = "no_candidate_produced"]
    /\ UNCHANGED <<config, agent, worktree, runDir, evaluated>>

\* Mutant: the candidate is hashed into the record before the scope is checked.
ScopeViolatedAfterHashing ==
    /\ pc = "look"
    /\ Worktree.candidate # Missing
    /\ ExtraPaths # {}
    /\ pc' = "ending"
    /\ record' = [record EXCEPT !.reason = "editable_scope_violation",
                                !.hash = Worktree.candidate]
    /\ UNCHANGED <<config, agent, worktree, runDir, evaluated>>

ScopeViolated ==
    /\ pc = "look"
    /\ Worktree.candidate # Missing
    /\ ExtraPaths # {}
    /\ pc' = "ending"
    /\ record' = [record EXCEPT !.reason = "editable_scope_violation"]
    /\ UNCHANGED <<config, agent, worktree, runDir, evaluated>>

\* Mutant: the scope is not checked.
FreezeUnscoped ==
    /\ pc = "look"
    /\ Worktree.candidate \in Texts \ Undecodable
    /\ pc' = "evaluate"
    /\ record' = [record EXCEPT !.hash = Worktree.candidate,
                                !.candidate = TRUE,
                                !.manifest = Worktree.candidate]
    /\ runDir' = [runDir EXCEPT !.frozen = Worktree.candidate,
                                !.manifest = Worktree.candidate]
    /\ UNCHANGED <<config, agent, worktree, evaluated>>

\* The candidate is hashed, frozen and recorded.
Freeze ==
    /\ pc = "look"
    /\ Worktree.candidate \in Texts \ Undecodable
    /\ ExtraPaths = {}
    /\ pc' = "evaluate"
    /\ record' = [record EXCEPT !.hash = Worktree.candidate,
                                !.candidate = TRUE,
                                !.manifest = Worktree.candidate]
    /\ runDir' = [runDir EXCEPT !.frozen = Worktree.candidate,
                                !.manifest = Worktree.candidate]
    /\ UNCHANGED <<config, agent, worktree, evaluated>>

\* read_text raises on a candidate that is not UTF-8.
ReadRaises ==
    /\ pc = "look"
    /\ Worktree.candidate \in Undecodable
    /\ ExtraPaths = {}
    /\ pc' = "raising"
    /\ UNCHANGED <<config, agent, worktree, record, runDir, evaluated>>

\* evaluate_public with the check process ending, then the reason from its
\* categories.  Each result has a category of its own but for the build, so all
\* categories hold when all results do.
EvaluateEnds ==
    /\ pc = "evaluate"
    /\ \E o \in Outcomes[runDir.frozen] :
          /\ evaluated' = {o}
          /\ record' = [record EXCEPT !.reason =
                 IF Verifies(runDir) /\ AllPassed(ChildResults(o, ExposedChecks))
                 THEN "checks_passed" ELSE "checks_failed"]
    /\ pc' = "ending"
    /\ UNCHANGED <<config, agent, worktree, runDir>>

\* Mutant: a check process that never ends is not interrupted.
EvaluateTimesOutIfItWouldEnd ==
    /\ pc = "evaluate"
    /\ Outcomes[runDir.frozen] # {}
    /\ record' = [record EXCEPT !.reason = "checks_timeout"]
    /\ pc' = "ending"
    /\ UNCHANGED <<config, agent, worktree, runDir, evaluated>>

EvaluateTimesOut ==
    /\ pc = "evaluate"
    /\ record' = [record EXCEPT !.reason = "checks_timeout"]
    /\ pc' = "ending"
    /\ UNCHANGED <<config, agent, worktree, runDir, evaluated>>

\* The check process ended after printing bytes that are not UTF-8: decoding its
\* output raises, and only a timeout is caught.
EvaluateRaises ==
    /\ pc = "evaluate"
    /\ runDir.frozen \in Garbling
    /\ Outcomes[runDir.frozen] # {}
    /\ pc' = "raising"
    /\ UNCHANGED <<config, agent, worktree, record, runDir, evaluated>>

----------------------------------------------------------------------------
\* finally: the record first, then the worktree.
\* Mutant: only a run that returns writes its record.
WriteRecordOnReturn ==
    /\ pc \in {"ending", "raising"}
    /\ runDir' = IF pc = "ending" THEN [runDir EXCEPT !.record = {record}]
                 ELSE runDir
    /\ pc' = IF pc = "ending" THEN "recorded" ELSE "recorded_raising"
    /\ UNCHANGED <<config, agent, worktree, record, evaluated>>

WriteRecord ==
    /\ pc \in {"ending", "raising"}
    /\ runDir' = [runDir EXCEPT !.record = {record}]
    /\ pc' = IF pc = "ending" THEN "recorded" ELSE "recorded_raising"
    /\ UNCHANGED <<config, agent, worktree, record, evaluated>>

\* The exit code of git worktree remove is not looked at.
RemoveWorktree ==
    /\ pc \in {"recorded", "recorded_raising"}
    /\ \/ worktree' = {}
       \/ agent.survives /\ UNCHANGED worktree
    /\ pc' = IF pc = "recorded" THEN "returned" ELSE "raised"
    /\ UNCHANGED <<config, agent, record, runDir, evaluated>>

Ended == pc \in {"returned", "raised"}

Next == \/ SetupFails \/ SetUp
        \/ AgentEnds \/ AgentKilledSilent \/ AgentKilledAfterPrinting
        \/ NoCandidate \/ ScopeViolated \/ Freeze \/ ReadRaises
        \/ EvaluateEnds \/ EvaluateTimesOut \/ EvaluateRaises
        \/ WriteRecord \/ RemoveWorktree

Spec == Init /\ [][Next]_vars /\ WF_vars(Next)

----------------------------------------------------------------------------
\* What a run leaves behind, however it ends: the record it returned on disk, also
\* when it raised, and no worktree, unless a process of the agent outlived its
\* timeout (the docstring promises to remove it always).
NothingLeftBehind ==
    Ended => /\ runDir.record = {record}
             /\ worktree # {} => record.reason \in {"timeout", "None"}

\* What a run accepts is what the agent left at the editable path within its
\* timeout: the text it wrote, and no other, or the base commit's file when it
\* exited without writing one or was never found.  Where the base commit has no
\* such file, as in the configuration of the repository, it is the agent's own.
\* Apart from paths git ignores it left nothing else changed, the file is frozen
\* under the hash in the record, and it passed every exposed check in the public
\* evaluation.
AcceptedIsWhatTheAgentLeft ==
    record.reason = "checks_passed" =>
        /\ agent.ends # "times_out"
        /\ config.atBase = Missing =>
              agent.ends = "exits" /\ record.hash = agent.candidate
        /\ agent.ends = "exits" => agent.others \subseteq Unreported
        /\ record.hash = IF agent.ends = "exits" /\ agent.candidate # Missing
                         THEN agent.candidate ELSE config.atBase
        /\ runDir.frozen = record.hash
        /\ runDir.manifest = record.hash
        /\ \E o \in evaluated :
              o.builds /\ o.fails \cap Range(ExposedChecks) \cap KnownChecks = {}

\* Nothing stands in for a missing candidate: a run that ends before the
\* evaluation has no terminal candidate, and none is in its directory.
NothingSubstituted ==
    record.reason \in {"worktree_setup_failed", "timeout", "no_candidate_produced",
                       "editable_scope_violation"}
        => /\ record.hash = Missing /\ ~record.candidate
           /\ runDir.frozen = Missing /\ runDir.manifest = Missing

\* Every way a run can end is a named termination reason, runs that raise
\* included.
EveryEndIsNamed == Ended => record.reason # "None"

\* A run always ends, a candidate that hangs its checks included.
RunEnds == <>Ended

\* Nothing is substituted for a missing candidate: a run whose agent produced none
\* has no terminal candidate.
NoCandidateNoSubstitute ==
    agent.ends = "not_found" \/ agent.candidate = Missing => ~record.candidate

\* Anything touched besides the editable path is a scope violation: nothing the
\* agent did outside its scope goes with an accepted candidate.
OnlyTheScopeWasTouched == record.reason = "checks_passed" => agent.others = {}

\* Touching the editable path is not a scope violation.
ViolationsTouchOthers ==
    record.reason = "editable_scope_violation" => agent.others # {}
=============================================================================
