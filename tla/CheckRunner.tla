----------------------------- MODULE CheckRunner -----------------------------
(***************************************************************************)
(* The check process of one candidate (_check_runner) and the harness that *)
(* waits for it (run_checks_in_subprocess).                                *)
(*                                                                         *)
(* The process builds one algorithm object and hands that object to every  *)
(* check, so what the object hides inside may change from one run() to the *)
(* next.  A run() of a scenario returns without serving an empty buffer    *)
(* ("clean"; of the scenario that allows no decision, without any), or     *)
(* returns otherwise ("dirty"), raises an Exception, ends the process, or  *)
(* never returns.  An algorithm without hidden state gives one scenario    *)
(* the same answer every time.  BacklogCheck models one run() in detail.   *)
(***************************************************************************)
EXTENDS CandidateChecks

CONSTANT Requests  \* check ids passed to the process: sequences, maybe empty

\* The scenarios each check runs, in order.
ScenariosOf ==
    [interface_conformance |-> <<"ue_competition", "cqi_difference">>,
     served_ue_must_have_backlog |-> <<"ue_competition", "cqi_difference">>,
     no_eligibility_or_resources_yields_empty_decisions |->
         <<"no_eligibility_or_resources">>]

ASSUME KnownChecksAssumption == KnownChecks = DOMAIN ScenariosOf

ASSUME RequestsAssumption == \A r \in Requests : r \in Seq(Range(r))

ScenarioIds == UNION {Range(ScenariosOf[c]) : c \in KnownChecks}

\* list(_ALL_CHECKS)
AllChecks ==
    <<"interface_conformance", "served_ue_must_have_backlog",
      "no_eligibility_or_resources_yields_empty_decisions">>

VARIABLES
    requested,  \* requested
    stateless,  \* the algorithm hides no state
    answers,    \* history: the first answer of run() to each scenario
    completed,  \* history: <<k, s>> when the run() of s returned in check k
    pc,         \* where the process is
    built,      \* algorithm is not None
    next,       \* position of the check to do next
    at,         \* position of its scenario to run next
    violated,   \* the check has something to report
    results,    \* results, as a set
    output,     \* the result file: {} or {results}
    parent,     \* what run_checks_in_subprocess came to
    answer      \* the results it returned

vars == <<requested, stateless, answers, completed, pc, built, next, at,
          violated, results, output, parent, answer>>
parentVars == <<parent, answer>>
checkVars == <<next, at, violated, results>>

\* A process that is passed no id makes every check.
Init ==
    /\ requested \in {IF ids = <<>> THEN AllChecks ELSE ids : ids \in Requests}
    /\ stateless \in BOOLEAN
    /\ answers = [s \in ScenarioIds |-> "unknown"]
    /\ completed = {}
    /\ pc = "build"
    /\ built = FALSE
    /\ next = 1 /\ at = 1
    /\ violated = FALSE
    /\ results = {}
    /\ output = {}
    /\ parent = "waiting"
    /\ answer = {}

----------------------------------------------------------------------------
\* _check_build_validity: the module and its factory are code of the candidate
\* too, and only a CandidateBuildError is caught.
Build ==
    /\ pc = "build"
    /\ \/ \E b \in BOOLEAN :
             /\ built' = b
             /\ results' = {Result("build_validity", b)}
             /\ pc' = "check"
       \/ pc' \in {"gone", "hung"} /\ UNCHANGED <<built, results>>
    /\ UNCHANGED <<requested, stateless, answers, completed, next, at, violated,
                   output, parentVars>>

Requested == requested[next]

\* Mutant: a check nobody knows is reported as failed.
SkipUnknownFailing ==
    /\ pc = "check" /\ next <= Len(requested)
    /\ Requested \notin KnownChecks
    /\ results' = results \cup {Result(Requested, FALSE)}
    /\ next' = next + 1
    /\ UNCHANGED <<requested, stateless, answers, completed, pc, built, at,
                   violated, output, parentVars>>

SkipUnknown ==
    /\ pc = "check" /\ next <= Len(requested)
    /\ Requested \notin KnownChecks
    /\ next' = next + 1
    /\ UNCHANGED <<requested, stateless, answers, completed, pc, built, at,
                   violated, results, output, parentVars>>

SkipUnbuilt ==
    /\ pc = "check" /\ next <= Len(requested)
    /\ Requested \in KnownChecks /\ ~built
    /\ results' = results \cup {Result(Requested, FALSE)}
    /\ next' = next + 1
    /\ UNCHANGED <<requested, stateless, answers, completed, pc, built, at,
                   violated, output, parentVars>>

\* Mutant: the violations of the check before are not cleared.
StartCheckStale ==
    /\ pc = "check" /\ next <= Len(requested)
    /\ Requested \in KnownChecks /\ built
    /\ pc' = "run"
    /\ at' = 1
    /\ UNCHANGED <<requested, stateless, answers, completed, built, next,
                   violated, results, output, parentVars>>

StartCheck ==
    /\ pc = "check" /\ next <= Len(requested)
    /\ Requested \in KnownChecks /\ built
    /\ pc' = "run"
    /\ at' = 1
    /\ violated' = FALSE
    /\ UNCHANGED <<requested, stateless, answers, completed, built, next,
                   results, output, parentVars>>

Report(passed) ==
    /\ results' = results \cup {Result(Requested, passed)}
    /\ next' = next + 1
    /\ pc' = "check"

\* The answers run() may give to scenario s now.
Answers(s) ==
    IF stateless /\ answers[s] # "unknown" THEN {answers[s]}
    ELSE {"clean", "dirty", "raises", "exits", "hangs"}

\* One run() of a check: an Exception fails the check and ends it.
RunScenario ==
    /\ pc = "run" /\ at <= Len(ScenariosOf[Requested])
    /\ LET s == ScenariosOf[Requested][at]
       IN \E a \in Answers(s) :
             /\ answers' = [answers EXCEPT ![s] = IF @ = "unknown" THEN a ELSE @]
             /\ \/ /\ a \in {"clean", "dirty"}
                   /\ completed' = completed \cup {<<next, s>>}
                   /\ violated' = (violated \/ a = "dirty")
                   /\ at' = at + 1
                   /\ UNCHANGED <<pc, next, results>>
                \/ /\ a = "raises"
                   /\ Report(FALSE)
                   /\ UNCHANGED <<completed, violated, at>>
                \/ /\ a \in {"exits", "hangs"}
                   /\ pc' = IF a = "exits" THEN "gone" ELSE "hung"
                   /\ UNCHANGED <<completed, checkVars>>
    /\ UNCHANGED <<requested, stateless, built, output, parentVars>>

\* Mutant: a check is content with the first of its scenarios.
FinishCheckAfterOne ==
    /\ pc = "run" /\ at > 1
    /\ Report(Requested = "interface_conformance" \/ ~violated)
    /\ UNCHANGED <<requested, stateless, answers, completed, built, at, violated,
                   output, parentVars>>

\* interface_conformance only asks that run() returns.
FinishCheck ==
    /\ pc = "run" /\ at > Len(ScenariosOf[Requested])
    /\ Report(Requested = "interface_conformance" \/ ~violated)
    /\ UNCHANGED <<requested, stateless, answers, completed, built, at, violated,
                   output, parentVars>>

WriteOutput ==
    /\ pc = "check" /\ next > Len(requested)
    /\ output' = {results}
    /\ pc' = "gone"
    /\ UNCHANGED <<requested, stateless, answers, completed, built, checkVars,
                   parentVars>>

----------------------------------------------------------------------------
\* The process is gone: its results, or a failed build without a result file.
ParentReads ==
    /\ parent = "waiting" /\ pc = "gone"
    /\ parent' = "answered"
    /\ answer' = IF output = {} THEN {Result("build_validity", FALSE)} ELSE results
    /\ UNCHANGED <<requested, stateless, answers, completed, pc, built, checkVars,
                   output>>

\* It has printed bytes that are not UTF-8: decoding its output raises in the
\* parent, before the result file is looked for.
ParentRaises ==
    /\ parent = "waiting" /\ pc = "gone"
    /\ parent' = "raised"
    /\ UNCHANGED <<requested, stateless, answers, completed, pc, built, checkVars,
                   output, answer>>

\* timeout_seconds have passed: the process is killed whatever it was doing.
ParentTimesOut ==
    /\ parent = "waiting"
    /\ parent' = "timed_out"
    /\ pc' = "gone"
    /\ UNCHANGED <<requested, stateless, answers, completed, built, checkVars,
                   output, answer>>

ChildStep ==
    /\ parent = "waiting"
    /\ \/ Build
       \/ SkipUnknown \/ SkipUnbuilt
       \/ StartCheck \/ RunScenario \/ FinishCheck
       \/ WriteOutput

Next == ChildStep \/ ParentReads \/ ParentRaises \/ ParentTimesOut

\* Nothing is assumed of the candidate; the harness's clock runs.
Spec == Init /\ [][Next]_vars /\ WF_vars(ParentReads) /\ WF_vars(ParentTimesOut)

----------------------------------------------------------------------------
\* What the harness is told is one outcome of the candidate and nothing else:
\* the build and one verdict per requested check that exists, never an empty
\* list.  With a check requested twice this needs an algorithm without hidden
\* state.
OneOutcomeExplainsIt ==
    parent = "answered" /\ (stateless \/ IsInjective(requested)) =>
        \E o \in Outcome : answer = ChildResults(o, requested)

\* What a check would say of a fresh object.
FreshVerdict(c) ==
    \A s \in Range(ScenariosOf[c]) :
        answers[s] \in IF c = "interface_conformance" THEN {"clean", "dirty"}
                       ELSE {"clean"}

\* The checks of an algorithm without hidden state do not influence one another,
\* in whatever order they are requested: each says what it would say alone, and
\* so the backlog rule never holds without interface conformance.
ChecksAreIndependent ==
    stateless /\ parent = "answered" /\ output # {} =>
        \A r \in answer :
            r.check \in KnownChecks => r.passed = FreshVerdict(r.check)

\* Whatever the algorithm hides, it passes only if run() returned for every
\* scenario of every requested check.
PassedMeansCompleted ==
    parent = "answered" /\ AllPassed(answer) =>
        \A k \in DOMAIN requested :
            requested[k] \in KnownChecks =>
                \A s \in Range(ScenariosOf[requested[k]]) : <<k, s>> \in completed

=============================================================================
