-------------------------- MODULE CheckRunnerProofs --------------------------
(***************************************************************************)
(* The check process and the harness that waits for it, for any requested  *)
(* checks, in any order and number, and any behaviour of the candidate.    *)
(***************************************************************************)
EXTENDS CheckRunner, SequenceTheorems, TLAPS

AnswerKinds == {"clean", "dirty", "raises", "exits", "hangs"}

Scenarios(k) == ScenariosOf[requested[k]]

\* Each check runs a few known scenarios; a build is no such check.
LEMMA ScenarioFacts ==
    /\ "build_validity" \notin KnownChecks
    /\ \A c \in KnownChecks :
          /\ Len(ScenariosOf[c]) \in Nat
          /\ Range(ScenariosOf[c]) = {ScenariosOf[c][i] : i \in 1 .. Len(ScenariosOf[c])}
          /\ Range(ScenariosOf[c]) \subseteq ScenarioIds
          /\ Len(ScenariosOf[c]) >= 1
<1>1. KnownChecks = {"interface_conformance", "served_ue_must_have_backlog",
                     "no_eligibility_or_resources_yields_empty_decisions"}
  BY KnownChecksAssumption DEF ScenariosOf
<1>2. \A c \in KnownChecks :
         ScenariosOf[c] \in {<<"ue_competition", "cqi_difference">>,
                             <<"no_eligibility_or_resources">>}
  BY <1>1 DEF ScenariosOf
<1>3. \A c \in KnownChecks :
         /\ Len(ScenariosOf[c]) \in Nat /\ Len(ScenariosOf[c]) >= 1
         /\ DOMAIN ScenariosOf[c] = 1 .. Len(ScenariosOf[c])
  BY <1>2
<1>4. \A c \in KnownChecks : Range(ScenariosOf[c]) \subseteq ScenarioIds
  BY DEF ScenarioIds
<1> QED
  <2>1. "build_validity" \notin KnownChecks
    BY <1>1
  <2>2. ASSUME NEW c \in KnownChecks
        PROVE  Range(ScenariosOf[c]) = {ScenariosOf[c][i] : i \in 1 .. Len(ScenariosOf[c])}
    BY <1>3 DEF Range
  <2>3. ASSUME NEW c \in KnownChecks
        PROVE  Len(ScenariosOf[c]) \in Nat /\ Len(ScenariosOf[c]) >= 1
    BY <1>3
  <2> QED
    BY <1>4, <2>1, <2>2, <2>3

Types ==
    /\ requested \in Seq(Range(requested))
    /\ answers \in [ScenarioIds -> AnswerKinds \cup {"unknown"}]
    /\ next \in Nat /\ 1 <= next /\ next <= Len(requested) + 1
    /\ at \in Nat /\ 1 <= at
    /\ pc \in {"check", "run"} => Result("build_validity", built) \in results
    /\ pc = "run" =>
          /\ next <= Len(requested)
          /\ Requested \in KnownChecks
          /\ at <= Len(Scenarios(next)) + 1
    /\ pc # "gone" => output = {}
    /\ output # {} => /\ next > Len(requested)
                      /\ Result("build_validity", built) \in results
    /\ parent = "answered" =>
          answer = IF output = {} THEN {Result("build_validity", FALSE)} ELSE results

LEMMA TypesHold == Spec => []Types
<1>1. Init => Types
  <2> SUFFICES ASSUME Init PROVE Types
    OBVIOUS
  <2>1. requested \in Seq(Range(requested)) /\ Len(requested) \in Nat
    <3>1. \A c1, c2, c3 : <<c1, c2, c3>> \in Seq(Range(<<c1, c2, c3>>))
      BY DEF Range
    <3>2. AllChecks \in Seq(Range(AllChecks))
      BY <3>1 DEF AllChecks
    <3> QED
      BY <3>2, RequestsAssumption, LenProperties DEF Init
  <2> QED
    BY <2>1 DEF Init, Types
<1>2. Types /\ [Next]_vars => Types'
  <2> SUFFICES ASSUME Types, [Next]_vars PROVE Types'
    OBVIOUS
  <2> USE DEF Types, Scenarios, Requested, parentVars, checkVars
  <2>1. CASE ChildStep /\ Build
    BY <2>1 DEF ChildStep, Build
  <2>2. CASE ChildStep /\ (SkipUnknown \/ SkipUnbuilt)
    <3>1. /\ pc = "check" /\ next <= Len(requested) /\ next' = next + 1
          /\ results \subseteq results'
          /\ UNCHANGED <<requested, answers, pc, built, at, output, parent, answer>>
          /\ parent = "waiting"
      BY <2>2 DEF ChildStep, SkipUnknown, SkipUnbuilt
    <3> QED
      BY <3>1
  <2>3. CASE ChildStep /\ StartCheck
    <3>1. /\ pc = "check" /\ next <= Len(requested) /\ pc' = "run" /\ at' = 1
          /\ Requested \in KnownChecks
          /\ UNCHANGED <<requested, answers, built, next, results, output, parent, answer>>
          /\ parent = "waiting"
      BY <2>3 DEF ChildStep, StartCheck
    <3> QED
      BY <3>1, ScenarioFacts
  <2>4. CASE ChildStep /\ RunScenario
    <3>1. PICK a \in AnswerKinds \cup {"unknown"} :
             answers' = [answers EXCEPT ![Scenarios(next)[at]] = IF @ = "unknown" THEN a ELSE @]
      BY <2>4 DEF RunScenario, Answers, AnswerKinds
    <3>2. answers' \in [ScenarioIds -> AnswerKinds \cup {"unknown"}]
      BY <3>1
    <3>3. /\ pc = "run" /\ at <= Len(Scenarios(next))
          /\ \/ at' = at + 1 /\ UNCHANGED <<pc, next, results>>
             \/ next' = next + 1 /\ pc' = "check" /\ results \subseteq results' /\ at' = at
             \/ pc' \in {"gone", "hung"} /\ UNCHANGED <<next, at, results>>
          /\ UNCHANGED <<requested, built, output, parent, answer>>
          /\ parent = "waiting"
      BY <2>4 DEF ChildStep, RunScenario, Report
    <3> QED
      BY <3>2, <3>3, ScenarioFacts
  <2>5. CASE ChildStep /\ FinishCheck
    BY <2>5 DEF ChildStep, FinishCheck, Report
  <2>6. CASE ChildStep /\ WriteOutput
    BY <2>6 DEF ChildStep, WriteOutput
  <2>7. CASE ParentReads \/ ParentRaises \/ ParentTimesOut
    BY <2>7 DEF ParentReads, ParentRaises, ParentTimesOut
  <2>8. CASE UNCHANGED vars
    BY <2>8 DEF vars
  <2> QED
    BY <2>1, <2>2, <2>3, <2>4, <2>5, <2>6, <2>7, <2>8 DEF Next, ChildStep
<1> QED
  BY <1>1, <1>2, PTL DEF Spec

\* Checks only run on an algorithm that was built.
Flags ==
    /\ built \in BOOLEAN
    /\ pc = "run" => built

LEMMA FlagsHold == Spec => []Flags
<1>1. Init => Flags
  BY DEF Init, Flags
<1>2. Flags /\ [Next]_vars => Flags'
  BY DEF Flags, Next, ChildStep, Build, SkipUnknown, SkipUnbuilt, StartCheck, RunScenario,
     FinishCheck, Report, WriteOutput, ParentReads, ParentRaises, ParentTimesOut, checkVars, vars
<1> QED
  BY <1>1, <1>2, PTL DEF Spec

----------------------------------------------------------------------------
(***************************************************************************)
(* A candidate that passes has completed every scenario.                   *)
(***************************************************************************)

SomeFailed == \E r \in results : ~r.passed

\* run() returned for every scenario of the check at position k.
Completed(k) ==
    requested[k] \in KnownChecks =>
        \A i \in 1 .. Len(Scenarios(k)) : <<k, Scenarios(k)[i]>> \in completed

CompletedInv ==
    /\ pc = "build" => next = 1
    /\ pc = "run" => \A i \in 1 .. at - 1 : <<next, Scenarios(next)[i]>> \in completed
    /\ SomeFailed \/ \A k \in 1 .. next - 1 : Completed(k)

LEMMA ResultFields ==
    ASSUME NEW c, NEW b
    PROVE  Result(c, b).check = c /\ Result(c, b).passed = b
BY DEF Result

LEMMA FailedResult ==
    ASSUME NEW c, Result(c, FALSE) \in results'
    PROVE  SomeFailed'
<1>1. ~Result(c, FALSE).passed
  BY ResultFields
<1> QED
  BY <1>1 DEF SomeFailed

LEMMA CompletedStep == Types /\ CompletedInv /\ [Next]_vars => CompletedInv'
<1> SUFFICES ASSUME Types, CompletedInv, [Next]_vars PROVE CompletedInv'
  OBVIOUS
\* Scenarios stay completed, and a failed result stays in the list.
<1>a. ASSUME completed \subseteq completed', requested' = requested, NEW k, Completed(k)
      PROVE  Completed(k)'
  BY <1>a DEF Completed, Scenarios
<1>b. ASSUME results \subseteq results', SomeFailed
      PROVE  SomeFailed'
  BY <1>b DEF SomeFailed
<1>1. CASE ChildStep /\ Build
  <2>1. next' = 1 /\ pc' # "run"
    BY <1>1 DEF Build, checkVars, CompletedInv
  <2> QED
    BY <2>1 DEF CompletedInv
<1>2. CASE ChildStep /\ (SkipUnknown \/ SkipUnbuilt)
  <2>1. /\ results \subseteq results' /\ completed' = completed /\ requested' = requested
        /\ next' = next + 1 /\ pc' = "check" /\ next \in Nat
    BY <1>2 DEF ChildStep, SkipUnknown, SkipUnbuilt, Types
  <2>2. SomeFailed' \/ Completed(next)
    <3>1. CASE SkipUnknown
      BY <3>1 DEF SkipUnknown, Completed, Requested
    <3>2. CASE SkipUnbuilt
      BY <3>2, FailedResult DEF SkipUnbuilt
    <3> QED
      BY <1>2, <3>1, <3>2
  <2>3. SomeFailed' \/ \A k \in 1 .. next' - 1 : Completed(k)'
    BY <1>a, <1>b, <2>1, <2>2 DEF CompletedInv
  <2> QED
    BY <2>1, <2>3 DEF CompletedInv
<1>3. CASE ChildStep /\ StartCheck
  <2>1. /\ results' = results /\ completed' = completed /\ requested' = requested
        /\ next' = next /\ pc' = "run" /\ at' = 1
    BY <1>3 DEF StartCheck
  <2> QED
    BY <2>1 DEF CompletedInv, SomeFailed, Completed, Scenarios
<1>4. CASE ChildStep /\ RunScenario
  <2> DEFINE s == Scenarios(next)[at]
  <2>1. /\ pc = "run" /\ requested' = requested /\ at \in Nat /\ next \in Nat
        /\ \/ /\ completed' = completed \cup {<<next, s>>}
              /\ at' = at + 1
              /\ UNCHANGED <<pc, next, results>>
           \/ /\ results' = results \cup {Result(Requested, FALSE)}
              /\ next' = next + 1
              /\ pc' = "check" /\ completed' = completed
           \/ pc' \in {"gone", "hung"} /\ UNCHANGED <<completed, next, at, results>>
    BY <1>4 DEF ChildStep, RunScenario, Report, Scenarios, Requested, checkVars, Types
  <2>2. completed \subseteq completed' /\ results \subseteq results'
    BY <2>1
  <2>3. CASE pc' = "check" /\ results' = results \cup {Result(Requested, FALSE)}
    BY <2>3, FailedResult DEF CompletedInv
  <2>4. CASE pc' \in {"gone", "hung"}
    <3>1. next' = next
      BY <2>1, <2>4
    <3> QED
      BY <1>a, <1>b, <2>2, <2>1, <2>4, <3>1 DEF CompletedInv
  <2>5. CASE at' = at + 1 /\ next' = next /\ pc' = pc
               /\ completed' = completed \cup {<<next, s>>}
    <3>1. \A i \in 1 .. at' - 1 : <<next', Scenarios(next)[i]>> \in completed'
      BY <2>1, <2>5 DEF CompletedInv
    <3>2. \A i \in 1 .. at' - 1 : <<next', Scenarios(next)'[i]>> \in completed'
      BY <2>1, <2>5, <3>1 DEF Scenarios
    <3>3. SomeFailed' \/ \A k \in 1 .. next' - 1 : Completed(k)'
      BY <1>a, <1>b, <2>1, <2>2, <2>5 DEF CompletedInv
    <3> QED
      BY <2>1, <2>5, <3>2, <3>3 DEF CompletedInv, Scenarios
  <2> QED
    BY <2>1, <2>3, <2>4, <2>5
<1>5. CASE ChildStep /\ FinishCheck
  <2>1. /\ results \subseteq results' /\ completed' = completed /\ requested' = requested
        /\ next' = next + 1 /\ pc' = "check" /\ next \in Nat
        /\ pc = "run" /\ at > Len(Scenarios(next)) /\ at \in Nat
    BY <1>5 DEF ChildStep, FinishCheck, Report, Types, Scenarios, Requested
  <2>2. Completed(next)
    BY <2>1 DEF Completed, CompletedInv
  <2>3. SomeFailed' \/ \A k \in 1 .. next' - 1 : Completed(k)'
    BY <1>a, <1>b, <2>1, <2>2 DEF CompletedInv
  <2> QED
    BY <2>1, <2>3 DEF CompletedInv
<1>6. CASE (ChildStep /\ WriteOutput) \/ ParentReads \/ ParentRaises \/ ParentTimesOut \/ UNCHANGED vars
  <2>1. /\ UNCHANGED <<requested, completed, results, next, at>>
        /\ pc' = "run" => pc = "run"
        /\ pc' = "build" => pc = "build"
    BY <1>6 DEF WriteOutput, ParentReads, ParentRaises, ParentTimesOut, vars, checkVars
  <2> QED
    BY <2>1 DEF CompletedInv, SomeFailed, Completed, Scenarios
<1> QED
  BY <1>1, <1>2, <1>3, <1>4, <1>5, <1>6 DEF Next, ChildStep

\* Whatever the algorithm hides, it passes only if run() returned for every
\* scenario of every requested check.
THEOREM PassingCandidatesComplete == Spec => []PassedMeansCompleted
<1>1. Init => CompletedInv
  BY DEF Init, CompletedInv
<1>2. Spec => []CompletedInv
  BY <1>1, CompletedStep, TypesHold, PTL DEF Spec
<1>3. Types /\ CompletedInv => PassedMeansCompleted
  <2> SUFFICES ASSUME Types, CompletedInv, parent = "answered", AllPassed(answer),
                      NEW k \in DOMAIN requested, requested[k] \in KnownChecks,
                      NEW s \in Range(ScenariosOf[requested[k]])
               PROVE  <<k, s>> \in completed
    BY DEF PassedMeansCompleted
  <2>1. answer = results /\ next > Len(requested)
    BY DEF Types, AllPassed, Result
  <2>2. ~SomeFailed
    BY <2>1 DEF AllPassed, SomeFailed
  <2>3. Completed(k)
    BY <2>1, <2>2, LenProperties DEF CompletedInv, Types
  <2> QED
    BY <2>3, ScenarioFacts DEF Completed, Scenarios
<1> QED
  BY <1>2, <1>3, TypesHold, PTL

----------------------------------------------------------------------------
(***************************************************************************)
(* The result list, whatever the candidate answers.                        *)
(***************************************************************************)

\* The positions done, and the step that does one more by reporting p on it.
Positions == 1 .. next - 1

BuildReported ==
    /\ pc = "build" /\ pc' = "check"
    /\ built' \in BOOLEAN
    /\ results' = {Result("build_validity", built')}
    /\ UNCHANGED next

Reported(p) ==
    /\ next' = next + 1 /\ next <= Len(requested)
    /\ Requested \in KnownChecks
    /\ built => pc = "run"
    /\ ~built => ~p
    /\ results' = results \cup {Result(Requested, p)}
    /\ pc' = "check"
    /\ UNCHANGED built

Skipped ==
    /\ next' = next + 1 /\ next <= Len(requested)
    /\ Requested \notin KnownChecks
    /\ pc' = "check"
    /\ UNCHANGED <<results, built>>

LEMMA ResultSteps ==
    ASSUME Types, Flags, [Next]_vars
    PROVE  /\ requested' = requested /\ stateless' = stateless
           /\ \/ BuildReported
              \/ \E p \in BOOLEAN : Reported(p)
              \/ Skipped
              \/ UNCHANGED <<next, results, built>> /\ (pc' = "build" => pc = "build")
<1>1. CASE ChildStep /\ Build
  BY <1>1 DEF Build, BuildReported, checkVars
<1>2. CASE ChildStep /\ SkipUnknown
  BY <1>2 DEF SkipUnknown, Skipped
<1>3. CASE ChildStep /\ SkipUnbuilt
  <2>1. Reported(FALSE)
    BY <1>3 DEF SkipUnbuilt, Reported
  <2> QED
    BY <1>3, <2>1 DEF SkipUnbuilt
<1>4. CASE ChildStep /\ RunScenario
  <2>1. /\ requested' = requested /\ stateless' = stateless /\ pc = "run"
        /\ \/ UNCHANGED <<next, results, built>> /\ pc' # "build"
           \/ Report(FALSE) /\ UNCHANGED built
    BY <1>4 DEF RunScenario, checkVars
  <2>2. CASE Report(FALSE) /\ UNCHANGED built
    <3>1. Requested \in KnownChecks /\ next <= Len(requested)
      BY <1>4 DEF RunScenario, Types
    <3>2. Reported(FALSE)
      BY <2>1, <2>2, <3>1 DEF Report, Reported
    <3> QED
      BY <2>1, <3>2
  <2> QED
    BY <2>1, <2>2
<1>5. CASE ChildStep /\ FinishCheck
  <2> DEFINE p == Requested = "interface_conformance" \/ ~violated
  <2>1. Reported(p)
    BY <1>5 DEF FinishCheck, Report, Reported, Types, Flags
  <2> QED
    BY <1>5, <2>1 DEF FinishCheck
<1>6. CASE \/ ChildStep /\ (StartCheck \/ WriteOutput)
           \/ ParentReads \/ ParentRaises \/ ParentTimesOut \/ UNCHANGED vars
  BY <1>6 DEF StartCheck, WriteOutput, ParentReads, ParentRaises, ParentTimesOut, vars, checkVars
<1> QED
  BY <1>1, <1>2, <1>3, <1>4, <1>5, <1>6 DEF Next, ChildStep

\* The list has the build, and one check or more for every known id that is done.
ShapeInv ==
    /\ pc = "build" => next = 1 /\ results = {}
    /\ \A r \in results :
          /\ r = Result(r.check, r.passed) /\ r.passed \in BOOLEAN
          /\ r.check = "build_validity" => r.passed = built
          /\ r.check # "build_validity" =>
                r.check \in KnownChecks /\ \E k \in Positions : requested[k] = r.check
          /\ r.check \in KnownChecks /\ ~built => ~r.passed
    /\ \A k \in Positions :
          requested[k] \in KnownChecks => \E r \in results : r.check = requested[k]

\* A check requested once is reported once.
UniqueInv ==
    IsInjective(requested) =>
        \A r1, r2 \in results : r1.check = r2.check => r1.passed = r2.passed

\* One position more is done.
LEMMA NextPosition ==
    ASSUME Types, next' = next + 1
    PROVE  Positions' = Positions \cup {next} /\ next \notin Positions
BY DEF Types, Positions

\* The results after check c was reported to pass or fail, by p.
LEMMA AddedResult ==
    ASSUME NEW c, NEW p, results' = results \cup {Result(c, p)}
    PROVE  /\ \A r \in results' : r \in results \/ (r = Result(c, p) /\ r.check = c /\ r.passed = p)
           /\ results \subseteq results'
           /\ \E r \in results' : r.check = c
<1>1. Result(c, p).check = c /\ Result(c, p).passed = p
  BY ResultFields
<1> QED
  BY <1>1

LEMMA ShapeStep == Types /\ Flags /\ ShapeInv /\ [Next]_vars => ShapeInv'
<1> SUFFICES ASSUME Types, Flags, ShapeInv, [Next]_vars PROVE ShapeInv'
  OBVIOUS
<1>a. requested' = requested
  BY ResultSteps
<1>b. "build_validity" \notin KnownChecks
  BY ScenarioFacts
<1>1. CASE BuildReported
  <2>1. next' = 1
    BY <1>1 DEF BuildReported, ShapeInv
  <2>2. Positions' = {}
    BY <2>1 DEF Positions
  <2>3. \A r \in results' : r = Result(r.check, r.passed) /\ r.passed = built'
                             /\ r.check = "build_validity"
    BY <1>1, ResultFields DEF BuildReported
  <2> QED
    BY <1>1, <1>b, <2>2, <2>3 DEF BuildReported, ShapeInv
<1>2. CASE \E p \in BOOLEAN : Reported(p)
  <2>1. PICK p \in BOOLEAN : Reported(p)
    BY <1>2
  <2>2. /\ Positions' = Positions \cup {next}
        /\ \A r \in results' :
              r \in results \/ (r = Result(Requested, p) /\ r.check = Requested /\ r.passed = p)
        /\ results \subseteq results'
        /\ \E r \in results' : r.check = Requested
    BY <2>1, NextPosition, AddedResult DEF Reported
  <2>3. ASSUME NEW r \in results'
        PROVE  /\ r = Result(r.check, r.passed) /\ r.passed \in BOOLEAN
               /\ r.check = "build_validity" => r.passed = built
               /\ r.check \in KnownChecks /\ ~built => ~r.passed
    <3>1. CASE r \in results
      BY <3>1 DEF ShapeInv
    <3>2. CASE r = Result(Requested, p) /\ r.check = Requested /\ r.passed = p
      BY <1>b, <2>1, <3>2 DEF Reported
    <3> QED
      BY <2>2, <3>1, <3>2
  <2>4. ASSUME NEW r \in results', r.check # "build_validity"
        PROVE  r.check \in KnownChecks /\ \E k \in Positions' : requested[k] = r.check
    <3>1. CASE r \in results
      BY <2>2, <2>4, <3>1 DEF ShapeInv
    <3>2. CASE r.check = Requested
      BY <2>1, <2>2, <3>2 DEF Reported, Requested
    <3> QED
      BY <2>2, <3>1, <3>2
  <2>5. ASSUME NEW k \in Positions', requested[k] \in KnownChecks
        PROVE  \E r \in results' : r.check = requested[k]
    <3>1. CASE k \in Positions
      BY <2>2, <2>5, <3>1 DEF ShapeInv
    <3>2. CASE k = next
      BY <2>2, <3>2 DEF Requested
    <3> QED
      BY <2>2, <3>1, <3>2
  <2>6. pc' # "build" /\ built' = built
    BY <2>1 DEF Reported
  <2> QED
    BY <1>a, <2>3, <2>4, <2>5, <2>6 DEF ShapeInv
<1>3. CASE Skipped
  <2>1. Positions' = Positions \cup {next} /\ requested[next] \notin KnownChecks
        /\ results' = results /\ built' = built /\ pc' # "build"
    BY <1>3, NextPosition DEF Skipped, Requested
  <2> QED
    BY <1>a, <2>1 DEF ShapeInv
<1>4. CASE UNCHANGED <<next, results, built>> /\ (pc' = "build" => pc = "build")
  BY <1>a, <1>4 DEF ShapeInv, Positions
<1> QED
  BY <1>1, <1>2, <1>3, <1>4, ResultSteps

LEMMA ShapeHolds == Spec => []ShapeInv
<1>1. Init => ShapeInv
  BY DEF Init, ShapeInv, Positions
<1> QED
  BY <1>1, ShapeStep, TypesHold, FlagsHold, PTL DEF Spec

LEMMA UniqueStep == Types /\ Flags /\ ShapeInv /\ UniqueInv /\ [Next]_vars => UniqueInv'
<1> SUFFICES ASSUME Types, Flags, ShapeInv, UniqueInv, [Next]_vars, IsInjective(requested)
             PROVE  \A r1, r2 \in results' : r1.check = r2.check => r1.passed = r2.passed
  BY ResultSteps DEF UniqueInv
<1>1. CASE BuildReported
  BY <1>1 DEF BuildReported
<1>2. CASE \E p \in BOOLEAN : Reported(p)
  <2>1. PICK p \in BOOLEAN : Reported(p)
    BY <1>2
  <2>2. \A r \in results' : r \in results \/ (r.check = Requested /\ r.passed = p)
    BY <2>1, AddedResult DEF Reported
  <2>3. \A r \in results : r.check # Requested
    <3> SUFFICES ASSUME NEW r \in results, r.check = Requested PROVE FALSE
      OBVIOUS
    <3>1. r.check # "build_validity"
      BY <2>1, ScenarioFacts DEF Reported
    <3>2. PICK k \in Positions : requested[k] = requested[next]
      BY <3>1 DEF ShapeInv, Requested
    <3>3. k \in DOMAIN requested /\ next \in DOMAIN requested /\ k # next
      BY <2>1, LenProperties DEF Reported, Positions, Types
    <3> QED
      BY <3>2, <3>3 DEF IsInjective
  <2> QED
    BY <2>2, <2>3 DEF UniqueInv
<1>3. CASE UNCHANGED results
  BY <1>3 DEF UniqueInv
<1> QED
  BY <1>1, <1>2, <1>3, ResultSteps DEF Skipped

----------------------------------------------------------------------------
(***************************************************************************)
(* The verdicts on an algorithm without hidden state.                      *)
(***************************************************************************)

\* The answers a check is content with.
Accepts(c) == IF c = "interface_conformance" THEN {"clean", "dirty"} ELSE {"clean"}

\* A scenario of the check has been answered in a way that fails it.
Bad(c) == \E s \in Range(ScenariosOf[c]) : answers[s] \notin Accepts(c) \cup {"unknown"}

\* The scenarios the current check has been through.
Behind == {Scenarios(next)[i] : i \in 1 .. at - 1}

RunInv ==
    pc = "run" => /\ \A s \in Behind : answers[s] \in {"clean", "dirty"}
                  /\ violated <=> \E s \in Behind : answers[s] = "dirty"

Explained(r) ==
    r.check \in KnownChecks =>
        /\ r.passed => FreshVerdict(r.check)
        /\ ~r.passed => ~built \/ Bad(r.check)

VerdictInv ==
    /\ pc = "build" => ~built
    /\ ~built => \A s \in ScenarioIds : answers[s] = "unknown"
    /\ stateless => RunInv /\ \A r \in results : Explained(r)

\* A scenario's first answer is kept; if the algorithm hides no state, every later
\* one is the same.
LEMMA AnswersKept ==
    ASSUME Types, [Next]_vars
    PROVE  \A s \in ScenarioIds : answers[s] # "unknown" => answers'[s] = answers[s]
<1>1. CASE ChildStep /\ RunScenario
  <2>1. PICK t, a : answers' = [answers EXCEPT ![t] = IF @ = "unknown" THEN a ELSE @]
    BY <1>1 DEF RunScenario
  <2> QED
    BY <2>1 DEF Types
<1>2. CASE UNCHANGED answers
  BY <1>2
<1> QED
  BY <1>1, <1>2 DEF Next, ChildStep, Build, SkipUnknown, SkipUnbuilt, StartCheck,
     FinishCheck, WriteOutput, ParentReads, ParentRaises, ParentTimesOut, vars

LEMMA VerdictsKept ==
    ASSUME Types, [Next]_vars, NEW c \in KnownChecks
    PROVE  /\ FreshVerdict(c) => FreshVerdict(c)'
           /\ Bad(c) => Bad(c)'
<1>1. Range(ScenariosOf[c]) \subseteq ScenarioIds
  BY ScenarioFacts
<1>2. \A s \in Range(ScenariosOf[c]) :
         answers[s] # "unknown" => answers'[s] = answers[s]
  BY <1>1, AnswersKept
<1>3. FreshVerdict(c) => FreshVerdict(c)'
  BY <1>2 DEF FreshVerdict
<1>4. Bad(c) => Bad(c)'
  BY <1>2 DEF Bad, Accepts
<1> QED
  BY <1>3, <1>4

\* What the current scenario answers, and what the check makes of it.
LEMMA ScenarioAnswered ==
    ASSUME Types, stateless, RunScenario
    PROVE  LET s == Scenarios(next)[at]
           IN /\ s \in Range(ScenariosOf[Requested]) /\ s \in ScenarioIds
              /\ Requested \in KnownChecks
              /\ \E a \in AnswerKinds :
                    /\ answers'[s] = a
                    /\ \/ /\ a \in {"clean", "dirty"}
                          /\ violated' = (violated \/ a = "dirty")
                          /\ at' = at + 1
                          /\ UNCHANGED <<pc, next, results>>
                       \/ /\ a = "raises"
                          /\ pc' = "check"
                          /\ results' = results \cup {Result(Requested, FALSE)}
                       \/ pc' \in {"gone", "hung"} /\ results' = results
<1> DEFINE s == Scenarios(next)[at]
<1>1. Requested \in KnownChecks /\ Scenarios(next) = ScenariosOf[Requested]
      /\ at \in 1 .. Len(ScenariosOf[Requested])
  BY DEF RunScenario, Types, Scenarios, Requested
<1>2. s \in Range(ScenariosOf[Requested]) /\ s \in ScenarioIds
  BY <1>1, ScenarioFacts
<1>3. PICK a \in Answers(s) :
         /\ answers' = [answers EXCEPT ![s] = IF @ = "unknown" THEN a ELSE @]
         /\ \/ /\ a \in {"clean", "dirty"}
               /\ violated' = (violated \/ a = "dirty")
               /\ at' = at + 1
               /\ UNCHANGED <<pc, next, results>>
            \/ /\ a = "raises"
               /\ Report(FALSE)
            \/ /\ a \in {"exits", "hangs"}
               /\ pc' = IF a = "exits" THEN "gone" ELSE "hung"
               /\ results' = results
  BY <1>1 DEF RunScenario, checkVars
<1>4. a \in AnswerKinds /\ answers'[s] = a
  BY <1>2, <1>3 DEF Answers, AnswerKinds, Types
<1>5. a = "raises" /\ Report(FALSE) =>
         pc' = "check" /\ results' = results \cup {Result(Requested, FALSE)}
  BY DEF Report
<1> QED
  BY <1>1, <1>2, <1>3, <1>4, <1>5

\* A result that stays in the list stays explained, and so does the build's.
LEMMA ExplainedKept ==
    ASSUME Types, [Next]_vars, built' = built, NEW r, Explained(r)
    PROVE  Explained(r)'
BY VerdictsKept DEF Explained

LEMMA BuildSteps ==
    Types /\ Flags /\ VerdictInv /\ [Next]_vars =>
        /\ pc' = "build" => ~built'
        /\ ~built' => \A s \in ScenarioIds : answers'[s] = "unknown"
<1> SUFFICES ASSUME Types, Flags, VerdictInv, [Next]_vars
             PROVE  /\ pc' = "build" => ~built'
                    /\ ~built' => \A s \in ScenarioIds : answers'[s] = "unknown"
  OBVIOUS
<1>1. CASE ChildStep /\ RunScenario
  BY <1>1 DEF RunScenario, Report, Flags
<1>2. CASE ChildStep /\ Build
  BY <1>2 DEF Build, VerdictInv
<1>3. CASE UNCHANGED <<answers, built>> /\ (pc' = "build" => pc = "build")
  BY <1>3 DEF VerdictInv
<1> QED
  BY <1>1, <1>2, <1>3 DEF Next, ChildStep, SkipUnknown, SkipUnbuilt, StartCheck,
     FinishCheck, Report, WriteOutput, ParentReads, ParentRaises, ParentTimesOut, vars, checkVars

LEMMA VerdictSteps ==
    Types /\ Flags /\ ShapeInv /\ VerdictInv /\ stateless /\ [Next]_vars =>
        RunInv' /\ \A r \in results' : Explained(r)'
<1> SUFFICES ASSUME Types, Flags, ShapeInv, VerdictInv, stateless, [Next]_vars
             PROVE  RunInv' /\ \A r \in results' : Explained(r)'
  OBVIOUS
<1>a. RunInv /\ \A r \in results : Explained(r)
  BY DEF VerdictInv
<1>1. CASE ChildStep /\ Build
  <2>1. pc' # "run" /\ \A r \in results' : r \in results \/ r.check = "build_validity"
    BY <1>1, ResultFields DEF Build
  <2>2. \A r \in results : r.check \notin KnownChecks
    BY <1>1 DEF Build, ShapeInv
  <2> QED
    BY <2>1, <2>2, ScenarioFacts DEF RunInv, Explained
<1>2. CASE ChildStep /\ SkipUnbuilt
  <2>1. /\ pc' # "run" /\ built' = built /\ ~built
        /\ results' = results \cup {Result(Requested, FALSE)}
    BY <1>2 DEF SkipUnbuilt
  <2>2. \A r \in results' : r \in results \/ ~r.passed
    BY <2>1, ResultFields
  <2> QED
    BY <1>a, <2>1, <2>2, ExplainedKept DEF RunInv, Explained
<1>3. CASE ChildStep /\ StartCheck
  <2>1. /\ pc' = "run" /\ at' = 1 /\ ~violated'
        /\ UNCHANGED <<built, results>>
    BY <1>3 DEF StartCheck
  <2>2. Behind' = {}
    BY <2>1 DEF Behind
  <2> QED
    BY <1>a, <2>1, <2>2, ExplainedKept DEF RunInv
<1>4. CASE ChildStep /\ RunScenario
  <2> DEFINE s == Scenarios(next)[at]
  <2>1. /\ pc = "run" /\ UNCHANGED <<requested, built>> /\ at \in Nat /\ 1 <= at
    BY <1>4 DEF RunScenario, Types
  <2>2. PICK a \in AnswerKinds :
           /\ answers'[s] = a
           /\ \/ /\ a \in {"clean", "dirty"}
                 /\ violated' = (violated \/ a = "dirty")
                 /\ at' = at + 1
                 /\ UNCHANGED <<pc, next, results>>
              \/ /\ a = "raises"
                 /\ pc' = "check"
                 /\ results' = results \cup {Result(Requested, FALSE)}
              \/ pc' \in {"gone", "hung"} /\ results' = results
    BY <1>4, ScenarioAnswered
  <2>3. s \in Range(ScenariosOf[Requested]) /\ s \in ScenarioIds /\ Requested \in KnownChecks
    BY <1>4, ScenarioAnswered
  <2>4. CASE at' = at + 1 /\ next' = next /\ a \in {"clean", "dirty"} /\ results' = results
               /\ violated' = (violated \/ a = "dirty")
    <3>1. Behind' = Behind \cup {s}
      <4>1. Behind' = {Scenarios(next)[i] : i \in 1 .. at}
        BY <2>1, <2>4 DEF Behind, Scenarios
      <4>2. 1 .. at = 1 .. at - 1 \cup {at}
        BY <2>1
      <4> QED
        BY <4>1, <4>2 DEF Behind
    <3>2. Behind \subseteq ScenarioIds
      <4>1. \A i \in 1 .. at - 1 : i \in 1 .. Len(Scenarios(next))
        BY <2>1 DEF Types
      <4> QED
        BY <2>1, <2>3, <4>1, ScenarioFacts DEF Behind, Scenarios, Requested
    <3>3. \A t \in Behind : answers[t] \in {"clean", "dirty"} /\ answers'[t] = answers[t]
      BY <1>a, <2>1, <3>2, AnswersKept DEF RunInv
    <3>4. RunInv'
      BY <1>a, <2>1, <2>2, <2>4, <3>1, <3>3 DEF RunInv
    <3> QED
      BY <1>a, <2>1, <2>4, <3>4, ExplainedKept
  <2>5. CASE a = "raises" /\ pc' = "check"
               /\ results' = results \cup {Result(Requested, FALSE)}
    <3>1. PICK c \in KnownChecks : c = Requested
      BY <2>3
    <3>2. \E t \in Range(ScenariosOf[c]) : answers'[t] \notin Accepts(c) \cup {"unknown"}
      BY <2>2, <2>3, <2>5, <3>1 DEF Accepts
    <3>3. Bad(c)'
      BY <3>2 DEF Bad
    <3>4. \A r \in results' : r \in results \/ (r.check = c /\ ~r.passed)
      <4>1. results' = results \cup {Result(c, FALSE)}
        BY <2>5, <3>1
      <4>2. Result(c, FALSE).check = c /\ ~Result(c, FALSE).passed
        BY ResultFields
      <4> QED
        BY <4>1, <4>2
    <3>5. ASSUME NEW r, r.check = c, ~r.passed
          PROVE  Explained(r)'
      BY <3>3, <3>5 DEF Explained
    <3> QED
      BY <1>a, <2>1, <2>5, <3>4, <3>5, ExplainedKept DEF RunInv
  <2>6. CASE pc' \in {"gone", "hung"} /\ results' = results
    BY <1>a, <2>1, <2>6, ExplainedKept DEF RunInv
  <2> QED
    BY <2>2, <2>4, <2>5, <2>6
<1>5. CASE ChildStep /\ FinishCheck
  <2> DEFINE p == Requested = "interface_conformance" \/ ~violated
  <2>1. /\ pc = "run" /\ pc' = "check" /\ built' = built /\ built /\ answers' = answers
        /\ results' = results \cup {Result(Requested, p)}
    BY <1>5 DEF FinishCheck, Report, Flags
  <2>2. PICK c \in KnownChecks : c = Requested
    BY <2>1 DEF Types
  <2>3. Behind = Range(ScenariosOf[c])
    <3>1. at - 1 = Len(ScenariosOf[c]) /\ Scenarios(next) = ScenariosOf[c]
      BY <1>5, <2>1, <2>2, ScenarioFacts DEF FinishCheck, Types, Scenarios, Requested
    <3> QED
      BY <3>1, ScenarioFacts DEF Behind
  <2>4. p => FreshVerdict(c)
    BY <1>a, <2>1, <2>2, <2>3 DEF RunInv, FreshVerdict
  <2>5. ~p => Bad(c)
    BY <1>a, <2>1, <2>2, <2>3 DEF RunInv, Bad, Accepts
  <2>6. \A r \in results' : r \in results \/ (r.check = c /\ r.passed = p)
    BY <2>1, <2>2, ResultFields
  <2>7. (FreshVerdict(c) => FreshVerdict(c)') /\ (Bad(c) => Bad(c)')
    BY VerdictsKept
  <2> HIDE DEF p
  <2>8. ASSUME NEW r, r.check = c, r.passed = p
        PROVE  Explained(r)'
    BY <2>4, <2>5, <2>7, <2>8 DEF Explained
  <2> QED
    BY <1>a, <2>1, <2>6, <2>8, ExplainedKept DEF RunInv
<1>6. CASE \/ ChildStep /\ (SkipUnknown \/ WriteOutput)
           \/ ParentReads \/ ParentRaises \/ ParentTimesOut \/ UNCHANGED vars
  <2>1. \/ UNCHANGED <<requested, built, results, violated, next, at, answers, pc>>
        \/ UNCHANGED <<built, results>> /\ pc' # "run"
    BY <1>6 DEF SkipUnknown, WriteOutput, ParentReads, ParentRaises, ParentTimesOut, vars, checkVars
  <2> QED
    BY <1>a, <2>1, ExplainedKept DEF RunInv, Behind, Scenarios
<1> QED
  BY <1>1, <1>2, <1>3, <1>4, <1>5, <1>6 DEF Next, ChildStep

LEMMA VerdictHolds == Spec => []VerdictInv
<1>1. Init => VerdictInv
  BY DEF Init, VerdictInv, RunInv
<1>2. Types /\ Flags /\ ShapeInv /\ VerdictInv /\ [Next]_vars => VerdictInv'
  BY BuildSteps, VerdictSteps, ResultSteps DEF VerdictInv
<1> QED
  BY <1>1, <1>2, ShapeHolds, TypesHold, FlagsHold, PTL DEF Spec

\* Without hidden state every verdict is the one a fresh object would get.
LEMMA VerdictsAreFresh ==
    ASSUME Types, Flags, ShapeInv, VerdictInv, stateless,
           NEW r \in results, r.check \in KnownChecks, built
    PROVE  r.passed = FreshVerdict(r.check)
<1>1. r.passed \in BOOLEAN /\ Explained(r)
  BY DEF ShapeInv, VerdictInv
<1>2. Bad(r.check) => ~FreshVerdict(r.check)
  BY DEF Bad, Accepts, FreshVerdict
<1>3. r.passed <=> FreshVerdict(r.check)
  BY <1>1, <1>2 DEF Explained
<1>4. FreshVerdict(r.check) \in BOOLEAN
  BY DEF FreshVerdict
<1> QED
  BY <1>1, <1>3, <1>4

\* An algorithm that was not built has been asked nothing, and fails every check.
LEMMA UnbuiltVerdicts ==
    ASSUME ShapeInv, VerdictInv, ~built, NEW r \in results, r.check \in KnownChecks
    PROVE  r.passed = FreshVerdict(r.check)
<1>1. r.passed = FALSE
  BY DEF ShapeInv
<1>2. PICK s \in Range(ScenariosOf[r.check]) : answers[s] = "unknown"
  <2>1. PICK c \in KnownChecks : c = r.check
    OBVIOUS
  <2>2. 1 \in 1 .. Len(ScenariosOf[c])
    BY ScenarioFacts
  <2>3. ScenariosOf[c][1] \in Range(ScenariosOf[c])
    BY <2>2, ScenarioFacts
  <2> QED
    BY <2>1, <2>3, ScenarioFacts DEF VerdictInv
<1>3. ~FreshVerdict(r.check) /\ FreshVerdict(r.check) \in BOOLEAN
  BY <1>2 DEF FreshVerdict
<1> QED
  BY <1>1, <1>3

\* The checks of an algorithm without hidden state do not influence one another,
\* in whatever order they are requested: each says what it would say alone.
THEOREM VerdictsAreIndependent == Spec => []ChecksAreIndependent
<1>1. Types /\ Flags /\ ShapeInv /\ VerdictInv => ChecksAreIndependent
  <2> SUFFICES ASSUME Types, Flags, ShapeInv, VerdictInv, stateless,
                      parent = "answered", output # {},
                      NEW r \in answer, r.check \in KnownChecks
               PROVE  r.passed = FreshVerdict(r.check)
    BY DEF ChecksAreIndependent
  <2>1. r \in results
    BY DEF Types
  <2> QED
    BY <2>1, VerdictsAreFresh, UnbuiltVerdicts
<1> QED
  BY <1>1, VerdictHolds, ShapeHolds, TypesHold, FlagsHold, PTL

LEMMA UniqueHolds == Spec => []UniqueInv
<1>1. Init => UniqueInv
  BY DEF Init, UniqueInv
<1> QED
  BY <1>1, UniqueStep, ShapeHolds, TypesHold, FlagsHold, PTL DEF Spec

\* What the harness is told is one outcome of the candidate and nothing else: the
\* build and one verdict per requested check that exists, never an empty list.
\* With a check requested twice this needs an algorithm without hidden state.
THEOREM OneOutcomeIsTold == Spec => []OneOutcomeExplainsIt
<1>1. Types /\ Flags /\ ShapeInv /\ UniqueInv /\ VerdictInv => OneOutcomeExplainsIt
  <2> SUFFICES ASSUME Types, Flags, ShapeInv, UniqueInv, VerdictInv, parent = "answered",
                      stateless \/ IsInjective(requested)
               PROVE  \E o \in Outcome : answer = ChildResults(o, requested)
    BY DEF OneOutcomeExplainsIt
  <2>1. CASE output = {}
    <3>1. Dies \in Outcome /\ Dies.dies
      BY DEF Outcome, Dies
    <3>2. ChildResults(Dies, requested) = {Result("build_validity", FALSE)}
      BY <3>1 DEF ChildResults
    <3> QED
      BY <2>1, <3>1, <3>2 DEF Types
  <2>2. CASE output # {}
    <3> DEFINE failing == {c \in KnownChecks : \E r \in results : r.check = c /\ ~r.passed}
               o == Ends(built, failing)
    <3>1. /\ answer = results /\ Result("build_validity", built) \in results
          /\ \A k \in DOMAIN requested : k \in Positions
      <4>1. /\ answer = results /\ Result("build_validity", built) \in results
            /\ next > Len(requested) /\ next \in Nat
        BY <2>2 DEF Types
      <4>2. DOMAIN requested = 1 .. Len(requested) /\ Len(requested) \in Nat
        BY LenProperties DEF Types
      <4> QED
        BY <4>1, <4>2 DEF Positions
    <3>2. o \in Outcome
      BY DEF Outcome, Flags
    <3>3. o.builds = built /\ o.fails = failing /\ ~o.dies
      BY DEF Ends
    <3>4. \A r1, r2 \in results :
             r1.check \in KnownChecks /\ r1.check = r2.check => r1.passed = r2.passed
      BY VerdictsAreFresh, UnbuiltVerdicts DEF UniqueInv
    <3>5. \A r \in results : r.check \in KnownChecks =>
             r.passed = (built /\ r.check \notin failing)
      <4> SUFFICES ASSUME NEW r \in results, r.check \in KnownChecks
                   PROVE  r.passed = (built /\ r.check \notin failing)
        OBVIOUS
      <4>1. r.passed \in BOOLEAN /\ (~built => ~r.passed)
        BY DEF ShapeInv
      <4>2. r.passed => r.check \notin failing
        BY <3>4
      <4>3. ~r.passed => r.check \in failing
        OBVIOUS
      <4> QED
        BY <4>1, <4>2, <4>3
    <3> HIDE DEF failing, o
    <3>6. ChildResults(o, requested) =
             {Result("build_validity", built)}
                \cup {Result(c, built /\ c \notin failing) : c \in Range(requested) \cap KnownChecks}
      BY <3>3 DEF ChildResults, RunnerResults
    <3>7. ASSUME NEW r \in results
          PROVE  r \in ChildResults(o, requested)
      <4>1. r = Result(r.check, r.passed)
        BY DEF ShapeInv
      <4>2. CASE r.check = "build_validity"
        BY <3>6, <4>1, <4>2 DEF ShapeInv
      <4>3. CASE r.check # "build_validity"
        <5>1. r.check \in Range(requested) \cap KnownChecks
          BY <4>3, LenProperties DEF ShapeInv, Range, Positions, Types
        <5> QED
          BY <3>5, <3>6, <4>1, <5>1
      <4> QED
        BY <4>2, <4>3
    <3>8. ASSUME NEW c \in Range(requested) \cap KnownChecks
          PROVE  Result(c, built /\ c \notin failing) \in results
      <4>1. PICK r \in results : r.check = c
        BY <3>1 DEF ShapeInv, Range
      <4>2. r = Result(c, built /\ c \notin failing)
        BY <3>5, <4>1 DEF ShapeInv
      <4> QED
        BY <4>2
    <3>9. results = ChildResults(o, requested)
      BY <3>1, <3>6, <3>7, <3>8
    <3> QED
      BY <3>1, <3>2, <3>9
  <2> QED
    BY <2>1, <2>2
<1> QED
  BY <1>1, VerdictHolds, UniqueHolds, ShapeHolds, TypesHold, FlagsHold, PTL
=============================================================================
