--------------------------- MODULE Harness6GProofs ---------------------------
(***************************************************************************)
(* The harness on one run directory, for any number of invocations,        *)
(* rewrites and crashes and any tasks, revisions, texts and outcomes.      *)
(***************************************************************************)
EXTENDS Harness6G, SequenceTheorems, FiniteSetTheorems, TLAPS

Reasons ==
    {"None", "checks_passed", "timeout", "max_revisions_exceeded", "revisions_exhausted"}

Trying == {"load", "spawned", "checking"}
Concluding == {"conclude", "frozen", "manifest", "returned"}

----------------------------------------------------------------------------
(***************************************************************************)
(* Types                                                                   *)
(***************************************************************************)

Types ==
    /\ files \in [Paths -> Texts \cup {Missing}]
    /\ bytecode \in [Paths -> Texts \cup {Missing}]
    /\ runDir = [frozen |-> runDir.frozen, manifest |-> runDir.manifest,
                 evidence |-> runDir.evidence]
    /\ task \in Tasks
    /\ revisions \in Seq(Paths)
    /\ observations \in Seq(Range(observations))

\* Appending anything to any sequence.
LEMMA Appending ==
    ASSUME NEW s, s \in Seq(Range(s)), NEW e
    PROVE  /\ Len(s) \in Nat
           /\ Append(s, e) \in Seq(Range(Append(s, e)))
           /\ Len(Append(s, e)) = Len(s) + 1
           /\ \A k \in 1 .. Len(s) : Append(s, e)[k] = s[k]
           /\ Append(s, e)[Len(s) + 1] = e
<1> DEFINE S == Range(s) \cup {e}
<1>1. s \in Seq(S) /\ e \in S /\ Len(s) \in Nat
  BY SeqMonotonic, LenProperties
<1>2. /\ Append(s, e) \in Seq(S)
      /\ Len(Append(s, e)) = Len(s) + 1
      /\ \A k \in 1 .. Len(s) : Append(s, e)[k] = s[k]
      /\ Append(s, e)[Len(s) + 1] = e
  BY <1>1, AppendProperties
<1>3. Append(s, e) \in Seq(Range(Append(s, e)))
  <2>1. /\ DOMAIN Append(s, e) = 1 .. Len(s) + 1
        /\ Append(s, e) = [k \in 1 .. Len(s) + 1 |-> Append(s, e)[k]]
    BY <1>1, <1>2, LenProperties
  <2>2. \A k \in 1 .. Len(s) + 1 : Append(s, e)[k] \in Range(Append(s, e))
    BY <2>1 DEF Range
  <2> QED
    BY <1>1, <2>1, <2>2, IsASeq
<1> QED
  BY <1>1, <1>2, <1>3

LEMMA Observing ==
    ASSUME Types, NEW hash, NEW results, Observe(hash, results)
    PROVE  /\ Len(observations) \in Nat
           /\ observations' \in Seq(Range(observations'))
           /\ Len(observations') = Len(observations) + 1
           /\ \A k \in 1 .. Len(observations) : observations'[k] = observations[k]
           /\ observations'[Len(observations) + 1] =
                 [revision |-> index, hash |-> hash, results |-> results]
BY Appending DEF Types, Observe

LEMMA LastObserved ==
    ASSUME Types, NEW hash, NEW results, Observe(hash, results)
    PROVE  Last'.hash = hash /\ Last'.results = results
<1>1. Last' = [revision |-> index, hash |-> hash, results |-> results]
  BY Observing DEF Last
<1> QED
  BY <1>1

LEMMA TypesHold == Spec => []Types
<1>1. Init => Types
  <2> SUFFICES ASSUME Init PROVE Types
    OBVIOUS
  <2>1. observations \in Seq(Range(observations)) /\ revisions \in Seq(Paths)
    BY DEF Init
  <2> QED
    BY <2>1, PathsAssumption DEF Init, Types
<1>2. Types /\ [Next]_vars => Types'
  <2> SUFFICES ASSUME Types, [Next]_vars PROVE Types'
    OBVIOUS
  <2>1. files' \in [Paths -> Texts \cup {Missing}]
    BY DEF Types, Next, vars, codeVars, runVars, history, RefuseMode, Invoke, HarnessStep,
       LoadRefused, LoadRaises, Load, ChildReads, ChildEnds, ChildGarbles, ChildTimesOut, RunOut,
       WriteEvidence, FreezeCopy, FreezeRaises, FreezeManifest, WriteEvidenceOfFrozen,
       Evaluate, EvaluateChecks, Edit, Crash
  <2>2. bytecode' \in [Paths -> Texts \cup {Missing}]
    <3>1. CASE ChildReads
      <4>1. KeptCode(files[Candidate], bytecode[Candidate]) \subseteq Texts \cup {Missing}
            \/ Candidate \notin Paths
        BY DEF Types, KeptCode, Imported
      <4> QED
        BY <3>1, <4>1 DEF ChildReads, Types
    <3>2. CASE Edit
      BY <3>2 DEF Edit, Types, Restamped
    <3>3. CASE UNCHANGED bytecode
      BY <3>3 DEF Types
    <3> QED
      BY <3>1, <3>2, <3>3 DEF Next, vars, codeVars, RefuseMode, Invoke, HarnessStep,
         LoadRefused, LoadRaises, Load, ChildEnds, ChildGarbles, ChildTimesOut, RunOut,
         WriteEvidence, FreezeCopy, FreezeRaises, FreezeManifest, WriteEvidenceOfFrozen,
         Evaluate, EvaluateChecks, Crash
  <2>3. runDir' = [frozen |-> runDir'.frozen, manifest |-> runDir'.manifest,
                   evidence |-> runDir'.evidence]
    BY DEF Types, Next, vars, codeVars, runVars, history, RefuseMode, Invoke, HarnessStep,
       LoadRefused, LoadRaises, Load, ChildReads, ChildEnds, ChildGarbles, ChildTimesOut, RunOut,
       WriteEvidence, FreezeCopy, FreezeRaises, FreezeManifest, WriteEvidenceOfFrozen,
       Evaluate, EvaluateChecks, Edit, Crash
  <2>4. task' \in Tasks /\ revisions' \in Seq(Paths)
    BY PathsAssumption
    DEF Types, Next, vars, codeVars, runVars, history, RefuseMode, Invoke, HarnessStep,
       LoadRefused, LoadRaises, Load, ChildReads, ChildEnds, ChildGarbles, ChildTimesOut, RunOut,
       WriteEvidence, FreezeCopy, FreezeRaises, FreezeManifest, WriteEvidenceOfFrozen,
       Evaluate, EvaluateChecks, Edit, Crash
  <2>5. observations' \in Seq(Range(observations'))
    <3>1. CASE \E hash, results : Observe(hash, results)
      BY <3>1, Observing
    <3>2. CASE Invoke
      BY <3>2 DEF Invoke
    <3>3. CASE UNCHANGED observations
      BY <3>3 DEF Types
    <3> QED
      BY <3>1, <3>2, <3>3 DEF Next, vars, runVars, RefuseMode, HarnessStep,
         LoadRefused, LoadRaises, Load, ChildReads, ChildEnds, ChildGarbles, ChildTimesOut, RunOut,
         WriteEvidence, FreezeCopy, FreezeRaises, FreezeManifest, WriteEvidenceOfFrozen,
         Evaluate, EvaluateChecks, Edit, Crash
  <2> QED
    BY <2>1, <2>2, <2>3, <2>4, <2>5 DEF Types
<1> QED
  BY <1>1, <1>2, PTL DEF Spec

----------------------------------------------------------------------------
(***************************************************************************)
(* The run directory                                                       *)
(***************************************************************************)

\* The frozen copy is whole or torn or not there, the manifest is written of it
\* while nothing else is, and what was verified had been copied whole.
DirectoryInv ==
    /\ evaluation = [integrity |-> evaluation.integrity, text |-> evaluation.text,
                     results |-> evaluation.results]
    /\ runDir.frozen \in frozenTexts \cup {Missing, Torn}
    /\ evaluation.integrity = "ok" => evaluation.text \in frozenTexts
    /\ pc = "manifest" => runDir.manifest = runDir.frozen
    /\ EvidenceMatchesTheCopy

\* What one invocation leaves behind before each of its steps, and after it.
FirstRunInv ==
    /\ runs \in Nat
    /\ runs = 0 => pc = "idle" /\ evaluation = NoEvaluation
    /\ runs <= 1 /\ pc \in {"idle", "refused", "conclude"} \cup Trying =>
          runDir = [frozen |-> Missing, manifest |-> Missing, evidence |-> Missing]
    /\ runs <= 1 /\ pc = "frozen" => runDir.manifest = Missing
    /\ runs <= 1 /\ pc \in {"frozen", "manifest"} => runDir.evidence = Missing
    /\ runs <= 1 /\ runDir.evidence \notin {Missing, Torn} =>
          runDir.evidence.frozen = runDir.manifest
    /\ runs <= 1 /\ evaluation.integrity = "ok" =>
          /\ pc \in {"evaluating", "evaluated"}
          /\ evaluation.text = runDir.frozen
          /\ runDir.manifest = runDir.frozen

LEMMA DirectoryStep == Types /\ DirectoryInv /\ [Next]_vars => DirectoryInv'
<1> SUFFICES ASSUME Types, DirectoryInv, [Next]_vars PROVE DirectoryInv'
  OBVIOUS
<1> USE DEF DirectoryInv, EvidenceMatchesTheCopy
<1>1. CASE WriteEvidence
  BY <1>1 DEF WriteEvidence, Types, Evidence, history
<1>2. CASE FreezeCopy
  BY <1>2 DEF FreezeCopy, Types
<1>3. CASE FreezeManifest
  BY <1>3 DEF FreezeManifest, Types, history
<1>4. CASE WriteEvidenceOfFrozen
  BY <1>4 DEF WriteEvidenceOfFrozen, Types, Evidence, history
<1>5. CASE Evaluate
  BY <1>5, NoTextAssumption DEF Evaluate, NoEvaluation, Verifies, VerifyRaises, history
<1>6. CASE EvaluateChecks
  BY <1>6 DEF EvaluateChecks, history
<1>7. CASE Crash
  BY <1>7 DEF Crash, Types, Writing, runVars
<1>8. CASE Invoke
  BY <1>8 DEF Invoke, NoEvaluation
<1>9. CASE \/ RefuseMode \/ LoadRefused \/ LoadRaises \/ Load \/ ChildReads \/ ChildEnds
           \/ ChildGarbles \/ ChildTimesOut \/ RunOut \/ FreezeRaises \/ Edit
  BY <1>9 DEF RefuseMode, LoadRefused, LoadRaises, Load, ChildReads, ChildEnds, ChildGarbles,
     ChildTimesOut, RunOut, FreezeRaises, Edit, runVars, history
<1>10. CASE UNCHANGED vars
  BY <1>10 DEF vars, history
<1> QED
  BY <1>1, <1>2, <1>3, <1>4, <1>5, <1>6, <1>7, <1>8, <1>9, <1>10 DEF Next, HarnessStep

LEMMA DirectoryHolds == Spec => []DirectoryInv
<1>1. Init => DirectoryInv
  BY DEF Init, DirectoryInv, NoEvaluation, EvidenceMatchesTheCopy
<1> QED
  BY <1>1, DirectoryStep, TypesHold, PTL DEF Spec

LEMMA FirstRunStep == Types /\ DirectoryInv /\ FirstRunInv /\ [Next]_vars => FirstRunInv'
<1> SUFFICES ASSUME Types, DirectoryInv, FirstRunInv, [Next]_vars PROVE FirstRunInv'
  OBVIOUS
<1> USE DEF FirstRunInv, Trying
<1>1. CASE WriteEvidence
  BY <1>1 DEF WriteEvidence, Types, Evidence, history
<1>2. CASE FreezeCopy
  BY <1>2 DEF FreezeCopy, Types
<1>3. CASE FreezeManifest
  BY <1>3 DEF FreezeManifest, Types, history
<1>4. CASE WriteEvidenceOfFrozen
  BY <1>4 DEF WriteEvidenceOfFrozen, Types, Evidence, history
<1>5. CASE Evaluate
  BY <1>5 DEF Evaluate, NoEvaluation, Verifies, history
<1>6. CASE EvaluateChecks
  BY <1>6 DEF EvaluateChecks, DirectoryInv, history
<1>7. CASE Crash
  BY <1>7 DEF Crash, Types, Writing, Stopped, runVars
<1>8. CASE Invoke \/ RefuseMode
  BY <1>8 DEF Invoke, RefuseMode, NoEvaluation, Stopped
<1>9. CASE \/ LoadRefused \/ LoadRaises \/ Load \/ ChildReads \/ ChildEnds
           \/ ChildGarbles \/ ChildTimesOut \/ RunOut \/ FreezeRaises \/ Edit
  BY <1>9 DEF LoadRefused, LoadRaises, Load, ChildReads, ChildEnds, ChildGarbles,
     ChildTimesOut, RunOut, FreezeRaises, Edit, runVars, history
<1>10. CASE UNCHANGED vars
  BY <1>10 DEF vars, history
<1> QED
  BY <1>1, <1>2, <1>3, <1>4, <1>5, <1>6, <1>7, <1>8, <1>9, <1>10 DEF Next, HarnessStep

\* Even if the file is rewritten during the run, the manifest in the evidence is
\* that of the copy in the run directory.
THEOREM EvidenceDescribesTheCopy == Spec => []EvidenceMatchesTheCopy
<1>1. DirectoryInv => EvidenceMatchesTheCopy
  BY DEF DirectoryInv
<1> QED
  BY <1>1, DirectoryHolds, PTL

\* Whatever crashes and earlier runs left in the run directory, evaluate_public
\* only ever checks a text that some run accepted and copied whole.
THEOREM OnlyWholeCopiesAreEvaluated == Spec => []VerifiedWasFrozenWhole
<1>1. DirectoryInv => VerifiedWasFrozenWhole
  BY DEF DirectoryInv, VerifiedWasFrozenWhole
<1> QED
  BY <1>1, DirectoryHolds, PTL

\* In a run directory that one invocation has used, and whose evidence is whole,
\* evaluate_public accepts only the copy that evidence tells of.
THEOREM EvaluationAgreesWithTheEvidence == Spec => []EvaluatedIsInTheEvidence
<1>1. Init => FirstRunInv
  BY DEF Init, FirstRunInv, NoEvaluation
<1>2. Spec => []FirstRunInv
  BY <1>1, FirstRunStep, DirectoryHolds, TypesHold, PTL DEF Spec
<1>3. FirstRunInv => EvaluatedIsInTheEvidence
  BY DEF FirstRunInv, EvaluatedIsInTheEvidence
<1> QED
  BY <1>2, <1>3, PTL

----------------------------------------------------------------------------
(***************************************************************************)
(* The observations                                                        *)
(***************************************************************************)

\* Every revision tried so far has failed in time; the termination reason is
\* chosen once, and the observation that caused it is the last one.
StoryInv ==
    LET n == Len(observations)
    IN /\ index \in Nat /\ index <= Tried
       /\ terminationReason \in Reasons
       /\ pc \in {"spawned", "checking"} => index < Tried
       /\ pc \in Trying => terminationReason = "None"
       /\ pc \in Concluding => terminationReason # "None"
       /\ \A k \in 1 .. n : observations[k].revision = k - 1
       /\ \A k \in 1 .. index :
             ~AllPassed(observations[k].results) /\ ~TimedOut(observations[k])
       /\ n = IF terminationReason \in {"checks_passed", "timeout"} THEN index + 1 ELSE index
       /\ terminationReason \in {"checks_passed", "timeout"} => index < Tried
       /\ correctionCount = IF terminationReason = "checks_passed" THEN index ELSE n
       /\ terminationReason = "checks_passed" => AllPassed(observations[n].results)
       /\ terminationReason = "timeout" => TimedOut(observations[n])
       /\ terminationReason = "max_revisions_exceeded" => index = Tried /\ Len(revisions) > Tried
       /\ terminationReason = "revisions_exhausted" => index = Tried /\ Len(revisions) <= Tried

LEMMA TriedIsNat ==
    ASSUME Types
    PROVE  /\ Len(revisions) \in Nat /\ task.max_revisions \in Nat
           /\ Tried \in Nat /\ Tried <= Len(revisions) /\ Tried <= task.max_revisions
BY TasksAssumption, LenProperties DEF Types, Tried

\* The results of a refused revision or of a timeout did not all pass.
LEMMA FailedResults ==
    /\ ~AllPassed({Result("timeout", FALSE)})
    /\ ~AllPassed({Result("build_validity", FALSE)})
    /\ {Result("build_validity", FALSE)} # {Result("timeout", FALSE)}
<1>1. Result("build_validity", FALSE) # Result("timeout", FALSE)
  BY DEF Result
<1>2. ~Result("timeout", FALSE).passed /\ ~Result("build_validity", FALSE).passed
  BY DEF Result
<1> QED
  BY <1>1, <1>2 DEF AllPassed

\* The results of a check process hold one on the build: they are not a timeout's.
LEMMA ResultsOfTheChild ==
    ASSUME NEW o, NEW requested
    PROVE  ChildResults(o, requested) # {Result("timeout", FALSE)}
<1>1. PICK r \in ChildResults(o, requested) : r.check = "build_validity"
  <2>1. /\ o.dies => Result("build_validity", FALSE) \in ChildResults(o, requested)
        /\ ~o.dies => Result("build_validity", o.builds) \in ChildResults(o, requested)
    BY DEF ChildResults, RunnerResults
  <2>2. \A b : Result("build_validity", b).check = "build_validity"
    BY DEF Result
  <2> QED
    BY <2>1, <2>2
<1>2. Result("timeout", FALSE).check = "timeout"
  BY DEF Result
<1> QED
  BY <1>1, <1>2

\* The next revision's observation is appended to those of the earlier ones.
LEMMA ObservationOfTheNext ==
    ASSUME Types, StoryInv, terminationReason = "None",
           NEW hash, NEW results, Observe(hash, results)
    PROVE  /\ Len(observations) = index
           /\ Len(observations') = index + 1
           /\ \A k \in 1 .. index + 1 : observations'[k].revision = k - 1
           /\ \A k \in 1 .. index :
                 ~AllPassed(observations'[k].results) /\ ~TimedOut(observations'[k])
           /\ observations'[index + 1].results = results
<1>1. /\ Len(observations) = index /\ index \in Nat
      /\ \A k \in 1 .. index : observations[k].revision = k - 1
      /\ \A k \in 1 .. index :
            ~AllPassed(observations[k].results) /\ ~TimedOut(observations[k])
  BY DEF StoryInv
<1>2. /\ Len(observations') = index + 1
      /\ \A k \in 1 .. index : observations'[k] = observations[k]
      /\ observations'[index + 1] = [revision |-> index, hash |-> hash, results |-> results]
  BY <1>1, Observing
<1>3. \A k \in 1 .. index : ~AllPassed(observations'[k].results) /\ ~TimedOut(observations'[k])
  BY <1>1, <1>2
<1>4. \A k \in 1 .. index + 1 : observations'[k].revision = k - 1
  BY <1>1, <1>2
<1> QED
  BY <1>1, <1>2, <1>3, <1>4

LEMMA StoryStep == Types /\ StoryInv /\ [Next]_vars => StoryInv'
<1> SUFFICES ASSUME Types, StoryInv, [Next]_vars PROVE StoryInv'
  OBVIOUS
<1> DEFINE Before ==
             /\ Len(observations) = index
             /\ Len(observations') = index + 1
             /\ \A k \in 1 .. index + 1 : observations'[k].revision = k - 1
             /\ \A k \in 1 .. index :
                   ~AllPassed(observations'[k].results) /\ ~TimedOut(observations'[k])
           AfterAFailure ==
             /\ Before
             /\ \A k \in 1 .. index + 1 :
                   ~AllPassed(observations'[k].results) /\ ~TimedOut(observations'[k])
<1> HIDE DEF Before, AfterAFailure
<1>a. /\ Len(revisions) \in Nat /\ Tried \in Nat
      /\ Len(observations) \in Nat /\ index \in Nat
  BY TriedIsNat, LenProperties DEF Types, StoryInv
<1>b. ASSUME Before, ~AllPassed(observations'[index + 1].results),
             ~TimedOut(observations'[index + 1])
      PROVE  AfterAFailure
  <2>1. \A k \in 1 .. index + 1 : k \in 1 .. index \/ k = index + 1
    BY <1>a
  <2> QED
    BY <1>b, <2>1 DEF Before, AfterAFailure
<1>1. CASE LoadRefused
  <2>1. /\ Observe(Missing, {Result("build_validity", FALSE)}) /\ terminationReason = "None"
        /\ Tried' = Tried /\ index < Tried /\ revisions' = revisions
    BY <1>1 DEF LoadRefused, Tried, StoryInv, Trying
  <2>2. AfterAFailure
    <3>1. /\ Before
          /\ observations'[index + 1].results = {Result("build_validity", FALSE)}
      BY <2>1, ObservationOfTheNext DEF Before
    <3>2. ~AllPassed(observations'[index + 1].results)
      BY <3>1, FailedResults
    <3>3. ~TimedOut(observations'[index + 1])
      BY <3>1, FailedResults DEF TimedOut
    <3> QED
      BY <1>b, <3>1, <3>2, <3>3
  <2> QED
    BY <1>1, <1>a, <2>1, <2>2
    DEF LoadRefused, Before, AfterAFailure, StoryInv, Trying, Concluding, Reasons
<1>2. CASE ChildEnds
  <2>1. PICK o \in OutcomesOf(child) : LET results == ChildResults(o, task.exposed_checks)
           IN /\ Observe(loaded, results)
              /\ IF AllPassed(results)
                 THEN /\ terminationReason' = "checks_passed"
                      /\ pc' = "conclude"
                      /\ UNCHANGED <<correctionCount, index>>
                 ELSE /\ correctionCount' = correctionCount + 1
                      /\ index' = index + 1
                      /\ pc' = "load"
                      /\ UNCHANGED terminationReason
    BY <1>2 DEF ChildEnds
  <2> DEFINE results == ChildResults(o, task.exposed_checks)
  <2>2. /\ Tried' = Tried /\ pc = "checking" /\ revisions' = revisions
        /\ terminationReason = "None" /\ index < Tried
    BY <1>2 DEF ChildEnds, Tried, StoryInv, Trying
  <2>3. results # {Result("timeout", FALSE)}
    BY ResultsOfTheChild
  <2>4. Observe(loaded, results)
    BY <2>1
  <2>5. /\ AllPassed(results) => terminationReason' = "checks_passed" /\ pc' = "conclude"
                                    /\ correctionCount' = correctionCount /\ index' = index
        /\ ~AllPassed(results) => correctionCount' = correctionCount + 1 /\ index' = index + 1
                                     /\ pc' = "load" /\ terminationReason' = "None"
    BY <2>1, <2>2
  <2> HIDE DEF results
  <2>6. CASE AllPassed(results)
    <3>1. Before /\ AllPassed(observations'[index + 1].results)
      BY <2>2, <2>4, <2>6, ObservationOfTheNext DEF Before
    <3> QED
      BY <1>a, <2>2, <2>5, <2>6, <3>1 DEF Before, StoryInv, Trying, Concluding, Reasons
  <2>7. CASE ~AllPassed(results)
    <3>1. Before /\ observations'[index + 1].results = results
      BY <2>2, <2>4, ObservationOfTheNext DEF Before
    <3>2. ~AllPassed(observations'[index + 1].results) /\ ~TimedOut(observations'[index + 1])
      BY <2>3, <2>7, <3>1 DEF TimedOut
    <3>3. AfterAFailure
      BY <1>b, <3>1, <3>2
    <3> QED
      BY <1>a, <2>2, <2>5, <2>7, <3>3
      DEF Before, AfterAFailure, StoryInv, Trying, Concluding, Reasons
  <2> QED
    BY <2>6, <2>7
<1>3. CASE ChildTimesOut
  <2> DEFINE timeout == {Result("timeout", FALSE)}
  <2>1. /\ Observe(loaded, timeout) /\ terminationReason = "None"
        /\ Tried' = Tried /\ index < Tried /\ revisions' = revisions
    BY <1>3 DEF ChildTimesOut, Tried, StoryInv, Trying
  <2>2. Before /\ observations'[index + 1].results = timeout
    BY <2>1, ObservationOfTheNext DEF Before
  <2>3. TimedOut(observations'[index + 1])
    BY <2>2 DEF TimedOut
  <2>4. /\ terminationReason' = "timeout" /\ pc' = "conclude" /\ index' = index
        /\ correctionCount' = correctionCount + 1
    BY <1>3 DEF ChildTimesOut
  <2> QED
    BY <1>a, <2>1, <2>2, <2>3, <2>4 DEF Before, StoryInv, Trying, Concluding, Reasons
<1>4. CASE RunOut
  <2>1. /\ Tried' = Tried /\ index = Tried /\ terminationReason = "None" /\ pc' = "conclude"
        /\ UNCHANGED <<index, observations, correctionCount, revisions>>
        /\ terminationReason' = IF Len(revisions) > Tried THEN "max_revisions_exceeded"
                                ELSE "revisions_exhausted"
    BY <1>4 DEF RunOut, Tried, StoryInv, Trying
  <2>2. \A k \in 1 .. index :
           ~AllPassed(observations'[k].results) /\ ~TimedOut(observations'[k])
    BY <2>1 DEF StoryInv
  <2> QED
    BY <1>a, <2>1, <2>2 DEF StoryInv, Trying, Concluding, Reasons
<1>5. CASE Invoke
  <2>1. Len(observations') = 0 /\ Len(revisions') \in Nat /\ task'.max_revisions \in Nat
    BY <1>5, PathsAssumption, TasksAssumption, LenProperties DEF Invoke
  <2>2. Tried' \in Nat
    BY <2>1 DEF Tried
  <2> QED
    BY <1>5, <2>1, <2>2 DEF Invoke, StoryInv, Trying, Concluding, Reasons
<1>6. CASE \/ RefuseMode \/ LoadRaises \/ Load \/ ChildReads \/ ChildGarbles
           \/ WriteEvidence \/ FreezeCopy \/ FreezeRaises \/ FreezeManifest \/ WriteEvidenceOfFrozen
           \/ Evaluate \/ EvaluateChecks \/ Edit \/ Crash \/ UNCHANGED vars
  <2>1. Tried' = Tried
        /\ UNCHANGED <<revisions, index, observations, correctionCount, terminationReason>>
    BY <1>6 DEF vars, runVars, Tried, RefuseMode, LoadRaises, Load, ChildReads,
       ChildGarbles, WriteEvidence, FreezeCopy, FreezeRaises, FreezeManifest,
       WriteEvidenceOfFrozen, Evaluate, EvaluateChecks, Edit, Crash
  <2>2. /\ pc' \in {"spawned", "checking"} => index < Tried
        /\ pc' \in Trying => terminationReason = "None"
        /\ pc' \in Concluding => terminationReason # "None"
    BY <1>6 DEF StoryInv, Trying, Concluding, vars, RefuseMode, LoadRaises, Load, ChildReads,
       ChildGarbles, WriteEvidence, FreezeCopy, FreezeRaises, FreezeManifest,
       WriteEvidenceOfFrozen, Evaluate, EvaluateChecks, Edit, Crash, Stopped
  <2> QED
    BY <2>1, <2>2 DEF StoryInv, TimedOut
<1> QED
  BY <1>1, <1>2, <1>3, <1>4, <1>5, <1>6 DEF Next, HarnessStep

LEMMA StoryHolds == Spec => []StoryInv
<1>1. Init => StoryInv
  <2> SUFFICES ASSUME Init PROVE StoryInv
    OBVIOUS
  <2>1. Len(observations) = 0 /\ Tried \in Nat
    BY TasksAssumption DEF Init, Tried
  <2> QED
    BY <2>1 DEF Init, StoryInv, Trying, Concluding, Reasons
<1> QED
  BY <1>1, StoryStep, TypesHold, PTL DEF Spec

\* The evidence of a run tells one story: its observations are the revisions in
\* order with none left out, all but the last failed in time, correction_count is
\* the number of failed ones, and the termination reason is the one the last
\* observation and the revisions left over call for.
THEOREM TheObservationsTellOneStory == Spec => []ObservationsExplainTheReason
<1>1. Types /\ StoryInv => ObservationsExplainTheReason
  <2> SUFFICES ASSUME Types, StoryInv PROVE ObservationsExplainTheReason
    OBVIOUS
  <2> DEFINE n == Len(observations)
             failed(k) == ~AllPassed(observations[k].results)
  <2>1. n \in Nat /\ index \in Nat /\ Tried \in Nat /\ Len(revisions) \in Nat
    BY TriedIsNat, LenProperties DEF Types, StoryInv
  <2>2. /\ {k \in 1 .. n : failed(k)} = 1 .. correctionCount
        /\ correctionCount \in Nat
    <3>1. CASE terminationReason = "checks_passed"
      BY <2>1, <3>1 DEF StoryInv
    <3>2. CASE terminationReason = "timeout"
      <4>1. failed(n)
        BY <3>2, FailedResults DEF StoryInv, TimedOut
      <4> QED
        BY <2>1, <3>2, <4>1 DEF StoryInv
    <3>3. CASE terminationReason \notin {"checks_passed", "timeout"}
      BY <2>1, <3>3 DEF StoryInv
    <3> QED
      BY <3>1, <3>2, <3>3
  <2>3. correctionCount = Cardinality({k \in 1 .. n : failed(k)})
    <3>1. Cardinality(1 .. correctionCount) = correctionCount
      BY <2>2, FS_Interval
    <3> QED
      BY <2>2, <3>1
  <2>4. \A k \in 1 .. n - 1 : failed(k) /\ ~TimedOut(observations[k])
    BY <2>1 DEF StoryInv
  <2>5. terminationReason = "checks_passed" <=> n > 0 /\ ~failed(n)
    <3>1. terminationReason = "timeout" => failed(n)
      BY FailedResults DEF StoryInv, TimedOut
    <3> QED
      BY <2>1, <3>1 DEF StoryInv
  <2>6. terminationReason = "timeout" <=> n > 0 /\ TimedOut(Last)
    <3>1. terminationReason = "checks_passed" => ~TimedOut(observations[n])
      BY FailedResults DEF StoryInv, TimedOut
    <3> QED
      BY <2>1, <3>1 DEF StoryInv, Last
  <2>7. /\ terminationReason = "max_revisions_exceeded" =>
              n = task.max_revisions /\ n < Len(revisions)
        /\ terminationReason = "revisions_exhausted" => n = Len(revisions)
    BY <2>1, TriedIsNat DEF StoryInv, Tried
  <2> QED
    BY <2>3, <2>4, <2>5, <2>6, <2>7
    DEF ObservationsExplainTheReason, StoryInv, Concluding
<1> QED
  BY <1>1, StoryHolds, TypesHold, PTL

----------------------------------------------------------------------------
(***************************************************************************)
(* The accepted candidate                                                  *)
(***************************************************************************)

\* A candidate all of whose results passed built and failed no requested check.
LEMMA PassedResults ==
    ASSUME NEW o, NEW requested, AllPassed(ChildResults(o, requested))
    PROVE  o.builds /\ \A c \in Range(requested) \cap KnownChecks : c \notin o.fails
<1>1. ~o.dies
  BY FailedResults DEF ChildResults
<1>2. /\ Result("build_validity", o.builds) \in ChildResults(o, requested)
      /\ \A c \in Range(requested) \cap KnownChecks :
            Result(c, o.builds /\ c \notin o.fails) \in ChildResults(o, requested)
  BY <1>1 DEF ChildResults, RunnerResults
<1>3. /\ \A r \in ChildResults(o, requested) : r.passed
      /\ \A c, b : Result(c, b).passed = b
  BY DEF AllPassed, Result
<1> QED
  BY <1>2, <1>3

LEMMA AcceptedStep ==
    Types /\ StoryInv /\ AcceptedPassedEveryCheck /\ [Next]_vars => AcceptedPassedEveryCheck'
<1> SUFFICES ASSUME Types, StoryInv, AcceptedPassedEveryCheck, [Next]_vars,
                    terminationReason' = "checks_passed"
             PROVE  \E o \in OutcomesOf(child') :
                       /\ o.builds
                       /\ \A c \in Range(task'.exposed_checks) \cap KnownChecks : c \notin o.fails
                       /\ Last'.results = ChildResults(o, task'.exposed_checks)
  BY DEF AcceptedPassedEveryCheck
<1>1. CASE ChildEnds
  <2>1. PICK o \in OutcomesOf(child) :
           /\ Observe(loaded, ChildResults(o, task.exposed_checks))
           /\ AllPassed(ChildResults(o, task.exposed_checks)) \/ UNCHANGED terminationReason
    BY <1>1 DEF ChildEnds
  <2>2. terminationReason = "None" /\ child' = child /\ task' = task
    BY <1>1 DEF ChildEnds, StoryInv, Trying
  <2>3. AllPassed(ChildResults(o, task.exposed_checks))
    BY <2>1, <2>2
  <2>4. Last'.results = ChildResults(o, task.exposed_checks)
    BY <2>1, LastObserved
  <2> QED
    BY <2>2, <2>3, <2>4, PassedResults
<1>2. CASE UNCHANGED <<terminationReason, child, task, observations>>
  BY <1>2 DEF AcceptedPassedEveryCheck, Last
<1>3. CASE terminationReason' \in {"None", "timeout", "max_revisions_exceeded",
                                   "revisions_exhausted"}
  BY <1>3
<1>4. CASE LoadRefused \/ Load \/ ChildReads
  BY <1>4 DEF LoadRefused, Load, ChildReads, StoryInv, Trying
<1> QED
  BY <1>1, <1>2, <1>3, <1>4 DEF Next, HarnessStep, vars, runVars, RefuseMode, Invoke,
     LoadRaises, ChildGarbles, ChildTimesOut, RunOut, WriteEvidence, FreezeCopy, FreezeRaises,
     FreezeManifest, WriteEvidenceOfFrozen, Evaluate, EvaluateChecks, Edit, Crash

\* What the harness accepts built and passed every exposed check that exists, in
\* the process that checked it.
THEOREM AcceptedRevisionPassed == Spec => []AcceptedPassedEveryCheck
<1>1. Init => AcceptedPassedEveryCheck
  BY DEF Init, AcceptedPassedEveryCheck
<1> QED
  BY <1>1, AcceptedStep, StoryHolds, TypesHold, PTL DEF Spec

\* The text of one file, from its first read by the harness to the evidence: as
\* long as the file is left alone it is the loaded text, and the process checks it
\* unless it trusts a compiled text that is not the file's.
Current(p) == bytecode[p] \in {Missing, files[p]}

OneTextInv ==
    /\ pc \in {"spawned", "checking"} =>
          /\ Candidate \in Paths
          /\ loaded \in Texts \ Undecodable
          /\ Candidate \notin touched => files[Candidate] = loaded
    /\ pc = "checking" /\ Candidate \notin touched /\ Current(Candidate) => child = loaded
    /\ pc \in Trying => accepted = NoPath
    /\ pc \in Concluding =>
          /\ accepted \in Paths <=> terminationReason = "checks_passed"
          /\ accepted \in Paths \cup {NoPath}
    /\ pc \in Concluding /\ terminationReason = "checks_passed" /\ accepted \notin touched =>
          /\ files[accepted] = Last.hash
          /\ Current(accepted) => child = Last.hash
          /\ pc # "conclude" => runDir.frozen = Last.hash
          /\ pc \in {"manifest", "returned"} => runDir.manifest = Last.hash
          /\ pc = "returned" => runDir.evidence.frozen = Last.hash

LEMMA OneTextStep == Types /\ StoryInv /\ OneTextInv /\ [Next]_vars => OneTextInv'
<1> SUFFICES ASSUME Types, StoryInv, OneTextInv, [Next]_vars PROVE OneTextInv'
  OBVIOUS
<1> USE DEF Trying, Concluding
<1>1. CASE Load
  <2>1. Candidate \in Paths
    BY <1>1, TriedIsNat, PathsAssumption DEF Load
  <2>2. Candidate' = Candidate
    BY <1>1 DEF Load, Candidate
  <2> QED
    BY <1>1, <2>1, <2>2 DEF Load, OneTextInv, StoryInv, history
<1>2. CASE ChildReads
  <2>1. Candidate' = Candidate /\ Candidate \in Paths
    BY <1>2 DEF ChildReads, Candidate, OneTextInv
  <2>2. ASSUME Candidate \notin touched, bytecode'[Candidate] \in {Missing, files[Candidate]}
        PROVE  child' = loaded
    <3>1. files[Candidate] \notin Undecodable \cup {Missing, Torn}
      BY <1>2, <2>2, NoTextAssumption DEF ChildReads, OneTextInv
    <3> QED
      BY <1>2, <2>1, <2>2, <3>1 DEF ChildReads, OneTextInv, Imported, KeptCode, Types
  <2> QED
    BY <1>2, <2>1, <2>2 DEF ChildReads, OneTextInv, Current, history
<1>3. CASE ChildEnds
  <2>1. PICK o \in OutcomesOf(child) :
           /\ Observe(loaded, ChildResults(o, task.exposed_checks))
           /\ \/ /\ accepted' = Candidate
                 /\ terminationReason' = "checks_passed"
                 /\ pc' = "conclude"
              \/ /\ pc' = "load"
                 /\ UNCHANGED <<accepted, terminationReason>>
    BY <1>3 DEF ChildEnds
  <2>2. Last'.hash = loaded
    BY <2>1, LastObserved
  <2> QED
    BY <1>3, <2>1, <2>2 DEF ChildEnds, OneTextInv, Current, codeVars, history
<1>4. CASE Edit
  <2>1. Candidate' = Candidate /\ Last' = Last
    BY <1>4 DEF Edit, Candidate, Last, runVars
  <2> QED
    BY <1>4, <2>1 DEF Edit, OneTextInv, Current, runVars, Types
<1>5. CASE WriteEvidence \/ FreezeCopy \/ FreezeManifest \/ WriteEvidenceOfFrozen
  <2>1. Last' = Last
    BY <1>5 DEF WriteEvidence, FreezeCopy, FreezeManifest, WriteEvidenceOfFrozen, Last, runVars
  <2> QED
    BY <1>5, <2>1, PathsAssumption
    DEF WriteEvidence, FreezeCopy, FreezeManifest, WriteEvidenceOfFrozen,
        Evidence, OneTextInv, Current, Types, runVars, codeVars, history
<1>6. CASE ChildTimesOut \/ RunOut
  BY <1>6, PathsAssumption DEF ChildTimesOut, RunOut, OneTextInv
<1>7. CASE LoadRefused \/ Invoke
  BY <1>7 DEF LoadRefused, Invoke, OneTextInv
<1>8. CASE RefuseMode \/ LoadRaises \/ ChildGarbles \/ FreezeRaises \/ Evaluate
           \/ EvaluateChecks \/ Crash
  BY <1>8 DEF RefuseMode, LoadRaises, ChildGarbles, FreezeRaises, Evaluate, EvaluateChecks,
     Crash, OneTextInv
<1>9. CASE UNCHANGED vars
  <2>1. Candidate' = Candidate /\ Last' = Last
    BY <1>9 DEF vars, runVars, Candidate, Last
  <2> QED
    BY <1>9, <2>1 DEF vars, runVars, codeVars, history, OneTextInv, Current
<1> QED
  BY <1>1, <1>2, <1>3, <1>4, <1>5, <1>6, <1>7, <1>8, <1>9 DEF Next, HarnessStep

LEMMA OneTextHolds == Spec => []OneTextInv
<1>1. Init => OneTextInv
  BY DEF Init, OneTextInv, Trying, Concluding
<1> QED
  BY <1>1, OneTextStep, StoryHolds, TypesHold, PTL DEF Spec

\* Unless the accepted file is rewritten between its first read and the end of
\* the run, or keeps the stamp of an earlier compiled text, the text that was
\* hashed, the text that was checked, the frozen copy, its manifest and the
\* evidence are one and the same.
THEOREM FrozenTextIsTheOneThatPassed == Spec => []FrozenIsWhatPassed
<1>1. OneTextInv => FrozenIsWhatPassed
  BY DEF OneTextInv, FrozenIsWhatPassed, Current, Concluding
<1> QED
  BY <1>1, OneTextHolds, PTL

----------------------------------------------------------------------------
(***************************************************************************)
(* The types of the other variables follow from what each of them holds.   *)
(***************************************************************************)

OtherTypes ==
    /\ bytecode \in [Paths -> (Texts \ Undecodable) \cup {Missing}]
    /\ frozenCode \in (Texts \ Undecodable) \cup {Missing}
    /\ runDir.frozen \in Kept /\ runDir.manifest \in Kept /\ evaluation.text \in Kept
    /\ pc \in Stopped \cup Trying \cup Concluding \cup {"evaluating"}
    /\ loaded \in (Texts \ Undecodable) \cup {Missing}
    /\ child \in Texts \cup {Missing}
    /\ accepted \in Paths \cup {NoPath}

\* What an import leaves beside a file is a compiled text, if anything.
LEMMA ImportTypes ==
    ASSUME NEW file \in Kept, NEW code \in (Texts \ Undecodable) \cup {Missing}
    PROVE  /\ Imported(file, code) \in Kept
           /\ file # Torn => Imported(file, code) \in Texts \cup {Missing}
           /\ KeptCode(file, code) \subseteq (Texts \ Undecodable) \cup {Missing}
BY DEF Imported, KeptCode, Kept

LEMMA OtherTypesStep ==
    Types /\ DirectoryInv /\ StoryInv /\ OneTextInv /\ OtherTypes /\ [Next]_vars => OtherTypes'
<1> SUFFICES ASSUME Types, DirectoryInv, StoryInv, OneTextInv, OtherTypes, [Next]_vars
             PROVE  OtherTypes'
  OBVIOUS
<1> USE DEF OtherTypes, Trying, Concluding, Stopped
<1>1. CASE Load
  BY <1>1 DEF Load, codeVars
<1>2. CASE ChildReads
  <2>1. Candidate \in Paths
    BY <1>2 DEF ChildReads, OneTextInv
  <2>2. files[Candidate] \in Kept \ {Torn}
        /\ bytecode[Candidate] \in (Texts \ Undecodable) \cup {Missing}
    BY <2>1, NoTextAssumption DEF Types, Kept
  <2> QED
    BY <1>2, <2>1, <2>2, ImportTypes DEF ChildReads
<1>3. CASE ChildEnds
  BY <1>3 DEF ChildEnds, OneTextInv, codeVars
<1>4. CASE FreezeCopy
  <2>1. files[accepted] \in Kept
    BY <1>4 DEF FreezeCopy, Types, Kept
  <2> QED
    BY <1>4, <2>1 DEF FreezeCopy, Types, Restamped, runVars
<1>5. CASE WriteEvidence \/ FreezeManifest \/ WriteEvidenceOfFrozen
  BY <1>5 DEF WriteEvidence, FreezeManifest, WriteEvidenceOfFrozen, Types, codeVars, runVars
<1>6. CASE Evaluate
  <2>1. evaluation'.text \in {Missing, runDir.frozen}
    BY <1>6 DEF Evaluate, NoEvaluation
  <2> QED
    BY <1>6, <2>1 DEF Evaluate, Kept, codeVars, runVars
<1>7. CASE EvaluateChecks
  <2>1. evaluation'.text = evaluation.text
    BY <1>7 DEF EvaluateChecks, DirectoryInv
  <2> QED
    BY <1>7, <2>1, ImportTypes DEF EvaluateChecks, runVars
<1>8. CASE Edit
  BY <1>8 DEF Edit, Restamped, runVars
<1>9. CASE Crash
  BY <1>9 DEF Crash, Writing, Types, Kept, runVars
<1>10. CASE Invoke
  BY <1>10 DEF Invoke, NoEvaluation, Kept, codeVars
<1>11. CASE \/ RefuseMode \/ LoadRefused \/ LoadRaises \/ ChildGarbles \/ ChildTimesOut
            \/ RunOut \/ FreezeRaises \/ UNCHANGED vars
  BY <1>11 DEF RefuseMode, LoadRefused, LoadRaises, ChildGarbles, ChildTimesOut, RunOut, FreezeRaises,
     vars, codeVars, runVars
<1> QED
  BY <1>1, <1>2, <1>3, <1>4, <1>5, <1>6, <1>7, <1>8, <1>9, <1>10, <1>11 DEF Next, HarnessStep

\* Every variable keeps the values the code can give it: in particular no more
\* revisions are observed than max_revisions allows.
THEOREM HarnessTypes == Spec => []TypeOK
<1>1. Init => OtherTypes
  BY DEF Init, OtherTypes, NoEvaluation, Kept, Stopped
<1>2. Spec => []OtherTypes
  BY <1>1, OtherTypesStep, TypesHold, DirectoryHolds, StoryHolds, OneTextHolds, PTL DEF Spec
<1>3. Types /\ StoryInv /\ OtherTypes => TypeOK
  BY TriedIsNat DEF Types, StoryInv, OtherTypes, TypeOK, Reasons, Trying, Concluding, Stopped
<1> QED
  BY <1>2, <1>3, TypesHold, StoryHolds, PTL
=============================================================================
