--------------------------- MODULE BaselineProofs ---------------------------
(***************************************************************************)
(* run_baseline for any agents, base commits, texts and other paths.       *)
(***************************************************************************)
EXTENDS Baseline, TLAPS

Positions ==
    {"setup", "invoke", "look", "evaluate", "ending", "raising", "recorded",
     "recorded_raising", "returned", "raised"}

Reasons ==
    {"None", "worktree_setup_failed", "timeout", "no_candidate_produced",
     "editable_scope_violation", "checks_passed", "checks_failed", "checks_timeout"}

Types ==
    /\ pc \in Positions
    /\ config \in Configs
    /\ agent \in Agents
    /\ record \in [reason : Reasons, hash : Texts \cup {Missing}, candidate : BOOLEAN,
                   manifest : Texts \cup {Missing}]
    /\ runDir = [frozen |-> runDir.frozen, manifest |-> runDir.manifest,
                 record |-> runDir.record]

Clean == [candidate |-> config.atBase, others |-> {}]

Fresh ==
    /\ record = NoRecord
    /\ runDir = [frozen |-> Missing, manifest |-> Missing, record |-> {}]

\* Before the candidate is frozen nothing is recorded, and the worktree holds what
\* the base commit or an agent within its timeout has put there.
BeforeFreeze ==
    /\ pc \in {"setup", "invoke", "look"} => Fresh
    /\ pc = "setup" => worktree = {}
    /\ pc = "invoke" => worktree = {Clean}
    /\ pc = "look" =>
          /\ agent.ends # "times_out"
          /\ worktree = IF agent.ends = "exits" THEN Touched ELSE {Clean}

\* What agrees once the candidate is frozen, whatever the evaluation says of it.
Frozen ==
    /\ agent.ends # "times_out"
    /\ agent.ends = "exits" => agent.others \subseteq Unreported
    /\ record.hash # Missing
    /\ record.hash = IF agent.ends = "exits" /\ agent.candidate # Missing
                     THEN agent.candidate ELSE config.atBase
    /\ runDir.frozen = record.hash
    /\ runDir.manifest = record.hash

FrozenInv ==
    pc = "evaluate" \/ record.reason \in {"checks_passed", "checks_failed", "checks_timeout"}
        => Frozen

\* In the finally block: the record of an agent that was killed says so, if it
\* says anything, and once written it is the one returned.
EndingInv ==
    /\ pc \in {"ending", "raising", "recorded", "recorded_raising"} =>
          (agent.ends = "times_out" => record.reason \in {"timeout", "None"})
    /\ pc \in {"recorded", "recorded_raising"} => runDir.record = {record}

IInv ==
    /\ Types /\ BeforeFreeze /\ FrozenInv /\ EndingInv
    /\ NothingLeftBehind /\ NothingSubstituted

----------------------------------------------------------------------------
LEMMA InitEstablishes == Init => IInv
<1> SUFFICES ASSUME Init PROVE IInv
  OBVIOUS
<1> USE DEF Init
<1>1. Types
  BY DEF Types, Positions, Reasons, NoRecord
<1>2. BeforeFreeze /\ FrozenInv /\ EndingInv
  BY DEF BeforeFreeze, Fresh, FrozenInv, EndingInv, NoRecord
<1>3. NothingLeftBehind /\ NothingSubstituted
  BY DEF NothingLeftBehind, NothingSubstituted, NoRecord, Ended
<1> QED
  BY <1>1, <1>2, <1>3 DEF IInv

LEMMA SettingUpKeeps ==
    ASSUME IInv, SetupFails \/ SetUp
    PROVE  IInv'
<1> USE DEF IInv, SetupFails, SetUp
<1>1. Fresh /\ worktree = {}
  BY DEF BeforeFreeze
<1>2. Types'
  BY <1>1 DEF Types, Fresh, NoRecord, Positions, Reasons
<1>3. BeforeFreeze' /\ FrozenInv' /\ EndingInv'
  BY <1>1 DEF BeforeFreeze, Fresh, FrozenInv, EndingInv, NoRecord, Clean
<1>4. NothingLeftBehind' /\ NothingSubstituted'
  BY <1>1 DEF Fresh, NothingLeftBehind, NothingSubstituted, NoRecord, Ended
<1> QED
  BY <1>2, <1>3, <1>4

LEMMA InvokingKeeps ==
    ASSUME IInv, AgentEnds \/ AgentKilledSilent \/ AgentKilledAfterPrinting
    PROVE  IInv'
<1> USE DEF IInv, AgentEnds, AgentKilledSilent, AgentKilledAfterPrinting
<1>1. Fresh /\ worktree = {Clean} /\ agent' = agent /\ config' = config
      /\ runDir' = runDir
  BY DEF BeforeFreeze
<1>2. Types'
  BY <1>1 DEF Types, Fresh, NoRecord, Positions, Reasons
<1>3. BeforeFreeze'
  BY <1>1 DEF BeforeFreeze, Fresh, Clean, Touched
<1>4. FrozenInv' /\ EndingInv'
  BY <1>1 DEF Fresh, FrozenInv, EndingInv, NoRecord
<1>5. NothingLeftBehind' /\ NothingSubstituted'
  BY <1>1 DEF Fresh, NothingLeftBehind, NothingSubstituted, NoRecord, Ended
<1> QED
  BY <1>2, <1>3, <1>4, <1>5

\* What run_baseline finds in the worktree.
LEMMA WorktreeLookedAt ==
    ASSUME IInv, pc = "look"
    PROVE  /\ Fresh /\ agent.ends # "times_out"
           /\ Worktree.candidate = IF agent.ends = "exits" /\ agent.candidate # Missing
                                   THEN agent.candidate ELSE config.atBase
           /\ agent.ends = "exits" => Worktree.others = agent.others
<1>1. Fresh /\ agent.ends # "times_out"
      /\ worktree = IF agent.ends = "exits" THEN Touched ELSE {Clean}
  BY DEF IInv, BeforeFreeze
<1>2. ASSUME NEW w, worktree = {w} PROVE Worktree = w
  BY <1>2 DEF Worktree
<1>3. CASE agent.ends = "exits"
  <2>1. Worktree = [candidate |-> IF agent.candidate = Missing THEN config.atBase
                                  ELSE agent.candidate,
                    others    |-> agent.others]
    BY <1>1, <1>2, <1>3 DEF Touched
  <2> QED
    BY <1>1, <1>3, <2>1
<1>4. CASE agent.ends # "exits"
  <2>1. Worktree = Clean
    BY <1>1, <1>2, <1>4
  <2> QED
    BY <1>1, <1>4, <2>1 DEF Clean
<1> QED
  BY <1>3, <1>4

LEMMA LookingKeeps ==
    ASSUME IInv, NoCandidate \/ ScopeViolated \/ Freeze \/ ReadRaises
    PROVE  IInv'
<1> USE DEF IInv, NoCandidate, ScopeViolated, Freeze, ReadRaises
<1>1. /\ Fresh /\ agent.ends # "times_out"
      /\ Worktree.candidate = IF agent.ends = "exits" /\ agent.candidate # Missing
                              THEN agent.candidate ELSE config.atBase
      /\ agent.ends = "exits" => Worktree.others = agent.others
      /\ agent' = agent /\ config' = config
  BY WorktreeLookedAt
<1>2. CASE NoCandidate \/ ScopeViolated \/ ReadRaises
  <2>1. /\ runDir' = runDir /\ pc' \in {"ending", "raising"}
        /\ record'.hash = Missing /\ ~record'.candidate
        /\ record'.reason \in {"None", "no_candidate_produced", "editable_scope_violation"}
        /\ record' \in [reason : Reasons, hash : Texts \cup {Missing},
                        candidate : BOOLEAN, manifest : Texts \cup {Missing}]
    <3>1. /\ record = NoRecord
          /\ record \in [reason : Reasons, hash : Texts \cup {Missing},
                         candidate : BOOLEAN, manifest : Texts \cup {Missing}]
      BY <1>1 DEF Fresh, Types
    <3>2. CASE NoCandidate
      BY <3>1, <3>2 DEF NoRecord, Reasons
    <3>3. CASE ScopeViolated
      BY <3>1, <3>3 DEF NoRecord, Reasons
    <3>4. CASE ReadRaises
      BY <3>1, <3>4 DEF NoRecord
    <3> QED
      BY <1>2, <3>2, <3>3, <3>4
  <2>2. Types'
    BY <1>1, <2>1 DEF Types, Positions
  <2>3. BeforeFreeze' /\ FrozenInv' /\ EndingInv'
    BY <1>1, <2>1 DEF BeforeFreeze, FrozenInv, EndingInv
  <2>4. NothingLeftBehind' /\ NothingSubstituted'
    BY <1>1, <2>1 DEF Fresh, NothingLeftBehind, NothingSubstituted, Ended
  <2> QED
    BY <2>2, <2>3, <2>4
<1>3. CASE Freeze
  <2>1. /\ Worktree.candidate \in Texts /\ ExtraPaths = {} /\ pc' = "evaluate"
        /\ record'.hash = Worktree.candidate /\ record'.reason = "None"
        /\ runDir'.frozen = record'.hash /\ runDir'.manifest = record'.hash
        /\ runDir' = [frozen |-> runDir'.frozen, manifest |-> runDir'.manifest,
                      record |-> runDir'.record]
        /\ record' \in [reason : Reasons, hash : Texts \cup {Missing},
                        candidate : BOOLEAN, manifest : Texts \cup {Missing}]
    BY <1>1, <1>3 DEF Fresh, NoRecord, Reasons
  <2>2. agent.ends = "exits" => agent.others \subseteq Unreported
    BY <1>1, <2>1 DEF ExtraPaths
  <2>3. Types'
    BY <1>1, <2>1 DEF Types, Positions
  <2>4. BeforeFreeze' /\ FrozenInv' /\ EndingInv'
    BY <1>1, <2>1, <2>2, NoTextAssumption DEF BeforeFreeze, FrozenInv, Frozen, EndingInv
  <2>5. NothingLeftBehind' /\ NothingSubstituted'
    BY <2>1 DEF NothingLeftBehind, NothingSubstituted, Ended
  <2> QED
    BY <2>3, <2>4, <2>5
<1> QED
  BY <1>2, <1>3

LEMMA EvaluatingKeeps ==
    ASSUME IInv, EvaluateEnds \/ EvaluateTimesOut
    PROVE  IInv'
<1> USE DEF IInv
<1>1. /\ pc = "evaluate" /\ pc' = "ending"
      /\ agent' = agent /\ config' = config /\ runDir' = runDir
      /\ \E reason \in {"checks_passed", "checks_failed", "checks_timeout"} :
            record' = [record EXCEPT !.reason = reason]
  BY DEF EvaluateEnds, EvaluateTimesOut
<1>2. /\ Frozen
      /\ record'.reason \in {"checks_passed", "checks_failed", "checks_timeout"}
      /\ record'.hash = record.hash
      /\ record' \in [reason : Reasons, hash : Texts \cup {Missing},
                      candidate : BOOLEAN, manifest : Texts \cup {Missing}]
  BY <1>1 DEF FrozenInv, Types, Reasons
<1>3. Types'
  BY <1>1, <1>2 DEF Types, Positions
<1>4. BeforeFreeze' /\ FrozenInv' /\ EndingInv'
  BY <1>1, <1>2 DEF BeforeFreeze, FrozenInv, Frozen, EndingInv
<1>5. NothingLeftBehind' /\ NothingSubstituted'
  BY <1>1, <1>2 DEF NothingLeftBehind, NothingSubstituted, Ended
<1> QED
  BY <1>3, <1>4, <1>5

LEMMA EvaluatingRaisesKeeps ==
    ASSUME IInv, EvaluateRaises
    PROVE  IInv'
<1> USE DEF IInv, EvaluateRaises
<1>1. Types' /\ BeforeFreeze'
  BY DEF Types, Positions, BeforeFreeze
<1>2. FrozenInv' /\ EndingInv'
  BY DEF FrozenInv, Frozen, EndingInv
<1>3. NothingLeftBehind' /\ NothingSubstituted'
  BY DEF NothingLeftBehind, NothingSubstituted, Ended
<1> QED
  BY <1>1, <1>2, <1>3

LEMMA FinallyKeeps ==
    ASSUME IInv, WriteRecord \/ RemoveWorktree
    PROVE  IInv'
<1> USE DEF IInv, WriteRecord, RemoveWorktree
<1>1. /\ agent' = agent /\ config' = config /\ record' = record
      /\ pc' \in {"recorded", "recorded_raising", "returned", "raised"}
      /\ runDir'.record = {record}
      /\ runDir'.frozen = runDir.frozen /\ runDir'.manifest = runDir.manifest
      /\ runDir' = [frozen |-> runDir'.frozen, manifest |-> runDir'.manifest,
                    record |-> runDir'.record]
      /\ agent.ends = "times_out" => record.reason \in {"timeout", "None"}
  BY DEF Types, EndingInv
<1>2. pc' \in {"returned", "raised"} /\ worktree' # {} => agent.survives
  OBVIOUS
<1>3. agent.survives => agent.ends = "times_out"
  BY AgentsAssumption DEF Types
<1>4. Types' /\ BeforeFreeze' /\ EndingInv'
  BY <1>1 DEF Types, Positions, BeforeFreeze, EndingInv
<1>5. FrozenInv' /\ NothingSubstituted'
  BY <1>1 DEF FrozenInv, Frozen, NothingSubstituted
<1>6. NothingLeftBehind'
  BY <1>1, <1>2, <1>3 DEF NothingLeftBehind, Ended
<1> QED
  BY <1>4, <1>5, <1>6

LEMMA StutteringKeeps ==
    ASSUME IInv, UNCHANGED vars
    PROVE  IInv'
BY DEF IInv, vars, Types, BeforeFreeze, Fresh, Clean, Touched, FrozenInv, Frozen,
   EndingInv, NothingLeftBehind, NothingSubstituted, Ended

LEMMA Inductive == Spec => []IInv
<1>1. IInv /\ [Next]_vars => IInv'
  BY SettingUpKeeps, InvokingKeeps, LookingKeeps, EvaluatingKeeps,
     EvaluatingRaisesKeeps, FinallyKeeps, StutteringKeeps DEF Next
<1> QED
  BY InitEstablishes, <1>1, PTL DEF Spec

----------------------------------------------------------------------------
\* However run_baseline ends, by a return or by an exception, its record is on
\* disk and the worktree is gone unless the killed agent goes on writing to it.
THEOREM BaselineLeavesNothing == Spec => []NothingLeftBehind
<1>1. IInv => NothingLeftBehind
  BY DEF IInv
<1> QED
  BY Inductive, <1>1, PTL

\* A run that ends before the evaluation has no candidate in its record and none
\* in its directory, whatever the agent did.
THEOREM BaselineSubstitutesNothing == Spec => []NothingSubstituted
<1>1. IInv => NothingSubstituted
  BY DEF IInv
<1> QED
  BY Inductive, <1>1, PTL

\* What a run accepts, rejects by its checks or gives up waiting for is what an agent
\* that kept its timeout left at the editable path, its own text if it wrote one and
\* the base commit's if not, with no path changed besides that git does not ignore,
\* and record, copy and manifest hold that one text.
THEOREM BaselineEvaluatesWhatTheAgentLeft ==
    Spec => [](record.reason \in {"checks_passed", "checks_failed", "checks_timeout"}
                  => Frozen)
<1>1. IInv => (record.reason \in {"checks_passed", "checks_failed", "checks_timeout"}
                  => Frozen)
  BY DEF IInv, FrozenInv
<1> QED
  BY Inductive, <1>1, PTL

----------------------------------------------------------------------------
(***************************************************************************)
(* What an accepted candidate went through.                                *)
(***************************************************************************)

\* The outcome of the check process, where the record says that it passed.
PassedInv ==
    record.reason = "checks_passed" =>
        \E o \in evaluated :
            o.builds /\ o.fails \cap Range(ExposedChecks) \cap KnownChecks = {}

\* A candidate all of whose results passed built and failed no requested check.
LEMMA PassedResults ==
    ASSUME NEW o, NEW requested, AllPassed(ChildResults(o, requested))
    PROVE  o.builds /\ o.fails \cap Range(requested) \cap KnownChecks = {}
<1>1. /\ \A r \in ChildResults(o, requested) : r.passed
      /\ \A c, b : Result(c, b).passed = b
  BY DEF AllPassed, Result
<1>2. ~o.dies
  BY <1>1 DEF ChildResults
<1>3. /\ Result("build_validity", o.builds) \in ChildResults(o, requested)
      /\ \A c \in Range(requested) \cap KnownChecks :
            Result(c, o.builds /\ c \notin o.fails) \in ChildResults(o, requested)
  BY <1>2 DEF ChildResults, RunnerResults
<1>4. o.builds /\ \A c \in Range(requested) \cap KnownChecks : c \notin o.fails
  BY <1>1, <1>3
<1> QED
  BY <1>4

LEMMA PassedStep == IInv /\ PassedInv /\ [Next]_vars => PassedInv'
<1> SUFFICES ASSUME IInv, PassedInv, [Next]_vars PROVE PassedInv'
  OBVIOUS
<1> USE DEF PassedInv
<1>1. CASE EvaluateEnds
  <2> SUFFICES ASSUME record'.reason = "checks_passed"
               PROVE  \E o \in evaluated' :
                         o.builds /\ o.fails \cap Range(ExposedChecks) \cap KnownChecks = {}
    OBVIOUS
  <2>1. PICK o \in Outcomes[runDir.frozen] :
           /\ evaluated' = {o}
           /\ record' = [record EXCEPT !.reason =
                  IF Verifies(runDir) /\ AllPassed(ChildResults(o, ExposedChecks))
                  THEN "checks_passed" ELSE "checks_failed"]
    BY <1>1 DEF EvaluateEnds
  <2>2. AllPassed(ChildResults(o, ExposedChecks))
    BY <2>1 DEF IInv, Types
  <2> QED
    BY <2>1, <2>2, PassedResults
<1>2. CASE \/ SetupFails \/ NoCandidate \/ ScopeViolated \/ Freeze \/ EvaluateTimesOut
           \/ AgentKilledSilent \/ AgentKilledAfterPrinting
  BY <1>2 DEF IInv, Types, BeforeFreeze, Fresh, NoRecord, SetupFails, NoCandidate,
     ScopeViolated, Freeze, EvaluateTimesOut, AgentKilledSilent, AgentKilledAfterPrinting
<1>3. CASE UNCHANGED <<record, evaluated>>
  BY <1>3
<1> QED
  BY <1>1, <1>2, <1>3 DEF Next, vars, SetUp, AgentEnds, ReadRaises, AgentKilledSilent,
     EvaluateRaises, WriteRecord, RemoveWorktree

\* What a run accepts is what the agent left at the editable path within its
\* timeout, the base commit's file if it wrote none, and its own text wherever the
\* base commit has no file there; it is frozen under the hash in the record and
\* passed every exposed check in the public evaluation.
THEOREM BaselineAcceptsWhatTheAgentLeft == Spec => []AcceptedIsWhatTheAgentLeft
<1>1. Init => PassedInv
  BY DEF Init, PassedInv, NoRecord
<1>2. Spec => []PassedInv
  BY <1>1, PassedStep, Inductive, PTL DEF Spec
<1>3. IInv /\ PassedInv => AcceptedIsWhatTheAgentLeft
  BY DEF IInv, PassedInv, FrozenInv, Frozen, AcceptedIsWhatTheAgentLeft
<1> QED
  BY <1>2, <1>3, Inductive, PTL
=============================================================================
