---------------------------- MODULE BacklogCheck ----------------------------
(***************************************************************************)
(* _check_served_ue_must_have_backlog: the harness's oracle for the task   *)
(* rule that a UE may only be served in a TTI where its Buffer, after the  *)
(* arrivals and before the decision, holds something.                      *)
(*                                                                         *)
(* The check runs the candidate through run() and then recomputes every    *)
(* backlog on its own, from the scenario and the returned decisions.  One  *)
(* scenario is modelled; the check repeats this for each of its scenarios  *)
(* and passes if none of them shows a violation.                           *)
(***************************************************************************)
EXTENDS SimulationLoop

VARIABLES
    verdict,     \* "none", then "passed" or "failed"
    unreplayed,  \* indices of the TTIs the oracle has still to replay
    replayTti,   \* {} or the index of the TTI being replayed
    position,    \* next entry of result.decisions to look at in that TTI
    occupancy,   \* the oracle's own backlog of each UE
    violations,  \* the (TTI, UE) pairs reported
    shown        \* history: the buffers the candidate was shown, by TTI

oracleVars == <<verdict, unreplayed, replayTti, position, occupancy, violations>>
checkVars == <<loopVars, oracleVars, shown>>

CheckInit ==
    /\ LoopInit
    /\ verdict = "none"
    /\ unreplayed = Range(input.ttis)
    /\ replayTti = {}
    /\ position = 1
    /\ occupancy = NoBytes
    /\ violations = {}
    /\ shown = [t \in {} |-> NoBytes]

----------------------------------------------------------------------------
\* The candidate's run; the buffers of a TTI are the ones allocate() was given.
RunCandidate ==
    /\ LoopNext
    /\ shown' = [t \in Range(calls') |->
                    IF t \in DOMAIN shown THEN shown[t] ELSE observable.buffers]
    /\ UNCHANGED oracleVars

\* An exception of run() fails the check.
FailOnException ==
    /\ pc = "raised"
    /\ verdict = "none"
    /\ verdict' = "failed"
    /\ UNCHANGED <<loopVars, unreplayed, replayTti, position, occupancy,
                   violations, shown>>

Replaying == pc = "returned" /\ verdict = "none"

\* Mutant: the TTI's own arrivals are not part of the backlog.
ReplayTtiWithoutArrivals ==
    /\ Replaying
    /\ replayTti = {}
    /\ \E t \in unreplayed :
          /\ \A s \in unreplayed : t <= s
          /\ unreplayed' = unreplayed \ {t}
          /\ replayTti' = {t}
    /\ position' = 1
    /\ UNCHANGED <<loopVars, verdict, occupancy, violations, shown>>

\* The next TTI in ascending order: its arrivals enter every backlog.  The check
\* groups scenario.traffic_arrivals into a dict of its own; of several records of
\* one UE in one TTI it keeps the last, as run() does, so the value is the entry of
\* the loop's log.
ReplayTti ==
    /\ Replaying
    /\ replayTti = {}
    /\ \E t \in unreplayed :
          /\ \A s \in unreplayed : t <= s
          /\ unreplayed' = unreplayed \ {t}
          /\ replayTti' = {t}
          /\ occupancy' = [u \in UeIds |->
                              IF u \in Range(input.ues)
                              THEN occupancy[u] + arrivalLog[t][u]
                              ELSE occupancy[u]]
    /\ position' = 1
    /\ UNCHANGED <<loopVars, verdict, violations, shown>>

\* A decision of another TTI or without blocks is passed over.
Concerns(d, t) == d.tti = t /\ d.blocks # <<>>

\* Mutant: a served UE keeps its backlog in the oracle's book.
ReplayDecisionWithoutDrain ==
    \E t \in replayTti :
        /\ position \in DOMAIN allDecisions
        /\ violations' = violations \cup
               {<<t, u>> : u \in {v \in {allDecisions[position].ue} :
                                    /\ Concerns(allDecisions[position], t)
                                    /\ occupancy[v] = 0}}
        /\ position' = position + 1
        /\ UNCHANGED <<loopVars, verdict, unreplayed, replayTti, occupancy, shown>>

ReplayDecision ==
    \E t \in replayTti :
        /\ position \in DOMAIN allDecisions
        /\ LET d == allDecisions[position]
           IN IF Concerns(d, t)
              THEN /\ violations' = IF occupancy[d.ue] = 0
                                    THEN violations \cup {<<t, d.ue>>}
                                    ELSE violations
                   /\ occupancy' = [occupancy EXCEPT ![d.ue] = 0]
              ELSE UNCHANGED <<violations, occupancy>>
        /\ position' = position + 1
        /\ UNCHANGED <<loopVars, verdict, unreplayed, replayTti, shown>>

\* The TTI is over when every returned decision has been looked at.
CloseTti ==
    /\ Replaying
    /\ replayTti # {}
    /\ position > Len(allDecisions)
    /\ replayTti' = {}
    /\ UNCHANGED <<loopVars, verdict, unreplayed, position, occupancy,
                   violations, shown>>

\* Mutant: only the last TTI's violations count.
GiveVerdictOnLastTti ==
    /\ Replaying
    /\ replayTti = {}
    /\ unreplayed = {}
    /\ verdict' = IF \E v \in violations : \A t \in Range(input.ttis) : t <= v[1]
                  THEN "failed" ELSE "passed"
    /\ UNCHANGED <<loopVars, unreplayed, replayTti, position, occupancy,
                   violations, shown>>

GiveVerdict ==
    /\ Replaying
    /\ replayTti = {}
    /\ unreplayed = {}
    /\ verdict' = IF violations = {} THEN "passed" ELSE "failed"
    /\ UNCHANGED <<loopVars, unreplayed, replayTti, position, occupancy,
                   violations, shown>>

----------------------------------------------------------------------------
CheckNext ==
    \/ RunCandidate
    \/ FailOnException
    \/ ReplayTti
    \/ ReplayDecision
    \/ CloseTti
    \/ GiveVerdict

CheckSpec == CheckInit /\ [][CheckNext]_checkVars /\ WF_checkVars(CheckNext)

----------------------------------------------------------------------------
\* The (TTI, UE) services of the run, and those of a UE shown an empty buffer.
Services ==
    {<<d.tti, d.ue>> : d \in {x \in Range(allDecisions) : x.blocks # <<>>}}

EmptyServices == {s \in Services : shown[s[1]][s[2]] = 0}

\* Some TTI holds two decisions with blocks for one UE, which
\* SchedulingStepResult declares structurally valid.
ServedInParts ==
    \E i, j \in DOMAIN allDecisions :
        /\ i # j
        /\ allDecisions[i].blocks # <<>> /\ allDecisions[j].blocks # <<>>
        /\ allDecisions[i].tti = allDecisions[j].tti
        /\ allDecisions[i].ue = allDecisions[j].ue

\* The oracle's book and the loop's occupancy_bytes are two computations of one
\* quantity, from the decisions and while deciding; after the replay they agree.
ReplayAgreesWithLoop ==
    pc = "returned" /\ verdict # "none" =>
        \A u \in Range(input.ues) : occupancy[u] = occupancyBytes[u]

\* A candidate that ever served a UE it was shown an empty buffer of does not
\* pass, and the report names each such service.
EmptyServiceIsReported ==
    verdict # "none" /\ pc = "returned" =>
        /\ EmptyServices \subseteq violations
        /\ verdict = "passed" => EmptyServices = {}

\* As long as every UE is served by one decision per TTI, the oracle reports
\* exactly the services of an empty buffer.
ExactOnWholeServices ==
    verdict # "none" /\ pc = "returned" /\ ~ServedInParts =>
        /\ violations = EmptyServices
        /\ verdict = "failed" <=> EmptyServices # {}

\* A completed run fails the check only for serving a UE whose buffer,
\* post-arrival and pre-decision, was empty.
OnlyEmptyServiceFails ==
    pc = "returned" /\ verdict = "failed" => EmptyServices # {}

=============================================================================
