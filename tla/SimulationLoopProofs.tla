------------------------ MODULE SimulationLoopProofs ------------------------
(***************************************************************************)
(* What run() guarantees with any algorithm, on scenarios of any size.     *)
(***************************************************************************)
EXTENDS BacklogCheck, SequenceTheorems, FiniteSetTheorems, TLAPS

USE DEF loopVars

----------------------------------------------------------------------------
(***************************************************************************)
(* Types                                                                   *)
(***************************************************************************)

\* What an ObservableState is built from has the types of one.
LEMMA ObserveType ==
    ASSUME LoopTypeOK, NEW t \in pending, NEW in \in TtiInputs
    PROVE  /\ ArrivalsByUe(in) \in [UeIds -> Nat]
           /\ WithArrivals(in) \in [UeIds -> Nat]
           /\ Observe(t, in) \in Observable
           /\ t \in Range(input.ttis)
           /\ t \in Nat
<1>1. /\ in.arrivals \in [UeIds -> Seq(Nat)]
      /\ in.blocks \in Seq(BlockIds)
      /\ in.qualities \in [UeIds -> Seq(Cqi)]
  BY TtiInputsAssumption DEF TtiInput
<1>2. ArrivalsByUe(in) \in [UeIds -> Nat]
  <2>1. ASSUME NEW u \in UeIds, in.arrivals[u] # <<>>
        PROVE  in.arrivals[u][Len(in.arrivals[u])] \in Nat
    <3>1. in.arrivals[u] \in Seq(Nat)
      BY <1>1
    <3>2. Len(in.arrivals[u]) \in 1 .. Len(in.arrivals[u])
      BY <2>1, <3>1, EmptySeq, LenProperties
    <3> QED
      BY <3>1, <3>2, ElementOfSeq
  <2> QED
    BY <2>1 DEF ArrivalsByUe
<1>3. WithArrivals(in) \in [UeIds -> Nat]
  <2>1. occupancyBytes \in [UeIds -> Nat]
    BY DEF LoopTypeOK
  <2> QED
    BY <1>2, <2>1 DEF WithArrivals
<1>4. input.ttis \in Seq(Nat) /\ input.ues \in Seq(UeIds)
  BY RunInputsAssumption DEF LoopTypeOK
<1>5. t \in Range(input.ttis) /\ t \in Nat
  BY <1>4, RangeOfSeq DEF LoopTypeOK
<1> QED
  BY <1>1, <1>2, <1>3, <1>4, <1>5 DEF Observe, Observable

LEMMA LoopTypeInit == LoopInit => LoopTypeOK
<1> SUFFICES ASSUME LoopInit PROVE LoopTypeOK
  OBVIOUS
<1>1. input \in RunInputs /\ pc = "called" /\ pending = Range(input.ttis)
  BY DEF LoopInit
<1>2. NoBytes \in [UeIds -> Nat]
  BY DEF NoBytes
<1>3. NoObservable \in Observable
  BY DEF NoObservable, Observable
<1>4. NoStep.decisions \in Decisions
  BY DEF NoStep, Decisions
<1>5. /\ DOMAIN arrivalLog \subseteq Range(input.ttis)
      /\ arrivalLog \in [DOMAIN arrivalLog -> [UeIds -> Nat]]
  BY DEF LoopInit
<1> QED
  BY <1>1, <1>2, <1>3, <1>4, <1>5 DEF LoopInit, LoopTypeOK, Decisions

LEMMA LoopTypeStep == LoopTypeOK /\ [AnyNext]_loopVars => LoopTypeOK'
<1> SUFFICES ASSUME LoopTypeOK, [AnyNext]_loopVars
             PROVE  LoopTypeOK'
  OBVIOUS
<1>1. CASE RefuseArguments
  BY <1>1 DEF RefuseArguments, Raise, LoopTypeOK
<1>2. CASE Start
  BY <1>2 DEF Start, LoopTypeOK, NoBytes, Decisions
<1>3. CASE OpenTti
  <2> PICK t \in pending, in \in TtiInputs :
        /\ occupancyBytes' = WithArrivals(in)
        /\ observable' = Observe(t, in)
        /\ arrivals' = ArrivalsByUe(in)
        /\ arrivalLog' = [s \in DOMAIN arrivalLog \cup {t} |->
                             IF s = t THEN ArrivalsByUe(in) ELSE arrivalLog[s]]
        /\ pc' = IF WellFormed(Observe(t, in)) THEN "allocate" ELSE "raised"
    BY <1>3 DEF OpenTti
  <2>1. /\ UNCHANGED <<input, pending, step, schedulerState, allDecisions, calls>>
    BY <1>3 DEF OpenTti
  <2>2. /\ DOMAIN arrivalLog' \subseteq Range(input.ttis)
        /\ arrivalLog' \in [DOMAIN arrivalLog' -> [UeIds -> Nat]]
    BY ObserveType DEF LoopTypeOK
  <2>3. pc' \in {"allocate", "raised"}
    OBVIOUS
  <2> QED
    BY <2>1, <2>2, <2>3, ObserveType DEF LoopTypeOK
<1>4. CASE RefuseStep
  BY <1>4 DEF RefuseStep, Raise, LoopTypeOK
<1>5. CASE CommitTti
  <2>1. Drained(step.decisions) \in [UeIds -> Nat]
    BY DEF Drained, LoopTypeOK
  <2>2. allDecisions \o step.decisions \in Decisions
    BY ConcatProperties DEF LoopTypeOK, Decisions
  <2> QED
    BY <1>5, <2>1, <2>2 DEF CommitTti, LoopTypeOK
<1>6. CASE Return
  BY <1>6 DEF Return, LoopTypeOK
<1>7. observable.tti \in Nat /\ Append(calls, observable.tti) \in Seq(Nat)
  BY AppendProperties DEF LoopTypeOK, Observable
<1>8. CASE AllocateReturnsSomething
  BY <1>7, <1>8 DEF AllocateReturnsSomething, AllocateReturns, LoopTypeOK
<1>9. CASE AllocateRaises
  BY <1>7, <1>9 DEF AllocateRaises, Raise, LoopTypeOK
<1>10. CASE UNCHANGED loopVars
  BY <1>10 DEF LoopTypeOK
<1>11. CASE InitialStateRaises
  BY <1>11 DEF InitialStateRaises, Raise, LoopTypeOK
<1> QED
  BY <1>1, <1>2, <1>3, <1>4, <1>5, <1>6, <1>8, <1>9, <1>10, <1>11
     DEF AnyNext, LoopStep

\* Every variable of run() keeps its type, with any algorithm.
THEOREM LoopTypes == AnyRun => []LoopTypeOK
  BY LoopTypeInit, LoopTypeStep, PTL DEF AnyRun

----------------------------------------------------------------------------
(***************************************************************************)
(* Order and exclusiveness                                                 *)
(*                                                                         *)
(* BlockGrantedOnce and EveryTtiOnceInOrder are not inductive: that the    *)
(* decisions of a TTI cannot clash with those recorded before needs every  *)
(* recorded TTI to precede every pending one, and the TTI being processed  *)
(* to be the least pending one.                                            *)
(***************************************************************************)

\* What has been called precedes what is pending; only the TTI just called and
\* not yet committed is in both.
CallsPrecedePending ==
    \A i \in DOMAIN calls, p \in pending :
        calls[i] < p \/ (pc \in {"commit", "raised"} /\ calls[i] = p
                            /\ p = observable.tti)

CallsAscend == \A i, j \in DOMAIN calls : i < j => calls[i] < calls[j]

RecordedPrecedePending ==
    \A i \in DOMAIN allDecisions :
        /\ allDecisions[i].tti \in Range(calls)
        /\ \A p \in pending : allDecisions[i].tti < p

RecordedAscend ==
    \A i, j \in DOMAIN allDecisions :
        i < j => allDecisions[i].tti <= allDecisions[j].tti

\* Every TTI of the scenario has been called or is pending.
NoneForgotten ==
    /\ Range(input.ttis) \subseteq Range(calls) \cup pending
    /\ Range(calls) \subseteq Range(input.ttis)

\* The TTI being processed.
OpenIsNext ==
    /\ pc \in {"allocate", "commit"} => IsNextTti(observable.tti)
    /\ pc = "commit" => observable.tti \in Range(calls)
    /\ pc = "called" => calls = <<>> /\ allDecisions = <<>>
    /\ pc = "returned" => pending = {}

OrderInv ==
    /\ LoopTypeOK
    /\ CallsPrecedePending
    /\ CallsAscend
    /\ RecordedPrecedePending
    /\ RecordedAscend
    /\ NoneForgotten
    /\ OpenIsNext
    /\ BlockGrantedOnce

LEMMA RangeOfAppend ==
    ASSUME NEW S, NEW s \in Seq(S), NEW e \in S
    PROVE  /\ Range(Append(s, e)) = Range(s) \cup {e}
           /\ DOMAIN Append(s, e) = DOMAIN s \cup {Len(s) + 1}
           /\ \A i \in DOMAIN s : Append(s, e)[i] = s[i]
           /\ Append(s, e)[Len(s) + 1] = e
           /\ \A i \in DOMAIN s : i <= Len(s)
           /\ DOMAIN s \subseteq Nat /\ Len(s) \in Nat
<1>1. /\ Append(s, e) \in Seq(S)
      /\ Len(Append(s, e)) = Len(s) + 1
      /\ \A i \in 1 .. Len(s) : Append(s, e)[i] = s[i]
      /\ Append(s, e)[Len(s) + 1] = e
  BY AppendProperties
<1>2. DOMAIN s = 1 .. Len(s) /\ Len(s) \in Nat
  BY LenProperties
<1>3. DOMAIN Append(s, e) = 1 .. Len(s) + 1
  BY <1>1, <1>2, LenProperties
<1>4. DOMAIN Append(s, e) = DOMAIN s \cup {Len(s) + 1}
  BY <1>2, <1>3
<1>5. Range(Append(s, e)) = Range(s) \cup {e}
  BY <1>1, <1>2, <1>4 DEF Range
<1> QED
  BY <1>1, <1>2, <1>4, <1>5

LEMMA RecordedType ==
    ASSUME LoopTypeOK, NEW i \in DOMAIN allDecisions
    PROVE  allDecisions[i] \in Decision /\ allDecisions[i].tti \in Nat
<1>1. allDecisions \in Seq(Decision)
  BY DEF LoopTypeOK, Decisions
<1>2. allDecisions[i] \in Decision
  BY <1>1, ElementOfSeq, LenProperties
<1> QED
  BY <1>2 DEF Decision

LEMMA OrderInit == LoopInit => OrderInv
<1> SUFFICES ASSUME LoopInit PROVE OrderInv
  OBVIOUS
<1>1. LoopTypeOK
  BY LoopTypeInit
<1>2. calls = <<>> /\ allDecisions = <<>> /\ pc = "called" /\ pending = Range(input.ttis)
      /\ Range(calls) = {}
  BY DEF LoopInit, Range
<1>3. CallsPrecedePending /\ CallsAscend /\ RecordedPrecedePending /\ RecordedAscend
      /\ BlockGrantedOnce
  BY <1>2 DEF CallsPrecedePending, CallsAscend, RecordedPrecedePending, RecordedAscend,
              BlockGrantedOnce
<1>4. NoneForgotten /\ OpenIsNext
  BY <1>2 DEF NoneForgotten, OpenIsNext
<1> QED
  BY <1>1, <1>3, <1>4 DEF OrderInv

\* A call of allocate(): one more TTI in calls, nothing recorded.
LEMMA OrderCall ==
    ASSUME OrderInv, pc = "allocate", pc' \in {"commit", "raised"},
           calls' = Append(calls, observable.tti),
           UNCHANGED <<input, pending, observable, allDecisions>>,
           LoopTypeOK'
    PROVE  OrderInv'
<1>1. calls \in Seq(Nat) /\ observable.tti \in Nat /\ pending \subseteq Nat
  <2>1. input.ttis \in Seq(Nat)
    BY RunInputsAssumption DEF OrderInv, LoopTypeOK
  <2> QED
    BY <2>1, RangeOfSeq DEF OrderInv, LoopTypeOK, Observable
<1>2. /\ Range(calls') = Range(calls) \cup {observable.tti}
      /\ DOMAIN calls' = DOMAIN calls \cup {Len(calls) + 1}
      /\ \A i \in DOMAIN calls : calls'[i] = calls[i] /\ i <= Len(calls)
      /\ calls'[Len(calls) + 1] = observable.tti
      /\ DOMAIN calls \subseteq Nat /\ Len(calls) \in Nat
  BY <1>1, RangeOfAppend
<1>3. /\ observable.tti \in pending
      /\ \A p \in pending : observable.tti <= p
  BY DEF OrderInv, OpenIsNext, IsNextTti
<1>4. \A i \in DOMAIN calls, p \in pending : calls[i] < p
  BY DEF OrderInv, CallsPrecedePending
<1>5. \A i \in DOMAIN calls : calls[i] \in Nat
  BY <1>1, <1>2, ElementOfSeq, LenProperties
<1>6. CallsPrecedePending'
  <2> SUFFICES ASSUME NEW i \in DOMAIN calls', NEW p \in pending
               PROVE  calls'[i] < p \/ (calls'[i] = p /\ p = observable.tti)
    BY DEF CallsPrecedePending
  <2>1. CASE i \in DOMAIN calls
    BY <2>1, <1>2, <1>4
  <2>2. CASE i = Len(calls) + 1
    BY <2>2, <1>1, <1>2, <1>3
  <2> QED
    BY <2>1, <2>2, <1>2
<1>7. CallsAscend'
  <2> SUFFICES ASSUME NEW i \in DOMAIN calls', NEW j \in DOMAIN calls', i < j
               PROVE  calls'[i] < calls'[j]
    BY DEF CallsAscend
  <2>1. i \in DOMAIN calls
    BY <1>2
  <2>2. CASE j \in DOMAIN calls
    BY <2>1, <2>2, <1>2 DEF OrderInv, CallsAscend
  <2>3. CASE j = Len(calls) + 1
    BY <2>1, <2>3, <1>2, <1>3, <1>4
  <2> QED
    BY <2>2, <2>3, <1>2
<1>8. RecordedPrecedePending' /\ RecordedAscend' /\ BlockGrantedOnce'
  BY <1>2 DEF OrderInv, RecordedPrecedePending, RecordedAscend, BlockGrantedOnce
<1>9. NoneForgotten' /\ OpenIsNext'
  BY <1>2, <1>3 DEF OrderInv, LoopTypeOK, NoneForgotten, OpenIsNext, IsNextTti
<1> QED
  BY <1>6, <1>7, <1>8, <1>9 DEF OrderInv

\* Recording the decisions of the TTI just called.
LEMMA OrderCommit ==
    ASSUME OrderInv, CommitTti, LoopTypeOK'
    PROVE  OrderInv'
<1> DEFINE ds == step.decisions
           T == observable.tti
           n == Len(allDecisions)
<1>1. /\ allDecisions \in Seq(Decision) /\ ds \in Seq(Decision)
      /\ n \in Nat /\ T \in Nat /\ pending \subseteq Nat
  <2>1. input.ttis \in Seq(Nat)
    BY RunInputsAssumption DEF OrderInv, LoopTypeOK
  <2> QED
    BY <2>1, RangeOfSeq, LenProperties DEF OrderInv, LoopTypeOK, Observable, Decisions
<1>2. /\ allDecisions' = allDecisions \o ds
      /\ DOMAIN allDecisions = 1 .. n
      /\ DOMAIN ds = 1 .. Len(ds) /\ Len(ds) \in Nat
      /\ DOMAIN allDecisions' = 1 .. n + Len(ds)
      /\ \A i \in 1 .. n + Len(ds) :
            allDecisions'[i] = IF i <= n THEN allDecisions[i] ELSE ds[i - n]
  BY <1>1, ConcatProperties, LenProperties DEF CommitTti
<1>3. /\ pc = "commit" /\ pc' = "between"
      /\ pending' = pending \ {T}
      /\ UNCHANGED <<input, observable, calls>>
  BY DEF CommitTti
<1>4. /\ T \in pending /\ T \in Range(calls)
      /\ \A p \in pending : T <= p
  BY <1>3 DEF OrderInv, OpenIsNext, IsNextTti
<1>5. \A k \in DOMAIN ds : ds[k].tti = T
  BY DEF CommitTti, ValidDecisions, ValidDecision
<1>6. \A i \in 1 .. n : allDecisions[i].tti \in Nat
  BY <1>2, RecordedType DEF OrderInv
<1>7. \A i \in DOMAIN allDecisions' :
        \/ i \in 1 .. n /\ allDecisions'[i] = allDecisions[i] /\ allDecisions'[i].tti < T
        \/ /\ i \notin 1 .. n /\ i - n \in DOMAIN ds
           /\ allDecisions'[i] = ds[i - n] /\ allDecisions'[i].tti = T
  <2> TAKE i \in DOMAIN allDecisions'
  <2>1. CASE i <= n
    BY <2>1, <1>1, <1>2, <1>4 DEF OrderInv, RecordedPrecedePending
  <2>2. CASE ~(i <= n)
    <3>1. i - n \in DOMAIN ds /\ i \notin 1 .. n
      BY <2>2, <1>1, <1>2
    <3>2. allDecisions'[i] = ds[i - n]
      BY <2>2, <1>1, <1>2
    <3> QED
      BY <3>1, <3>2, <1>5
  <2> QED
    BY <2>1, <2>2
<1>8. CallsPrecedePending' /\ CallsAscend' /\ NoneForgotten' /\ OpenIsNext'
  BY <1>3, <1>4 DEF OrderInv, CallsPrecedePending, CallsAscend, NoneForgotten, OpenIsNext
<1>9. RecordedPrecedePending'
  <2> SUFFICES ASSUME NEW i \in DOMAIN allDecisions'
               PROVE  /\ allDecisions'[i].tti \in Range(calls)
                      /\ \A p \in pending' : allDecisions'[i].tti < p
    BY <1>3 DEF RecordedPrecedePending
  <2>1. CASE i \in 1 .. n /\ allDecisions'[i] = allDecisions[i]
    BY <2>1, <1>2, <1>3 DEF OrderInv, RecordedPrecedePending
  <2>2. CASE allDecisions'[i].tti = T
    BY <2>2, <1>1, <1>3, <1>4
  <2> QED
    BY <2>1, <2>2, <1>7
<1>10. RecordedAscend'
  <2> SUFFICES ASSUME NEW i \in DOMAIN allDecisions', NEW j \in DOMAIN allDecisions', i < j
               PROVE  allDecisions'[i].tti <= allDecisions'[j].tti
    BY DEF RecordedAscend
  <2>1. CASE j \in 1 .. n
    <3>1. i \in 1 .. n
      BY <2>1, <1>1, <1>2
    <3> QED
      BY <3>1, <2>1, <1>2, <1>7 DEF OrderInv, RecordedAscend
  <2>2. CASE j \notin 1 .. n
    <3>1. allDecisions'[j].tti = T
      BY <2>2, <1>7
    <3>2. allDecisions'[i].tti = T
          \/ (i \in 1 .. n /\ allDecisions'[i] = allDecisions[i] /\ allDecisions'[i].tti < T)
      BY <1>7
    <3> QED
      BY <3>1, <3>2, <1>1, <1>6
  <2> QED
    BY <2>1, <2>2
<1>11. BlockGrantedOnce'
  <2> SUFFICES ASSUME NEW i \in DOMAIN allDecisions', NEW j \in DOMAIN allDecisions',
                      allDecisions'[i].tti = allDecisions'[j].tti,
                      NEW a \in DOMAIN allDecisions'[i].blocks,
                      NEW b \in DOMAIN allDecisions'[j].blocks,
                      allDecisions'[i].blocks[a] = allDecisions'[j].blocks[b]
               PROVE  i = j /\ a = b
    BY DEF BlockGrantedOnce
  <2>1. CASE i \in 1 .. n
    <3>1. j \in 1 .. n
      BY <2>1, <1>1, <1>6, <1>7
    <3>2. allDecisions'[i] = allDecisions[i] /\ allDecisions'[j] = allDecisions[j]
      BY <2>1, <3>1, <1>7
    <3> QED
      BY <2>1, <3>1, <3>2, <1>2 DEF OrderInv, BlockGrantedOnce
  <2>2. CASE i \notin 1 .. n
    <3>1. j \notin 1 .. n
      BY <2>2, <1>1, <1>6, <1>7
    <3>2. /\ allDecisions'[i] = ds[i - n] /\ i - n \in DOMAIN ds
          /\ allDecisions'[j] = ds[j - n] /\ j - n \in DOMAIN ds
      BY <2>2, <3>1, <1>7
    <3>3. i - n = j - n /\ a = b
      BY <3>2 DEF CommitTti, ValidDecisions, NoBlockTwice
    <3> QED
      BY <3>3, <1>1, <1>2
  <2> QED
    BY <2>1, <2>2
<1> QED
  BY <1>8, <1>9, <1>10, <1>11 DEF OrderInv

LEMMA OrderStep == OrderInv /\ [AnyNext]_loopVars => OrderInv'
<1> SUFFICES ASSUME OrderInv, [AnyNext]_loopVars
             PROVE  OrderInv'
  OBVIOUS
<1> USE DEF CallsPrecedePending, CallsAscend, RecordedPrecedePending, RecordedAscend,
            NoneForgotten, OpenIsNext, BlockGrantedOnce, IsNextTti
<1>0. LoopTypeOK'
  BY LoopTypeStep DEF OrderInv
<1>1. CASE RefuseArguments
  BY <1>0, <1>1 DEF RefuseArguments, Raise, OrderInv
<1>2. CASE Start
  BY <1>0, <1>2 DEF Start, OrderInv
<1>3. CASE OpenTti
  <2> PICK t \in pending, in \in TtiInputs :
        /\ IsNextTti(t)
        /\ observable' = Observe(t, in)
        /\ pc' = IF WellFormed(Observe(t, in)) THEN "allocate" ELSE "raised"
    BY <1>3 DEF OpenTti
  <2>1. /\ pc = "between"
        /\ UNCHANGED <<input, pending, allDecisions, calls>>
    BY <1>3 DEF OpenTti
  <2>2. observable'.tti = t
    BY DEF Observe
  <2>3. pc' \in {"allocate", "raised"}
    OBVIOUS
  <2> QED
    BY <1>0, <2>1, <2>2, <2>3 DEF OrderInv
<1>4. CASE RefuseStep
  BY <1>0, <1>4 DEF RefuseStep, Raise, OrderInv
<1>5. CASE CommitTti
  BY <1>0, <1>5, OrderCommit
<1>6. CASE Return
  BY <1>0, <1>6 DEF Return, OrderInv
<1>7. CASE AllocateReturnsSomething
  BY <1>0, <1>7, OrderCall DEF AllocateReturnsSomething, AllocateReturns
<1>8. CASE AllocateRaises
  BY <1>0, <1>8, OrderCall DEF AllocateRaises, Raise
<1>9. CASE UNCHANGED loopVars
  BY <1>0, <1>9 DEF OrderInv
<1>10. CASE InitialStateRaises
  BY <1>0, <1>10 DEF InitialStateRaises, Raise, OrderInv
<1> QED
  BY <1>1, <1>2, <1>3, <1>4, <1>5, <1>6, <1>7, <1>8, <1>9, <1>10
     DEF AnyNext, LoopStep

LEMMA OrderInvariant == AnyRun => []OrderInv
  BY OrderInit, OrderStep, PTL DEF AnyRun

\* With any algorithm and any scenario, no block of a TTI is granted twice in
\* the recorded decisions.
THEOREM GrantsAreExclusive == AnyRun => []BlockGrantedOnce
<1>1. OrderInv => BlockGrantedOnce
  BY DEF OrderInv
<1> QED
  BY <1>1, OrderInvariant, PTL

\* With any algorithm and any scenario, allocate() is called for ascending TTIs,
\* decisions are recorded in that order, and a run that returns has called it
\* once for every TTI.
THEOREM TtisInOrder == AnyRun => []EveryTtiOnceInOrder
<1>1. OrderInv => EveryTtiOnceInOrder
  <2> SUFFICES ASSUME OrderInv PROVE EveryTtiOnceInOrder
    OBVIOUS
  <2>1. \A i \in DOMAIN allDecisions : allDecisions[i].tti \in Range(calls) \ pending
    <3> TAKE i \in DOMAIN allDecisions
    <3>1. allDecisions[i].tti \in Nat
      BY RecordedType DEF OrderInv
    <3> QED
      BY <3>1 DEF OrderInv, RecordedPrecedePending
  <2>2. pc = "returned" => Range(calls) = Range(input.ttis)
    BY DEF OrderInv, NoneForgotten, OpenIsNext
  <2> QED
    BY <2>1, <2>2 DEF OrderInv, CallsAscend, RecordedAscend, EveryTtiOnceInOrder
<1> QED
  BY <1>1, OrderInvariant, PTL

----------------------------------------------------------------------------
(***************************************************************************)
(* The closed-loop promise                                                 *)
(*                                                                         *)
(* A commit is the ServeTti of the promise; every other step of run()      *)
(* leaves the mapped state alone, or is its Complete or Fail.              *)
(***************************************************************************)

\* The arrivals of every committed TTI are logged, those of a pending TTI only
\* while it is the one being processed.
TrafficInv ==
    /\ OrderInv
    /\ Range(input.ttis) \ pending \subseteq DOMAIN arrivalLog
    /\ DOMAIN arrivalLog \cap pending \subseteq {observable.tti}
    /\ pc \in {"called", "between", "returned"} => ~TtiOpen
    /\ pc = "called" => occupancyBytes = NoBytes
    /\ pc \in {"allocate", "commit"} =>
          /\ observable.tti \in DOMAIN arrivalLog
          /\ arrivals = arrivalLog[observable.tti]

LEMMA TrafficInit == LoopInit => TrafficInv
  BY OrderInit DEF LoopInit, TrafficInv, TtiOpen

LEMMA TrafficStep == TrafficInv /\ [AnyNext]_loopVars => TrafficInv'
<1> SUFFICES ASSUME TrafficInv, [AnyNext]_loopVars
             PROVE  TrafficInv'
  OBVIOUS
<1> USE DEF TtiOpen
<1>0. OrderInv'
  BY OrderStep DEF TrafficInv
<1>1. CASE RefuseArguments
  BY <1>0, <1>1 DEF RefuseArguments, Raise, TrafficInv
<1>2. CASE Start
  BY <1>0, <1>2 DEF Start, TrafficInv
<1>3. CASE OpenTti
  <2> PICK t \in pending, in \in TtiInputs :
        /\ observable' = Observe(t, in)
        /\ arrivals' = ArrivalsByUe(in)
        /\ arrivalLog' = [s \in DOMAIN arrivalLog \cup {t} |->
                             IF s = t THEN ArrivalsByUe(in) ELSE arrivalLog[s]]
        /\ pc' = IF WellFormed(Observe(t, in)) THEN "allocate" ELSE "raised"
    BY <1>3 DEF OpenTti
  <2>1. /\ pc = "between"
        /\ UNCHANGED <<input, pending, allDecisions, calls>>
    BY <1>3 DEF OpenTti
  <2>2. observable'.tti = t
    BY DEF Observe
  <2>3. pc' \in {"allocate", "raised"}
    OBVIOUS
  <2>4. DOMAIN arrivalLog' = DOMAIN arrivalLog \cup {t} /\ arrivalLog'[t] = arrivals'
    OBVIOUS
  <2> QED
    BY <1>0, <2>1, <2>2, <2>3, <2>4 DEF TrafficInv
<1>4. CASE RefuseStep
  BY <1>0, <1>4 DEF RefuseStep, Raise, TrafficInv
<1>5. CASE CommitTti
  BY <1>0, <1>5 DEF CommitTti, TrafficInv
<1>6. CASE Return
  BY <1>0, <1>6 DEF Return, TrafficInv
<1>7. CASE AllocateReturnsSomething
  BY <1>0, <1>7 DEF AllocateReturnsSomething, AllocateReturns, TrafficInv
<1>8. CASE AllocateRaises
  BY <1>0, <1>8 DEF AllocateRaises, Raise, TrafficInv
<1>9. CASE UNCHANGED loopVars
  BY <1>0, <1>9 DEF TrafficInv
<1>10. CASE InitialStateRaises
  BY <1>0, <1>10 DEF InitialStateRaises, Raise, TrafficInv
<1> QED
  BY <1>1, <1>2, <1>3, <1>4, <1>5, <1>6, <1>7, <1>8, <1>9, <1>10
     DEF AnyNext, LoopStep

\* Grants of a concatenation.
LEMMA GrantsOfConcat ==
    ASSUME NEW s \in Decisions, NEW t \in Decisions
    PROVE  Grants(s \o t) = Grants(s) \cup Grants(t)
<1>1. Range(s \o t) = Range(s) \cup Range(t)
  BY RangeConcatenation DEF Decisions
<1> QED
  BY <1>1 DEF Grants

\* Membership in Grants, by position in the tuple of decisions.
LEMMA GrantsByPosition ==
    ASSUME NEW ds, NEW t, NEW b, NEW u
    PROVE  <<t, b, u>> \in Grants(ds) <=>
             \E i \in DOMAIN ds : \E a \in DOMAIN ds[i].blocks :
                ds[i].tti = t /\ ds[i].ue = u /\ ds[i].blocks[a] = b
  BY DEF Grants, Range

LEMMA NonEmptyDomain ==
    ASSUME NEW S, NEW s \in Seq(S)
    PROVE  s # <<>> <=> DOMAIN s # {}
<1>1. DOMAIN s = 1 .. Len(s) /\ Len(s) \in Nat
  BY LenProperties
<1>2. s # <<>> <=> Len(s) # 0
  BY EmptySeq
<1>3. Len(s) = 0 => 1 .. Len(s) = {}
  BY <1>1
<1>4. Len(s) # 0 => 1 \in 1 .. Len(s)
  BY <1>1
<1> QED
  BY <1>1, <1>2, <1>3, <1>4

\* What _validate_decisions leaves is a legal set of grants of the current TTI,
\* and the UEs it serves are the UEs granted a block.
LEMMA ValidGrants ==
    ASSUME LoopTypeOK, ValidDecisions(step.decisions)
    PROVE  /\ Promise!GrantsOf(observable.tti, Grants(step.decisions))
           /\ \A u \in UeIds :
                 u \in ServedBy(step.decisions) <=>
                    \E b \in BlockIds :
                        <<observable.tti, b, u>> \in Grants(step.decisions)
<1> DEFINE ds == step.decisions
           T == observable.tti
<1>1. ds \in Seq(Decision)
  BY DEF LoopTypeOK, Decisions
<1>2. \A i \in DOMAIN ds :
        /\ ds[i] \in Decision /\ ds[i].ue \in UeIds /\ ds[i].blocks \in Seq(BlockIds)
        /\ ds[i].tti = T
  <2> TAKE i \in DOMAIN ds
  <2>1. ds[i] \in Decision
    BY <1>1, ElementOfSeq, LenProperties
  <2> QED
    BY <2>1 DEF Decision, ValidDecisions, ValidDecision
<1>3. \A i \in DOMAIN ds : \A a \in DOMAIN ds[i].blocks : ds[i].blocks[a] \in BlockIds
  BY <1>2, ElementOfSeq, LenProperties
<1>4. \A g \in Grants(ds) :
        \E i \in DOMAIN ds : \E a \in DOMAIN ds[i].blocks :
            g = <<ds[i].tti, ds[i].blocks[a], ds[i].ue>>
  BY DEF Grants, Range
<1>5. Grants(ds) \subseteq {T} \X BlockIds \X UeIds
  BY <1>2, <1>3, <1>4
<1>6. \A g, h \in Grants(ds) : g[2] = h[2] => g = h
  BY <1>4 DEF ValidDecisions, NoBlockTwice
<1>7. ASSUME NEW u \in UeIds
      PROVE  u \in ServedBy(ds) <=> \E b \in BlockIds : <<T, b, u>> \in Grants(ds)
  <2>1. u \in ServedBy(ds) <=>
          \E i \in DOMAIN ds : ds[i].ue = u /\ ds[i].blocks # <<>>
    BY DEF ServedBy, Range
  <2>2. \A i \in DOMAIN ds : ds[i].blocks # <<>> <=> DOMAIN ds[i].blocks # {}
    BY <1>2, NonEmptyDomain
  <2>3. ASSUME NEW i \in DOMAIN ds, ds[i].ue = u, ds[i].blocks # <<>>
        PROVE  \E b \in BlockIds : <<T, b, u>> \in Grants(ds)
    <3> PICK a \in DOMAIN ds[i].blocks : TRUE
      BY <2>2, <2>3
    <3>1. <<T, ds[i].blocks[a], u>> \in Grants(ds)
      BY <1>2, <2>3, GrantsByPosition
    <3> QED
      BY <3>1, <1>3
  <2>4. ASSUME NEW b \in BlockIds, <<T, b, u>> \in Grants(ds)
        PROVE  \E i \in DOMAIN ds : ds[i].ue = u /\ ds[i].blocks # <<>>
    <3> PICK i \in DOMAIN ds : ds[i].ue = u /\ DOMAIN ds[i].blocks # {}
      BY <2>4, GrantsByPosition
    <3> QED
      BY <2>2
  <2> QED
    BY <2>1, <2>3, <2>4
<1> QED
  BY <1>5, <1>6, <1>7 DEF Promise!GrantsOf

LEMMA PromiseInit == LoopInit => Promise!Init
<1> SUFFICES ASSUME LoopInit PROVE Promise!Init
  OBVIOUS
<1>1. /\ pc = "called" /\ pending = Range(input.ttis) /\ allDecisions = <<>>
      /\ occupancyBytes = [u \in UeIds |-> 0]
      /\ DOMAIN arrivalLog = {}
  BY DEF LoopInit, NoBytes
<1>2. pending \subseteq Nat
  BY <1>1, RunInputsAssumption, RangeOfSeq DEF LoopInit
<1>3. ServedTraffic = [t \in {} |-> [u \in UeIds |-> 0]]
  BY <1>1 DEF ServedTraffic
<1>4. CarriedOver = [u \in UeIds |-> 0]
  BY <1>1 DEF CarriedOver, TtiOpen
<1>5. Grants(allDecisions) = {}
  BY <1>1 DEF Grants, Range
<1> QED
  BY <1>1, <1>2, <1>3, <1>4, <1>5 DEF Promise!Init

LEMMA PromiseCommit ==
    ASSUME TrafficInv, TrafficInv', CommitTti
    PROVE  Promise!ServeTti
<1> DEFINE ds == step.decisions
           T == observable.tti
           new == Grants(allDecisions') \ Grants(allDecisions)
<1>1. /\ pc = "commit" /\ pc' = "between"
      /\ ValidDecisions(ds)
      /\ occupancyBytes' = Drained(ds)
      /\ allDecisions' = allDecisions \o ds
      /\ pending' = pending \ {T}
      /\ UNCHANGED <<input, observable, arrivals, step, calls, arrivalLog>>
  BY DEF CommitTti
<1>2. LoopTypeOK /\ LoopTypeOK'
  BY DEF TrafficInv, OrderInv
<1>3. /\ T \in pending /\ \A s \in pending : T <= s
      /\ T \in DOMAIN arrivalLog /\ arrivals = arrivalLog[T]
  BY <1>1 DEF TrafficInv, OrderInv, OpenIsNext, IsNextTti
<1>4. /\ Promise!GrantsOf(T, Grants(ds))
      /\ \A u \in UeIds :
            u \in ServedBy(ds) <=> \E b \in BlockIds : <<T, b, u>> \in Grants(ds)
  BY <1>1, <1>2, ValidGrants
<1>5. Grants(allDecisions') = Grants(allDecisions) \cup Grants(ds)
  BY <1>1, <1>2, GrantsOfConcat DEF LoopTypeOK
\* No grant of T is recorded yet, so exactly those of ds are new.
<1>6. new = Grants(ds)
  <2>1. \A g \in Grants(ds) : g \notin Grants(allDecisions)
    <3> TAKE g \in Grants(ds)
    <3>1. g[1] = T /\ T \in Nat
      BY <1>2, <1>4 DEF Promise!GrantsOf, LoopTypeOK, Observable
    <3>2. ASSUME g \in Grants(allDecisions) PROVE FALSE
      <4> PICK i \in DOMAIN allDecisions : g[1] = allDecisions[i].tti
        BY <3>2 DEF Grants, Range
      <4>1. allDecisions[i].tti < T
        BY <1>3 DEF TrafficInv, OrderInv, RecordedPrecedePending
      <4> QED
        BY <4>1, <3>1
    <3> QED
      BY <3>2
  <2> QED
    BY <1>5, <2>1
<1>7. T \in Nat /\ T \in Range(input.ttis) /\ pending \subseteq Range(input.ttis)
  BY <1>2, <1>3 DEF LoopTypeOK, Observable
<1>8. /\ DOMAIN ServedTraffic' = DOMAIN ServedTraffic \cup {T}
      /\ ServedTraffic' \in [DOMAIN ServedTraffic \cup {T} -> [UeIds -> Nat]]
      /\ \A s \in DOMAIN ServedTraffic : ServedTraffic'[s] = ServedTraffic[s]
      /\ \A u \in UeIds : ServedTraffic'[T][u] =
                             IF u \in Range(input.ues) THEN arrivals[u] ELSE 0
  <2>1. Range(input.ttis) \ pending' = (Range(input.ttis) \ pending) \cup {T}
    BY <1>1, <1>3, <1>7
  <2>2. \A s \in Range(input.ttis) \ pending' :
           s \in DOMAIN arrivalLog /\ arrivalLog[s] \in [UeIds -> Nat]
    BY <1>1, <1>2 DEF TrafficInv, LoopTypeOK
  <2> QED
    BY <1>1, <1>3, <2>1, <2>2 DEF ServedTraffic
<1>9. CarriedOver' = [u \in UeIds |->
                        IF \E b \in BlockIds : <<T, b, u>> \in new
                        THEN 0
                        ELSE CarriedOver[u] + ServedTraffic'[T][u]]
  <2>1. CarriedOver' = occupancyBytes'
    <3>1. ~TtiOpen'
      BY <1>1 DEF TrafficInv
    <3> QED
      BY <3>1, <1>2 DEF CarriedOver, LoopTypeOK
  <2>2. \A u \in UeIds : CarriedOver[u] + ServedTraffic'[T][u] = occupancyBytes[u]
    <3> TAKE u \in UeIds
    <3>1. TtiOpen
      BY <1>3 DEF TtiOpen
    <3>2. occupancyBytes[u] \in Nat /\ arrivals[u] \in Nat
      BY <1>2 DEF LoopTypeOK
    <3> QED
      BY <3>1, <3>2, <1>8 DEF CarriedOver
  <2> QED
    BY <2>1, <2>2, <1>1, <1>4, <1>6 DEF Drained
<1> QED
  BY <1>1, <1>3, <1>4, <1>5, <1>6, <1>8, <1>9 DEF Promise!ServeTti

LEMMA PromiseStep ==
    TrafficInv /\ TrafficInv' /\ [AnyNext]_loopVars => [Promise!Next]_(Promise!vars)
<1> SUFFICES ASSUME TrafficInv, TrafficInv', [AnyNext]_loopVars
             PROVE  [Promise!Next]_(Promise!vars)
  OBVIOUS
<1> DEFINE mapped == <<pending, ServedTraffic, CarriedOver, Grants(allDecisions)>>
<1>1. CASE RefuseArguments
  <2>1. UNCHANGED mapped /\ pc = "called" /\ pc' = "raised"
    BY <1>1 DEF RefuseArguments, Raise, ServedTraffic, CarriedOver, TtiOpen
  <2> QED
    BY <2>1 DEF Promise!Next, Promise!Fail
<1>2. CASE Start
  <2>1. UNCHANGED <<pending, ServedTraffic>> /\ pc = "called" /\ pc' = "between"
    BY <1>2 DEF Start, ServedTraffic
  <2>2. UNCHANGED Grants(allDecisions)
    BY <1>2, <2>1 DEF Start, TrafficInv, OrderInv, OpenIsNext
  <2>3. UNCHANGED CarriedOver
    BY <1>2, <2>1 DEF Start, CarriedOver, TrafficInv, TtiOpen
  <2> QED
    BY <2>1, <2>2, <2>3 DEF Promise!vars
<1>3. CASE OpenTti
  <2> PICK t \in pending, in \in TtiInputs :
        /\ occupancyBytes' = WithArrivals(in)
        /\ arrivals' = ArrivalsByUe(in)
        /\ arrivalLog' = [s \in DOMAIN arrivalLog \cup {t} |->
                             IF s = t THEN ArrivalsByUe(in) ELSE arrivalLog[s]]
        /\ pc' \in {"allocate", "raised"}
    BY <1>3 DEF OpenTti
  <2>1. /\ pc = "between"
        /\ UNCHANGED <<input, pending, allDecisions>>
    BY <1>3 DEF OpenTti
  <2>2. ServedTraffic' = ServedTraffic
    <3>1. \A s \in Range(input.ttis) \ pending : arrivalLog'[s] = arrivalLog[s]
      BY DEF TrafficInv
    <3> QED
      BY <2>1, <3>1 DEF ServedTraffic
  <2>3. CarriedOver' = CarriedOver
    <3>1. ~TtiOpen /\ TtiOpen'
      BY <2>1 DEF TrafficInv, TtiOpen
    <3>2. ASSUME NEW u \in UeIds
          PROVE  /\ occupancyBytes[u] \in Nat /\ ArrivalsByUe(in)[u] \in Nat
      BY ObserveType DEF TrafficInv, OrderInv, LoopTypeOK
    <3> QED
      BY <2>1, <3>1, <3>2 DEF CarriedOver, WithArrivals
  <2> QED
    BY <2>1, <2>2, <2>3 DEF Promise!vars, Promise!Next, Promise!Fail
<1>4. CASE RefuseStep
  <2>1. UNCHANGED mapped /\ pc = "commit" /\ pc' = "raised"
    BY <1>4 DEF RefuseStep, Raise, ServedTraffic, CarriedOver, TtiOpen
  <2> QED
    BY <2>1 DEF Promise!Next, Promise!Fail
<1>5. CASE CommitTti
  BY <1>5, PromiseCommit DEF Promise!Next
<1>6. CASE Return
  <2>1. UNCHANGED mapped /\ pc = "between" /\ pc' = "returned" /\ pending = {}
    BY <1>6 DEF Return, ServedTraffic, CarriedOver, TtiOpen
  <2> QED
    BY <2>1 DEF Promise!Next, Promise!Complete
<1>7. CASE AllocateReturnsSomething
  <2>1. UNCHANGED mapped /\ pc = "allocate" /\ pc' = "commit"
    BY <1>7 DEF AllocateReturnsSomething, AllocateReturns, ServedTraffic, CarriedOver, TtiOpen
  <2> QED
    BY <2>1 DEF Promise!vars
<1>8. CASE AllocateRaises
  <2>1. UNCHANGED mapped /\ pc = "allocate" /\ pc' = "raised"
    BY <1>8 DEF AllocateRaises, Raise, ServedTraffic, CarriedOver, TtiOpen
  <2> QED
    BY <2>1 DEF Promise!Next, Promise!Fail
<1>9. CASE UNCHANGED loopVars
  BY <1>9 DEF ServedTraffic, CarriedOver, TtiOpen, Promise!vars
<1>10. CASE InitialStateRaises
  <2>1. UNCHANGED mapped /\ pc = "called" /\ pc' = "raised"
    BY <1>10 DEF InitialStateRaises, Raise, ServedTraffic, CarriedOver, TtiOpen
  <2> QED
    BY <2>1 DEF Promise!Next, Promise!Fail
<1> QED
  BY <1>1, <1>2, <1>3, <1>4, <1>5, <1>6, <1>7, <1>8, <1>9, <1>10
     DEF AnyNext, LoopStep

\* run() keeps the closed-loop promise of ADR-002 and ADR-009 with any algorithm
\* and on any scenario: the detailed loop implements ClosedLoop.
THEOREM LoopKeepsPromise == AnyRun => KeepsPromise
  BY TrafficInit, TrafficStep, PromiseInit, PromiseStep, PTL
  DEF AnyRun, KeepsPromise, Promise!Spec

----------------------------------------------------------------------------
(***************************************************************************)
(* Sums over finite sets                                                   *)
(*                                                                         *)
(* SumFunctionOnSet chooses a table of the sums over all subsets.  That    *)
(* there is one, and that its values do not depend on the order in which   *)
(* members are taken, holds by induction over the subsets of the set: a    *)
(* class of subsets that is not empty has a smallest member.               *)
(***************************************************************************)

\* Every nonempty class of subsets of a finite set has a member none of whose
\* proper subsets is in the class: the induction the lemmas on sums rest on.
LEMMA SmallestSubset ==
    ASSUME NEW S, IsFiniteSet(S), NEW C \in SUBSET (SUBSET S), C # {}
    PROVE  \E U \in C : \A V \in SUBSET U : V # U => V \notin C
<1> DEFINE R == StrictSubsetOrdering(S)
<1>1. IsWellFoundedOn(R, SUBSET S)
  BY FS_StrictSubsetOrderingWellFounded, FS_FiniteSubsetsOfFinite
<1>2. \E U \in C : \A V \in C : ~(<<V, U>> \in R)
  <2> HIDE DEF R
  <2> QED
    BY <1>1, WFMin, Zenon
<1>3. PICK U \in C : \A V \in C : ~(<<V, U>> \in R)
  BY <1>2
<1>4. ASSUME NEW V \in SUBSET U, V # U, V \in C PROVE FALSE
  BY <1>3, <1>4 DEF StrictSubsetOrdering
<1> QED
  BY <1>4

Pick(S) == CHOOSE x \in S : TRUE

\* g is a table of the sums of f over the subsets of S.
IsSum(g, f, S) ==
    g = [s \in SUBSET S |-> IF s = {} THEN 0 ELSE f[Pick(s)] + g[s \ {Pick(s)}]]

LEMMA SumIsChosen ==
    ASSUME NEW f, NEW S
    PROVE  SumFunctionOnSet(f, S) = (CHOOSE g : IsSum(g, f, S))[S]
BY DEF SumFunctionOnSet, FoldFunctionOnSet, MapThenFoldSet, IsSum, Pick

LEMMA PickIsMember ==
    ASSUME NEW S, S # {}
    PROVE  Pick(S) \in S
BY DEF Pick

\* Two tables agree where both are defined.
LEMMA SumTablesAgree ==
    ASSUME NEW f, NEW S, NEW T, NEW g, NEW h, IsSum(g, f, S), IsSum(h, f, T),
           NEW U \in SUBSET S, U \subseteq T, IsFiniteSet(U)
    PROVE  g[U] = h[U]
<1> DEFINE C == {V \in SUBSET U : g[V] # h[V]}
<1> SUFFICES ASSUME C # {} PROVE FALSE
  OBVIOUS
<1>1. PICK V \in C : \A W \in SUBSET V : W # V => W \notin C
  <2>1. C \in SUBSET (SUBSET U)
    OBVIOUS
  <2> HIDE DEF C
  <2> QED
    BY <2>1, SmallestSubset, Zenon
<1> DEFINE W == V \ {Pick(V)}
<1>2. V \in SUBSET S /\ V \in SUBSET T /\ V \in SUBSET U /\ g[V] # h[V]
  OBVIOUS
<1>3. /\ g[V] = IF V = {} THEN 0 ELSE f[Pick(V)] + g[W]
      /\ h[V] = IF V = {} THEN 0 ELSE f[Pick(V)] + h[W]
  BY <1>2 DEF IsSum
<1>4. V # {} 
  BY <1>2, <1>3
<1>5. W \in SUBSET V /\ W # V
  BY <1>4, PickIsMember
<1>6. g[W] = h[W]
  BY <1>1, <1>2, <1>5
<1> QED
  BY <1>2, <1>3, <1>6

LEMMA SumTableExists ==
    ASSUME NEW f, NEW S, IsFiniteSet(S)
    PROVE  \E g : IsSum(g, f, S)
<1> DEFINE C == {V \in SUBSET S : ~ \E g : IsSum(g, f, V)}
<1> SUFFICES ASSUME C # {} PROVE FALSE
  OBVIOUS
<1>1. PICK V \in C : \A W \in SUBSET V : W # V => W \notin C
  <2>1. C \in SUBSET (SUBSET S)
    OBVIOUS
  <2> HIDE DEF C
  <2> QED
    BY <2>1, SmallestSubset, Zenon
<1> DEFINE Table(W) == CHOOSE g : IsSum(g, f, W)
           Rest(s) == s \ {Pick(s)}
           h == [s \in SUBSET V |->
                    IF s = {} THEN 0 ELSE f[Pick(s)] + Table(Rest(s))[Rest(s)]]
<1>2. ASSUME NEW W \in SUBSET V, W # V
      PROVE  IsSum(Table(W), f, W) /\ IsFiniteSet(W)
  <2>1. W \in SUBSET S
    OBVIOUS
  <2>2. \E g : IsSum(g, f, W)
    BY <1>1, <1>2, <2>1
  <2>3. IsSum(Table(W), f, W)
    BY <2>2
  <2> QED
    BY <2>1, <2>3, FS_Subset
<1>3. ASSUME NEW s \in SUBSET V, s # {}
      PROVE  h[Rest(s)] = Table(Rest(s))[Rest(s)]
  <2> DEFINE r == Rest(s)
  <2>1. r \in SUBSET V /\ r # V
    BY <1>3, PickIsMember
  <2>2. IsSum(Table(r), f, r) /\ IsFiniteSet(r)
    BY <2>1, <1>2
  <2>3. r \in SUBSET r
    OBVIOUS
  <2>4. Table(r)[r] = IF r = {} THEN 0 ELSE f[Pick(r)] + Table(r)[Rest(r)]
    <3> HIDE DEF r, Table
    <3> QED
      BY <2>2, <2>3 DEF IsSum
  <2>5. CASE r = {}
    <3> HIDE DEF Table
    <3> QED
      BY <2>1, <2>4, <2>5
  <2>6. CASE r # {}
    <3>1. Rest(r) \in SUBSET r /\ Rest(r) # r /\ Rest(r) \in SUBSET V /\ Rest(r) # V
      BY <2>1, <2>6, PickIsMember
    <3>2. IsSum(Table(Rest(r)), f, Rest(r)) /\ IsFiniteSet(Rest(r))
      BY <3>1, <1>2
    <3>3. Table(r)[Rest(r)] = Table(Rest(r))[Rest(r)]
      <4>1. Rest(r) \in SUBSET r /\ Rest(r) \subseteq Rest(r)
        BY <3>1
      <4> HIDE DEF r, Table, Rest
      <4> QED
        BY <4>1, <2>2, <3>2, SumTablesAgree
    <3>4. h[r] = f[Pick(r)] + Table(Rest(r))[Rest(r)]
      BY <2>1, <2>6
    <3>5. h[r] = Table(r)[r]
      <4> HIDE DEF r, Table, Rest, h
      <4> QED
        BY <2>4, <2>6, <3>3, <3>4
    <3> QED
      BY <3>5
  <2> QED
    BY <2>5, <2>6
<1>4. IsSum(h, f, V)
  <2> DEFINE A(s) == IF s = {} THEN 0 ELSE f[Pick(s)] + Table(Rest(s))[Rest(s)]
             B(s) == IF s = {} THEN 0 ELSE f[Pick(s)] + h[Rest(s)]
  <2>1. \A s \in SUBSET V : A(s) = B(s)
    <3> TAKE s \in SUBSET V
    <3>1. CASE s = {}
      BY <3>1
    <3>2. CASE s # {}
      <4>1. h[Rest(s)] = Table(Rest(s))[Rest(s)]
        BY <1>3, <3>2
      <4> HIDE DEF h, Table, Rest
      <4> QED
        BY <3>2, <4>1
    <3> QED
      BY <3>1, <3>2
  <2>2. h = [s \in SUBSET V |-> A(s)]
    OBVIOUS
  <2>3. h = [s \in SUBSET V |-> B(s)]
    <3> HIDE DEF A, B, h
    <3> QED
      BY <2>1, <2>2
  <2> HIDE DEF h
  <2> QED
    BY <2>3 DEF IsSum
<1> QED
  BY <1>1, <1>4

\* The sum over the empty set, and over one from which Pick takes a member.
LEMMA SumEquation ==
    ASSUME NEW f, NEW S, IsFiniteSet(S)
    PROVE  SumFunctionOnSet(f, S) =
             IF S = {} THEN 0
             ELSE f[Pick(S)] + SumFunctionOnSet(f, S \ {Pick(S)})
<1> DEFINE Table(W) == CHOOSE g : IsSum(g, f, W)
           T == S \ {Pick(S)}
<1>1. IsFiniteSet(T) /\ T \subseteq S
  BY FS_Subset
<1>2. IsSum(Table(S), f, S)
  BY SumTableExists
<1>3. IsSum(Table(T), f, T)
  <2>1. \E g : IsSum(g, f, T)
    <3> HIDE DEF T
    <3> QED
      BY <1>1, SumTableExists
  <2> QED
    BY <2>1
<1>4. Table(S)[S] = IF S = {} THEN 0 ELSE f[Pick(S)] + Table(S)[T]
  <2>1. S \in SUBSET S
    OBVIOUS
  <2> HIDE DEF Table
  <2> QED
    BY <1>2, <2>1 DEF IsSum
<1>5. Table(S)[T] = Table(T)[T]
  <2>1. T \in SUBSET S /\ T \subseteq T
    BY <1>1
  <2> HIDE DEF Table, T
  <2> QED
    BY <1>1, <1>2, <1>3, <2>1, SumTablesAgree
<1>6. SumFunctionOnSet(f, S) = Table(S)[S] /\ SumFunctionOnSet(f, T) = Table(T)[T]
  BY SumIsChosen
<1> HIDE DEF Table
<1> QED
  BY <1>4, <1>5, <1>6

LEMMA EmptySum ==
    ASSUME NEW f
    PROVE  SumFunctionOnSet(f, {}) = 0
BY SumEquation, FS_EmptySet

\* A sum of natural numbers is one.
LEMMA SumIsNat ==
    ASSUME NEW f, NEW S, IsFiniteSet(S), \A x \in S : f[x] \in Nat
    PROVE  SumFunctionOnSet(f, S) \in Nat
<1> DEFINE C == {V \in SUBSET S : SumFunctionOnSet(f, V) \notin Nat}
<1> SUFFICES ASSUME C # {} PROVE FALSE
  OBVIOUS
<1>1. PICK V \in C : \A W \in SUBSET V : W # V => W \notin C
  <2>1. C \in SUBSET (SUBSET S)
    OBVIOUS
  <2> HIDE DEF C
  <2> QED
    BY <2>1, SmallestSubset, Zenon
<1>2. IsFiniteSet(V) /\ V \in SUBSET S /\ SumFunctionOnSet(f, V) \notin Nat
  BY FS_Subset
<1>3. V # {}
  BY <1>2, EmptySum
<1>4. Pick(V) \in V /\ f[Pick(V)] \in Nat
  BY <1>2, <1>3, PickIsMember
<1>5. SumFunctionOnSet(f, V \ {Pick(V)}) \in Nat
  BY <1>1, <1>2, <1>4
<1>6. SumFunctionOnSet(f, V) = f[Pick(V)] + SumFunctionOnSet(f, V \ {Pick(V)})
  BY <1>2, <1>3, SumEquation
<1> QED
  BY <1>2, <1>4, <1>5, <1>6

\* Only the summands in the set count.
LEMMA SameSummands ==
    ASSUME NEW f, NEW g, NEW S, IsFiniteSet(S), \A x \in S : f[x] = g[x]
    PROVE  SumFunctionOnSet(f, S) = SumFunctionOnSet(g, S)
<1> DEFINE C == {V \in SUBSET S : SumFunctionOnSet(f, V) # SumFunctionOnSet(g, V)}
<1> SUFFICES ASSUME C # {} PROVE FALSE
  OBVIOUS
<1>1. PICK V \in C : \A W \in SUBSET V : W # V => W \notin C
  <2>1. C \in SUBSET (SUBSET S)
    OBVIOUS
  <2> HIDE DEF C
  <2> QED
    BY <2>1, SmallestSubset, Zenon
<1>2. /\ IsFiniteSet(V) /\ V \in SUBSET S
      /\ SumFunctionOnSet(f, V) # SumFunctionOnSet(g, V)
  BY FS_Subset
<1>3. V # {}
  BY <1>2, EmptySum
<1>4. Pick(V) \in V /\ f[Pick(V)] = g[Pick(V)]
  BY <1>2, <1>3, PickIsMember
<1>5. SumFunctionOnSet(f, V \ {Pick(V)}) = SumFunctionOnSet(g, V \ {Pick(V)})
  BY <1>1, <1>2, <1>4
<1> QED
  BY <1>2, <1>3, <1>4, <1>5, SumEquation

\* Any member can be taken out first.
LEMMA SumWithout ==
    ASSUME NEW f, NEW S, IsFiniteSet(S), \A x \in S : f[x] \in Nat, NEW y \in S
    PROVE  SumFunctionOnSet(f, S) = f[y] + SumFunctionOnSet(f, S \ {y})
<1> DEFINE C == {V \in SUBSET S : \E x \in V :
                   SumFunctionOnSet(f, V) # f[x] + SumFunctionOnSet(f, V \ {x})}
<1> SUFFICES ASSUME C # {} PROVE FALSE
  OBVIOUS
<1>1. PICK V \in C : \A W \in SUBSET V : W # V => W \notin C
  <2>1. C \in SUBSET (SUBSET S)
    OBVIOUS
  <2> HIDE DEF C
  <2> QED
    BY <2>1, SmallestSubset, Zenon
<1>2. IsFiniteSet(V) /\ V \in SUBSET S
  BY FS_Subset
<1>3. PICK x \in V : SumFunctionOnSet(f, V) # f[x] + SumFunctionOnSet(f, V \ {x})
  OBVIOUS
<1> DEFINE p == Pick(V)
<1>4. p \in V /\ SumFunctionOnSet(f, V) = f[p] + SumFunctionOnSet(f, V \ {p})
  BY <1>2, <1>3, PickIsMember, SumEquation
<1>5. p # x
  BY <1>3, <1>4
<1> HIDE DEF p
<1>6. V \ {p} \in SUBSET V /\ V \ {p} # V /\ x \in V \ {p}
  BY <1>4, <1>5
<1>7. V \ {x} \in SUBSET V /\ V \ {x} # V /\ p \in V \ {x}
  BY <1>4, <1>5
<1>8. /\ SumFunctionOnSet(f, V \ {p}) = f[x] + SumFunctionOnSet(f, (V \ {p}) \ {x})
      /\ SumFunctionOnSet(f, V \ {x}) = f[p] + SumFunctionOnSet(f, (V \ {x}) \ {p})
  BY <1>1, <1>2, <1>6, <1>7
<1>9. (V \ {p}) \ {x} = (V \ {x}) \ {p}
  OBVIOUS
<1> DEFINE rest == SumFunctionOnSet(f, (V \ {x}) \ {p})
<1>10. rest \in Nat /\ f[x] \in Nat /\ f[p] \in Nat
  <2>1. (V \ {x}) \ {p} \in SUBSET S
    BY <1>2
  <2>2. IsFiniteSet((V \ {x}) \ {p})
    BY <2>1, FS_Subset
  <2> QED
    BY <1>2, <1>4, <2>1, <2>2, SumIsNat
<1>11. /\ SumFunctionOnSet(f, V) = f[p] + (f[x] + rest)
       /\ SumFunctionOnSet(f, V \ {x}) = f[p] + rest
  BY <1>4, <1>8, <1>9
<1> HIDE DEF rest
<1> QED
  BY <1>3, <1>10, <1>11

\* One member more.
LEMMA SumWith ==
    ASSUME NEW f, NEW S, IsFiniteSet(S), NEW y, y \notin S,
           \A x \in S \cup {y} : f[x] \in Nat
    PROVE  SumFunctionOnSet(f, S \cup {y}) = f[y] + SumFunctionOnSet(f, S)
<1>1. IsFiniteSet(S \cup {y})
  BY FS_AddElement
<1>2. (S \cup {y}) \ {y} = S
  OBVIOUS
<1>3. SumFunctionOnSet(f, S \cup {y}) = f[y] + SumFunctionOnSet(f, (S \cup {y}) \ {y})
  BY <1>1, SumWithout
<1> QED
  BY <1>2, <1>3

----------------------------------------------------------------------------
(***************************************************************************)
(* The backlog                                                             *)
(*                                                                         *)
(* BacklogIsUnserved needs to know when a service can be of the TTI being  *)
(* opened (never: what is recorded precedes what is pending) and what is   *)
(* logged when a TTI is committed (nothing later than that TTI).           *)
(***************************************************************************)
LoggedFor(u) == [t \in DOMAIN arrivalLog |-> arrivalLog[t][u]]

SinceService(u) == {t \in DOMAIN arrivalLog : \A s \in ServiceTtis(u) : s < t}

\* What every UE waits for is what arrived for it since its last service.
BacklogInv ==
    /\ TrafficInv
    /\ \A u \in Range(input.ues) : occupancyBytes[u] = ArrivedSinceService(u)
    /\ pc \in {"allocate", "commit"} => observable.buffers = occupancyBytes

LEMMA ArrivedIsSum ==
    \A u : ArrivedSinceService(u) = SumFunctionOnSet(LoggedFor(u), SinceService(u))
BY DEF ArrivedSinceService, LoggedFor, SinceService

LEMMA LogTypes ==
    ASSUME LoopTypeOK
    PROVE  /\ IsFiniteSet(DOMAIN arrivalLog)
           /\ DOMAIN arrivalLog \subseteq Nat
           /\ Range(input.ues) \subseteq UeIds
           /\ \A u \in UeIds : \A t \in DOMAIN arrivalLog :
                 LoggedFor(u)[t] \in Nat /\ LoggedFor(u)[t] = arrivalLog[t][u]
           /\ \A u : IsFiniteSet(SinceService(u))
<1>1. input.ttis \in Seq(Nat) /\ input.ues \in Seq(UeIds)
  BY RunInputsAssumption DEF LoopTypeOK
<1>2. IsFiniteSet(Range(input.ttis))
  <2>1. DOMAIN input.ttis = 1 .. Len(input.ttis) /\ Len(input.ttis) \in Nat
    BY <1>1, LenProperties
  <2>2. IsFiniteSet(DOMAIN input.ttis)
    BY <2>1, FS_Interval
  <2>3. input.ttis \in Surjection(DOMAIN input.ttis, Range(input.ttis))
    BY <1>1, <2>1 DEF Surjection, Range
  <2> QED
    BY <2>2, <2>3, FS_Surjection
<1>3. IsFiniteSet(DOMAIN arrivalLog)
  BY <1>2, FS_Subset DEF LoopTypeOK
<1>4. Range(input.ttis) \subseteq Nat /\ Range(input.ues) \subseteq UeIds
  BY <1>1, RangeOfSeq
<1>5. \A u : IsFiniteSet(SinceService(u))
  <2> TAKE u
  <2>1. SinceService(u) \subseteq DOMAIN arrivalLog
    BY DEF SinceService
  <2> QED
    BY <1>3, <2>1, FS_Subset
<1> QED
  BY <1>3, <1>4, <1>5 DEF LoopTypeOK, LoggedFor

\* The services of a UE, by position in the recorded decisions.
LEMMA ServiceByPosition ==
    ASSUME NEW u
    PROVE  ServiceTtis(u) =
              {allDecisions[i].tti : i \in
                  {k \in DOMAIN allDecisions :
                      allDecisions[k].ue = u /\ allDecisions[k].blocks # <<>>}}
BY DEF ServiceTtis, Range

LEMMA BacklogOpen ==
    ASSUME BacklogInv, OpenTti, LoopTypeOK', NEW u \in Range(input.ues)
    PROVE  occupancyBytes'[u] = ArrivedSinceService(u)'
<1> PICK t \in pending, in \in TtiInputs :
      /\ occupancyBytes' = WithArrivals(in)
      /\ arrivals' = ArrivalsByUe(in)
      /\ arrivalLog' = [s \in DOMAIN arrivalLog \cup {t} |->
                           IF s = t THEN ArrivalsByUe(in) ELSE arrivalLog[s]]
  BY DEF OpenTti
<1>1. /\ LoopTypeOK /\ pc = "between" /\ allDecisions' = allDecisions
      /\ t \notin DOMAIN arrivalLog
  BY DEF OpenTti, BacklogInv, TrafficInv, OrderInv, TtiOpen
<1>2. u \in UeIds
  BY <1>1, LogTypes
<1> DEFINE f == LoggedFor(u)
           g == LoggedFor(u)'
           S == SinceService(u)
<1>3. ServiceTtis(u)' = ServiceTtis(u) /\ \A s \in ServiceTtis(u) : s < t
  BY <1>1, ServiceByPosition
     DEF BacklogInv, TrafficInv, OrderInv, RecordedPrecedePending, ServiceTtis
<1>4. DOMAIN arrivalLog' = DOMAIN arrivalLog \cup {t}
  OBVIOUS
<1>5. SinceService(u)' = S \cup {t}
  BY <1>3, <1>4 DEF SinceService
<1>6. \A s \in S \cup {t} : g[s] \in Nat
  <2>1. \A s \in DOMAIN arrivalLog' : g[s] \in Nat
    <3>1. arrivalLog' \in [DOMAIN arrivalLog' -> [UeIds -> Nat]]
      BY DEF LoopTypeOK
    <3> TAKE s \in DOMAIN arrivalLog'
    <3>2. arrivalLog'[s] \in [UeIds -> Nat]
      BY <3>1
    <3>3. arrivalLog'[s][u] \in Nat
      BY <1>2, <3>2
    <3>4. g[s] = arrivalLog'[s][u]
      BY DEF LoggedFor
    <3> QED
      BY <3>3, <3>4
  <2> QED
    BY <2>1, <1>4 DEF SinceService
<1>7. g[t] = ArrivalsByUe(in)[u] /\ \A s \in S : f[s] = g[s]
  BY <1>1, <1>4 DEF LoggedFor, SinceService
<1>8. IsFiniteSet(S) /\ t \notin S
  BY <1>1, LogTypes DEF SinceService
<1>9. ArrivedSinceService(u)' = SumFunctionOnSet(g, S \cup {t})
  BY <1>5 DEF ArrivedSinceService, LoggedFor, SinceService
<1>10. ArrivedSinceService(u) = SumFunctionOnSet(f, S)
  BY ArrivedIsSum
<1>11. occupancyBytes'[u] = occupancyBytes[u] + ArrivalsByUe(in)[u]
  BY <1>2 DEF WithArrivals
<1>12. occupancyBytes[u] = ArrivedSinceService(u)
  BY DEF BacklogInv
<1>13. occupancyBytes[u] \in Nat /\ g[t] \in Nat
  BY <1>1, <1>2, <1>6 DEF LoopTypeOK
<1> HIDE DEF f, g, S
<1>14. SumFunctionOnSet(g, S \cup {t}) = g[t] + SumFunctionOnSet(g, S)
  BY <1>6, <1>8, SumWith
<1>15. SumFunctionOnSet(f, S) = SumFunctionOnSet(g, S)
  BY <1>7, <1>8, SameSummands
<1> QED
  BY <1>7, <1>9, <1>10, <1>11, <1>12, <1>13, <1>14, <1>15

\* Nothing later than the TTI being processed is logged or called.
LEMMA OpenIsLatest ==
    ASSUME TrafficInv, pc \in {"allocate", "commit"}
    PROVE  /\ observable.tti \in pending /\ observable.tti \in Nat
           /\ \A t \in DOMAIN arrivalLog : t <= observable.tti
           /\ \A t \in Range(calls) :
                 /\ t \in Nat /\ t <= observable.tti
                 /\ pc = "allocate" => t < observable.tti
           /\ \A u : \A s \in ServiceTtis(u) : s < observable.tti
<1> DEFINE T == observable.tti
<1>1. LoopTypeOK /\ OrderInv /\ DOMAIN arrivalLog \subseteq Nat /\ T \in Nat
  BY LogTypes DEF TrafficInv, OrderInv, LoopTypeOK, Observable
<1>2. T \in pending
  BY <1>1 DEF OrderInv, OpenIsNext, IsNextTti
<1>3. ASSUME NEW t \in Range(calls)
      PROVE  t \in Nat /\ t <= T /\ (pc = "allocate" => t < T)
  <2> PICK i \in DOMAIN calls : calls[i] = t
    BY DEF Range
  <2>1. t < T \/ (pc = "commit" /\ t = T)
    BY <1>1, <1>2 DEF OrderInv, CallsPrecedePending
  <2>2. t \in Nat
    BY <1>1, ElementOfSeq, LenProperties DEF LoopTypeOK
  <2> QED
    BY <2>1, <2>2, <1>1
<1>4. ASSUME NEW t \in DOMAIN arrivalLog PROVE t <= T
  <2>1. CASE t \in pending
    BY <1>1, <2>1 DEF TrafficInv
  <2>2. CASE t \notin pending
    BY <1>1, <1>3, <2>2 DEF OrderInv, NoneForgotten, LoopTypeOK
  <2> QED
    BY <2>1, <2>2
<1>5. \A u : \A s \in ServiceTtis(u) : s < T
  BY <1>1, <1>2, ServiceByPosition DEF OrderInv, RecordedPrecedePending
<1> QED
  BY <1>1, <1>2, <1>3, <1>4, <1>5

\* What a commit adds to the recorded services.
LEMMA CommitServices ==
    ASSUME LoopTypeOK, CommitTti
    PROVE  /\ Range(allDecisions') = Range(allDecisions) \cup Range(step.decisions)
           /\ \A d \in Range(step.decisions) :
                 d.tti = observable.tti /\ d.ue \in Range(observable.ues)
           /\ \A u : ServiceTtis(u)' =
                 ServiceTtis(u) \cup {t \in {observable.tti} : u \in ServedBy(step.decisions)}
<1>1. allDecisions' = allDecisions \o step.decisions /\ ValidDecisions(step.decisions)
  BY DEF CommitTti
<1>2. Range(allDecisions') = Range(allDecisions) \cup Range(step.decisions)
  BY <1>1, RangeConcatenation DEF LoopTypeOK, Decisions
<1>3. \A d \in Range(step.decisions) :
         d.tti = observable.tti /\ d.ue \in Range(observable.ues)
  BY <1>1 DEF ValidDecisions, ValidDecision, Range
<1> QED
  BY <1>2, <1>3 DEF ServedBy, ServiceTtis

LEMMA BacklogCommit ==
    ASSUME BacklogInv, CommitTti, NEW u \in Range(input.ues)
    PROVE  occupancyBytes'[u] = ArrivedSinceService(u)'
<1> DEFINE T == observable.tti
           ds == step.decisions
<1>1. /\ LoopTypeOK /\ TrafficInv /\ pc = "commit"
      /\ arrivalLog' = arrivalLog
      /\ occupancyBytes' = Drained(ds)
  BY DEF CommitTti, BacklogInv, TrafficInv, OrderInv
<1>2. u \in UeIds /\ DOMAIN arrivalLog \subseteq Nat /\ T \in Nat
  BY <1>1, LogTypes DEF LoopTypeOK, Observable
<1>3. CASE u \in ServedBy(ds)
  <2>1. T \in ServiceTtis(u)'
    BY <1>1, <1>3, CommitServices
  <2>2. SinceService(u)' = {}
    <3> SUFFICES ASSUME NEW t \in SinceService(u)' PROVE FALSE
      OBVIOUS
    <3>1. t \in DOMAIN arrivalLog /\ T < t
      BY <1>1, <2>1 DEF SinceService
    <3> QED
      BY <3>1, <1>1, <1>2, OpenIsLatest
  <2>3. ArrivedSinceService(u)' = 0
    <3>1. ArrivedSinceService(u)' = SumFunctionOnSet(LoggedFor(u)', {})
      BY <2>2 DEF ArrivedSinceService, LoggedFor, SinceService
    <3> QED
      BY <3>1, EmptySum
  <2> QED
    BY <1>1, <1>2, <1>3, <2>3 DEF Drained
<1>4. CASE u \notin ServedBy(ds)
  <2>1. ServiceTtis(u)' = ServiceTtis(u)
    BY <1>1, <1>4, CommitServices
  <2>2. ArrivedSinceService(u)' = ArrivedSinceService(u)
    BY <1>1, <2>1 DEF ArrivedSinceService
  <2> QED
    BY <1>1, <1>2, <1>4, <2>2 DEF Drained, BacklogInv
<1> QED
  BY <1>3, <1>4

LEMMA BacklogInit == LoopInit => BacklogInv
<1> SUFFICES ASSUME LoopInit PROVE BacklogInv
  OBVIOUS
<1>1. TrafficInv /\ LoopTypeOK
  BY TrafficInit, LoopTypeInit
<1>2. ASSUME NEW u \in Range(input.ues)
      PROVE  occupancyBytes[u] = ArrivedSinceService(u)
  <2>1. SinceService(u) = {}
    BY DEF LoopInit, SinceService
  <2>2. ArrivedSinceService(u) = 0
    BY <2>1, ArrivedIsSum, EmptySum
  <2> QED
    BY <1>1, <2>2, LogTypes DEF LoopInit, NoBytes
<1> QED
  BY <1>1, <1>2 DEF BacklogInv, LoopInit

LEMMA BacklogStep == BacklogInv /\ [AnyNext]_loopVars => BacklogInv'
<1> SUFFICES ASSUME BacklogInv, [AnyNext]_loopVars
             PROVE  BacklogInv'
  OBVIOUS
<1>0. TrafficInv' /\ TrafficInv /\ OrderInv /\ LoopTypeOK /\ LoopTypeOK'
      /\ input' = input
  <2>1. TrafficInv' /\ TrafficInv /\ OrderInv /\ LoopTypeOK /\ LoopTypeOK'
    BY TrafficStep DEF BacklogInv, TrafficInv, OrderInv
  <2>2. input' = input
    BY DEF AnyNext, LoopStep, RefuseArguments, Start, OpenTti, RefuseStep, CommitTti, Return,
           AllocateReturnsSomething, AllocateReturns, AllocateRaises,
           InitialStateRaises
  <2> QED
    BY <2>1, <2>2
<1>1. ASSUME UNCHANGED <<occupancyBytes, arrivalLog, allDecisions, observable>>,
             pc' \in {"allocate", "commit"} => pc \in {"allocate", "commit"}
      PROVE  BacklogInv'
  <2>1. \A u : ArrivedSinceService(u)' = ArrivedSinceService(u)
    BY <1>1 DEF ArrivedSinceService, ServiceTtis
  <2> QED
    BY <1>0, <1>1, <2>1 DEF BacklogInv
<1>2. CASE RefuseArguments
  BY <1>1, <1>2 DEF RefuseArguments, Raise
<1>3. CASE Start
  <2>1. occupancyBytes' = occupancyBytes /\ allDecisions' = allDecisions
    BY <1>0, <1>3 DEF Start, TrafficInv, OrderInv, OpenIsNext
  <2> QED
    BY <1>1, <1>3, <2>1 DEF Start
<1>4. CASE OpenTti
  <2>1. \A u \in Range(input.ues) : occupancyBytes'[u] = ArrivedSinceService(u)'
    BY <1>0, <1>4, BacklogOpen
  <2>2. observable'.buffers = occupancyBytes'
    BY <1>4 DEF OpenTti, Observe
  <2> QED
    BY <1>0, <2>1, <2>2 DEF BacklogInv
<1>5. CASE RefuseStep
  BY <1>1, <1>5 DEF RefuseStep, Raise
<1>6. CASE CommitTti
  <2>1. \A u \in Range(input.ues) : occupancyBytes'[u] = ArrivedSinceService(u)'
    BY <1>6, BacklogCommit
  <2>2. pc' = "between"
    BY <1>6 DEF CommitTti
  <2> QED
    BY <1>0, <2>1, <2>2 DEF BacklogInv
<1>7. CASE Return
  BY <1>1, <1>7 DEF Return
<1>8. CASE AllocateReturnsSomething
  BY <1>1, <1>8 DEF AllocateReturnsSomething, AllocateReturns
<1>9. CASE AllocateRaises
  BY <1>1, <1>9 DEF AllocateRaises, Raise
<1>10. CASE UNCHANGED loopVars
  BY <1>1, <1>10
<1>11. CASE InitialStateRaises
  BY <1>1, <1>11 DEF InitialStateRaises, Raise
<1> QED
  BY <1>2, <1>3, <1>4, <1>5, <1>6, <1>7, <1>8, <1>9, <1>10, <1>11
     DEF AnyNext, LoopStep

LEMMA BacklogInvariant == AnyRun => []BacklogInv
  BY BacklogInit, BacklogStep, PTL DEF AnyRun

\* With any algorithm and any scenario, the backlog of a UE, in run()'s book and
\* in the ObservableState of a TTI, is what arrived for it since its last
\* recorded service.
THEOREM BacklogIsWhatIsUnserved == AnyRun => []BacklogIsUnserved
<1>1. BacklogInv => BacklogIsUnserved
  BY DEF BacklogInv, BacklogIsUnserved
<1> QED
  BY <1>1, BacklogInvariant, PTL

----------------------------------------------------------------------------
(***************************************************************************)
(* The oracle's run of the loop                                            *)
(*                                                                         *)
(* The buffers the candidate was shown are those of BacklogAt, a function  *)
(* of what was logged and recorded, however the run goes on after the TTI. *)
(***************************************************************************)

\* The backlog of u in TTI t: what arrived for it up to t and after its last
\* service before t.
BacklogAt(t, u) ==
    SumFunctionOnSet(LoggedFor(u),
                     {x \in DOMAIN arrivalLog :
                        x <= t /\ \A s \in ServiceTtis(u) : s < t => s < x})

ShownInv ==
    /\ BacklogInv
    /\ pc \in {"allocate", "commit"} => observable.ues = input.ues
    /\ \A k \in DOMAIN allDecisions : allDecisions[k].ue \in Range(input.ues)
    /\ DOMAIN shown = Range(calls)
    /\ \A t \in Range(calls), u \in Range(input.ues) : shown[t][u] = BacklogAt(t, u)

LEMMA RunCandidateIsAnyNext ==
    ASSUME RunCandidate
    PROVE  AnyNext /\ pc \notin {"returned", "raised"} /\ input' = input
<1>1. LoopNext
  BY DEF RunCandidate
<1>2. ASSUME AllocateAnything PROVE AllocateReturnsSomething
  <2> PICK r \in StepResults : AllocateReturns(r.decisions, r.state)
    BY <1>2 DEF AllocateAnything
  <2>1. step'.decisions = r.decisions /\ step'.state = r.state
    BY DEF AllocateReturns
  <2> QED
    BY <2>1, StepResultsAssumption DEF AllocateReturnsSomething
<1>3. AnyNext
  BY <1>1, <1>2 DEF LoopNext, AnyNext
<1> QED
  BY <1>3 DEF AnyNext, LoopStep, RefuseArguments, Start, OpenTti, RefuseStep, CommitTti, Return,
              AllocateReturnsSomething, AllocateReturns, AllocateRaises,
              InitialStateRaises

LEMMA ShownKept ==
    ASSUME ShownInv, RunCandidate, calls' = calls
    PROVE  DOMAIN shown' = Range(calls') /\ \A t \in Range(calls) : shown'[t] = shown[t]
BY DEF ShownInv, RunCandidate

LEMMA ShownOpen ==
    ASSUME ShownInv, OpenTti, BacklogInv', NEW c \in Range(calls), NEW u \in Range(input.ues)
    PROVE  BacklogAt(c, u)' = BacklogAt(c, u)
<1> PICK t \in pending, in \in TtiInputs :
      arrivalLog' = [s \in DOMAIN arrivalLog \cup {t} |->
                        IF s = t THEN ArrivalsByUe(in) ELSE arrivalLog[s]]
  BY DEF OpenTti
<1>1. /\ LoopTypeOK /\ OrderInv /\ TrafficInv /\ pc = "between"
      /\ allDecisions' = allDecisions /\ calls' = calls
  BY DEF OpenTti, ShownInv, BacklogInv, TrafficInv, OrderInv
<1>2. c < t /\ c \in Nat /\ t \in Nat /\ t \notin DOMAIN arrivalLog
  <2> PICK i \in DOMAIN calls : calls[i] = c
    BY DEF Range
  <2>1. c < t
    BY <1>1 DEF OrderInv, CallsPrecedePending
  <2>2. c \in Nat
    BY <1>1, ElementOfSeq, LenProperties DEF LoopTypeOK
  <2>3. t \in Nat
    <3>1. Range(input.ttis) \subseteq Nat
      BY <1>1, RunInputsAssumption, RangeOfSeq DEF LoopTypeOK
    <3> QED
      BY <1>1, <3>1 DEF LoopTypeOK
  <2> QED
    BY <2>1, <2>2, <2>3, <1>1 DEF TrafficInv, TtiOpen
<1> DEFINE Upto == {x \in DOMAIN arrivalLog :
                      x <= c /\ \A s \in ServiceTtis(u) : s < c => s < x}
<1>3. DOMAIN arrivalLog' = DOMAIN arrivalLog \cup {t}
  OBVIOUS
<1>4. ServiceTtis(u)' = ServiceTtis(u)
  BY <1>1 DEF ServiceTtis
<1>5. {x \in DOMAIN arrivalLog' :
         x <= c /\ \A s \in ServiceTtis(u)' : s < c => s < x} = Upto
  BY <1>2, <1>3, <1>4
<1>6. \A x \in Upto : LoggedFor(u)'[x] = LoggedFor(u)[x]
  BY <1>2, <1>3 DEF LoggedFor
<1>7. IsFiniteSet(Upto)
  <2>1. Upto \subseteq DOMAIN arrivalLog
    OBVIOUS
  <2> HIDE DEF Upto
  <2> QED
    BY <2>1, <1>1, LogTypes, FS_Subset
<1>8. BacklogAt(c, u)' = SumFunctionOnSet(LoggedFor(u)', Upto)
  BY <1>5 DEF BacklogAt
<1>9. BacklogAt(c, u) = SumFunctionOnSet(LoggedFor(u), Upto)
  BY DEF BacklogAt
<1> DEFINE f == LoggedFor(u)
           g == LoggedFor(u)'
<1>10. SumFunctionOnSet(g, Upto) = SumFunctionOnSet(f, Upto)
  <2>1. \A x \in Upto : g[x] = f[x]
    BY <1>6
  <2> HIDE DEF f, g, Upto
  <2> QED
    BY <1>7, <2>1, SameSummands
<1> QED
  BY <1>8, <1>9, <1>10

LEMMA ShownCall ==
    ASSUME ShownInv, RunCandidate, BacklogInv', pc = "allocate",
           calls' = Append(calls, observable.tti),
           UNCHANGED <<input, observable, allDecisions, arrivalLog>>
    PROVE  ShownInv'
<1> DEFINE T == observable.tti
<1>1. LoopTypeOK /\ TrafficInv /\ T \in Nat
  BY DEF ShownInv, BacklogInv, TrafficInv, OrderInv, LoopTypeOK, Observable
<1>2. Range(calls') = Range(calls) \cup {T}
  BY <1>1, RangeOfAppend DEF LoopTypeOK
<1>3. T \notin Range(calls)
  BY <1>1, OpenIsLatest
<1>4. shown' = [t \in Range(calls') |->
                   IF t \in DOMAIN shown THEN shown[t] ELSE observable.buffers]
  BY DEF RunCandidate
<1>5. /\ DOMAIN shown' = Range(calls')
      /\ \A t \in Range(calls) : shown'[t] = shown[t]
      /\ shown'[T] = observable.buffers
  BY <1>2, <1>3, <1>4 DEF ShownInv
<1>6. \A t, u : BacklogAt(t, u)' = BacklogAt(t, u)
  BY DEF BacklogAt, LoggedFor, ServiceTtis
<1>7. ASSUME NEW u \in Range(input.ues)
      PROVE  observable.buffers[u] = BacklogAt(T, u)
  <2>1. SinceService(u) = {x \in DOMAIN arrivalLog :
                             x <= T /\ \A s \in ServiceTtis(u) : s < T => s < x}
    BY <1>1, OpenIsLatest DEF SinceService
  <2>2. ArrivedSinceService(u) = BacklogAt(T, u)
    BY <2>1, ArrivedIsSum DEF BacklogAt
  <2> QED
    BY <2>2 DEF ShownInv, BacklogInv
<1>8. \A t \in Range(calls'), u \in Range(input.ues) : shown'[t][u] = BacklogAt(t, u)'
  BY <1>2, <1>5, <1>6, <1>7 DEF ShownInv
<1> QED
  BY <1>5, <1>8 DEF ShownInv

LEMMA ShownCommit ==
    ASSUME ShownInv, RunCandidate, CommitTti, BacklogInv'
    PROVE  ShownInv'
<1> DEFINE T == observable.tti
<1>1. /\ LoopTypeOK /\ TrafficInv /\ pc = "commit" /\ pc' = "between"
      /\ UNCHANGED <<input, arrivalLog, calls>> /\ observable.ues = input.ues
  BY DEF CommitTti, ShownInv, BacklogInv, TrafficInv, OrderInv
<1>2. ASSUME NEW t \in Range(calls), NEW u \in Range(input.ues)
      PROVE  shown'[t][u] = BacklogAt(t, u)'
  <2>1. t \in Nat /\ T \in Nat /\ t <= T
    BY <1>1, OpenIsLatest
  <2>2. \A s \in ServiceTtis(u)' : s \in ServiceTtis(u) \/ s = T
    BY <1>1, CommitServices
  <2>3. ServiceTtis(u) \subseteq ServiceTtis(u)'
    BY <1>1, CommitServices
  <2>4. ~(T < t)
    BY <2>1
  <2>5. \A x : (\A s \in ServiceTtis(u)' : s < t => s < x)
                  <=> (\A s \in ServiceTtis(u) : s < t => s < x)
    BY <2>2, <2>3, <2>4
  <2>6. BacklogAt(t, u)' = BacklogAt(t, u)
    BY <1>1, <2>5 DEF BacklogAt, LoggedFor
  <2> QED
    BY <1>1, <2>6, ShownKept DEF ShownInv
<1>3. \A k \in DOMAIN allDecisions' : allDecisions'[k].ue \in Range(input.ues)
  <2>1. \A d \in Range(allDecisions') : d.ue \in Range(input.ues)
    BY <1>1, CommitServices DEF ShownInv, Range
  <2> QED
    BY <2>1 DEF Range
<1>4. DOMAIN shown' = Range(calls')
  BY <1>1, ShownKept
<1> QED
  BY <1>1, <1>2, <1>3, <1>4 DEF ShownInv

LEMMA ShownStep == ShownInv /\ RunCandidate => ShownInv'
<1> SUFFICES ASSUME ShownInv, RunCandidate PROVE ShownInv'
  OBVIOUS
<1>0. BacklogInv' /\ input' = input
  BY RunCandidateIsAnyNext, BacklogStep DEF ShownInv
<1>1. ASSUME UNCHANGED <<calls, allDecisions, observable, arrivalLog>>,
             pc' \in {"allocate", "commit"} => pc \in {"allocate", "commit"}
      PROVE  ShownInv'
  <2>1. \A t, u : BacklogAt(t, u)' = BacklogAt(t, u)
    BY <1>1 DEF BacklogAt, LoggedFor, ServiceTtis
  <2> QED
    BY <1>0, <1>1, <2>1, ShownKept DEF ShownInv
<1>2. CASE RefuseArguments
  BY <1>1, <1>2 DEF RefuseArguments, Raise
<1>3. CASE Start
  <2>1. allDecisions' = allDecisions
    BY <1>3 DEF Start, ShownInv, BacklogInv, TrafficInv, OrderInv, OpenIsNext
  <2> QED
    BY <1>1, <1>3, <2>1 DEF Start
<1>4. CASE OpenTti
  <2>1. observable'.ues = input.ues /\ calls' = calls /\ allDecisions' = allDecisions
    BY <1>4 DEF OpenTti, Observe
  <2>2. \A t \in Range(calls), u \in Range(input.ues) : BacklogAt(t, u)' = BacklogAt(t, u)
    BY <1>0, <1>4, ShownOpen
  <2> QED
    BY <1>0, <2>1, <2>2, ShownKept DEF ShownInv
<1>5. CASE RefuseStep
  BY <1>1, <1>5 DEF RefuseStep, Raise
<1>6. CASE CommitTti
  BY <1>0, <1>6, ShownCommit
<1>7. CASE Return
  BY <1>1, <1>7 DEF Return
<1>8. CASE AllocateReturnsSomething
  BY <1>0, <1>8, ShownCall DEF AllocateReturnsSomething, AllocateReturns
<1>9. CASE AllocateRaises
  BY <1>0, <1>9, ShownCall DEF AllocateRaises, Raise
<1>10. CASE InitialStateRaises
  BY <1>1, <1>10 DEF InitialStateRaises, Raise
<1> QED
  BY <1>2, <1>3, <1>4, <1>5, <1>6, <1>7, <1>8, <1>9, <1>10, RunCandidateIsAnyNext
     DEF AnyNext, LoopStep

----------------------------------------------------------------------------
(***************************************************************************)
(* The replay                                                              *)
(*                                                                         *)
(* The oracle's book is the sum of what was logged since the services it   *)
(* has entered; looked at before a service is entered, that is the buffer  *)
(* the candidate was shown, or nothing once the UE was served in this TTI. *)
(***************************************************************************)

\* The recorded services the oracle has entered in its book so far, by position
\* in the decisions.
Applied ==
    {k \in DOMAIN allDecisions :
        /\ allDecisions[k].blocks # <<>>
        /\ allDecisions[k].tti \notin unreplayed
        /\ allDecisions[k].tti \in replayTti => k < position}

Replayed == Range(input.ttis) \ unreplayed

SinceApplied(u) ==
    {x \in Replayed :
        \A k \in Applied : allDecisions[k].ue = u => allDecisions[k].tti < x}

\* The progress of the replay.
ReplayOrder ==
    /\ unreplayed \subseteq Range(input.ttis)
    /\ position \in Nat
    /\ \A r \in Replayed, p \in unreplayed : r < p
    /\ \A t \in replayTti : t \in Replayed /\ \A r \in Replayed : r <= t
    /\ replayTti # {} => pc = "returned" /\ verdict = "none"
    /\ pc # "returned" => unreplayed = Range(input.ttis) /\ violations = {}
    /\ verdict # "none" => pc \in {"returned", "raised"}
    /\ verdict # "none" /\ pc = "returned" =>
          /\ unreplayed = {} /\ replayTti = {}
          /\ verdict = IF violations = {} THEN "passed" ELSE "failed"

BookInv ==
    \A u \in Range(input.ues) :
        occupancy[u] = SumFunctionOnSet(LoggedFor(u), SinceApplied(u))

\* Positions of two services of one UE in one TTI.
SameService(j, k) ==
    /\ allDecisions[j].tti = allDecisions[k].tti
    /\ allDecisions[j].ue = allDecisions[k].ue

ReportInv ==
    /\ \A k \in Applied :
          shown[allDecisions[k].tti][allDecisions[k].ue] = 0
              => <<allDecisions[k].tti, allDecisions[k].ue>> \in violations
    /\ \A v \in violations : \E k \in Applied :
          /\ v = <<allDecisions[k].tti, allDecisions[k].ue>>
          /\ \/ shown[v[1]][v[2]] = 0
             \/ \E j \in Applied : j # k /\ SameService(j, k)

ReplayInv ==
    /\ ShownInv
    /\ ReplayOrder
    /\ occupancy \in [UeIds -> Nat]
    /\ BookInv
    /\ ReportInv

LEMMA ReturnedFacts ==
    ASSUME ShownInv, pc = "returned"
    PROVE  /\ LoopTypeOK
           /\ DOMAIN arrivalLog = Range(input.ttis)
           /\ Range(input.ttis) \subseteq Nat
           /\ Range(input.ues) \subseteq UeIds
           /\ Range(calls) = Range(input.ttis)
           /\ \A k \in DOMAIN allDecisions :
                 /\ k \in Nat /\ k >= 1 /\ k <= Len(allDecisions)
                 /\ allDecisions[k].tti \in Range(input.ttis)
                 /\ allDecisions[k].ue \in Range(input.ues)
<1>1. LoopTypeOK /\ OrderInv /\ TrafficInv
  BY DEF ShownInv, BacklogInv, TrafficInv, OrderInv
<1>2. pending = {}
  BY <1>1 DEF OrderInv, OpenIsNext
<1>3. DOMAIN arrivalLog = Range(input.ttis) /\ Range(calls) = Range(input.ttis)
  BY <1>1, <1>2 DEF TrafficInv, OrderInv, NoneForgotten, LoopTypeOK
<1>4. Range(input.ttis) \subseteq Nat
  BY <1>1, RunInputsAssumption, RangeOfSeq DEF LoopTypeOK
<1>5. DOMAIN allDecisions = 1 .. Len(allDecisions) /\ Len(allDecisions) \in Nat
  BY <1>1, LenProperties DEF LoopTypeOK, Decisions
<1> QED
  BY <1>1, <1>3, <1>4, <1>5, LogTypes DEF ShownInv, OrderInv, RecordedPrecedePending

\* A replay in progress.
LEMMA ReplayFacts ==
    ASSUME ReplayInv, NEW t \in replayTti
    PROVE  /\ pc = "returned" /\ verdict = "none"
           /\ t \in Replayed /\ t \in Nat
           /\ \A s \in replayTti : s = t
           /\ \A r \in Replayed : r \in Nat /\ r <= t
           /\ \A p \in unreplayed : t < p
<1>1. pc = "returned" /\ verdict = "none"
  BY DEF ReplayInv, ReplayOrder
<1>2. Replayed \subseteq Nat
  BY <1>1, ReturnedFacts DEF ReplayInv, Replayed
<1>3. /\ \A s \in replayTti : s \in Replayed /\ \A r \in Replayed : r <= s
      /\ \A p \in unreplayed : t < p
  BY DEF ReplayInv, ReplayOrder
<1>4. ASSUME NEW s \in replayTti PROVE s = t
  <2>1. s \in Nat /\ t \in Nat /\ s <= t /\ t <= s
    BY <1>2, <1>3
  <2> QED
    BY <2>1
<1> QED
  BY <1>1, <1>2, <1>3, <1>4

\* Before a decision of TTI t is entered, the book shows what the candidate was
\* shown, or nothing if the UE has been served in t already.
LEMMA BookShowsBuffer ==
    ASSUME ReplayInv, NEW t \in replayTti, NEW u \in Range(input.ues)
    PROVE  occupancy[u] =
              IF \E j \in Applied : allDecisions[j].tti = t /\ allDecisions[j].ue = u
              THEN 0 ELSE shown[t][u]
<1>1. /\ pc = "returned" /\ ShownInv
      /\ DOMAIN arrivalLog = Range(input.ttis) /\ Range(calls) = Range(input.ttis)
      /\ Range(input.ttis) \subseteq Nat
      /\ t \in Replayed /\ t \in Nat
      /\ \A s \in replayTti : s = t
      /\ \A r \in Replayed : r \in Nat /\ r <= t
      /\ \A p \in unreplayed : t < p
      /\ \A k \in DOMAIN allDecisions : allDecisions[k].tti \in Range(input.ttis)
  BY ReplayFacts, ReturnedFacts DEF ReplayInv
<1>2. occupancy[u] = SumFunctionOnSet(LoggedFor(u), SinceApplied(u))
  BY DEF ReplayInv, BookInv
<1>3. CASE \E j \in Applied : allDecisions[j].tti = t /\ allDecisions[j].ue = u
  <2>1. SinceApplied(u) = {}
    <3> SUFFICES ASSUME NEW x \in SinceApplied(u) PROVE FALSE
      OBVIOUS
    <3>1. t < x /\ x \in Replayed
      BY <1>3 DEF SinceApplied
    <3> QED
      BY <3>1, <1>1
  <2> QED
    BY <1>2, <1>3, <2>1, EmptySum
<1>4. CASE ~ \E j \in Applied : allDecisions[j].tti = t /\ allDecisions[j].ue = u
  <2>1. \A x \in Range(input.ttis) : x \in Replayed <=> x <= t
    <3> TAKE x \in Range(input.ttis)
    <3>1. CASE x \in unreplayed
      BY <1>1, <3>1 DEF Replayed
    <3>2. CASE x \notin unreplayed
      BY <1>1, <3>2 DEF Replayed
    <3> QED
      BY <3>1, <3>2
  <2>2. \A k \in Applied : allDecisions[k].ue = u =>
           allDecisions[k].tti \in ServiceTtis(u) /\ allDecisions[k].tti < t
    <3> TAKE k \in Applied
    <3> SUFFICES ASSUME allDecisions[k].ue = u
                 PROVE  allDecisions[k].tti \in ServiceTtis(u) /\ allDecisions[k].tti < t
      OBVIOUS
    <3>1. /\ k \in DOMAIN allDecisions /\ allDecisions[k].blocks # <<>>
          /\ allDecisions[k].tti \notin unreplayed
      BY DEF Applied
    <3>2. allDecisions[k].tti # t
      BY <1>4
    <3>3. allDecisions[k].tti \in Replayed
      BY <1>1, <3>1 DEF Replayed
    <3> QED
      BY <1>1, <3>1, <3>2, <3>3, ServiceByPosition
  <2>3. \A s \in ServiceTtis(u) : s < t =>
           \E k \in Applied : allDecisions[k].ue = u /\ allDecisions[k].tti = s
    <3> TAKE s \in ServiceTtis(u)
    <3> SUFFICES ASSUME s < t
                 PROVE  \E k \in Applied : allDecisions[k].ue = u /\ allDecisions[k].tti = s
      OBVIOUS
    <3> PICK k \in DOMAIN allDecisions :
               /\ allDecisions[k].ue = u /\ allDecisions[k].blocks # <<>>
               /\ allDecisions[k].tti = s
      BY ServiceByPosition
    <3>1. s \in Nat /\ s # t
      BY <1>1
    <3>2. s \notin unreplayed /\ s \notin replayTti
      BY <1>1, <3>1
    <3> QED
      BY <3>2 DEF Applied
  <2>4. SinceApplied(u) = {x \in DOMAIN arrivalLog :
                             x <= t /\ \A s \in ServiceTtis(u) : s < t => s < x}
    <3>1. \A x : (\A k \in Applied : allDecisions[k].ue = u => allDecisions[k].tti < x)
                    <=> (\A s \in ServiceTtis(u) : s < t => s < x)
      BY <2>2, <2>3
    <3> QED
      BY <1>1, <2>1, <3>1 DEF SinceApplied, Replayed
  <2>5. occupancy[u] = BacklogAt(t, u)
    BY <1>2, <2>4 DEF BacklogAt
  <2> QED
    BY <1>1, <1>4, <2>5 DEF ShownInv, Replayed
<1> QED
  BY <1>3, <1>4

LEMMA ReplayInit == CheckInit => ReplayInv
<1> SUFFICES ASSUME CheckInit PROVE ReplayInv
  OBVIOUS
<1>1. BacklogInv /\ LoopInit
  BY BacklogInit DEF CheckInit
<1>2. ShownInv
  BY <1>1 DEF ShownInv, LoopInit, CheckInit, Range
<1>3. Replayed = {} /\ Applied = {}
  BY <1>1 DEF CheckInit, Replayed, Applied, LoopInit
<1>4. ReplayOrder /\ ReportInv
  BY <1>1, <1>3 DEF ReplayOrder, ReportInv, CheckInit, LoopInit
<1>5. occupancy = NoBytes /\ LoopTypeOK
  BY <1>1, LoopTypeInit DEF CheckInit
<1>6. ASSUME NEW u \in Range(input.ues)
      PROVE  occupancy[u] = SumFunctionOnSet(LoggedFor(u), SinceApplied(u))
  <2>1. SinceApplied(u) = {}
    BY <1>3 DEF SinceApplied
  <2> QED
    BY <1>5, <2>1, EmptySum, LogTypes DEF NoBytes
<1> QED
  BY <1>2, <1>4, <1>5, <1>6 DEF ReplayInv, BookInv, NoBytes

LEMMA ReplayRun ==
    ASSUME ReplayInv, RunCandidate
    PROVE  ReplayInv'
<1>1. /\ pc \notin {"returned", "raised"} /\ input' = input /\ ShownInv'
      /\ UNCHANGED oracleVars
  BY RunCandidateIsAnyNext, ShownStep DEF ReplayInv, RunCandidate
<1>2. /\ unreplayed = Range(input.ttis) /\ replayTti = {} /\ verdict = "none"
      /\ violations = {} /\ position \in Nat
  BY <1>1 DEF ReplayInv, ReplayOrder
<1>3. /\ unreplayed' = Range(input'.ttis) /\ replayTti' = {} /\ verdict' = "none"
      /\ violations' = {} /\ position' \in Nat /\ occupancy' = occupancy
  BY <1>1, <1>2 DEF oracleVars
<1>4. Replayed = {} /\ Replayed' = {}
  BY <1>2, <1>3 DEF Replayed
<1>5. Applied' = {}
  <2>1. \A k \in DOMAIN allDecisions' : allDecisions'[k].tti \in Range(input'.ttis)
    BY <1>1 DEF ShownInv, BacklogInv, TrafficInv, OrderInv, RecordedPrecedePending, NoneForgotten
  <2> QED
    BY <1>3, <2>1 DEF Applied
<1>6. ReplayOrder' /\ ReportInv'
  BY <1>3, <1>4, <1>5 DEF ReplayOrder, ReportInv
<1>7. ASSUME NEW u \in Range(input.ues)
      PROVE  occupancy'[u] = SumFunctionOnSet(LoggedFor(u), SinceApplied(u))'
  <2>1. SinceApplied(u) = {} /\ SinceApplied(u)' = {}
    BY <1>4 DEF SinceApplied
  <2>2. occupancy[u] = 0
    BY <2>1, EmptySum DEF ReplayInv, BookInv
  <2>3. SumFunctionOnSet(LoggedFor(u)', {}) = 0
    BY EmptySum
  <2>4. SumFunctionOnSet(LoggedFor(u), SinceApplied(u))' = 0
    BY <2>1, <2>3 DEF LoggedFor
  <2> QED
    BY <1>3, <2>2, <2>4
<1> QED
  BY <1>1, <1>3, <1>6, <1>7 DEF ReplayInv, BookInv

\* The steps of the oracle leave the loop and what it showed alone.
LEMMA LoopAtRest ==
    ASSUME ShownInv, UNCHANGED <<loopVars, shown>>
    PROVE  /\ ShownInv'
           /\ \A u : LoggedFor(u)' = LoggedFor(u)
<1>1. BacklogInv'
  BY BacklogStep DEF ShownInv
<1>2. \A u : LoggedFor(u)' = LoggedFor(u)
  BY DEF LoggedFor
<1>3. \A t, u : BacklogAt(t, u)' = BacklogAt(t, u)
  BY <1>2 DEF BacklogAt, ServiceTtis
<1> QED
  BY <1>1, <1>2, <1>3 DEF ShownInv

\* A step that enters nothing in the book.
LEMMA ReplayKept ==
    ASSUME ReplayInv, UNCHANGED <<loopVars, shown, unreplayed, occupancy, violations>>,
           Applied' = Applied, ReplayOrder'
    PROVE  ReplayInv'
<1>1. ShownInv' /\ \A u : LoggedFor(u)' = LoggedFor(u)
  BY LoopAtRest DEF ReplayInv
<1>2. \A u : SinceApplied(u)' = SinceApplied(u)
  BY DEF SinceApplied, Replayed
<1>3. BookInv'
  BY <1>1, <1>2 DEF ReplayInv, BookInv
<1>4. ReportInv'
  BY DEF ReplayInv, ReportInv, SameService
<1> QED
  BY <1>1, <1>3, <1>4 DEF ReplayInv

LEMMA ReplayTtiKeeps ==
    ASSUME ReplayInv, ReplayTti
    PROVE  ReplayInv'
<1> PICK t \in unreplayed :
      /\ \A s \in unreplayed : t <= s
      /\ unreplayed' = unreplayed \ {t}
      /\ replayTti' = {t}
      /\ occupancy' = [u \in UeIds |->
                          IF u \in Range(input.ues)
                          THEN occupancy[u] + arrivalLog[t][u]
                          ELSE occupancy[u]]
  BY DEF ReplayTti
<1>1. /\ pc = "returned" /\ verdict = "none" /\ replayTti = {} /\ position' = 1
      /\ UNCHANGED <<loopVars, verdict, violations, shown>>
  BY DEF ReplayTti, Replaying
<1>2. /\ LoopTypeOK /\ DOMAIN arrivalLog = Range(input.ttis)
      /\ Range(input.ttis) \subseteq Nat /\ Range(input.ues) \subseteq UeIds
      /\ \A k \in DOMAIN allDecisions :
            k \in Nat /\ k >= 1 /\ allDecisions[k].tti \in Range(input.ttis)
  BY <1>1, ReturnedFacts DEF ReplayInv
<1>3. /\ unreplayed \subseteq Range(input.ttis) /\ t \in Nat
      /\ \A r \in Replayed : r < t
  BY <1>2 DEF ReplayInv, ReplayOrder
<1>4. ShownInv' /\ \A u : LoggedFor(u)' = LoggedFor(u)
  BY <1>1, LoopAtRest DEF ReplayInv
<1>5. Replayed' = Replayed \cup {t} /\ t \notin Replayed
  BY <1>1, <1>3 DEF Replayed
<1>6. Applied' = Applied
  <2>1. \A k \in DOMAIN allDecisions :
           /\ ~(k < 1)
           /\ (allDecisions[k].tti \notin unreplayed'
                   /\ (allDecisions[k].tti \in replayTti' => k < 1))
                 <=> allDecisions[k].tti \notin unreplayed
    BY <1>2
  <2> QED
    BY <1>1, <2>1 DEF Applied
<1>7. ReplayOrder'
  <2>1. \A r \in Replayed', p \in unreplayed' : r < p
    <3> SUFFICES ASSUME NEW r \in Replayed', NEW p \in unreplayed' PROVE r < p
      OBVIOUS
    <3>1. p \in Nat /\ t <= p /\ p # t
      BY <1>2, <1>3
    <3>2. r = t \/ (r \in Replayed /\ r \in Nat /\ r < t)
      BY <1>2, <1>3, <1>5 DEF Replayed
    <3> QED
      BY <1>3, <3>1, <3>2
  <2>2. \A r \in Replayed' : r <= t
    <3> TAKE r \in Replayed'
    <3>1. r = t \/ (r \in Nat /\ r < t)
      BY <1>2, <1>3, <1>5 DEF Replayed
    <3> QED
      BY <1>3, <3>1
  <2>3. position' \in Nat /\ unreplayed' \subseteq Range(input.ttis)
    BY <1>1, <1>3
  <2>4. t \in Replayed'
    BY <1>5
  <2> QED
    BY <1>1, <2>1, <2>2, <2>3, <2>4 DEF ReplayOrder
<1>8. ASSUME NEW u \in Range(input.ues)
      PROVE  occupancy'[u] = SumFunctionOnSet(LoggedFor(u), SinceApplied(u))'
  <2> DEFINE f == LoggedFor(u)
             S == SinceApplied(u)
  <2>1. u \in UeIds /\ occupancy[u] = SumFunctionOnSet(f, S)
    BY <1>2 DEF ReplayInv, BookInv
  <2>2. \A k \in Applied : allDecisions[k].tti < t
    BY <1>2, <1>3 DEF Applied, Replayed
  <2>3. SinceApplied(u)' = S \cup {t}
    BY <1>1, <1>5, <1>6, <2>2 DEF SinceApplied
  <2>4. S \subseteq DOMAIN arrivalLog /\ t \notin S /\ t \in DOMAIN arrivalLog
    BY <1>2, <1>3, <1>5 DEF SinceApplied, Replayed
  <2>5. \A x \in S \cup {t} : f[x] \in Nat
    BY <1>2, <2>1, <2>4, LogTypes
  <2>6. f[t] = arrivalLog[t][u]
    BY <2>4 DEF LoggedFor
  <2>7. IsFiniteSet(S)
    <3> HIDE DEF S
    <3> QED
      BY <1>2, <2>4, LogTypes, FS_Subset
  <2>8. SumFunctionOnSet(f, S) \in Nat
    <3> HIDE DEF S, f
    <3> QED
      BY <2>5, <2>7, SumIsNat
  <2>9. SumFunctionOnSet(f, S \cup {t}) = f[t] + SumFunctionOnSet(f, S)
    <3> HIDE DEF S, f
    <3> QED
      BY <2>4, <2>5, <2>7, SumWith
  <2>10. SumFunctionOnSet(LoggedFor(u), SinceApplied(u))' = SumFunctionOnSet(f, S \cup {t})
    BY <1>4, <2>3
  <2>11. occupancy'[u] = SumFunctionOnSet(f, S) + f[t]
    BY <2>1, <2>6
  <2>12. f[t] \in Nat
    BY <2>5
  <2> HIDE DEF f, S
  <2> QED
    BY <2>8, <2>9, <2>10, <2>11, <2>12
<1>9. occupancy' \in [UeIds -> Nat]
  <2>1. arrivalLog[t] \in [UeIds -> Nat]
    BY <1>2, <1>3 DEF LoopTypeOK
  <2> QED
    BY <2>1 DEF ReplayInv
<1>10. ReportInv'
  BY <1>1, <1>6 DEF ReplayInv, ReportInv, SameService
<1> QED
  BY <1>1, <1>4, <1>7, <1>8, <1>9, <1>10 DEF ReplayInv, BookInv

LEMMA ReplayDecisionKeeps ==
    ASSUME ReplayInv, ReplayDecision
    PROVE  ReplayInv'
<1> PICK t \in replayTti :
      /\ position \in DOMAIN allDecisions
      /\ LET d == allDecisions[position]
         IN IF Concerns(d, t)
            THEN /\ violations' = IF occupancy[d.ue] = 0
                                  THEN violations \cup {<<t, d.ue>>}
                                  ELSE violations
                 /\ occupancy' = [occupancy EXCEPT ![d.ue] = 0]
            ELSE UNCHANGED <<violations, occupancy>>
      /\ position' = position + 1
      /\ UNCHANGED <<loopVars, verdict, unreplayed, replayTti, shown>>
  BY DEF ReplayDecision
<1> DEFINE d == allDecisions[position]
           w == d.ue
<1>1. /\ pc = "returned" /\ ShownInv
      /\ t \in Replayed /\ t \in Nat
      /\ \A s \in replayTti : s = t
      /\ \A r \in Replayed : r \in Nat /\ r <= t
  BY ReplayFacts DEF ReplayInv
<1>2. /\ LoopTypeOK /\ Range(input.ues) \subseteq UeIds
      /\ \A k \in DOMAIN allDecisions : k \in Nat
      /\ w \in Range(input.ues)
  BY <1>1, ReturnedFacts
<1>3. position \in Nat /\ position \notin {k \in Applied : allDecisions[k].tti = t}
  <2>1. position \in Nat
    BY <1>2
  <2> QED
    BY <2>1 DEF Applied
<1>4. ReplayOrder'
  <2>1. position' \in Nat
    BY <1>3
  <2> QED
    BY <2>1 DEF ReplayInv, ReplayOrder, Replayed
<1>5. \A k \in DOMAIN allDecisions : k < position + 1 <=> k < position \/ k = position
  BY <1>2, <1>3
<1>6. ShownInv' /\ \A u : LoggedFor(u)' = LoggedFor(u)
  BY LoopAtRest DEF ReplayInv
<1>7. CASE ~Concerns(d, t)
  <2>1. d.blocks = <<>> \/ d.tti \notin replayTti
    BY <1>1, <1>7 DEF Concerns
  <2>2. Applied' = Applied
    BY <1>5, <2>1 DEF Applied
  <2> QED
    BY <1>4, <1>7, <2>2, ReplayKept
<1>8. CASE Concerns(d, t)
  <2>1. /\ d.tti = t /\ d.blocks # <<>>
        /\ occupancy' = [occupancy EXCEPT ![w] = 0]
        /\ violations' = IF occupancy[w] = 0
                         THEN violations \cup {<<t, w>>} ELSE violations
    BY <1>8 DEF Concerns
  <2>2. Applied' = Applied \cup {position} /\ position \notin Applied
    <3>1. position \notin Applied
      BY <1>3, <2>1
    <3>2. t \notin unreplayed
      BY <1>1 DEF Replayed
    <3> QED
      BY <1>5, <2>1, <3>1, <3>2 DEF Applied
  <2>3. occupancy' \in [UeIds -> Nat]
    BY <2>1 DEF ReplayInv
  <2>4. ASSUME NEW u \in Range(input.ues)
        PROVE  occupancy'[u] = SumFunctionOnSet(LoggedFor(u), SinceApplied(u))'
    <3>1. u \in UeIds /\ w \in UeIds /\ occupancy \in [UeIds -> Nat]
      BY <1>2 DEF ReplayInv
    <3>2. CASE u = w
      <4>1. SinceApplied(u)' = {}
        <5> SUFFICES ASSUME NEW x \in SinceApplied(u)' PROVE FALSE
          OBVIOUS
        <5>1. x \in Replayed /\ t < x
          BY <2>1, <2>2, <3>2 DEF SinceApplied, Replayed
        <5> QED
          BY <5>1, <1>1
      <4>2. SumFunctionOnSet(LoggedFor(u), SinceApplied(u))' = 0
        BY <1>6, <4>1, EmptySum
      <4> QED
        BY <2>1, <3>1, <3>2, <4>2
    <3>3. CASE u # w
      <4>1. SinceApplied(u)' = SinceApplied(u)
        BY <2>2, <3>3 DEF SinceApplied, Replayed
      <4> QED
        BY <1>6, <2>1, <3>1, <3>3, <4>1 DEF ReplayInv, BookInv
    <3> QED
      BY <3>2, <3>3
  <2>5. occupancy[w] =
          IF \E j \in Applied : allDecisions[j].tti = t /\ allDecisions[j].ue = w
          THEN 0 ELSE shown[t][w]
    BY <1>2, BookShowsBuffer
  <2>6. ASSUME NEW k \in Applied',
               shown[allDecisions[k].tti][allDecisions[k].ue] = 0
        PROVE  <<allDecisions[k].tti, allDecisions[k].ue>> \in violations'
    <3>1. CASE k \in Applied
      BY <2>1, <2>6, <3>1 DEF ReplayInv, ReportInv
    <3>2. CASE k = position
      BY <2>1, <2>5, <2>6, <3>2
    <3> QED
      BY <2>2, <3>1, <3>2
  <2>7. ASSUME NEW v \in violations'
        PROVE  \E k \in Applied' :
                 /\ v = <<allDecisions[k].tti, allDecisions[k].ue>>
                 /\ \/ shown[v[1]][v[2]] = 0
                    \/ \E j \in Applied' : j # k /\ SameService(j, k)
    <3>1. CASE v \in violations
      <4> PICK k \in Applied :
            /\ v = <<allDecisions[k].tti, allDecisions[k].ue>>
            /\ \/ shown[v[1]][v[2]] = 0
               \/ \E j \in Applied : j # k /\ SameService(j, k)
        BY <3>1 DEF ReplayInv, ReportInv
      <4> QED
        BY <2>2
    <3>2. CASE v \notin violations
      <4>1. v = <<t, w>> /\ occupancy[w] = 0
        BY <2>1, <2>7, <3>2
      <4>2. CASE shown[t][w] = 0
        <5> DEFINE p == position
        <5>1. p \in Applied' /\ v = <<allDecisions[p].tti, allDecisions[p].ue>>
          BY <2>1, <2>2, <4>1
        <5>2. shown[v[1]][v[2]] = 0
          BY <4>1, <4>2
        <5> QED
          BY <5>1, <5>2
      <4>3. CASE shown[t][w] # 0
        <5> PICK j \in Applied : allDecisions[j].tti = t /\ allDecisions[j].ue = w
          BY <2>5, <4>1, <4>3
        <5>1. j # position /\ j \in Applied' /\ SameService(j, position)
          BY <2>1, <2>2 DEF SameService
        <5>2. position \in Applied'
              /\ v = <<allDecisions[position].tti, allDecisions[position].ue>>
          BY <2>1, <2>2, <4>1
        <5> QED
          BY <5>1, <5>2
      <4> QED
        BY <4>2, <4>3
    <3> QED
      BY <3>1, <3>2
  <2>8. ReportInv'
    BY <2>6, <2>7 DEF ReportInv, SameService
  <2> QED
    BY <1>4, <1>6, <2>3, <2>4, <2>8 DEF ReplayInv, BookInv
<1> QED
  BY <1>7, <1>8

LEMMA ReplayStep == ReplayInv /\ [CheckNext]_checkVars => ReplayInv'
<1> SUFFICES ASSUME ReplayInv, [CheckNext]_checkVars PROVE ReplayInv'
  OBVIOUS
<1> USE DEF ReplayOrder, Replayed
<1>1. CASE RunCandidate
  BY <1>1, ReplayRun
<1>2. CASE FailOnException
  <2>1. ReplayOrder' /\ Applied' = Applied
    BY <1>2 DEF FailOnException, ReplayInv, Applied
  <2> QED
    BY <1>2, <2>1, ReplayKept DEF FailOnException
<1>3. CASE ReplayTti
  BY <1>3, ReplayTtiKeeps
<1>4. CASE ReplayDecision
  BY <1>4, ReplayDecisionKeeps
<1>5. CASE CloseTti
  <2>1. /\ pc = "returned" /\ position > Len(allDecisions)
        /\ position \in Nat /\ replayTti' = {}
        /\ UNCHANGED <<loopVars, verdict, unreplayed, position, occupancy, violations, shown>>
    BY <1>5 DEF CloseTti, Replaying, ReplayInv
  <2>2. \A k \in DOMAIN allDecisions : k < position
    <3> TAKE k \in DOMAIN allDecisions
    <3>1. k \in Nat /\ k <= Len(allDecisions) /\ Len(allDecisions) \in Nat
      BY <2>1, ReturnedFacts, LenProperties DEF ReplayInv, LoopTypeOK, Decisions
    <3> QED
      BY <2>1, <3>1
  <2>3. Applied' = Applied
    BY <2>1, <2>2 DEF Applied
  <2>4. ReplayOrder'
    BY <1>5, <2>1 DEF CloseTti, Replaying, ReplayInv
  <2> QED
    BY <2>1, <2>3, <2>4, ReplayKept
<1>6. CASE GiveVerdict
  <2>1. ReplayOrder' /\ Applied' = Applied
    BY <1>6 DEF GiveVerdict, Replaying, ReplayInv, Applied
  <2> QED
    BY <1>6, <2>1, ReplayKept DEF GiveVerdict
<1>7. CASE UNCHANGED checkVars
  <2>1. ReplayOrder' /\ Applied' = Applied
    BY <1>7 DEF checkVars, oracleVars, ReplayInv, Applied
  <2> QED
    BY <1>7, <2>1, ReplayKept DEF checkVars, oracleVars
<1> QED
  BY <1>1, <1>2, <1>3, <1>4, <1>5, <1>6, <1>7 DEF CheckNext

LEMMA ReplayInvariant == CheckSpec => []ReplayInv
  BY ReplayInit, ReplayStep, PTL DEF CheckSpec

\* The candidate's part of a check is a run of the loop with some algorithm, so
\* all that is proved of run() holds while it is checked.
THEOREM CheckRunsTheLoop == CheckSpec => AnyRun
<1>1. CheckInit => LoopInit
  BY DEF CheckInit
<1>2. [CheckNext]_checkVars => [AnyNext]_loopVars
  BY RunCandidateIsAnyNext
     DEF CheckNext, FailOnException, ReplayTti, ReplayDecision, CloseTti, GiveVerdict, checkVars
<1> QED
  BY <1>1, <1>2, PTL DEF CheckSpec, AnyRun

\* What holds once the verdict on a completed run is given.
LEMMA VerdictFacts ==
    ASSUME ReplayInv, pc = "returned", verdict # "none"
    PROVE  /\ verdict = IF violations = {} THEN "passed" ELSE "failed"
           /\ Applied = {k \in DOMAIN allDecisions : allDecisions[k].blocks # <<>>}
           /\ \A u : SinceApplied(u) = SinceService(u)
           /\ Services = {<<allDecisions[k].tti, allDecisions[k].ue>> : k \in Applied}
<1>1. unreplayed = {} /\ replayTti = {}
      /\ verdict = IF violations = {} THEN "passed" ELSE "failed"
  BY DEF ReplayInv, ReplayOrder
<1>2. Applied = {k \in DOMAIN allDecisions : allDecisions[k].blocks # <<>>}
  BY <1>1 DEF Applied
<1>3. Replayed = DOMAIN arrivalLog
  BY <1>1, ReturnedFacts DEF ReplayInv, Replayed
<1>4. ASSUME NEW u PROVE SinceApplied(u) = SinceService(u)
  <2>1. ServiceTtis(u) = {allDecisions[k].tti : k \in {j \in Applied : allDecisions[j].ue = u}}
    BY <1>2, ServiceByPosition
  <2> QED
    BY <1>3, <2>1 DEF SinceApplied, SinceService
<1>5. Services = {<<allDecisions[k].tti, allDecisions[k].ue>> : k \in Applied}
  BY <1>2 DEF Services, Range
<1> QED
  BY <1>1, <1>2, <1>4, <1>5

\* For any candidate and scenario, the oracle's replay ends with the backlogs
\* run() ended with, however often and in whatever order UEs were served.
THEOREM ReplayEndsWhereTheLoopDid == CheckSpec => []ReplayAgreesWithLoop
<1>1. ReplayInv => ReplayAgreesWithLoop
  BY VerdictFacts, ArrivedIsSum
     DEF ReplayAgreesWithLoop, ReplayInv, BookInv, ShownInv, BacklogInv
<1> QED
  BY <1>1, ReplayInvariant, PTL

\* No service of a UE that was shown an empty buffer passes or goes unreported.
THEOREM NoEmptyServicePasses == CheckSpec => []EmptyServiceIsReported
<1>1. ASSUME ReplayInv, pc = "returned", verdict # "none"
      PROVE  EmptyServices \subseteq violations
  <2> SUFFICES ASSUME NEW s \in EmptyServices PROVE s \in violations
    OBVIOUS
  <2> PICK k \in Applied : s = <<allDecisions[k].tti, allDecisions[k].ue>>
    BY <1>1, VerdictFacts DEF EmptyServices
  <2>1. shown[allDecisions[k].tti][allDecisions[k].ue] = 0
    BY DEF EmptyServices
  <2> QED
    BY <1>1, <2>1 DEF ReplayInv, ReportInv
<1>2. ReplayInv => EmptyServiceIsReported
  BY <1>1, VerdictFacts DEF EmptyServiceIsReported
<1> QED
  BY <1>2, ReplayInvariant, PTL

\* With at most one decision for a UE in a TTI, the oracle is exact.
THEOREM WholeServicesAreJudgedExactly == CheckSpec => []ExactOnWholeServices
<1>1. ASSUME ReplayInv, pc = "returned", verdict # "none", ~ServedInParts
      PROVE  violations = EmptyServices
  <2>1. ASSUME NEW v \in violations PROVE v \in EmptyServices
    <3> PICK k \in Applied :
          /\ v = <<allDecisions[k].tti, allDecisions[k].ue>>
          /\ \/ shown[v[1]][v[2]] = 0
             \/ \E j \in Applied : j # k /\ SameService(j, k)
      BY <1>1 DEF ReplayInv, ReportInv
    <3>1. ~ \E j \in Applied : j # k /\ SameService(j, k)
      BY <1>1, VerdictFacts DEF ServedInParts, SameService
    <3>2. v \in Services
      BY <1>1, VerdictFacts
    <3> QED
      BY <3>1, <3>2 DEF EmptyServices
  <2>2. ASSUME NEW s \in EmptyServices PROVE s \in violations
    <3> PICK k \in Applied : s = <<allDecisions[k].tti, allDecisions[k].ue>>
      BY <1>1, VerdictFacts DEF EmptyServices
    <3>1. shown[allDecisions[k].tti][allDecisions[k].ue] = 0
      BY DEF EmptyServices
    <3> QED
      BY <1>1, <3>1 DEF ReplayInv, ReportInv
  <2> QED
    BY <2>1, <2>2
<1>2. ReplayInv => ExactOnWholeServices
  BY <1>1, VerdictFacts DEF ExactOnWholeServices
<1> QED
  BY <1>2, ReplayInvariant, PTL
=============================================================================
