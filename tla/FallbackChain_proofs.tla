------------------------- MODULE FallbackChain_proofs -------------------------
(***************************************************************************)
(* What holds of the chain and its breakers for any callers, any number of *)
(* candidates and any threshold.                                           *)
(***************************************************************************)
EXTENDS FallbackChain, TLAPS

\* Numbers that the steps below count with.
LEMMA Bounds ==
  /\ Length \in Nat /\ Length >= 1 /\ Threshold \in Nat /\ Threshold >= 1
  /\ FailureCap \in Nat /\ FailureCap >= Threshold
  /\ 1 \in Candidates /\ 0 \in 0 .. FailureCap
  BY ChainAssumption DEF Candidates

\* A failure counted keeps the count within its bound, and never lowers it.
LEMMA CountType ==
  ASSUME NEW p \in Candidates, failures[p] \in 0 .. FailureCap
  PROVE  /\ Count(p) \in 0 .. FailureCap /\ Count(p) >= failures[p]
         /\ failures[p] < Threshold => Count(p) = failures[p] + 1
  BY Bounds DEF Count

\* A caller that fails over is at a candidate again.
LEMMA FailoverType ==
  ASSUME NEW c \in Callers, at \in [Callers -> Candidates], Failover(c),
         pc \in [Callers -> {"idle", "try", "calling"}],
         answer \in [Callers -> {"none", "result", "error"}]
  PROVE  /\ at' \in [Callers -> Candidates]
         /\ pc' \in [Callers -> {"idle", "try", "calling"}]
         /\ answer' \in [Callers -> {"none", "result", "error"}]
<1>1. at[c] # Length => at[c] + 1 \in Candidates
  BY Bounds DEF Candidates
<1> QED
  BY <1>1 DEF Failover

LEMMA InitType == Init => TypeOK
  BY Bounds DEF Init, TypeOK, States

LEMMA StepType == TypeOK /\ [Next]_vars => TypeOK'
<1> SUFFICES ASSUME TypeOK, [Next]_vars PROVE TypeOK'
  OBVIOUS
<1> USE DEF TypeOK, States, breakerVars, callerVars
<1>1. ASSUME NEW c \in Callers, Execute(c) PROVE TypeOK'
  BY <1>1, Bounds DEF Execute
<1>2. ASSUME NEW c \in Callers, Admit(c) PROVE TypeOK'
  BY <1>2 DEF Admit, LetThrough
<1>3. ASSUME NEW c \in Callers, Probe(c) PROVE TypeOK'
  BY <1>3 DEF Probe, LetThrough
<1>4. ASSUME NEW c \in Callers, Reject(c) PROVE TypeOK'
  BY <1>4, FailoverType DEF Reject
<1>5. ASSUME NEW c \in Callers, Succeed(c) PROVE TypeOK'
  BY <1>5, Bounds DEF Succeed, RecordSuccess
<1>6. ASSUME NEW c \in Callers, Fail(c) PROVE TypeOK'
  <2>1. Count(at[c]) \in 0 .. FailureCap
    BY CountType
  <2>2. /\ failures' \in [Candidates -> 0 .. FailureCap] /\ expired' \in [Candidates -> BOOLEAN]
        /\ state' \in [Candidates -> States]
    <3>1. CASE at[c] \in Guarded
      <4>1. failures' = [failures EXCEPT ![at[c]] = Count(at[c])]
        BY <1>6, <3>1 DEF Fail, RecordFailure
      <4>2. failures' \in [Candidates -> 0 .. FailureCap]
        BY <2>1, <4>1
      <4>3. expired' = [expired EXCEPT ![at[c]] = FALSE]
        BY <1>6, <3>1 DEF Fail, RecordFailure
      <4>4. \E s \in States : state' = [state EXCEPT ![at[c]] = s]
        BY <1>6, <3>1 DEF Fail, RecordFailure
      <4> QED
        BY <4>2, <4>3, <4>4
    <3>2. CASE at[c] \notin Guarded
      BY <1>6, <3>2 DEF Fail, RecordFailure
    <3> QED
      BY <3>1, <3>2
  <2>3. straggler' \in [Callers -> BOOLEAN]
    <3>1. CASE at[c] \in Guarded
      <4>1. straggler' = [d \in Callers |->
              straggler[d] \/ (Opens(at[c]) /\ pc[d] = "calling" /\ at[d] = at[c])]
        BY <1>6, <3>1 DEF Fail, RecordFailure
      <4>2. \A d \in Callers : straggler'[d] \in BOOLEAN
        BY <4>1
      <4> QED
        BY <4>1, <4>2
    <3>2. CASE at[c] \notin Guarded
      BY <1>6, <3>2 DEF Fail, RecordFailure
    <3> QED
      BY <3>1, <3>2
  <2> QED
    BY <1>6, <2>2, <2>3, FailoverType DEF Fail
<1>7. ASSUME NEW p \in Candidates, RecoveryTimeout(p) \/ Break(p) \/ Heal(p) PROVE TypeOK'
  BY <1>7 DEF RecoveryTimeout, Break, Heal
<1>8. CASE UNCHANGED vars
  BY <1>8 DEF vars
<1> QED
  BY <1>1, <1>2, <1>3, <1>4, <1>5, <1>6, <1>7, <1>8 DEF Next, Step

\* The breakers and the callers keep their types: no caller runs off the end of
\* the chain.
THEOREM ChainTypes == Spec => []TypeOK
<1> QED
  BY InitType, StepType, PTL DEF Spec

-----------------------------------------------------------------------------
(***************************************************************************)
(* The state of a breaker and its count agree.  Every step that changes    *)
(* one of the two changes both in one lock section.                        *)
(***************************************************************************)
LEMMA ClosedInit == Init => ClosedBelowThreshold
  BY Bounds DEF Init, ClosedBelowThreshold

LEMMA ClosedStep == TypeOK /\ ClosedBelowThreshold /\ [Next]_vars => ClosedBelowThreshold'
<1> SUFFICES ASSUME TypeOK, ClosedBelowThreshold, [Next]_vars PROVE ClosedBelowThreshold'
  OBVIOUS
<1> USE DEF TypeOK, ClosedBelowThreshold, breakerVars
<1>1. ASSUME NEW c \in Callers, Probe(c) PROVE ClosedBelowThreshold'
  BY <1>1 DEF Probe
<1>2. ASSUME NEW c \in Callers, Succeed(c) PROVE ClosedBelowThreshold'
  BY <1>2, Bounds DEF Succeed, RecordSuccess
<1>3. ASSUME NEW c \in Callers, Fail(c) PROVE ClosedBelowThreshold'
  <2>1. CASE at[c] \notin Guarded
    BY <1>3, <2>1 DEF Fail, RecordFailure
  <2>2. CASE at[c] \in Guarded
    <3>1. /\ Count(at[c]) \in 0 .. FailureCap /\ Count(at[c]) >= failures[at[c]]
          /\ failures[at[c]] \in 0 .. FailureCap
      BY CountType
    <3>2. /\ failures' = [failures EXCEPT ![at[c]] = Count(at[c])]
          /\ state' = [state EXCEPT ![at[c]] = IF Opens(at[c]) THEN "OPEN" ELSE @]
      BY <1>3, <2>2 DEF Fail, RecordFailure
    <3>3. (state'[at[c]] = "CLOSED") <=> (Count(at[c]) < Threshold)
      BY <3>1, <3>2, Bounds DEF Opens
    <3> QED
      BY <3>2, <3>3
  <2> QED
    BY <2>1, <2>2
<1>4. CASE UNCHANGED <<state, failures>>
  BY <1>4
<1>5. ASSUME NEW c \in Callers, Execute(c) \/ Admit(c) \/ Reject(c)
      PROVE  UNCHANGED <<state, failures>>
  BY <1>5 DEF Execute, Admit, Reject
<1>6. ASSUME NEW p \in Candidates, RecoveryTimeout(p) \/ Break(p) \/ Heal(p)
      PROVE  UNCHANGED <<state, failures>>
  BY <1>6 DEF RecoveryTimeout, Break, Heal
<1> QED
  BY <1>1, <1>2, <1>3, <1>4, <1>5, <1>6 DEF Next, Step, vars

\* A breaker is CLOSED exactly while it has counted fewer failures than the
\* threshold, in whatever order concurrent calls answer.
THEOREM ChainCounts == Spec => []ClosedBelowThreshold
<1> QED
  BY InitType, StepType, ClosedInit, ClosedStep, PTL DEF Spec

-----------------------------------------------------------------------------
(***************************************************************************)
(* The candidate that never fails: its breaker never counts a failure, so  *)
(* it never opens, and no caller at work is beyond it.                     *)
(***************************************************************************)
NotBeyond ==
  /\ \A p \in reliable : healthy[p] /\ state[p] = "CLOSED" /\ failures[p] = 0
  /\ \A c \in Callers : pc[c] # "idle" => \A p \in reliable : at[c] <= p

Serves == NotBeyond /\ ReliableCandidateServes

LEMMA ServesInit == Init => Serves
<1> SUFFICES ASSUME Init PROVE Serves
  OBVIOUS
<1>1. reliable \subseteq Candidates
  BY ChainAssumption DEF Init, Candidates
<1> QED
  BY <1>1 DEF Init, Serves, NotBeyond, ReliableCandidateServes

\* Who fails over is not at a candidate that never fails, and there is one ahead.
LEMMA FailoverServes ==
  ASSUME TypeOK, Serves, NEW c \in Callers, pc[c] # "idle",
         at[c] \notin reliable, Failover(c), reliable' = reliable
  PROVE  /\ \A d \in Callers : pc'[d] # "idle" => \A p \in reliable : at'[d] <= p
         /\ ReliableCandidateServes'
<1>1. at[c] \in Nat /\ \A p \in reliable : p \in Nat /\ p <= Length
  BY ChainAssumption, Bounds DEF TypeOK, Candidates
<1>2. \A p \in reliable : at[c] < p
  BY <1>1 DEF Serves, NotBeyond
<1>3. reliable # {} => at[c] # Length
  BY <1>1, <1>2, Bounds
<1>4. CASE reliable = {}
  BY <1>4 DEF ReliableCandidateServes
<1>5. CASE reliable # {}
  <2>1. /\ pc' = [pc EXCEPT ![c] = "try"] /\ at' = [at EXCEPT ![c] = @ + 1]
        /\ UNCHANGED answer
    BY <1>3, <1>5 DEF Failover
  <2>2. \A p \in reliable : at[c] + 1 <= p
    BY <1>1, <1>2
  <2>3. \A d \in Callers : pc'[d] # "idle" => \A p \in reliable : at'[d] <= p
    BY <2>1, <2>2 DEF TypeOK, Serves, NotBeyond
  <2> QED
    BY <2>1, <2>3 DEF Serves, ReliableCandidateServes
<1> QED
  BY <1>4, <1>5

LEMMA ServesStep == TypeOK /\ Serves /\ [Next]_vars => Serves'
<1> SUFFICES ASSUME TypeOK, Serves, [Next]_vars PROVE Serves'
  OBVIOUS
<1>0. reliable \subseteq Candidates /\ \A p \in reliable : p \in 1 .. Length
  BY ChainAssumption DEF TypeOK, Candidates
<1> USE DEF TypeOK, Serves, NotBeyond, ReliableCandidateServes, breakerVars, callerVars
<1>1. ASSUME NEW c \in Callers, Execute(c) PROVE Serves'
  BY <1>0, <1>1 DEF Execute
<1>2. ASSUME NEW c \in Callers, Admit(c) PROVE Serves'
  BY <1>2 DEF Admit, LetThrough
<1>3. ASSUME NEW c \in Callers, Probe(c) PROVE Serves'
  BY <1>0, <1>3 DEF Probe, LetThrough
<1>4. ASSUME NEW c \in Callers, Reject(c) PROVE Serves'
  <2>1. at[c] \notin reliable
    BY <1>4 DEF Reject
  <2> QED
    BY <1>4, <2>1, FailoverServes DEF Reject
<1>5. ASSUME NEW c \in Callers, Succeed(c) PROVE Serves'
  BY <1>0, <1>5 DEF Succeed, RecordSuccess
<1>6. ASSUME NEW c \in Callers, Fail(c) PROVE Serves'
  <2>1. at[c] \notin reliable
    BY <1>6 DEF Fail
  <2>2. \A p \in reliable : state'[p] = state[p] /\ failures'[p] = failures[p]
    BY <1>0, <1>6, <2>1 DEF Fail, RecordFailure
  <2> QED
    BY <1>6, <2>1, <2>2, FailoverServes DEF Fail
<1>7. ASSUME NEW p \in Candidates, RecoveryTimeout(p) \/ Break(p) \/ Heal(p) PROVE Serves'
  BY <1>0, <1>7 DEF RecoveryTimeout, Break, Heal
<1>8. CASE UNCHANGED vars
  BY <1>8 DEF vars
<1> QED
  BY <1>1, <1>2, <1>3, <1>4, <1>5, <1>6, <1>7, <1>8 DEF Next, Step

\* With a local model in the chain no execute fails, wherever it stands in the
\* chain and whatever the other providers and callers do.
THEOREM ChainServes == Spec => []ReliableCandidateServes
<1>1. Serves => ReliableCandidateServes
  BY DEF Serves
<1> QED
  BY <1>1, InitType, StepType, ServesInit, ServesStep, PTL DEF Spec

-----------------------------------------------------------------------------
(***************************************************************************)
(* A call in flight while its breaker is OPEN was let through before.      *)
(***************************************************************************)
InFlightIsOlder ==
  \A c \in Callers :
    pc[c] = "calling" /\ at[c] \in Guarded /\ state[at[c]] = "OPEN" => straggler[c]

LEMMA OlderStep == TypeOK /\ InFlightIsOlder /\ [Next]_vars => InFlightIsOlder'
<1> SUFFICES ASSUME TypeOK, InFlightIsOlder, [Next]_vars PROVE InFlightIsOlder'
  OBVIOUS
<1> USE DEF TypeOK, InFlightIsOlder, breakerVars, callerVars
<1>1. ASSUME NEW c \in Callers, Execute(c) PROVE InFlightIsOlder'
  BY <1>1 DEF Execute
<1>2. ASSUME NEW c \in Callers, Admit(c) PROVE InFlightIsOlder'
  BY <1>2 DEF Admit, LetThrough
<1>3. ASSUME NEW c \in Callers, Probe(c) PROVE InFlightIsOlder'
  BY <1>3 DEF Probe, LetThrough
<1>4. ASSUME NEW c \in Callers, Reject(c) PROVE InFlightIsOlder'
  BY <1>4 DEF Reject, Failover
<1>5. ASSUME NEW c \in Callers, Succeed(c) PROVE InFlightIsOlder'
  BY <1>5 DEF Succeed, RecordSuccess
<1>6. ASSUME NEW c \in Callers, Fail(c) PROVE InFlightIsOlder'
  <2>1. \A d \in Callers : pc'[d] = "calling" => pc[d] = "calling" /\ at'[d] = at[d]
    BY <1>6 DEF Fail, Failover
  <2>2. \A d \in Callers : straggler[d] => straggler'[d]
    BY <1>6 DEF Fail, RecordFailure
  <2>3. ASSUME NEW d \in Callers, pc'[d] = "calling", at'[d] \in Guarded,
               state'[at'[d]] = "OPEN"
        PROVE  straggler'[d]
    <3>1. pc[d] = "calling" /\ at[d] = at'[d] /\ at[d] \in Candidates
      BY <2>1, <2>3
    <3>2. CASE state[at[d]] = "OPEN"
      BY <2>2, <2>3, <3>1, <3>2
    <3>3. CASE state[at[d]] # "OPEN"
      <4>1. at[d] = at[c] /\ at[c] \in Guarded /\ Opens(at[c])
        BY <1>6, <2>3, <3>1, <3>3 DEF Fail, RecordFailure
      <4>2. straggler' = [e \in Callers |->
              straggler[e] \/ (Opens(at[c]) /\ pc[e] = "calling" /\ at[e] = at[c])]
        BY <1>6, <4>1 DEF Fail, RecordFailure
      <4> QED
        BY <3>1, <4>1, <4>2
    <3> QED
      BY <3>2, <3>3
  <2> QED
    BY <2>3
<1>7. ASSUME NEW p \in Candidates, RecoveryTimeout(p) \/ Break(p) \/ Heal(p)
      PROVE  InFlightIsOlder'
  BY <1>7 DEF RecoveryTimeout, Break, Heal
<1>8. CASE UNCHANGED vars
  BY <1>8 DEF vars
<1> QED
  BY <1>1, <1>2, <1>3, <1>4, <1>5, <1>6, <1>7, <1>8 DEF Next, Step

LEMMA RecloseStep ==
  TypeOK /\ InFlightIsOlder /\ [Next]_vars =>
    [\A p \in Candidates :
       state[p] = "OPEN" /\ state'[p] = "CLOSED" =>
         \E c \in Callers : at[c] = p /\ pc[c] = "calling" /\ straggler[c]]_vars
<1> SUFFICES ASSUME TypeOK, InFlightIsOlder, [Next]_vars, NEW p \in Candidates,
                    state[p] = "OPEN", state'[p] = "CLOSED"
             PROVE  \E c \in Callers : at[c] = p /\ pc[c] = "calling" /\ straggler[c]
  OBVIOUS
<1> USE DEF TypeOK, breakerVars, callerVars
<1>1. PICK c \in Callers : Step(c)
  BY DEF Next, vars, RecoveryTimeout, Break, Heal
<1>2. Succeed(c)
  BY <1>1 DEF Step, Execute, Admit, Probe, Reject, Fail, RecordFailure
<1>3. at[c] = p /\ pc[c] = "calling" /\ at[c] \in Guarded
  BY <1>2 DEF Succeed, RecordSuccess
<1> QED
  BY <1>3 DEF InFlightIsOlder

\* An OPEN breaker closes without a probe only by a call it let through before.
THEOREM ChainReclose == Spec => OnlyStragglersReclose
<1>1. Init => InFlightIsOlder
  BY DEF Init, InFlightIsOlder
<1>2. TypeOK /\ InFlightIsOlder /\ [Next]_vars =>
        [\A p \in Candidates :
           state[p] = "OPEN" /\ state'[p] = "CLOSED" =>
             \E c \in Callers : at[c] = p /\ pc[c] = "calling" /\ straggler[c]]_vars
  BY RecloseStep
<1> QED
  BY <1>1, <1>2, InitType, StepType, OlderStep, PTL DEF Spec, OnlyStragglersReclose
=============================================================================
