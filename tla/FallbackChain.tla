---------------------------- MODULE FallbackChain ----------------------------
(***************************************************************************)
(* FallbackChain.execute (voicebridge/routing/fallback_chain.py) over      *)
(* providers that a CircuitBreaker (voicebridge/resilience/                *)
(* circuit_breaker.py) protects, called from several threads.              *)
(*                                                                         *)
(* A breaker holds its lock to decide whether a call may go on and to      *)
(* record how it went, but not while the provider works: each is a step,   *)
(* and other threads come in between.                                      *)
(***************************************************************************)
EXTENDS Naturals

CONSTANTS
  Callers,     \* threads that execute the chain
  Length,      \* number of candidates; candidate 1 is tried first
  Guarded,     \* candidates that have a breaker
  Reliable,    \* candidates that never fail where they are installed: a local model
  Threshold,   \* failure_threshold
  FailureCap   \* failures are not told apart above this bound

ASSUME ChainAssumption ==
  /\ Length \in Nat \ {0}
  /\ Guarded \subseteq 1 .. Length /\ Reliable \subseteq 1 .. Length
  /\ Threshold \in Nat \ {0} /\ FailureCap \in Nat /\ FailureCap >= Threshold

Candidates == 1 .. Length
States == {"CLOSED", "OPEN", "HALF_OPEN"}

VARIABLES
  state,      \* state of a candidate's breaker
  failures,   \* its failure_count
  expired,    \* now - last_failure_time >= recovery_timeout_sec
  reliable,   \* the Reliable candidates that are installed: chosen at the start
  healthy,    \* the candidate would answer a call now
  pc, at,     \* a caller's step, and the candidate it is at
  answer,     \* what its latest execute came to: "none", "result", "error"
  straggler   \* history: the breaker has opened since the call was let through

breakerVars == <<state, failures, expired>>
callerVars  == <<pc, at, answer, straggler>>
vars == <<breakerVars, reliable, healthy, callerVars>>

Init ==
  /\ state = [p \in Candidates |-> "CLOSED"]
  /\ failures = [p \in Candidates |-> 0]
  /\ expired = [p \in Candidates |-> TRUE]
  /\ reliable \in SUBSET Reliable
  /\ healthy = [p \in Candidates |-> TRUE]
  /\ pc = [c \in Callers |-> "idle"] /\ at = [c \in Callers |-> 1]
  /\ answer = [c \in Callers |-> "none"]
  /\ straggler = [c \in Callers |-> FALSE]

-----------------------------------------------------------------------------
(* CircuitBreaker.call, its first lock: let the call through or reject it.  *)

Execute(c) ==
  /\ pc[c] = "idle"
  /\ pc' = [pc EXCEPT ![c] = "try"]
  /\ at' = [at EXCEPT ![c] = 1]
  /\ answer' = [answer EXCEPT ![c] = "none"]
  /\ UNCHANGED <<breakerVars, reliable, healthy, straggler>>

LetThrough(c) ==
  /\ pc' = [pc EXCEPT ![c] = "calling"]
  /\ straggler' = [straggler EXCEPT ![c] = FALSE]
  /\ UNCHANGED <<at, answer>>

\* CLOSED lets everyone through, and so does HALF_OPEN; so does a candidate
\* that has no breaker.
Admit(c) ==
  /\ pc[c] = "try" /\ (at[c] \notin Guarded \/ state[at[c]] # "OPEN")
  /\ LetThrough(c)
  /\ UNCHANGED <<breakerVars, reliable, healthy>>

\* Faulty variant of Probe: an open breaker lets no one through again.
ProbeNever(c) ==
  /\ pc[c] = "try" /\ at[c] \in Guarded /\ state[at[c]] = "OPEN" /\ expired[at[c]]
  /\ failures[at[c]] < Threshold
  /\ state' = [state EXCEPT ![at[c]] = "HALF_OPEN"]
  /\ LetThrough(c)
  /\ UNCHANGED <<failures, expired, reliable, healthy>>

\* Faulty variant of Probe: the breaker closes before the provider has answered.
ProbeAsClosed(c) ==
  /\ pc[c] = "try" /\ at[c] \in Guarded /\ state[at[c]] = "OPEN" /\ expired[at[c]]
  /\ state' = [state EXCEPT ![at[c]] = "CLOSED"]
  /\ failures' = [failures EXCEPT ![at[c]] = 0]
  /\ LetThrough(c)
  /\ UNCHANGED <<expired, reliable, healthy>>

Probe(c) ==
  /\ pc[c] = "try" /\ at[c] \in Guarded /\ state[at[c]] = "OPEN" /\ expired[at[c]]
  /\ state' = [state EXCEPT ![at[c]] = "HALF_OPEN"]
  /\ LetThrough(c)
  /\ UNCHANGED <<failures, expired, reliable, healthy>>

\* Faulty variant of Failover: one candidate too many.
FailoverBeyond(c) ==
  IF at[c] > Length
  THEN /\ pc' = [pc EXCEPT ![c] = "idle"]
       /\ answer' = [answer EXCEPT ![c] = "error"]
       /\ UNCHANGED at
  ELSE /\ pc' = [pc EXCEPT ![c] = "try"]
       /\ at' = [at EXCEPT ![c] = @ + 1]
       /\ UNCHANGED answer

\* The chain goes on with the next candidate, or gives up after the last.
Failover(c) ==
  IF at[c] = Length
  THEN /\ pc' = [pc EXCEPT ![c] = "idle"]
       /\ answer' = [answer EXCEPT ![c] = "error"]
       /\ UNCHANGED at
  ELSE /\ pc' = [pc EXCEPT ![c] = "try"]
       /\ at' = [at EXCEPT ![c] = @ + 1]
       /\ UNCHANGED answer

\* Faulty variant of Reject: the rejection ends the chain.
RejectAndGiveUp(c) ==
  /\ pc[c] = "try" /\ at[c] \in Guarded /\ state[at[c]] = "OPEN" /\ ~expired[at[c]]
  /\ pc' = [pc EXCEPT ![c] = "idle"]
  /\ answer' = [answer EXCEPT ![c] = "error"]
  /\ UNCHANGED <<at, breakerVars, reliable, healthy, straggler>>

Reject(c) ==
  /\ pc[c] = "try" /\ at[c] \in Guarded /\ state[at[c]] = "OPEN" /\ ~expired[at[c]]
  /\ Failover(c)
  /\ UNCHANGED <<breakerVars, reliable, healthy, straggler>>

-----------------------------------------------------------------------------
(* The provider answers or fails, and the breaker records it.               *)

\* Faulty variant of RecordSuccess: the count of failures is kept.
RecordSuccessUncounted(p) ==
  IF p \in Guarded /\ (state[p] = "HALF_OPEN" \/ failures[p] > 0)
  THEN state' = [state EXCEPT ![p] = "CLOSED"] /\ UNCHANGED failures
  ELSE UNCHANGED <<state, failures>>

RecordSuccess(p) ==
  IF p \in Guarded /\ (state[p] = "HALF_OPEN" \/ failures[p] > 0)
  THEN state' = [state EXCEPT ![p] = "CLOSED"] /\ failures' = [failures EXCEPT ![p] = 0]
  ELSE UNCHANGED <<state, failures>>

Succeed(c) ==
  /\ pc[c] = "calling" /\ healthy[at[c]]
  /\ RecordSuccess(at[c])
  /\ pc' = [pc EXCEPT ![c] = "idle"]
  /\ answer' = [answer EXCEPT ![c] = "result"]
  /\ UNCHANGED <<expired, reliable, healthy, at, straggler>>

Count(p) == IF failures[p] < FailureCap THEN failures[p] + 1 ELSE FailureCap

Opens(p) == (state[p] = "CLOSED" /\ Count(p) >= Threshold) \/ state[p] = "HALF_OPEN"

\* Faulty variant of RecordFailure: HALF_OPEN stays HALF_OPEN, CLOSED opens late.
RecordFailureLate(p) ==
  IF p \in Guarded
  THEN /\ failures' = [failures EXCEPT ![p] = Count(p)]
       /\ expired' = [expired EXCEPT ![p] = FALSE]
       /\ state' = [state EXCEPT ![p] = IF failures[p] > Threshold THEN "OPEN" ELSE @]
       /\ UNCHANGED straggler
  ELSE UNCHANGED <<breakerVars, straggler>>

\* Also a call that was let through before the breaker opened counts, and puts
\* off the recovery.
RecordFailure(p) ==
  IF p \in Guarded
  THEN /\ failures' = [failures EXCEPT ![p] = Count(p)]
       /\ expired' = [expired EXCEPT ![p] = FALSE]
       /\ state' = [state EXCEPT ![p] = IF Opens(p) THEN "OPEN" ELSE @]
       /\ straggler' = [d \in Callers |->
            straggler[d] \/ (Opens(p) /\ pc[d] = "calling" /\ at[d] = p)]
  ELSE UNCHANGED <<breakerVars, straggler>>

Fail(c) ==
  /\ pc[c] = "calling" /\ ~healthy[at[c]]
  /\ RecordFailure(at[c])
  /\ Failover(c)
  /\ UNCHANGED <<reliable, healthy>>

-----------------------------------------------------------------------------
(* The world: the recovery timeout passes, providers break and heal.        *)

RecoveryTimeout(p) ==
  /\ ~expired[p]
  /\ expired' = [expired EXCEPT ![p] = TRUE]
  /\ UNCHANGED <<state, failures, reliable, healthy, callerVars>>

Break(p) ==
  /\ healthy[p] /\ p \notin reliable
  /\ healthy' = [healthy EXCEPT ![p] = FALSE]
  /\ UNCHANGED <<breakerVars, reliable, callerVars>>

Heal(p) ==
  /\ ~healthy[p]
  /\ healthy' = [healthy EXCEPT ![p] = TRUE]
  /\ UNCHANGED <<breakerVars, reliable, callerVars>>

Step(c) == Execute(c) \/ Admit(c) \/ Probe(c) \/ Reject(c) \/ Succeed(c) \/ Fail(c)

Next ==
  \/ \E c \in Callers : Step(c)
  \/ \E p \in Candidates : RecoveryTimeout(p) \/ Break(p) \/ Heal(p)

\* Callers keep calling and providers answer one way or the other; the timeout
\* passes.  No provider need ever heal.
Fairness ==
  /\ \A c \in Callers : WF_vars(Step(c))
  /\ \A p \in Candidates : WF_vars(RecoveryTimeout(p))

Spec == Init /\ [][Next]_vars /\ Fairness

-----------------------------------------------------------------------------
(* Properties.                                                             *)

\* Type correctness of the breakers and the callers.
TypeOK ==
  /\ state \in [Candidates -> States]
  /\ failures \in [Candidates -> 0 .. FailureCap]
  /\ reliable \subseteq Reliable
  /\ expired \in [Candidates -> BOOLEAN] /\ healthy \in [Candidates -> BOOLEAN]
  /\ pc \in [Callers -> {"idle", "try", "calling"}]
  /\ at \in [Callers -> Candidates]
  /\ answer \in [Callers -> {"none", "result", "error"}]
  /\ straggler \in [Callers -> BOOLEAN]

\* A breaker is CLOSED exactly when fewer failures than the threshold have been
\* recorded since the last success, whatever order the answers of concurrent
\* calls come in (record_success, record_failure).
ClosedBelowThreshold ==
  \A p \in Candidates : (state[p] = "CLOSED") <=> (failures[p] < Threshold)

\* An OPEN breaker closes without a probe only by a call it had let through
\* before it opened.
OnlyStragglersReclose ==
  [][\A p \in Candidates :
       state[p] = "OPEN" /\ state'[p] = "CLOSED" =>
         \E c \in Callers : at[c] = p /\ pc[c] = "calling" /\ straggler[c]]_vars

\* "to guarantee continuous availability" (docs/architecture.md:114): with a
\* candidate that never fails in the chain, no execute ever fails, whatever
\* the breakers of the others do and whoever else calls.
ReliableCandidateServes ==
  reliable # {} => \A c \in Callers : answer[c] # "error"

\* When the first candidate is well again for good, so is its breaker.
FirstCandidateComesBack ==
  (<>[](healthy[1])) => (<>[](state[1] = "CLOSED"))
=============================================================================
