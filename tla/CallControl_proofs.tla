-------------------------- MODULE CallControl_proofs --------------------------
(***************************************************************************)
(* The server knows the running call, for any number of stop requests and  *)
(* calls, as long as no start is accepted while a stop is in progress.     *)
(***************************************************************************)
EXTENDS CallControl, TLAPS

\* The call being started is the newest, and runs.
Started ==
  /\ starting # None => starting = calls /\ running[starting]
  /\ \A c \in Calls : running[c] => c <= calls

\* A stopper in progress has a call, not one that is still being started; it is past "enter" only because the call
\* ran, and past "join" only when it does not run any more.
Targeted ==
  \A r \in Stoppers :
    /\ InProgress(r) => target[r] \in 1 .. calls
    /\ LoopFree \/ target[r] # starting
    /\ pc[r] \in {"emit", "resume"} => ~running[target[r]]

\* Without a race, only one call runs, the one being started if there is one;
\* and whoever stops a call stops the one the server knows, unless another
\* stopper has already made the server forget it.
Unraced ==
  ~raced =>
    /\ \A c \in Calls : running[c] => c = IF LoopFree THEN orchestrator ELSE starting
    /\ \A r \in Stoppers :
         InProgress(r) => LoopFree /\ (orchestrator = target[r] \/ orchestrator = None)

Safe == TypeOK /\ Started /\ Targeted /\ Unraced

LEMMA InitSafe == Init => Safe
<1> SUFFICES ASSUME Init PROVE Safe
  OBVIOUS
<1>1. MaxCalls \in Nat
  BY ControlAssumption
<1>2. TypeOK
  <2>1. /\ calls \in 0 .. MaxCalls /\ orchestrator \in 0 .. calls /\ starting \in 0 .. calls
        /\ next \in 1 .. 3
    BY <1>1 DEF Init, None
  <2>2. /\ directions \in [Calls -> {1, 2}] /\ running \in [Calls -> BOOLEAN]
        /\ stopped \in [Calls -> BOOLEAN] /\ alive \in [Calls -> SUBSET {1, 2}]
    BY DEF Init
  <2>3. target \in [Stoppers -> 0 .. calls] /\ joining \in [Stoppers -> 1 .. 3]
    BY DEF Init, None
  <2> QED
    BY <2>1, <2>2, <2>3 DEF Init, TypeOK
<1>3. Started /\ Targeted /\ Unraced
  BY DEF Init, Started, Targeted, Unraced, InProgress, LoopFree, None
<1> QED
  BY <1>2, <1>3 DEF Safe

LEMMA StepType == TypeOK /\ Started /\ Targeted /\ [Next]_vars => TypeOK'
<1> SUFFICES ASSUME TypeOK, Started, Targeted, [Next]_vars PROVE TypeOK'
  OBVIOUS
<1> USE ControlAssumption DEF TypeOK, Calls, None, LoopFree, stopVars, At, Goto
<1>1. ASSUME NEW ways \in {1, 2}, Start(ways)
      PROVE  TypeOK'
  BY <1>1 DEF Start, Launch
<1>2. CASE StartWorker
  <2>1. starting \in Calls /\ next <= directions[starting]
    BY <1>2 DEF StartWorker
  <2>2. directions[starting] \in {1, 2} /\ next \in 1 .. 3
    BY <2>1
  <2>3. next \in {1, 2}
    BY <2>1, <2>2
  <2> QED
    BY <1>2, <2>3 DEF StartWorker
<1>3. CASE StartDone
  BY <1>3 DEF StartDone
<1>4. ASSUME NEW r \in Requests, StopRequest(r)
      PROVE  TypeOK'
  BY <1>4 DEF StopRequest, Stoppers
<1>5. ASSUME NEW r \in Requests, StopResume(r)
      PROVE  TypeOK'
  BY <1>5 DEF StopResume, Stoppers
<1>6. ASSUME NEW r \in Stoppers, StopThread(r)
      PROVE  TypeOK'
  <2>1. CASE StopEnter(r)
    <3>1. pc' = [pc EXCEPT ![r] = "set"] \/ pc' = [pc EXCEPT ![r] = "resume"]
      BY <2>1 DEF StopEnter
    <3>2. pc' \in [Stoppers -> {"idle", "enter", "set", "join", "emit", "resume", "done"}]
      BY <3>1
    <3>3. UNCHANGED <<orchestrator, calls, directions, running, stopped, alive,
                      starting, next, target, joining, serving, status, raced>>
      BY <2>1 DEF StopEnter
    <3> QED
      BY <3>2, <3>3
  <2>2. CASE StopSet(r)
    <3>1. stopped' \in [Calls -> BOOLEAN]
      BY <2>2 DEF StopSet
    <3>2. pc' \in [Stoppers -> {"idle", "enter", "set", "join", "emit", "resume", "done"}]
      BY <2>2 DEF StopSet
    <3>3. joining' \in [Stoppers -> 1 .. 3]
      BY <2>2 DEF StopSet
    <3>4. UNCHANGED <<orchestrator, calls, directions, running, alive, starting, next,
                      target, serving, status, raced>>
      BY <2>2 DEF StopSet
    <3> QED
      BY <3>1, <3>2, <3>3, <3>4
  <2>3. ASSUME Joins(r), NextJoin(r)
        PROVE  TypeOK'
    <3>0. InProgress(r)
      BY <2>3 DEF Joins, InProgress
    <3>1. target[r] \in Calls
      BY <3>0 DEF Targeted
    <3>2. directions[target[r]] \in {1, 2} /\ joining[r] \in 1 .. 3
      BY <3>1
    <3>3. joining[r] \in {1, 2}
      BY <2>3, <3>2 DEF Joins
    <3> QED
      BY <2>3, <3>3 DEF NextJoin
  <2>4. CASE StopFlag(r)
    BY <2>4 DEF StopFlag
  <2>5. CASE StopEmit(r)
    BY <2>5 DEF StopEmit
  <2> HIDE DEF TypeOK
  <2> QED
    BY <1>6, <2>1, <2>2, <2>3, <2>4, <2>5 DEF StopThread, StopJoin, JoinTimeout
<1>7. CASE Shutdown
  <2>1. Lifespan \in Stoppers
    BY DEF Stoppers
  <2>2. \/ pc' = [pc EXCEPT ![Lifespan] = "enter"]
        \/ pc' = [pc EXCEPT ![Lifespan] = "done"]
    BY <1>7 DEF Shutdown
  <2>3. target' = target \/ target' = [target EXCEPT ![Lifespan] = orchestrator]
    BY <1>7 DEF Shutdown
  <2>4. pc' \in [Stoppers -> {"idle", "enter", "set", "join", "emit", "resume", "done"}]
    BY <2>1, <2>2
  <2>5. target' \in [Stoppers -> 0 .. calls]
    BY <2>1, <2>3
  <2>6. serving' = FALSE /\ UNCHANGED <<orchestrator, calls, directions, running, stopped, alive,
                                       starting, next, joining, status, raced>>
    BY <1>7 DEF Shutdown
  <2> QED
    BY <2>4, <2>5, <2>6
<1>8. CASE ShutdownDone
  BY <1>8 DEF ShutdownDone, Stoppers
<1>9. ASSUME NEW c \in Calls, NEW w \in alive[c], WorkerEnds(c, w)
      PROVE  TypeOK'
  BY <1>9 DEF WorkerEnds
<1>10. CASE UNCHANGED vars
  BY <1>10 DEF vars
<1> QED
  BY <1>1, <1>2, <1>3, <1>4, <1>5, <1>6, <1>7, <1>8, <1>9, <1>10 DEF Next, Down

LEMMA StepSafe == Safe /\ [Next]_vars => Safe'
<1> SUFFICES ASSUME Safe, [Next]_vars PROVE Safe'
  OBVIOUS
<1>0. TypeOK'
  BY StepType DEF Safe
<1> USE ControlAssumption DEF Safe, TypeOK, Calls, None, LoopFree, InProgress, stopVars, At, Goto
<1>1. ASSUME NEW ways \in {1, 2}, Start(ways)
      PROVE  Safe'
  <2>1. /\ calls' = calls + 1 /\ starting' = calls' /\ calls' \in Calls /\ starting = None
        /\ running' = [running EXCEPT ![calls'] = TRUE]
        /\ raced' = (raced \/ \E r \in Stoppers : InProgress(r))
        /\ UNCHANGED <<pc, target, orchestrator>>
        /\ orchestrator # None => ~running[orchestrator]
    BY <1>1 DEF Start, Launch, Registered
  <2>2. Started'
    BY <2>1 DEF Started
  <2>3. Targeted'
    BY <2>1 DEF Targeted
  <2>4. Unraced'
    <3> SUFFICES ASSUME ~raced' PROVE Unraced'
      BY DEF Unraced
    <3>1. ~raced /\ \A r \in Stoppers : ~InProgress(r)
      BY <2>1
    <3>2. \A c \in Calls : ~running[c]
      BY <2>1, <3>1 DEF Unraced
    <3>3. \A c \in Calls : running'[c] => c = calls'
      BY <2>1, <3>2
    <3> QED
      BY <2>1, <3>1, <3>3 DEF Unraced
  <2> QED
    BY <1>0, <2>2, <2>3, <2>4
<1>2. CASE StartWorker
  <2>1. UNCHANGED <<orchestrator, calls, running, starting, pc, target, raced>>
    BY <1>2 DEF StartWorker
  <2> QED
    BY <1>0, <2>1 DEF Started, Targeted, Unraced
<1>3. CASE StartDone
  <2>1. /\ starting # None /\ orchestrator' = starting /\ starting' = None
        /\ UNCHANGED <<calls, running, pc, target, raced>>
    BY <1>3 DEF StartDone
  <2>2. Started' /\ Targeted'
    BY <2>1 DEF Started, Targeted
  <2>3. Unraced'
    <3> SUFFICES ASSUME ~raced PROVE Unraced'
      BY <2>1 DEF Unraced
    <3>1. \A r \in Stoppers : ~InProgress(r)
      BY <2>1 DEF Unraced
    <3>2. \A c \in Calls : running[c] => c = starting
      BY <2>1 DEF Unraced
    <3> QED
      BY <2>1, <3>1, <3>2 DEF Unraced
  <2> QED
    BY <1>0, <2>2, <2>3
<1>4. ASSUME NEW r \in Requests, StopRequest(r)
      PROVE  Safe'
  <2>1. /\ r \in Stoppers /\ LoopFree /\ pc[r] = "idle"
        /\ orchestrator \in 1 .. calls /\ running[orchestrator]
        /\ pc' = [pc EXCEPT ![r] = "enter"]
        /\ target' = [target EXCEPT ![r] = orchestrator]
        /\ UNCHANGED <<orchestrator, calls, running, starting, raced>>
    BY <1>4 DEF StopRequest, Registered, Stoppers
  <2>2. Started'
    BY <2>1 DEF Started
  <2>3. Targeted'
    BY <2>1 DEF Targeted
  <2>4. Unraced'
    BY <2>1 DEF Unraced
  <2> QED
    BY <1>0, <2>2, <2>3, <2>4
<1>5. ASSUME NEW r \in Requests, StopResume(r)
      PROVE  Safe'
  <2>1. /\ r \in Stoppers /\ LoopFree /\ pc[r] = "resume"
        /\ target[r] \in 1 .. calls /\ ~running[target[r]]
        /\ pc' = [pc EXCEPT ![r] = "idle"]
        /\ target' = [target EXCEPT ![r] = None]
        /\ orchestrator' = None
        /\ UNCHANGED <<calls, running, starting, raced>>
    BY <1>5 DEF StopResume, Targeted, Stoppers
  <2>2. Started'
    BY <2>1 DEF Started
  <2>3. Targeted'
    BY <2>1 DEF Targeted
  <2>4. Unraced'
    <3> SUFFICES ASSUME ~raced PROVE Unraced'
      BY <2>1 DEF Unraced
    <3>1. \A c \in Calls : running[c] => c = orchestrator
      BY <2>1 DEF Unraced
    <3>2. orchestrator = target[r] \/ orchestrator = None
      BY <2>1 DEF Unraced
    <3>3. \A c \in Calls : ~running[c]
      BY <2>1, <3>1, <3>2
    <3> QED
      BY <2>1, <3>3 DEF Unraced
  <2> QED
    BY <1>0, <2>2, <2>3, <2>4
<1>6. ASSUME NEW r \in Stoppers, StopThread(r)
      PROVE  Safe'
  <2>1. CASE StopEnter(r)
    <3>1. /\ pc[r] = "enter" /\ target[r] \in 1 .. calls
          /\ pc' = [pc EXCEPT ![r] = IF running[target[r]] THEN "set" ELSE "resume"]
          /\ UNCHANGED <<orchestrator, calls, running, starting, target, raced>>
      BY <2>1 DEF StopEnter, Targeted
    <3> QED
      BY <1>0, <3>1 DEF Started, Targeted, Unraced
  <2>2. CASE StopSet(r)
    <3>1. /\ pc[r] = "set" /\ pc' = [pc EXCEPT ![r] = "join"]
          /\ UNCHANGED <<orchestrator, calls, running, starting, target, raced>>
      BY <2>2 DEF StopSet
    <3> QED
      BY <1>0, <3>1 DEF Started, Targeted, Unraced
  <2>3. ASSUME NextJoin(r)
        PROVE  Safe'
    <3>1. UNCHANGED <<orchestrator, calls, running, starting, pc, target, raced>>
      BY <2>3 DEF NextJoin
    <3> QED
      BY <1>0, <3>1 DEF Started, Targeted, Unraced
  <2>4. CASE StopFlag(r)
    <3>0. pc[r] = "join" /\ InProgress(r)
      BY <2>4 DEF StopFlag
    <3>1. target[r] \in Calls
      <4>1. target[r] \in 1 .. calls
        BY <3>0 DEF Targeted
      <4> QED
        BY <4>1
    <3>2. /\ pc' = [pc EXCEPT ![r] = "emit"]
          /\ running' = [running EXCEPT ![target[r]] = FALSE]
          /\ UNCHANGED <<orchestrator, calls, starting, target, raced>>
      BY <2>4 DEF StopFlag
    <3>3. Started'
      <4>1. starting # None => starting # target[r]
        BY DEF Targeted
      <4> QED
        BY <3>1, <3>2, <4>1 DEF Started
    <3>4. Targeted'
      BY <3>0, <3>1, <3>2 DEF Targeted
    <3>5. Unraced'
      BY <3>0, <3>1, <3>2 DEF Unraced
    <3> QED
      BY <1>0, <3>3, <3>4, <3>5
  <2>5. CASE StopEmit(r)
    <3>1. /\ pc[r] = "emit" /\ pc' = [pc EXCEPT ![r] = "resume"]
          /\ UNCHANGED <<orchestrator, calls, running, starting, target, raced>>
      BY <2>5 DEF StopEmit
    <3> QED
      BY <1>0, <3>1 DEF Started, Targeted, Unraced
  <2> QED
    BY <1>6, <2>1, <2>2, <2>3, <2>4, <2>5 DEF StopThread, StopJoin, JoinTimeout
<1>7. CASE Shutdown
  <2>1. /\ LoopFree /\ Lifespan \in Stoppers /\ pc[Lifespan] = "idle"
        /\ UNCHANGED <<orchestrator, calls, running, starting, raced>>
    BY <1>7 DEF Shutdown, Stoppers
  <2>2. \/ /\ orchestrator \in 1 .. calls /\ running[orchestrator]
           /\ target' = [target EXCEPT ![Lifespan] = orchestrator]
           /\ pc' = [pc EXCEPT ![Lifespan] = "enter"]
        \/ target' = target /\ pc' = [pc EXCEPT ![Lifespan] = "done"]
    BY <1>7 DEF Shutdown, Registered
  <2>3. Started'
    BY <2>1 DEF Started
  <2>4. Targeted'
    BY <2>1, <2>2 DEF Targeted
  <2>5. Unraced'
    BY <2>1, <2>2 DEF Unraced
  <2> QED
    BY <1>0, <2>3, <2>4, <2>5
<1>8. CASE ShutdownDone
  <2>1. /\ pc[Lifespan] = "resume" /\ pc' = [pc EXCEPT ![Lifespan] = "done"]
        /\ UNCHANGED <<orchestrator, calls, running, starting, target, raced>>
    BY <1>8 DEF ShutdownDone
  <2> QED
    BY <1>0, <2>1 DEF Started, Targeted, Unraced
<1>9. ASSUME NEW c \in Calls, NEW w \in alive[c], WorkerEnds(c, w)
      PROVE  Safe'
  <2>1. UNCHANGED <<orchestrator, calls, running, starting, pc, target, raced>>
    BY <1>9 DEF WorkerEnds
  <2> QED
    BY <1>0, <2>1 DEF Started, Targeted, Unraced
<1>10. CASE UNCHANGED vars
  <2>1. UNCHANGED <<orchestrator, calls, running, starting, pc, target, raced>>
    BY <1>10 DEF vars
  <2> QED
    BY <1>0, <2>1 DEF Started, Targeted, Unraced
<1> QED
  BY <1>1, <1>2, <1>3, <1>4, <1>5, <1>6, <1>7, <1>8, <1>9, <1>10 DEF Next, Down

\* The control state keeps its type.
THEOREM ControlTypes == Spec => []TypeOK
<1>1. Safe => TypeOK
  BY DEF Safe
<1> QED
  BY InitSafe, StepSafe, <1>1, PTL DEF Spec

\* However many stops overlap, no running call is unknown to the server, as
\* long as no start is accepted while one of them is in progress.
THEOREM ControlKnowsItsCall == Spec => []OneCallUnlessRaced
<1>1. Safe => OneCallUnlessRaced
  BY DEF Safe, Unraced, OneCallUnlessRaced
<1> QED
  BY InitSafe, StepSafe, <1>1, PTL DEF Spec

-----------------------------------------------------------------------------
(* A stopper joins, and clears the flag, only after it has set the event.    *)

Told ==
  /\ WorkersWereTold
  /\ \A r \in Stoppers : pc[r] = "join" => stopped[target[r]]

LEMMA StepTold == Safe /\ Told /\ [Next]_vars => Told'
<1> SUFFICES ASSUME Safe, Told, [Next]_vars PROVE Told'
  OBVIOUS
<1> USE ControlAssumption
        DEF Safe, TypeOK, Told, WorkersWereTold, Calls, None, LoopFree, stopVars, At, Goto, Stoppers
<1>0. \A r \in Stoppers : pc[r] = "join" => target[r] \in 1 .. calls
  BY DEF Targeted, InProgress
<1>1. ASSUME NEW ways \in {1, 2}, Start(ways)
      PROVE  Told'
  <2>1. /\ calls' = calls + 1 /\ calls' \in Calls /\ UNCHANGED <<pc, target>>
        /\ running' = [running EXCEPT ![calls'] = TRUE]
        /\ stopped' = [stopped EXCEPT ![calls'] = FALSE]
    BY <1>1 DEF Start, Launch
  <2>2. \A c \in 1 .. calls : c # calls' /\ c \in Calls /\ c \in 1 .. calls'
    BY <2>1
  <2>3. running'[calls'] /\ \A c \in 1 .. calls' : c \in 1 .. calls \/ c = calls'
    BY <2>1
  <2>4. \A c \in 1 .. calls : running'[c] = running[c] /\ stopped'[c] = stopped[c]
    BY <2>1, <2>2
  <2>5. WorkersWereTold'
    BY <2>3, <2>4
  <2>6. ASSUME NEW s \in Stoppers, pc'[s] = "join" PROVE stopped'[target'[s]]
    BY <1>0, <2>1, <2>4, <2>6
  <2> QED
    BY <2>5, <2>6
<1>2. CASE StartWorker \/ StartDone
  BY <1>2 DEF StartWorker, StartDone
<1>3. ASSUME NEW r \in Requests, StopRequest(r) \/ StopResume(r)
      PROVE  Told'
  BY <1>3 DEF StopRequest, StopResume
<1>4. ASSUME NEW r \in Stoppers, StopThread(r)
      PROVE  Told'
  <2>1. CASE StopEnter(r) \/ StopEmit(r)
    BY <2>1 DEF StopEnter, StopEmit
  <2>2. CASE StopSet(r)
    <3>1. pc[r] = "set" /\ target[r] \in Calls
      BY <2>2 DEF StopSet, Targeted, InProgress
    <3>2. /\ stopped' = [stopped EXCEPT ![target[r]] = TRUE] /\ pc' = [pc EXCEPT ![r] = "join"]
          /\ UNCHANGED <<calls, running, target>>
      BY <2>2 DEF StopSet
    <3>3. stopped'[target[r]] /\ \A c \in Calls : stopped[c] => stopped'[c]
      BY <3>1, <3>2
    <3>4. WorkersWereTold'
      BY <3>2, <3>3
    <3>5. ASSUME NEW s \in Stoppers, pc'[s] = "join" PROVE stopped'[target'[s]]
      BY <1>0, <3>2, <3>3, <3>5
    <3> QED
      BY <3>4, <3>5
  <2>3. CASE NextJoin(r)
    BY <2>3 DEF NextJoin
  <2>4. CASE StopFlag(r)
    <3>1. pc[r] = "join" /\ stopped[target[r]] /\ target[r] \in Calls
      BY <1>0, <2>4 DEF StopFlag
    <3>2. /\ running' = [running EXCEPT ![target[r]] = FALSE] /\ pc' = [pc EXCEPT ![r] = "emit"]
          /\ UNCHANGED <<calls, stopped, target>>
      BY <2>4 DEF StopFlag
    <3>3. \A c \in Calls : c # target[r] => running'[c] = running[c]
      BY <3>1, <3>2
    <3>4. WorkersWereTold'
      BY <3>1, <3>2, <3>3
    <3>5. \A s \in Stoppers : pc'[s] = "join" => pc[s] = "join"
      BY <3>2
    <3> QED
      BY <3>2, <3>4, <3>5
  <2> QED
    BY <1>4, <2>1, <2>2, <2>3, <2>4 DEF StopThread, StopJoin, JoinTimeout
<1>5. CASE Shutdown
  <2>1. \A s \in Stoppers : pc'[s] # "join"
    BY <1>5 DEF Shutdown
  <2> QED
    BY <1>5, <2>1 DEF Shutdown
<1>6. CASE ShutdownDone
  <2>1. \A s \in Stoppers : pc'[s] = "join" => pc[s] = "join"
    BY <1>6 DEF ShutdownDone
  <2> QED
    BY <1>6, <2>1 DEF ShutdownDone
<1>7. ASSUME NEW c \in Calls, NEW w \in alive[c], WorkerEnds(c, w)
      PROVE  Told'
  BY <1>7 DEF WorkerEnds
<1>8. CASE UNCHANGED vars
  BY <1>8 DEF vars
<1> QED
  BY <1>1, <1>2, <1>3, <1>4, <1>5, <1>6, <1>7, <1>8 DEF Next, Down

\* However stops overlap, and whatever starts come between, no call is declared
\* ended whose workers were not told to stop.
THEOREM ControlTellsWorkers == Spec => []WorkersWereTold
<1>1. Init => Safe /\ Told
  BY InitSafe DEF Init, Told, WorkersWereTold
<1>2. Safe /\ Told /\ [Next]_vars => (Safe /\ Told)'
  BY StepSafe, StepTold
<1>3. Told => WorkersWereTold
  BY DEF Told
<1> QED
  BY <1>1, <1>2, <1>3, PTL DEF Spec

-----------------------------------------------------------------------------
(* What the server says and does when it rests, and when it is down.        *)

\* The lifespan ends after the last request: no handler and no start follows it.
Closed ==
  /\ serving <=> pc[Lifespan] = "idle"
  /\ ~serving => LoopFree /\ \A r \in Requests : pc[r] = "idle"
  /\ ~raced /\ pc[Lifespan] = "done" => \A c \in Calls : ~running[c]

\* A start announces its workers before the loop is free again, and whoever
\* ends a call is on its way to say so.
Announced ==
  ~raced =>
    /\ starting # None => status \in {"started", "starting"}
    /\ starting # None /\ next > 1 => status = "starting"
    /\ LoopFree /\ (\E c \in Calls : running[c]) => status = "starting"
    /\ LoopFree /\ (\A c \in Calls : ~running[c]) =>
         status # "starting" \/ \E r \in Stoppers : pc[r] = "emit"

Rests == Closed /\ Announced

LEMMA InitRests == Init => Rests
BY DEF Init, Rests, Closed, Announced, LoopFree, None, Stoppers

\* Where a stop has ended a call of its own, without a race, no other runs.
LEMMA StoppedForAll ==
  ASSUME Safe, ~raced, NEW r \in Stoppers, pc[r] \in {"emit", "resume"}
  PROVE  LoopFree /\ \A c \in Calls : ~running[c]
<1>1. InProgress(r)
  BY DEF InProgress
<1>2. LoopFree /\ (orchestrator = target[r] \/ orchestrator = None) /\ ~running[target[r]]
  BY <1>1 DEF Safe, Unraced, Targeted
<1>3. \A c \in Calls : running[c] => c = orchestrator
  BY <1>2 DEF Safe, Unraced
<1> QED
  BY <1>2, <1>3 DEF Calls, None

LEMMA StepClosed == Safe /\ Closed /\ [Next]_vars => Closed'
<1> SUFFICES ASSUME Safe, Closed, [Next]_vars PROVE Closed'
  OBVIOUS
<1> USE ControlAssumption DEF Closed, LoopFree, None, stopVars, At, Goto, Stoppers
<1>0. pc \in [Stoppers -> {"idle", "enter", "set", "join", "emit", "resume", "done"}]
  BY DEF Safe, TypeOK
<1>1. ASSUME NEW ways \in {1, 2}, Start(ways)
      PROVE  Closed'
  BY <1>1 DEF Start, Launch
<1>2. CASE StartWorker
  BY <1>2 DEF StartWorker
<1>3. CASE StartDone
  BY <1>3 DEF StartDone
<1>4. ASSUME NEW r \in Requests, StopRequest(r)
      PROVE  Closed'
  BY <1>0, <1>4 DEF StopRequest
<1>5. ASSUME NEW r \in Requests, StopResume(r)
      PROVE  Closed'
  BY <1>0, <1>5 DEF StopResume
<1>6. ASSUME NEW r \in Stoppers, StopThread(r)
      PROVE  Closed'
  <2>1. pc[r] \in {"enter", "set", "join", "emit"}
    BY <1>6 DEF StopThread, StopEnter, StopSet, StopJoin, JoinTimeout, Joins, StopFlag, StopEmit
  <2>2. \E s \in {"enter", "set", "join", "emit", "resume"} : pc' = [pc EXCEPT ![r] = s]
    <3>1. CASE StopEnter(r)
      BY <3>1 DEF StopEnter
    <3>2. CASE StopSet(r)
      BY <3>2 DEF StopSet
    <3>3. CASE NextJoin(r) /\ pc[r] = "join"
      <4>1. pc' = pc
        BY <3>3 DEF NextJoin
      <4>2. pc = [pc EXCEPT ![r] = "join"]
        BY <1>0, <3>3
      <4> QED
        BY <4>1, <4>2
    <3>4. CASE StopFlag(r)
      BY <3>4 DEF StopFlag
    <3>5. CASE StopEmit(r)
      BY <3>5 DEF StopEmit
    <3> QED
      BY <1>6, <3>1, <3>2, <3>3, <3>4, <3>5 DEF StopThread, StopJoin, JoinTimeout, Joins
  <2>3. UNCHANGED <<serving, starting>>
    BY <1>6 DEF StopThread, StopEnter, StopSet, StopJoin, JoinTimeout, NextJoin, StopFlag, StopEmit
  <2>4. r = Lifespan \/ pc'[Lifespan] = pc[Lifespan]
    BY <1>0, <2>2
  <2>5. pc'[Lifespan] = "done" => r # Lifespan /\ pc[Lifespan] = "done"
    BY <1>0, <2>2, <2>4
  <2>6. pc[Lifespan] = "done" => r = Lifespan
    BY <2>1
  <2> QED
    BY <1>0, <2>1, <2>2, <2>3, <2>4, <2>5, <2>6
<1>7. CASE Shutdown
  <2>1. /\ LoopFree /\ serving /\ \A r \in Stoppers : pc[r] = "idle"
        /\ ~serving' /\ UNCHANGED <<starting, running, raced>>
    BY <1>7 DEF Shutdown
  <2>2. \/ pc' = [pc EXCEPT ![Lifespan] = "enter"]
        \/ pc' = [pc EXCEPT ![Lifespan] = "done"] /\ ~Registered
    BY <1>7 DEF Shutdown
  <2>3. ~raced /\ ~Registered => \A c \in Calls : ~running[c]
    BY <2>1 DEF Safe, Unraced, Registered, Calls
  <2> QED
    BY <1>0, <2>1, <2>2, <2>3
<1>8. CASE ShutdownDone
  <2>1. /\ pc[Lifespan] = "resume" /\ pc' = [pc EXCEPT ![Lifespan] = "done"]
        /\ UNCHANGED <<serving, starting, running, raced>>
    BY <1>8 DEF ShutdownDone
  <2>2. ~raced => \A c \in Calls : ~running[c]
    BY <2>1, StoppedForAll
  <2> QED
    BY <1>0, <2>1, <2>2
<1>9. ASSUME NEW c \in Calls, NEW w \in alive[c], WorkerEnds(c, w)
      PROVE  Closed'
  BY <1>9 DEF WorkerEnds
<1>10. CASE UNCHANGED vars
  BY <1>10 DEF vars
<1> QED
  BY <1>1, <1>2, <1>3, <1>4, <1>5, <1>6, <1>7, <1>8, <1>9, <1>10 DEF Next, Down

LEMMA StepAnnounced == Safe /\ Announced /\ [Next]_vars => Announced'
<1> SUFFICES ASSUME Safe, Announced, [Next]_vars, ~raced' PROVE Announced'
  BY DEF Announced
<1> USE DEF LoopFree, stopVars, At, Goto
<1>0. pc \in [Stoppers -> {"idle", "enter", "set", "join", "emit", "resume", "done"}]
  BY DEF Safe, TypeOK
<1>1. ASSUME NEW ways \in {1, 2}, Start(ways)
      PROVE  Announced'
  <2>1. calls' # None /\ starting' = calls' /\ next' = 1 /\ status' = "started"
    BY <1>1 DEF Start, Launch, Safe, TypeOK, None
  <2> QED
    BY <2>1 DEF Announced
<1>2. CASE StartWorker
  BY <1>2 DEF StartWorker, Announced
<1>3. CASE StartDone
  <2>1. starting \in Calls /\ running[starting]
    BY <1>3 DEF StartDone, Safe, TypeOK, Started, Calls, None
  <2>2. next > 1
    BY <1>3, <2>1 DEF StartDone, Safe, TypeOK
  <2>3. ~raced /\ status = "starting"
    BY <1>3, <2>2 DEF StartDone, Announced
  <2>4. UNCHANGED <<running, status, pc>> /\ starting' = None
    BY <1>3 DEF StartDone
  <2> QED
    BY <2>1, <2>3, <2>4 DEF Announced
<1>4. ASSUME NEW r \in Requests, StopRequest(r)
      PROVE  Announced'
  <2>1. pc[r] = "idle" /\ pc' = [pc EXCEPT ![r] = "enter"]
        /\ UNCHANGED <<running, status, starting, next, raced>>
    BY <1>4 DEF StopRequest
  <2> QED
    BY <1>0, <2>1 DEF Announced
<1>5. ASSUME NEW r \in Requests, StopResume(r)
      PROVE  Announced'
  <2>1. pc[r] = "resume" /\ pc' = [pc EXCEPT ![r] = "idle"]
        /\ UNCHANGED <<running, status, starting, next, raced>>
    BY <1>5 DEF StopResume
  <2> QED
    BY <1>0, <2>1 DEF Announced
<1>6. ASSUME NEW r \in Stoppers, StopThread(r)
      PROVE  Announced'
  <2>1. CASE StopEnter(r)
    <3>1. pc[r] = "enter" /\ UNCHANGED <<running, status, starting, next, raced>>
          /\ \A s \in Stoppers \ {r} : pc'[s] = pc[s]
      BY <1>0, <2>1 DEF StopEnter
    <3> QED
      BY <3>1 DEF Announced
  <2>2. CASE StopSet(r)
    <3>1. pc[r] = "set" /\ UNCHANGED <<running, status, starting, next, raced>>
          /\ \A s \in Stoppers \ {r} : pc'[s] = pc[s]
      BY <1>0, <2>2 DEF StopSet
    <3> QED
      BY <3>1 DEF Announced
  <2>3. CASE NextJoin(r)
    BY <2>3 DEF NextJoin, Announced
  <2>4. CASE StopFlag(r)
    <3>1. UNCHANGED <<status, starting, next, raced>> /\ pc'[r] = "emit"
      BY <1>0, <2>4 DEF StopFlag
    <3>2. \A c \in Calls : running'[c] => running[c]
      BY <2>4 DEF StopFlag, Safe, TypeOK
    <3> QED
      BY <3>1, <3>2 DEF Announced
  <2>5. CASE StopEmit(r)
    <3>1. /\ pc[r] = "emit" /\ status' = "stopped"
          /\ UNCHANGED <<running, starting, next, raced>>
      BY <2>5 DEF StopEmit
    <3>2. LoopFree /\ \A c \in Calls : ~running[c]
      BY <3>1, StoppedForAll
    <3> QED
      BY <3>1, <3>2 DEF Announced
  <2> QED
    BY <1>6, <2>1, <2>2, <2>3, <2>4, <2>5 DEF StopThread, StopJoin, JoinTimeout
<1>7. CASE Shutdown
  <2>1. /\ \A r \in Stoppers : pc[r] = "idle"
        /\ UNCHANGED <<running, status, starting, next, raced>>
    BY <1>7 DEF Shutdown
  <2> QED
    BY <2>1 DEF Announced
<1>8. CASE ShutdownDone
  <2>1. pc[Lifespan] = "resume" /\ pc' = [pc EXCEPT ![Lifespan] = "done"]
        /\ UNCHANGED <<running, status, starting, next, raced>>
    BY <1>8 DEF ShutdownDone
  <2> QED
    BY <1>0, <2>1 DEF Announced
<1>9. ASSUME NEW c \in Calls, NEW w \in alive[c], WorkerEnds(c, w)
      PROVE  Announced'
  BY <1>9 DEF WorkerEnds, Announced
<1>10. CASE UNCHANGED vars
  BY <1>10 DEF vars, Announced
<1> QED
  BY <1>1, <1>2, <1>3, <1>4, <1>5, <1>6, <1>7, <1>8, <1>9, <1>10 DEF Next, Down

\* Without a start during a stop, the server does not go down with a call
\* running, whichever of a request and the lifespan was stopping it; and with one
\* too, a call that has been ended has told its workers.
THEOREM ControlEndsCalls == Spec => []CallsEndForGood
<1>1. Init => Safe /\ Closed
  BY InitSafe, InitRests DEF Rests
<1>2. Safe /\ Closed /\ [Next]_vars => (Safe /\ Closed)'
  BY StepSafe, StepClosed
<1>3. Safe /\ Closed => ShutdownEndsCall
  BY DEF Closed, ShutdownEndsCall, At
<1>4. ShutdownEndsCall /\ WorkersWereTold => CallsEndForGood
  BY DEF CallsEndForGood
<1> QED
  BY ControlTellsWorkers, <1>1, <1>2, <1>3, <1>4, PTL DEF Spec

\* Without a start during a stop, the last STATUS event tells at rest whether a
\* call runs, in whatever order overlapping stops came to announce its end.
THEOREM ControlStatusIsTrue == Spec => []StatusIsTrue
<1>1. Init => Safe /\ Announced
  BY InitSafe, InitRests DEF Rests
<1>2. Safe /\ Announced /\ [Next]_vars => (Safe /\ Announced)'
  BY StepSafe, StepAnnounced
<1>3. Safe /\ Announced => StatusIsTrue
  BY DEF Announced, StatusIsTrue, InProgress
<1> QED
  BY <1>1, <1>2, <1>3, PTL DEF Spec
=============================================================================
