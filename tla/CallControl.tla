----------------------------- MODULE CallControl -----------------------------
(***************************************************************************)
(* Starting and stopping a call: the handlers of voicebridge/api/app.py,   *)
(* the lifespan of the server, and Orchestrator.start and stop.            *)
(*                                                                         *)
(* A handler runs on the event loop and keeps it until it awaits.  start   *)
(* never awaits.  stop awaits Orchestrator.stop in a thread of its own, so *)
(* the loop serves other requests meanwhile, and continues on the loop     *)
(* when the thread is done.  Every call has its own Orchestrator; the      *)
(* server knows one of them, state["orchestrator"].                        *)
(***************************************************************************)
EXTENDS Naturals

CONSTANTS
  Requests,   \* POST /api/stop requests that may be in progress together
  Lifespan,   \* the end of the server's lifespan, which stops a call as well
  MaxCalls    \* bound: calls started

ASSUME ControlAssumption == Lifespan \notin Requests /\ MaxCalls \in Nat

Calls    == 1 .. MaxCalls
None     == 0
Stoppers == Requests \cup {Lifespan}

VARIABLES
  orchestrator,  \* state["orchestrator"]: a call, or None
  calls,         \* calls started so far; call c is the c-th Orchestrator
  directions,    \* its number of workers: 1, or 2 for a two-way call
  running,       \* Orchestrator._running
  stopped,       \* Orchestrator._stop_event
  alive,         \* its workers that still have a live thread
  starting, next,       \* the call a start handler is at, and its next worker
  pc, target, joining,  \* a stopper: its step, its call, the worker it joins
  serving,       \* the server accepts requests
  status,        \* the latest system or direction STATUS event published
  raced          \* history: a start was accepted while a stop was in progress

stopVars == <<pc, target, joining>>
vars == <<orchestrator, calls, directions, running, stopped, alive,
          starting, next, stopVars, serving, status, raced>>

LoopFree == starting = None
InProgress(r) == pc[r] \notin {"idle", "done"}

Init ==
  /\ orchestrator = None /\ calls = 0
  /\ directions = [c \in Calls |-> 1]
  /\ running = [c \in Calls |-> FALSE] /\ stopped = [c \in Calls |-> FALSE]
  /\ alive = [c \in Calls |-> {}]
  /\ starting = None /\ next = 1
  /\ pc = [r \in Stoppers |-> "idle"] /\ target = [r \in Stoppers |-> None]
  /\ joining = [r \in Stoppers |-> 1]
  /\ serving = TRUE /\ status = "none" /\ raced = FALSE

-----------------------------------------------------------------------------
(* POST /api/start.  A second call is refused with 409; a request that      *)
(* fails before Orchestrator.start leaves everything as it was.             *)

Registered == orchestrator # None /\ running[orchestrator]

\* Orchestrator.start up to its STATUS event: the event is cleared, being new.
Launch(ways) ==
  /\ LoopFree /\ serving /\ calls < MaxCalls
  /\ calls' = calls + 1
  /\ directions' = [directions EXCEPT ![calls'] = ways]
  /\ running' = [running EXCEPT ![calls'] = TRUE]
  /\ stopped' = [stopped EXCEPT ![calls'] = FALSE]
  /\ starting' = calls' /\ next' = 1
  /\ status' = "started"
  /\ raced' = (raced \/ \E r \in Stoppers : InProgress(r))
  /\ UNCHANGED <<orchestrator, alive, stopVars, serving>>

\* Faulty variant of Start: no check that a call is already running.
StartAnyway(ways) == Launch(ways)

Start(ways) == ~Registered /\ Launch(ways)

\* DirectionWorker.start: its STATUS event, then its three threads.
StartWorker ==
  /\ starting # None /\ next <= directions[starting]
  /\ alive' = [alive EXCEPT ![starting] = @ \cup {next}]
  /\ next' = next + 1
  /\ status' = "starting"
  /\ UNCHANGED <<orchestrator, calls, directions, running, stopped, starting,
                 stopVars, serving, raced>>

StartDone ==
  /\ starting # None /\ next > directions[starting]
  /\ orchestrator' = starting
  /\ starting' = None /\ next' = 1
  /\ UNCHANGED <<calls, directions, running, stopped, alive, stopVars, serving,
                 status, raced>>

-----------------------------------------------------------------------------
(* POST /api/stop and Orchestrator.stop.  With no running call the answer   *)
(* is "not running" and nothing changes.                                    *)

At(r, step) == pc[r] = step
Goto(r, step) == pc' = [pc EXCEPT ![r] = step]

StopRequest(r) ==
  /\ LoopFree /\ serving /\ At(r, "idle") /\ Registered
  /\ target' = [target EXCEPT ![r] = orchestrator]
  /\ Goto(r, "enter")
  /\ UNCHANGED <<orchestrator, calls, directions, running, stopped, alive,
                 starting, next, joining, serving, status, raced>>

\* Another stop of the same call may have come first.
StopEnter(r) ==
  /\ At(r, "enter")
  /\ Goto(r, IF running[target[r]] THEN "set" ELSE "resume")
  /\ UNCHANGED <<orchestrator, calls, directions, running, stopped, alive,
                 starting, next, target, joining, serving, status, raced>>

\* Faulty variant of StopSet: the workers are joined without being told to stop.
StopSetNothing(r) ==
  /\ At(r, "set")
  /\ joining' = [joining EXCEPT ![r] = 1]
  /\ Goto(r, "join")
  /\ UNCHANGED <<orchestrator, calls, directions, running, stopped, alive, starting, next,
                 target, serving, status, raced>>

StopSet(r) ==
  /\ At(r, "set")
  /\ stopped' = [stopped EXCEPT ![target[r]] = TRUE]
  /\ joining' = [joining EXCEPT ![r] = 1]
  /\ Goto(r, "join")
  /\ UNCHANGED <<orchestrator, calls, directions, running, alive, starting, next,
                 target, serving, status, raced>>

\* Faulty variant of Joins: one worker more than there are.
JoinsOneMore(r) == At(r, "join") /\ joining[r] <= directions[target[r]] + 1

Joins(r) == At(r, "join") /\ joining[r] <= directions[target[r]]

NextJoin(r) ==
  /\ joining' = [joining EXCEPT ![r] = @ + 1]
  /\ UNCHANGED <<orchestrator, calls, directions, running, stopped, alive,
                 starting, next, pc, target, serving, status, raced>>

\* DirectionWorker.join returns when the three threads have returned,
StopJoin(r) == Joins(r) /\ joining[r] \notin alive[target[r]] /\ NextJoin(r)

\* Faulty variant of JoinTimeout: join has no timeout.
JoinForever(r) == FALSE /\ Joins(r) /\ NextJoin(r)

\* and also after 5 s for each of them, whatever they still do.
JoinTimeout(r) == Joins(r) /\ joining[r] \in alive[target[r]] /\ NextJoin(r)

\* Faulty variant of StopFlag: no STATUS event follows.
StopFlagSilently(r) ==
  /\ At(r, "join") /\ ~Joins(r)
  /\ running' = [running EXCEPT ![target[r]] = FALSE]
  /\ Goto(r, "resume")
  /\ UNCHANGED <<orchestrator, calls, directions, stopped, alive, starting, next,
                 target, joining, serving, status, raced>>

StopFlag(r) ==
  /\ At(r, "join") /\ ~Joins(r)
  /\ running' = [running EXCEPT ![target[r]] = FALSE]
  /\ Goto(r, "emit")
  /\ UNCHANGED <<orchestrator, calls, directions, stopped, alive, starting, next,
                 target, joining, serving, status, raced>>

StopEmit(r) ==
  /\ At(r, "emit")
  /\ status' = "stopped"
  /\ Goto(r, "resume")
  /\ UNCHANGED <<orchestrator, calls, directions, running, stopped, alive,
                 starting, next, target, joining, serving, raced>>

\* The handler continues on the loop.
StopResume(r) ==
  /\ LoopFree /\ At(r, "resume") /\ r # Lifespan
  /\ orchestrator' = None
  /\ Goto(r, "idle")
  /\ target' = [target EXCEPT ![r] = None] /\ joining' = [joining EXCEPT ![r] = 1]
  /\ UNCHANGED <<calls, directions, running, stopped, alive, starting, next,
                 serving, status, raced>>

-----------------------------------------------------------------------------
(* The end of the lifespan, when the server has answered its requests.      *)

\* Faulty variant of Shutdown: the lifespan ends without stopping the call.
ShutdownOnly ==
  /\ LoopFree /\ serving /\ \A r \in Stoppers : At(r, "idle")
  /\ serving' = FALSE
  /\ Goto(Lifespan, "done")
  /\ UNCHANGED <<orchestrator, calls, directions, running, stopped, alive,
                 starting, next, target, joining, status, raced>>

Shutdown ==
  /\ LoopFree /\ serving /\ \A r \in Stoppers : At(r, "idle")
  /\ serving' = FALSE
  /\ IF Registered
     THEN target' = [target EXCEPT ![Lifespan] = orchestrator] /\ Goto(Lifespan, "enter")
     ELSE UNCHANGED target /\ Goto(Lifespan, "done")
  /\ UNCHANGED <<orchestrator, calls, directions, running, stopped, alive,
                 starting, next, joining, status, raced>>

ShutdownDone ==
  /\ At(Lifespan, "resume")
  /\ Goto(Lifespan, "done")
  /\ UNCHANGED <<orchestrator, calls, directions, running, stopped, alive,
                 starting, next, target, joining, serving, status, raced>>

\* The last thread of a worker returns: only after the stop event, since its
\* timeout and process loops go on when its source has ended.
WorkerEnds(c, w) ==
  /\ stopped[c] /\ w \in alive[c]
  /\ alive' = [alive EXCEPT ![c] = @ \ {w}]
  /\ UNCHANGED <<orchestrator, calls, directions, running, stopped, starting, next,
                 stopVars, serving, status, raced>>

\* The server is down.
Down == At(Lifespan, "done") /\ UNCHANGED vars

StopThread(r) ==
  \/ StopEnter(r) \/ StopSet(r) \/ StopJoin(r) \/ JoinTimeout(r) \/ StopFlag(r) \/ StopEmit(r)

Next ==
  \/ \E ways \in {1, 2} : Start(ways)
  \/ StartWorker \/ StartDone
  \/ \E r \in Requests : StopRequest(r) \/ StopResume(r)
  \/ \E r \in Stoppers : StopThread(r)
  \/ Shutdown \/ ShutdownDone
  \/ \E c \in Calls : \E w \in alive[c] : WorkerEnds(c, w)
  \/ Down

\* The loop serves its ready handlers in turn, and the stopping threads run.
\* Workers need not end: an engine may keep one of their threads for good.
Fairness ==
  /\ WF_vars(StartWorker \/ StartDone)
  /\ WF_vars(ShutdownDone)
  /\ \A r \in Requests : SF_vars(StopResume(r))
  /\ \A r \in Stoppers : WF_vars(StopThread(r))

Spec == Init /\ [][Next]_vars /\ Fairness

-----------------------------------------------------------------------------
(* Properties.                                                             *)

\* Type correctness of the control state.
TypeOK ==
  /\ calls \in 0 .. MaxCalls
  /\ orchestrator \in 0 .. calls /\ starting \in 0 .. calls
  /\ directions \in [Calls -> {1, 2}]
  /\ running \in [Calls -> BOOLEAN] /\ stopped \in [Calls -> BOOLEAN]
  /\ alive \in [Calls -> SUBSET {1, 2}]
  /\ next \in 1 .. 3
  /\ pc \in [Stoppers -> {"idle", "enter", "set", "join", "emit", "resume", "done"}]
  /\ target \in [Stoppers -> 0 .. calls]
  /\ joining \in [Stoppers -> 1 .. 3]
  /\ serving \in BOOLEAN /\ raced \in BOOLEAN
  /\ status \in {"none", "started", "starting", "stopped"}

\* As long as no start was accepted while a stop was in progress, the server
\* knows every running call, however many stops overlap (start, stop handlers).
OneCallUnlessRaced ==
  ~raced => \A c \in Calls : running[c] => c \in {orchestrator, starting}

\* "POST /api/stop -> stop the call" (app.py:7): when the server knows no call,
\* none is running.
StopStopsTheCall ==
  orchestrator = None /\ LoopFree => \A c \in Calls : ~running[c]

\* At rest, what the STATUS events said last is what the server does.
StatusIsTrue ==
  ~raced /\ LoopFree /\ (\A r \in Stoppers : ~InProgress(r)) =>
    ((\E c \in Calls : running[c]) <=> status = "starting")

\* The server does not go down with a call running.
ShutdownEndsCall ==
  ~raced /\ At(Lifespan, "done") => \A c \in Calls : ~running[c]

\* A call that has ended has told its workers to stop: one that outlives the joins'
\* timeouts is not left to run for good, whichever of the overlapping stops came
\* first and whatever start came between (Orchestrator.stop).
WorkersWereTold == \A c \in 1 .. calls : ~running[c] => stopped[c]

\* Who ends a call, a stop request or the server going down, ends it for good.
CallsEndForGood == ShutdownEndsCall /\ WorkersWereTold

\* Every stop comes to an end, even when a worker never does.
StopsAreAnswered ==
  \A r \in Stoppers : InProgress(r) ~> ~InProgress(r)
=============================================================================
