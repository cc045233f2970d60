------------------------------- MODULE Monitor -------------------------------
(***************************************************************************)
(* The resource monitor and the two programs that use it: the dashboard,   *)
(* which asks for a summary at every refresh until Ctrl+C, and the         *)
(* benchmark, which stops the monitor and then asks for its reports.       *)
(*                                                                         *)
(* Two threads share the list of samples under a lock that is not          *)
(* reentrant.  sample_now measures without the lock and adds the sample    *)
(* under it; get_summary holds the lock throughout, and without a sample   *)
(* yet calls sample_now.  What is measured, and how it is laid out on the  *)
(* screen or in a report, is left out.                                     *)
(***************************************************************************)
EXTENDS Naturals

CONSTANT MaxSamples  \* bound: samples counted; one more leaves it there

ASSUME MonitorAssumption == MaxSamples \in Nat \ {0}

VARIABLES
  command,  \* which program runs: "dashboard" or "benchmark"
  running,  \* _running
  owner,    \* _lock: "viewer" while the main thread holds it, or "free"
  samples,  \* the length of _snapshots
  sampler,  \* where the monitoring thread is
  viewer,   \* where the main thread is
  reports   \* reports that the benchmark still has to export

monVars == <<command, running, owner, samples, sampler, viewer, reports>>

MonitorFresh ==
  /\ command \in {"dashboard", "benchmark"}
  /\ running = FALSE /\ owner = "free" /\ samples = 0
  /\ sampler = "off" /\ reports = 0

MonitorInit == MonitorFresh /\ viewer = "start"

-----------------------------------------------------------------------------
(* The main thread.                                                        *)

StartMonitor ==
  /\ viewer = "start"
  /\ running' = TRUE /\ sampler' = "loop"
  /\ viewer' = IF command = "dashboard" THEN "refresh" ELSE "bench"
  /\ UNCHANGED <<command, owner, samples, reports>>

\* The collector's figures come first, each under a lock of its own.
Refresh ==
  /\ viewer = "refresh"
  /\ viewer' = "ask"
  /\ UNCHANGED <<command, running, owner, samples, sampler, reports>>

\* The finally block stops the monitor; only a benchmark that raised nothing
\* exports, and two of its three reports ask for the summary.
BenchmarksEnd(raised) ==
  /\ viewer = "bench"
  /\ viewer' = "halt"
  /\ reports' = IF raised THEN 0 ELSE 2
  /\ UNCHANGED <<command, running, owner, samples, sampler>>

\* get_summary.
TakeLock ==
  /\ viewer = "ask" /\ owner = "free"
  /\ owner' = "viewer" /\ viewer' = "look"
  /\ UNCHANGED <<command, running, samples, sampler, reports>>

Summarize ==
  /\ viewer = "look" /\ samples # 0
  /\ owner' = "free" /\ viewer' = "show"
  /\ UNCHANGED <<command, running, samples, sampler, reports>>

\* Faulty variant of SummarizeNothing: a sample is taken anew each time.
SummarizeAnew ==
  /\ viewer = "look"
  /\ viewer' = "sample"
  /\ UNCHANGED <<command, running, owner, samples, sampler, reports>>

\* No sample: sample_now measures and then waits for the lock, which this same
\* thread holds.  It has no step from here but Interrupt.
SummarizeNothing ==
  /\ viewer = "look" /\ samples = 0
  /\ viewer' = "sample"
  /\ UNCHANGED <<command, running, owner, samples, sampler, reports>>

\* The screen is drawn, or the report written; then the next one.
Show ==
  /\ viewer = "show"
  /\ reports' = IF command = "benchmark" THEN reports - 1 ELSE reports
  /\ viewer' = CASE command = "dashboard" -> "refresh"
                 [] command = "benchmark" /\ reports' > 0 -> "ask"
                 [] OTHER -> "gone"
  /\ UNCHANGED <<command, running, owner, samples, sampler>>

\* Ctrl+C, also while waiting for a lock: with leaves the lock free.  The
\* dashboard and the running benchmarks stop the monitor, the reports do not.
InterruptViewer ==
  /\ viewer \in {"start", "refresh", "bench", "ask", "look", "sample", "show"}
  /\ owner' = "free"
  /\ viewer' = IF \/ viewer = "bench"
                  \/ command = "dashboard" /\ viewer # "start"
               THEN "halt" ELSE "gone"
  /\ reports' = 0
  /\ UNCHANGED <<command, running, samples, sampler>>

Halt ==
  /\ viewer = "halt"
  /\ running' = FALSE
  /\ viewer' = "join"
  /\ UNCHANGED <<command, owner, samples, sampler, reports>>

\* The thread has ended, or 3 s are over: a slow measurement may last longer.
JoinMonitor ==
  /\ viewer = "join"
  /\ viewer' = IF reports > 0 THEN "ask" ELSE "gone"
  /\ UNCHANGED <<command, running, owner, samples, sampler, reports>>

ViewerWork ==
  \/ StartMonitor \/ Refresh \/ \E raised \in BOOLEAN : BenchmarksEnd(raised)
  \/ TakeLock \/ Summarize \/ SummarizeNothing \/ Show \/ Halt \/ JoinMonitor

-----------------------------------------------------------------------------
(* The monitoring thread, a daemon: it ends with the program.              *)

SamplerAt(place) == viewer # "gone" /\ sampler = place

MonitorLoop ==
  /\ SamplerAt("loop")
  /\ sampler' = IF running THEN "measure" ELSE "done"
  /\ UNCHANGED <<command, running, owner, samples, viewer, reports>>

\* CPU, memory, GPU and directories; a value that cannot be had is 0.
Measure ==
  /\ SamplerAt("measure")
  /\ sampler' = "lock"
  /\ UNCHANGED <<command, running, owner, samples, viewer, reports>>

AddSample ==
  /\ SamplerAt("lock") /\ owner = "free"
  /\ samples' = IF samples < MaxSamples THEN samples + 1 ELSE samples
  /\ sampler' = "sleep"
  /\ UNCHANGED <<command, running, owner, viewer, reports>>

Sleep ==
  /\ SamplerAt("sleep")
  /\ sampler' = "loop"
  /\ UNCHANGED <<command, running, owner, samples, viewer, reports>>

SamplerWork == MonitorLoop \/ Measure \/ AddSample \/ Sleep

MonitorFinished == viewer = "gone" /\ UNCHANGED monVars

MonitorNext == ViewerWork \/ InterruptViewer \/ SamplerWork \/ MonitorFinished

\* Each thread goes on where it can; nobody is bound to press Ctrl+C.
MonitorFairness == WF_monVars(ViewerWork) /\ WF_monVars(SamplerWork)

MonitorSpec == MonitorInit /\ [][MonitorNext]_monVars /\ MonitorFairness

-----------------------------------------------------------------------------
(* Properties.                                                             *)

\* Type correctness of both threads.
MonitorTypeOK ==
  /\ command \in {"dashboard", "benchmark"} /\ running \in BOOLEAN
  /\ owner \in {"viewer", "free"} /\ samples \in 0 .. MaxSamples
  /\ sampler \in {"off", "loop", "measure", "lock", "sleep", "done"}
  /\ viewer \in {"start", "refresh", "bench", "ask", "look", "sample", "show",
                 "halt", "join", "gone"}
  /\ reports \in 0 .. 2

Answered == viewer \in {"show", "halt", "gone"}

\* Once a sample has been taken, whoever asks for the summary is answered or
\* interrupted, whatever the monitoring thread does meanwhile (get_summary).
SampledSummaryReturns == viewer = "ask" /\ samples > 0 ~> Answered

\* get_summary "calculates resource utilization summary metrics": with a sample
\* or without, whoever asks for it is answered or interrupted.
SummaryReturns == viewer = "ask" ~> Answered
=============================================================================
