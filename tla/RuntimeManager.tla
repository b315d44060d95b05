-------------------------- MODULE RuntimeManager --------------------------
(***************************************************************************)
(* The cooperative scheduler of the MP157 process (runtime_manager.cpp)    *)
(* and the life of the process around it (main.cpp): start the services in *)
(* order, poll them round by round, stop them in reverse order, publish    *)
(* the runtime state.  One thread runs everything; a signal may ask for    *)
(* the end at any moment, and every call of a service, of the loop         *)
(* callback and of the history recorder may fail.                          *)
(***************************************************************************)
EXTENDS Integers, Sequences, FiniteSets, SequencesExt

CONSTANT ServiceCount   \* services registered with addService

ASSUME ServiceAssumption == ServiceCount \in Nat \ {0}

Services == 1..ServiceCount

VARIABLES
  pc,            \* what the process does next
  index,         \* the loop variable of start() and run()
  state,         \* status_.state
  error,         \* status_.lastError is not empty
  started,       \* startedServices_, as indices
  completed,     \* completedServices_ and completedServiceCount
  startedCount,  \* status_.startedServiceCount
  activeCount,   \* status_.activeServiceCount
  stopRequested, \* shutdownRequested, or runtimeRunSeconds is over
  historyOpen,   \* the HistoryRecorder holds its files
  published,     \* the state in the status file; "none" before the first
  calls,         \* history: start and stop calls of the services, in order
  failure,       \* history: something failed before HistoryRecorder::stop()
  flushLost      \* history: the flush in HistoryRecorder::stop() failed
statusVars == <<state, error, startedCount, activeCount, completed>>
vars == <<pc, index, statusVars, started, stopRequested, historyOpen, published, calls, failure, flushLost>>

Init ==
  /\ pc = "history" /\ index = 1
  /\ state = "Created" /\ error = FALSE
  /\ started = <<>> /\ completed = {}
  /\ startedCount = 0 /\ activeCount = 0
  /\ stopRequested = FALSE /\ historyOpen = FALSE
  /\ published = "none" /\ calls = <<>>
  /\ failure = FALSE /\ flushLost = FALSE

\* publishStatus; StatusFile models the file and the failures of writing it.
Publish == published' = state'
-----------------------------------------------------------------------------
\* main() opens the history when it is enabled; a failure ends the process
\* before the runtime.
OpenHistory ==
  /\ pc = "history"
  /\ \/ /\ historyOpen' \in BOOLEAN
        /\ pc' = "start" /\ UNCHANGED <<failure, state>>
        /\ Publish
     \/ /\ pc' = "exit" /\ failure' = TRUE
        /\ UNCHANGED <<state, historyOpen, published>>
  /\ UNCHANGED <<index, error, started, completed, startedCount, activeCount, stopRequested, calls, flushLost>>

\* start(): the next service starts, and Running is entered behind the last.
StartService ==
  /\ pc = "start" /\ index <= ServiceCount
  /\ started' = Append(started, index)
  /\ startedCount' = Len(started')
  /\ activeCount' = Len(started')
  /\ calls' = Append(calls, <<"start", index>>)
  /\ index' = index + 1
  /\ state' = "Starting"
  /\ UNCHANGED <<pc, error, completed, stopRequested, historyOpen, published, failure, flushLost>>

\* Fault: the services that did start are left alone.
FailedStartLeaves ==
  /\ pc = "start" /\ index <= ServiceCount
  /\ state' = "Failed" /\ error' = TRUE /\ failure' = TRUE
  /\ pc' = "stopped"
  /\ UNCHANGED <<index, completed, started, startedCount, activeCount, stopRequested,
                 historyOpen, published, calls, flushLost>>

\* start() returns false from the first service that fails, through stop().
StartServiceFails ==
  /\ pc = "start" /\ index <= ServiceCount
  /\ state' = "Stopping" /\ error' = TRUE /\ failure' = TRUE
  /\ pc' = "stop"
  /\ UNCHANGED <<index, completed, started, startedCount, activeCount, stopRequested,
                 historyOpen, published, calls, flushLost>>

\* main() publishes Running and enters run().
EnterRun ==
  /\ pc = "start" /\ index > ServiceCount
  /\ state' = "Running" /\ error' = FALSE
  /\ pc' = "round"
  /\ Publish
  /\ UNCHANGED <<index, completed, started, startedCount, activeCount, stopRequested,
                 historyOpen, calls, failure, flushLost>>

\* Fault: the stop predicate is not asked.
IgnoreStopRequest ==
  /\ pc = "round"
  /\ IF completed = Services
     THEN pc' = "stop" /\ state' = "Stopping" /\ UNCHANGED index
     ELSE pc' = "poll" /\ index' = 1 /\ UNCHANGED state
  /\ UNCHANGED <<error, completed, started, startedCount, activeCount, stopRequested,
                 historyOpen, published, calls, failure, flushLost>>

\* The head of the loop of run().
BeginRound ==
  /\ pc = "round"
  /\ IF completed = Services \/ stopRequested
     THEN pc' = "stop" /\ state' = "Stopping" /\ UNCHANGED index
     ELSE pc' = "poll" /\ index' = 1 /\ UNCHANGED state
  /\ UNCHANGED <<error, completed, started, startedCount, activeCount, stopRequested,
                 historyOpen, published, calls, failure, flushLost>>

SkipCompleted ==
  /\ pc = "poll" /\ index \in completed
  /\ index' = index + 1
  /\ UNCHANGED <<pc, statusVars, started, stopRequested, historyOpen, published, calls, failure, flushLost>>

\* A poll that answers Running or Completed.
PollService ==
  /\ pc = "poll" /\ index \in Services \ completed
  /\ \/ UNCHANGED <<completed, activeCount>>
     \/ /\ completed' = completed \cup {index}
        /\ activeCount' = Len(started) - Cardinality(completed')
  /\ index' = index + 1
  /\ UNCHANGED <<pc, state, error, started, startedCount, stopRequested, historyOpen,
                 published, calls, failure, flushLost>>

\* A poll that answers Failed or throws: run() returns false, main() stops.
PollFails ==
  /\ pc = "poll" /\ index \in Services \ completed
  /\ error' = TRUE /\ failure' = TRUE
  /\ state' = "Stopping"
  /\ pc' = "stop"
  /\ UNCHANGED <<index, completed, started, startedCount, activeCount, stopRequested,
                 historyOpen, published, calls, flushLost>>

\* The loop callback records the history, which may fail, and publishes once
\* a second.
LoopCallback ==
  /\ pc = "poll" /\ index > ServiceCount
  /\ \/ /\ pc' = "round"
        /\ UNCHANGED <<state, error, failure>>
        /\ Publish \/ UNCHANGED published
     \/ /\ historyOpen
        /\ error' = TRUE /\ failure' = TRUE
        /\ state' = "Stopping" /\ pc' = "stop"
        /\ UNCHANGED published
  /\ UNCHANGED <<index, completed, started, startedCount, activeCount, stopRequested, historyOpen, calls, flushLost>>

\* stop(): one service after the other, the last one started first.
StopService ==
  /\ pc = "stop" /\ started # <<>>
  /\ started' = Front(started)
  /\ calls' = Append(calls, <<"stop", Last(started)>>)
  /\ UNCHANGED <<pc, index, statusVars, stopRequested, historyOpen, published, failure, flushLost>>

\* Fault: stop() forgets that the run failed.
StopForgetsError ==
  /\ pc = "stop" /\ started = <<>>
  /\ startedCount' = 0 /\ activeCount' = 0
  /\ state' = "Stopped"
  /\ pc' = "stopped"
  /\ UNCHANGED <<index, error, completed, started, stopRequested, historyOpen, published, calls, failure, flushLost>>

FinishStop ==
  /\ pc = "stop" /\ started = <<>>
  /\ startedCount' = 0 /\ activeCount' = 0
  /\ state' = IF error THEN "Failed" ELSE "Stopped"
  /\ pc' = "stopped"
  /\ UNCHANGED <<index, error, completed, started, stopRequested, historyOpen, published, calls, failure, flushLost>>

\* main() stops the recorder and publishes the last state on every path.
\* HistoryRecorder::stop() ignores the error of its flush.
Exit ==
  /\ pc = "stopped"
  /\ historyOpen' = FALSE
  /\ flushLost' \in IF historyOpen THEN BOOLEAN ELSE {FALSE}
  /\ pc' = "exit"
  /\ UNCHANGED statusVars
  /\ Publish
  /\ UNCHANGED <<index, started, stopRequested, calls, failure>>

\* SIGINT or SIGTERM, or the configured run time is over.
RequestStop ==
  /\ ~stopRequested
  /\ stopRequested' = TRUE
  /\ UNCHANGED <<pc, index, statusVars, started, historyOpen, published, calls, failure, flushLost>>

Process ==
  \/ OpenHistory \/ StartService \/ StartServiceFails \/ EnterRun
  \/ BeginRound \/ SkipCompleted \/ PollService \/ PollFails \/ LoopCallback
  \/ StopService \/ FinishStop \/ Exit

Next == Process \/ RequestStop

\* Every call returns, so the thread goes on.
Spec == Init /\ [][Next]_vars /\ WF_vars(Process)
-----------------------------------------------------------------------------
(* Properties. *)

\* The unsigned counters of RuntimeStatus never run below zero or past the
\* number of services.
TypeOK ==
  /\ pc \in {"history", "start", "round", "poll", "stop", "stopped", "exit"}
  /\ index \in 1..(ServiceCount + 1)
  /\ state \in {"Created", "Starting", "Running", "Stopping", "Stopped", "Failed"}
  /\ started \in Seq(Services) /\ completed \subseteq Services
  /\ startedCount \in 0..ServiceCount /\ activeCount \in 0..ServiceCount

\* Whatever failed and whenever the end was asked for, a process that ended
\* has made some number of starts and then as many stops, of the same
\* services in reverse order, and holds no history file.
EndsClean ==
  pc = "exit" =>
    /\ \E n \in 0..ServiceCount :
         /\ Len(calls) = 2 * n
         /\ \A i \in 1..n : /\ calls[i][1] = "start"
                            /\ calls[2 * n + 1 - i] = <<"stop", calls[i][2]>>
    /\ ~historyOpen

LastStatusIsTrue ==
  pc = "exit" => \/ published = IF failure THEN "Failed" ELSE "Stopped"
                 \/ published = "none" /\ calls = <<>>

CountsAgree ==
  pc \in {"start", "round", "poll"} =>
    /\ startedCount = Len(started)
    /\ activeCount = Len(started) - Cardinality(completed)

\* What the status says is true.  The last publication tells how the runtime
\* ended: Failed after any failure up to the stop of the last service, Stopped
\* otherwise; only a history that could not be opened ends the process with
\* none.  Of the flush behind that stop it says nothing.  The counters agree with
\* the services they count in every state a status file or a status query,
\* which is answered in the middle of a round, can show.
StatusIsTrue == LastStatusIsTrue /\ CountsAgree

\* ADR 0018 says a failed write or flush of the history makes the Runtime fail.
\* For the flush of HistoryRecorder::stop() that is not so, and no run checks it.
FlushFailureFails == pc = "exit" /\ flushLost => published = "Failed"

\* A request to stop ends the process from any point, and so does a failure.
StopHonoured == stopRequested \/ failure ~> pc = "exit"
=============================================================================
