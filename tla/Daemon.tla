------------------------------- MODULE Daemon -------------------------------
(***************************************************************************)
(* daemon.Start (daemon.go): the goroutine of Start itself, the service    *)
(* goroutines it launches (ServiceManager), the prestart pipeline          *)
(* (Prestart), the log watcher with its workers, the states watcher, and   *)
(* the shutdown that follows the last service.                             *)
(*                                                                         *)
(* mainPc, the control point of Start:                                     *)
(*   start        after the started and len(services) checks               *)
(*   prestart     ranging over errC                                        *)
(*   logPrestart  sending a prestart failure on logC                       *)
(*   launch       creating the states topic, launching watcher, services   *)
(*                and RPC server                                           *)
(*   wait         dwg.Wait()                                               *)
(*   shutdownRPC  server.Shutdown                                          *)
(*   closeUpdates, awaitStates, closeIntracom, closeLog, awaitLogger       *)
(*                the rest of the shutdown, in order                       *)
(*   returned     Start returned nil                                       *)
(*   failed       Start returned an error                                  *)
(***************************************************************************)
EXTENDS ServiceManager, Prestart

CONSTANTS
    LogWorkers,  \* d.logWorkerCount
    RPCEnabled   \* d.rpcEnabled

ASSUME DaemonAssumption ==
    /\ Services # {}
    /\ LogWorkers \in Nat \ {0}
    /\ RPCEnabled \in BOOLEAN

VARIABLES
    mainPc,
    server,        \* the RPC server was created
    updateClosed,  \* close(stateUpdateC) was called
    logClosed,     \* close(logC) was called
    statesPc,      \* states watcher: off, range, publish, done (doneC closed)
    states,        \* its map of service states
    loggerPc,      \* log watcher: off, range, acquire, done (doneC closed)
    workers        \* log workers writing an entry, each holding the semaphore

closed == <<updateClosed, logClosed>>
watcher == <<statesPc, states>>
logger == <<loggerPc, workers>>
daemonVars == <<mainPc, server, closed, watcher, logger>>
vars == <<managerVars, prestartVars, daemonVars>>

MainPc == {"start", "prestart", "logPrestart", "launch", "wait", "shutdownRPC",
           "closeUpdates", "awaitStates", "closeIntracom", "closeLog",
           "awaitLogger", "returned", "failed"}

Init ==
    /\ ManagerInit
    /\ PrestartInit
    /\ mainPc = "start"
    /\ server = FALSE
    /\ updateClosed = FALSE
    /\ logClosed = FALSE
    /\ statesPc = "off"
    /\ states = [s \in Services |-> "exit"]
    /\ loggerPc = "off"
    /\ workers = 0

-----------------------------------------------------------------------------
(* The context: the parent is cancelled, or the signal watcher cancels dctx *)
(* on SIGINT or SIGTERM, which it listens for once the notifier is up.      *)

CancelParent ==
    /\ ~ctxDone
    /\ ctxDone' = TRUE
    /\ UNCHANGED <<goroutine, updateC, logC, history, prestartVars,
                   daemonVars>>

SignalWatcher ==
    /\ mainPc \notin {"start", "returned", "failed"}
    /\ ~ctxDone
    /\ ctxDone' = TRUE
    /\ UNCHANGED <<goroutine, updateC, logC, history, prestartVars,
                   daemonVars>>

-----------------------------------------------------------------------------
(* The goroutine of Start.                                                  *)

(* A return runs the deferred dcancel().                                    *)
Return(l) == mainPc' = l /\ ctxDone' = TRUE

(* The notifier cannot be created (its socket cannot be dialled).           *)
NotifierFails ==
    /\ mainPc = "start"
    /\ Return("failed")
    /\ UNCHANGED <<goroutine, updateC, logC, history, prestartVars, server,
                   closed, watcher, logger>>

(* The notifier is up; the log watcher, the signal watcher and the prestart *)
(* pipeline are started.                                                    *)
StartWatchers ==
    /\ mainPc = "start"
    /\ mainPc' = "prestart"
    /\ loggerPc' = "range"
    /\ RunPipeline
    /\ UNCHANGED <<managerVars, server, closed, watcher, workers>>

(* for err := range errC { logC <- err }                                    *)
ReceivePrestartError ==
    /\ mainPc = "prestart"
    /\ errC = 1
    /\ errC' = 0
    /\ mainPc' = "logPrestart"
    /\ UNCHANGED <<managerVars, pipeline, server, closed, watcher, logger>>

LogPrestartError ==
    /\ mainPc = "logPrestart"
    /\ logC < LogCap
    /\ logC' = logC + 1
    /\ mainPc' = "prestart"
    /\ UNCHANGED <<goroutine, updateC, ctxDone, history, prestartVars, server,
                   closed, watcher, logger>>

PrestartClosed ==
    /\ mainPc = "prestart"
    /\ stagePc = "closed"
    /\ errC = 0
    /\ mainPc' = "launch"
    /\ UNCHANGED <<managerVars, prestartVars, server, closed, watcher,
                   logger>>

(* The states topic is created, the states watcher and every service are    *)
(* started, then the RPC server if it is enabled and registers.             *)
Launch ==
    /\ mainPc = "launch"
    /\ mainPc' = "wait"
    /\ statesPc' = "range"
    /\ pc' = [s \in Services |-> EntryPoint(s)]
    /\ server' \in {FALSE, RPCEnabled}
    /\ UNCHANGED <<state, hasStopped, updateC, logC, ctxDone, history,
                   prestartVars, closed, states, logger>>

WgZeroAlways == TRUE  \* mutant of WgZero: Start does not wait

(* dwg.Wait(): every service goroutine has called wg.Done().                *)
WgZero == \A s \in Services : pc[s] = "done"

ServicesDone ==
    /\ mainPc = "wait"
    /\ WgZero
    /\ mainPc' = IF server THEN "shutdownRPC" ELSE "closeUpdates"
    /\ UNCHANGED <<managerVars, prestartVars, server, closed, watcher,
                   logger>>

(* server.Shutdown: when it fails, Start returns without the rest of the    *)
(* shutdown.                                                                *)
ShutdownRPC ==
    /\ mainPc = "shutdownRPC"
    /\ \/ mainPc' = "closeUpdates" /\ UNCHANGED ctxDone
       \/ Return("failed")
    /\ UNCHANGED <<goroutine, updateC, logC, history, prestartVars, server,
                   closed, watcher, logger>>

CloseUpdateCForgotten == UNCHANGED updateClosed  \* mutant of CloseUpdateC
CloseUpdateC == updateClosed' = TRUE

CloseUpdates ==
    /\ mainPc = "closeUpdates"
    /\ CloseUpdateC
    /\ mainPc' = "awaitStates"
    /\ UNCHANGED <<managerVars, prestartVars, server, logClosed, watcher,
                   logger>>

AwaitStates ==
    /\ mainPc = "awaitStates"
    /\ statesPc = "done"
    /\ mainPc' = "closeIntracom"
    /\ UNCHANGED <<managerVars, prestartVars, server, closed, watcher,
                   logger>>

CloseIntracom ==
    /\ mainPc = "closeIntracom"
    /\ mainPc' = "closeLog"
    /\ UNCHANGED <<managerVars, prestartVars, server, closed, watcher,
                   logger>>

CloseLog ==
    /\ mainPc = "closeLog"
    /\ logClosed' = TRUE
    /\ mainPc' = "awaitLogger"
    /\ UNCHANGED <<managerVars, prestartVars, server, updateClosed, watcher,
                   logger>>

LoggerDoneAlways == TRUE  \* mutant of LoggerDone: Start does not wait
LoggerDone == loggerPc = "done"

AwaitLogger ==
    /\ mainPc = "awaitLogger"
    /\ LoggerDone
    /\ Return("returned")
    /\ UNCHANGED <<goroutine, updateC, logC, history, prestartVars, server,
                   closed, watcher, logger>>

Start ==
    \/ NotifierFails \/ StartWatchers \/ ReceivePrestartError
    \/ LogPrestartError \/ PrestartClosed \/ Launch \/ ServicesDone
    \/ ShutdownRPC \/ CloseUpdates \/ AwaitStates \/ CloseIntracom
    \/ CloseLog \/ AwaitLogger

-----------------------------------------------------------------------------
(* The states watcher: each update is stored and a copy of the whole map is *)
(* published, which blocks until the topic takes it from its unbuffered     *)
(* publish channel.  The topic last took the map states holds whenever the  *)
(* watcher is not at publish.                                               *)

ReceiveUpdate ==
    /\ statesPc = "range"
    /\ updateC # <<>>
    /\ updateC' = Tail(updateC)
    /\ states' = [states EXCEPT ![Head(updateC).name] = Head(updateC).state]
    /\ statesPc' = "publish"
    /\ UNCHANGED <<goroutine, logC, ctxDone, history, prestartVars, mainPc,
                   server, closed, logger>>

PublishStates ==
    /\ statesPc = "publish"
    /\ statesPc' = "range"
    /\ UNCHANGED <<managerVars, prestartVars, mainPc, server, closed, states,
                   logger>>

StatesWatcherDone ==
    /\ statesPc = "range"
    /\ updateClosed
    /\ updateC = <<>>
    /\ statesPc' = "done"
    /\ UNCHANGED <<managerVars, prestartVars, mainPc, server, closed, states,
                   logger>>

statesWatcher == ReceiveUpdate \/ PublishStates \/ StatesWatcherDone

-----------------------------------------------------------------------------
(* The log watcher: each entry is written by a goroutine of its own, at     *)
(* most LogWorkers of them at a time.                                       *)

ReceiveLog ==
    /\ loggerPc = "range"
    /\ logC > 0
    /\ logC' = logC - 1
    /\ loggerPc' = "acquire"
    /\ UNCHANGED <<goroutine, updateC, ctxDone, history, prestartVars, mainPc,
                   server, closed, watcher, workers>>

StartLogWorker ==
    /\ loggerPc = "acquire"
    /\ workers < LogWorkers
    /\ workers' = workers + 1
    /\ loggerPc' = "range"
    /\ UNCHANGED <<managerVars, prestartVars, mainPc, server, closed, watcher>>

LogWorkerDone ==
    /\ workers > 0
    /\ workers' = workers - 1
    /\ UNCHANGED <<managerVars, prestartVars, mainPc, server, closed, watcher,
                   loggerPc>>

LogWatcherDone ==
    /\ loggerPc = "range"
    /\ logClosed
    /\ logC = 0
    /\ loggerPc' = "done"
    /\ UNCHANGED <<managerVars, prestartVars, mainPc, server, closed, watcher,
                   workers>>

serviceLogWatcher ==
    ReceiveLog \/ StartLogWorker \/ LogWorkerDone \/ LogWatcherDone

-----------------------------------------------------------------------------
ServiceStep(s) == ManageStep(s) /\ UNCHANGED <<prestartVars, daemonVars>>

PrestartStep == PipelineStep(ctxDone) /\ UNCHANGED <<managerVars, daemonVars>>

(* Start has returned and nothing is left to run.  After a failed return    *)
(* the two watchers stay blocked on channels nobody will close.             *)
Terminated ==
    /\ mainPc \in {"returned", "failed"}
    /\ ctxDone
    /\ workers = 0
    /\ UNCHANGED vars

Next ==
    \/ CancelParent \/ SignalWatcher
    \/ Start
    \/ PrestartStep
    \/ \E s \in Services : ServiceStep(s)
    \/ statesWatcher
    \/ serviceLogWatcher
    \/ Terminated

Spec == Init /\ [][Next]_vars

(* Every goroutine of the daemon runs unless it is blocked; prestart stages *)
(* and log handlers return.  Nothing obliges anybody to cancel the context. *)
Fairness ==
    /\ WF_vars(Start)
    /\ WF_vars(PrestartStep)
    /\ WF_vars(statesWatcher)
    /\ WF_vars(ReceiveLog \/ StartLogWorker \/ LogWatcherDone)
    /\ WF_vars(LogWorkerDone)
    /\ \A s \in Services : ManageFairness(s)

FairSpec == Spec /\ Fairness

-----------------------------------------------------------------------------
(* Properties.                                                              *)

(* Every variable has its type; neither channel exceeds its capacity.       *)
TypeOK ==
    /\ pc \in [Services -> ControlPoint]
    /\ state \in [Services -> State]
    /\ hasStopped \in [Services -> BOOLEAN]
    /\ updateC \in Seq(StateUpdate) /\ Len(updateC) <= UpdateCap
    /\ logC \in 0 .. LogCap
    /\ ctxDone \in BOOLEAN
    /\ last \in [Services -> {"none"} \cup State]
    /\ pushed \in [Services -> {"none"} \cup State]
    /\ panicked \in [Services -> BOOLEAN]
    /\ PrestartTypeOK
    /\ mainPc \in MainPc
    /\ server \in BOOLEAN
    /\ updateClosed \in BOOLEAN /\ logClosed \in BOOLEAN
    /\ statesPc \in {"off", "range", "publish", "done"}
    /\ states \in [Services -> State]
    /\ loggerPc \in {"off", "range", "acquire", "done"}
    /\ workers \in 0 .. LogWorkers

(* Neither a manager, nor the wrapper around it (daemon.go:232), nor Start  *)
(* ever sends on a channel that Start has closed: a service that may still  *)
(* send an update finds stateUpdateC open, one that may still log finds     *)
(* logC open.  A send on a closed channel would panic inside the deferred   *)
(* function and crash the process.  The watch goroutines a service starts   *)
(* are not covered: see NoWatchCrash in ServiceWatch.                       *)
NoSendOnClosed ==
    /\ updateClosed => \A s \in Services : pc[s] = "done"
    /\ logClosed => /\ \A s \in Services : pc[s] = "done"
                    /\ mainPc # "logPrestart"

(* A manager sends its final StateExit only after Runner.Stop has returned  *)
(* since the last Init, Idle or Run began (service_manager.go:114 "we       *)
(* always want to ensure that the service has run stop proceeding").        *)
StopBeforeExit ==
    \A s \in Services : pc[s] = "pushExit" => last[s] = "stop"

(* The Stop after the loop is never a second Stop in a row: hasStopped      *)
(* suppresses it when nothing ran since the last one.                       *)
NoSecondStop ==
    \A s \in Services : pc[s] = "finalStop" => last[s] # "stop"

(* While the runner's method for a state runs in the loop, that state is    *)
(* the last one the manager announced.                                      *)
AnnouncedState ==
    \A s \in Services : pc[s] = "call" => pushed[s] = state[s]

(* When the states watcher has finished, the map it published last shows    *)
(* every service as exited, except a RunUntilSuccess service whose panic    *)
(* its manager recovered without reporting StateExit.                       *)
FinalStates ==
    statesPc = "done" =>
        \A s \in Services :
            \/ states[s] = "exit"
            \/ Manager[s] = "RunUntilSuccess" /\ panicked[s]

(* Unless the daemon is being cancelled, services are launched only after a *)
(* pass that went through all stages and whose last stage succeeded, and    *)
(* with RestartOnError only after one in which every stage succeeded.  err  *)
(* is the last stage's (daemon_prestart.go:101): without RestartOnError an  *)
(* earlier stage may have failed.                                           *)
PrestartGate ==
    ~ctxDone /\ mainPc \in {"launch", "wait"} =>
        /\ NumStages > 0 => stage = NumStages /\ ~stageErr
        /\ restartOnError => allPassed

(* When Start returns nil the log watcher has taken every entry out of logC *)
(* and handed it to a worker; at most LogWorkers are still being written.   *)
LogsHandedOver ==
    mainPc = "returned" => logC = 0 /\ loggerPc = "done"

(* Nobody waits on a goroutine that has ended or was never started: a       *)
(* service that may still send has both watchers ahead of it, reading open  *)
(* channels; Start logs to a live log watcher, waits in dwg.Wait() only for *)
(* services it launched, and awaits a watcher only once it has closed the   *)
(* channel that watcher ranges over.                                        *)
WaitsServed ==
    /\ \A s \in Services : pc[s] \notin {"idle", "done"} =>
          /\ ~updateClosed /\ statesPc \in {"range", "publish"}
          /\ ~logClosed /\ loggerPc \in {"range", "acquire"}
    /\ mainPc = "logPrestart" => ~logClosed /\ loggerPc \in {"range", "acquire"}
    /\ mainPc = "wait" => \A s \in Services : pc[s] # "idle"
    /\ mainPc = "awaitStates" => updateClosed /\ statesPc # "off"
    /\ mainPc = "awaitLogger" => logClosed /\ loggerPc # "off"

(* StateExit is the last update a service sends, and it sends it once.      *)
ExitIsFinal ==
    [][\A s \in Services : pushed[s] = "exit" => UNCHANGED pushed[s]
                                              /\ pc'[s] \in {"deferred", "done"}]_vars

(* Once the context is cancelled Start returns: no goroutine of the daemon  *)
(* waits for ever on another.                                               *)
ShutdownCompletes == ctxDone ~> mainPc \in {"returned", "failed"}

-----------------------------------------------------------------------------
(* What the daemon makes known of its services is a Lifecycle.              *)

(* The update of s that the states watcher received last.                   *)
Exited(s) == /\ pushed[s] = "exit"
             /\ \A i \in 1 .. Len(updateC) : updateC[i].name # s

Received == [s \in Services |-> IF states[s] = "exit" /\ ~Exited(s) THEN "none"
                               ELSE states[s]]

Sent == INSTANCE Lifecycle WITH known <- pushed, over <- mainPc = "returned"
Seen == INSTANCE Lifecycle WITH known <- Received, over <- statesPc = "done"

(* The updates each manager sends form a lifecycle, under panics, errors    *)
(* and a cancellation at any point, and Start returns only when it is over. *)
SendsLifecycle == Sent!Spec

(* So do the states the states watcher puts in its map and publishes: the   *)
(* channel that all the managers share loses and reorders nothing of a      *)
(* service.                                                                 *)
PublishesLifecycle == Seen!Spec

-----------------------------------------------------------------------------
(* What comments of the source say and the code does not do.                *)

(* Every service is reported as exited once the states watcher is done      *)
(* (service_manager.go:229 "push final state to the daemon states           *)
(* watcher.").                                                              *)
ExitReported ==
    statesPc = "done" => \A s \in Services : states[s] = "exit"

-----------------------------------------------------------------------------
(* The inductive invariant behind the safety properties.                    *)

BeforeLaunch == {"start", "prestart", "logPrestart", "launch"}
AfterWait == {"shutdownRPC", "closeUpdates", "awaitStates", "closeIntracom",
              "closeLog", "awaitLogger", "returned"}

(* hasStopped tells whether Stop was the last lifecycle method, wherever    *)
(* the manager is about to read it.                                         *)
StopInv(s) ==
    /\ pc[s] \in {"idle", "startup"} => ~hasStopped[s] /\ last[s] = "none"
    /\ pc[s] = "idle" => state[s] = "init" /\ pushed[s] = "none"
    /\ pc[s] \in {"firstInit", "logInit"} => ~hasStopped[s] /\ last[s] = "init"
    /\ pc[s] \in {"push", "select", "log", "exiting"} =>
          (hasStopped[s] <=> last[s] = "stop")
    /\ pc[s] = "call" => ~hasStopped[s] /\ (state[s] = "stop" \/ last[s] = state[s])
    /\ pc[s] = "finalStop" => last[s] # "stop"
    /\ pc[s] \in {"logFinal", "pushExit"} => last[s] = "stop"

(* Which updates a goroutine has sent, by control point.                    *)
SentInv(s) ==
    /\ pc[s] \in {"push", "select", "call", "log"} => state[s] # "exit"
    /\ pc[s] \in {"select", "call"} => pushed[s] = state[s]
    /\ pc[s] \notin {"deferred", "done"} => pushed[s] # "exit"
    /\ pc[s] \in {"startup", "firstInit", "logInit", "logPanic"} =>
          Manager[s] = "RunUntilSuccess"
    /\ pc[s] = "logPanic" => panicked[s]
    /\ pc[s] \in {"deferred", "done"} =>
          \/ pushed[s] = "exit"
          \/ Manager[s] = "RunUntilSuccess" /\ panicked[s]

(* The states watcher lags behind a service only by what is in the channel. *)
ViewInv(s) ==
    \/ \E i \in 1 .. Len(updateC) :
          /\ updateC[i] = [name |-> s, state |-> pushed[s]]
          /\ \A j \in (i + 1) .. Len(updateC) : updateC[j].name # s
    \/ /\ \A i \in 1 .. Len(updateC) : updateC[i].name # s
       /\ pushed[s] \in {"none", states[s]}

(* Who may still run at each point of Start.                                *)
PhaseInv ==
    /\ mainPc \in BeforeLaunch => \A s \in Services : pc[s] = "idle"
    /\ mainPc \in AfterWait => \A s \in Services : pc[s] = "done"
    /\ updateClosed => mainPc \in {"awaitStates", "closeIntracom", "closeLog",
                                   "awaitLogger", "returned"}
    /\ logClosed => mainPc \in {"awaitLogger", "returned"}
    /\ statesPc = "done" => updateClosed /\ updateC = <<>>
    /\ loggerPc = "done" => logClosed /\ logC = 0
    /\ mainPc = "returned" => loggerPc = "done"

PrestartInv ==
    /\ mainPc \in {"launch", "wait"} => stagePc = "closed"
    /\ stagePc = "closed" /\ ~ctxDone /\ NumStages > 0 =>
          stage = NumStages /\ ~stageErr
    /\ restartOnError =>
          /\ stagePc = "stage" => allPassed
          /\ stagePc = "closed" /\ ~ctxDone => allPassed

IInv ==
    /\ TypeOK
    /\ \A s \in Services : StopInv(s) /\ SentInv(s) /\ ViewInv(s)
    /\ PhaseInv
    /\ PrestartInv

(* Which goroutines Start has launched, and which channels it has closed    *)
(* before it awaits their readers.                                          *)
StartedInv ==
    /\ mainPc \notin {"start", "failed"} => loggerPc # "off"
    /\ mainPc \in {"wait"} \cup AfterWait => statesPc # "off"
    /\ mainPc = "wait" => \A s \in Services : pc[s] # "idle"
    /\ mainPc = "failed" => \A s \in Services : pc[s] \in {"idle", "done"}
    /\ mainPc = "awaitStates" => updateClosed
    /\ mainPc = "awaitLogger" => logClosed

(* The state a manager is about to send follows the one it sent last.       *)
LoopInv(s) ==
    /\ pc[s] \in {"startup", "firstInit", "logInit"} => pushed[s] = "none"
    /\ pc[s] \in {"push", "log"} => state[s] \in Sent!Follows(Manager[s], pushed[s])

(* So do those in stateUpdateC: the first of s the one received last, every *)
(* other one its predecessor in the channel, and none an exit.              *)
QueueInv(s) ==
    /\ pushed[s] = "none" => states[s] = "exit"
    /\ \A j \in 1 .. Len(updateC) :
          updateC[j].name = s /\ (\A k \in 1 .. j - 1 : updateC[k].name # s) =>
              updateC[j].state \in Sent!Follows(Manager[s], Received[s])
    /\ \A i, j \in 1 .. Len(updateC) :
          /\ i < j /\ updateC[i].name = s /\ updateC[j].name = s
          /\ \A k \in i + 1 .. j - 1 : updateC[k].name # s
          => updateC[j].state \in Sent!Follows(Manager[s], updateC[i].state)
    /\ \A i \in 1 .. Len(updateC) :
          updateC[i] = [name |-> s, state |-> "exit"] =>
              /\ pushed[s] = "exit"
              /\ \A k \in i + 1 .. Len(updateC) : updateC[k].name # s

LifecycleInv == \A s \in Services : LoopInv(s) /\ QueueInv(s)
=============================================================================
