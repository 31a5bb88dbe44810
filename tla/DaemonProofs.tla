---------------------------- MODULE DaemonProofs ----------------------------
(***************************************************************************)
(* The safety properties of Daemon, for every set of services and every    *)
(* value of the constants: type correctness step by step, then the         *)
(* inductive invariant IInv (per service StopInv, SentInv and ViewInv, for *)
(* Start PhaseInv and PrestartInv), then the theorems that follow from it. *)
(***************************************************************************)
EXTENDS Daemon, TLAPS

(* The types of the constants, in one place. *)
LEMMA Constants ==
    /\ Manager \in [Services -> Managers]
    /\ StartupDelay \in [Services -> Nat] /\ DefaultDelay \in [Services -> Nat]
    /\ UpdateCap \in Nat \ {0} /\ LogCap \in Nat \ {0}
    /\ NumStages \in Nat /\ RestartModes \subseteq BOOLEAN
    /\ LogWorkers \in Nat \ {0} /\ RPCEnabled \in BOOLEAN
BY ManagerAssumption, DelayAssumption, CapAssumption, PrestartAssumption,
   DaemonAssumption

(* The initial state has its types. *)
LEMMA TypeInit == Init => TypeOK
<1> SUFFICES ASSUME Init PROVE TypeOK
  OBVIOUS
<1>1. updateC \in Seq(StateUpdate) /\ Len(updateC) <= UpdateCap
  BY Constants DEF Init, ManagerInit
<1>2. PrestartTypeOK
  <2>1. stage \in 0 .. NumStages /\ errC \in 0 .. 1
    BY Constants DEF Init, PrestartInit
  <2>2. restartOnError \in BOOLEAN
    BY Constants, Zenon DEF Init, PrestartInit
  <2> QED
    BY <2>1, <2>2 DEF Init, PrestartInit, PrestartTypeOK
<1>3. /\ pc \in [Services -> ControlPoint]
      /\ state \in [Services -> State]
      /\ hasStopped \in [Services -> BOOLEAN]
      /\ last \in [Services -> {"none"} \cup State]
      /\ pushed \in [Services -> {"none"} \cup State]
      /\ panicked \in [Services -> BOOLEAN]
      /\ states \in [Services -> State]
  BY DEF Init, ManagerInit, ControlPoint, State
<1>4. logC \in 0 .. LogCap /\ workers \in 0 .. LogWorkers
  BY Constants DEF Init, ManagerInit
<1> QED
  BY <1>1, <1>2, <1>3, <1>4 DEF Init, ManagerInit, TypeOK, MainPc

(* The part of TypeOK that a step of a service goroutine can disturb. *)
ServiceTypeOK ==
    /\ pc \in [Services -> ControlPoint]
    /\ state \in [Services -> State]
    /\ hasStopped \in [Services -> BOOLEAN]
    /\ updateC \in Seq(StateUpdate) /\ Len(updateC) <= UpdateCap
    /\ logC \in 0 .. LogCap
    /\ ctxDone \in BOOLEAN
    /\ last \in [Services -> {"none"} \cup State]
    /\ pushed \in [Services -> {"none"} \cup State]
    /\ panicked \in [Services -> BOOLEAN]

(* A send on stateUpdateC respects its capacity. *)
LEMMA SendType ==
    ASSUME TypeOK, NEW s \in Services, NEW st \in State, Send(s, st)
    PROVE  /\ updateC' \in Seq(StateUpdate)
           /\ Len(updateC') <= UpdateCap
           /\ pushed' \in [Services -> {"none"} \cup State]
BY Constants DEF TypeOK, Send, UpdateRoom, StateUpdate

(* A step of a service goroutine keeps the types. *)
LEMMA ManageType ==
    ASSUME TypeOK, NEW s \in Services, ManageStep(s)
    PROVE  ServiceTypeOK'
<1> USE Constants DEF TypeOK, ServiceTypeOK, ControlPoint, Pushing, Logging,
        State, Goto
<1>1. CASE StartupTickerPanics(s)
  BY <1>1 DEF StartupTickerPanics, Panic, RecoverPoint
<1>2. CASE StartupCancelled(s)
  BY <1>2 DEF StartupCancelled, LoopPoint, history
<1>3. CASE StartupTick(s)
  BY <1>3 DEF StartupTick
<1>4. CASE FirstInitReturns(s)
  <2>1. state' \in [Services -> State]
    BY <1>4 DEF FirstInitReturns, AfterFirstInit
  <2>2. pc' \in [Services -> ControlPoint] /\ panicked' \in [Services -> BOOLEAN]
    <3>1. CASE AfterFirstInit(s)
      BY <3>1 DEF AfterFirstInit, Panic, RecoverPoint
    <3>2. CASE Goto(s, "logInit") /\ UNCHANGED panicked
      BY <3>2
    <3>3. CASE Panic(s)
      BY <3>3 DEF Panic, RecoverPoint
    <3> QED
      BY <1>4, <3>1, <3>2, <3>3 DEF FirstInitReturns
  <2> QED
    BY <1>4, <2>1, <2>2 DEF FirstInitReturns
<1>5. CASE PushState(s)
  BY <1>5, SendType DEF PushState
<1>6. CASE SelectDone(s)
  BY <1>6 DEF SelectDone, LoopPoint, history
<1>7. CASE SelectTimer(s)
  BY <1>7 DEF SelectTimer, ClearStopped
<1>8. CASE CallReturns(s)
  BY <1>8 DEF CallReturns, LoopPoint, MarkStopped, NextState
<1>9. CASE CallPanics(s)
  BY <1>9 DEF CallPanics, Panic, RecoverPoint
<1>10. CASE LeaveLoop(s)
  BY <1>10 DEF LeaveLoop, history
<1>11. CASE FinalStopReturns(s)
  BY <1>11 DEF FinalStopReturns
<1>12. CASE PushExit(s)
  BY <1>12, SendType DEF PushExit
<1>13. CASE RecoverPanic(s)
  BY <1>13, SendType DEF RecoverPanic
<1>14. CASE WgDone(s)
  BY <1>14 DEF WgDone, history
<1>15. CASE Log(s)
  <2>1. logC' \in 0 .. LogCap
    BY <1>15 DEF Log
  <2>2. CASE pc[s] = "logInit"
    <3>1. AfterFirstInit(s)
      BY <1>15, <2>2 DEF Log
    <3>2. state' \in [Services -> State]
      BY <3>1 DEF AfterFirstInit
    <3>3. pc' \in [Services -> ControlPoint] /\ panicked' \in [Services -> BOOLEAN]
      BY <3>1 DEF AfterFirstInit, Panic, RecoverPoint
    <3> QED
      BY <1>15, <2>1, <3>2, <3>3 DEF Log
  <2>3. CASE pc[s] # "logInit"
    BY <1>15, <2>1, <2>3 DEF Log
  <2> QED
    BY <2>2, <2>3
<1> QED
  BY <1>1, <1>2, <1>3, <1>4, <1>5, <1>6, <1>7, <1>8, <1>9,
     <1>10, <1>11, <1>12, <1>13, <1>14, <1>15
  DEF ManageStep

(* The states watcher taking an update keeps the types. *)
LEMMA ReceiveUpdateType ==
    ASSUME TypeOK, ReceiveUpdate
    PROVE  /\ updateC' \in Seq(StateUpdate)
           /\ Len(updateC') <= UpdateCap
           /\ states' \in [Services -> State]
<1>1. Head(updateC) \in StateUpdate
  BY DEF TypeOK, ReceiveUpdate
<1>2. updateC' \in Seq(StateUpdate) /\ Len(updateC') <= UpdateCap
  BY Constants DEF TypeOK, ReceiveUpdate
<1> QED
  BY <1>1, <1>2 DEF TypeOK, ReceiveUpdate, StateUpdate

(* A step of the prestart pipeline keeps the types. *)
LEMMA PipelineType ==
    ASSUME TypeOK, PipelineStep(ctxDone)
    PROVE  PrestartTypeOK'
<1> USE Constants DEF TypeOK, PrestartTypeOK
<1>1. CASE PipelineCancelled(ctxDone)
  BY <1>1 DEF PipelineCancelled
<1>2. CASE BeginPass
  <2>1. stage' \in 0 .. NumStages /\ errC' \in 0 .. 1
    BY <1>2 DEF BeginPass
  <2> QED
    BY <1>2, <2>1 DEF BeginPass
<1>3. CASE StagePasses(ctxDone)
  <2>1. stage' \in 0 .. NumStages /\ errC' \in 0 .. 1
    BY <1>3 DEF StagePasses, AfterStage
  <2> QED
    BY <1>3, <2>1 DEF StagePasses, AfterStage
<1>4. CASE StageFails(ctxDone)
  BY <1>4 DEF StageFails
<1>5. CASE ReportFailure
  <2>1. stage' \in 0 .. NumStages /\ errC' \in 0 .. 1
    BY <1>5 DEF ReportFailure, Restarts, AfterStage
  <2> QED
    BY <1>5, <2>1 DEF ReportFailure, Restarts, AfterStage
<1> QED
  BY <1>1, <1>2, <1>3, <1>4, <1>5 DEF PipelineStep

(* A step of Start keeps the types. *)
LEMMA StartType ==
    ASSUME TypeOK, Start
    PROVE  TypeOK'
<1> USE DEF TypeOK, managerVars, goroutine, history, prestartVars, pipeline,
        closed, watcher, logger, MainPc
<1>1. CASE NotifierFails
  BY <1>1, Constants DEF NotifierFails, Return, PrestartTypeOK
<1>2. CASE StartWatchers
  <2>1. PrestartTypeOK'
    BY <1>2, Constants DEF StartWatchers, RunPipeline, PrestartTypeOK
  <2> QED
    BY <1>2, <2>1 DEF StartWatchers
<1>3. CASE ReceivePrestartError
  BY <1>3, Constants DEF ReceivePrestartError, PrestartTypeOK
<1>4. CASE LogPrestartError
  <2>1. logC' \in 0 .. LogCap
    BY <1>4, Constants DEF LogPrestartError
  <2> QED
    BY <1>4, <2>1 DEF LogPrestartError, PrestartTypeOK
<1>5. CASE PrestartClosed
  BY <1>5, Constants DEF PrestartClosed, PrestartTypeOK
<1>6. CASE Launch
  <2>1. server' \in BOOLEAN
    BY <1>6, Constants DEF Launch
  <2>2. pc' \in [Services -> ControlPoint]
    BY <1>6 DEF Launch, EntryPoint, ControlPoint, Pushing
  <2> QED
    BY <1>6, <2>1, <2>2 DEF Launch, PrestartTypeOK
<1>7. CASE ServicesDone
  BY <1>7, Constants DEF ServicesDone, WgZero, PrestartTypeOK
<1>8. CASE ShutdownRPC
  <2>1. ctxDone' \in BOOLEAN /\ mainPc' \in MainPc
    BY <1>8 DEF ShutdownRPC, Return
  <2> QED
    BY <1>8, <2>1 DEF ShutdownRPC, PrestartTypeOK
<1>9. CASE CloseUpdates
  BY <1>9, Constants DEF CloseUpdates, CloseUpdateC, PrestartTypeOK
<1>10. CASE AwaitStates
  BY <1>10, Constants DEF AwaitStates, PrestartTypeOK
<1>11. CASE CloseIntracom
  BY <1>11, Constants DEF CloseIntracom, PrestartTypeOK
<1>12. CASE CloseLog
  BY <1>12, Constants DEF CloseLog, PrestartTypeOK
<1>13. CASE AwaitLogger
  BY <1>13, Constants DEF AwaitLogger, LoggerDone, Return, PrestartTypeOK
<1> QED
  BY <1>1, <1>2, <1>3, <1>4, <1>5, <1>6, <1>7, <1>8, <1>9,
     <1>10, <1>11, <1>12, <1>13
  DEF Start

(* Type correctness is preserved by every step. *)
LEMMA TypeStep == TypeOK /\ [Next]_vars => TypeOK'
<1> SUFFICES ASSUME TypeOK, [Next]_vars PROVE TypeOK'
  OBVIOUS
<1> USE DEF managerVars, goroutine, history, prestartVars, pipeline,
        closed, watcher, logger, daemonVars
<1>1. CASE CancelParent \/ SignalWatcher
  <2>1. ctxDone' \in BOOLEAN
    BY <1>1 DEF CancelParent, SignalWatcher
  <2> QED
    BY <1>1, <2>1 DEF CancelParent, SignalWatcher, TypeOK, PrestartTypeOK
<1>2. CASE Start
  BY <1>2, StartType
<1>3. CASE PrestartStep
  BY <1>3, PipelineType DEF PrestartStep, TypeOK
<1>4. ASSUME NEW s \in Services, ServiceStep(s) PROVE TypeOK'
  <2>1. ServiceTypeOK'
    BY <1>4, ManageType DEF ServiceStep
  <2> QED
    BY <1>4, <2>1 DEF ServiceStep, ServiceTypeOK, TypeOK, PrestartTypeOK
<1>5. CASE statesWatcher
  <2>1. CASE ReceiveUpdate
    BY <2>1, ReceiveUpdateType DEF ReceiveUpdate, TypeOK, PrestartTypeOK
  <2>2. CASE PublishStates
    BY <2>2 DEF PublishStates, TypeOK, PrestartTypeOK
  <2>3. CASE StatesWatcherDone
    BY <2>3 DEF StatesWatcherDone, TypeOK, PrestartTypeOK
  <2> QED
    BY <1>5, <2>1, <2>2, <2>3 DEF statesWatcher
<1>6. CASE serviceLogWatcher
  <2> USE Constants DEF TypeOK, PrestartTypeOK
  <2>1. CASE ReceiveLog
    BY <2>1 DEF ReceiveLog
  <2>2. CASE StartLogWorker
    BY <2>2 DEF StartLogWorker
  <2>3. CASE LogWorkerDone
    BY <2>3 DEF LogWorkerDone
  <2>4. CASE LogWatcherDone
    BY <2>4 DEF LogWatcherDone
  <2> QED
    BY <1>6, <2>1, <2>2, <2>3, <2>4 DEF serviceLogWatcher
<1>7. CASE UNCHANGED vars
  BY <1>7 DEF vars, TypeOK, PrestartTypeOK
<1> QED
  BY <1>1, <1>2, <1>3, <1>4, <1>5, <1>6, <1>7 DEF Next, Terminated

-----------------------------------------------------------------------------
(* What a step of one service goroutine does to the goroutines: nothing to  *)
(* the others.                                                              *)
LEMMA ManageFrame ==
    ASSUME TypeOK, NEW s \in Services, ManageStep(s),
           NEW t \in Services, t # s
    PROVE  /\ pc'[t] = pc[t] /\ state'[t] = state[t]
           /\ hasStopped'[t] = hasStopped[t] /\ last'[t] = last[t]
           /\ pushed'[t] = pushed[t] /\ panicked'[t] = panicked[t]
BY DEF TypeOK, ManageStep, Goto, Send, UpdateRoom, Panic, AfterFirstInit,
   history, StartupTickerPanics, StartupCancelled, LoopPoint, StartupTick,
   FirstInitReturns, PushState, SelectDone, SelectTimer, ClearStopped,
   CallReturns, MarkStopped, CallPanics, LeaveLoop, FinalStopReturns, PushExit,
   RecoverPanic, WgDone, Log

(* A goroutine's own steps keep hasStopped in agreement with Stop. *)
LEMMA ManageStopInv ==
    ASSUME TypeOK, NEW s \in Services, StopInv(s), ManageStep(s)
    PROVE  StopInv(s)'
<1> USE Constants DEF TypeOK, StopInv, Goto, Managers, State
<1>1. CASE StartupTickerPanics(s)
  BY <1>1 DEF StartupTickerPanics, Panic, RecoverPoint
<1>2. CASE StartupCancelled(s)
  BY <1>2 DEF StartupCancelled, LoopPoint, history
<1>3. CASE StartupTick(s)
  BY <1>3 DEF StartupTick
<1>4. CASE FirstInitReturns(s)
  BY <1>4 DEF FirstInitReturns, AfterFirstInit, Panic, RecoverPoint
<1>5. CASE PushState(s)
  BY <1>5 DEF PushState, Send, UpdateRoom
<1>6. CASE SelectDone(s)
  BY <1>6 DEF SelectDone, LoopPoint, history
<1>7. CASE SelectTimer(s)
  BY <1>7 DEF SelectTimer, ClearStopped
<1>8. CASE CallReturns(s)
  <2>1. pc[s] = "call" /\ pc'[s] \in {"log", "push", "exiting"}
    BY <1>8 DEF CallReturns, LoopPoint
  <2>2. hasStopped'[s] <=> state[s] = "stop"
    BY <1>8, <2>1 DEF CallReturns, MarkStopped
  <2>3. last'[s] = "stop" <=> state[s] = "stop"
    BY <1>8, <2>1 DEF CallReturns
  <2> QED
    BY <2>1, <2>2, <2>3
<1>9. CASE CallPanics(s)
  BY <1>9 DEF CallPanics, Panic, RecoverPoint
<1>10. CASE LeaveLoop(s)
  BY <1>10 DEF LeaveLoop, history
<1>11. CASE FinalStopReturns(s)
  BY <1>11 DEF FinalStopReturns
<1>12. CASE PushExit(s)
  BY <1>12 DEF PushExit, Send, UpdateRoom
<1>13. CASE RecoverPanic(s)
  BY <1>13 DEF RecoverPanic, Send, UpdateRoom
<1>14. CASE WgDone(s)
  BY <1>14 DEF WgDone, history
<1>15. CASE Log(s)
  BY <1>15 DEF Log, AfterFirstInit, Panic, RecoverPoint, Logging
<1> QED
  BY <1>1, <1>2, <1>3, <1>4, <1>5, <1>6, <1>7, <1>8, <1>9,
     <1>10, <1>11, <1>12, <1>13, <1>14, <1>15
  DEF ManageStep

(* A goroutine's own steps keep what it has sent in agreement with pc. *)
LEMMA ManageSentInv ==
    ASSUME TypeOK, NEW s \in Services, SentInv(s), ManageStep(s)
    PROVE  SentInv(s)'
<1> USE Constants DEF TypeOK, SentInv, Goto, Managers, State
<1>1. CASE StartupTickerPanics(s)
  BY <1>1 DEF StartupTickerPanics, Panic, RecoverPoint
<1>2. CASE StartupCancelled(s)
  BY <1>2 DEF StartupCancelled, LoopPoint, history
<1>3. CASE StartupTick(s)
  BY <1>3 DEF StartupTick
<1>4. CASE FirstInitReturns(s)
  BY <1>4 DEF FirstInitReturns, AfterFirstInit, Panic, RecoverPoint
<1>5. CASE PushState(s)
  BY <1>5 DEF PushState, Send, UpdateRoom
<1>6. CASE SelectDone(s)
  BY <1>6 DEF SelectDone, LoopPoint, history
<1>7. CASE SelectTimer(s)
  BY <1>7 DEF SelectTimer, ClearStopped
<1>8. CASE CallReturns(s)
  BY <1>8 DEF CallReturns, LoopPoint, MarkStopped, NextState
<1>9. CASE CallPanics(s)
  BY <1>9 DEF CallPanics, Panic, RecoverPoint
<1>10. CASE LeaveLoop(s)
  BY <1>10 DEF LeaveLoop, history
<1>11. CASE FinalStopReturns(s)
  BY <1>11 DEF FinalStopReturns
<1>12. CASE PushExit(s)
  BY <1>12 DEF PushExit, Send, UpdateRoom
<1>13. CASE RecoverPanic(s)
  BY <1>13 DEF RecoverPanic, Send, UpdateRoom
<1>14. CASE WgDone(s)
  BY <1>14 DEF WgDone, history
<1>15. CASE Log(s)
  BY <1>15 DEF Log, AfterFirstInit, Panic, RecoverPoint, Logging
<1> QED
  BY <1>1, <1>2, <1>3, <1>4, <1>5, <1>6, <1>7, <1>8, <1>9,
     <1>10, <1>11, <1>12, <1>13, <1>14, <1>15
  DEF ManageStep

(* Sending an update makes it the last one of its service in the channel.   *)
LEMMA SendView ==
    ASSUME TypeOK, NEW s \in Services, NEW st \in State, Send(s, st),
           UNCHANGED states, NEW t \in Services, ViewInv(t)
    PROVE  ViewInv(t)'
<1> DEFINE u == [name |-> s, state |-> st]
           n == Len(updateC)
<1>1. /\ updateC \in Seq(StateUpdate) /\ u \in StateUpdate /\ n \in Nat
      /\ updateC' = Append(updateC, u)
  BY DEF TypeOK, Send, UpdateRoom, StateUpdate
<1>2. /\ Len(updateC') = n + 1
      /\ \A i \in 1 .. n : updateC'[i] = updateC[i]
      /\ updateC'[n + 1] = u
  BY <1>1
<1>3. pushed'[s] = st /\ (t # s => pushed'[t] = pushed[t])
  BY DEF Send, UpdateRoom, TypeOK
<1> HIDE DEF n
<1>4. CASE t = s
  <2>1. n + 1 \in 1 .. Len(updateC')
    BY <1>1, <1>2, SMTT(30)
  <2>2. updateC'[n + 1] = [name |-> t, state |-> pushed'[t]]
    BY <1>2, <1>3, <1>4
  <2>3. \A j \in ((n + 1) + 1) .. Len(updateC') : updateC'[j].name # t
    BY <1>1, <1>2
  <2> QED
    BY <2>1, <2>2, <2>3 DEF ViewInv
<1>5. CASE t # s
  <2>1. CASE \E i \in 1 .. n :
                /\ updateC[i] = [name |-> t, state |-> pushed[t]]
                /\ \A j \in (i + 1) .. n : updateC[j].name # t
    <3>1. PICK i \in 1 .. n :
                /\ updateC[i] = [name |-> t, state |-> pushed[t]]
                /\ \A j \in (i + 1) .. n : updateC[j].name # t
      BY <2>1
    <3>2. updateC'[i] = [name |-> t, state |-> pushed'[t]] /\ i \in 1 .. Len(updateC')
      BY <1>1, <1>2, <1>3, <1>5, <3>1
    <3>3. \A j \in (i + 1) .. Len(updateC') : updateC'[j].name # t
      BY <1>1, <1>2, <1>5, <3>1
    <3> QED
      BY <3>2, <3>3 DEF ViewInv
  <2>2. CASE /\ \A i \in 1 .. n : updateC[i].name # t
             /\ pushed[t] \in {"none", states[t]}
    <3>1. ASSUME NEW i \in 1 .. Len(updateC') PROVE updateC'[i].name # t
      <4>1. i \in 1 .. n \/ i = n + 1
        BY <1>1, <1>2
      <4>2. CASE i \in 1 .. n
        BY <1>2, <2>2, <4>2
      <4>3. CASE i = n + 1
        BY <1>2, <1>5, <4>3
      <4> QED
        BY <4>1, <4>2, <4>3
    <3> QED
      BY <1>3, <1>5, <2>2, <3>1 DEF ViewInv
  <2> QED
    BY <2>1, <2>2 DEF ViewInv, n
<1> QED
  BY <1>4, <1>5

(* The watcher stores the oldest update: when it was the last one of its    *)
(* service in the channel, the map now shows what the service last sent.    *)
LEMMA ReceiveView ==
    ASSUME TypeOK, ReceiveUpdate, NEW t \in Services, ViewInv(t)
    PROVE  ViewInv(t)'
<1> DEFINE n == Len(updateC)
<1>1. /\ updateC \in Seq(StateUpdate) /\ n \in Nat /\ n > 0
      /\ updateC' = Tail(updateC)
      /\ Head(updateC) = updateC[1] /\ updateC[1] \in StateUpdate
      /\ states' = [states EXCEPT ![updateC[1].name] = updateC[1].state]
      /\ pushed' = pushed
  <2>1. updateC \in Seq(StateUpdate) /\ updateC # <<>>
    BY DEF TypeOK, ReceiveUpdate
  <2>2. n \in Nat /\ n > 0 /\ Head(updateC) = updateC[1] /\ updateC[1] \in StateUpdate
    BY <2>1
  <2> QED
    BY <2>1, <2>2 DEF ReceiveUpdate, history
<1>2. /\ Len(updateC') = n - 1
      /\ \A i \in 1 .. n - 1 : updateC'[i] = updateC[i + 1]
  <2>1. updateC \in Seq(StateUpdate) /\ updateC # <<>> /\ updateC' = Tail(updateC)
    BY DEF TypeOK, ReceiveUpdate
  <2>2. Len(updateC') = n - 1
    BY <2>1
  <2>3. \A i \in 1 .. n - 1 : updateC'[i] = updateC[i + 1]
    BY <2>1
  <2> QED
    BY <2>2, <2>3
<1>3. /\ updateC[1].name = t => states'[t] = updateC[1].state
      /\ updateC[1].name # t => states'[t] = states[t]
  BY <1>1 DEF TypeOK, StateUpdate
<1> HIDE DEF n
<1>4. CASE \E i \in 1 .. n :
              /\ updateC[i] = [name |-> t, state |-> pushed[t]]
              /\ \A j \in (i + 1) .. n : updateC[j].name # t
  <2>1. PICK i \in 1 .. n :
              /\ updateC[i] = [name |-> t, state |-> pushed[t]]
              /\ \A j \in (i + 1) .. n : updateC[j].name # t
    BY <1>4
  <2>2. CASE i = 1
    <3>1. \A k \in 1 .. Len(updateC') : updateC'[k].name # t
      BY <1>1, <1>2, <2>1, <2>2
    <3>2. pushed'[t] = states'[t]
      BY <1>1, <1>3, <2>1, <2>2
    <3> QED
      BY <3>1, <3>2 DEF ViewInv
  <2>3. CASE i > 1
    <3>1. i - 1 \in 1 .. Len(updateC')
      BY <1>1, <1>2, <2>1, <2>3, SMTT(30)
    <3>2. updateC'[i - 1] = [name |-> t, state |-> pushed'[t]]
      BY <1>1, <1>2, <2>1, <2>3, SMTT(30)
    <3>3. \A j \in ((i - 1) + 1) .. Len(updateC') : updateC'[j].name # t
      BY <1>1, <1>2, <2>1, <2>3
    <3> QED
      BY <3>1, <3>2, <3>3 DEF ViewInv
  <2> QED
    BY <1>1, <2>2, <2>3
<1>5. CASE /\ \A i \in 1 .. n : updateC[i].name # t
           /\ pushed[t] \in {"none", states[t]}
  <2>1. \A i \in 1 .. Len(updateC') : updateC'[i].name # t
    BY <1>1, <1>2, <1>5
  <2>2. pushed'[t] \in {"none", states'[t]}
    BY <1>1, <1>3, <1>5
  <2> QED
    BY <2>1, <2>2 DEF ViewInv
<1> QED
  BY <1>4, <1>5 DEF ViewInv, n

(* What steps other than those of a service goroutine leave alone. *)
ServicesUnchanged == UNCHANGED <<pc, state, hasStopped, last, pushed, panicked>>

(* The invariants of a service survive steps that leave it alone. *)
LEMMA UnchangedInv ==
    ASSUME NEW s \in Services, ServicesUnchanged
    PROVE  /\ StopInv(s) => StopInv(s)'
           /\ SentInv(s) => SentInv(s)'
           /\ UNCHANGED <<updateC, states>> /\ ViewInv(s) => ViewInv(s)'
BY DEF ServicesUnchanged, StopInv, SentInv, ViewInv

(* The invariants of all the services. *)
ServicesInv == \A s \in Services : StopInv(s) /\ SentInv(s) /\ ViewInv(s)

(* A step of one service preserves the invariants of every service. *)
LEMMA ManageServicesInv ==
    ASSUME TypeOK, ServicesInv, UNCHANGED states, NEW s \in Services, ManageStep(s)
    PROVE  ServicesInv'
<1> SUFFICES ASSUME NEW t \in Services
             PROVE  StopInv(t)' /\ SentInv(t)' /\ ViewInv(t)'
  BY DEF ServicesInv
<1>1. StopInv(t)' /\ SentInv(t)'
  <2>1. CASE t = s
    BY <2>1, ManageStopInv, ManageSentInv DEF ServicesInv
  <2>2. CASE t # s
    <3>1. /\ pc'[t] = pc[t] /\ state'[t] = state[t]
          /\ hasStopped'[t] = hasStopped[t] /\ last'[t] = last[t]
          /\ pushed'[t] = pushed[t] /\ panicked'[t] = panicked[t]
      BY <2>2, ManageFrame
    <3>2. StopInv(t)'
      BY <3>1 DEF ServicesInv, StopInv
    <3>3. SentInv(t)'
      BY <3>1 DEF ServicesInv, SentInv
    <3> QED
      BY <3>2, <3>3
  <2> QED
    BY <2>1, <2>2
<1>2. ViewInv(t)'
  <2>1. CASE PushState(s) \/ PushExit(s) \/ RecoverPanic(s)
    <3>1. CASE PushState(s)
      BY <3>1, SendView DEF PushState, ServicesInv, TypeOK, State
    <3>2. CASE PushExit(s)
      BY <3>2, SendView DEF PushExit, ServicesInv, TypeOK, State
    <3>3. CASE RecoverPanic(s)
      BY <3>3, SendView DEF RecoverPanic, ServicesInv, TypeOK, State
    <3> QED
      BY <2>1, <3>1, <3>2, <3>3
  <2>2. CASE UNCHANGED <<updateC, pushed>>
    BY <2>2 DEF ServicesInv, ViewInv
  <2>3. UNCHANGED <<updateC, pushed>> \/ PushState(s) \/ PushExit(s) \/ RecoverPanic(s)
    BY DEF ManageStep, StartupTickerPanics, StartupCancelled, LoopPoint,
       StartupTick, FirstInitReturns, SelectDone, SelectTimer, ClearStopped,
       CallReturns, MarkStopped, CallPanics, LeaveLoop, FinalStopReturns,
       WgDone, Log, history
  <2> QED
    BY <2>1, <2>2, <2>3
<1> QED
  BY <1>1, <1>2

(* A service goroutine only runs between its launch and its wg.Done(). *)
LEMMA ManagePc ==
    ASSUME NEW s \in Services, ManageStep(s)
    PROVE  pc[s] \notin {"idle", "done"}
BY DEF ManageStep, StartupTickerPanics, StartupCancelled, LoopPoint,
   StartupTick, FirstInitReturns, PushState, SelectDone, SelectTimer,
   ClearStopped, CallReturns, MarkStopped, CallPanics, LeaveLoop,
   FinalStopReturns, PushExit, RecoverPanic, WgDone, Log, Logging

(* The steps of Start, Launch included, preserve them. *)
LEMMA StartServicesInv ==
    ASSUME TypeOK, ServicesInv, PhaseInv, Start
    PROVE  ServicesInv'
<1>1. CASE Launch
  <2> SUFFICES ASSUME NEW s \in Services
               PROVE  StopInv(s)' /\ SentInv(s)' /\ ViewInv(s)'
    BY DEF ServicesInv
  <2>1. StopInv(s) /\ SentInv(s) /\ ViewInv(s) /\ pc[s] = "idle"
    BY <1>1 DEF ServicesInv, PhaseInv, Launch, BeforeLaunch
  <2>2. /\ pc'[s] = IF Manager[s] = "RunUntilSuccess" THEN "startup" ELSE "push"
        /\ UNCHANGED <<state, hasStopped, last, pushed, panicked, updateC, states>>
    BY <1>1 DEF Launch, EntryPoint, history
  <2>3. StopInv(s)'
    BY <2>1, <2>2 DEF StopInv
  <2>4. SentInv(s)'
    BY <2>1, <2>2 DEF StopInv, SentInv
  <2>5. ViewInv(s)'
    BY <2>1, <2>2 DEF ViewInv
  <2> QED
    BY <2>3, <2>4, <2>5
<1>2. CASE ~Launch
  <2>1. ServicesUnchanged /\ UNCHANGED <<updateC, states>>
    BY <1>2 DEF Start, NotifierFails, StartWatchers, ReceivePrestartError,
       LogPrestartError, PrestartClosed, ServicesDone, WgZero, ShutdownRPC,
       CloseUpdates, CloseUpdateC, AwaitStates, CloseIntracom, CloseLog,
       AwaitLogger, LoggerDone, ServicesUnchanged, managerVars, goroutine,
       history, watcher
  <2> QED
    BY <2>1, UnchangedInv DEF ServicesInv
<1> QED
  BY <1>1, <1>2

(* The steps of Start respect the order of the shutdown. *)
LEMMA StartPhaseInv ==
    ASSUME TypeOK, PhaseInv, Start
    PROVE  PhaseInv'
<1> USE DEF PhaseInv, BeforeLaunch, AfterWait, managerVars, goroutine, closed,
        watcher, logger
<1>1. CASE NotifierFails
  BY <1>1 DEF NotifierFails, Return
<1>2. CASE StartWatchers
  BY <1>2 DEF StartWatchers
<1>3. CASE ReceivePrestartError
  BY <1>3 DEF ReceivePrestartError
<1>4. CASE LogPrestartError
  BY <1>4 DEF LogPrestartError
<1>5. CASE PrestartClosed
  BY <1>5 DEF PrestartClosed
<1>6. CASE Launch
  BY <1>6 DEF Launch, EntryPoint
<1>7. CASE ServicesDone
  BY <1>7 DEF ServicesDone, WgZero
<1>8. CASE ShutdownRPC
  BY <1>8 DEF ShutdownRPC, Return
<1>9. CASE CloseUpdates
  BY <1>9 DEF CloseUpdates, CloseUpdateC
<1>10. CASE AwaitStates
  BY <1>10 DEF AwaitStates
<1>11. CASE CloseIntracom
  BY <1>11 DEF CloseIntracom
<1>12. CASE CloseLog
  BY <1>12 DEF CloseLog
<1>13. CASE AwaitLogger
  BY <1>13 DEF AwaitLogger, LoggerDone, Return
<1> QED
  BY <1>1, <1>2, <1>3, <1>4, <1>5, <1>6, <1>7, <1>8, <1>9,
     <1>10, <1>11, <1>12, <1>13
  DEF Start

(* Start passes the prestart gate only once errC is closed. *)
LEMMA StartPrestartInv ==
    ASSUME TypeOK, PrestartInv, Start
    PROVE  PrestartInv'
<1> USE DEF PrestartInv, managerVars, prestartVars, pipeline
<1>1. CASE NotifierFails
  BY <1>1 DEF NotifierFails, Return
<1>2. CASE StartWatchers
  <2>1. /\ mainPc' = "prestart" /\ UNCHANGED <<restartOnError, ctxDone>>
        /\ stagePc' = (IF NumStages = 0 THEN "closed" ELSE "wait")
        /\ allPassed' = (NumStages = 0)
    BY <1>2, Zenon DEF StartWatchers, RunPipeline
  <2>2. NumStages > 0 => stagePc' = "wait"
    BY <2>1
  <2>3. stagePc' = "closed" => allPassed'
    BY <2>1, Zenon
  <2>4. stagePc' # "stage" /\ mainPc' \notin {"launch", "wait"}
    BY <2>1
  <2> QED
    BY <2>2, <2>3, <2>4
<1>3. CASE ReceivePrestartError
  BY <1>3 DEF ReceivePrestartError
<1>4. CASE LogPrestartError
  BY <1>4 DEF LogPrestartError
<1>5. CASE PrestartClosed
  BY <1>5 DEF PrestartClosed
<1>6. CASE Launch
  BY <1>6 DEF Launch, EntryPoint
<1>7. CASE ServicesDone
  BY <1>7 DEF ServicesDone, WgZero
<1>8. CASE ShutdownRPC
  BY <1>8 DEF ShutdownRPC, Return
<1>9. CASE CloseUpdates
  BY <1>9 DEF CloseUpdates, CloseUpdateC
<1>10. CASE AwaitStates
  BY <1>10 DEF AwaitStates
<1>11. CASE CloseIntracom
  BY <1>11 DEF CloseIntracom
<1>12. CASE CloseLog
  BY <1>12 DEF CloseLog
<1>13. CASE AwaitLogger
  BY <1>13 DEF AwaitLogger, LoggerDone, Return
<1> QED
  BY <1>1, <1>2, <1>3, <1>4, <1>5, <1>6, <1>7, <1>8, <1>9,
     <1>10, <1>11, <1>12, <1>13
  DEF Start

(* The pipeline ends only after its last stage passed, and with             *)
(* RestartOnError only after a clean pass.                                  *)
LEMMA PipelinePrestartInv ==
    ASSUME TypeOK, PrestartInv, PipelineStep(ctxDone), UNCHANGED <<mainPc, ctxDone>>
    PROVE  PrestartInv'
<1> USE DEF PrestartInv
<1>1. CASE PipelineCancelled(ctxDone)
  BY <1>1 DEF PipelineCancelled
<1>2. CASE BeginPass
  BY <1>2 DEF BeginPass
<1>3. CASE StagePasses(ctxDone)
  <2>1. /\ stagePc = "stage" /\ ~stageErr'
        /\ UNCHANGED <<restartOnError, allPassed, mainPc, ctxDone>>
        /\ IF stage < NumStages THEN stagePc' = "stage" ELSE stagePc' = "closed" /\ stage' = stage
    BY <1>3, Zenon DEF StagePasses, AfterStage
  <2>2. stage \in Nat /\ NumStages \in Nat /\ stage <= NumStages
    BY Constants DEF TypeOK, PrestartTypeOK
  <2>3. stagePc' = "closed" => stage' = NumStages
    BY <2>1, <2>2
  <2>4. stagePc' \in {"stage", "closed"}
    BY <2>1
  <2>5. mainPc' \notin {"launch", "wait"} /\ (restartOnError => allPassed)
    BY <2>1
  <2> QED
    BY <2>1, <2>3, <2>4, <2>5, Zenon
<1>4. CASE StageFails(ctxDone)
  BY <1>4 DEF StageFails
<1>5. CASE ReportFailure
  BY <1>5 DEF ReportFailure, Restarts, AfterStage
<1> QED
  BY <1>1, <1>2, <1>3, <1>4, <1>5 DEF PipelineStep

(* IInv holds initially. *)
LEMMA IInvInit == Init => IInv
<1> SUFFICES ASSUME Init PROVE IInv
  OBVIOUS
<1>1. TypeOK
  BY TypeInit
<1>2. ASSUME NEW s \in Services PROVE StopInv(s) /\ SentInv(s) /\ ViewInv(s)
  BY DEF Init, ManagerInit, StopInv, SentInv, ViewInv
<1>3. PhaseInv
  BY DEF Init, ManagerInit, PhaseInv, BeforeLaunch, AfterWait
<1>4. PrestartInv
  BY DEF Init, ManagerInit, PrestartInit, PrestartInv
<1> QED
  BY <1>1, <1>2, <1>3, <1>4 DEF IInv

(* IInv is inductive. *)
LEMMA IInvStep == IInv /\ [Next]_vars => IInv'
<1> SUFFICES ASSUME IInv, [Next]_vars PROVE IInv'
  OBVIOUS
<1>1. TypeOK /\ ServicesInv /\ PhaseInv /\ PrestartInv
  BY DEF IInv, ServicesInv
<1>2. TypeOK'
  BY <1>1, TypeStep
<1>3. SUFFICES ServicesInv' /\ PhaseInv' /\ PrestartInv'
  BY <1>2, <1>3 DEF IInv, ServicesInv
<1> USE <1>1 DEF managerVars, goroutine, history, prestartVars, pipeline,
        closed, watcher, logger, daemonVars
<1>4. CASE CancelParent \/ SignalWatcher
  <2>1. ServicesInv'
    BY <1>4, UnchangedInv DEF CancelParent, SignalWatcher, ServicesUnchanged,
       ServicesInv
  <2>2. PhaseInv'
    BY <1>4 DEF CancelParent, SignalWatcher, PhaseInv
  <2>3. PrestartInv'
    BY <1>4 DEF CancelParent, SignalWatcher, PrestartInv
  <2> QED
    BY <2>1, <2>2, <2>3
<1>5. CASE Start
  BY <1>5, StartServicesInv, StartPhaseInv, StartPrestartInv
<1>6. CASE PrestartStep
  <2>1. ServicesInv'
    BY <1>6, UnchangedInv DEF PrestartStep, ServicesUnchanged, ServicesInv
  <2>2. PhaseInv'
    BY <1>6 DEF PrestartStep, PhaseInv
  <2> QED
    BY <1>6, <2>1, <2>2, PipelinePrestartInv DEF PrestartStep
<1>7. ASSUME NEW s \in Services, ServiceStep(s)
      PROVE  ServicesInv' /\ PhaseInv' /\ PrestartInv'
  <2>1. ManageStep(s) /\ UNCHANGED <<prestartVars, daemonVars>>
    BY <1>7 DEF ServiceStep
  <2>2. ServicesInv'
    BY <2>1, ManageServicesInv
  <2>3. mainPc \notin BeforeLaunch \cup AfterWait
    BY <2>1, ManagePc DEF PhaseInv
  <2>4. PhaseInv'
    BY <2>1, <2>3 DEF PhaseInv, AfterWait
  <2>5. ctxDone' = ctxDone
    BY <2>1 DEF ManageStep, StartupTickerPanics, StartupCancelled, LoopPoint,
       StartupTick, FirstInitReturns, PushState, SelectDone, SelectTimer,
       ClearStopped, CallReturns, MarkStopped, CallPanics, LeaveLoop,
       FinalStopReturns, PushExit, RecoverPanic, WgDone, Log
  <2>6. PrestartInv'
    BY <2>1, <2>5 DEF PrestartInv
  <2> QED
    BY <2>2, <2>4, <2>6
<1>8. CASE statesWatcher
  <2>1. CASE ReceiveUpdate
    <3>1. ServicesInv'
      BY <2>1, UnchangedInv, ReceiveView DEF ReceiveUpdate, ServicesUnchanged,
         ServicesInv
    <3> QED
      BY <2>1, <3>1 DEF ReceiveUpdate, PhaseInv, PrestartInv
  <2>2. CASE PublishStates \/ StatesWatcherDone
    <3>1. ServicesInv'
      BY <2>2, UnchangedInv
         DEF PublishStates, StatesWatcherDone, ServicesUnchanged, ServicesInv
    <3>2. CASE PublishStates
      BY <3>1, <3>2 DEF PublishStates, PhaseInv, PrestartInv
    <3>3. CASE StatesWatcherDone
      BY <3>1, <3>3 DEF StatesWatcherDone, PhaseInv, PrestartInv
    <3> QED
      BY <2>2, <3>2, <3>3
  <2> QED
    BY <1>8, <2>1, <2>2 DEF statesWatcher
<1>9. CASE serviceLogWatcher
  <2>1. ServicesInv'
    BY <1>9, UnchangedInv DEF serviceLogWatcher, ReceiveLog, StartLogWorker,
       LogWorkerDone, LogWatcherDone, ServicesUnchanged, ServicesInv
  <2>2. PhaseInv'
    <3>1. CASE ReceiveLog
      BY <3>1 DEF ReceiveLog, goroutine, closed, watcher, PhaseInv, TypeOK
    <3>2. CASE StartLogWorker
      BY <3>2 DEF StartLogWorker, PhaseInv
    <3>3. CASE LogWorkerDone
      BY <3>3 DEF LogWorkerDone, PhaseInv
    <3>4. CASE LogWatcherDone
      BY <3>4 DEF LogWatcherDone, PhaseInv
    <3> QED
      BY <1>9, <3>1, <3>2, <3>3, <3>4 DEF serviceLogWatcher
  <2>3. PrestartInv'
    BY <1>9 DEF serviceLogWatcher, ReceiveLog, StartLogWorker, LogWorkerDone,
       LogWatcherDone, PrestartInv
  <2> QED
    BY <2>1, <2>2, <2>3
<1>10. CASE UNCHANGED vars
  <2>1. ServicesInv'
    BY <1>10, UnchangedInv DEF vars, ServicesUnchanged, ServicesInv
  <2> QED
    BY <1>10, <2>1 DEF vars, PhaseInv, PrestartInv
<1> QED
  BY <1>4, <1>5, <1>6, <1>7, <1>8, <1>9, <1>10 DEF Next, Terminated

-----------------------------------------------------------------------------
(* The theorems.                                                            *)

(* IInv holds in every reachable state of the daemon, for any set of        *)
(* services, any assignment of the two managers, any delays and any channel *)
(* capacities.                                                              *)
THEOREM Invariance == Spec => []IInv
BY IInvInit, IInvStep, PTL DEF Spec

(* Type correctness, and neither stateUpdateC nor logC over its capacity.   *)
THEOREM TypeCorrect == Spec => []TypeOK
<1>1. IInv => TypeOK
  BY DEF IInv
<1> QED
  BY <1>1, Invariance, PTL

(* Start closes stateUpdateC and logC only when no service goroutine, and   *)
(* not Start itself, can still send on them.                                *)
THEOREM ChannelsSafe == Spec => []NoSendOnClosed
<1>1. IInv => NoSendOnClosed
  BY DEF IInv, PhaseInv, AfterWait, NoSendOnClosed
<1> QED
  BY <1>1, Invariance, PTL

(* Both managers report a regular StateExit only after Runner.Stop ran      *)
(* since the last other lifecycle method began.                             *)
THEOREM StopAlwaysRuns == Spec => []StopBeforeExit
<1>1. IInv => StopBeforeExit
  BY DEF IInv, StopInv, StopBeforeExit
<1> QED
  BY <1>1, Invariance, PTL

(* Neither manager runs its final Stop right after another Stop.            *)
THEOREM StopRunsOnce == Spec => []NoSecondStop
<1>1. IInv => NoSecondStop
  BY DEF IInv, StopInv, NoSecondStop
<1> QED
  BY <1>1, Invariance, PTL

(* The state of the method running in the loop is the last one announced.   *)
THEOREM AnnouncedFirst == Spec => []AnnouncedState
<1>1. IInv => AnnouncedState
  BY DEF IInv, SentInv, AnnouncedState
<1> QED
  BY <1>1, Invariance, PTL

(* When the states watcher finishes, the states it published last show      *)
(* every service as exited, except RunUntilSuccess services that panicked.  *)
THEOREM FinalStatesCorrect == Spec => []FinalStates
<1>1. IInv => FinalStates
  <2> SUFFICES ASSUME IInv, statesPc = "done", NEW s \in Services
               PROVE  states[s] = "exit" \/ (Manager[s] = "RunUntilSuccess" /\ panicked[s])
    BY DEF FinalStates
  <2>1. updateC = <<>> /\ pc[s] = "done"
    BY DEF IInv, PhaseInv, AfterWait
  <2>2. pushed[s] \in {"none", states[s]}
    BY <2>1 DEF IInv, ViewInv
  <2> QED
    BY <2>1, <2>2 DEF IInv, SentInv
<1> QED
  BY <1>1, Invariance, PTL

(* No service is launched before the pipeline has gone through all stages   *)
(* and the last has passed and, with RestartOnError, before every stage has *)
(* passed in one pass, unless the daemon is being cancelled.                *)
THEOREM PrestartGates == Spec => []PrestartGate
<1>1. IInv => PrestartGate
  BY DEF IInv, PrestartInv, PrestartGate
<1> QED
  BY <1>1, Invariance, PTL

(* When Start returns nil, no log entry is left in logC.                    *)
THEOREM LogsDrained == Spec => []LogsHandedOver
<1>1. IInv => LogsHandedOver
  BY DEF IInv, PhaseInv, LogsHandedOver
<1> QED
  BY <1>1, Invariance, PTL

(* StateExit is sent once, and is the last update of its service.           *)
THEOREM ExitOnce == Spec => ExitIsFinal
<1> DEFINE A == \A s \in Services :
                   pushed[s] = "exit" => UNCHANGED pushed[s]
                                      /\ pc'[s] \in {"deferred", "done"}
<1>1. IInv /\ [Next]_vars => [A]_vars
  <2> SUFFICES ASSUME IInv, [Next]_vars, NEW s \in Services, pushed[s] = "exit"
               PROVE  pushed'[s] = pushed[s] /\ pc'[s] \in {"deferred", "done"}
    OBVIOUS
  <2>1. TypeOK /\ pc[s] \in {"deferred", "done"} /\ mainPc \notin BeforeLaunch
    BY DEF IInv, SentInv, PhaseInv
  <2>2. ASSUME NEW t \in Services, ServiceStep(t)
        PROVE  pushed'[s] = pushed[s] /\ pc'[s] \in {"deferred", "done"}
    <3>1. CASE t = s
      BY <2>1, <2>2, <3>1 DEF ServiceStep, ManageStep, StartupTickerPanics,
         StartupCancelled, LoopPoint, StartupTick, FirstInitReturns, PushState,
         SelectDone, SelectTimer, ClearStopped, CallReturns, MarkStopped,
         CallPanics, LeaveLoop, FinalStopReturns, PushExit, RecoverPanic,
         WgDone, Log, Logging, Goto, history, TypeOK
    <3>2. CASE t # s
      BY <2>1, <2>2, <3>2, ManageFrame DEF ServiceStep
    <3> QED
      BY <3>1, <3>2
  <2>3. CASE ~(\E t \in Services : ServiceStep(t))
    <3>1. UNCHANGED <<pc, pushed>>
      BY <2>1, <2>3 DEF Next, BeforeLaunch, CancelParent, SignalWatcher, Start,
         NotifierFails, StartWatchers, ReceivePrestartError, LogPrestartError,
         PrestartClosed, Launch, ServicesDone, WgZero, ShutdownRPC,
         CloseUpdates, CloseUpdateC, AwaitStates, CloseIntracom, CloseLog,
         AwaitLogger, LoggerDone, PrestartStep, statesWatcher, ReceiveUpdate,
         PublishStates, StatesWatcherDone, serviceLogWatcher, ReceiveLog,
         StartLogWorker, LogWorkerDone, LogWatcherDone, Terminated, vars,
         managerVars, goroutine, history
    <3> QED
      BY <2>1, <3>1
  <2> QED
    BY <2>2, <2>3
<1> QED
  BY <1>1, Invariance, PTL DEF Spec, ExitIsFinal

-----------------------------------------------------------------------------
(* Who waits for whom.                                                      *)

(* A service goroutine that steps has been launched, and stays so. *)
LEMMA ManageLaunched ==
    ASSUME TypeOK, NEW s \in Services, ManageStep(s)
    PROVE  pc[s] \notin {"idle", "done"} /\ pc'[s] # "idle"
BY DEF TypeOK, ManageStep, Goto, Panic, RecoverPoint, AfterFirstInit, Logging,
   StartupTickerPanics, StartupCancelled, LoopPoint, StartupTick,
   FirstInitReturns, PushState, SelectDone, SelectTimer, CallReturns,
   CallPanics, LeaveLoop, FinalStopReturns, PushExit, RecoverPanic, WgDone, Log

(* Start's own steps. *)
LEMMA StartStartedInv ==
    ASSUME IInv, StartedInv, Start
    PROVE  StartedInv'
<1> USE DEF StartedInv, AfterWait, managerVars, goroutine, closed, watcher,
        logger, Return
<1>1. CASE NotifierFails
  BY <1>1 DEF NotifierFails, IInv, PhaseInv, BeforeLaunch
<1>2. CASE StartWatchers
  BY <1>2 DEF StartWatchers
<1>3. CASE ReceivePrestartError \/ LogPrestartError \/ PrestartClosed
  BY <1>3 DEF ReceivePrestartError, LogPrestartError, PrestartClosed
<1>4. CASE Launch
  BY <1>4 DEF Launch, EntryPoint
<1>5. CASE ServicesDone
  BY <1>5 DEF ServicesDone
<1>6. CASE ShutdownRPC
  BY <1>6 DEF ShutdownRPC, IInv, PhaseInv
<1>7. CASE CloseUpdates
  BY <1>7 DEF CloseUpdates, CloseUpdateC
<1>8. CASE AwaitStates \/ CloseIntracom
  BY <1>8 DEF AwaitStates, CloseIntracom
<1>9. CASE CloseLog
  BY <1>9 DEF CloseLog
<1>10. CASE AwaitLogger
  BY <1>10 DEF AwaitLogger
<1> QED
  BY <1>1, <1>2, <1>3, <1>4, <1>5, <1>6, <1>7, <1>8, <1>9, <1>10 DEF Start

(* StartedInv is inductive relative to IInv. *)
LEMMA StartedStep == IInv /\ StartedInv /\ [Next]_vars => StartedInv'
<1> SUFFICES ASSUME IInv, StartedInv, [Next]_vars PROVE StartedInv'
  OBVIOUS
<1>1. CASE Start
  BY <1>1, StartStartedInv
<1>2. ASSUME NEW s \in Services, ServiceStep(s) PROVE StartedInv'
  <2>1. TypeOK /\ ManageStep(s)
    BY <1>2 DEF IInv, ServiceStep
  <2>2. UNCHANGED <<mainPc, updateClosed, logClosed, statesPc, loggerPc>>
    BY <1>2 DEF ServiceStep, daemonVars, closed, watcher, logger
  <2>3. pc[s] \notin {"idle", "done"} /\ pc'[s] # "idle"
    BY <2>1, ManageLaunched
  <2>4. \A t \in Services : t # s => pc'[t] = pc[t]
    BY <2>1, ManageFrame
  <2> QED
    BY <2>2, <2>3, <2>4 DEF StartedInv
<1>3. CASE statesWatcher
  BY <1>3 DEF statesWatcher, ReceiveUpdate, PublishStates, StatesWatcherDone,
     StartedInv, managerVars, goroutine, closed, logger
<1>4. CASE serviceLogWatcher
  BY <1>4 DEF serviceLogWatcher, ReceiveLog, StartLogWorker, LogWorkerDone,
     LogWatcherDone, StartedInv, managerVars, goroutine, closed, watcher
<1>5. CASE UNCHANGED <<pc, daemonVars>>
  BY <1>5 DEF daemonVars, closed, watcher, logger, StartedInv
<1>6. CancelParent \/ SignalWatcher \/ PrestartStep \/ Terminated \/ UNCHANGED vars
         => UNCHANGED <<pc, daemonVars>>
  BY DEF CancelParent, SignalWatcher, PrestartStep, Terminated, vars,
     managerVars, goroutine
<1> QED
  BY <1>1, <1>2, <1>3, <1>4, <1>5, <1>6 DEF Next

(* Nobody in the daemon waits on a goroutine that has ended or was never    *)
(* started, at any point of Start, its shutdown and its failures: the       *)
(* safety side of Start's return after a cancellation, for any number of    *)
(* services and any channel capacities.                                     *)
THEOREM NobodyStranded == Spec => []WaitsServed
<1>1. Init => StartedInv
  BY DEF Init, ManagerInit, StartedInv, AfterWait
<1>2. IInv /\ StartedInv => WaitsServed
  <2> SUFFICES ASSUME IInv, StartedInv PROVE WaitsServed
    OBVIOUS
  <2>1. /\ PhaseInv /\ mainPc \in MainPc
        /\ statesPc \in {"off", "range", "publish", "done"}
        /\ loggerPc \in {"off", "range", "acquire", "done"}
    BY DEF IInv, TypeOK
  <2>2. ASSUME NEW s \in Services, pc[s] \notin {"idle", "done"}
        PROVE  mainPc = "wait"
    BY <2>1, <2>2 DEF PhaseInv, StartedInv, BeforeLaunch, AfterWait, MainPc
  <2>3. mainPc \in {"wait", "logPrestart"} =>
          ~logClosed /\ loggerPc \in {"range", "acquire"}
    BY <2>1 DEF PhaseInv, StartedInv
  <2>4. mainPc = "wait" => ~updateClosed /\ statesPc \in {"range", "publish"}
    BY <2>1 DEF PhaseInv, StartedInv
  <2> QED
    BY <2>2, <2>3, <2>4 DEF StartedInv, AfterWait, WaitsServed
<1> QED
  BY <1>1, <1>2, Invariance, StartedStep, PTL DEF Spec
=============================================================================
