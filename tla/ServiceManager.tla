--------------------------- MODULE ServiceManager ---------------------------
(***************************************************************************)
(* The goroutine the daemon starts for each service: the manager that     *)
(* drives the user's runner through its lifecycle methods                  *)
(* (service_manager.go) inside the wrapper that recovers panics            *)
(* (daemon.go, the func literal of Start's launch loop).                   *)
(*                                                                         *)
(* pc[s] is where the goroutine of service s stands:                       *)
(*   idle       not launched yet                                           *)
(*   startup    RunUntilSuccess only: the select before the loop           *)
(*   firstInit  RunUntilSuccess only: Runner.Init, called by that select   *)
(*   push       loop top, sending the state about to be entered            *)
(*   select     waiting for sctx.Done() or the timer                       *)
(*   call       the runner's method for state[s] is running                *)
(*   log, logInit, logFinal, logPanic                                      *)
(*              inside sctx.Log: in the loop, after firstInit, after the   *)
(*              final Stop, in the manager's own recover                   *)
(*   exiting    out of the loop                                            *)
(*   finalStop  the Stop call after the loop is running                    *)
(*   pushExit   sending the final StateExit                                *)
(*   recovered  the wrapper recovered a panic and sends StateExit          *)
(*   deferred   about to run scancel() and wg.Done()                       *)
(*   done       the goroutine has ended                                    *)
(***************************************************************************)
EXTENDS Naturals, Sequences

CONSTANTS
    Services,      \* names of the services added to the daemon
    Manager,       \* which manager each service was given
    StartupDelay,  \* RunUntilSuccessManager.StartupDelay, 0 for none
    DefaultDelay,  \* RunUntilSuccessManager.DefaultDelay, 0 for none
    UpdateCap,     \* capacity of stateUpdateC (len(services)*4 in the code)
    LogCap         \* capacity of logC (50 in the code)

Managers == {"RunContinuous", "RunUntilSuccess"}

ASSUME ManagerAssumption == Manager \in [Services -> Managers]
ASSUME DelayAssumption == /\ StartupDelay \in [Services -> Nat]
                          /\ DefaultDelay \in [Services -> Nat]
ASSUME CapAssumption == UpdateCap \in Nat \ {0} /\ LogCap \in Nat \ {0}

State == {"exit", "init", "idle", "run", "stop"}
StateUpdate == [name : Services, state : State]

VARIABLES
    pc,          \* control point of each service goroutine
    state,       \* the manager's variable "state"
    hasStopped,  \* the manager's variable "hasStopped"
    updateC,     \* stateUpdateC, a FIFO channel shared by all managers
    logC,        \* number of entries in the log channel
    ctxDone,     \* the daemon context, parent of every sctx, is cancelled
    last,        \* history: the lifecycle method last begun (Stop: completed)
    pushed,      \* history: the last update each service sent
    panicked     \* history: the goroutine has panicked

managerVars == <<pc, state, hasStopped, updateC, logC, ctxDone, last, pushed,
                 panicked>>
goroutine == <<pc, state, hasStopped>>
history == <<last, pushed, panicked>>

(* The control points at which the goroutine sends on stateUpdateC or logC. *)
Pushing == {"push", "pushExit", "recovered"}
Logging == {"log", "logInit", "logFinal", "logPanic"}
ControlPoint == Pushing \cup Logging \cup
    {"idle", "startup", "firstInit", "select", "call", "exiting", "finalStop",
     "deferred", "done"}

ManagerInit ==
    /\ pc = [s \in Services |-> "idle"]
    /\ state = [s \in Services |-> "init"]
    /\ hasStopped = [s \in Services |-> FALSE]
    /\ updateC = <<>>
    /\ logC = 0
    /\ ctxDone = FALSE
    /\ last = [s \in Services |-> "none"]
    /\ pushed = [s \in Services |-> "none"]
    /\ panicked = [s \in Services |-> FALSE]

Goto(s, l) == pc' = [pc EXCEPT ![s] = l]

UpdateRoomUnbounded == TRUE  \* mutant of UpdateRoom
UpdateRoom == Len(updateC) < UpdateCap

(* updateC <- StateUpdate{...}: blocks while the channel is full. *)
Send(s, st) ==
    /\ UpdateRoom
    /\ updateC' = Append(updateC, [name |-> s, state |-> st])
    /\ pushed' = [pushed EXCEPT ![s] = st]

(* Mutants of LoopPoint: the condition is tested only after the send; the   *)
(* state is not announced.                                                  *)
LoopPointUntested(st) == "push"
LoopPointSilent(st) == IF st = "exit" THEN "exiting" ELSE "select"

(* for state != StateExit { updateC <- ...                                  *)
LoopPoint(st) == IF st = "exit" THEN "exiting" ELSE "push"

(* Where a panic unwinds to.  RunUntilSuccess recovers it inside Manage and *)
(* only logs it; otherwise the wrapper recovers it and reports StateExit.   *)
RecoverPoint(s) ==
    IF Manager[s] = "RunUntilSuccess" THEN "logPanic" ELSE "recovered"

Panic(s) ==
    /\ Goto(s, RecoverPoint(s))
    /\ panicked' = [panicked EXCEPT ![s] = TRUE]

-----------------------------------------------------------------------------
(* Before the loop.                                                         *)

(* The goroutine is started (by the daemon's launch loop). *)
EntryPoint(s) == IF Manager[s] = "RunUntilSuccess" THEN "startup" ELSE "push"

(* time.NewTicker panics on a non-positive interval. *)
StartupTickerPanics(s) ==
    /\ pc[s] = "startup"
    /\ StartupDelay[s] = 0
    /\ Panic(s)
    /\ UNCHANGED <<state, hasStopped, updateC, logC, ctxDone, last, pushed>>

StartupCancelled(s) ==
    /\ pc[s] = "startup"
    /\ StartupDelay[s] > 0
    /\ ctxDone
    /\ state' = [state EXCEPT ![s] = "exit"]
    /\ Goto(s, LoopPoint("exit"))
    /\ UNCHANGED <<hasStopped, updateC, logC, ctxDone, history>>

StartupTick(s) ==
    /\ pc[s] = "startup"
    /\ StartupDelay[s] > 0
    /\ last' = [last EXCEPT ![s] = "init"]
    /\ Goto(s, "firstInit")
    /\ UNCHANGED <<state, hasStopped, updateC, logC, ctxDone, pushed, panicked>>

(* The rest of the startup select, once Init returned and was logged: the   *)
(* state is StateIdle whatever Init returned, and ticker.Reset panics on a  *)
(* non-positive interval.                                                   *)
AfterFirstInit(s) ==
    /\ state' = [state EXCEPT ![s] = "idle"]
    /\ IF DefaultDelay[s] > 0
       THEN Goto(s, "push") /\ UNCHANGED panicked
       ELSE Panic(s)

FirstInitReturns(s) ==
    /\ pc[s] = "firstInit"
    /\ \/ AfterFirstInit(s)
       \/ Goto(s, "logInit") /\ UNCHANGED <<state, panicked>>
       \/ Panic(s) /\ UNCHANGED state
    /\ UNCHANGED <<hasStopped, updateC, logC, ctxDone, last, pushed>>

-----------------------------------------------------------------------------
(* The loop.                                                                *)

PushState(s) ==
    /\ pc[s] = "push"
    /\ Send(s, state[s])
    /\ Goto(s, "select")
    /\ UNCHANGED <<state, hasStopped, logC, ctxDone, last, panicked>>

SelectDone(s) ==
    /\ pc[s] = "select"
    /\ ctxDone
    /\ state' = [state EXCEPT ![s] = "exit"]
    /\ Goto(s, LoopPoint("exit"))
    /\ UNCHANGED <<hasStopped, updateC, logC, ctxDone, history>>

(* Mutants of ClearStopped and MarkStopped: the flag is left alone.         *)
ClearStoppedForgotten(s) == UNCHANGED hasStopped
MarkStoppedForgotten(s) == UNCHANGED hasStopped

ClearStopped(s) == hasStopped' = [hasStopped EXCEPT ![s] = FALSE]
MarkStopped(s) == hasStopped' = [hasStopped EXCEPT ![s] = @ \/ state[s] = "stop"]

(* The timer is armed whenever the loop reaches the select, so it may have  *)
(* fired at any moment, before or after a cancellation.                     *)
SelectTimer(s) ==
    /\ pc[s] = "select"
    /\ ClearStopped(s)
    /\ last' = [last EXCEPT ![s] = IF state[s] = "stop" THEN @ ELSE state[s]]
    /\ Goto(s, "call")
    /\ UNCHANGED <<state, updateC, logC, ctxDone, pushed, panicked>>

(* Mutant of NextState: a failed Run goes straight back to Init.            *)
NextStateSkipsStop(m, st, failed) ==
    CASE st \in {"init", "idle"} /\ failed -> "stop"
      [] st = "init" -> "idle"
      [] st = "idle" -> "run"
      [] st = "run" /\ m = "RunUntilSuccess" /\ ~failed -> "exit"
      [] OTHER -> "init"

(* The switch of each manager: the state after the runner's method for st   *)
(* returned, with an error when failed.                                     *)
NextState(m, st, failed) ==
    CASE st = "init" -> IF failed THEN "stop" ELSE "idle"
      [] st = "idle" -> IF failed THEN "stop" ELSE "run"
      [] st = "run"  -> IF m = "RunUntilSuccess" /\ ~failed
                        THEN "exit" ELSE "stop"
      [] OTHER       -> "init"

(* The runner's method returns.  An error is logged before the next loop    *)
(* iteration.                                                               *)
CallReturns(s) ==
    /\ pc[s] = "call"
    /\ \E failed \in BOOLEAN :
         /\ state' = [state EXCEPT ![s] = NextState(Manager[s], @, failed)]
         /\ Goto(s, IF failed THEN "log" ELSE LoopPoint(state'[s]))
    /\ MarkStopped(s)
    /\ last' = [last EXCEPT ![s] = IF state[s] = "stop" THEN "stop" ELSE @]
    /\ UNCHANGED <<updateC, logC, ctxDone, pushed, panicked>>

CallPanics(s) ==
    /\ pc[s] \in {"call", "finalStop"}
    /\ Panic(s)
    /\ UNCHANGED <<state, hasStopped, updateC, logC, ctxDone, last, pushed>>

-----------------------------------------------------------------------------
(* After the loop.                                                          *)

LeaveLoop(s) ==
    /\ pc[s] = "exiting"
    /\ Goto(s, IF hasStopped[s] THEN "pushExit" ELSE "finalStop")
    /\ UNCHANGED <<state, hasStopped, updateC, logC, ctxDone, history>>

FinalStopReturns(s) ==
    /\ pc[s] = "finalStop"
    /\ last' = [last EXCEPT ![s] = "stop"]
    /\ \E l \in {"pushExit", "logFinal"} : Goto(s, l)
    /\ UNCHANGED <<state, hasStopped, updateC, logC, ctxDone, pushed, panicked>>

PushExit(s) ==
    /\ pc[s] = "pushExit"
    /\ Send(s, "exit")
    /\ Goto(s, "deferred")
    /\ UNCHANGED <<state, hasStopped, logC, ctxDone, last, panicked>>

(* Mutant of RecoverPanic: the panic is recovered but not reported. *)
RecoverPanicSilent(s) ==
    /\ pc[s] = "recovered"
    /\ Goto(s, "deferred")
    /\ UNCHANGED <<state, hasStopped, updateC, logC, ctxDone, history>>

(* The wrapper's deferred function: a recovered panic is reported as        *)
(* StateExit, then in every case scancel() and wg.Done() run.               *)
RecoverPanic(s) ==
    /\ pc[s] = "recovered"
    /\ Send(s, "exit")
    /\ Goto(s, "deferred")
    /\ UNCHANGED <<state, hasStopped, logC, ctxDone, last, panicked>>

WgDone(s) ==
    /\ pc[s] = "deferred"
    /\ Goto(s, "done")
    /\ UNCHANGED <<state, hasStopped, updateC, logC, ctxDone, history>>

(* sctx.Log: blocks while logC is full, then the goroutine carries on.      *)
Log(s) ==
    /\ pc[s] \in Logging
    /\ logC < LogCap
    /\ logC' = logC + 1
    /\ \/ pc[s] = "log" /\ Goto(s, "push") /\ UNCHANGED <<state, panicked>>
       \/ pc[s] = "logInit" /\ AfterFirstInit(s)
       \/ pc[s] = "logFinal" /\ Goto(s, "pushExit") /\ UNCHANGED <<state, panicked>>
       \/ pc[s] = "logPanic" /\ Goto(s, "deferred") /\ UNCHANGED <<state, panicked>>
    /\ UNCHANGED <<hasStopped, updateC, ctxDone, last, pushed>>

-----------------------------------------------------------------------------
ManageStep(s) ==
    \/ StartupTickerPanics(s) \/ StartupCancelled(s) \/ StartupTick(s)
    \/ FirstInitReturns(s)
    \/ PushState(s) \/ SelectDone(s) \/ SelectTimer(s)
    \/ CallReturns(s) \/ CallPanics(s)
    \/ LeaveLoop(s) \/ FinalStopReturns(s) \/ PushExit(s)
    \/ RecoverPanic(s) \/ WgDone(s) \/ Log(s)

(* What each service goroutine is trusted to do.  It keeps running unless   *)
(* it is blocked; a runner's method may run for ever, but returns once the  *)
(* context is cancelled; and Go's select picks at random among the ready    *)
(* cases, so a timer that is always ready cannot starve sctx.Done() for     *)
(* ever.                                                                    *)
ManageFairness(s) ==
    /\ WF_managerVars(\/ StartupTickerPanics(s) \/ StartupCancelled(s)
                      \/ StartupTick(s) \/ PushState(s)
                      \/ SelectDone(s) \/ SelectTimer(s) \/ LeaveLoop(s)
                      \/ PushExit(s) \/ RecoverPanic(s) \/ WgDone(s) \/ Log(s))
    /\ WF_managerVars(ctxDone /\ (\/ FirstInitReturns(s) \/ CallReturns(s)
                                  \/ FinalStopReturns(s)))
    /\ SF_managerVars(SelectDone(s))
=============================================================================
