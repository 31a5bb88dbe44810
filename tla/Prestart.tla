------------------------------ MODULE Prestart ------------------------------
(***************************************************************************)
(* The prestart pipeline (daemon_prestart.go): a goroutine that runs the   *)
(* configured stages in order before any service is launched, and reports  *)
(* each failure on errC, which Start drains until it is closed.            *)
(*                                                                         *)
(* stagePc: idle    Run has not been called                                *)
(*          wait    the select on ctx.Done() and the restart timer         *)
(*          stage   at stage number "stage"                                *)
(*          report  sending the failure of that stage on errC              *)
(*          closed  returned, errC is closed                               *)
(***************************************************************************)
EXTENDS Naturals

CONSTANTS
    NumStages,      \* len(p.Stages)
    RestartModes    \* the values PrestartConfig.RestartOnError may have

ASSUME PrestartAssumption == NumStages \in Nat /\ RestartModes \subseteq BOOLEAN

VARIABLES
    restartOnError,  \* the field of that name, set before Run
    stagePc,
    stage,       \* the stage about to run, or just run
    stageErr,    \* the variable "err": the stage last run returned an error
    timerArmed,  \* the restart timer was set and has not been received from
    errC,        \* number of reports in errC, whose capacity is 1
    allPassed    \* history: no stage of this pass has failed so far

pipeline == <<restartOnError, stagePc, stage, stageErr, timerArmed, allPassed>>
prestartVars == <<pipeline, errC>>

PrestartTypeOK ==
    /\ restartOnError \in BOOLEAN
    /\ stagePc \in {"idle", "wait", "stage", "report", "closed"}
    /\ stage \in 0 .. NumStages
    /\ stageErr \in BOOLEAN /\ timerArmed \in BOOLEAN /\ allPassed \in BOOLEAN
    /\ errC \in 0 .. 1
    /\ stagePc \in {"wait", "stage", "report"} => NumStages > 0

PrestartInit ==
    /\ restartOnError \in RestartModes
    /\ stagePc = "idle"
    /\ stage = 0
    /\ stageErr = FALSE
    /\ timerArmed = FALSE
    /\ errC = 0
    /\ allPassed = FALSE

(* Run: with no stage the goroutine returns at once; the timer starts at 0. *)
RunPipeline ==
    /\ stagePc = "idle"
    /\ stagePc' = IF NumStages = 0 THEN "closed" ELSE "wait"
    /\ timerArmed' = (NumStages > 0)
    /\ allPassed' = (NumStages = 0)
    /\ UNCHANGED <<restartOnError, stage, stageErr, errC>>

(* ctx.Done(), in the select at the loop top or before a stage.             *)
PipelineCancelled(cancelled) ==
    /\ cancelled
    /\ stagePc \in {"wait", "stage"}
    /\ stagePc' = "closed"
    /\ UNCHANGED <<restartOnError, stage, stageErr, timerArmed, errC, allPassed>>

(* The restart timer fires: a new pass begins with the first stage.         *)
BeginPass ==
    /\ stagePc = "wait"
    /\ timerArmed
    /\ timerArmed' = FALSE
    /\ stagePc' = "stage"
    /\ stage' = 1
    /\ stageErr' = FALSE
    /\ allPassed' = TRUE
    /\ UNCHANGED <<restartOnError, errC>>

(* What follows a stage: the next one or, after the last, the end of the    *)
(* pass, which ends the pipeline when the last err was nil.                 *)
AfterStage(err) ==
    IF stage < NumStages
    THEN stagePc' = "stage" /\ stage' = stage + 1
    ELSE stagePc' = (IF err THEN "wait" ELSE "closed") /\ UNCHANGED stage

(* A stage's Func succeeds; its nil replaces the err of an earlier stage.   *)
StagePasses(cancelled) ==
    /\ stagePc = "stage"
    /\ ~cancelled
    /\ stageErr' = FALSE
    /\ AfterStage(FALSE)
    /\ UNCHANGED <<restartOnError, timerArmed, errC, allPassed>>

StageFails(cancelled) ==
    /\ stagePc = "stage"
    /\ ~cancelled
    /\ stageErr' = TRUE
    /\ allPassed' = FALSE
    /\ stagePc' = "report"
    /\ UNCHANGED <<restartOnError, stage, timerArmed, errC>>

RestartsNever == FALSE  \* mutant of Restarts: the pass always goes on
Restarts == restartOnError

(* errC <- DaemonLog{...} blocks while errC is full.  With RestartOnError   *)
(* the timer is set and the pass abandoned; without it the pass goes on.    *)
ReportFailure ==
    /\ stagePc = "report"
    /\ errC = 0
    /\ errC' = 1
    /\ IF Restarts
       THEN timerArmed' = TRUE /\ stagePc' = "wait" /\ UNCHANGED stage
       ELSE AfterStage(TRUE) /\ UNCHANGED timerArmed
    /\ UNCHANGED <<restartOnError, stageErr, allPassed>>

PipelineStep(cancelled) ==
    \/ PipelineCancelled(cancelled) \/ BeginPass
    \/ StagePasses(cancelled) \/ StageFails(cancelled) \/ ReportFailure
=============================================================================
