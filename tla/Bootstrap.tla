----------------------------- MODULE Bootstrap ------------------------------
(***************************************************************************)
(* How a daemon is put together and started (daemon.go): AddService, the   *)
(* guards of Start, the launch loop over the maps AddService fills, and    *)
(* what the service manager of the system is told meanwhile by Start, the  *)
(* signal watcher and the watchdog goroutine (notify_systemd_linux.go).    *)
(* What the services do is the subject of ServiceManager, the shutdown in  *)
(* detail that of Daemon; here a service runs and ends.                    *)
(*                                                                         *)
(* adderPc: idle; runner, manager (about to write d.services, d.managers)  *)
(* mainPc:  off; check (past started.Swap); notifier; prestart; launch     *)
(*          (ranging over d.services); ready; wait (for the services);     *)
(*          drain (for the watchers); returned; failed; exited (main has   *)
(*          ended the process)                                             *)
(* sigPc:   off; select; stopping (about to notify); done                  *)
(* dogPc:   off; select; alive (about to notify); done                     *)
(***************************************************************************)
EXTENDS Naturals, Sequences

CONSTANTS
    Names,      \* service names
    MaxAdds,    \* bound: AddService calls in a behaviour
    Socket,     \* NOTIFY_SOCKET is set
    AliveSecs   \* d.reportAliveSecs

ASSUME BootstrapAssumption ==
    /\ MaxAdds \in Nat /\ Socket \in BOOLEAN /\ AliveSecs \in Nat

VARIABLES
    services, managers,  \* the maps: for each name the AddService call whose
                         \* runner, whose manager they hold; 0 for no entry
    adderPc, adding,     \* the goroutine that adds services, the name it adds
    adds,                \* AddService calls that passed their checks
    started,             \* d.started
    mainPc,
    toVisit, visited,    \* launch loop: names in the map at its start, visited
    launched,            \* for each name the runner and the manager launched
    running,             \* names whose goroutine has not ended
    crashed,             \* the runtime found d.services or d.managers written
                         \* during an iteration or a read
    watchdog,            \* n.watchdog of the notifier Start made
    ctxDone,             \* dctx is cancelled
    sigPc, dogPc,
    sent,                \* READY=1 and STOPPING=1 as they reached the socket
    settled,             \* history: what AddService had completed at the Swap
    early                \* history: dctx was cancelled before READY's turn

registration == <<services, managers, adderPc, adding, adds>>
startVars == <<started, mainPc, toVisit, visited, launched, watchdog, settled>>
notifierVars == <<sigPc, dogPc, sent>>
vars == <<registration, startVars, running, crashed, ctxDone, notifierVars, early>>

Init ==
    /\ services = [n \in Names |-> 0] /\ managers = [n \in Names |-> 0]
    /\ adderPc = "idle" /\ adding \in Names /\ adds = 0
    /\ started = FALSE /\ mainPc = "off"
    /\ toVisit = {} /\ visited = {} /\ launched = [n \in Names |-> <<0, 0>>]
    /\ running = {} /\ crashed = FALSE
    /\ watchdog = 0 /\ ctxDone = FALSE
    /\ sigPc = "off" /\ dogPc = "off" /\ sent = <<>>
    /\ settled = [n \in Names |-> 0] /\ early = FALSE

BeforeReady == {"off", "check", "notifier", "prestart", "launch", "ready"}

-----------------------------------------------------------------------------
(* addService, past its checks: not started, a name, a manager that is not  *)
(* a nil pointer (or else the default one).  A name added before is         *)
(* overwritten.                                                             *)

CallAddService ==
    /\ adderPc = "idle"
    /\ ~started
    /\ adds < MaxAdds
    /\ adds' = adds + 1
    /\ adding' \in Names
    /\ adderPc' = "runner"
    /\ UNCHANGED <<services, managers, startVars, running, crashed, ctxDone,
                   notifierVars, early>>

WriteRunner ==
    /\ adderPc = "runner"
    /\ services' = [services EXCEPT ![adding] = adds]
    /\ adderPc' = "manager"
    /\ UNCHANGED <<managers, adding, adds, startVars, running, crashed, ctxDone,
                   notifierVars, early>>

(* Mutant: a name that has a manager keeps it.                              *)
RecordManagerOnce(n, k) ==
    managers' = [managers EXCEPT ![n] = IF @ = 0 THEN k ELSE @]
RecordManager(n, k) == managers' = [managers EXCEPT ![n] = k]

WriteManager ==
    /\ adderPc = "manager"
    /\ RecordManager(adding, adds)
    /\ adderPc' = "idle"
    /\ UNCHANGED <<services, adding, adds, startVars, running, crashed, ctxDone,
                   notifierVars, early>>

(* AddService writes a map that Start is reading: nothing orders the two.   *)
(* The runtime may notice, which ends the process.  The states watcher      *)
(* ranges over d.services too, at some time after its start.                *)
MapRace ==
    /\ \/ adderPc \in {"runner", "manager"} /\ mainPc = "launch"
       \/ adderPc = "runner" /\ mainPc \in {"ready", "wait", "drain"}
    /\ crashed' = TRUE
    /\ UNCHANGED <<registration, startVars, running, ctxDone, notifierVars, early>>

-----------------------------------------------------------------------------
(* Start.                                                                   *)

(* started.Swap(true): only the first call goes on.                         *)
CallStart ==
    /\ ~started
    /\ started' = TRUE
    /\ mainPc' = "check"
    /\ settled' = [n \in Names |-> IF adderPc # "idle" /\ adding = n THEN 0
                                   ELSE services[n]]
    /\ UNCHANGED <<registration, toVisit, visited, launched, watchdog, running,
                   crashed, ctxDone, notifierVars, early>>

(* ErrNoServices leaves started set: the daemon can be neither filled nor   *)
(* started any more.                                                        *)
CheckServices ==
    /\ mainPc = "check"
    /\ mainPc' = IF \A n \in Names : services[n] = 0 THEN "failed" ELSE "notifier"
    /\ UNCHANGED <<registration, started, toVisit, visited, launched, watchdog,
                   settled, running, crashed, ctxDone, notifierVars, early>>

(* A deferred dcancel() runs when Start returns from here on.               *)
NotifierFails ==
    /\ mainPc = "notifier"
    /\ Socket
    /\ mainPc' = "failed"
    /\ ctxDone' = TRUE
    /\ UNCHANGED <<registration, started, toVisit, visited, launched, watchdog,
                   settled, running, crashed, notifierVars, early>>

(* Without a socket the notifier is one whose watchdog is 0, which does     *)
(* nothing.  The mutant takes seconds for milliseconds.                     *)
NewWatchdogMillis == AliveSecs * 1000
NewWatchdog == IF Socket THEN AliveSecs ELSE 0

(* The watchdog goroutine starts, if there is to be one, then the signal    *)
(* watcher.                                                                 *)
StartNotifier ==
    /\ mainPc = "notifier"
    /\ watchdog' = NewWatchdog
    /\ dogPc' = IF watchdog' = 0 THEN "off" ELSE "select"
    /\ sigPc' = "select"
    /\ mainPc' = "prestart"
    /\ UNCHANGED <<registration, started, toVisit, visited, launched, settled,
                   running, crashed, ctxDone, sent, early>>

PrestartEnds ==
    /\ mainPc = "prestart"
    /\ mainPc' = "launch"
    /\ toVisit' = {n \in Names : services[n] # 0}
    /\ UNCHANGED <<registration, started, visited, launched, watchdog, settled,
                   running, crashed, ctxDone, notifierVars, early>>

(* The next name of the map; one added since the loop began may be visited  *)
(* or not.  A service without a manager is logged and left out.             *)
LaunchService(n) ==
    /\ mainPc = "launch"
    /\ services[n] # 0 /\ n \notin visited
    /\ visited' = visited \cup {n}
    /\ IF managers[n] = 0
       THEN UNCHANGED <<launched, running>>
       ELSE /\ launched' = [launched EXCEPT ![n] = <<services[n], managers[n]>>]
            /\ running' = running \cup {n}
    /\ UNCHANGED <<registration, started, mainPc, toVisit, watchdog, settled,
                   crashed, ctxDone, notifierVars, early>>

VisitedAll == toVisit \subseteq visited

LaunchEnds ==
    /\ mainPc = "launch"
    /\ VisitedAll
    /\ mainPc' = "ready"
    /\ UNCHANGED <<registration, started, toVisit, visited, launched, watchdog,
                   settled, running, crashed, ctxDone, notifierVars, early>>

-----------------------------------------------------------------------------
(* Notify: with watchdog 0 nothing is written; a write may fail, which the  *)
(* caller logs.                                                             *)
Notify(payload) ==
    \/ watchdog # 0 /\ sent' = Append(sent, payload)
    \/ UNCHANGED sent

NotifyReady ==
    /\ mainPc = "ready"
    /\ Notify("READY=1")
    /\ mainPc' = "wait"
    /\ UNCHANGED <<registration, started, toVisit, visited, launched, watchdog,
                   settled, running, crashed, ctxDone, sigPc, dogPc, early>>

(* A service ends by itself or because of the context.                      *)
ServiceEnds(n) ==
    /\ n \in running
    /\ running' = running \ {n}
    /\ UNCHANGED <<registration, startVars, crashed, ctxDone, notifierVars, early>>

(* dwg.Wait(); an error of the RPC server's Shutdown is returned at once,   *)
(* with the deferred dcancel().                                             *)
ServicesDone ==
    /\ mainPc = "wait"
    /\ running = {}
    /\ \/ mainPc' = "drain" /\ UNCHANGED ctxDone
       \/ mainPc' = "failed" /\ ctxDone' = TRUE
    /\ UNCHANGED <<registration, started, toVisit, visited, launched, watchdog,
                   settled, running, crashed, notifierVars, early>>

(* The states watcher has ended, if it ever does, the registry is closed,   *)
(* the log watcher has ended.  dcancel() runs as Start returns.             *)
WatchersDone ==
    /\ mainPc = "drain"
    /\ mainPc' = "returned"
    /\ ctxDone' = TRUE
    /\ UNCHANGED <<registration, started, toVisit, visited, launched, watchdog,
                   settled, running, crashed, notifierVars, early>>

(* Start has returned and so does the caller's main function: nothing joins *)
(* the signal watcher or the watchdog goroutine.                            *)
Exit ==
    /\ mainPc \in {"returned", "failed"}
    /\ mainPc' = "exited"
    /\ UNCHANGED <<registration, started, toVisit, visited, launched, watchdog,
                   settled, running, crashed, ctxDone, notifierVars, early>>

-----------------------------------------------------------------------------
(* The context.  The parent may be cancelled at any time after Start made   *)
(* dctx from it, or before.                                                 *)

Cancel == ctxDone' = TRUE /\ early' = (early \/ mainPc \in BeforeReady)

CancelParent ==
    /\ ~ctxDone
    /\ Cancel
    /\ UNCHANGED <<registration, startVars, running, crashed, notifierVars>>

(* Mutant of SignalSeen: the watcher does not wait for either.              *)
SignalSeenAlways == UNCHANGED <<ctxDone, early>>

(* dctx.Done(), or a signal, upon which the watcher calls dcancel().        *)
SignalSeen ==
    \/ ctxDone /\ UNCHANGED <<ctxDone, early>>
    \/ ~ctxDone /\ Cancel

SignalWatcher ==
    /\ sigPc = "select"
    /\ SignalSeen
    /\ sigPc' = "stopping"
    /\ UNCHANGED <<registration, startVars, running, crashed, dogPc, sent>>

NotifyStopping ==
    /\ sigPc = "stopping"
    /\ Notify("STOPPING=1")
    /\ sigPc' = "done"
    /\ UNCHANGED <<registration, startVars, running, crashed, ctxDone, dogPc, early>>

-----------------------------------------------------------------------------
(* The watchdog goroutine.  Its select may take the tick, and write         *)
(* WATCHDOG=1, although the context is done; a failed write is logged.      *)

WatchdogTick ==
    /\ dogPc = "select"
    /\ dogPc' = "alive"
    /\ UNCHANGED <<registration, startVars, running, crashed, ctxDone, sigPc, sent,
                   early>>

NotifyAlive ==
    /\ dogPc = "alive"
    /\ dogPc' = "select"
    /\ UNCHANGED <<registration, startVars, running, crashed, ctxDone, sigPc, sent,
                   early>>

(* Mutant of WatchdogCase: the case returns only from the select.           *)
WatchdogCaseBreaks == dogPc' = "select"
WatchdogCase == dogPc' = "done"

WatchdogStops ==
    /\ dogPc = "select"
    /\ ctxDone
    /\ WatchdogCase
    /\ UNCHANGED <<registration, startVars, running, crashed, ctxDone, sigPc, sent,
                   early>>

-----------------------------------------------------------------------------
StartEarly == CheckServices \/ NotifierFails \/ StartNotifier

Start ==
    \/ StartEarly \/ PrestartEnds
    \/ (\E n \in Names : LaunchService(n)) \/ LaunchEnds
    \/ NotifyReady \/ ServicesDone \/ WatchersDone \/ Exit

AddService == CallAddService \/ WriteRunner \/ WriteManager

Alive == ~crashed /\ mainPc # "exited"

(* Start has returned, or the process is gone.                              *)
Over == (mainPc \in {"returned", "failed"} \/ ~Alive) /\ UNCHANGED vars

Next ==
    \/ /\ Alive
       /\ \/ AddService \/ MapRace
          \/ CallStart \/ Start
          \/ \E n \in Names : ServiceEnds(n)
          \/ CancelParent
          \/ SignalWatcher \/ NotifyStopping
          \/ WatchdogTick \/ NotifyAlive \/ WatchdogStops
    \/ Over

Spec == Init /\ [][Next]_vars

(* Start goes on as far as the notifier, which waits for nobody, and so do  *)
(* the goroutines it starts there.  A select between a tick and dctx.Done() *)
(* picks either at random, so the latter is taken in the end.  Nothing is   *)
(* assumed of what the prestart stages, the services and the states watcher *)
(* do, so nothing obliges Start to return.                                  *)
FairSpec ==
    /\ Spec
    /\ WF_vars(Alive /\ StartEarly)
    /\ WF_vars(Alive /\ ctxDone /\ SignalWatcher)
    /\ WF_vars(Alive /\ NotifyStopping)
    /\ WF_vars(Alive /\ NotifyAlive)
    /\ SF_vars(Alive /\ WatchdogStops)

-----------------------------------------------------------------------------
(* Properties.                                                              *)

Calls == 0 .. MaxAdds

(* Every variable has its type.                                             *)
TypeOK ==
    /\ services \in [Names -> Calls] /\ managers \in [Names -> Calls]
    /\ adderPc \in {"idle", "runner", "manager"} /\ adding \in Names /\ adds \in Calls
    /\ started \in BOOLEAN
    /\ mainPc \in BeforeReady \cup {"wait", "drain", "returned", "failed", "exited"}
    /\ toVisit \subseteq Names /\ visited \subseteq Names /\ running \subseteq Names
    /\ launched \in [Names -> Calls \X Calls]
    /\ crashed \in BOOLEAN /\ ctxDone \in BOOLEAN /\ early \in BOOLEAN
    /\ watchdog \in {0, AliveSecs}
    /\ sigPc \in {"off", "select", "stopping", "done"}
    /\ dogPc \in {"off", "select", "alive", "done"}
    /\ sent \in Seq({"READY=1", "STOPPING=1"})
    /\ settled \in [Names -> Calls]

Sent(payload) == \E i \in 1 .. Len(sent) : sent[i] = payload

(* When the system is told READY, every service that had been added when    *)
(* Start was called runs or has run, with the runner and the manager of     *)
(* that one AddService call, whatever a late AddService did to the maps     *)
(* meanwhile for other names.                                               *)
LaunchedAsAdded ==
    Sent("READY=1") =>
        \A n \in Names : settled[n] # 0 => launched[n] = <<settled[n], settled[n]>>

(* READY=1 follows STOPPING=1 only if the context was cancelled before the  *)
(* services were up; otherwise the system is told READY=1 first, and each   *)
(* of the two once.                                                         *)
ReadyThenStopping ==
    /\ Len(sent) <= 2
    /\ Len(sent) = 2 => sent[1] # sent[2]
    /\ Len(sent) = 2 /\ ~early => sent = <<"READY=1", "STOPPING=1">>

(* The two facts above are not inductive; BInv is.                          *)

(* Only an AddService call between its two writes makes the maps differ,    *)
(* and its second write ends that.                                          *)
AddInv ==
    /\ \A n \in Names : services[n] = managers[n] \/ (adderPc = "manager" /\ adding = n)
    /\ adderPc = "manager" => services[adding] = adds

(* Before Start.                                                            *)
OffInv ==
    ~started => /\ mainPc = "off" /\ visited = {}
                /\ \A n \in Names : settled[n] = 0

(* A service added before Start was called stays in the maps as it was,     *)
(* since the only call that may still write is about another name; the loop *)
(* cannot end without it, and READY=1 is not sent before the loop ends.     *)
SettledInv ==
    \A n \in Names : settled[n] # 0 =>
        /\ services[n] = settled[n]
        /\ adderPc # "idle" => adding # n
        /\ mainPc \in {"launch", "ready", "wait", "drain", "returned"} => n \in toVisit
        /\ mainPc \in {"ready", "wait", "drain", "returned"} \/ Sent("READY=1") =>
              n \in visited
        /\ n \in visited => launched[n] = <<settled[n], settled[n]>>

(* Who may have sent what: Start its READY=1 once past "ready", the signal  *)
(* watcher its STOPPING=1 once done, each of them once, and STOPPING=1      *)
(* before READY=1 only after an early cancellation.                         *)
NotifyInv ==
    /\ mainPc \in {"off", "check", "notifier"} => sigPc = "off"
    /\ sigPc \in {"stopping", "done"} => ctxDone
    /\ ctxDone /\ mainPc \in BeforeReady => early
    /\ Sent("READY=1") => mainPc \notin BeforeReady
    /\ Sent("STOPPING=1") => sigPc = "done"
    /\ \A i, j \in 1 .. Len(sent) : i < j =>
          /\ sent[i] # sent[j]
          /\ sent[i] = "STOPPING=1" => early

BInv == TypeOK /\ AddInv /\ OffInv /\ SettledInv /\ NotifyInv

(* Once the context is cancelled, whoever cancels it and however far Start  *)
(* has come, STOPPING=1 is written (or its write fails) and the watchdog    *)
(* goroutine ends, whether or not Start ever returns; only the end of the   *)
(* process, which Start's caller brings about without waiting for the two,  *)
(* or a crash comes before.                                                 *)
NotifierEnds ==
    ctxDone /\ started ~>
        \/ ~Alive
        \/ /\ mainPc \notin {"check", "notifier"}
           /\ sigPc \in {"off", "done"}
           /\ dogPc \in {"off", "done"}
=============================================================================
