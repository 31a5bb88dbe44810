-------------------------- MODULE BootstrapProofs ---------------------------
(***************************************************************************)
(* The safety properties of AddService, Start and the notifier, for any    *)
(* names, any number of AddService calls and either kind of notifier: BInv *)
(* is inductive and the properties follow from it.                         *)
(***************************************************************************)
EXTENDS Bootstrap, TLAPS

(* The steps of the notifier and of the services, which leave registration  *)
(* and Start alone.                                                         *)
Around ==
    \/ MapRace \/ CancelParent \/ SignalWatcher \/ NotifyStopping
    \/ WatchdogTick \/ NotifyAlive \/ WatchdogStops
    \/ \E n \in Names : ServiceEnds(n)

LEMMA NextCases ==
    ASSUME [Next]_vars
    PROVE  AddService \/ CallStart \/ Start \/ Around \/ UNCHANGED vars
BY DEF Next, Around, Over

-----------------------------------------------------------------------------
(* Types.                                                                   *)

LEMMA InitTypeOK == Init => TypeOK
<1> SUFFICES ASSUME Init PROVE TypeOK
  OBVIOUS
<1>1. 0 \in Calls
  BY BootstrapAssumption DEF Calls
<1>2. /\ services \in [Names -> Calls] /\ managers \in [Names -> Calls]
      /\ settled \in [Names -> Calls] /\ launched \in [Names -> Calls \X Calls]
      /\ adds \in Calls
  BY <1>1 DEF Init
<1>3. sent \in Seq({"READY=1", "STOPPING=1"})
  BY DEF Init
<1>4. /\ started \in BOOLEAN /\ crashed \in BOOLEAN
      /\ ctxDone \in BOOLEAN /\ early \in BOOLEAN
  BY DEF Init
<1> QED
  BY <1>2, <1>3, <1>4 DEF Init, TypeOK, BeforeReady

LEMMA AddTypeOK ==
    ASSUME TypeOK, AddService
    PROVE  TypeOK'
<1>1. UNCHANGED <<startVars, running, crashed, ctxDone, notifierVars, early>>
  BY DEF AddService, CallAddService, WriteRunner, WriteManager
<1>2. /\ services' \in [Names -> Calls] /\ managers' \in [Names -> Calls]
      /\ adderPc' \in {"idle", "runner", "manager"}
      /\ adding' \in Names /\ adds' \in Calls
  <2>1. CASE CallAddService
    BY <2>1, BootstrapAssumption DEF TypeOK, Calls, CallAddService
  <2>2. CASE WriteRunner
    BY <2>2 DEF TypeOK, WriteRunner
  <2>3. CASE WriteManager
    BY <2>3 DEF TypeOK, WriteManager, RecordManager
  <2> QED
    BY <2>1, <2>2, <2>3 DEF AddService
<1> QED
  BY <1>1, <1>2 DEF TypeOK, startVars, notifierVars

(* What a Notify leaves is a sequence of the two payloads. *)
LEMMA NotifyType ==
    ASSUME TypeOK, NEW p \in {"READY=1", "STOPPING=1"}, Notify(p)
    PROVE  sent' \in Seq({"READY=1", "STOPPING=1"})
<1>1. sent \in Seq({"READY=1", "STOPPING=1"})
  BY DEF TypeOK
<1>2. Append(sent, p) \in Seq({"READY=1", "STOPPING=1"})
  BY <1>1
<1> QED
  BY <1>1, <1>2 DEF Notify

LEMMA AroundTypeOK ==
    ASSUME TypeOK, Around
    PROVE  TypeOK'
<1> USE DEF TypeOK, registration, startVars, notifierVars
<1>1. CASE MapRace \/ WatchdogTick \/ NotifyAlive \/ WatchdogStops
  <2>1. crashed' \in BOOLEAN
    BY <1>1 DEF MapRace, WatchdogTick, NotifyAlive, WatchdogStops
  <2>2. dogPc' \in {"off", "select", "alive", "done"}
    BY <1>1 DEF MapRace, WatchdogTick, NotifyAlive, WatchdogStops, WatchdogCase
  <2>3. UNCHANGED <<registration, startVars, running, ctxDone, sigPc, sent, early>>
    BY <1>1 DEF MapRace, WatchdogTick, NotifyAlive, WatchdogStops
  <2> QED
    BY <2>1, <2>2, <2>3
<1>2. CASE CancelParent \/ SignalWatcher
  <2>1. ctxDone' \in BOOLEAN /\ early' \in BOOLEAN
    BY <1>2 DEF CancelParent, SignalWatcher, SignalSeen, Cancel
  <2>2. sigPc' \in {"off", "select", "stopping", "done"}
    BY <1>2 DEF CancelParent, SignalWatcher
  <2>3. UNCHANGED <<registration, startVars, running, crashed, dogPc, sent>>
    BY <1>2 DEF CancelParent, SignalWatcher
  <2> QED
    BY <2>1, <2>2, <2>3
<1>3. CASE NotifyStopping
  BY <1>3, NotifyType DEF NotifyStopping
<1>4. ASSUME NEW n \in Names, ServiceEnds(n) PROVE TypeOK'
  BY <1>4 DEF ServiceEnds
<1> QED
  BY <1>1, <1>2, <1>3, <1>4 DEF Around

LEMMA StartTypeOK ==
    ASSUME TypeOK, CallStart \/ Start
    PROVE  TypeOK'
<1> USE DEF TypeOK, registration, notifierVars, BeforeReady
<1>1. CASE CallStart
  <2>1. settled' \in [Names -> Calls]
    BY <1>1, BootstrapAssumption DEF CallStart, Calls
  <2> QED
    BY <1>1, <2>1 DEF CallStart
<1>2. CASE CheckServices \/ NotifierFails \/ LaunchEnds \/ ServicesDone
           \/ WatchersDone \/ Exit
  <2>1. ctxDone' \in BOOLEAN
    BY <1>2 DEF CheckServices, NotifierFails, LaunchEnds, ServicesDone,
       WatchersDone, Exit
  <2>2. mainPc' \in BeforeReady \cup {"wait", "drain", "returned", "failed", "exited"}
    BY <1>2 DEF CheckServices, NotifierFails, LaunchEnds, ServicesDone,
       WatchersDone, Exit
  <2>3. UNCHANGED <<registration, started, toVisit, visited, launched, watchdog,
                    settled, running, crashed, notifierVars, early>>
    BY <1>2 DEF CheckServices, NotifierFails, LaunchEnds, ServicesDone,
       WatchersDone, Exit
  <2> QED
    BY <2>1, <2>2, <2>3
<1>3. CASE StartNotifier
  <2>1. watchdog' \in {0, AliveSecs} /\ dogPc' \in {"off", "select"}
    BY <1>3 DEF StartNotifier, NewWatchdog
  <2> QED
    BY <1>3, <2>1 DEF StartNotifier
<1>4. CASE PrestartEnds
  BY <1>4 DEF PrestartEnds
<1>5. ASSUME NEW n \in Names, LaunchService(n) PROVE TypeOK'
  <2>1. launched' \in [Names -> Calls \X Calls] /\ running' \subseteq Names
    BY <1>5 DEF LaunchService
  <2> QED
    BY <1>5, <2>1 DEF LaunchService
<1>6. CASE NotifyReady
  BY <1>6, NotifyType DEF NotifyReady
<1> QED
  BY <1>1, <1>2, <1>3, <1>4, <1>5, <1>6 DEF Start, StartEarly

(* One more payload. *)
LEMMA AppendSent ==
    ASSUME TypeOK, NEW p \in {"READY=1", "STOPPING=1"}, sent' = Append(sent, p)
    PROVE  /\ Len(sent) \in Nat /\ Len(sent') = Len(sent) + 1
           /\ sent'[Len(sent) + 1] = p
           /\ \A i \in 1 .. Len(sent) : sent'[i] = sent[i]
           /\ \A q : Sent(q)' <=> Sent(q) \/ q = p
<1>1. /\ Len(sent) \in Nat /\ Len(sent') = Len(sent) + 1
      /\ sent'[Len(sent) + 1] = p
      /\ \A i \in 1 .. Len(sent) : sent'[i] = sent[i]
  BY DEF TypeOK
<1>2. ASSUME NEW q PROVE Sent(q)' <=> Sent(q) \/ q = p
  BY <1>1 DEF Sent
<1> QED
  BY <1>1, <1>2

-----------------------------------------------------------------------------
(* Registration and the launch loop.                                        *)

Launching == AddInv /\ OffInv /\ SettledInv

(* What SettledInv depends on. *)
LEMMA SettledFrame ==
    ASSUME SettledInv,
           UNCHANGED <<services, adderPc, adding, toVisit, visited, launched, settled>>,
           Sent("READY=1")' => Sent("READY=1"),
           \/ mainPc' = mainPc
           \/ mainPc' \notin {"launch", "ready", "wait", "drain", "returned"}
           \/ mainPc = "wait" /\ mainPc' = "drain"
           \/ mainPc = "drain" /\ mainPc' = "returned"
    PROVE  SettledInv'
BY DEF SettledInv

(* AddService never touches a service that was settled. *)
LEMMA AddLaunching ==
    ASSUME TypeOK, Launching, AddService
    PROVE  Launching'
<1>0. UNCHANGED startVars /\ UNCHANGED sent
  BY DEF AddService, CallAddService, WriteRunner, WriteManager, notifierVars
<1>1. OffInv'
  BY <1>0 DEF Launching, OffInv, startVars
<1>2. CASE CallAddService
  <2>1. /\ ~started /\ UNCHANGED <<services, managers>>
        /\ adderPc = "idle" /\ adderPc' = "runner"
    BY <1>2 DEF CallAddService
  <2>2. \A n \in Names : settled'[n] = 0
    BY <1>0, <2>1 DEF Launching, OffInv, startVars
  <2> QED
    BY <1>1, <2>1, <2>2 DEF Launching, AddInv, SettledInv
<1>3. CASE WriteRunner
  <2>1. /\ adderPc = "runner" /\ adderPc' = "manager" /\ UNCHANGED <<managers, adding, adds>>
        /\ services'[adding] = adds
        /\ \A n \in Names : n # adding => services'[n] = services[n]
    BY <1>3 DEF WriteRunner, TypeOK
  <2>2. AddInv'
    BY <2>1 DEF Launching, AddInv
  <2>3. SettledInv'
    BY <1>0, <2>1 DEF Launching, SettledInv, startVars, Sent
  <2> QED
    BY <1>1, <2>2, <2>3 DEF Launching
<1>4. CASE WriteManager
  <2>1. /\ adderPc = "manager" /\ adderPc' = "idle" /\ UNCHANGED <<services, adding>>
        /\ \A n \in Names : n # adding => managers'[n] = managers[n]
        /\ managers'[adding] = adds
    BY <1>4 DEF WriteManager, RecordManager, TypeOK
  <2>2. AddInv'
    BY <2>1 DEF Launching, AddInv
  <2>3. SettledInv'
    BY <1>0, <2>1 DEF Launching, SettledInv, startVars, Sent
  <2> QED
    BY <1>1, <2>2, <2>3 DEF Launching
<1> QED
  BY <1>2, <1>3, <1>4 DEF AddService

(* The steps of the notifier and of the services. *)
LEMMA AroundLaunching ==
    ASSUME TypeOK, Launching, Around
    PROVE  Launching'
<1>0. UNCHANGED <<registration, startVars>>
  BY DEF Around, MapRace, CancelParent, SignalWatcher, NotifyStopping, WatchdogTick,
     NotifyAlive, WatchdogStops, ServiceEnds
<1>1. sent' = Append(sent, "STOPPING=1") \/ UNCHANGED sent
  BY DEF Around, MapRace, CancelParent, SignalWatcher, NotifyStopping, Notify,
     WatchdogTick, NotifyAlive, WatchdogStops, ServiceEnds, notifierVars
<1>2. Sent("READY=1")' => Sent("READY=1")
  BY <1>1, AppendSent DEF Sent
<1>3. AddInv' /\ OffInv'
  BY <1>0 DEF Launching, AddInv, OffInv, registration, startVars
<1>4. SettledInv'
  BY <1>0, <1>2, SettledFrame DEF Launching, registration, startVars
<1> QED
  BY <1>3, <1>4 DEF Launching

(* CallStart settles what is complete: no other call can begin any more. *)
LEMMA CallStartLaunching ==
    ASSUME TypeOK, Launching, NotifyInv, CallStart
    PROVE  Launching'
<1>1. /\ started' /\ mainPc' = "check" /\ UNCHANGED <<registration, visited, sent>>
      /\ visited = {} /\ mainPc = "off"
  BY DEF CallStart, Launching, OffInv, notifierVars
<1>2. \A n \in Names : settled'[n] # 0 => /\ settled'[n] = services[n]
                                          /\ adderPc # "idle" => adding # n
  BY DEF CallStart
<1>3. ~Sent("READY=1")'
  BY <1>1 DEF NotifyInv, BeforeReady, Sent
<1>4. SettledInv'
  BY <1>1, <1>2, <1>3 DEF SettledInv, registration
<1>5. AddInv' /\ OffInv'
  BY <1>1 DEF Launching, AddInv, OffInv, registration
<1> QED
  BY <1>4, <1>5 DEF Launching

(* The steps of Start. *)
LEMMA StartLaunching ==
    ASSUME TypeOK, Launching, Start
    PROVE  Launching'
<1>0. /\ UNCHANGED <<registration, started, settled>> /\ started
      /\ AddInv /\ OffInv /\ SettledInv
  BY DEF Launching, OffInv, Start, CheckServices, NotifierFails, StartNotifier,
     StartEarly, PrestartEnds, LaunchService, LaunchEnds, NotifyReady,
     ServicesDone, WatchersDone, Exit
<1>1. AddInv' /\ OffInv'
  BY <1>0 DEF AddInv, OffInv, registration
<1>2. CASE StartEarly \/ ServicesDone \/ WatchersDone \/ Exit
  <2>1. UNCHANGED <<toVisit, visited, launched, sent>>
    BY <1>2 DEF StartEarly, CheckServices, NotifierFails, StartNotifier,
       ServicesDone, WatchersDone, Exit, notifierVars
  <2>2. \/ mainPc' \notin {"launch", "ready", "wait", "drain", "returned"}
        \/ mainPc = "wait" /\ mainPc' = "drain"
        \/ mainPc = "drain" /\ mainPc' = "returned"
    BY <1>2 DEF StartEarly, CheckServices, NotifierFails, StartNotifier,
       ServicesDone, WatchersDone, Exit
  <2>3. SettledInv'
    BY <1>0, <2>1, <2>2, SettledFrame DEF registration, Sent
  <2> QED
    BY <1>1, <2>3 DEF Launching
<1>3. CASE PrestartEnds
  <2>1. /\ UNCHANGED <<visited, launched, sent>> /\ mainPc' = "launch"
        /\ toVisit' = {n \in Names : services[n] # 0}
    BY <1>3 DEF PrestartEnds, notifierVars
  <2>2. SettledInv'
    BY <1>0, <2>1 DEF SettledInv, Sent, registration
  <2> QED
    BY <1>1, <2>2 DEF Launching
<1>4. ASSUME NEW m \in Names, LaunchService(m) PROVE Launching'
  <2>1. /\ mainPc = "launch" /\ m \notin visited /\ visited' = visited \cup {m}
        /\ UNCHANGED <<mainPc, toVisit, sent>>
        /\ \A n \in Names : n # m => launched'[n] = launched[n]
        /\ managers[m] # 0 => launched'[m] = <<services[m], managers[m]>>
    BY <1>4 DEF LaunchService, TypeOK, notifierVars
  <2>2. settled[m] # 0 => services[m] = settled[m] /\ managers[m] = settled[m]
    BY <1>0 DEF SettledInv, AddInv
  <2>3. ASSUME NEW n \in Names, settled'[n] # 0, n \in visited'
        PROVE  launched'[n] = <<settled'[n], settled'[n]>>
    <3>1. CASE n = m
      BY <1>0, <2>1, <2>2, <2>3, <3>1
    <3>2. CASE n # m
      BY <1>0, <2>1, <2>3, <3>2 DEF SettledInv
    <3> QED
      BY <3>1, <3>2
  <2>4. SettledInv'
    BY <1>0, <2>1, <2>3 DEF SettledInv, Sent, registration
  <2> QED
    BY <1>1, <2>4 DEF Launching
<1>5. CASE LaunchEnds
  <2>1. /\ UNCHANGED <<toVisit, visited, launched, sent>> /\ mainPc' = "ready"
        /\ mainPc = "launch" /\ toVisit \subseteq visited
    BY <1>5 DEF LaunchEnds, VisitedAll, notifierVars
  <2>2. SettledInv'
    BY <1>0, <2>1 DEF SettledInv, Sent, registration
  <2> QED
    BY <1>1, <2>2 DEF Launching
<1>6. CASE NotifyReady
  <2>1. /\ UNCHANGED <<toVisit, visited, launched>> /\ mainPc' = "wait"
        /\ mainPc = "ready"
    BY <1>6 DEF NotifyReady
  <2>2. SettledInv'
    BY <1>0, <2>1 DEF SettledInv, registration
  <2> QED
    BY <1>1, <2>2 DEF Launching
<1> QED
  BY <1>2, <1>3, <1>4, <1>5, <1>6 DEF Start, StartEarly

-----------------------------------------------------------------------------
(* What the system is told.                                                 *)

(* What NotifyInv depends on when nothing is sent. *)
LEMMA NotifyFrame ==
    ASSUME NotifyInv, UNCHANGED <<sent, sigPc>>,
           ctxDone => ctxDone', early => early',
           mainPc' \in BeforeReady => mainPc \in BeforeReady,
           mainPc' \in {"off", "check", "notifier"} =>
               mainPc \in {"off", "check", "notifier"},
           ctxDone' /\ mainPc' \in BeforeReady => early'
    PROVE  NotifyInv'
BY DEF NotifyInv, Sent

(* The steps of the notifier and of the services: STOPPING=1 is the second  *)
(* payload, or the first after a cancellation.                              *)
LEMMA AroundNotify ==
    ASSUME TypeOK, NotifyInv, Around
    PROVE  NotifyInv'
<1>0. UNCHANGED mainPc
  BY DEF Around, MapRace, CancelParent, SignalWatcher, NotifyStopping, WatchdogTick,
     NotifyAlive, WatchdogStops, ServiceEnds, startVars
<1>1. CASE MapRace \/ WatchdogTick \/ NotifyAlive \/ WatchdogStops
           \/ \E n \in Names : ServiceEnds(n)
  <2>1. UNCHANGED <<sent, sigPc, ctxDone, early>>
    BY <1>1 DEF MapRace, WatchdogTick, NotifyAlive, WatchdogStops, ServiceEnds,
       notifierVars
  <2> QED
    BY <1>0, <2>1, NotifyFrame DEF NotifyInv
<1>2. CASE CancelParent
  <2>1. /\ UNCHANGED <<sent, sigPc>> /\ ctxDone'
        /\ early' = (early \/ mainPc \in BeforeReady)
    BY <1>2 DEF CancelParent, Cancel, notifierVars
  <2> QED
    BY <1>0, <2>1, NotifyFrame
<1>3. CASE SignalWatcher
  <2>1. sigPc = "select" /\ sigPc' = "stopping" /\ UNCHANGED sent /\ ctxDone'
    BY <1>3 DEF SignalWatcher, SignalSeen, Cancel
  <2>2. (early => early') /\ (mainPc \in BeforeReady => early')
    BY <1>3 DEF SignalWatcher, SignalSeen, Cancel, NotifyInv
  <2> QED
    BY <1>0, <2>1, <2>2 DEF NotifyInv, Sent
<1>4. CASE NotifyStopping
  <2>1. /\ sigPc = "stopping" /\ sigPc' = "done" /\ UNCHANGED <<ctxDone, early>>
        /\ sent' = Append(sent, "STOPPING=1") \/ sent' = sent
    BY <1>4 DEF NotifyStopping, Notify
  <2>2. /\ ctxDone /\ ~Sent("STOPPING=1") /\ sent \in Seq({"READY=1", "STOPPING=1"})
        /\ mainPc \notin {"off", "check", "notifier"}
    BY <2>1 DEF NotifyInv, TypeOK
  <2>3. CASE sent' = sent
    BY <1>0, <2>1, <2>2, <2>3 DEF NotifyInv, Sent
  <2>4. CASE sent' = Append(sent, "STOPPING=1")
    <3>1. \A i \in 1 .. Len(sent) : sent[i] = "READY=1"
      BY <2>2 DEF Sent
    <3>2. \A i, j \in 1 .. Len(sent') : i < j =>
              sent'[i] # sent'[j] /\ (sent'[i] = "STOPPING=1" => early)
      BY <2>4, <3>1, AppendSent DEF NotifyInv
    <3>3. Sent("READY=1")' => Sent("READY=1")
      BY <2>4, AppendSent
    <3> QED
      BY <1>0, <2>1, <2>2, <3>2, <3>3 DEF NotifyInv
  <2> QED
    BY <2>1, <2>3, <2>4
<1> QED
  BY <1>1, <1>2, <1>3, <1>4 DEF Around

(* The steps of Start: if READY=1 is the second payload the context was     *)
(* cancelled early.                                                         *)
LEMMA StartNotify ==
    ASSUME TypeOK, OffInv, NotifyInv, CallStart \/ Start
    PROVE  NotifyInv'
<1>1. CASE CallStart \/ CheckServices \/ PrestartEnds \/ LaunchEnds
           \/ \E n \in Names : LaunchService(n)
  <2>1. /\ mainPc \in BeforeReady
        /\ UNCHANGED <<sent, sigPc, ctxDone, early>>
        /\ mainPc' \in {"off", "check", "notifier"} => mainPc \in {"off", "check", "notifier"}
    BY <1>1 DEF CallStart, OffInv, CheckServices, PrestartEnds, LaunchEnds,
       LaunchService, notifierVars, BeforeReady
  <2> QED
    BY <2>1, NotifyFrame DEF NotifyInv
<1>2. CASE NotifierFails \/ ServicesDone \/ WatchersDone \/ Exit
  <2>1. /\ mainPc' \in {"failed", "drain", "returned", "exited"}
        /\ ctxDone => ctxDone'
        /\ UNCHANGED <<sent, sigPc, early>>
    BY <1>2 DEF NotifierFails, ServicesDone, WatchersDone, Exit, notifierVars
  <2>2. mainPc' \notin BeforeReady /\ mainPc' \notin {"off", "check", "notifier"}
    BY <2>1 DEF BeforeReady
  <2> QED
    BY <2>1, <2>2, NotifyFrame
<1>3. CASE StartNotifier
  <2>1. /\ mainPc = "notifier" /\ mainPc' = "prestart" /\ sigPc' = "select"
        /\ UNCHANGED <<sent, ctxDone, early>>
    BY <1>3 DEF StartNotifier
  <2>2. mainPc \in BeforeReady /\ sigPc = "off"
    BY <2>1 DEF BeforeReady, NotifyInv
  <2> QED
    BY <2>1, <2>2 DEF NotifyInv, Sent
<1>4. CASE NotifyReady
  <2>1. /\ mainPc = "ready" /\ mainPc' = "wait" /\ UNCHANGED <<sigPc, ctxDone, early>>
        /\ sent' = Append(sent, "READY=1") \/ sent' = sent
    BY <1>4 DEF NotifyReady, Notify
  <2>2. /\ ~Sent("READY=1") /\ sent \in Seq({"READY=1", "STOPPING=1"})
        /\ ctxDone => early
        /\ mainPc' \notin BeforeReady /\ mainPc' \notin {"off", "check", "notifier"}
    BY <2>1 DEF NotifyInv, BeforeReady, TypeOK
  <2>3. CASE sent' = sent
    BY <2>1, <2>2, <2>3, NotifyFrame
  <2>4. CASE sent' = Append(sent, "READY=1")
    <3>1. \A i \in 1 .. Len(sent) : sent[i] = "STOPPING=1" /\ early
      BY <2>2 DEF NotifyInv, Sent
    <3>2. \A i, j \in 1 .. Len(sent') : i < j =>
              sent'[i] # sent'[j] /\ (sent'[i] = "STOPPING=1" => early)
      BY <2>4, <3>1, AppendSent DEF NotifyInv
    <3>3. Sent("STOPPING=1")' => Sent("STOPPING=1")
      BY <2>4, AppendSent
    <3> QED
      BY <2>1, <2>2, <3>2, <3>3 DEF NotifyInv
  <2> QED
    BY <2>1, <2>3, <2>4
<1> QED
  BY <1>1, <1>2, <1>3, <1>4 DEF Start, StartEarly

-----------------------------------------------------------------------------
(* The invariant and the theorems.                                          *)

LEMMA BInvInit == Init => BInv
<1> SUFFICES ASSUME Init PROVE BInv
  OBVIOUS
<1>1. TypeOK
  BY InitTypeOK
<1>2. AddInv /\ OffInv /\ SettledInv
  BY DEF Init, AddInv, OffInv, SettledInv
<1>3. 1 .. Len(sent) = {}
  BY DEF Init
<1>4. NotifyInv
  BY <1>3 DEF Init, NotifyInv, Sent
<1> QED
  BY <1>1, <1>2, <1>4 DEF BInv

LEMMA BInvStep == BInv /\ [Next]_vars => BInv'
<1> SUFFICES ASSUME BInv, [Next]_vars PROVE BInv'
  OBVIOUS
<1>0. TypeOK /\ Launching /\ NotifyInv /\ OffInv
  BY DEF BInv, Launching
<1>1. CASE AddService
  <2>1. UNCHANGED <<mainPc, sent, sigPc, ctxDone, early>>
    BY <1>1 DEF AddService, CallAddService, WriteRunner, WriteManager, startVars,
       notifierVars
  <2>2. NotifyInv'
    BY <1>0, <2>1, NotifyFrame DEF NotifyInv
  <2> QED
    BY <1>0, <1>1, <2>2, AddTypeOK, AddLaunching DEF BInv, Launching
<1>2. CASE CallStart
  BY <1>0, <1>2, StartTypeOK, CallStartLaunching, StartNotify DEF BInv, Launching
<1>3. CASE Start
  BY <1>0, <1>3, StartTypeOK, StartLaunching, StartNotify DEF BInv, Launching
<1>4. CASE Around
  BY <1>0, <1>4, AroundTypeOK, AroundLaunching, AroundNotify DEF BInv, Launching
<1>5. CASE UNCHANGED vars
  <2>1. TypeOK'
    BY <1>0, <1>5 DEF TypeOK, vars, registration, startVars, notifierVars
  <2>2. AddInv' /\ OffInv'
    BY <1>0, <1>5 DEF Launching, AddInv, OffInv, vars, registration, startVars
  <2>3. SettledInv'
    BY <1>0, <1>5, SettledFrame
       DEF Launching, vars, registration, startVars, notifierVars, Sent
  <2>4. NotifyInv'
    BY <1>0, <1>5, NotifyFrame DEF vars, startVars, notifierVars, NotifyInv
  <2> QED
    BY <2>1, <2>2, <2>3, <2>4 DEF BInv
<1> QED
  BY <1>1, <1>2, <1>3, <1>4, <1>5, NextCases

(* BInv holds in every reachable state.                                     *)
THEOREM BootstrapInvariance == Spec => []BInv
BY BInvInit, BInvStep, PTL DEF Spec

(* Every variable keeps its type.                                           *)
THEOREM BootstrapTypeCorrect == Spec => []TypeOK
<1>1. BInv => TypeOK
  BY DEF BInv
<1> QED
  BY <1>1, BootstrapInvariance, PTL

(* When READY=1 is sent, every service whose AddService had returned when   *)
(* Start was called was launched with the runner and the manager of that    *)
(* call, whatever an AddService of another name that overlaps Start wrote   *)
(* to the maps (daemon.go).                                                 *)
THEOREM ServicesLaunched == Spec => []LaunchedAsAdded
<1>1. BInv => LaunchedAsAdded
  BY DEF BInv, SettledInv, LaunchedAsAdded
<1> QED
  BY <1>1, BootstrapInvariance, PTL

(* The system is told READY=1 and STOPPING=1 once each, and in the reverse  *)
(* order only if the context was cancelled before the services were up      *)
(* (daemon.go, notify_systemd_linux.go).                                    *)
THEOREM ReadyComesFirst == Spec => []ReadyThenStopping
<1>1. BInv => ReadyThenStopping
  <2> SUFFICES ASSUME BInv PROVE ReadyThenStopping
    OBVIOUS
  <2>1. sent \in Seq({"READY=1", "STOPPING=1"})
    BY DEF BInv, TypeOK
  <2>2. \A i, j \in 1 .. Len(sent) : i < j =>
            sent[i] # sent[j] /\ (sent[i] = "STOPPING=1" => early)
    BY DEF BInv, NotifyInv
  <2>3. Len(sent) <= 2
    <3>1. SUFFICES ASSUME Len(sent) >= 3 PROVE FALSE
      BY <2>1
    <3>2. {1, 2, 3} \subseteq 1 .. Len(sent)
      BY <2>1, <3>1
    <3>3. \A i \in 1 .. Len(sent) : sent[i] \in {"READY=1", "STOPPING=1"}
      BY <2>1
    <3> QED
      BY <2>2, <3>2, <3>3
  <2>4. ASSUME Len(sent) = 2
        PROVE  sent[1] # sent[2] /\ (~early => sent = <<"READY=1", "STOPPING=1">>)
    <3>1. /\ sent[1] # sent[2]
          /\ sent[1] = "STOPPING=1" => early
          /\ sent[1] \in {"READY=1", "STOPPING=1"}
          /\ sent[2] \in {"READY=1", "STOPPING=1"}
      BY <2>1, <2>2, <2>4
    <3>2. sent = <<sent[1], sent[2]>>
      BY <2>1, <2>4
    <3> QED
      BY <3>1, <3>2
  <2> QED
    BY <2>3, <2>4 DEF ReadyThenStopping
<1> QED
  BY <1>1, BootstrapInvariance, PTL
=============================================================================
