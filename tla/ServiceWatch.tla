---------------------------- MODULE ServiceWatch ----------------------------
(***************************************************************************)
(* The watch goroutines of service_context.go (WatchAllServices,           *)
(* WatchAnyServices, WatchAllStates) as the clients of the states topic,   *)
(* with the registry calls they make (intracom.go), the states watcher as  *)
(* its publisher, and the part of Start that closes intracom and the log   *)
(* channel under them.                                                     *)
(*                                                                         *)
(* watchPc: off (not called); lookup, subscribing (CreateSubscription);    *)
(*          log (it failed); select, deliver (the loop and its inner       *)
(*          select); remove, unsubscribing (the deferred                   *)
(*          RemoveSubscription); closed (ch closed); crashed (a send on    *)
(*          the closed logC, which ends the process)                       *)
(* startPc: running; ended (services have exited); closing, emptied (the   *)
(*          two effects of intracom.Close); logClosed                      *)
(***************************************************************************)
EXTENDS Topic, FiniteSets

CONSTANTS
    Watches,   \* client -> the arguments of its Watch call and its fqcn
    Services,  \* service names
    States     \* lifecycle states services report

ActionString(action) == IF action = "notIn" THEN "unknown" ELSE action

ConsumerOfService(w) == <<w.fqcn>>  \* mutant: neither action nor target

(* internalStatesConsumer and internalAllStatesConsumer: the group name of  *)
(* a watch.                                                                 *)
Consumer(w) ==
    IF w.kind = "states" THEN <<"all", w.fqcn>>
    ELSE <<ActionString(w.action), w.target, w.fqcn>>

ASSUME WatchAssumption ==
    /\ "exit" \in States
    /\ \A c \in Clients :
          /\ Watches[c].kind \in {"all", "any", "states"}
          /\ Policy[c] = "DropOldest"
    /\ \A c, d \in Clients :
          GroupOf[c] = GroupOf[d] <=> Consumer(Watches[c]) = Consumer(Watches[d])
    /\ ErrIfExists = {} /\ BufferSize = 1 /\ ~SubscriberAware

VARIABLES
    watchPc,
    cancelled,  \* the watch's context is done
    pending,    \* the map the goroutine is about to send to ch, <<>> for none
    out,        \* ch, capacity 1: the map in it
    seen,       \* history: the last map the service received from ch
    published,  \* the states map each message carries
    startPc

watchVars == <<watchPc, cancelled, pending, out, seen>>
allVars == <<vars, watchVars, published, startPc>>

WatchInit ==
    /\ Init
    /\ watchPc = [c \in Clients |-> "off"]
    /\ cancelled = [c \in Clients |-> FALSE]
    /\ pending = [c \in Clients |-> <<>>]
    /\ out = [c \in Clients |-> <<>>]
    /\ seen = [c \in Clients |-> <<>>]
    /\ published = <<>>
    /\ startPc = "running"

-----------------------------------------------------------------------------
(* What a watch selects.                                                    *)

(* The map a message carries: the zero value of ServiceStates is nil.       *)
StatesOf(i) == IF i = 0 THEN [n \in {} |-> "exit"] ELSE published[i]

Selected(w, state) ==
    \/ w.action \in {"entered", "entering", "exited", "exiting"} /\ state = w.target
    \/ w.action = "notIn" /\ state # w.target

Restrict(states, names) == [n \in names \cap DOMAIN states |-> states[n]]

(* interestedServices of the two Watch...Services calls.                    *)
Interested(w, states) ==
    Restrict(states, {n \in DOMAIN states :
                         /\ \E i \in DOMAIN w.services : w.services[i] = n
                         /\ Selected(w, states[n])})

(* The map WatchAllStates sends.                                            *)
Filtered(w, states) ==
    IF w.names = {} \/ w.mode = "None" THEN states
    ELSE IF w.mode = "Include" THEN Restrict(states, w.names)
    ELSE Restrict(states, DOMAIN states \ w.names)

(* What the watch sends to ch for a message with these states, if it sends. *)
Result(w, states) ==
    IF w.kind = "states" THEN Filtered(w, states) ELSE Interested(w, states)

Size(states) == Cardinality(DOMAIN states)

Sends(w, states) ==
    \/ w.kind = "all" /\ Size(Interested(w, states)) = Len(w.services)
    \/ w.kind = "any" /\ Size(Interested(w, states)) > 0
    \/ w.kind = "states"

(* Whether message i makes watch c send, and what.                          *)
Matches(c, i) == Sends(Watches[c], StatesOf(i))
ResultOf(c, i) == Result(Watches[c], StatesOf(i))

-----------------------------------------------------------------------------
(* The goroutine of watch c.                                                *)

WatchGoto(c, l) == watchPc' = [watchPc EXCEPT ![c] = l]

(* The service calls a Watch method, which starts the goroutine.            *)
Watch(c) ==
    /\ watchPc[c] = "off"
    /\ startPc = "running"
    /\ WatchGoto(c, "lookup")
    /\ UNCHANGED <<vars, cancelled, pending, out, seen, published, startPc>>

(* CreateSubscription up to its call of Subscribe.  Start created the topic *)
(* before any service; only intracom.Close takes it away.  A ready context  *)
(* and a ready retry timer: either case.                                    *)
CreateSubscription(c) ==
    /\ watchPc[c] = "lookup"
    /\ \/ /\ cancelled[c] \/ startPc \notin {"running", "ended"}
          /\ WatchGoto(c, "log")
          /\ UNCHANGED vars
       \/ /\ startPc \in {"running", "ended"}
          /\ CallSubscribe(c)
          /\ WatchGoto(c, "subscribing")
    /\ UNCHANGED <<cancelled, pending, out, seen, published, startPc>>

(* Subscribe with the watch's context.                                      *)
WatchSubscribe(c) ==
    /\ watchPc[c] = "subscribing"
    /\ \/ SendRequest(c) /\ UNCHANGED watchPc
       \/ ReceiveResponse(c) /\ WatchGoto(c, "select")
       \/ cancelled[c] /\ GiveUp(c) /\ WatchGoto(c, "log")
    /\ UNCHANGED <<cancelled, pending, out, seen, published, startPc>>

(* The failed subscription is logged, whatever became of logC.              *)
LogFailure(c) ==
    /\ watchPc[c] = "log"
    /\ WatchGoto(c, IF startPc = "logClosed" THEN "crashed" ELSE "closed")
    /\ UNCHANGED <<vars, cancelled, pending, out, seen, published, startPc>>

CancelPointsOuter == {"select"}  \* mutant: the send to ch ignores the context
CancelPoints == {"select", "deliver"}

(* The ctx.Done() case of either select.                                    *)
WatchDone(c) ==
    /\ watchPc[c] \in CancelPoints
    /\ cancelled[c]
    /\ WatchGoto(c, "remove")
    /\ pending' = [pending EXCEPT ![c] = <<>>]
    /\ UNCHANGED <<vars, cancelled, out, seen, published, startPc>>

(* states arrive from the subscription.                                     *)
ReceiveStates(c) ==
    /\ watchPc[c] = "select"
    /\ Receive(c)
    /\ LET i == Head(chans[clientCh[c]].buf)
       IN  IF Matches(c, i)
           THEN WatchGoto(c, "deliver") /\ pending' = [pending EXCEPT ![c] = <<ResultOf(c, i)>>]
           ELSE UNCHANGED <<watchPc, pending>>
    /\ UNCHANGED <<cancelled, out, seen, published, startPc>>

(* The subscription channel was closed.                                     *)
SubscriptionClosed(c) ==
    /\ watchPc[c] = "select"
    /\ LET k == clientCh[c] IN chans[k].closed /\ chans[k].buf = <<>>
    /\ WatchGoto(c, "remove")
    /\ UNCHANGED <<vars, cancelled, pending, out, seen, published, startPc>>

(* Mutant of Deliver: a full ch drops the states.                           *)
DeliverOrDrop(c) ==
    /\ watchPc[c] = "deliver"
    /\ out' = IF out[c] = <<>> THEN [out EXCEPT ![c] = pending[c]] ELSE out
    /\ WatchGoto(c, "select")
    /\ UNCHANGED <<vars, cancelled, pending, seen, published, startPc>>

(* ch <- the selected states, when there is room.                           *)
Deliver(c) ==
    /\ watchPc[c] = "deliver"
    /\ out[c] = <<>>
    /\ out' = [out EXCEPT ![c] = pending[c]]
    /\ pending' = [pending EXCEPT ![c] = <<>>]
    /\ WatchGoto(c, "select")
    /\ UNCHANGED <<vars, cancelled, seen, published, startPc>>

(* The deferred RemoveSubscription: it fails once the registry is emptied.  *)
RemoveSubscription(c) ==
    /\ watchPc[c] = "remove"
    /\ \/ /\ startPc \in {"emptied", "logClosed"}
          /\ WatchGoto(c, "closed")
          /\ UNCHANGED vars
       \/ /\ startPc \notin {"emptied", "logClosed"}
          /\ CallUnsubscribe(c)
          /\ WatchGoto(c, "unsubscribing")
    /\ UNCHANGED <<cancelled, pending, out, seen, published, startPc>>

(* Unsubscribe, its answer or its two seconds; then the deferred close(ch). *)
WatchUnsubscribe(c) ==
    /\ watchPc[c] = "unsubscribing"
    /\ \/ SendRequest(c) /\ UNCHANGED watchPc
       \/ (ReceiveResponse(c) \/ GiveUp(c)) /\ WatchGoto(c, "closed")
    /\ UNCHANGED <<cancelled, pending, out, seen, published, startPc>>

-----------------------------------------------------------------------------
(* The service and the daemon around the watches.                           *)

ServiceReceives(c) ==
    /\ out[c] # <<>>
    /\ seen' = [seen EXCEPT ![c] = out[c]]
    /\ out' = [out EXCEPT ![c] = <<>>]
    /\ UNCHANGED <<vars, watchPc, cancelled, pending, published, startPc>>

(* The cancel function the Watch call returned.                             *)
ServiceCancels(c) ==
    /\ watchPc[c] # "off" /\ ~cancelled[c]
    /\ cancelled' = [cancelled EXCEPT ![c] = TRUE]
    /\ UNCHANGED <<vars, watchPc, pending, out, seen, published, startPc>>

(* scancel of every service, then wg.Done: Start goes on with the shutdown. *)
ServicesEnd ==
    /\ startPc = "running"
    /\ cancelled' = [c \in Clients |-> TRUE]
    /\ startPc' = "ended"
    /\ UNCHANGED <<vars, watchPc, pending, out, seen, published>>

(* statesWatcher takes an update and sends a copy of its map to the topic.  *)
PublishStates ==
    /\ startPc \in {"running", "ended"}
    /\ BeginPublish
    /\ LET latest == IF published = <<>> THEN [n \in Services |-> "exit"]
                     ELSE published[Len(published)]
       IN  \E n \in Services, s \in States :
               published' = Append(published, [latest EXCEPT ![n] = s])
    /\ UNCHANGED <<watchVars, startPc>>

(* <-statesDoneC, then intracom.Close: the flag, then the emptied map.  A   *)
(* Topic[ServiceStates] is not a Topic[any], so it is not closed.           *)
CloseIntracom ==
    /\ startPc = "ended" /\ pubPc = "idle"
    /\ startPc' = "closing"
    /\ UNCHANGED <<vars, watchVars, published>>

EmptyRegistry ==
    /\ startPc = "closing"
    /\ startPc' = "emptied"
    /\ UNCHANGED <<vars, watchVars, published>>

CloseLog ==
    /\ startPc = "emptied"
    /\ startPc' = "logClosed"
    /\ UNCHANGED <<vars, watchVars, published>>

-----------------------------------------------------------------------------
WatchGoroutine(c) ==
    \/ CreateSubscription(c) \/ WatchSubscribe(c) \/ LogFailure(c) \/ WatchDone(c)
    \/ ReceiveStates(c) \/ SubscriptionClosed(c) \/ Deliver(c)
    \/ RemoveSubscription(c) \/ WatchUnsubscribe(c)

StartCloses == CloseIntracom \/ EmptyRegistry \/ CloseLog

StatesBroadcast == Broadcast /\ UNCHANGED <<watchVars, published, startPc>>

WatchNext ==
    \/ \E c \in Clients : \/ Watch(c) \/ WatchGoroutine(c)
                          \/ ServiceReceives(c) \/ ServiceCancels(c)
    \/ ServicesEnd \/ PublishStates \/ StartCloses \/ StatesBroadcast

WatchSpec == WatchInit /\ [][WatchNext]_allVars

(* Goroutines run unless they are blocked: each watch (the two seconds of   *)
(* Unsubscribe run out), the broadcaster, and Start once services ended.    *)
(* Services need not watch, read, cancel or end.                            *)
FairWatchSpec ==
    /\ WatchSpec
    /\ \A c \in Clients : WF_allVars(WatchGoroutine(c))
    /\ WF_allVars(StatesBroadcast) /\ WF_allVars(StartCloses)

-----------------------------------------------------------------------------
(* Properties.                                                              *)

(* A watch's channel is closed only after its own context was cancelled, by *)
(* its cancel function or the end of its service: no watch is ended by      *)
(* another one (service_states.go:61,69 "to prevent overlapping consumer    *)
(* group names within the same service").                                   *)
WatchEndsOnCancel == \A c \in Clients : watchPc[c] = "closed" => cancelled[c]

(* The map in the channel of watch c, or else the last one taken from it.   *)
Delivered(c) == IF out[c] = <<>> THEN seen[c] ELSE out[c]

(* Whenever a watch and the topic are at rest, and the latest states match, *)
(* what the service received last, or finds in its channel, is the watch's  *)
(* selection of the latest states: dropping the oldest states never leaves  *)
(* a service with the selection of an earlier map (service_context.go:130). *)
LatestMatchDelivered ==
    \A c \in Clients :
        /\ watchPc[c] = "select" /\ bcPc = "select"
        /\ chans[clientCh[c]].buf = <<>>
        /\ Matches(c, lastMessage)
        => Delivered(c) = <<ResultOf(c, lastMessage)>>

(* A cancelled watch closes its channel, even if the service does not read  *)
(* it and even if the states topic hangs.                                   *)
Ending(c) == cancelled[c] /\ watchPc[c] \notin {"off", "closed", "crashed"}
CancelEndsWatch == (\E c \in Clients : Ending(c)) ~> (\A c \in Clients : ~Ending(c))

(* No watch crashes the process (daemon.go:237 "no service should be able   *)
(* to crash the daemon"): its goroutine does not log after close(logC).     *)
NoWatchCrash == \A c \in Clients : watchPc[c] # "crashed"

(* Once all services have exited the states watcher ends and Start closes   *)
(* intracom (daemon.go:211 "states watcher routine needs to be closed once  *)
(* all services have exited").                                              *)
StatesWatcherEnds == startPc = "ended" ~> startPc # "ended"

-----------------------------------------------------------------------------
(* The inductive invariant behind the two safety properties, for watches    *)
(* whose consumer names differ.                                             *)

Distinct ==
    \A c, d \in Clients : Consumer(Watches[c]) = Consumer(Watches[d]) => c = d

Maps == UNION {[N -> States] : N \in SUBSET Services}
Slot == {<<>>} \cup {<<m>> : m \in Maps}

WatchTypes ==
    /\ watchPc \in [Clients -> {"off", "lookup", "subscribing", "log", "select",
                                "deliver", "remove", "unsubscribing", "closed",
                                "crashed"}]
    /\ cancelled \in [Clients -> BOOLEAN]
    /\ pending \in [Clients -> Slot] /\ out \in [Clients -> Slot]
    /\ seen \in [Clients -> Slot]
    /\ startPc \in {"running", "ended", "closing", "emptied", "logClosed"}

(* The topic stays open and every subscriber of it drops the oldest.        *)
OpenInv ==
    /\ closePc = "open" /\ bcPc # "crashed"
    /\ \A k \in DOMAIN chans : chans[k].policy = "DropOldest"

(* Every message has its states.                                            *)
PublishInv ==
    /\ published \in Seq([Services -> States])
    /\ Len(published) = IF pubPc = "sending" THEN sent + 1 ELSE sent

(* Where the client of a watch is, and that only cancelled watches end.     *)
PhaseInv(c) ==
    /\ watchPc[c] \in {"off", "lookup", "log"} => clientPc[c] = "idle"
    /\ watchPc[c] = "subscribing" => clientPc[c] \in {"subSend", "subWait"}
    /\ watchPc[c] \in {"select", "deliver", "remove"} => clientPc[c] = "holding"
    /\ watchPc[c] = "unsubscribing" => clientPc[c] \in {"unsubSend", "unsubWait"}
    /\ watchPc[c] \in {"closed", "crashed"} => clientPc[c] \in {"idle", "holding"}
    /\ watchPc[c] \in {"log", "remove", "unsubscribing", "closed", "crashed"} =>
          cancelled[c]
    /\ startPc # "running" => cancelled[c]

(* Requests of a watch: it subscribes once, before its group has a channel. *)
WatchRequestInv(r) ==
    /\ r.op # "close"
    /\ r.answerTo # NoClient => r.answerTo = r.conf
    /\ r.op = "subscribe" =>
          /\ watchPc[r.conf] \in {"subscribing", "log", "closed", "crashed"}
          /\ clientPc[r.conf] # "subSend" /\ subscribers[GroupOf[r.conf]] = 0
    /\ r.op = "unsubscribe" =>
          /\ watchPc[r.conf] \in {"unsubscribing", "closed"}
          /\ clientPc[r.conf] # "holding"

(* The channel a watch holds, or is given, is its group's; nobody took the  *)
(* replayed message out before it.                                          *)
OwnInv(c) ==
    LET k == subscribers[GroupOf[c]]
    IN  /\ watchPc[c] \in {"off", "lookup"} \/ clientPc[c] = "subSend" => k = 0
        /\ clientPc[c] = "holding" => k = clientCh[c]
        /\ response[c].set /\ clientPc[c] = "subWait" =>
              ~response[c].err /\ k = response[c].ch /\ chans[k].buf # <<>>

(* What a watch took out of its channel last is on its way to the service.  *)
LatestInv(c) ==
    LET k == clientCh[c]
    IN  /\ watchPc[c] = "deliver" /\ chans[k].buf = <<>> =>
              pending[c] = <<ResultOf(c, chans[k].passed)>>
        /\ /\ watchPc[c] = "select" /\ chans[k].buf = <<>>
           /\ Matches(c, chans[k].passed)
           => Delivered(c) = <<ResultOf(c, chans[k].passed)>>

WInv ==
    /\ WatchTypes /\ OpenInv /\ PublishInv
    /\ \A c \in Clients : PhaseInv(c) /\ OwnInv(c) /\ LatestInv(c)
    /\ \A i \in DOMAIN requestC : WatchRequestInv(requestC[i])
=============================================================================
