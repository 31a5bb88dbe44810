----------------------------- MODULE WatchLemmas ----------------------------
(***************************************************************************)
(* WInv is preserved by the steps of the watches, of their services and of *)
(* Start, and by the publisher: the steps of the broadcaster and the       *)
(* theorems are in WatchProofs.                                            *)
(***************************************************************************)
EXTENDS ServiceWatch, TopicProofs

(* Facts the steps share.                                                   *)

AllPhases == \A c \in Clients : PhaseInv(c)
AllOwn == \A c \in Clients : OwnInv(c)
AllLatest == \A c \in Clients : LatestInv(c)
AllWatchRequests == \A i \in DOMAIN requestC : WatchRequestInv(requestC[i])

(* The settings every watch subscribes with. *)
LEMMA WatchConstants ==
    /\ BufferSize = 1 /\ ErrIfExists = {} /\ ~SubscriberAware /\ "exit" \in States
    /\ \A c \in Clients : Policy[c] = "DropOldest"
BY WatchAssumption

(* Watches with different consumers have different groups. *)
LEMMA OwnGroups ==
    ASSUME Distinct, NEW c \in Clients, NEW d \in Clients, GroupOf[c] = GroupOf[d]
    PROVE  c = d
BY WatchAssumption DEF Distinct

(* A watch that holds a channel: it is registered, and the topic's newest   *)
(* message went into it.                                                    *)
LEMMA Held ==
    ASSUME TInv, WInv, NEW c \in Clients, clientPc[c] = "holding", NEW k, k = clientCh[c]
    PROVE  /\ k \in 1 .. Len(chans) /\ k # 0 /\ GroupOf[c] \in Groups
           /\ k = subscribers[GroupOf[c]] /\ ~chans[k].closed
           /\ chans[k].policy = "DropOldest"
           /\ Newest(k) = Due(GroupOf[c])
<1>1. GroupOf[c] \in Groups
  BY TopicConstants
<1>2. k \in 1 .. Len(chans) /\ k = subscribers[GroupOf[c]]
  BY DEF TInv, ClientInv, WInv, OwnInv
<1>3. k # 0 /\ ~chans[k].closed
  BY <1>1, <1>2 DEF TInv, MapInv
<1>4. chans[k].policy = "DropOldest" /\ bcPc # "crashed"
  BY <1>2 DEF TInv, TypeOK, ChanTypes, WInv, OpenInv
<1>5. Newest(k) = Due(GroupOf[c])
  BY <1>1, <1>2, <1>3, <1>4, WatchConstants DEF TInv, NewestInv, PolicyOf
<1> QED
  BY <1>1, <1>2, <1>3, <1>4, <1>5

(* Every message that is due has been sent. *)
LEMMA DueSent ==
    ASSUME TInv, WInv, NEW g PROVE Due(g) \in 0 .. sent /\ sent \in Nat
<1>1. sent \in Nat /\ lastMessage \in Nat /\ lastMessage <= sent
  <2>1. bcPc \in {"select", "send", "returned", "crashed"} /\ sent \in Nat
        /\ lastMessage \in Nat
    BY DEF TInv, TypeOK, LoopTypes, PubTypes, Messages
  <2> QED
    BY <2>1 DEF TInv, MapInv
<1>2. Due(g) \in {lastMessage, sent}
  BY Zenon DEF Due
<1>3. lastMessage \in 0 .. sent /\ sent \in 0 .. sent
  BY <1>1
<1> QED
  BY <1>1, <1>2, <1>3, Zenon

(* The message a watch takes from its channel, of capacity one, has states. *)
LEMMA TakenMessage ==
    ASSUME TInv, WInv, NEW c \in Clients, clientPc[c] = "holding", NEW k, k = clientCh[c],
           chans[k].buf # <<>>, NEW h, h = Head(chans[k].buf)
    PROVE  h \in 0 .. Len(published)
<1>1. k \in 1 .. Len(chans) /\ Newest(k) = Due(GroupOf[c])
  BY Held
<1>2. /\ chans[k].buf \in Seq(Messages) /\ Len(chans[k].buf) <= 1
      /\ Len(chans[k].buf) \in Nat
  BY <1>1, BufferType, WatchConstants DEF TInv
<1>3. h = chans[k].buf[1] /\ Len(chans[k].buf) = 1
  <2>1. h = chans[k].buf[1] /\ Len(chans[k].buf) >= 1
    BY <1>2, TailAt
  <2>2. ASSUME NEW n \in Nat, n <= 1, n >= 1 PROVE n = 1
    BY <2>2
  <2> QED
    BY <1>2, <2>1, <2>2
<1>4. h = Due(GroupOf[c])
  BY <1>1, <1>3 DEF Newest
<1>5. h \in 0 .. sent /\ sent \in Nat
  BY <1>4, DueSent
<1>6. Len(published) \in Nat /\ sent <= Len(published)
  BY <1>5 DEF WInv, PublishInv
<1> QED
  BY <1>5, <1>6

(* Two watches never share a channel. *)
LEMMA HeldAlone ==
    ASSUME TInv, WInv, Distinct, NEW c \in Clients, NEW d \in Clients, c # d,
           clientPc[c] = "holding", subscribers[GroupOf[d]] # 0
    PROVE  subscribers[GroupOf[d]] # clientCh[c]
<1>1. GroupOf[c] # GroupOf[d] /\ GroupOf[c] \in Groups /\ GroupOf[d] \in Groups
  BY OwnGroups, TopicConstants
<1>2. clientCh[c] = subscribers[GroupOf[c]]
  BY Held
<1> QED
  BY <1>1, <1>2 DEF TInv, MapInv

(* A map selected from the states of a message is a map of services. *)
LEMMA ResultType ==
    ASSUME PublishInv, NEW c \in Clients, NEW i \in 0 .. Len(published)
    PROVE  <<ResultOf(c, i)>> \in Slot
<1>1. PICK states : states = StatesOf(i)
  OBVIOUS
<1>2. DOMAIN states \subseteq Services /\ \A n \in DOMAIN states : states[n] \in States
  <2>1. CASE i = 0
    BY <1>1, <2>1 DEF StatesOf
  <2>2. CASE i # 0
    <3>1. i \in 1 .. Len(published) /\ published \in Seq([Services -> States])
      BY <2>2 DEF PublishInv
    <3>2. published[i] \in [Services -> States]
      BY <3>1
    <3> QED
      BY <1>1, <2>2, <3>2 DEF StatesOf
  <2> QED
    BY <2>1, <2>2
<1>3. ASSUME NEW names PROVE Restrict(states, names) \in Maps
  <2>1. names \cap DOMAIN states \in SUBSET Services
    BY <1>2
  <2>2. Restrict(states, names) \in [names \cap DOMAIN states -> States]
    BY <1>2 DEF Restrict
  <2> QED
    BY <2>1, <2>2 DEF Maps
<1>4. states \in Maps
  <2>1. states \in [DOMAIN states -> States]
    <3>1. CASE i = 0
      BY <1>1, <3>1 DEF StatesOf
    <3>2. CASE i # 0
      <4>1. i \in 1 .. Len(published) /\ published \in Seq([Services -> States])
        BY <3>2 DEF PublishInv
      <4>2. published[i] \in [Services -> States]
        BY <4>1
      <4> QED
        BY <1>1, <3>2, <4>2 DEF StatesOf
    <3> QED
      BY <3>1, <3>2
  <2> QED
    BY <1>2, <2>1 DEF Maps
<1>5. Result(Watches[c], states) \in Maps
  BY <1>3, <1>4, Zenon DEF Result, Filtered, Interested
<1> QED
  BY <1>1, <1>5, Zenon DEF ResultOf, Slot

(* What watch d took last stays on its way. *)
LEMMA LatestKept ==
    ASSUME WInv, NEW d \in Clients, UNCHANGED published, NEW k, k = clientCh[d],
           watchPc'[d] = watchPc[d] \/ watchPc'[d] \notin {"select", "deliver"},
           watchPc[d] \in {"select", "deliver"} =>
             /\ clientCh'[d] = k /\ pending'[d] = pending[d]
             /\ Delivered(d)' = Delivered(d)
             /\ chans'[k].buf = <<>> => /\ chans[k].buf = <<>>
                                        /\ chans'[k].passed = chans[k].passed
    PROVE  LatestInv(d)'
<1>1. CASE watchPc'[d] \notin {"select", "deliver"}
  BY <1>1 DEF LatestInv
<1>2. CASE watchPc[d] \in {"select", "deliver"} /\ watchPc'[d] = watchPc[d]
  <2>1. CASE chans'[k].buf = <<>>
    <3>1. chans[k].buf = <<>> /\ chans'[k].passed = chans[k].passed
      BY <1>2, <2>1
    <3>2. LatestInv(d)
      BY DEF WInv
    <3>3. StatesOf(chans[k].passed)' = StatesOf(chans[k].passed)
      BY <3>1 DEF StatesOf
    <3> QED
      BY <1>2, <2>1, <3>1, <3>2, <3>3 DEF LatestInv, Matches, ResultOf
  <2>2. CASE chans'[k].buf # <<>>
    BY <1>2, <2>2 DEF LatestInv
  <2> QED
    BY <2>1, <2>2
<1> QED
  BY <1>1, <1>2

-----------------------------------------------------------------------------
(* Steps that leave the topic alone.                                        *)

(* A queued request of watch c survives its moves. *)
LEMMA MoveRequests ==
    ASSUME TInv, WInv, NEW c \in Clients, NEW l, watchPc' = [watchPc EXCEPT ![c] = l],
           UNCHANGED <<requestC, subscribers, clientPc>>,
           \/ watchPc[c] \in {"off", "lookup", "select", "deliver", "remove"}
           \/ watchPc[c] = "log" /\ l \in {"closed", "crashed"}
    PROVE  AllWatchRequests'
<1> SUFFICES ASSUME NEW i \in DOMAIN requestC PROVE WatchRequestInv(requestC[i])'
  BY DEF AllWatchRequests
<1> DEFINE r == requestC[i]
<1>1. WatchRequestInv(r) /\ RequestInv(r) /\ r' = r
  BY DEF WInv, TInv
<1>2. r.op \in {"subscribe", "unsubscribe"} => r.conf \in Clients
  BY <1>1 DEF RequestInv
<1>3. watchPc \in [Clients -> {"off", "lookup", "subscribing", "log", "select",
                                "deliver", "remove", "unsubscribing", "closed",
                                "crashed"}]
  BY DEF WInv, WatchTypes
<1> HIDE DEF r
<1>4. PhaseInv(c)
  BY DEF WInv
<1>5. WatchRequestInv(r)'
  BY <1>1, <1>2, <1>3, <1>4 DEF WatchRequestInv, PhaseInv
<1> QED
  BY <1>1, <1>5 DEF r

(* The moves of a watch within and out of its loop, and around it. *)
LEMMA MoveKeeps ==
    ASSUME TInv, WInv, NEW c \in Clients, NEW l, watchPc' = [watchPc EXCEPT ![c] = l],
           UNCHANGED <<vars, cancelled, published, startPc>>,
           \/ watchPc[c] = "off" /\ l = "lookup"
           \/ watchPc[c] = "lookup" /\ l = "log" /\ cancelled[c]
           \/ watchPc[c] = "log" /\ l \in {"closed", "crashed"}
           \/ watchPc[c] \in {"select", "deliver"} /\ l \in {"select", "deliver"}
           \/ watchPc[c] \in {"select", "deliver"} /\ l = "remove" /\ cancelled[c]
           \/ watchPc[c] = "remove" /\ l = "closed"
    PROVE  /\ OpenInv' /\ PublishInv' /\ AllPhases' /\ AllOwn' /\ AllWatchRequests'
           /\ watchPc' \in [Clients -> {"off", "lookup", "subscribing", "log", "select",
                                "deliver", "remove", "unsubscribing", "closed",
                                "crashed"}]
<1> USE DEF vars, topicVars, clientVars, callVars, bcVars, loopVars, pubVars
<1>1. watchPc \in [Clients -> {"off", "lookup", "subscribing", "log", "select",
                                "deliver", "remove", "unsubscribing", "closed",
                                "crashed"}]
  BY DEF WInv, WatchTypes
<1>2. OpenInv' /\ PublishInv'
  BY DEF WInv, OpenInv, PublishInv
<1>3. AllPhases'
  BY <1>1 DEF WInv, AllPhases, PhaseInv
<1>4. AllOwn'
  BY <1>1 DEF WInv, AllOwn, OwnInv
<1>5. AllWatchRequests'
  BY MoveRequests
<1> QED
  BY <1>1, <1>2, <1>3, <1>4, <1>5

(* What the other watches took last stays on its way. *)
LEMMA OthersLatest ==
    ASSUME WInv, NEW c \in Clients, UNCHANGED <<published, chans, clientCh>>,
           \A d \in Clients \ {c} :
              /\ watchPc'[d] = watchPc[d] /\ pending'[d] = pending[d]
              /\ out'[d] = out[d] /\ seen'[d] = seen[d],
           LatestInv(c)'
    PROVE  AllLatest'
<1> SUFFICES ASSUME NEW d \in Clients, d # c PROVE LatestInv(d)'
  BY DEF AllLatest
<1>1. Delivered(d)' = Delivered(d)
  BY DEF Delivered
<1> QED
  BY <1>1, LatestKept

(* The watch leaves its loop, or was not in it. *)
LEMMA MoveAway ==
    ASSUME TInv, WInv, NEW c \in Clients,
           \/ Watch(c) \/ LogFailure(c) \/ WatchDone(c) \/ SubscriptionClosed(c)
           \/ CreateSubscription(c) /\ UNCHANGED vars
           \/ RemoveSubscription(c) /\ UNCHANGED vars
    PROVE  WInv'
<1>0. ~SubscriptionClosed(c)
  <2>1. watchPc[c] = "select" => clientPc[c] = "holding"
    BY DEF WInv, PhaseInv
  <2>2. watchPc[c] = "select" => ~chans[clientCh[c]].closed
    BY <2>1, Held
  <2> QED
    BY <2>2 DEF SubscriptionClosed
<1>1. WatchTypes /\ PhaseInv(c)
  BY DEF WInv
<1>2. UNCHANGED <<vars, cancelled, out, seen, published, startPc>>
  BY <1>0 DEF Watch, LogFailure, WatchDone, CreateSubscription, RemoveSubscription
<1>3. PICK l : /\ watchPc' = [watchPc EXCEPT ![c] = l]
               /\ \/ watchPc[c] = "off" /\ l = "lookup"
                  \/ watchPc[c] = "lookup" /\ l = "log" /\ cancelled[c]
                  \/ watchPc[c] = "log" /\ l \in {"closed", "crashed"}
                  \/ watchPc[c] \in {"select", "deliver"} /\ l = "remove" /\ cancelled[c]
                  \/ watchPc[c] = "remove" /\ l = "closed"
  <2>1. CASE Watch(c)
    BY <2>1 DEF Watch, WatchGoto
  <2>2. CASE LogFailure(c)
    BY <2>2 DEF LogFailure, WatchGoto
  <2>3. CASE WatchDone(c)
    BY <2>3 DEF WatchDone, WatchGoto, CancelPoints
  <2>4. CASE CreateSubscription(c) /\ UNCHANGED vars
    <3>1. ~CallSubscribe(c)
      BY <2>4 DEF CallSubscribe, Goto, vars, clientVars, callVars, TInv, TypeOK, CallTypes
    <3> QED
      BY <1>1, <2>4, <3>1 DEF CreateSubscription, WatchGoto, PhaseInv
  <2>5. CASE RemoveSubscription(c) /\ UNCHANGED vars
    <3>1. ~CallUnsubscribe(c)
      BY <2>5 DEF CallUnsubscribe, Goto, vars, clientVars, callVars, TInv, TypeOK,
                  CallTypes
    <3> QED
      BY <2>5, <3>1 DEF RemoveSubscription, WatchGoto
  <2> QED
    BY <1>0, <2>1, <2>2, <2>3, <2>4, <2>5
<1>4. pending' = pending \/ pending' = [pending EXCEPT ![c] = <<>>]
  BY <1>0 DEF Watch, LogFailure, WatchDone, CreateSubscription, RemoveSubscription
<1>5. /\ OpenInv' /\ PublishInv' /\ AllPhases' /\ AllOwn' /\ AllWatchRequests'
      /\ watchPc' \in [Clients -> {"off", "lookup", "subscribing", "log", "select",
                                "deliver", "remove", "unsubscribing", "closed",
                                "crashed"}]
  BY <1>2, <1>3, MoveKeeps
<1>6. WatchTypes'
  <2>1. pending' \in [Clients -> Slot]
    BY <1>1, <1>4, Zenon DEF WatchTypes, Slot
  <2> QED
    BY <1>1, <1>2, <1>5, <2>1 DEF WatchTypes
<1>7. AllLatest'
  <2>1. watchPc'[c] \notin {"select", "deliver"}
    BY <1>1, <1>3 DEF WatchTypes
  <2>2. LatestInv(c)'
    BY <2>1 DEF LatestInv
  <2>3. UNCHANGED <<published, chans, clientCh>>
    BY <1>2 DEF vars, clientVars, callVars, bcVars
  <2>4. \A d \in Clients \ {c} :
              /\ watchPc'[d] = watchPc[d] /\ pending'[d] = pending[d]
              /\ out'[d] = out[d] /\ seen'[d] = seen[d]
    BY <1>1, <1>2, <1>3, <1>4 DEF WatchTypes
  <2> QED
    BY <2>2, <2>3, <2>4, OthersLatest
<1> QED
  BY <1>5, <1>6, <1>7 DEF WInv, AllPhases, AllOwn, AllLatest, AllWatchRequests

(* The states go to ch. *)
LEMMA DeliverWInv ==
    ASSUME TInv, WInv, NEW c \in Clients, Deliver(c) PROVE WInv'
<1> USE DEF Deliver, WatchGoto
<1>1. WatchTypes /\ LatestInv(c)
  BY DEF WInv
<1>2. /\ OpenInv' /\ PublishInv' /\ AllPhases' /\ AllOwn' /\ AllWatchRequests'
      /\ watchPc' \in [Clients -> {"off", "lookup", "subscribing", "log", "select",
                                "deliver", "remove", "unsubscribing", "closed",
                                "crashed"}]
  BY MoveKeeps
<1>3. out'[c] = pending[c]
  BY <1>1 DEF WatchTypes
<1>4. WatchTypes'
  <2>1. out' \in [Clients -> Slot]
    BY <1>1 DEF WatchTypes
  <2>2. <<>> \in Slot
    BY Zenon DEF Slot
  <2>3. pending' \in [Clients -> Slot]
    BY <1>1, <2>2 DEF WatchTypes
  <2> QED
    BY <1>1, <1>2, <2>1, <2>3 DEF WatchTypes
<1>5. UNCHANGED <<published, chans, clientCh>>
  BY DEF vars, clientVars, callVars, bcVars
<1>6. LatestInv(c)'
  <2>0. PICK k : k = clientCh[c]
    OBVIOUS
  <2> SUFFICES ASSUME chans[k].buf = <<>>
               PROVE  Delivered(c)' = <<ResultOf(c, chans[k].passed)>>'
    <3>1. watchPc'[c] = "select" /\ clientCh'[c] = k
      BY <1>1, <1>5, <2>0 DEF WatchTypes
    <3> QED
      BY <1>5, <3>1 DEF LatestInv
  <2>1. pending[c] = <<ResultOf(c, chans[k].passed)>>
    BY <1>1, <2>0 DEF LatestInv
  <2>2. Delivered(c)' = pending[c]
    BY <1>3, <2>1 DEF Delivered
  <2>3. ResultOf(c, chans[k].passed)' = ResultOf(c, chans[k].passed)
    BY <1>5 DEF ResultOf, StatesOf
  <2> QED
    BY <2>1, <2>2, <2>3
<1>7. \A d \in Clients \ {c} :
              /\ watchPc'[d] = watchPc[d] /\ pending'[d] = pending[d]
              /\ out'[d] = out[d] /\ seen'[d] = seen[d]
  BY <1>1 DEF WatchTypes
<1>8. AllLatest'
  BY <1>5, <1>6, <1>7, OthersLatest
<1> QED
  BY <1>2, <1>4, <1>8 DEF WInv, AllPhases, AllOwn, AllLatest, AllWatchRequests

(* The service reads its channel. *)
LEMMA ServiceReceivesWInv ==
    ASSUME TInv, WInv, NEW c \in Clients, ServiceReceives(c) PROVE WInv'
<1> USE DEF ServiceReceives
<1>1. WatchTypes /\ LatestInv(c) /\ UNCHANGED <<vars, watchPc, cancelled, published, startPc>>
  BY DEF WInv
<1>2. <<>> \in Slot
  BY Zenon DEF Slot
<1>3. WatchTypes'
  BY <1>1, <1>2 DEF WatchTypes
<1>4. OpenInv' /\ PublishInv' /\ AllPhases' /\ AllOwn' /\ AllWatchRequests'
  <2>1. UNCHANGED <<closePc, bcPc, chans, pubPc, sent, clientPc, clientCh, response,
                    subscribers, requestC, watchPc, cancelled, published, startPc>>
    BY <1>1 DEF vars, topicVars, clientVars, callVars, bcVars, loopVars, pubVars
  <2> HIDE DEF ServiceReceives
  <2>2. OpenInv' /\ PublishInv'
    BY <2>1 DEF WInv, OpenInv, PublishInv
  <2>3. AllPhases' /\ AllOwn'
    BY <2>1 DEF WInv, AllPhases, AllOwn, PhaseInv, OwnInv
  <2>4. AllWatchRequests'
    BY <2>1 DEF WInv, AllWatchRequests, WatchRequestInv
  <2> QED
    BY <2>2, <2>3, <2>4
<1>5. UNCHANGED <<published, chans, clientCh>>
  BY DEF vars, clientVars, callVars, bcVars
<1>6. LatestInv(c)'
  <2>1. Delivered(c)' = Delivered(c)
    BY <1>1 DEF Delivered, WatchTypes
  <2> QED
    BY <1>1, <1>5, <2>1, LatestKept
<1>7. \A d \in Clients \ {c} :
              /\ watchPc'[d] = watchPc[d] /\ pending'[d] = pending[d]
              /\ out'[d] = out[d] /\ seen'[d] = seen[d]
  BY <1>1 DEF WatchTypes
<1>8. AllLatest'
  BY <1>5, <1>6, <1>7, OthersLatest
<1> QED
  BY <1>3, <1>4, <1>8 DEF WInv, AllPhases, AllOwn, AllLatest, AllWatchRequests

(* A context is cancelled, or Start goes on: nothing a watch holds changes, *)
(* and what was cancelled stays so.                                         *)
LEMMA AroundWInv ==
    ASSUME TInv, WInv, UNCHANGED <<vars, watchPc, pending, out, seen, published>>,
           cancelled' \in [Clients -> BOOLEAN],
           startPc' \in {"running", "ended", "closing", "emptied", "logClosed"},
           \A c \in Clients : cancelled[c] \/ startPc' # "running" => cancelled'[c]
    PROVE  WInv'
<1>1. WatchTypes'
  BY DEF WInv, WatchTypes
<1>2. OpenInv' /\ PublishInv' /\ AllOwn' /\ AllWatchRequests'
  BY DEF WInv, OpenInv, PublishInv, AllOwn, AllWatchRequests, OwnInv, WatchRequestInv,
         vars, topicVars, clientVars, callVars, bcVars, loopVars, pubVars
<1>3. AllPhases'
  BY DEF WInv, AllPhases, PhaseInv, vars, clientVars, callVars
<1>4. AllLatest'
  BY DEF WInv, AllLatest, LatestInv, Matches, ResultOf, StatesOf, Delivered, vars,
         clientVars, callVars, bcVars
<1> QED
  BY <1>1, <1>2, <1>3, <1>4 DEF WInv, AllPhases, AllOwn, AllLatest, AllWatchRequests

LEMMA ServicesWInv ==
    ASSUME TInv, WInv,
           ServicesEnd \/ StartCloses \/ \E c \in Clients : ServiceCancels(c)
    PROVE  WInv'
<1>1. /\ cancelled \in [Clients -> BOOLEAN]
      /\ startPc \in {"running", "ended", "closing", "emptied", "logClosed"}
      /\ \A c \in Clients : startPc # "running" => cancelled[c]
  BY DEF WInv, WatchTypes, PhaseInv
<1>2. CASE ServicesEnd
  BY <1>1, <1>2, AroundWInv DEF ServicesEnd
<1>3. CASE StartCloses
  BY <1>1, <1>3, AroundWInv DEF StartCloses, CloseIntracom, EmptyRegistry, CloseLog,
                                watchVars
<1>4. ASSUME NEW c \in Clients, ServiceCancels(c) PROVE WInv'
  BY <1>1, <1>4, AroundWInv DEF ServiceCancels
<1> QED
  BY <1>2, <1>3, <1>4

-----------------------------------------------------------------------------
(* The publisher: a new message, the states of the older ones stay.         *)

LEMMA PublishStatesWInv ==
    ASSUME TInv, WInv, PublishStates PROVE WInv'
<1>1. /\ pubPc = "idle" /\ pubPc' = "sending" /\ UNCHANGED sent
      /\ UNCHANGED <<topicVars, requestC, clientVars, bcVars>>
      /\ UNCHANGED <<watchVars, startPc>>
  BY DEF PublishStates, BeginPublish
<1>2. published \in Seq([Services -> States]) /\ Len(published) = sent
  BY <1>1 DEF WInv, PublishInv
<1>3. PICK x \in [Services -> States] : published' = Append(published, x)
  <2> DEFINE latest == IF published = <<>> THEN [n \in Services |-> "exit"]
                       ELSE published[Len(published)]
  <2>1. latest \in [Services -> States]
    <3>1. CASE published = <<>>
      BY <3>1, WatchConstants
    <3>2. CASE published # <<>>
      <4>1. Len(published) \in 1 .. Len(published)
        BY <1>2, <3>2
      <4> QED
        BY <1>2, <3>2, <4>1
    <3> QED
      BY <3>1, <3>2
  <2>2. PICK n \in Services, st \in States :
            published' = Append(published, [latest EXCEPT ![n] = st])
    BY DEF PublishStates
  <2> HIDE DEF latest
  <2>3. [latest EXCEPT ![n] = st] \in [Services -> States]
    BY <2>1
  <2> QED
    BY <2>2, <2>3
<1>4. /\ published' \in Seq([Services -> States]) /\ Len(published') = sent + 1
      /\ \A i \in 1 .. sent : published'[i] = published[i]
  BY <1>2, <1>3, AppendAt
<1>5. WatchTypes' /\ OpenInv' /\ PublishInv'
  <2>1. WatchTypes'
    BY <1>1 DEF WInv, WatchTypes, watchVars
  <2>2. OpenInv'
    BY <1>1 DEF WInv, OpenInv, topicVars, bcVars, loopVars
  <2> QED
    BY <1>1, <1>4, <2>1, <2>2 DEF PublishInv
<1>6. AllPhases' /\ AllOwn' /\ AllWatchRequests'
  BY <1>1 DEF WInv, AllPhases, AllOwn, AllWatchRequests, PhaseInv, OwnInv,
              WatchRequestInv, watchVars, clientVars, callVars, bcVars
<1>7. ASSUME NEW c \in Clients PROVE LatestInv(c)'
  <2>0. PICK k : k = clientCh[c]
    OBVIOUS
  <2>1. UNCHANGED <<watchPc, pending, out, seen, chans, clientCh>>
    BY <1>1 DEF watchVars, clientVars, callVars, bcVars
  <2>2. ASSUME watchPc[c] \in {"select", "deliver"}, chans[k].buf = <<>>
        PROVE  StatesOf(chans[k].passed)' = StatesOf(chans[k].passed)
    <3>1. clientPc[c] = "holding"
      BY <2>2 DEF WInv, PhaseInv
    <3>2. chans[k].passed = Due(GroupOf[c])
      BY <2>0, <2>2, <3>1, Held DEF Newest
    <3>3. sent \in Nat
      BY DueSent
    <3>4. chans[k].passed \in 0 .. sent
      BY <3>2, DueSent
    <3>5. PICK m \in 0 .. sent : m = chans[k].passed
      BY <3>4
    <3>6. m = 0 \/ m \in 1 .. sent
      BY <3>3
    <3>7. m = 0 \/ published'[m] = published[m]
      BY <1>4, <3>6, Zenon
    <3>8. chans'[k].passed = m
      BY <2>1, <3>5
    <3> QED
      BY <3>5, <3>7, <3>8, Zenon DEF StatesOf
  <2>3. LatestInv(c) /\ Delivered(c)' = Delivered(c)
    BY <2>1 DEF WInv, Delivered
  <2> QED
    BY <2>0, <2>1, <2>2, <2>3 DEF LatestInv, Matches, ResultOf
<1> QED
  BY <1>5, <1>6, <1>7 DEF WInv, AllPhases, AllOwn, AllWatchRequests

-----------------------------------------------------------------------------
(* The calls of the watches on the topic.                                   *)

(* What a call of watch c leaves alone. *)
LEMMA CallKeeps ==
    ASSUME WInv, NEW c \in Clients, NEW l, NEW pc,
           watchPc' = [watchPc EXCEPT ![c] = l],
           clientPc' = [clientPc EXCEPT ![c] = pc],
           l \in {"subscribing", "log", "select", "unsubscribing", "closed"},
           \A d \in Clients \ {c} : clientCh'[d] = clientCh[d] /\ response'[d] = response[d],
           UNCHANGED <<topicVars, bcVars, pubVars, cancelled, pending, out, seen,
                       published, startPc>>,
           TInv, PhaseInv(c)', OwnInv(c)', LatestInv(c)'
    PROVE  WatchTypes' /\ OpenInv' /\ PublishInv' /\ AllPhases' /\ AllOwn' /\ AllLatest'
<1>1. WatchTypes /\ clientPc \in [Clients -> {"idle", "subSend", "subWait", "holding",
                                 "unsubSend", "unsubWait", "panicked"}]
  BY DEF WInv, TInv, TypeOK, CallTypes
<1>2. WatchTypes' /\ OpenInv' /\ PublishInv'
  BY <1>1 DEF WInv, WatchTypes, OpenInv, PublishInv, topicVars, bcVars, loopVars, pubVars
<1>3. ASSUME NEW d \in Clients, d # c PROVE PhaseInv(d)' /\ OwnInv(d)' /\ LatestInv(d)'
  <2>1. watchPc'[d] = watchPc[d] /\ clientPc'[d] = clientPc[d]
    BY <1>1, <1>3 DEF WatchTypes
  <2>2. PhaseInv(d) /\ OwnInv(d)
    BY DEF WInv
  <2>3. clientCh'[d] = clientCh[d] /\ response'[d] = response[d]
    BY <1>3
  <2>4. UNCHANGED <<subscribers, chans>>
    BY DEF bcVars
  <2>5. PhaseInv(d)'
    BY <2>1, <2>2 DEF PhaseInv
  <2>6. OwnInv(d)'
    BY <2>1, <2>2, <2>3, <2>4 DEF OwnInv
  <2>7. LatestInv(d)'
    BY <2>1, <2>3, <2>4, LatestKept DEF Delivered
  <2> QED
    BY <2>5, <2>6, <2>7
<1> QED
  BY <1>2, <1>3 DEF AllPhases, AllOwn, AllLatest

(* The watch subscribes, or asks to unsubscribe. *)
LEMMA CallsWInv ==
    ASSUME TInv, WInv, NEW c \in Clients,
           \/ CreateSubscription(c) /\ CallSubscribe(c)
           \/ RemoveSubscription(c) /\ CallUnsubscribe(c)
    PROVE  WInv'
<1>1. WatchTypes /\ clientPc \in [Clients -> {"idle", "subSend", "subWait", "holding",
                                 "unsubSend", "unsubWait", "panicked"}]
  BY DEF WInv, TInv, TypeOK, CallTypes
<1>2. PhaseInv(c) /\ OwnInv(c)
  BY DEF WInv
<1>3. /\ UNCHANGED <<topicVars, requestC, clientCh, response, bcVars, pubVars>>
      /\ UNCHANGED <<cancelled, pending, out, seen, published, startPc>>
  BY DEF CreateSubscription, RemoveSubscription, CallSubscribe, CallUnsubscribe
<1>4. PICK l, pc : /\ watchPc' = [watchPc EXCEPT ![c] = l]
                   /\ clientPc' = [clientPc EXCEPT ![c] = pc]
                   /\ \/ /\ watchPc[c] = "lookup" /\ l = "subscribing" /\ pc = "subSend"
                      \/ /\ watchPc[c] = "remove" /\ l = "unsubscribing"
                         /\ pc = "unsubSend"
  <2>1. CASE CreateSubscription(c) /\ CallSubscribe(c)
    <3>1. clientPc' = [clientPc EXCEPT ![c] = "subSend"] /\ clientPc[c] = "idle"
      BY <2>1 DEF CallSubscribe, Goto
    <3>2. ~UNCHANGED vars
      BY <1>1, <3>1 DEF vars, clientVars, callVars
    <3> QED
      BY <2>1, <3>1, <3>2 DEF CreateSubscription, WatchGoto
  <2>2. CASE RemoveSubscription(c) /\ CallUnsubscribe(c)
    <3>1. clientPc' = [clientPc EXCEPT ![c] = "unsubSend"] /\ clientPc[c] = "holding"
      BY <2>2 DEF CallUnsubscribe, Goto
    <3>2. ~UNCHANGED vars
      BY <1>1, <3>1 DEF vars, clientVars, callVars
    <3> QED
      BY <2>2, <3>1, <3>2 DEF RemoveSubscription, WatchGoto
  <2> QED
    BY <2>1, <2>2
<1>5. watchPc'[c] = l /\ clientPc'[c] = pc
  BY <1>1, <1>4 DEF WatchTypes
<1>6. PhaseInv(c)'
  BY <1>2, <1>3, <1>4, <1>5 DEF PhaseInv
<1>7. OwnInv(c)' /\ LatestInv(c)'
  BY <1>2, <1>3, <1>4, <1>5 DEF OwnInv, LatestInv, bcVars
<1>8. WatchTypes' /\ OpenInv' /\ PublishInv' /\ AllPhases' /\ AllOwn' /\ AllLatest'
  BY <1>3, <1>4, <1>6, <1>7, CallKeeps
<1>9. AllWatchRequests'
  <2> SUFFICES ASSUME NEW i \in DOMAIN requestC PROVE WatchRequestInv(requestC[i])'
    BY <1>3 DEF AllWatchRequests
  <2>1. PICK r : r = requestC[i]
    OBVIOUS
  <2>2. WatchRequestInv(r) /\ RequestInv(r) /\ requestC'[i] = r /\ UNCHANGED subscribers
    BY <1>3, <2>1 DEF WInv, TInv, bcVars
  <2>3. r.op \in {"subscribe", "unsubscribe"} => r.conf \in Clients
    BY <2>2 DEF RequestInv
  <2> QED
    BY <1>1, <1>4, <1>5, <2>2, <2>3 DEF WatchRequestInv, WatchTypes
<1> QED
  BY <1>8, <1>9 DEF WInv, AllPhases, AllOwn, AllLatest, AllWatchRequests

(* The request goes into the empty queue. *)
LEMMA SendWInv ==
    ASSUME TInv, WInv, NEW c \in Clients, SendRequest(c),
           watchPc[c] \in {"subscribing", "unsubscribing"},
           UNCHANGED <<watchVars, published, startPc>>
    PROVE  WInv'
<1>0. PICK r, pc : /\ r = [op |-> IF clientPc[c] = "subSend" THEN "subscribe"
                                  ELSE "unsubscribe",
                           conf |-> c, ch |-> clientCh[c], answerTo |-> c]
                   /\ pc = IF clientPc[c] = "subSend" THEN "subWait" ELSE "unsubWait"
  OBVIOUS
<1>1. WatchTypes /\ clientPc \in [Clients -> {"idle", "subSend", "subWait", "holding",
                                 "unsubSend", "unsubWait", "panicked"}]
  BY DEF WInv, TInv, TypeOK, CallTypes
<1>2. PhaseInv(c) /\ OwnInv(c) /\ ClientInv(c)
  BY DEF WInv, TInv
<1>3. /\ requestC' = Append(requestC, r) /\ RequestRoom
      /\ clientPc[c] \in {"subSend", "unsubSend"}
      /\ clientPc' = [clientPc EXCEPT ![c] = pc]
      /\ UNCHANGED <<topicVars, clientCh, response, bcVars, pubVars>>
      /\ UNCHANGED <<watchPc, cancelled, pending, out, seen, published, startPc>>
  BY <1>0 DEF SendRequest, Goto, watchVars
<1>4. watchPc' = [watchPc EXCEPT ![c] = watchPc[c]] /\ clientPc'[c] = pc
  BY <1>1, <1>3 DEF WatchTypes
<1>5. PhaseInv(c)'
  BY <1>0, <1>2, <1>3, <1>4 DEF PhaseInv
<1>6. OwnInv(c)' /\ LatestInv(c)'
  <2>1. ~response'[c].set
    BY <1>2, <1>3 DEF ClientInv
  <2>2. /\ watchPc'[c] \notin {"off", "lookup", "select", "deliver"}
        /\ clientPc'[c] \notin {"subSend", "holding"}
    BY <1>0, <1>3, <1>4
  <2> QED
    BY <2>1, <2>2 DEF OwnInv, LatestInv
<1>7. WatchTypes' /\ OpenInv' /\ PublishInv' /\ AllPhases' /\ AllOwn' /\ AllLatest'
  <2>1. watchPc[c] \in {"subscribing", "log", "select", "unsubscribing", "closed"}
    OBVIOUS
  <2> QED
    BY <1>3, <1>4, <1>5, <1>6, <2>1, CallKeeps
<1>8. AllWatchRequests'
  <2>1. TypeOK /\ r \in Request
    BY <1>0 DEF TInv, TypeOK, CallTypes, Request
  <2>2. \A i \in DOMAIN requestC' : requestC'[i] = r
    BY <1>3, <2>1, AloneInQueue
  <2>3. r.conf = c /\ r.answerTo = c
        /\ r.op = IF clientPc[c] = "subSend" THEN "subscribe" ELSE "unsubscribe"
    BY <1>0
  <2>4. UNCHANGED <<subscribers, watchPc>>
    BY <1>3 DEF bcVars
  <2>5. /\ clientPc'[c] \notin {"subSend", "holding"}
        /\ r.op \in {"subscribe", "unsubscribe"}
        /\ r.op = "subscribe" => clientPc[c] = "subSend"
        /\ r.op = "unsubscribe" => clientPc[c] = "unsubSend"
    BY <1>0, <1>3, <1>4, <2>3
  <2>6. /\ clientPc[c] = "subSend" =>
              watchPc[c] = "subscribing" /\ subscribers[GroupOf[c]] = 0
        /\ clientPc[c] = "unsubSend" => watchPc[c] = "unsubscribing"
    BY <1>2 DEF PhaseInv, OwnInv
  <2>7. WatchRequestInv(r)'
    BY <2>3, <2>4, <2>5, <2>6 DEF WatchRequestInv
  <2> QED
    BY <2>2, <2>7 DEF AllWatchRequests
<1> QED
  BY <1>7, <1>8 DEF WInv, AllPhases, AllOwn, AllLatest, AllWatchRequests

(* A call ends without its answer: its request may still be queued. *)
LEMMA GiveUpWInv ==
    ASSUME TInv, WInv, NEW c \in Clients, GiveUp(c), NEW l,
           watchPc' = [watchPc EXCEPT ![c] = l],
           \/ watchPc[c] = "subscribing" /\ l = "log" /\ cancelled[c]
           \/ watchPc[c] = "unsubscribing" /\ l = "closed",
           UNCHANGED <<cancelled, pending, out, seen, published, startPc>>
    PROVE  WInv'
<1>1. WatchTypes /\ clientPc \in [Clients -> {"idle", "subSend", "subWait", "holding",
                                 "unsubSend", "unsubWait", "panicked"}]
      /\ clientCh \in [Clients -> ChanIds]
      /\ response \in [Clients -> [ch : ChanIds, err : BOOLEAN, set : BOOLEAN]]
  BY DEF WInv, TInv, TypeOK, CallTypes, ResponseTypes
<1>2. PhaseInv(c)
  BY DEF WInv
<1>3. /\ clientPc' = [clientPc EXCEPT ![c] = "idle"]
      /\ clientCh' = [clientCh EXCEPT ![c] = 0]
      /\ response' = [response EXCEPT ![c] = NoResponse]
      /\ UNCHANGED <<topicVars, bcVars, pubVars>>
  BY DEF GiveUp, Goto
<1>4. watchPc'[c] = l /\ clientPc'[c] = "idle"
  BY <1>1, <1>3 DEF WatchTypes
<1>5. PhaseInv(c)'
  BY <1>2, <1>4 DEF PhaseInv
<1>6. OwnInv(c)' /\ LatestInv(c)'
  BY <1>4 DEF OwnInv, LatestInv
<1>7. \A d \in Clients \ {c} : clientCh'[d] = clientCh[d] /\ response'[d] = response[d]
  BY <1>1, <1>3
<1>8. WatchTypes' /\ OpenInv' /\ PublishInv' /\ AllPhases' /\ AllOwn' /\ AllLatest'
  BY <1>3, <1>5, <1>6, <1>7, CallKeeps
<1>9. AllWatchRequests'
  <2>0. DOMAIN requestC' = DOMAIN requestC
    BY DEF GiveUp
  <2> SUFFICES ASSUME NEW i \in DOMAIN requestC PROVE WatchRequestInv(requestC[i])'
    BY <2>0 DEF AllWatchRequests
  <2>1. PICK r, q : r = requestC[i] /\ q = requestC'[i]
    OBVIOUS
  <2>2. WatchRequestInv(r) /\ RequestInv(r) /\ UNCHANGED subscribers
    BY <1>3, <2>1 DEF WInv, TInv, bcVars
  <2>3. /\ q.op = r.op /\ q.conf = r.conf
        /\ q.answerTo # NoClient => q.answerTo = r.answerTo
    <3>1. r \in Request
      BY <2>1, RequestAt
    <3>2. q = IF r.answerTo = c THEN [r EXCEPT !.answerTo = NoClient] ELSE r
      BY <2>1 DEF GiveUp
    <3> QED
      BY <3>1, <3>2 DEF Request
  <2>4. r.op \in {"subscribe", "unsubscribe"} => r.conf \in Clients
    BY <2>2 DEF RequestInv
  <2>5. WatchRequestInv(q)'
    BY <1>1, <1>3, <1>4, <2>2, <2>3, <2>4 DEF WatchRequestInv, WatchTypes
  <2> QED
    BY <2>1, <2>5 DEF WatchRequestInv
<1> QED
  BY <1>8, <1>9 DEF WInv, AllPhases, AllOwn, AllLatest, AllWatchRequests

(* The answer: the watch is given its channel, with a message in it, or has *)
(* given it up.                                                             *)
LEMMA ResponseWInv ==
    ASSUME TInv, WInv, NEW c \in Clients, ReceiveResponse(c), NEW l,
           watchPc' = [watchPc EXCEPT ![c] = l],
           \/ watchPc[c] = "subscribing" /\ l = "select"
           \/ watchPc[c] = "unsubscribing" /\ l = "closed",
           UNCHANGED <<cancelled, pending, out, seen, published, startPc>>
    PROVE  WInv'
<1>1. WatchTypes /\ clientPc \in [Clients -> {"idle", "subSend", "subWait", "holding",
                                 "unsubSend", "unsubWait", "panicked"}]
      /\ clientCh \in [Clients -> ChanIds]
      /\ response \in [Clients -> [ch : ChanIds, err : BOOLEAN, set : BOOLEAN]]
  BY DEF WInv, TInv, TypeOK, CallTypes, ResponseTypes
<1>2. PhaseInv(c) /\ OwnInv(c) /\ ClientInv(c)
  BY DEF WInv, TInv
<1>3. PICK pc, ch :
         /\ clientPc[c] \in {"subWait", "unsubWait"} /\ response[c].set
         /\ \/ clientPc[c] = "subWait" /\ pc = "holding" /\ ch = response[c].ch
            \/ (clientPc[c] = "unsubWait" \/ response[c].err) /\ pc = "idle" /\ ch = 0
         /\ clientPc' = [clientPc EXCEPT ![c] = pc]
         /\ clientCh' = [clientCh EXCEPT ![c] = ch]
         /\ response' = [response EXCEPT ![c] = NoResponse]
         /\ UNCHANGED <<topicVars, requestC, bcVars, pubVars>>
  BY DEF ReceiveResponse, Goto
<1>4. /\ watchPc'[c] = l /\ clientPc'[c] = pc /\ clientCh'[c] = ch
      /\ UNCHANGED <<subscribers, chans>>
  BY <1>1, <1>3 DEF WatchTypes, bcVars
<1>5. CASE watchPc[c] = "subscribing"
  <2>1. /\ clientPc[c] = "subWait" /\ l = "select" /\ pc = "holding" /\ ch = response[c].ch
        /\ subscribers[GroupOf[c]] = ch /\ chans[ch].buf # <<>>
        /\ ch \in 1 .. Len(chans)
    BY <1>2, <1>3, <1>5 DEF PhaseInv, OwnInv, ClientInv
  <2>2. PhaseInv(c)' /\ OwnInv(c)'
    BY <1>2, <1>4, <2>1 DEF PhaseInv, OwnInv
  <2>3. LatestInv(c)'
    BY <1>4, <2>1 DEF LatestInv
  <2>4. \A d \in Clients \ {c} : clientCh'[d] = clientCh[d] /\ response'[d] = response[d]
    BY <1>1, <1>3
  <2>5. WatchTypes' /\ OpenInv' /\ PublishInv' /\ AllPhases' /\ AllOwn' /\ AllLatest'
    BY <1>3, <2>1, <2>2, <2>3, <2>4, CallKeeps
  <2>6. ASSUME NEW i \in DOMAIN requestC PROVE WatchRequestInv(requestC[i])'
    <3>1. PICK r : r = requestC[i]
      OBVIOUS
    <3>2. WatchRequestInv(r) /\ RequestInv(r) /\ requestC'[i] = r
      BY <1>3, <3>1 DEF WInv, TInv
    <3>3. r.op \in {"subscribe", "unsubscribe"} => r.conf \in Clients \ {c}
      <4>1. /\ r.op = "subscribe" => subscribers[GroupOf[r.conf]] = 0
            /\ r.op = "unsubscribe" => watchPc[r.conf] \in {"unsubscribing", "closed"}
        BY <3>2 DEF WatchRequestInv
      <4>2. r.op \in {"subscribe", "unsubscribe"} => r.conf \in Clients
        BY <3>2 DEF RequestInv
      <4>3. subscribers[GroupOf[c]] # 0
        <5>1. \A n : n \in 1 .. Len(chans) => n # 0
          OBVIOUS
        <5> QED
          BY <2>1, <5>1, Zenon
      <4> QED
        BY <1>5, <4>1, <4>2, <4>3
    <3> QED
      BY <1>1, <1>3, <1>4, <3>2, <3>3 DEF WatchRequestInv, WatchTypes
  <2> QED
    BY <1>3, <2>5, <2>6 DEF WInv, AllPhases, AllOwn, AllLatest
<1>6. CASE watchPc[c] = "unsubscribing"
  <2>1. l = "closed" /\ pc = "idle"
    BY <1>2, <1>3, <1>6 DEF PhaseInv
  <2>2. PhaseInv(c)' /\ OwnInv(c)' /\ LatestInv(c)'
    BY <1>2, <1>4, <1>6, <2>1 DEF PhaseInv, OwnInv, LatestInv
  <2>3. \A d \in Clients \ {c} : clientCh'[d] = clientCh[d] /\ response'[d] = response[d]
    BY <1>1, <1>3
  <2>4. WatchTypes' /\ OpenInv' /\ PublishInv' /\ AllPhases' /\ AllOwn' /\ AllLatest'
    BY <1>3, <2>1, <2>2, <2>3, CallKeeps
  <2>5. ASSUME NEW i \in DOMAIN requestC PROVE WatchRequestInv(requestC[i])'
    <3>1. PICK r : r = requestC[i]
      OBVIOUS
    <3>2. WatchRequestInv(r) /\ RequestInv(r) /\ requestC'[i] = r
      BY <1>3, <3>1 DEF WInv, TInv
    <3>3. r.op \in {"subscribe", "unsubscribe"} => r.conf \in Clients
      BY <3>2 DEF RequestInv
    <3> QED
      BY <1>1, <1>3, <1>4, <1>6, <2>1, <3>2, <3>3 DEF WatchRequestInv, WatchTypes
  <2> QED
    BY <1>3, <2>4, <2>5 DEF WInv, AllPhases, AllOwn, AllLatest
<1> QED
  BY <1>5, <1>6

(* A watch takes a message: its channel, of capacity one, is empty then. *)
LEMMA ReceiveStatesWInv ==
    ASSUME TInv, WInv, Distinct, NEW c \in Clients, ReceiveStates(c) PROVE WInv'
<1>0. PICK k, h : k = clientCh[c] /\ h = Head(chans[k].buf)
  OBVIOUS
<1>1. /\ watchPc[c] = "select" /\ clientPc[c] = "holding" /\ chans[k].buf # <<>>
      /\ UNCHANGED <<topicVars, requestC, clientVars, subscribers, recvOn, loopVars,
                     pubVars>>
      /\ UNCHANGED <<cancelled, out, seen, published, startPc>>
  BY <1>0 DEF ReceiveStates, Receive
<1>2. /\ k \in 1 .. Len(chans) /\ k # 0 /\ k = subscribers[GroupOf[c]] /\ TypeOK
  BY <1>0, <1>1, Held DEF TInv
<1>3. Changes(k) /\ chans'[k].buf = <<>> /\ chans'[k].passed = h /\ h \in Nat
  <2>0. PICK q : q = Tail(chans[k].buf)
    OBVIOUS
  <2>1. chans' = [chans EXCEPT ![k].buf = Tail(chans[k].buf),
                               ![k].passed = Head(chans[k].buf)]
    BY <1>0, Zenon DEF ReceiveStates, Receive
  <2> DEFINE Step == chans' = [chans EXCEPT ![k].buf = q, ![k].passed = h]
  <2>2. Step
    BY <1>0, <2>0, <2>1
  <2> HIDE <2>1 DEF Step
  <2>3. /\ chans[k].buf \in Seq(Messages) /\ Len(chans[k].buf) <= 1
        /\ Len(chans[k].buf) \in Nat
    BY <1>2, BufferType, WatchConstants
  <2>4. q \in Seq(Messages) /\ Len(q) = 0 /\ h \in Messages
    <3>1. /\ q \in Seq(Messages) /\ Len(q) = Len(chans[k].buf) - 1 /\ h \in Messages
          /\ Len(chans[k].buf) >= 1
      BY <1>0, <1>1, <2>0, <2>3, TailAt
    <3>2. ASSUME NEW n \in Nat, n <= 1, n >= 1 PROVE n - 1 = 0
      BY <3>2
    <3> QED
      BY <2>3, <3>1, <3>2
  <2>5. q \in Seq(Messages) /\ Len(q) <= BufferSize /\ h \in Messages
    BY <2>4, WatchConstants
  <2>6. Changes(k) /\ chans'[k].buf = q /\ chans'[k].passed = h
    <3>1. TypeOK /\ k \in 1 .. Len(chans)
      BY <1>2
    <3> QED
      BY <2>2, <2>5, <3>1, SetBoth, Zenon DEF Step
  <2>7. q = <<>>
    BY <2>4
  <2> QED
    BY <2>4, <2>6, <2>7 DEF Messages
<1>4. WatchTypes /\ \A d \in Clients : PhaseInv(d) /\ OwnInv(d) /\ ClientInv(d)
  BY DEF WInv, TInv
<1>5. PICK l : /\ watchPc' = [watchPc EXCEPT ![c] = l] /\ l \in {"select", "deliver"}
               /\ pending' \in [Clients -> Slot]
               /\ \A d \in Clients \ {c} : pending'[d] = pending[d]
               /\ l = "deliver" => pending'[c] = <<ResultOf(c, h)>>
               /\ l = "select" => ~Matches(c, h)
  <2>1. CASE Matches(c, h)
    <3>1. watchPc' = [watchPc EXCEPT ![c] = "deliver"]
          /\ pending' = [pending EXCEPT ![c] = <<ResultOf(c, h)>>]
      BY <1>0, <2>1 DEF ReceiveStates, WatchGoto
    <3>2. /\ pending' \in [Clients -> Slot] /\ pending'[c] = <<ResultOf(c, h)>>
          /\ \A d \in Clients \ {c} : pending'[d] = pending[d]
      <4>1. <<ResultOf(c, h)>> \in Slot
        BY <1>0, <1>1, <1>2, TakenMessage, ResultType DEF WInv
      <4> QED
        BY <1>4, <3>1, <4>1 DEF WatchTypes
    <3>3. "deliver" \in {"select", "deliver"} /\ "deliver" # "select"
      OBVIOUS
    <3> QED
      BY <3>1, <3>2, <3>3, Zenon
  <2>2. CASE ~Matches(c, h)
    <3>1. watchPc' = watchPc /\ pending' = pending
      BY <1>0, <2>2 DEF ReceiveStates
    <3>2. watchPc' = [watchPc EXCEPT ![c] = "select"]
      BY <1>1, <1>4, <3>1 DEF WatchTypes
    <3> QED
      BY <1>4, <2>2, <3>1, <3>2 DEF WatchTypes
  <2> QED
    BY <2>1, <2>2
<1>6. WatchTypes'
  BY <1>1, <1>4, <1>5 DEF WatchTypes
<1>7. OpenInv' /\ PublishInv'
  <2>1. \A j \in DOMAIN chans' : j \in DOMAIN chans /\ chans'[j].policy = chans[j].policy
    <3>1. DOMAIN chans' = 1 .. Len(chans) /\ DOMAIN chans = 1 .. Len(chans)
      <4>1. chans' \in Seq(Chan) /\ Len(chans') = Len(chans)
        BY <1>3 DEF Changes
      <4>2. chans \in Seq(Chan)
        BY <1>2 DEF TypeOK, ChanTypes
      <4> QED
        BY <4>1, <4>2
    <3>2. /\ chans'[k].policy = chans[k].policy
          /\ \A j \in 1 .. Len(chans) : j # k => chans'[j] = chans[j]
      BY <1>2, <1>3 DEF Changes
    <3> QED
      BY <3>1, <3>2, Zenon
  <2>2. OpenInv'
    BY <1>1, <2>1 DEF WInv, OpenInv, topicVars, loopVars
  <2> QED
    BY <1>1, <2>2 DEF WInv, PublishInv, pubVars
<1>8. AllWatchRequests'
  BY <1>1, <1>5, MoveRequests DEF clientVars, callVars
<1>9. ASSUME NEW d \in Clients PROVE PhaseInv(d)' /\ OwnInv(d)' /\ LatestInv(d)'
  <2>1. PhaseInv(d)'
    BY <1>1, <1>4, <1>5 DEF PhaseInv, WatchTypes, clientVars, callVars
  <2>2. CASE d = c
    <3>1. OwnInv(d)'
      BY <1>1, <1>4, <1>5, <2>2 DEF OwnInv, WatchTypes, clientVars, callVars
    <3>2. watchPc'[c] = l /\ clientCh'[c] = k
      BY <1>0, <1>1, <1>4, <1>5 DEF WatchTypes, clientVars, callVars
    <3>3. StatesOf(h)' = StatesOf(h)
      BY <1>1 DEF StatesOf
    <3>4. LatestInv(d)'
      BY <1>3, <1>5, <2>2, <3>2, <3>3 DEF LatestInv, Matches, ResultOf
    <3> QED
      BY <2>1, <3>1, <3>4
  <2>3. CASE d # c
    <3>1. watchPc'[d] = watchPc[d] /\ pending'[d] = pending[d] /\ Delivered(d)' = Delivered(d)
      BY <1>1, <1>4, <1>5, <2>3 DEF WatchTypes, Delivered
    <3>2. UNCHANGED <<clientPc, clientCh, response, subscribers>>
      BY <1>1 DEF clientVars, callVars
    <3>3. clientPc[d] = "holding" => clientCh[d] # k /\ clientCh[d] \in 1 .. Len(chans)
      <4>1. clientPc[d] = "holding" => /\ clientCh[d] = subscribers[GroupOf[d]]
                                       /\ clientCh[d] # 0 /\ clientCh[d] \in 1 .. Len(chans)
        BY Held
      <4> QED
        BY <1>0, <1>1, <2>3, <4>1, HeldAlone
    <3>4. OwnInv(d)'
      <4>1. ASSUME response[d].set, clientPc[d] = "subWait"
            PROVE  chans'[subscribers[GroupOf[d]]] = chans[subscribers[GroupOf[d]]]
        <5>1. subscribers[GroupOf[d]] = response[d].ch /\ response[d].ch \in 1 .. Len(chans)
          BY <1>4, <4>1 DEF OwnInv, ClientInv
        <5>2. subscribers[GroupOf[d]] # 0
          BY <5>1
        <5>3. subscribers[GroupOf[d]] # k
          BY <1>0, <1>1, <2>3, <5>2, HeldAlone
        <5> QED
          BY <1>3, <5>1, <5>3 DEF Changes
      <4> QED
        BY <1>4, <3>1, <3>2, <4>1 DEF OwnInv
    <3>5. LatestInv(d)'
      <4>1. watchPc[d] \in {"select", "deliver"} => chans'[clientCh[d]] = chans[clientCh[d]]
        BY <1>3, <1>4, <3>3 DEF PhaseInv, Changes
      <4> QED
        BY <1>1, <3>1, <3>2, <4>1, LatestKept
    <3> QED
      BY <2>1, <3>4, <3>5
  <2> QED
    BY <2>2, <2>3
<1> QED
  BY <1>6, <1>7, <1>8, <1>9 DEF WInv, AllWatchRequests
=============================================================================
