----------------------------- MODULE WatchProofs ----------------------------
(***************************************************************************)
(* The watches, for any number of them with different consumer names, any  *)
(* services and any number of messages: they use the topic as its clients  *)
(* may, so what is proved of the topic holds under them, and WInv is       *)
(* inductive on top of it.                                                 *)
(***************************************************************************)
EXTENDS WatchLemmas

(* The steps of the broadcaster of the states topic.                        *)

(* No channel loses a message but for a newer one. *)
Kept ==
    /\ Len(chans') >= Len(chans) /\ Len(chans') \in Nat
    /\ \A k \in 1 .. Len(chans) :
          chans'[k].buf = <<>> => /\ chans[k].buf = <<>>
                                  /\ chans'[k].passed = chans[k].passed

(* Then a watch keeps what it has, if its group keeps its channel. *)
LEMMA KeptWatch ==
    ASSUME TInv, WInv, Kept, NEW d \in Clients,
           UNCHANGED <<callVars, watchVars, published, startPc>>
    PROVE  /\ PhaseInv(d)' /\ LatestInv(d)'
           /\ response'[d] = response[d] /\ subscribers'[GroupOf[d]] = subscribers[GroupOf[d]]
              => OwnInv(d)'
<1>1. PhaseInv(d) /\ OwnInv(d) /\ ClientInv(d)
  BY DEF WInv, TInv
<1>2. UNCHANGED <<clientPc, clientCh, watchPc, cancelled, pending, out, seen>>
  BY DEF callVars, watchVars
<1>3. PhaseInv(d)'
  BY <1>1, <1>2 DEF PhaseInv
<1>4. LatestInv(d)'
  <2>1. watchPc[d] \in {"select", "deliver"} => clientCh[d] \in 1 .. Len(chans)
    BY <1>1, Held DEF PhaseInv
  <2>2. Delivered(d)' = Delivered(d)
    BY <1>2 DEF Delivered
  <2> QED
    BY <1>2, <2>1, <2>2, LatestKept DEF Kept
<1>5. ASSUME response'[d] = response[d],
             subscribers'[GroupOf[d]] = subscribers[GroupOf[d]]
      PROVE  OwnInv(d)'
  <2>1. ASSUME response[d].set, clientPc[d] = "subWait"
        PROVE  chans'[subscribers[GroupOf[d]]].buf # <<>>
    <3>1. /\ subscribers[GroupOf[d]] = response[d].ch
          /\ chans[response[d].ch].buf # <<>> /\ response[d].ch \in 1 .. Len(chans)
      BY <1>1, <2>1 DEF OwnInv, ClientInv
    <3> QED
      BY <3>1 DEF Kept
  <2> QED
    BY <1>1, <1>2, <1>5, <2>1 DEF OwnInv
<1> QED
  BY <1>3, <1>4, <1>5

(* A step of the range loop. *)
LEMMA LoopWInv ==
    ASSUME TInv, WInv, Kept, OpenInv', PublishInv',
           UNCHANGED <<requestC, clientVars, subscribers, watchVars, published, startPc>>
    PROVE  WInv'
<1>1. WatchTypes'
  BY DEF WInv, WatchTypes, watchVars
<1>2. ASSUME NEW d \in Clients PROVE PhaseInv(d)' /\ OwnInv(d)' /\ LatestInv(d)'
  BY KeptWatch DEF clientVars
<1>3. AllWatchRequests'
  BY DEF WInv, AllWatchRequests, WatchRequestInv, clientVars, callVars, watchVars
<1> QED
  BY <1>1, <1>2, <1>3 DEF WInv, AllWatchRequests

(* The loop puts the message into channel k. *)
LEMMA PutWInv ==
    ASSUME TInv, WInv, NEW k \in 1 .. Len(chans), Changes(k), chans'[k].buf # <<>>,
           UNCHANGED <<topicVars, requestC, clientVars, subscribers, bcPc, pubVars,
                       watchVars, published, startPc>>
    PROVE  WInv'
<1>1. TypeOK /\ Len(chans) \in Nat /\ DOMAIN chans = 1 .. Len(chans)
      /\ DOMAIN chans' = 1 .. Len(chans)
  BY DEF TInv, TypeOK, ChanTypes, Changes
<1>2. Kept
  <2>1. ASSUME NEW j \in 1 .. Len(chans), chans'[j].buf = <<>>
        PROVE  chans'[j] = chans[j]
    BY <2>1 DEF Changes
  <2>2. Len(chans') = Len(chans)
    BY DEF Changes
  <2> QED
    BY <1>1, <2>1, <2>2 DEF Kept
<1>3. OpenInv' /\ PublishInv'
  <2>1. \A j \in DOMAIN chans' : j \in DOMAIN chans /\ chans'[j].policy = chans[j].policy
    BY <1>1 DEF Changes
  <2>2. OpenInv'
    BY <2>1 DEF WInv, OpenInv, topicVars
  <2> QED
    BY <2>2 DEF WInv, PublishInv, pubVars
<1> QED
  BY <1>2, <1>3, LoopWInv

(* Every subscriber drops the oldest message, so only some steps of the     *)
(* loop are possible.                                                       *)
LEMMA LoopPolicies ==
    ASSUME TInv, WInv, NEW g \in Groups, bcPc = "send", g \in todo \cup {cur}
    PROVE  /\ PolicyOf(g) = "DropOldest" /\ subscribers[g] \in 1 .. Len(chans)
<1>1. subscribers[g] \in 1 .. Len(chans) /\ TypeOK
  BY Pending DEF TInv
<1> QED
  BY <1>1 DEF WInv, OpenInv, PolicyOf, TypeOK, ChanTypes

LEMMA WatchedLoopWInv ==
    ASSUME TInv, WInv, UNCHANGED <<watchVars, published, startPc>>,
           \/ ReceiveMessage \/ EndBroadcast \/ BroadcasterReturns
           \/ \E g \in Groups : TrySend(g) \/ TryMissed(g) \/ NilPolicyPanics(g)
           \/ WaitedSend \/ DropNewestTimeout \/ DropOldestSwap
    PROVE  WInv'
<1>0. BufferSize = 1 /\ TypeOK /\ Len(chans) \in Nat
  BY WatchConstants, ChansAt DEF TInv
<1>1. CASE ReceiveMessage
  <2>1. /\ UNCHANGED <<topicVars, requestC, clientVars, subscribers, chans>>
        /\ bcPc' = "send" /\ pubPc = "sending" /\ pubPc' = "idle" /\ sent' = sent + 1
    BY <1>1 DEF ReceiveMessage
  <2>2. OpenInv' /\ PublishInv' /\ Kept
    BY <1>0, <2>1 DEF WInv, OpenInv, PublishInv, Kept, topicVars
  <2> QED
    BY <2>1, <2>2, LoopWInv
<1>2. CASE EndBroadcast \/ BroadcasterReturns
  <2>1. /\ UNCHANGED <<topicVars, requestC, clientVars, subscribers, chans, pubVars>>
        /\ bcPc' \in {"select", "returned"}
    BY <1>2 DEF EndBroadcast, BroadcasterReturns
  <2>2. OpenInv' /\ PublishInv' /\ Kept
    BY <1>0, <2>1 DEF WInv, OpenInv, PublishInv, Kept, topicVars, pubVars
  <2> QED
    BY <2>1, <2>2, LoopWInv
<1>3. ASSUME NEW g \in Groups, TrySend(g) PROVE WInv'
  <2>0. PICK k : k = subscribers[g]
    OBVIOUS
  <2>1. /\ bcPc = "send" /\ g \in todo \cup {cur} /\ CanSend(k) /\ Push(k)
        /\ UNCHANGED <<topicVars, requestC, clientVars, subscribers, bcPc, pubVars>>
    BY <1>3, <2>0 DEF TrySend, Turn
  <2>2. k \in 1 .. Len(chans)
    BY <2>0, <2>1, LoopPolicies
  <2>3. /\ chans[k].buf \in Seq(Messages) /\ msg \in Messages
        /\ Len(chans[k].buf) \in Nat /\ Len(chans[k].buf) < 1
    BY <1>0, <2>1, <2>2, BufferType DEF CanSend, TypeOK, LoopTypes
  <2>4. PICK p : p = Append(chans[k].buf, msg)
    OBVIOUS
  <2>5. p \in Seq(Messages) /\ Len(p) <= BufferSize /\ p # <<>>
    BY <1>0, <2>3, <2>4, AppendAt
  <2>6. chans' = [chans EXCEPT ![k].buf = p]
    BY <1>0, <2>1, <2>4 DEF Push
  <2>7. Changes(k) /\ chans'[k].buf = p
    BY <1>0, <2>2, <2>5, <2>6, SetBuffer, Zenon
  <2>8. chans'[k].buf # <<>>
    BY <2>5, <2>7
  <2> HIDE <2>6
  <2> QED
    BY <2>1, <2>2, <2>7, <2>8, PutWInv
<1>4. ASSUME NEW g \in Groups, TryMissed(g) PROVE WInv'
  <2>1. UNCHANGED <<topicVars, requestC, clientVars, subscribers, chans, bcPc, pubVars>>
    BY <1>4 DEF TryMissed
  <2>2. OpenInv' /\ PublishInv' /\ Kept
    BY <1>0, <2>1 DEF WInv, OpenInv, PublishInv, Kept, topicVars, pubVars
  <2> QED
    BY <2>1, <2>2, LoopWInv
<1>5. ASSUME NEW g \in Groups, NilPolicyPanics(g) PROVE FALSE
  BY <1>5, LoopPolicies DEF NilPolicyPanics, Turn
<1>6. ~WaitedSend /\ ~DropNewestTimeout
  <2>1. ASSUME NEW policies, "DropOldest" \notin policies, Waiting(policies) PROVE FALSE
    <3>1. PICK k : k = subscribers[cur]
      OBVIOUS
    <3>2. bcPc = "send" /\ cur \in Groups /\ chans[k].policy \in policies
      BY <2>1, <3>1, WaitingFor
    <3> QED
      BY <2>1, <3>1, <3>2, LoopPolicies DEF PolicyOf
  <2> QED
    BY <2>1 DEF WaitedSend, DropNewestTimeout
<1>7. CASE DropOldestSwap
  <2>0. PICK k : k = subscribers[cur]
    OBVIOUS
  <2>1. /\ Waiting({"DropOldest"}) /\ chans[k].buf # <<>>
        /\ UNCHANGED <<topicVars, requestC, clientVars, subscribers, bcPc, pubVars>>
    BY <1>7, <2>0 DEF DropOldestSwap
  <2>2. k \in 1 .. Len(chans)
    BY <2>0, <2>1, WaitingFor
  <2>3. PICK p, h : p = SwapOldest(chans[k].buf) /\ h = Head(chans[k].buf)
    OBVIOUS
  <2>4. chans' = [chans EXCEPT ![k].buf = SwapOldest(chans[k].buf),
                               ![k].passed = Head(chans[k].buf)]
    BY <1>7, <2>0, Zenon DEF DropOldestSwap
  <2> DEFINE Step == chans' = [chans EXCEPT ![k].buf = p, ![k].passed = h]
  <2>5. Step
    BY <2>3, <2>4
  <2> HIDE <2>4 DEF Step
  <2>6. /\ chans[k].buf \in Seq(Messages) /\ msg \in Messages
        /\ Len(chans[k].buf) \in Nat /\ Len(chans[k].buf) <= BufferSize
    BY <1>0, <2>2, BufferType DEF TypeOK, LoopTypes
  <2>7. p \in Seq(Messages) /\ Len(p) <= BufferSize /\ h \in Messages
    <3>1. PICK t : t = Tail(chans[k].buf)
      OBVIOUS
    <3>2. t \in Seq(Messages) /\ Len(t) = Len(chans[k].buf) - 1 /\ h \in Messages
      BY <2>1, <2>3, <2>6, <3>1, TailAt
    <3>3. p = Append(t, msg)
      BY <2>3, <3>1 DEF SwapOldest
    <3>4. p \in Seq(Messages) /\ Len(p) = Len(t) + 1
      BY <2>6, <3>2, <3>3, AppendAt
    <3>5. ASSUME NEW n \in Nat, n <= BufferSize, NEW m, m = n - 1 PROVE m + 1 <= BufferSize
      BY <1>0, <3>5
    <3> QED
      BY <2>6, <3>2, <3>4, <3>5
  <2>8. p # <<>>
    <3>1. Tail(chans[k].buf) \in Seq(Messages)
      BY <2>1, <2>6, TailAt
    <3> QED
      BY <2>3, <2>6, <3>1 DEF SwapOldest
  <2>9. Changes(k) /\ chans'[k].buf = p
    BY <1>0, <2>2, <2>5, <2>7, SetBoth, Zenon DEF Step
  <2>10. chans'[k].buf # <<>>
    BY <2>8, <2>9
  <2> QED
    BY <2>1, <2>2, <2>9, <2>10, PutWInv
<1> QED
  BY <1>1, <1>2, <1>3, <1>4, <1>5, <1>6, <1>7

(* The queue is empty once its request was taken. *)
LEMMA TakenLast ==
    ASSUME TInv, WInv, NEW op, TakeRequest(op), NEW r, r = Head(requestC)
    PROVE  /\ AllWatchRequests' /\ WatchRequestInv(r)
           /\ r \in Request /\ RequestInv(r) /\ r.op = op
<1>1. r \in Request /\ RequestInv(r) /\ r.op = op
  BY Taken
<1>2. requestC \in Seq(Request) /\ Len(requestC) <= 1 /\ requestC # <<>>
      /\ requestC' = Tail(requestC)
  BY DEF TInv, TypeOK, QueueTypes, TakeRequest
<1>3. /\ requestC' \in Seq(Request) /\ Len(requestC') = Len(requestC) - 1
      /\ Len(requestC) \in Nat /\ Len(requestC) >= 1 /\ r = requestC[1]
  BY <1>2, TailAt
<1>4. Len(requestC) = 1
  <2>1. ASSUME NEW n \in Nat, n <= 1, n >= 1 PROVE n = 1
    BY <2>1
  <2> QED
    BY <1>2, <1>3, <2>1
<1>5. DOMAIN requestC' = {} /\ 1 \in DOMAIN requestC
  BY <1>2, <1>3, <1>4
<1> QED
  BY <1>1, <1>3, <1>5 DEF AllWatchRequests, WInv

(* An answer reaches the watch whose request it is, and no other. *)
LEMMA AnswersOwn ==
    ASSUME TInv, NEW r \in Request, r.answerTo # NoClient => r.answerTo = r.conf,
           NEW k, NEW err, Answer(r, k, err)
    PROVE  /\ \A d \in Clients : d # r.conf => response'[d] = response[d]
           /\ \A d \in Clients : \/ response'[d] = response[d]
                                 \/ response'[d] = [ch |-> k, err |-> err, set |-> TRUE]
<1>1. response \in [Clients -> [ch : ChanIds, err : BOOLEAN, set : BOOLEAN]]
  BY DEF TInv, TypeOK, ResponseTypes
<1> QED
  BY <1>1 DEF Answer

(* No group has a channel before its watch subscribes. *)
LEMMA SubscribeNewWInv ==
    ASSUME TInv, WInv, Distinct, SubscribeNew, UNCHANGED <<watchVars, published, startPc>>
    PROVE  WInv'
<1>0. PICK r, g, n : r = Head(requestC) /\ g = GroupOf[r.conf] /\ n = Len(chans) + 1
  OBVIOUS
<1>1. /\ TakeRequest("subscribe") /\ subscribers[g] = 0 /\ Answer(r, n, FALSE)
      /\ subscribers' = [subscribers EXCEPT ![g] = n]
      /\ chans' = Append(chans, NewSubscriber(Policy[r.conf]))
      /\ UNCHANGED <<topicVars, callVars, loopVars, pubVars>>
  BY <1>0 DEF SubscribeNew
<1>2. /\ AllWatchRequests' /\ WatchRequestInv(r) /\ r \in Request /\ RequestInv(r)
      /\ r.op = "subscribe"
  BY <1>0, <1>1, TakenLast
<1>3. /\ r.conf \in Clients /\ g \in Groups /\ Policy[r.conf] = "DropOldest"
      /\ "DropOldest" \in Policies /\ subscribers \in [Groups -> ChanIds]
      /\ TypeOK /\ InOrder /\ Len(chans) \in Nat /\ DOMAIN chans = 1 .. Len(chans)
  BY <1>0, <1>2, TopicConstants, WatchConstants, ChansAt
     DEF RequestInv, Policies, TInv, TypeOK, MapTypes
<1>4. /\ chans' \in Seq(Chan) /\ Len(chans') = n /\ n \in Nat \ {0}
      /\ \A j \in 1 .. Len(chans) : chans'[j] = chans[j]
      /\ chans'[n].policy = "DropOldest"
  BY <1>0, <1>1, <1>3, NewChan
<1>5. chans'[n].buf # <<>>
  <2>1. chans \in Seq(Chan)
    BY ChansAt
  <2>2. chans'[n] = NewSubscriber("DropOldest")
    BY <1>0, <1>1, <1>3, <2>1
  <2>3. Replay # <<>>
    BY WatchConstants DEF Replay
  <2> QED
    BY <2>2, <2>3 DEF NewSubscriber
<1>6. Kept
  BY <1>0, <1>3, <1>4 DEF Kept
<1>7. WatchTypes' /\ OpenInv' /\ PublishInv'
  <2>1. WatchTypes'
    BY DEF WInv, WatchTypes, watchVars
  <2>2. \A j \in DOMAIN chans' : chans'[j].policy = "DropOldest"
    <3> SUFFICES ASSUME NEW j \in DOMAIN chans' PROVE chans'[j].policy = "DropOldest"
      OBVIOUS
    <3>1. j = n \/ j \in 1 .. Len(chans)
      BY <1>0, <1>3, <1>4
    <3> QED
      BY <1>3, <1>4, <3>1 DEF WInv, OpenInv
  <2>3. OpenInv'
    BY <1>1, <2>2 DEF WInv, OpenInv, topicVars, loopVars
  <2> QED
    BY <1>1, <2>1, <2>3 DEF WInv, PublishInv, pubVars
<1>8. /\ \A d \in Clients : d # r.conf => response'[d] = response[d]
      /\ \A d \in Clients : \/ response'[d] = response[d]
                            \/ response'[d] = [ch |-> n, err |-> FALSE, set |-> TRUE]
  <2>1. r.answerTo # NoClient => r.answerTo = r.conf
    BY <1>2 DEF WatchRequestInv
  <2> QED
    BY <1>1, <1>2, <2>1, AnswersOwn
<1>9. ASSUME NEW d \in Clients PROVE PhaseInv(d)' /\ OwnInv(d)' /\ LatestInv(d)'
  <2>1. /\ PhaseInv(d)' /\ LatestInv(d)'
        /\ response'[d] = response[d] /\ subscribers'[GroupOf[d]] = subscribers[GroupOf[d]]
           => OwnInv(d)'
    BY <1>1, <1>6, KeptWatch
  <2>2. CASE d # r.conf
    <3>1. GroupOf[d] # g /\ GroupOf[d] \in Groups
      BY <1>0, <1>3, <2>2, OwnGroups, TopicConstants
    <3> QED
      BY <1>1, <1>3, <1>8, <2>1, <2>2, <3>1
  <2>3. CASE d = r.conf
    <3>1. subscribers'[GroupOf[d]] = n
      BY <1>0, <1>1, <1>3, <2>3
    <3>2. PhaseInv(d) /\ OwnInv(d) /\ ClientInv(d)
      BY DEF WInv, TInv
    <3>3. /\ watchPc[d] \notin {"off", "lookup"} /\ clientPc[d] # "subSend"
          /\ clientPc[d] # "holding"
          /\ ~(response[d].set /\ clientPc[d] = "subWait")
      <4>1. /\ watchPc[d] \in {"subscribing", "log", "closed", "crashed"}
            /\ clientPc[d] # "subSend" /\ subscribers[GroupOf[d]] = 0
        BY <1>2, <2>3 DEF WatchRequestInv
      <4>2. clientPc[d] # "holding"
        BY <4>1, Held
      <4>3. ASSUME response[d].set, clientPc[d] = "subWait" PROVE FALSE
        BY <3>2, <4>1, <4>3 DEF OwnInv, ClientInv
      <4> QED
        BY <4>1, <4>2, <4>3
    <3>4. UNCHANGED <<watchPc, clientPc>>
      BY <1>1 DEF watchVars, callVars
    <3>5. OwnInv(d)'
      <4>1. CASE response'[d] = response[d]
        BY <3>3, <3>4, <4>1 DEF OwnInv
      <4>2. CASE response'[d] = [ch |-> n, err |-> FALSE, set |-> TRUE]
        BY <1>5, <3>1, <3>3, <3>4, <4>2 DEF OwnInv
      <4> QED
        BY <1>8, <4>1, <4>2
    <3> QED
      BY <2>1, <3>5
  <2> QED
    BY <2>2, <2>3
<1> QED
  BY <1>2, <1>7, <1>9 DEF WInv, AllWatchRequests

(* A watch that asked to unsubscribe no longer reads its channel. *)
LEMMA HandleUnsubscribeWInv ==
    ASSUME TInv, WInv, Distinct, HandleUnsubscribe,
           UNCHANGED <<watchVars, published, startPc>>
    PROVE  WInv'
<1>0. PICK r, g, k : r = Head(requestC) /\ g = GroupOf[r.conf] /\ k = subscribers[g]
  OBVIOUS
<1>1. /\ TakeRequest("unsubscribe") /\ UNCHANGED <<topicVars, callVars, loopVars, pubVars>>
      /\ \E err : Answer(r, 0, err)
  BY <1>0 DEF HandleUnsubscribe
<1>2. /\ AllWatchRequests' /\ WatchRequestInv(r) /\ r \in Request /\ RequestInv(r)
      /\ r.op = "unsubscribe"
  BY <1>0, <1>1, TakenLast
<1>3. /\ r.conf \in Clients /\ g \in Groups /\ subscribers \in [Groups -> ChanIds]
      /\ TypeOK /\ Len(chans) \in Nat /\ DOMAIN chans = 1 .. Len(chans) /\ chans \in Seq(Chan)
  BY <1>0, <1>2, TopicConstants, ChansAt DEF RequestInv, TInv, TypeOK, MapTypes
<1>4. Closings /\ \A h \in Groups \ {g} : subscribers'[h] = subscribers[h]
  <2>1. CASE UNCHANGED <<subscribers, chans>>
    BY <1>3, <2>1 DEF Closings
  <2>2. CASE /\ Unsubscribes(r, k) /\ RemoveGroup(g)
             /\ chans' = [chans EXCEPT ![k].closed = TRUE]
    <3>1. k \in 1 .. Len(chans)
      BY <1>0, <1>3, <2>2, MapAt DEF Unsubscribes
    <3>2. Closings
      BY <1>3, <2>2, <3>1, CloseChan, Zenon
    <3>3. subscribers' = [subscribers EXCEPT ![g] = 0]
      BY <2>2 DEF RemoveGroup
    <3> HIDE <2>2
    <3> QED
      BY <1>3, <3>2, <3>3
  <2> QED
    BY <1>0, <2>1, <2>2, Zenon DEF HandleUnsubscribe
<1>5. Kept
  BY <1>3, <1>4 DEF Kept, Closings
<1>6. WatchTypes' /\ OpenInv' /\ PublishInv'
  <2>1. WatchTypes'
    BY DEF WInv, WatchTypes, watchVars
  <2>2. \A j \in DOMAIN chans' : chans'[j].policy = "DropOldest"
    BY <1>3, <1>4 DEF Closings, WInv, OpenInv
  <2>3. OpenInv'
    BY <1>1, <2>2 DEF WInv, OpenInv, topicVars, loopVars
  <2> QED
    BY <1>1, <2>1, <2>3 DEF WInv, PublishInv, pubVars
<1>7. \A d \in Clients : d # r.conf => response'[d] = response[d]
  <2>1. r.answerTo # NoClient => r.answerTo = r.conf
    BY <1>2 DEF WatchRequestInv
  <2> QED
    BY <1>1, <1>2, <2>1, AnswersOwn
<1>8. ASSUME NEW d \in Clients PROVE PhaseInv(d)' /\ OwnInv(d)' /\ LatestInv(d)'
  <2>1. /\ PhaseInv(d)' /\ LatestInv(d)'
        /\ response'[d] = response[d] /\ subscribers'[GroupOf[d]] = subscribers[GroupOf[d]]
           => OwnInv(d)'
    BY <1>1, <1>5, KeptWatch
  <2>2. CASE d # r.conf
    <3>1. GroupOf[d] # g /\ GroupOf[d] \in Groups
      BY <1>0, <1>3, <2>2, OwnGroups, TopicConstants
    <3> QED
      BY <1>4, <1>7, <2>1, <2>2, <3>1
  <2>3. CASE d = r.conf
    <3>1. /\ watchPc[d] \in {"unsubscribing", "closed"} /\ clientPc[d] # "holding"
          /\ PhaseInv(d)
      BY <1>2, <2>3 DEF WatchRequestInv, WInv
    <3>2. UNCHANGED <<watchPc, clientPc>>
      BY <1>1 DEF watchVars, callVars
    <3>3. OwnInv(d)'
      BY <3>1, <3>2 DEF OwnInv, PhaseInv
    <3> QED
      BY <2>1, <3>3
  <2> QED
    BY <2>2, <2>3
<1> QED
  BY <1>2, <1>6, <1>8 DEF WInv, AllWatchRequests

LEMMA StatesBroadcastWInv ==
    ASSUME TInv, WInv, Distinct, StatesBroadcast PROVE WInv'
<1>1. Broadcast /\ UNCHANGED <<watchVars, published, startPc>>
  BY DEF StatesBroadcast
<1>2. ~SubscribeExisting
  <2>1. ASSUME TakeRequest("subscribe") PROVE subscribers[GroupOf[Head(requestC).conf]] = 0
    <3>1. PICK r : r = Head(requestC)
      OBVIOUS
    <3>2. WatchRequestInv(r) /\ r.op = "subscribe"
      BY <2>1, <3>1, TakenLast
    <3> QED
      BY <3>1, <3>2 DEF WatchRequestInv
  <2> QED
    BY <2>1 DEF SubscribeExisting
<1>3. ~HandleClose
  <2>1. ASSUME TakeRequest("close") PROVE FALSE
    <3>1. PICK r : r = Head(requestC)
      OBVIOUS
    <3>2. WatchRequestInv(r) /\ r.op = "close"
      BY <2>1, <3>1, TakenLast
    <3> QED
      BY <3>2 DEF WatchRequestInv
  <2> QED
    BY <2>1 DEF HandleClose
<1> QED
  BY <1>1, <1>2, <1>3, WatchedLoopWInv, SubscribeNewWInv, HandleUnsubscribeWInv
     DEF Broadcast

-----------------------------------------------------------------------------
(* Every step of the composition is a step of the topic or leaves it alone. *)
LEMMA WatchIsTopic == [WatchNext]_allVars => [Next]_vars
<1> SUFFICES ASSUME [WatchNext]_allVars PROVE [Next]_vars
  OBVIOUS
<1>1. ASSUME NEW c \in Clients, Watch(c) \/ ServiceReceives(c) \/ ServiceCancels(c)
      PROVE  UNCHANGED vars
  BY <1>1 DEF Watch, ServiceReceives, ServiceCancels
<1>2. ASSUME NEW c \in Clients, WatchGoroutine(c) PROVE Client(c) \/ UNCHANGED vars
  <2>1. CASE LogFailure(c) \/ WatchDone(c) \/ SubscriptionClosed(c) \/ Deliver(c)
    BY <2>1 DEF LogFailure, WatchDone, SubscriptionClosed, Deliver
  <2>2. CASE CreateSubscription(c) \/ RemoveSubscription(c)
    BY <2>2 DEF CreateSubscription, RemoveSubscription, Client
  <2>3. CASE WatchSubscribe(c) \/ WatchUnsubscribe(c)
    BY <2>3 DEF WatchSubscribe, WatchUnsubscribe, Client
  <2>4. CASE ReceiveStates(c)
    BY <2>4 DEF ReceiveStates, Client
  <2> QED
    BY <1>2, <2>1, <2>2, <2>3, <2>4 DEF WatchGoroutine
<1>3. ServicesEnd \/ StartCloses => UNCHANGED vars
  BY DEF ServicesEnd, StartCloses, CloseIntracom, EmptyRegistry, CloseLog
<1>4. PublishStates => Publisher
  BY DEF PublishStates, Publisher
<1>5. StatesBroadcast => Broadcast
  BY DEF StatesBroadcast
<1>6. UNCHANGED allVars => UNCHANGED vars
  BY DEF allVars
<1> QED
  BY <1>1, <1>2, <1>3, <1>4, <1>5, <1>6 DEF WatchNext, Next

(* Watches with the states watcher behind them implement Topic: whatever    *)
(* Watch and its goroutine (service_context.go) do to the states topic is   *)
(* what a client of a topic may do, in any interleaving.                    *)
THEOREM WatchUsesTopic == WatchSpec => Spec
<1>1. WatchInit => Init
  BY DEF WatchInit
<1> QED
  BY <1>1, WatchIsTopic, PTL DEF WatchSpec, Spec

-----------------------------------------------------------------------------
(* The invariant and the theorems.                                          *)

LEMMA WInvInit == WatchInit => WInv
<1> SUFFICES ASSUME WatchInit PROVE WInv
  OBVIOUS
<1> USE DEF WatchInit, Init
<1>1. /\ DOMAIN requestC = {} /\ DOMAIN chans = {}
      /\ published \in Seq([Services -> States]) /\ Len(published) = 0
  OBVIOUS
<1>2. WatchTypes
  <2>1. <<>> \in Slot
    BY Zenon DEF Slot
  <2> QED
    BY <2>1 DEF WatchTypes
<1>3. OpenInv /\ PublishInv
  BY <1>1 DEF OpenInv, PublishInv
<1>4. ASSUME NEW c \in Clients PROVE PhaseInv(c) /\ OwnInv(c) /\ LatestInv(c)
  <2>1. subscribers[GroupOf[c]] = 0
    BY TopicConstants
  <2> QED
    BY <2>1 DEF PhaseInv, OwnInv, LatestInv, NoResponse
<1> QED
  BY <1>1, <1>2, <1>3, <1>4 DEF WInv

LEMMA WatchGoroutineWInv ==
    ASSUME TInv, WInv, Distinct, NEW c \in Clients, WatchGoroutine(c) PROVE WInv'
<1>1. CASE LogFailure(c) \/ WatchDone(c) \/ SubscriptionClosed(c)
  BY <1>1, MoveAway
<1>2. CASE CreateSubscription(c)
  BY <1>2, MoveAway, CallsWInv DEF CreateSubscription
<1>3. CASE RemoveSubscription(c)
  BY <1>3, MoveAway, CallsWInv DEF RemoveSubscription
<1>4. CASE WatchSubscribe(c)
  <2>1. watchPc[c] = "subscribing"
        /\ UNCHANGED <<cancelled, pending, out, seen, published, startPc>>
    BY <1>4 DEF WatchSubscribe
  <2>2. CASE SendRequest(c) /\ UNCHANGED watchPc
    BY <2>1, <2>2, SendWInv DEF watchVars
  <2>3. CASE ReceiveResponse(c) /\ WatchGoto(c, "select")
    BY <2>1, <2>3, ResponseWInv DEF WatchGoto
  <2>4. CASE cancelled[c] /\ GiveUp(c) /\ WatchGoto(c, "log")
    BY <2>1, <2>4, GiveUpWInv DEF WatchGoto
  <2> QED
    BY <1>4, <2>2, <2>3, <2>4 DEF WatchSubscribe
<1>5. CASE WatchUnsubscribe(c)
  <2>1. watchPc[c] = "unsubscribing"
        /\ UNCHANGED <<cancelled, pending, out, seen, published, startPc>>
    BY <1>5 DEF WatchUnsubscribe
  <2>2. CASE SendRequest(c) /\ UNCHANGED watchPc
    BY <2>1, <2>2, SendWInv DEF watchVars
  <2>3. CASE ReceiveResponse(c) /\ WatchGoto(c, "closed")
    BY <2>1, <2>3, ResponseWInv DEF WatchGoto
  <2>4. CASE GiveUp(c) /\ WatchGoto(c, "closed")
    BY <2>1, <2>4, GiveUpWInv DEF WatchGoto
  <2> QED
    BY <1>5, <2>2, <2>3, <2>4 DEF WatchUnsubscribe
<1>6. CASE ReceiveStates(c) \/ Deliver(c)
  BY <1>6, ReceiveStatesWInv, DeliverWInv
<1> QED
  BY <1>1, <1>2, <1>3, <1>4, <1>5, <1>6 DEF WatchGoroutine

LEMMA WInvStep == Distinct /\ TInv /\ WInv /\ [WatchNext]_allVars => WInv'
<1> SUFFICES ASSUME Distinct, TInv, WInv, [WatchNext]_allVars PROVE WInv'
  OBVIOUS
<1>1. ASSUME NEW c \in Clients, \/ Watch(c) \/ WatchGoroutine(c)
                                \/ ServiceReceives(c) \/ ServiceCancels(c)
      PROVE  WInv'
  BY <1>1, MoveAway, WatchGoroutineWInv, ServiceReceivesWInv, ServicesWInv
<1>2. CASE ServicesEnd \/ PublishStates \/ StartCloses \/ StatesBroadcast
  BY <1>2, ServicesWInv, PublishStatesWInv, StatesBroadcastWInv
<1>3. CASE UNCHANGED allVars
  <2>1. /\ UNCHANGED <<vars, watchPc, pending, out, seen, published>>
        /\ UNCHANGED <<cancelled, startPc>>
    BY <1>3 DEF allVars, watchVars
  <2>2. /\ cancelled \in [Clients -> BOOLEAN]
        /\ startPc \in {"running", "ended", "closing", "emptied", "logClosed"}
        /\ \A c \in Clients : startPc # "running" => cancelled[c]
    BY DEF WInv, WatchTypes, PhaseInv
  <2> QED
    BY <2>1, <2>2, AroundWInv
<1> QED
  BY <1>1, <1>2, <1>3 DEF WatchNext

LEMMA WInvariance == Distinct => (WatchSpec => [](TInv /\ WInv))
<1> SUFFICES ASSUME Distinct PROVE WatchSpec => [](TInv /\ WInv)
  OBVIOUS
<1>1. WatchInit => TInv /\ WInv
  BY WInvInit, TInvInit DEF WatchInit
<1>2. TInv /\ WInv /\ [WatchNext]_allVars => (TInv /\ WInv)'
  BY WInvStep, WatchIsTopic, TInvStep
<1> QED
  BY <1>1, <1>2, PTL DEF WatchSpec

(* Watches with different consumer names never end each other: the channel  *)
(* of a watch (service_context.go) is closed only after its own context was *)
(* cancelled, whatever the other watches, the topic and Start do.           *)
THEOREM WatchesEndOnCancel == Distinct => (WatchSpec => []WatchEndsOnCancel)
<1>1. WInv => WatchEndsOnCancel
  BY DEF WInv, PhaseInv, WatchEndsOnCancel
<1> QED
  BY <1>1, WInvariance, PTL

(* A watch never misses the latest states: when it and the topic are at     *)
(* rest and the latest states match, the service's last map, read or        *)
(* waiting in its channel, is the watch's selection of them, however slowly *)
(* the service reads (service_context.go:130, 172).                         *)
THEOREM WatchesDeliverLatest == Distinct => (WatchSpec => []LatestMatchDelivered)
<1>1. TInv /\ WInv => LatestMatchDelivered
  <2> SUFFICES ASSUME TInv, WInv, NEW c \in Clients,
                      watchPc[c] = "select", bcPc = "select",
                      chans[clientCh[c]].buf = <<>>,
                      Matches(c, lastMessage)
               PROVE  Delivered(c) = <<ResultOf(c, lastMessage)>>
    BY DEF LatestMatchDelivered
  <2>0. PICK k : k = clientCh[c]
    OBVIOUS
  <2>1. clientPc[c] = "holding" /\ LatestInv(c)
    BY DEF WInv, PhaseInv
  <2>2. chans[k].passed = Due(GroupOf[c])
    BY <2>0, <2>1, Held DEF Newest
  <2>3. Due(GroupOf[c]) = lastMessage
    BY DEF Due, TInv, MapInv
  <2> QED
    BY <2>0, <2>1, <2>2, <2>3 DEF LatestInv
<1> QED
  BY <1>1, WInvariance, PTL

(* Under the watches, too, the newest states have reached every subscriber  *)
(* of the states topic between two broadcasts.                              *)
THEOREM WatchesUpToDate == WatchSpec => []UpToDate
BY WatchUsesTopic, NewestReaches, PTL

(* A watch sees states in the order they were published and none twice, the *)
(* states topic never sends to a watch it has closed, and no watch waits    *)
(* for an answer that is not still to be given.                             *)
THEOREM WatchesServed == WatchSpec => [](RegisteredOpen /\ InOrder /\ AnswerDue)
BY WatchUsesTopic, NeverSendsOnClosed, DeliversInOrder, EveryCallDue, PTL
=============================================================================
