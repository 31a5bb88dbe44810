-------------------------------- MODULE Topic -------------------------------
(***************************************************************************)
(* An intracom topic (intracom/topic.go), its SyncBroadcaster goroutine    *)
(* (broadcast_sync.go), the subscriber channels (subscriber.go) and their  *)
(* buffer policies (buffer_policy.go), with clients that subscribe, read   *)
(* and unsubscribe, a publisher, and a caller of Close.                    *)
(*                                                                         *)
(* Messages are numbered in the order the broadcaster receives them from   *)
(* the unbuffered publish channel; 0 is the zero value of T.  Subscriber   *)
(* channels are numbered in the order they are created; 0 is none.         *)
(*                                                                         *)
(* clientPc: idle; subSend, subWait (the two selects of Subscribe);        *)
(*           holding (a channel); unsubSend, unsubWait (the two selects of *)
(*           Unsubscribe); panicked (a send on the closed requestC)        *)
(* bcPc:     select; send (ranging over the subscribers); returned;        *)
(*           crashed (nil buffer policy)                                   *)
(* pubPc:    idle; sending (blocked in publishC <-); panicked              *)
(* closePc:  open; closeSend, closeWait; closeRequests, closePublish;      *)
(*           closed (Close returned)                                       *)
(***************************************************************************)
EXTENDS Integers, Sequences

CONSTANTS
    Clients,          \* goroutines that use the topic
    Groups,           \* consumer group names
    GroupOf,          \* SubscriberConfig.ConsumerGroup of each client
    Policy,           \* SubscriberConfig.BufferPolicy of each client
    ErrIfExists,      \* clients whose SubscriberConfig.ErrIfExists is set
    BufferSize,       \* SubscriberConfig.BufferSize
    SubscriberAware,  \* TopicConfig.SubscriberAware
    MaxSubscribes,    \* bound: Subscribe calls in a behaviour
    MaxMessages       \* bound: messages published in a behaviour

Policies == {"DropNone", "DropOldest", "DropNewest", "DropNewestAfterTimeout",
             "DropOldestAfterTimeout"}

NoClient == "nobody"
NoGroup == "none"

ASSUME TopicAssumption ==
    /\ NoGroup \notin Groups /\ NoClient \notin Clients
    /\ GroupOf \in [Clients -> Groups]
    /\ Policy \in [Clients -> Policies]
    /\ ErrIfExists \subseteq Clients
    /\ BufferSize \in Nat
    /\ SubscriberAware \in BOOLEAN
    /\ MaxSubscribes \in Nat /\ MaxMessages \in Nat

VARIABLES
    closed,       \* t.closed
    requestsOpen, publishOpen,     \* requestC, publishC not closed yet
    closePc,
    requestC,     \* FIFO channel of requests, capacity 1
    clientPc, clientCh, response,  \* per client: call state, channel, answer
    calls,        \* Subscribe calls made
    asked,        \* history: channels an Unsubscribe call named
    subscribers,  \* the broadcaster's map: group -> channel, 0 for no entry
    chans,        \* the subscriber channels: buffer, policy, closed flag, and
                  \* passed, the last message taken out (history)
    recvOn,       \* broadcasting, and recv = broadcast (FALSE: recv = nil)
    bcPc,
    msg, todo, cur,  \* range loop: message, groups left, group blocked on
    lastMessage,
    pubPc, sent   \* publisher, messages the broadcaster received

topicVars == <<closed, requestsOpen, publishOpen, closePc>>
callVars == <<clientPc, clientCh, calls, asked>>
clientVars == <<callVars, response>>
loopVars == <<bcPc, msg, todo, cur, lastMessage>>
bcVars == <<subscribers, chans, recvOn, loopVars>>
pubVars == <<pubPc, sent>>
vars == <<topicVars, requestC, clientVars, bcVars, pubVars>>

NoResponse == [ch |-> 0, err |-> FALSE, set |-> FALSE]

Init ==
    /\ closed = FALSE /\ closePc = "open"
    /\ requestsOpen = TRUE /\ publishOpen = TRUE
    /\ requestC = <<>>
    /\ clientPc = [c \in Clients |-> "idle"]
    /\ clientCh = [c \in Clients |-> 0]
    /\ response = [c \in Clients |-> NoResponse]
    /\ calls = 0 /\ asked = {}
    /\ subscribers = [g \in Groups |-> 0]
    /\ chans = <<>>
    /\ recvOn = ~SubscriberAware
    /\ bcPc = "select" /\ msg = 0 /\ todo = {} /\ cur = NoGroup
    /\ lastMessage = 0
    /\ pubPc = "idle" /\ sent = 0

-----------------------------------------------------------------------------
(* Subscribe and Unsubscribe, called by client c.                           *)

Goto(c, l) == clientPc' = [clientPc EXCEPT ![c] = l]

(* The closed check of either call passes (a closed topic is an early       *)
(* error).                                                                  *)
CallSubscribe(c) ==
    /\ clientPc[c] = "idle"
    /\ ~closed
    /\ calls < MaxSubscribes
    /\ calls' = calls + 1
    /\ Goto(c, "subSend")
    /\ UNCHANGED <<topicVars, requestC, clientCh, response, asked, bcVars, pubVars>>

CallUnsubscribe(c) ==
    /\ clientPc[c] = "holding"
    /\ ~closed
    /\ asked' = asked \cup {clientCh[c]}
    /\ Goto(c, "unsubSend")
    /\ UNCHANGED <<topicVars, requestC, clientCh, response, calls, bcVars, pubVars>>

RequestRoomUnbounded == TRUE  \* mutant of RequestRoom
RequestRoom == Len(requestC) < 1

(* requestC <- request, in the first select of either call.                 *)
SendRequest(c) ==
    /\ clientPc[c] \in {"subSend", "unsubSend"}
    /\ requestsOpen
    /\ RequestRoom
    /\ requestC' = Append(requestC,
           [op |-> IF clientPc[c] = "subSend" THEN "subscribe" ELSE "unsubscribe",
            conf |-> c, ch |-> clientCh[c], answerTo |-> c])
    /\ Goto(c, IF clientPc[c] = "subSend" THEN "subWait" ELSE "unsubWait")
    /\ UNCHANGED <<topicVars, clientCh, response, calls, asked, bcVars, pubVars>>

(* The send finds requestC closed by a concurrent Close.                    *)
SendPanics(c) ==
    /\ clientPc[c] \in {"subSend", "unsubSend"}
    /\ ~requestsOpen
    /\ Goto(c, "panicked")
    /\ UNCHANGED <<topicVars, requestC, clientCh, response, calls, asked, bcVars,
                   pubVars>>

(* The caller's context (Subscribe) or the two seconds (Unsubscribe) run    *)
(* out in either select.  The request stays queued; its answer is dropped.  *)
GiveUp(c) ==
    /\ clientPc[c] \in {"subSend", "unsubSend", "subWait", "unsubWait"}
    /\ Goto(c, "idle")
    /\ clientCh' = [clientCh EXCEPT ![c] = 0]
    /\ response' = [response EXCEPT ![c] = NoResponse]
    /\ requestC' = [i \in DOMAIN requestC |->
                       IF requestC[i].answerTo = c
                       THEN [requestC[i] EXCEPT !.answerTo = NoClient]
                       ELSE requestC[i]]
    /\ UNCHANGED <<topicVars, calls, asked, bcVars, pubVars>>

(* The answer arrives.  Subscribe returns the group's channel even with the *)
(* error of ErrIfExists, and the caller may use it or not; after an         *)
(* Unsubscribe the client holds no channel.                                 *)
ReceiveResponse(c) ==
    /\ clientPc[c] \in {"subWait", "unsubWait"}
    /\ response[c].set
    /\ \/ /\ clientPc[c] = "subWait"
          /\ Goto(c, "holding")
          /\ clientCh' = [clientCh EXCEPT ![c] = response[c].ch]
       \/ /\ clientPc[c] = "unsubWait" \/ response[c].err
          /\ Goto(c, "idle")
          /\ clientCh' = [clientCh EXCEPT ![c] = 0]
    /\ response' = [response EXCEPT ![c] = NoResponse]
    /\ UNCHANGED <<topicVars, requestC, calls, asked, bcVars, pubVars>>

(* The client receives from its channel.                                    *)
Receive(c) ==
    /\ clientPc[c] = "holding"
    /\ LET k == clientCh[c]
       IN  /\ chans[k].buf # <<>>
           /\ chans' = [chans EXCEPT ![k].buf = Tail(@),
                                     ![k].passed = Head(chans[k].buf)]
    /\ UNCHANGED <<topicVars, requestC, clientVars, subscribers, recvOn, loopVars,
                   pubVars>>

-----------------------------------------------------------------------------
(* Close: the close request, its answer (HandleClose), the two closes.      *)

CallClose ==
    /\ closePc = "open"
    /\ closed' = TRUE
    /\ closePc' = "closeSend"
    /\ UNCHANGED <<requestsOpen, publishOpen, requestC, clientVars, bcVars, pubVars>>

SendCloseRequest ==
    /\ closePc = "closeSend"
    /\ RequestRoom
    /\ requestC' = Append(requestC, [op |-> "close", conf |-> NoClient, ch |-> 0,
                                     answerTo |-> NoClient])
    /\ closePc' = "closeWait"
    /\ UNCHANGED <<closed, requestsOpen, publishOpen, clientVars, bcVars, pubVars>>

CloseRequests ==
    /\ closePc = "closeRequests"
    /\ requestsOpen' = FALSE
    /\ closePc' = "closePublish"
    /\ UNCHANGED <<closed, publishOpen, requestC, clientVars, bcVars, pubVars>>

ClosePublish ==
    /\ closePc = "closePublish"
    /\ publishOpen' = FALSE
    /\ closePc' = "closed"
    /\ UNCHANGED <<closed, requestsOpen, requestC, clientVars, bcVars, pubVars>>

-----------------------------------------------------------------------------
(* The publisher.                                                           *)

BeginPublish ==
    /\ pubPc = "idle"
    /\ sent < MaxMessages
    /\ pubPc' = "sending"
    /\ UNCHANGED <<topicVars, requestC, clientVars, bcVars, sent>>

(* A send on the closed publishC panics, one already blocked in it too.     *)
PublishPanics ==
    /\ pubPc = "sending"
    /\ ~publishOpen
    /\ pubPc' = "panicked"
    /\ UNCHANGED <<topicVars, requestC, clientVars, bcVars, sent>>

-----------------------------------------------------------------------------
(* The broadcaster: receiving a message and sending it to each subscriber.  *)

ReceiveMessage ==
    /\ bcPc = "select"
    /\ recvOn
    /\ pubPc = "sending" /\ publishOpen
    /\ pubPc' = "idle"
    /\ sent' = sent + 1
    /\ msg' = sent + 1
    /\ todo' = {g \in Groups : subscribers[g] # 0}
    /\ bcPc' = "send"
    /\ UNCHANGED <<topicVars, requestC, clientVars, subscribers, chans, recvOn, cur,
                   lastMessage>>

(* ch <- message can proceed: there is room in the buffer or, unbuffered, a *)
(* client that holds the channel may be waiting in its receive.             *)
CanSend(k) ==
    \/ Len(chans[k].buf) < BufferSize
    \/ BufferSize = 0 /\ \E c \in Clients : clientPc[c] = "holding" /\ clientCh[c] = k

(* A try-send may take its default branch: the buffer is full or,           *)
(* unbuffered, no client is waiting at this moment.                         *)
CanMiss(k) == Len(chans[k].buf) = BufferSize

(* An unbuffered message goes straight to the waiting client.               *)
Push(k) ==
    chans' = IF BufferSize = 0 THEN [chans EXCEPT ![k].passed = msg]
             ELSE [chans EXCEPT ![k].buf = Append(@, msg)]

(* The range loop turns to group g, in any order.                           *)
Turn(g) == bcPc = "send" /\ cur = NoGroup /\ g \in todo /\ todo' = todo \ {g}

PolicyOf(g) == chans[subscribers[g]].policy

(* The first attempt to send to group g, with which every policy begins.    *)
TrySend(g) ==
    /\ Turn(g)
    /\ PolicyOf(g) # "DropOldestAfterTimeout"
    /\ CanSend(subscribers[g])
    /\ Push(subscribers[g])
    /\ UNCHANGED <<topicVars, requestC, clientVars, subscribers, recvOn, bcPc, msg,
                   cur, lastMessage, pubVars>>

(* Mutants of DropsAtOnce: DropNone drops as well; nothing drops at once.   *)
DropsAtOnceNone(policy) == policy \in {"DropNone", "DropNewest"}
DropsAtOnceNever(policy) == FALSE

DropsAtOnce(policy) == policy = "DropNewest"

(* It does not go through: DropNewest drops the message, the other policies *)
(* wait in a second select.                                                 *)
TryMissed(g) ==
    /\ Turn(g)
    /\ PolicyOf(g) # "DropOldestAfterTimeout"
    /\ CanMiss(subscribers[g])
    /\ cur' = IF DropsAtOnce(PolicyOf(g)) THEN NoGroup ELSE g
    /\ UNCHANGED <<topicVars, requestC, clientVars, subscribers, chans, recvOn, bcPc,
                   msg, lastMessage, pubVars>>

(* newSubscriber leaves the policy of a DropOldestAfterTimeout subscriber   *)
(* nil: Send dereferences it and the goroutine panics, which ends the       *)
(* process.  The steps others may still take here are steps they could have *)
(* taken before the panic.                                                  *)
NilPolicyPanics(g) ==
    /\ Turn(g)
    /\ PolicyOf(g) = "DropOldestAfterTimeout"
    /\ bcPc' = "crashed"
    /\ UNCHANGED <<topicVars, requestC, clientVars, subscribers, chans, recvOn, msg,
                   cur, lastMessage, pubVars>>

(* The broadcaster waits in the second select of cur's policy.              *)
Waiting(policies) == cur # NoGroup /\ PolicyOf(cur) \in policies /\ cur' = NoGroup

(* DropNone and DropNewestAfterTimeout: there is room at last.              *)
WaitedSend ==
    /\ Waiting({"DropNone", "DropNewestAfterTimeout"})
    /\ CanSend(subscribers[cur])
    /\ Push(subscribers[cur])
    /\ UNCHANGED <<topicVars, requestC, clientVars, subscribers, recvOn, bcPc, msg,
                   todo, lastMessage, pubVars>>

DropNewestUnarmed == FALSE /\ UNCHANGED vars  \* mutant: the timer is not armed

(* DropNewestAfterTimeout: the timer fires and the message is dropped.      *)
DropNewestTimeout ==
    /\ Waiting({"DropNewestAfterTimeout"})
    /\ UNCHANGED <<topicVars, requestC, clientVars, subscribers, chans, recvOn, bcPc,
                   msg, todo, lastMessage, pubVars>>

SwapOldest(q) == Append(Tail(q), msg)

(* DropOldest receives the oldest message, which makes room for the new     *)
(* one.  Its second select has no default: it waits for a message to        *)
(* receive, which nobody but the broadcaster itself could send.             *)
DropOldestSwap ==
    /\ Waiting({"DropOldest"})
    /\ LET k == subscribers[cur]
       IN  /\ chans[k].buf # <<>>
           /\ chans' = [chans EXCEPT ![k].buf = SwapOldest(@),
                                     ![k].passed = Head(chans[k].buf)]
    /\ UNCHANGED <<topicVars, requestC, clientVars, subscribers, recvOn, bcPc, msg,
                   todo, lastMessage, pubVars>>

EndBroadcast ==
    /\ bcPc = "send" /\ cur = NoGroup /\ todo = {}
    /\ lastMessage' = msg
    /\ bcPc' = "select"
    /\ UNCHANGED <<topicVars, requestC, clientVars, subscribers, chans, recvOn, msg,
                   todo, cur, pubVars>>

-----------------------------------------------------------------------------
(* The broadcaster: requests.                                               *)

TakeRequest(op) ==
    /\ bcPc = "select"
    /\ requestC # <<>> /\ Head(requestC).op = op
    /\ requestC' = Tail(requestC)

(* Mutant of Answer: an error is not reported.                              *)
AnswerOnlySuccess(r, k, err) ==
    response' = IF r.answerTo = NoClient \/ err THEN response
                ELSE [response EXCEPT ![r.answerTo] =
                         [ch |-> k, err |-> err, set |-> TRUE]]

(* responseC has room for the one answer; nobody reads it after a GiveUp.   *)
Answer(r, k, err) ==
    response' = IF r.answerTo = NoClient THEN response
                ELSE [response EXCEPT ![r.answerTo] =
                         [ch |-> k, err |-> err, set |-> TRUE]]

ReplayNothing == <<>>  \* mutant of Replay
Replay == IF BufferSize = 0 THEN <<>> ELSE <<lastMessage>>

(* newSubscriber, with the last message already in its buffer if it has     *)
(* one; an unbuffered channel does not get it.                              *)
NewSubscriber(policy) ==
    [buf |-> Replay, policy |-> policy, closed |-> FALSE,
     passed |-> IF BufferSize = 0 THEN -1 ELSE lastMessage - 1]

(* An existing group shares its channel, or refuses with ErrIfExists.       *)
SubscribeExisting ==
    /\ TakeRequest("subscribe")
    /\ LET r == Head(requestC)
           k == subscribers[GroupOf[r.conf]]
       IN  /\ k # 0
           /\ Answer(r, k, r.conf \in ErrIfExists)
           /\ recvOn' = (recvOn \/ (SubscriberAware /\ r.conf \notin ErrIfExists))
    /\ UNCHANGED <<topicVars, callVars, subscribers, chans, loopVars, pubVars>>

SubscribeNew ==
    /\ TakeRequest("subscribe")
    /\ LET r == Head(requestC)
           k == Len(chans) + 1
       IN  /\ subscribers[GroupOf[r.conf]] = 0
           /\ subscribers' = [subscribers EXCEPT ![GroupOf[r.conf]] = k]
           /\ chans' = Append(chans, NewSubscriber(Policy[r.conf]))
           /\ Answer(r, k, FALSE)
    /\ recvOn' = (recvOn \/ SubscriberAware)
    /\ UNCHANGED <<topicVars, callVars, loopVars, pubVars>>

(* Mutants of Unsubscribes: the channels are not compared; of RemoveGroup:  *)
(* the group stays in the map; of RecvWithout: recv is left alone.          *)
UnsubscribesAny(r, k) == k # 0
RemoveGroupForgotten(g) == UNCHANGED subscribers
RecvWithoutKept(g) == recvOn

(* The request names the channel k of its group.                            *)
Unsubscribes(r, k) == k # 0 /\ k = r.ch

RemoveGroup(g) == subscribers' = [subscribers EXCEPT ![g] = 0]

(* recv once group g is not in the map: nil if it was the last one.         *)
RecvWithout(g) ==
    recvOn /\ (SubscriberAware => \E h \in Groups \ {g} : subscribers[h] # 0)

(* The group is removed and its channel closed, unless the request names    *)
(* another channel than the group's, an error.  An unknown group is not an  *)
(* error.                                                                   *)
HandleUnsubscribe ==
    /\ TakeRequest("unsubscribe")
    /\ LET r == Head(requestC)
           g == GroupOf[r.conf]
           k == subscribers[g]
       IN  \/ /\ Unsubscribes(r, k)
              /\ RemoveGroup(g)
              /\ chans' = [chans EXCEPT ![k].closed = TRUE]
              /\ recvOn' = RecvWithout(g)
              /\ Answer(r, 0, FALSE)
           \/ /\ ~Unsubscribes(r, k)
              /\ recvOn' = IF k = 0 THEN RecvWithout(g) ELSE recvOn
              /\ Answer(r, 0, k # 0)
              /\ UNCHANGED <<subscribers, chans>>
    /\ UNCHANGED <<topicVars, callVars, loopVars, pubVars>>

AnswerCloseForgotten == UNCHANGED closePc  \* mutant of AnswerClose
AnswerClose == closePc' = "closeRequests"

HandleClose ==
    /\ TakeRequest("close")
    /\ recvOn' = FALSE
    /\ chans' = [k \in DOMAIN chans |->
                    IF \E g \in Groups : subscribers[g] = k
                    THEN [chans[k] EXCEPT !.closed = TRUE] ELSE chans[k]]
    /\ subscribers' = [g \in Groups |-> 0]
    /\ AnswerClose
    /\ UNCHANGED <<closed, requestsOpen, publishOpen, clientVars, loopVars, pubVars>>

(* A closed, drained requestC, or the closed publishC, ends the goroutine.  *)
BroadcasterReturns ==
    /\ bcPc = "select"
    /\ \/ ~requestsOpen /\ requestC = <<>>
       \/ recvOn /\ ~publishOpen
    /\ bcPc' = "returned"
    /\ UNCHANGED <<topicVars, requestC, clientVars, subscribers, chans, recvOn, msg,
                   todo, cur, lastMessage, pubVars>>

-----------------------------------------------------------------------------
Client(c) == \/ CallSubscribe(c) \/ CallUnsubscribe(c) \/ SendRequest(c)
             \/ SendPanics(c) \/ GiveUp(c) \/ ReceiveResponse(c) \/ Receive(c)

Close == CallClose \/ SendCloseRequest \/ CloseRequests \/ ClosePublish

Publisher == BeginPublish \/ PublishPanics

Broadcast ==
    \/ ReceiveMessage
    \/ \E g \in Groups : TrySend(g) \/ TryMissed(g) \/ NilPolicyPanics(g)
    \/ WaitedSend \/ DropNewestTimeout \/ DropOldestSwap \/ EndBroadcast
    \/ SubscribeExisting \/ SubscribeNew \/ HandleUnsubscribe \/ HandleClose
    \/ BroadcasterReturns

Next == (\E c \in Clients : Client(c)) \/ Close \/ Publisher \/ Broadcast

Spec == Init /\ [][Next]_vars

(* The broadcaster and a caller of Close run unless they are blocked; a     *)
(* client that holds a channel keeps reading it, sends its request when it  *)
(* can and takes the answer; the two seconds of Unsubscribe run out.        *)
(* Nobody has to subscribe, unsubscribe, publish or close.                  *)
Fairness ==
    /\ WF_vars(Broadcast)
    /\ WF_vars(SendCloseRequest \/ CloseRequests \/ ClosePublish)
    /\ \A c \in Clients :
          /\ WF_vars(Receive(c))
          /\ WF_vars(SendRequest(c) \/ ReceiveResponse(c))
          /\ WF_vars(clientPc[c] \in {"unsubSend", "unsubWait"} /\ GiveUp(c))

FairSpec == Spec /\ Fairness

-----------------------------------------------------------------------------
(* Properties.                                                              *)

ChanIds == Nat
Messages == Nat
Request == [op : {"subscribe", "unsubscribe", "close"},
            conf : Clients \cup {NoClient}, ch : ChanIds,
            answerTo : Clients \cup {NoClient}]
Chan == [buf : Seq(Messages), policy : Policies, closed : BOOLEAN,
         passed : Messages \cup {-1}]

TopicTypes ==
    /\ closed \in BOOLEAN /\ requestsOpen \in BOOLEAN /\ publishOpen \in BOOLEAN
    /\ closePc \in {"open", "closeSend", "closeWait", "closeRequests",
                    "closePublish", "closed"}

QueueTypes == requestC \in Seq(Request) /\ Len(requestC) <= 1

CallTypes ==
    /\ clientPc \in [Clients -> {"idle", "subSend", "subWait", "holding",
                                 "unsubSend", "unsubWait", "panicked"}]
    /\ clientCh \in [Clients -> ChanIds]
    /\ calls \in Nat /\ asked \subseteq ChanIds

ResponseTypes ==
    response \in [Clients -> [ch : ChanIds, err : BOOLEAN, set : BOOLEAN]]

MapTypes == subscribers \in [Groups -> ChanIds] /\ recvOn \in BOOLEAN

ChanTypes ==
    /\ chans \in Seq(Chan)
    /\ \A k \in DOMAIN chans : Len(chans[k].buf) <= BufferSize

LoopTypes ==
    /\ bcPc \in {"select", "send", "returned", "crashed"}
    /\ msg \in Messages /\ lastMessage \in Messages
    /\ todo \subseteq Groups /\ cur \in Groups \cup {NoGroup}

PubTypes == pubPc \in {"idle", "sending", "panicked"} /\ sent \in Messages

(* Every variable has its type; no channel exceeds its capacity.            *)
TypeOK ==
    /\ TopicTypes /\ QueueTypes /\ CallTypes /\ ResponseTypes
    /\ MapTypes /\ ChanTypes /\ LoopTypes /\ PubTypes

(* The broadcaster never sends on a channel it has closed: every channel in *)
(* its map is open and belongs to one group, and whatever it is about to    *)
(* send to is in the map.                                                   *)
RegisteredOpen ==
    /\ \A g \in Groups : subscribers[g] # 0 =>
          /\ ~chans[subscribers[g]].closed
          /\ \A h \in Groups \ {g} : subscribers[h] # subscribers[g]
    /\ bcPc = "send" => \A g \in todo \cup ({cur} \ {NoGroup}) : subscribers[g] # 0

(* The message that went into channel k before the i-th in its buffer, and  *)
(* the last one that went into it.                                          *)
Before(k, i) == IF i = 1 THEN chans[k].passed ELSE chans[k].buf[i - 1]

Newest(k) == IF chans[k].buf = <<>> THEN chans[k].passed
             ELSE chans[k].buf[Len(chans[k].buf)]

Ordered(k) ==
    \A i \in 1 .. Len(chans[k].buf) :
        /\ Before(k, i) < chans[k].buf[i]
        /\ chans[k].policy = "DropNone" => chans[k].buf[i] = Before(k, i) + 1

(* A subscriber channel delivers messages in the order they were published  *)
(* and none twice; under DropNone it delivers every message from the        *)
(* replayed one on.                                                         *)
InOrder == \A k \in DOMAIN chans : Ordered(k)

(* Between two broadcasts the newest message of the topic has reached every *)
(* buffered DropNone and DropOldest subscriber, whether it was registered   *)
(* before it was published or got it as the last message: a slow reader of  *)
(* service states may miss old states, never the latest one.                *)
UpToDate ==
    bcPc = "select" /\ BufferSize > 0 =>
        \A g \in Groups :
            LET k == subscribers[g]
            IN  k # 0 /\ chans[k].policy \in {"DropNone", "DropOldest"} =>
                    Newest(k) = lastMessage

(* A subscriber channel is closed only because some client asked to         *)
(* unsubscribe that very channel or because the topic is being closed: a    *)
(* late Unsubscribe never closes the channel of a newer subscription.       *)
ClosedOnRequest ==
    closePc \in {"open", "closeSend", "closeWait"} =>
        \A k \in DOMAIN chans : chans[k].closed => k \in asked

(* A subscriber-aware topic receives messages only while it has             *)
(* subscribers.                                                             *)
AwareOnly ==
    SubscriberAware /\ recvOn => \E g \in Groups : subscribers[g] # 0

Queued(c) == \E i \in DOMAIN requestC : requestC[i].answerTo = c

(* A caller that waits for the broadcaster's answer has it in its channel   *)
(* or has its request in the queue, never both, whoever else subscribes,    *)
(* gives up or closes; so has Close, until it is answered: no request is    *)
(* lost, answered twice or answered to somebody else.                       *)
AnswerDue ==
    /\ \A c \in Clients : clientPc[c] \in {"subWait", "unsubWait"} =>
          /\ response[c].set \/ Queued(c)
          /\ response[c].set => ~Queued(c)
    /\ closePc = "closeWait" => \E i \in DOMAIN requestC : requestC[i].op = "close"

(* The broadcaster waits for a subscriber that nobody reads any more, with  *)
(* DropNone, or one whose buffer was emptied between the failed send and    *)
(* the receive that was to make room, with DropOldest.                      *)
Wedged ==
    /\ cur # NoGroup
    /\ LET k == subscribers[cur]
       IN  \/ /\ chans[k].policy = "DropNone"
              /\ \A c \in Clients : ~(clientPc[c] = "holding" /\ clientCh[c] = k)
           \/ chans[k].policy = "DropOldest" /\ chans[k].buf = <<>>

(* A broadcast that has begun ends, unless the broadcaster is wedged, which *)
(* is then for ever: the subscribers that drop the newest message, at once  *)
(* or after a timeout, never block the topic, nor does a slow one with      *)
(* DropNone that keeps reading.                                             *)
BroadcastCompletes == bcPc = "send" ~> bcPc # "send" \/ []Wedged

(* A call of Close returns, with the same exception: it waits for the       *)
(* broadcaster without a timeout (topic.go:134).                            *)
CloseCompletes == closePc = "closeSend" ~> closePc = "closed" \/ []Wedged

(* A request the topic accepted is handled: in particular an Unsubscribe    *)
(* that was queued removes its group and closes its channel (topic.go:15    *)
(* "Unsubscribe will remove the consumer group from the topic and close the *)
(* subscriber channel").  Once more the exception is a wedged broadcaster,  *)
(* the Unsubscribe of the last reader of a DropNone group being one way to  *)
(* get there: it no longer reads while it waits for its answer.             *)
RequestsHandled == requestC # <<>> ~> requestC = <<>> \/ []Wedged

-----------------------------------------------------------------------------
(* The inductive invariant behind the safety properties.                    *)

(* A client that holds a channel, or is about to be given one, holds one    *)
(* that exists; its queued request matches the select it waits in.          *)
ClientInv(c) ==
    /\ clientPc[c] \in {"holding", "unsubSend", "unsubWait"} =>
          clientCh[c] \in 1 .. Len(chans)
    /\ clientPc[c] = "unsubSend" => clientCh[c] \in asked
    /\ response[c].set => clientPc[c] \in {"subWait", "unsubWait"}
    /\ response[c].set /\ clientPc[c] = "subWait" =>
          response[c].ch \in 1 .. Len(chans)

RequestInv(r) ==
    /\ r.op # "close" => r.conf \in Clients
    /\ r.op = "unsubscribe" => r.ch \in asked
    /\ r.answerTo # NoClient =>
          /\ ~response[r.answerTo].set
          /\ r.op = "subscribe" => clientPc[r.answerTo] = "subWait"
          /\ r.op = "unsubscribe" => clientPc[r.answerTo] = "unsubWait"

(* The map leads to open channels, one for each group; the loop and its     *)
(* message counters.                                                        *)
MapInv ==
    /\ \A g \in Groups : subscribers[g] # 0 =>
          /\ subscribers[g] \in 1 .. Len(chans)
          /\ ~chans[subscribers[g]].closed
          /\ \A h \in Groups \ {g} : subscribers[h] # subscribers[g]
    /\ cur # NoGroup => bcPc = "send" /\ subscribers[cur] # 0 /\ cur \notin todo
    /\ bcPc = "send" => \A g \in todo : subscribers[g] # 0
    /\ bcPc \in {"send", "crashed"} => msg = sent /\ sent = lastMessage + 1
    /\ bcPc \in {"select", "returned"} => sent = lastMessage

(* What group g has been sent so far.                                       *)
Due(g) == IF bcPc = "send" /\ g \in todo \cup {cur} THEN lastMessage ELSE sent

(* No channel is ahead of the loop, and a buffered one that loses nothing   *)
(* new is not behind it either.                                             *)
NewestInv ==
    bcPc # "crashed" =>
        \A g \in Groups : subscribers[g] # 0 =>
            /\ Newest(subscribers[g]) <= Due(g)
            /\ BufferSize > 0 /\ PolicyOf(g) \in {"DropNone", "DropOldest"} =>
                  Newest(subscribers[g]) = Due(g)

TInv ==
    /\ TypeOK /\ InOrder /\ ClosedOnRequest /\ AwareOnly
    /\ \A c \in Clients : ClientInv(c)
    /\ \A i \in DOMAIN requestC : RequestInv(requestC[i])
    /\ MapInv /\ NewestInv

(* What AnswerDue needs of the queue besides TInv.                          *)
CloseInv == \A i \in DOMAIN requestC :
                requestC[i].op = "close" => requestC[i].answerTo = NoClient
=============================================================================
