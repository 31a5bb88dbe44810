------------------------------ MODULE Registry ------------------------------
(***************************************************************************)
(* The intracom registry (intracom/intracom.go): the map from topic names  *)
(* to topics that CreateTopic, RemoveTopic, CreateSubscription,            *)
(* RemoveSubscription and Close share.  A topic is known here by its name, *)
(* its element type and how far its Close has come; what happens inside it *)
(* is the subject of Topic.                                                *)
(*                                                                         *)
(* pc, the control point of each caller:                                   *)
(*   idle        no call in progress                                       *)
(*   lookup      CreateTopic, past the closed check                        *)
(*   insert      CreateTopic, found no topic and made one                  *)
(*   find        RemoveTopic, before the lookup                            *)
(*   close       RemoveTopic, about to call topic.Close                    *)
(*   await       RemoveTopic, in topic.Close past its Swap                 *)
(*   delete      RemoveTopic, topic.Close returned nil                     *)
(*   lock        Close, past its Swap                                      *)
(*   closeNext, closeAwait                                                 *)
(*               Close, holding the lock: between two topics, in the       *)
(*               Close of one                                              *)
(*   poll, peek  CreateSubscription, waiting for the topic to exist: in    *)
(*               the select, past the closed check of a retry              *)
(*   subscribe   CreateSubscription, about to call Subscribe               *)
(*   resolve     RemoveSubscription, before the lookup                     *)
(*   unsubscribe RemoveSubscription, about to call Unsubscribe             *)
(***************************************************************************)
EXTENDS Naturals, Sequences

CONSTANTS
    Callers,   \* goroutines that use the registry
    Names,     \* topic names
    Types,     \* element types T, "any" among them
    MaxCalls   \* bound: calls that change the registry, in a behaviour

Nobody == "nobody"

ASSUME RegistryAssumption ==
    /\ "any" \in Types /\ Names # {} /\ MaxCalls \in Nat
    /\ Nobody \notin Callers

VARIABLES
    topics,     \* ic.topics: name -> topic, 0 for no entry
    made,       \* every topic made, in order: name, type and state of Close
    icClosed,   \* ic.closed
    writer,     \* who holds ic.mu for longer than one step
    pc,
    call,       \* the arguments of each caller's call
    held,       \* the topic each caller looked up, 0 for none
    closing,    \* topics Close has yet to close
    calls,      \* calls begun, up to MaxCalls
    raced       \* history: a CreateTopic overlapped another one or Close

callerVars == <<pc, call, held>>
registryVars == <<topics, made, icClosed, writer, closing>>
vars == <<registryVars, callerVars, calls, raced>>

Args == [name : Names, type : Types]
MadeTopic == [name : Names, type : Types, state : {"open", "closing", "closed"}]
Creating == {"lookup", "insert"}
Closing == {"lock", "closeNext", "closeAwait"}
Pc == Creating \cup Closing \cup {"idle", "find", "close", "await", "delete",
      "poll", "peek", "subscribe", "resolve", "unsubscribe"}

NoArgs == [name |-> CHOOSE n \in Names : TRUE, type |-> "any"]

Init ==
    /\ topics = [n \in Names |-> 0]
    /\ made = <<>>
    /\ icClosed = FALSE
    /\ writer = Nobody
    /\ pc = [c \in Callers |-> "idle"]
    /\ call = [c \in Callers |-> NoArgs]
    /\ held = [c \in Callers |-> 0]
    /\ closing = {}
    /\ calls = 0
    /\ raced = FALSE

Goto(c, l) == pc' = [pc EXCEPT ![c] = l]
Hold(c, t) == held' = [held EXCEPT ![c] = t]

(* The call returns, with or without an error; what it knew is forgotten.   *)
Return(c) == Goto(c, "idle") /\ Hold(c, 0) /\ call' = [call EXCEPT ![c] = NoArgs]

(* ic.mu can be taken, for reading or for writing.                          *)
Unlocked == writer = Nobody

(* topicAny.(Topic[T])                                                      *)
HasType(t, type) == made[t].type = type

(* Caller c begins a call that may change the registry.                     *)
Begin(c, l) ==
    /\ pc[c] = "idle"
    /\ calls < MaxCalls
    /\ calls' = calls + 1
    /\ \E a \in Args : call' = [call EXCEPT ![c] = a]
    /\ Goto(c, l)

Overlaps(c, points) == \E d \in Callers \ {c} : pc[d] \in points

-----------------------------------------------------------------------------
(* CreateTopic.                                                             *)

RefusedNever == FALSE  \* mutant of Refused: the closed flag is not looked at
Refused == icClosed

CallCreateTopic(c) ==
    /\ ~Refused
    /\ Begin(c, "lookup")
    /\ raced' = (raced \/ Overlaps(c, Creating \cup Closing))
    /\ UNCHANGED <<registryVars, held>>

Absent(n) == topics[n] = 0

NewTopicForgotten(c) == UNCHANGED made  \* mutant of NewTopic
NewTopic(c) == made' = Append(made, [name |-> call[c].name, type |-> call[c].type,
                                     state |-> "open"])

(* Without an entry a new topic is made, whose broadcaster starts at once.  *)
LookupAbsent(c) ==
    /\ pc[c] = "lookup" /\ Unlocked
    /\ Absent(call[c].name)
    /\ NewTopic(c)
    /\ Hold(c, Len(made) + 1)
    /\ Goto(c, "insert")
    /\ UNCHANGED <<topics, icClosed, writer, closing, call, calls, raced>>

(* An entry of another type is an error, and so is any entry if the caller  *)
(* asked for ErrIfExists; otherwise the caller shares the topic.  Either    *)
(* way the registry is left alone.                                          *)
LookupFound(c) ==
    /\ pc[c] = "lookup" /\ Unlocked
    /\ ~Absent(call[c].name)
    /\ Return(c)
    /\ UNCHANGED <<registryVars, calls, raced>>

Insert(c) ==
    /\ pc[c] = "insert" /\ Unlocked
    /\ topics' = [topics EXCEPT ![call[c].name] = held[c]]
    /\ Return(c)
    /\ UNCHANGED <<made, icClosed, writer, closing, calls, raced>>

-----------------------------------------------------------------------------
(* topic.Close: the Swap lets one caller through; that one waits for the    *)
(* broadcaster's answer and closes the topic's channels.                    *)

SwapFreeUnchecked(t) == TRUE  \* mutant of SwapFree: every caller goes through
SwapFree(t) == made[t].state = "open"

Mark(t, s) == made' = [made EXCEPT ![t].state = s]

-----------------------------------------------------------------------------
(* RemoveTopic.                                                             *)

CallRemoveTopic(c) ==
    /\ Begin(c, "find")
    /\ UNCHANGED <<registryVars, held, raced>>

(* The lookup all calls but CreateTopic share: without an entry of the      *)
(* caller's type the call returns an error.                                 *)
Resolve(c, found) ==
    /\ Unlocked
    /\ LET t == topics[call[c].name]
       IN  IF t # 0 /\ HasType(t, call[c].type)
           THEN Hold(c, t) /\ Goto(c, found) /\ UNCHANGED call
           ELSE Return(c)

FindTopic(c) ==
    /\ pc[c] = "find"
    /\ Resolve(c, "close")
    /\ UNCHANGED <<registryVars, calls, raced>>

(* Where RemoveTopic goes when topic.Close fails; the mutant carries on.    *)
AfterCloseFailedDeletes(c) == Goto(c, "delete") /\ UNCHANGED <<held, call>>
AfterCloseFailed(c) == Return(c)

RemoveCloses(c) ==
    /\ pc[c] = "close"
    /\ \/ /\ SwapFree(held[c])
          /\ Mark(held[c], "closing")
          /\ Goto(c, "await")
          /\ UNCHANGED <<held, call>>
       \/ /\ ~SwapFree(held[c])
          /\ AfterCloseFailed(c)
          /\ UNCHANGED made
    /\ UNCHANGED <<topics, icClosed, writer, closing, calls, raced>>

RemoveAnswered(c) ==
    /\ pc[c] = "await"
    /\ Mark(held[c], "closed")
    /\ Goto(c, "delete")
    /\ UNCHANGED <<topics, icClosed, writer, closing, call, held, calls, raced>>

(* mutant of Delete: the entry is forgotten *)
DeleteForgotten(c) ==
    /\ pc[c] = "delete" /\ Unlocked
    /\ Return(c)
    /\ UNCHANGED <<registryVars, calls, raced>>

(* delete(ic.topics, name), whatever topic the name has by now.             *)
Delete(c) ==
    /\ pc[c] = "delete" /\ Unlocked
    /\ topics' = [topics EXCEPT ![call[c].name] = 0]
    /\ Return(c)
    /\ UNCHANGED <<made, icClosed, writer, closing, calls, raced>>

-----------------------------------------------------------------------------
(* Close.                                                                   *)

(* The Swap lets one Close through, the others return an error.             *)
CallClose(c) ==
    /\ pc[c] = "idle"
    /\ ~icClosed
    /\ icClosed' = TRUE
    /\ Goto(c, "lock")
    /\ raced' = (raced \/ Overlaps(c, Creating))
    /\ UNCHANGED <<topics, made, writer, closing, call, held, calls>>

(* Only a Topic[any] passes the type assertion.                             *)
CloseLock(c) ==
    /\ pc[c] = "lock" /\ Unlocked
    /\ writer' = c
    /\ closing' = {t \in {topics[n] : n \in Names} \ {0} : HasType(t, "any")}
    /\ Goto(c, "closeNext")
    /\ UNCHANGED <<topics, made, icClosed, call, held, calls, raced>>

CloseTopic(c) ==
    /\ pc[c] = "closeNext"
    /\ \E t \in closing :
          /\ closing' = closing \ {t}
          /\ \/ SwapFree(t) /\ Mark(t, "closing") /\ Hold(c, t) /\ Goto(c, "closeAwait")
             \/ ~SwapFree(t) /\ UNCHANGED <<made, held, pc>>
    /\ UNCHANGED <<topics, icClosed, writer, call, calls, raced>>

CloseAnswered(c) ==
    /\ pc[c] = "closeAwait"
    /\ Mark(held[c], "closed")
    /\ Goto(c, "closeNext")
    /\ UNCHANGED <<topics, icClosed, writer, closing, call, held, calls, raced>>

CloseDone(c) ==
    /\ pc[c] = "closeNext" /\ closing = {}
    /\ topics' = [n \in Names |-> 0]
    /\ writer' = Nobody
    /\ Return(c)
    /\ UNCHANGED <<made, icClosed, closing, calls, raced>>

-----------------------------------------------------------------------------
(* CreateSubscription and RemoveSubscription, which read the registry and   *)
(* then use the topic they found.                                           *)

CallCreateSubscription(c) ==
    /\ pc[c] = "idle"
    /\ ~icClosed
    /\ \E a \in Args : call' = [call EXCEPT ![c] = a]
    /\ Goto(c, "poll")
    /\ UNCHANGED <<registryVars, held, calls, raced>>

(* The context is cancelled, or maxWait has passed.                         *)
PollGivesUp(c) ==
    /\ pc[c] = "poll"
    /\ Return(c)
    /\ UNCHANGED <<registryVars, calls, raced>>

(* What a retry does with a closed registry; the mutant keeps polling.      *)
RetryClosedPolls(c) == UNCHANGED callerVars
RetryClosed(c) == Return(c)

(* The retry timer fires.                                                   *)
PollRetry(c) ==
    /\ pc[c] = "poll"
    /\ \/ icClosed /\ RetryClosed(c)
       \/ ~icClosed /\ Goto(c, "peek") /\ UNCHANGED <<call, held>>
    /\ UNCHANGED <<registryVars, calls, raced>>

PollPeek(c) ==
    /\ pc[c] = "peek" /\ Unlocked
    /\ IF topics[call[c].name] = 0
       THEN Goto(c, "poll") /\ UNCHANGED <<call, held>>
       ELSE Resolve(c, "subscribe")
    /\ UNCHANGED <<registryVars, calls, raced>>

CallRemoveSubscription(c) ==
    /\ pc[c] = "idle"
    /\ \E a \in Args : call' = [call EXCEPT ![c] = a]
    /\ Goto(c, "resolve")
    /\ UNCHANGED <<registryVars, held, calls, raced>>

FindSubscribed(c) ==
    /\ pc[c] = "resolve"
    /\ Resolve(c, "unsubscribe")
    /\ UNCHANGED <<registryVars, calls, raced>>

(* topic.Subscribe or topic.Unsubscribe, which return by themselves or when *)
(* their context or timeout ends.                                           *)
UseTopic(c) ==
    /\ pc[c] \in {"subscribe", "unsubscribe"}
    /\ Return(c)
    /\ UNCHANGED <<registryVars, calls, raced>>

-----------------------------------------------------------------------------
CallStep(c) ==
    \/ LookupAbsent(c) \/ LookupFound(c) \/ Insert(c)
    \/ FindTopic(c) \/ RemoveCloses(c) \/ Delete(c)
    \/ CloseLock(c) \/ CloseTopic(c) \/ CloseDone(c)
    \/ PollRetry(c) \/ PollPeek(c) \/ FindSubscribed(c)

Next == \E c \in Callers :
    \/ CallCreateTopic(c) \/ CallRemoveTopic(c) \/ CallClose(c)
    \/ CallCreateSubscription(c) \/ CallRemoveSubscription(c)
    \/ PollGivesUp(c) \/ UseTopic(c)
    \/ RemoveAnswered(c) \/ CloseAnswered(c)
    \/ CallStep(c)

Spec == Init /\ [][Next]_vars

(* A call that has begun goes on unless it is blocked: the retry timer of a *)
(* subscription always fires again.  Nothing obliges a context to be        *)
(* cancelled, nor Subscribe, Unsubscribe or Close of a topic to return:     *)
(* Close waits without a timeout for a broadcaster that a subscriber with   *)
(* DropNone or DropOldest can hold up for ever (topic.go:134).              *)
FairSpec == Spec /\ \A c \in Callers : WF_vars(CallStep(c))

-----------------------------------------------------------------------------
(* Properties.                                                              *)

Made == 1 .. Len(made)

(* Every variable has its type, and the map points at topics that exist.    *)
TypeOK ==
    /\ made \in Seq(MadeTopic)
    /\ topics \in [Names -> Made \cup {0}]
    /\ icClosed \in BOOLEAN /\ raced \in BOOLEAN
    /\ writer \in Callers \cup {Nobody}
    /\ pc \in [Callers -> Pc]
    /\ call \in [Callers -> Args]
    /\ held \in [Callers -> Made \cup {0}]
    /\ closing \subseteq Made
    /\ calls \in 0 .. MaxCalls

Awaiting(c, t) == pc[c] \in {"await", "closeAwait"} /\ held[c] = t

(* topic.Close closes requestC and publishC, which a second caller must not *)
(* do again: among concurrent RemoveTopic calls and Close, at most one is   *)
(* in the closing of a topic, and none in that of a topic already closed.   *)
NoDoubleClose ==
    \A t \in Made, c, d \in Callers :
        Awaiting(c, t) => /\ made[t].state = "closing"
                          /\ Awaiting(d, t) => c = d

(* Topic names are unique (intracom.go:46) as long as no CreateTopic        *)
(* overlaps another one or Close: a name has at most one open topic, and    *)
(* that is the one registered, however RemoveTopic calls interleave.        *)
TopicsUnique ==
    ~raced /\ ~icClosed =>
        \A t \in Made : made[t].state = "open" =>
            \/ topics[made[t].name] = t
            \/ \E c \in Callers : pc[c] = "insert" /\ held[c] = t

(* Once Close has returned the registry stays empty, unless a CreateTopic   *)
(* had passed its closed check before Close set the flag (intracom.go:52).  *)
StaysEmpty ==
    icClosed /\ ~raced /\ (\A c \in Callers : pc[c] \notin Closing) =>
        topics = [n \in Names |-> 0]

(* One Close runs, it alone holds ic.mu from reading the map to emptying    *)
(* it, and every topic it has yet to close is still registered: the lock    *)
(* has no holder but a Close in progress, and Close never reaches a topic   *)
(* that a concurrent call replaced or removed.                              *)
CloseHoldsMap ==
    /\ \A c \in Callers : pc[c] \in {"closeNext", "closeAwait"} <=> writer = c
    /\ \A c, d \in Callers : pc[c] \in Closing /\ pc[d] \in Closing => c = d
    /\ \A t \in closing : \E n \in Names : topics[n] = t

(* Caller c is on its way to dropping the entry of topic t.                 *)
Drops(c, t) == \/ pc[c] \in {"await", "delete"} /\ held[c] = t
               \/ pc[c] \in {"closeNext", "closeAwait"}

(* RemoveTopic deletes an entry only when the topic's Close returned nil,   *)
(* and Close drops all entries: however the calls overlap, a name leads to  *)
(* a closed or closing topic only while the caller that will drop the entry *)
(* is still at it.  No name stays bound to a dead topic after that.         *)
EntriesUsable ==
    \A n \in Names :
        topics[n] # 0 /\ made[topics[n]].state # "open" =>
            \E c \in Callers : Drops(c, topics[n])

(* A CreateSubscription does not go on waiting for its topic once the       *)
(* registry is closed (intracom.go:110 "If the intracom is closed, an error *)
(* is returned."): it returns, or a retry that passed the closed check      *)
(* before has found the topic.  The exception is a Close that never returns *)
(* from the Close of some topic: it keeps ic.mu, which the retry needs.     *)
WaitEndsOnClose ==
    \A c \in Callers :
        icClosed /\ pc[c] \in {"poll", "peek"} ~>
            \/ pc[c] \in {"idle", "subscribe"}
            \/ [](\E d \in Callers : pc[d] = "closeAwait")

-----------------------------------------------------------------------------
(* The inductive invariant behind the safety properties.                    *)

(* What a caller knows of the topic it holds, by control point.  The last   *)
(* three hold while CreateTopic calls do not overlap: the name is still     *)
(* free where a topic is about to be inserted, and still leads to the topic *)
(* where one is about to be deleted.                                        *)
HolderInv(c) ==
    /\ pc[c] \in {"insert", "close", "await", "delete"} =>
          held[c] \in Made /\ made[held[c]].name = call[c].name
    /\ pc[c] = "closeAwait" => held[c] \in Made
    /\ pc[c] \in {"await", "closeAwait"} => made[held[c]].state = "closing"
    /\ pc[c] = "delete" => made[held[c]].state = "closed"
    /\ pc[c] = "insert" => held[c] \notin closing /\ \A n \in Names : topics[n] # held[c]
    /\ pc[c] \in Closing => icClosed
    /\ ~raced /\ icClosed => pc[c] \notin Creating
    /\ ~raced /\ pc[c] = "insert" => topics[call[c].name] = 0
    /\ ~raced /\ ~icClosed /\ pc[c] \in {"await", "delete"} =>
          topics[call[c].name] = held[c]

(* Two callers never close or delete the same topic, and nobody else holds  *)
(* a topic before it is inserted.                                           *)
PairInv(c, d) ==
    /\ pc[c] \in {"await", "closeAwait", "delete"}
       /\ pc[d] \in {"await", "closeAwait", "delete"} => held[c] # held[d]
    /\ pc[c] = "insert" => held[c] # held[d]
    /\ ~raced => pc[c] \notin Creating \/ pc[d] \notin Creating

NamesInv == \A n \in Names : topics[n] # 0 => made[topics[n]].name = n

RInv ==
    /\ TypeOK /\ NamesInv /\ TopicsUnique /\ StaysEmpty
    /\ \A c \in Callers : HolderInv(c)
    /\ \A c, d \in Callers : c # d => PairInv(c, d)
=============================================================================
