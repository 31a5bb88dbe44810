--------------------------- MODULE RegistryProofs ---------------------------
(***************************************************************************)
(* The safety of the intracom registry, for any number of callers, names,  *)
(* types and calls: topics are closed once, their names are unique while   *)
(* CreateTopic calls do not overlap, a closed registry stays empty, and no *)
(* name is left with a closed topic.                                       *)
(***************************************************************************)
EXTENDS Registry, TLAPS

(* The arguments a caller is left with when its call returns. *)
LEMMA NoArgsType == NoArgs \in Args
<1>1. NoArgs.name \in Names /\ NoArgs.type \in Types
  BY RegistryAssumption DEF NoArgs
<1> QED
  BY <1>1 DEF NoArgs, Args

(* The Close of a topic changes its state and nothing else. *)
LEMMA MarkTopic ==
    ASSUME TypeOK, NEW t \in Made, NEW s \in {"open", "closing", "closed"}, Mark(t, s)
    PROVE  /\ made' \in Seq(MadeTopic) /\ Len(made') = Len(made)
           /\ \A u \in Made : /\ made'[u].name = made[u].name
                              /\ made'[u].type = made[u].type
                              /\ made'[u].state = IF u = t THEN s ELSE made[u].state
<1>1. made \in Seq(MadeTopic) /\ made[t] \in MadeTopic
  BY DEF TypeOK, Made
<1>2. PICK r : r = [made[t] EXCEPT !.state = s]
  OBVIOUS
<1>3. r \in MadeTopic /\ r.name = made[t].name /\ r.type = made[t].type /\ r.state = s
  BY <1>1, <1>2 DEF MadeTopic
<1>4. made' = [made EXCEPT ![t] = r]
  BY <1>2 DEF Mark
<1> HIDE DEF Mark
<1> QED
  BY <1>1, <1>3, <1>4 DEF Made

(* A new topic comes after those made before. *)
LEMMA NewTopicMade ==
    ASSUME TypeOK, NEW c \in Callers, NewTopic(c)
    PROVE  /\ made' \in Seq(MadeTopic) /\ Len(made') = Len(made) + 1
           /\ \A u \in Made : made'[u] = made[u]
           /\ made'[Len(made) + 1].name = call[c].name
           /\ made'[Len(made) + 1].state = "open"
<1>1. made \in Seq(MadeTopic) /\ call[c] \in Args
  BY DEF TypeOK
<1>2. PICK r : r = [name |-> call[c].name, type |-> call[c].type, state |-> "open"]
  OBVIOUS
<1>3. r \in MadeTopic /\ r.name = call[c].name /\ r.state = "open"
  BY <1>1, <1>2 DEF MadeTopic, Args
<1>4. made' = Append(made, r)
  BY <1>2 DEF NewTopic
<1> QED
  BY <1>1, <1>3, <1>4 DEF Made

(* Every topic has a name. *)
LEMMA MadeName ==
    ASSUME TypeOK, NEW u \in Made
    PROVE  made[u].name \in Names /\ u # 0
<1>1. made[u] \in MadeTopic
  BY DEF TypeOK, Made
<1> QED
  BY <1>1 DEF MadeTopic, Made

(* The topic a name leads to. *)
LEMMA TopicAt ==
    ASSUME TypeOK, NEW n \in Names, topics[n] # 0
    PROVE  topics[n] \in Made
BY DEF TypeOK

-----------------------------------------------------------------------------
(* Steps of one caller that leave the registry alone.                       *)

(* Caller c moves, nobody else does.                                        *)
OnlyMoves(c) ==
    \A d \in Callers \ {c} : pc'[d] = pc[d] /\ held'[d] = held[d] /\ call'[d] = call[d]

(* Such a step keeps the invariant if it neither begins nor ends anything   *)
(* the invariant speaks of; a topic it comes to hold is one of the map.     *)
LEMMA QuietStep ==
    ASSUME RInv, TypeOK', NEW c \in Callers, UNCHANGED <<registryVars, raced>>,
           OnlyMoves(c),
           pc[c] \notin Closing \cup {"insert"},
           pc'[c] \notin Closing \cup Creating \cup {"await", "delete"},
           held'[c] \in {0, held[c]} \cup {topics[n] : n \in Names},
           pc'[c] = "close" => held'[c] \in Made /\ made[held'[c]].name = call'[c].name
    PROVE  RInv'
<1>0. UNCHANGED <<topics, made, icClosed, writer, closing, raced>>
  BY DEF registryVars
<1>1. NamesInv'
  BY <1>0 DEF RInv, NamesInv
<1>2. TopicsUnique'
  BY <1>0 DEF RInv, TopicsUnique, Made, OnlyMoves
<1>3. StaysEmpty'
  BY <1>0 DEF RInv, StaysEmpty, OnlyMoves
<1>4. ASSUME NEW d \in Callers PROVE HolderInv(d)'
  <2>1. CASE d = c
    BY <1>0, <2>1 DEF HolderInv, Closing, Creating, Made
  <2>2. CASE d # c
    <3>1. pc'[d] = pc[d] /\ held'[d] = held[d] /\ call'[d] = call[d] /\ HolderInv(d)
      BY <2>2 DEF OnlyMoves, RInv
    <3> QED
      BY <1>0, <3>1 DEF HolderInv, Made
  <2> QED
    BY <2>1, <2>2
<1>5. ASSUME NEW d \in Callers, NEW e \in Callers, d # e PROVE PairInv(d, e)'
  <2>0. PairInv(d, e) /\ HolderInv(d)
    BY <1>5 DEF RInv
  <2>1. CASE d = c
    <3>1. pc'[e] = pc[e]
      BY <1>5, <2>1 DEF OnlyMoves
    <3> QED
      BY <2>1, <3>1 DEF PairInv, Closing, Creating
  <2>2. CASE e = c
    <3>1. pc'[d] = pc[d] /\ held'[d] = held[d]
      BY <1>5, <2>2 DEF OnlyMoves
    <3>2. pc[d] = "insert" => held'[c] # held[d]
      <4>1. pc[d] = "insert" => held[d] \in Made /\ 0 \notin Made
        BY <2>0 DEF HolderInv, Made
      <4> QED
        BY <2>0, <2>2, <4>1 DEF HolderInv, PairInv
    <3> QED
      BY <1>0, <2>2, <3>1, <3>2 DEF PairInv, Closing, Creating
  <2>3. CASE d # c /\ e # c
    <3>1. pc'[d] = pc[d] /\ held'[d] = held[d] /\ pc'[e] = pc[e] /\ held'[e] = held[e]
      BY <2>3 DEF OnlyMoves
    <3> QED
      BY <1>0, <2>0, <3>1 DEF PairInv
  <2> QED
    BY <2>1, <2>2, <2>3
<1> QED
  BY <1>1, <1>2, <1>3, <1>4, <1>5 DEF RInv

-----------------------------------------------------------------------------
(* The helpers actions share.                                               *)

CallerTypes ==
    pc' \in [Callers -> Pc] /\ call' \in [Callers -> Args]
    /\ held' \in [Callers -> Made \cup {0}]

(* A caller returns. *)
LEMMA Returned ==
    ASSUME TypeOK, NEW c \in Callers, Return(c)
    PROVE  CallerTypes /\ OnlyMoves(c) /\ pc'[c] = "idle" /\ held'[c] = 0
BY NoArgsType DEF TypeOK, Return, Goto, Hold, CallerTypes, OnlyMoves, Pc

(* A caller goes on with the topic it holds. *)
LEMMA GoesOn ==
    ASSUME TypeOK, NEW c \in Callers, NEW l \in Pc, Goto(c, l), UNCHANGED <<held, call>>
    PROVE  CallerTypes /\ OnlyMoves(c) /\ pc'[c] = l /\ held'[c] = held[c]
           /\ call'[c] = call[c]
BY DEF TypeOK, Goto, CallerTypes, OnlyMoves

(* A caller begins a call. *)
LEMMA Calls ==
    ASSUME TypeOK, NEW c \in Callers, NEW l \in Pc, Goto(c, l), UNCHANGED held,
           \E a \in Args : call' = [call EXCEPT ![c] = a]
    PROVE  CallerTypes /\ OnlyMoves(c) /\ pc'[c] = l /\ held'[c] = held[c]
BY DEF TypeOK, Goto, CallerTypes, OnlyMoves

(* The lookup finds a topic of the caller's name and type, or the call      *)
(* returns.                                                                 *)
LEMMA Resolved ==
    ASSUME TypeOK, NamesInv, NEW c \in Callers, NEW l \in Pc, Resolve(c, l)
    PROVE  /\ CallerTypes /\ OnlyMoves(c)
           /\ \/ pc'[c] = "idle" /\ held'[c] = 0
              \/ /\ pc'[c] = l /\ held'[c] \in {topics[n] : n \in Names}
                 /\ held'[c] \in Made /\ made[held'[c]].name = call'[c].name
<1>1. PICK t : t = topics[call[c].name]
  OBVIOUS
<1>2. call[c].name \in Names /\ t \in Made \cup {0}
  BY <1>1 DEF TypeOK, Args
<1>3. CASE t # 0 /\ HasType(t, call[c].type)
  <2>1. Hold(c, t) /\ Goto(c, l) /\ UNCHANGED call
    BY <1>1, <1>3 DEF Resolve
  <2>2. t \in Made /\ made[t].name = call[c].name
    BY <1>1, <1>2, <1>3 DEF NamesInv
  <2>3. pc'[c] = l /\ held'[c] = t /\ CallerTypes /\ OnlyMoves(c)
    BY <2>1, <2>2 DEF TypeOK, Hold, Goto, CallerTypes, OnlyMoves
  <2> QED
    BY <1>1, <1>2, <2>1, <2>2, <2>3
<1>4. CASE ~(t # 0 /\ HasType(t, call[c].type))
  <2>1. Return(c)
    BY <1>1, <1>4 DEF Resolve
  <2> QED
    BY <2>1, Returned
<1> QED
  BY <1>3, <1>4

(* The calls and steps that leave the registry alone. *)
LEMMA QuietActions ==
    ASSUME RInv, NEW c \in Callers,
           \/ LookupFound(c) \/ CallRemoveTopic(c) \/ FindTopic(c)
           \/ CallCreateSubscription(c) \/ PollGivesUp(c) \/ PollRetry(c) \/ PollPeek(c)
           \/ CallRemoveSubscription(c) \/ FindSubscribed(c) \/ UseTopic(c)
    PROVE  RInv'
<1>0. TypeOK /\ NamesInv
  BY DEF RInv
<1>1. UNCHANGED <<registryVars, raced>> /\ calls' \in 0 .. MaxCalls
  BY <1>0, RegistryAssumption
     DEF TypeOK, Begin, LookupFound, CallRemoveTopic, FindTopic, CallCreateSubscription,
         PollGivesUp, PollRetry, PollPeek, CallRemoveSubscription, FindSubscribed, UseTopic
<1>2. ASSUME CallerTypes PROVE TypeOK'
  BY <1>0, <1>1, <1>2 DEF TypeOK, CallerTypes, registryVars, Made
<1>3. ASSUME pc[c] \notin Closing \cup {"insert"}, Return(c)
      PROVE  RInv'
  <2>1. CallerTypes /\ OnlyMoves(c) /\ pc'[c] = "idle" /\ held'[c] = 0
    BY <1>0, <1>3, Returned
  <2>2. TypeOK'
    BY <1>2, <2>1
  <2> QED
    BY <1>1, <1>3, <2>1, <2>2, QuietStep DEF Closing, Creating
<1>4. ASSUME pc[c] \notin Closing \cup {"insert"},
             NEW l \in {"find", "poll", "peek", "resolve"}, Goto(c, l), UNCHANGED held,
             (\E a \in Args : call' = [call EXCEPT ![c] = a]) \/ UNCHANGED call
      PROVE  RInv'
  <2>1. l \in Pc
    BY DEF Pc
  <2>2. CallerTypes /\ OnlyMoves(c) /\ pc'[c] = l /\ held'[c] = held[c]
    BY <1>0, <1>4, <2>1, Calls, GoesOn
  <2>3. TypeOK'
    BY <1>2, <2>2
  <2> QED
    BY <1>1, <1>4, <2>2, <2>3, QuietStep DEF Closing, Creating
<1>5. ASSUME pc[c] \notin Closing \cup {"insert"},
             NEW l \in {"close", "subscribe", "unsubscribe"}, Resolve(c, l)
      PROVE  RInv'
  <2>1. l \in Pc
    BY DEF Pc
  <2>2. /\ CallerTypes /\ OnlyMoves(c)
        /\ \/ pc'[c] = "idle" /\ held'[c] = 0
           \/ /\ pc'[c] = l /\ held'[c] \in {topics[n] : n \in Names}
              /\ held'[c] \in Made /\ made[held'[c]].name = call'[c].name
    BY <1>0, <1>5, <2>1, Resolved
  <2>3. TypeOK'
    BY <1>2, <2>2
  <2> QED
    BY <1>1, <1>5, <2>2, <2>3, QuietStep DEF Closing, Creating
<1>6. CASE LookupFound(c) \/ PollGivesUp(c) \/ UseTopic(c)
  BY <1>3, <1>6 DEF LookupFound, PollGivesUp, UseTopic, Closing
<1>7. CASE CallRemoveTopic(c) \/ CallCreateSubscription(c) \/ CallRemoveSubscription(c)
  BY <1>4, <1>7 DEF CallRemoveTopic, CallCreateSubscription, CallRemoveSubscription, Begin,
                    Closing
<1>8. CASE PollRetry(c)
  BY <1>3, <1>4, <1>8 DEF PollRetry, RetryClosed, Closing
<1>9. CASE FindTopic(c) \/ FindSubscribed(c)
  BY <1>5, <1>9 DEF FindTopic, FindSubscribed, Closing
<1>10. CASE PollPeek(c)
  BY <1>4, <1>5, <1>10 DEF PollPeek, Closing
<1> QED
  BY <1>6, <1>7, <1>8, <1>9, <1>10

-----------------------------------------------------------------------------
(* CreateTopic.                                                             *)

LEMMA CallCreateTopicInv ==
    ASSUME RInv, NEW c \in Callers, CallCreateTopic(c)
    PROVE  RInv'
<1>0. TypeOK /\ "lookup" \in Pc
  BY DEF RInv, Pc, Creating
<1>1. /\ pc[c] = "idle" /\ ~icClosed /\ calls' \in 0 .. MaxCalls
      /\ raced' = (raced \/ Overlaps(c, Creating \cup Closing))
      /\ UNCHANGED <<topics, made, icClosed, writer, closing, held>>
  BY <1>0, RegistryAssumption DEF CallCreateTopic, Begin, Refused, registryVars, TypeOK
<1>2. CallerTypes /\ OnlyMoves(c) /\ pc'[c] = "lookup" /\ held'[c] = held[c]
  BY <1>0, Calls DEF CallCreateTopic, Begin
<1>3. TypeOK'
  <2>1. raced' \in BOOLEAN
    BY <1>0, <1>1 DEF TypeOK, Overlaps
  <2> QED
    BY <1>0, <1>1, <1>2, <2>1 DEF TypeOK, CallerTypes, Made
<1>4. NamesInv'
  BY <1>1 DEF RInv, NamesInv
<1>5. TopicsUnique'
  <2>1. \A d \in Callers : pc[d] = "insert" => pc'[d] = "insert" /\ held'[d] = held[d]
    BY <1>1, <1>2 DEF OnlyMoves
  <2> QED
    BY <1>1, <2>1 DEF RInv, TopicsUnique, Made
<1>6. StaysEmpty'
  BY <1>1 DEF StaysEmpty
<1>7. ASSUME NEW d \in Callers PROVE HolderInv(d)'
  <2>1. CASE d = c
    BY <1>1, <1>2, <2>1 DEF HolderInv, Closing, Creating
  <2>2. CASE d # c
    <3>1. pc'[d] = pc[d] /\ held'[d] = held[d] /\ call'[d] = call[d] /\ HolderInv(d)
      BY <1>2, <2>2 DEF OnlyMoves, RInv
    <3> QED
      BY <1>1, <3>1 DEF HolderInv, Made
  <2> QED
    BY <2>1, <2>2
<1>8. ASSUME NEW d \in Callers, NEW e \in Callers, d # e PROVE PairInv(d, e)'
  <2>0. PairInv(d, e) /\ held'[d] = held[d] /\ held'[e] = held[e]
    BY <1>1, <1>8 DEF RInv
  <2>1. CASE d = c
    <3>1. pc'[e] = pc[e] /\ (~raced' => pc[e] \notin Creating)
      BY <1>1, <1>2, <1>8, <2>1 DEF OnlyMoves, Overlaps
    <3> QED
      BY <1>2, <2>1, <3>1 DEF PairInv
  <2>2. CASE e = c
    <3>1. pc'[d] = pc[d] /\ (~raced' => pc[d] \notin Creating)
      BY <1>1, <1>2, <1>8, <2>2 DEF OnlyMoves, Overlaps
    <3> QED
      BY <1>2, <2>0, <2>2, <3>1 DEF PairInv
  <2>3. CASE d # c /\ e # c
    <3>1. pc'[d] = pc[d] /\ pc'[e] = pc[e]
      BY <1>2, <2>3 DEF OnlyMoves
    <3> QED
      BY <1>1, <2>0, <3>1 DEF PairInv
  <2> QED
    BY <2>1, <2>2, <2>3
<1> QED
  BY <1>3, <1>4, <1>5, <1>6, <1>7, <1>8 DEF RInv

(* The new topic is nobody else's, and its name is still free.              *)
LEMMA LookupAbsentInv ==
    ASSUME RInv, NEW c \in Callers, LookupAbsent(c)
    PROVE  RInv'
<1> DEFINE t == Len(made) + 1
<1>0. TypeOK /\ call[c].name \in Names /\ HolderInv(c)
  BY DEF RInv, TypeOK, Args
<1>1. /\ pc[c] = "lookup" /\ topics[call[c].name] = 0
      /\ UNCHANGED <<topics, icClosed, writer, closing, call, calls, raced>>
  BY DEF LookupAbsent, Absent
<1>2. /\ made' \in Seq(MadeTopic) /\ Len(made') = t
      /\ \A u \in Made : made'[u] = made[u]
      /\ made'[t].name = call[c].name /\ made'[t].state = "open"
  BY <1>0, NewTopicMade DEF LookupAbsent
<1>3. /\ pc' = [pc EXCEPT ![c] = "insert"] /\ held' = [held EXCEPT ![c] = t]
      /\ pc'[c] = "insert" /\ held'[c] = t /\ OnlyMoves(c)
  BY <1>0, <1>1 DEF LookupAbsent, Goto, Hold, OnlyMoves, TypeOK
<1>4. Made' = Made \cup {t} /\ t \notin Made \cup {0}
  BY <1>0, <1>2 DEF Made, TypeOK
<1> HIDE DEF t
<1>5. TypeOK'
  <2>1. pc' \in [Callers -> Pc] /\ held' \in [Callers -> Made' \cup {0}]
    BY <1>0, <1>3, <1>4 DEF TypeOK, Pc, Creating
  <2>2. topics' \in [Names -> Made' \cup {0}] /\ closing' \subseteq Made'
    BY <1>0, <1>1, <1>4 DEF TypeOK
  <2> QED
    BY <1>0, <1>1, <1>2, <2>1, <2>2 DEF TypeOK
<1>6. NamesInv'
  BY <1>0, <1>1, <1>2, TopicAt DEF RInv, NamesInv
<1>7. TopicsUnique'
  <2>1. \A d \in Callers : pc[d] = "insert" => pc'[d] = "insert" /\ held'[d] = held[d]
    BY <1>1, <1>3 DEF OnlyMoves
  <2> QED
    BY <1>1, <1>2, <1>3, <1>4, <2>1 DEF RInv, TopicsUnique
<1>8. StaysEmpty'
  BY <1>1, <1>3 DEF RInv, StaysEmpty, OnlyMoves, Closing
<1>9. ASSUME NEW d \in Callers PROVE HolderInv(d)'
  <2>1. CASE d = c
    <3>1. t \notin closing /\ \A n \in Names : topics[n] # t
      BY <1>0, <1>4 DEF TypeOK
    <3> QED
      BY <1>0, <1>1, <1>2, <1>3, <1>4, <2>1, <3>1 DEF HolderInv, Closing, Creating
  <2>2. CASE d # c
    <3>1. pc'[d] = pc[d] /\ held'[d] = held[d] /\ call'[d] = call[d] /\ HolderInv(d)
      BY <1>3, <2>2 DEF OnlyMoves, RInv
    <3> QED
      BY <1>1, <1>2, <1>4, <3>1 DEF HolderInv
  <2> QED
    BY <2>1, <2>2
<1>10. ASSUME NEW d \in Callers, NEW e \in Callers, d # e PROVE PairInv(d, e)'
  <2>0. PairInv(d, e) /\ held[d] \in Made \cup {0} /\ held[e] \in Made \cup {0}
    BY <1>0, <1>10 DEF RInv, TypeOK
  <2>1. CASE d = c
    <3>1. pc'[e] = pc[e] /\ held'[e] = held[e]
      BY <1>3, <1>10, <2>1 DEF OnlyMoves
    <3> QED
      BY <1>1, <1>3, <1>4, <2>0, <2>1, <3>1 DEF PairInv, Creating
  <2>2. CASE e = c
    <3>1. pc'[d] = pc[d] /\ held'[d] = held[d]
      BY <1>3, <1>10, <2>2 DEF OnlyMoves
    <3> QED
      BY <1>1, <1>3, <1>4, <2>0, <2>2, <3>1 DEF PairInv, Creating
  <2>3. CASE d # c /\ e # c
    <3>1. pc'[d] = pc[d] /\ pc'[e] = pc[e] /\ held'[d] = held[d] /\ held'[e] = held[e]
      BY <1>3, <2>3 DEF OnlyMoves
    <3> QED
      BY <1>1, <2>0, <3>1 DEF PairInv
  <2> QED
    BY <2>1, <2>2, <2>3
<1> QED
  BY <1>5, <1>6, <1>7, <1>8, <1>9, <1>10 DEF RInv

(* A caller that returns holds nothing the invariant speaks of, so the      *)
(* pairs it is in keep theirs.                                              *)
LEMMA ReturnKeepsPairs ==
    ASSUME RInv, NEW c \in Callers, Return(c), UNCHANGED raced,
           NEW d \in Callers, NEW e \in Callers, d # e
    PROVE  PairInv(d, e)'
<1>0. PairInv(d, e) /\ TypeOK /\ HolderInv(d)
  BY DEF RInv
<1>1. OnlyMoves(c) /\ pc'[c] = "idle" /\ held'[c] = 0
  BY <1>0, Returned
<1>2. CASE d = c
  BY <1>1, <1>2 DEF PairInv, Creating
<1>3. CASE e = c
  <2>1. pc'[d] = pc[d] /\ held'[d] = held[d]
    BY <1>1, <1>3 DEF OnlyMoves
  <2>2. pc[d] = "insert" => held[d] # 0
    BY <1>0 DEF HolderInv, Made
  <2> QED
    BY <1>1, <1>3, <2>1, <2>2 DEF PairInv, Creating
<1>4. CASE d # c /\ e # c
  <2>1. pc'[d] = pc[d] /\ pc'[e] = pc[e] /\ held'[d] = held[d] /\ held'[e] = held[e]
    BY <1>1, <1>4 DEF OnlyMoves
  <2> QED
    BY <1>0, <2>1 DEF PairInv
<1> QED
  BY <1>2, <1>3, <1>4

(* Insert overwrites nothing while CreateTopic calls do not overlap.        *)
LEMMA InsertInv ==
    ASSUME RInv, NEW c \in Callers, Insert(c)
    PROVE  RInv'
<1>0. TypeOK /\ call[c].name \in Names /\ HolderInv(c)
  BY DEF RInv, TypeOK, Args
<1>1. /\ pc[c] = "insert"
      /\ UNCHANGED <<made, icClosed, writer, closing, calls, raced>>
      /\ topics' = [topics EXCEPT ![call[c].name] = held[c]]
  BY DEF Insert
<1>2. CallerTypes /\ OnlyMoves(c) /\ pc'[c] = "idle" /\ held'[c] = 0
  BY <1>0, Returned DEF Insert
<1>3. held[c] \in Made /\ made[held[c]].name = call[c].name /\ Made' = Made
  BY <1>0, <1>1 DEF HolderInv, Made
<1>4. \A n \in Names : topics'[n] = IF n = call[c].name THEN held[c] ELSE topics[n]
  BY <1>0, <1>1 DEF TypeOK
<1>5. TypeOK'
  <2>1. topics' \in [Names -> Made \cup {0}]
    BY <1>0, <1>1, <1>3 DEF TypeOK
  <2> QED
    BY <1>0, <1>1, <1>2, <1>3, <2>1 DEF TypeOK, CallerTypes
<1>6. NamesInv'
  BY <1>0, <1>1, <1>3, <1>4 DEF RInv, NamesInv
<1>7. TopicsUnique'
  <2> SUFFICES ASSUME ~raced, ~icClosed, NEW u \in Made, made[u].state = "open"
               PROVE  \/ topics'[made[u].name] = u
                      \/ \E d \in Callers : pc'[d] = "insert" /\ held'[d] = u
    BY <1>1, <1>3 DEF TopicsUnique
  <2>0. made[u].name \in Names /\ u # 0
    BY <1>0, MadeName
  <2>1. CASE topics[made[u].name] = u
    BY <1>0, <1>1, <1>4, <2>0, <2>1 DEF HolderInv
  <2>2. CASE \E d \in Callers : pc[d] = "insert" /\ held[d] = u
    BY <1>2, <1>3, <1>4, <2>0, <2>2 DEF OnlyMoves
  <2> QED
    BY <2>1, <2>2 DEF RInv, TopicsUnique
<1>8. StaysEmpty'
  BY <1>0, <1>1 DEF StaysEmpty, HolderInv, Creating
<1>9. ASSUME NEW d \in Callers PROVE HolderInv(d)'
  <2>1. CASE d = c
    BY <1>2, <2>1 DEF HolderInv, Closing, Creating
  <2>2. CASE d # c
    <3>1. pc'[d] = pc[d] /\ held'[d] = held[d] /\ call'[d] = call[d] /\ HolderInv(d)
      BY <1>2, <2>2 DEF OnlyMoves, RInv
    <3>2. PairInv(c, d) /\ PairInv(d, c) /\ call[d].name \in Names
      BY <1>0, <2>2 DEF RInv, TypeOK, Args
    <3>3. pc[d] = "insert" => \A n \in Names : topics'[n] # held[d]
      BY <1>4, <3>1, <3>2 DEF PairInv, HolderInv
    <3>4. ~raced => pc[d] # "insert"
      BY <1>1, <3>2 DEF PairInv, Creating
    <3>5. ~raced /\ ~icClosed /\ pc[d] \in {"await", "delete"} =>
             topics'[call[d].name] = held[d]
      BY <1>0, <1>1, <1>4, <3>1, <3>2 DEF HolderInv, Made
    <3> QED
      BY <1>1, <1>3, <3>1, <3>3, <3>4, <3>5 DEF HolderInv
  <2> QED
    BY <2>1, <2>2
<1>10. \A d, e \in Callers : d # e => PairInv(d, e)'
  BY <1>1, ReturnKeepsPairs DEF Insert
<1> QED
  BY <1>5, <1>6, <1>7, <1>8, <1>9, <1>10 DEF RInv

-----------------------------------------------------------------------------
(* RemoveTopic.                                                             *)

(* Delete removes the entry of a topic that is closed, and no other one.    *)
LEMMA DeleteInv ==
    ASSUME RInv, NEW c \in Callers, Delete(c)
    PROVE  RInv'
<1>0. TypeOK /\ call[c].name \in Names /\ HolderInv(c)
  BY DEF RInv, TypeOK, Args
<1>1. /\ pc[c] = "delete"
      /\ UNCHANGED <<made, icClosed, writer, closing, calls, raced>>
      /\ topics' = [topics EXCEPT ![call[c].name] = 0]
  BY DEF Delete
<1>2. CallerTypes /\ OnlyMoves(c) /\ pc'[c] = "idle" /\ held'[c] = 0
  BY <1>0, Returned DEF Delete
<1>3. held[c] \in Made /\ made[held[c]].state = "closed" /\ Made' = Made
  BY <1>0, <1>1 DEF HolderInv, Made
<1>4. \A n \in Names : topics'[n] = IF n = call[c].name THEN 0 ELSE topics[n]
  BY <1>0, <1>1 DEF TypeOK
<1>5. TypeOK'
  <2>1. topics' \in [Names -> Made \cup {0}]
    BY <1>0, <1>1 DEF TypeOK
  <2> QED
    BY <1>0, <1>1, <1>2, <1>3, <2>1 DEF TypeOK, CallerTypes
<1>6. NamesInv'
  BY <1>1, <1>4 DEF RInv, NamesInv
<1>7. TopicsUnique'
  <2> SUFFICES ASSUME ~raced, ~icClosed, NEW u \in Made, made[u].state = "open"
               PROVE  \/ topics'[made[u].name] = u
                      \/ \E d \in Callers : pc'[d] = "insert" /\ held'[d] = u
    BY <1>1, <1>3 DEF TopicsUnique
  <2>0. made[u].name \in Names
    BY <1>0, MadeName
  <2>1. CASE topics[made[u].name] = u
    BY <1>0, <1>1, <1>3, <1>4, <2>0, <2>1 DEF HolderInv
  <2>2. CASE \E d \in Callers : pc[d] = "insert" /\ held[d] = u
    BY <1>1, <1>2, <2>2 DEF OnlyMoves
  <2> QED
    BY <2>1, <2>2 DEF RInv, TopicsUnique
<1>8. StaysEmpty'
  <2>1. \A d \in Callers : pc[d] \in Closing => pc'[d] \in Closing
    BY <1>1, <1>2 DEF OnlyMoves, Closing
  <2>2. topics = [n \in Names |-> 0] => topics' = [n \in Names |-> 0]
    BY <1>0, <1>1
  <2> QED
    BY <1>1, <2>1, <2>2 DEF RInv, StaysEmpty
<1>9. ASSUME NEW d \in Callers PROVE HolderInv(d)'
  <2>1. CASE d = c
    BY <1>2, <2>1 DEF HolderInv, Closing, Creating
  <2>2. CASE d # c
    <3>1. pc'[d] = pc[d] /\ held'[d] = held[d] /\ call'[d] = call[d] /\ HolderInv(d)
      BY <1>2, <2>2 DEF OnlyMoves, RInv
    <3>2. PairInv(c, d) /\ call[d].name \in Names
      BY <1>0, <2>2 DEF RInv, TypeOK, Args
    <3>3. pc[d] = "insert" => \A n \in Names : topics'[n] # held[d]
      BY <1>4, <3>1 DEF HolderInv, Made
    <3>4. ~raced /\ pc[d] = "insert" => topics'[call[d].name] = 0
      BY <1>4, <3>1, <3>2 DEF HolderInv
    <3>5. ~raced /\ ~icClosed /\ pc[d] \in {"await", "delete"} =>
             topics'[call[d].name] = held[d]
      BY <1>0, <1>1, <1>4, <3>1, <3>2 DEF HolderInv, PairInv
    <3> QED
      BY <1>1, <1>3, <3>1, <3>3, <3>4, <3>5 DEF HolderInv
  <2> QED
    BY <2>1, <2>2
<1>10. \A d, e \in Callers : d # e => PairInv(d, e)'
  BY <1>1, ReturnKeepsPairs DEF Delete
<1> QED
  BY <1>5, <1>6, <1>7, <1>8, <1>9, <1>10 DEF RInv

(* A step of topic.Close: caller c, and nobody else, is closing topic t.    *)
LEMMA MarkStep ==
    ASSUME RInv, NEW c \in Callers, NEW t \in Made, NEW s \in {"closing", "closed"},
           Mark(t, s), CallerTypes, OnlyMoves(c), held'[c] = t,
           UNCHANGED <<topics, icClosed, writer, calls, raced>>, closing' \subseteq closing,
           pc[c] \notin Creating,
           pc'[c] \in {"await", "delete", "closeAwait", "closeNext"},
           pc[c] \in Closing <=> pc'[c] \in Closing,
           \A d \in Callers \ {c} :
               pc[d] \in {"await", "closeAwait", "delete", "insert"} => held[d] # t,
           HolderInv(c)'
    PROVE  RInv'
<1>0. TypeOK
  BY DEF RInv
<1>1. /\ made' \in Seq(MadeTopic) /\ Len(made') = Len(made)
      /\ \A u \in Made : /\ made'[u].name = made[u].name
                         /\ made'[u].state = IF u = t THEN s ELSE made[u].state
  BY <1>0, MarkTopic
<1>2. Made' = Made
  BY <1>1 DEF Made
<1> HIDE DEF Mark
<1>3. TypeOK'
  BY <1>0, <1>1, <1>2 DEF TypeOK, CallerTypes
<1>4. NamesInv'
  BY <1>0, <1>1, TopicAt DEF RInv, NamesInv
<1>5. TopicsUnique'
  <2>1. \A d \in Callers : pc[d] = "insert" => pc'[d] = "insert" /\ held'[d] = held[d]
    BY DEF OnlyMoves, Creating
  <2> QED
    BY <1>1, <1>2, <2>1 DEF RInv, TopicsUnique
<1>6. StaysEmpty'
  <2>1. \A d \in Callers : pc[d] \in Closing <=> pc'[d] \in Closing
    BY DEF OnlyMoves
  <2> QED
    BY <2>1 DEF RInv, StaysEmpty
<1>7. ASSUME NEW d \in Callers, d # c PROVE HolderInv(d)'
  <2>1. pc'[d] = pc[d] /\ held'[d] = held[d] /\ call'[d] = call[d] /\ HolderInv(d)
    BY <1>7 DEF OnlyMoves, RInv
  <2>2. pc[d] \in {"await", "closeAwait", "delete", "insert"} => held[d] # t
    BY <1>7
  <2> QED
    BY <1>1, <1>2, <2>1, <2>2 DEF HolderInv
<1>8. ASSUME NEW d \in Callers, NEW e \in Callers, d # e PROVE PairInv(d, e)'
  <2>0. PairInv(d, e)
    BY <1>8 DEF RInv
  <2>1. CASE d = c
    <3>1. pc'[e] = pc[e] /\ held'[e] = held[e]
          /\ (pc[e] \in {"await", "closeAwait", "delete", "insert"} => held[e] # t)
      BY <1>8, <2>1 DEF OnlyMoves
    <3> QED
      BY <2>1, <3>1 DEF PairInv, Creating
  <2>2. CASE e = c
    <3>1. pc'[d] = pc[d] /\ held'[d] = held[d]
          /\ (pc[d] \in {"await", "closeAwait", "delete", "insert"} => held[d] # t)
      BY <1>8, <2>2 DEF OnlyMoves
    <3> QED
      BY <2>2, <3>1 DEF PairInv, Creating
  <2>3. CASE d # c /\ e # c
    <3>1. pc'[d] = pc[d] /\ pc'[e] = pc[e] /\ held'[d] = held[d] /\ held'[e] = held[e]
      BY <2>3 DEF OnlyMoves
    <3> QED
      BY <2>0, <3>1 DEF PairInv
  <2> QED
    BY <2>1, <2>2, <2>3
<1> QED
  BY <1>3, <1>4, <1>5, <1>6, <1>7, <1>8 DEF RInv

(* A topic that is open is being closed or deleted by nobody.               *)
LEMMA OpenIsFree ==
    ASSUME RInv, NEW t \in Made, SwapFree(t), NEW d \in Callers,
           pc[d] \in {"await", "closeAwait", "delete"}
    PROVE  held[d] # t
BY DEF RInv, HolderInv, SwapFree

LEMMA RemoveClosesInv ==
    ASSUME RInv, NEW c \in Callers, RemoveCloses(c)
    PROVE  RInv'
<1>0. TypeOK /\ HolderInv(c) /\ pc[c] = "close" /\ "await" \in Pc
  BY DEF RInv, RemoveCloses, Pc
<1>1. held[c] \in Made /\ made[held[c]].name = call[c].name
      /\ UNCHANGED <<topics, icClosed, writer, closing, calls, raced>>
  BY <1>0 DEF HolderInv, RemoveCloses
<1>2. ASSUME SwapFree(held[c]), Mark(held[c], "closing"), Goto(c, "await"),
             UNCHANGED <<held, call>>
      PROVE  RInv'
  <2>1. CallerTypes /\ OnlyMoves(c) /\ pc'[c] = "await" /\ held'[c] = held[c]
        /\ call'[c] = call[c]
    BY <1>0, <1>2, GoesOn
  <2>2. \A d \in Callers \ {c} :
           pc[d] \in {"await", "closeAwait", "delete", "insert"} => held[d] # held[c]
    <3>1. \A d \in Callers \ {c} : pc[d] = "insert" => held[d] # held[c]
      BY DEF RInv, PairInv
    <3> QED
      BY <1>1, <1>2, <3>1, OpenIsFree
  <2>3. ~raced /\ ~icClosed => topics[call[c].name] = held[c]
    BY <1>0, <1>1, <1>2, <2>2 DEF RInv, TopicsUnique, SwapFree
  <2>4. /\ Len(made') = Len(made) /\ made'[held[c]].name = made[held[c]].name
        /\ made'[held[c]].state = "closing"
    BY <1>0, <1>1, <1>2, MarkTopic
  <2>5. Made' = Made
    BY <2>4 DEF Made
  <2>6. HolderInv(c)'
    BY <1>1, <2>1, <2>3, <2>4, <2>5 DEF HolderInv, Closing, Creating
  <2> QED
    BY <1>0, <1>1, <1>2, <2>1, <2>2, <2>6, MarkStep DEF Closing, Creating
<1>3. ASSUME Return(c), UNCHANGED made PROVE RInv'
  <2>1. CallerTypes /\ OnlyMoves(c) /\ pc'[c] = "idle" /\ held'[c] = 0
    BY <1>0, <1>3, Returned
  <2>2. TypeOK'
    BY <1>0, <1>1, <1>3, <2>1 DEF TypeOK, CallerTypes, Made
  <2>3. UNCHANGED <<registryVars, raced>>
    BY <1>1, <1>3 DEF registryVars
  <2> QED
    BY <1>0, <2>1, <2>2, <2>3, QuietStep DEF Closing, Creating
<1> QED
  BY <1>2, <1>3 DEF RemoveCloses, AfterCloseFailed

LEMMA RemoveAnsweredInv ==
    ASSUME RInv, NEW c \in Callers, RemoveAnswered(c)
    PROVE  RInv'
<1>0. TypeOK /\ HolderInv(c) /\ pc[c] = "await" /\ "delete" \in Pc
  BY DEF RInv, RemoveAnswered, Pc
<1>1. held[c] \in Made /\ made[held[c]].name = call[c].name
      /\ UNCHANGED <<topics, icClosed, writer, closing, calls, raced>>
      /\ Mark(held[c], "closed")
  BY <1>0 DEF HolderInv, RemoveAnswered
<1>2. CallerTypes /\ OnlyMoves(c) /\ pc'[c] = "delete" /\ held'[c] = held[c]
      /\ call'[c] = call[c]
  BY <1>0, GoesOn DEF RemoveAnswered
<1>3. \A d \in Callers \ {c} :
         pc[d] \in {"await", "closeAwait", "delete", "insert"} => held[d] # held[c]
  BY <1>0 DEF RInv, PairInv
<1>4. /\ Len(made') = Len(made) /\ made'[held[c]].name = made[held[c]].name
      /\ made'[held[c]].state = "closed"
  BY <1>0, <1>1, MarkTopic
<1>5. HolderInv(c)'
  <2>1. Made' = Made
    BY <1>4 DEF Made
  <2> QED
    BY <1>0, <1>1, <1>2, <1>4, <2>1 DEF HolderInv, Closing, Creating
<1> QED
  BY <1>0, <1>1, <1>2, <1>3, <1>5, MarkStep DEF Closing, Creating

-----------------------------------------------------------------------------
(* Close.                                                                   *)

LEMMA CallCloseInv ==
    ASSUME RInv, NEW c \in Callers, CallClose(c)
    PROVE  RInv'
<1>0. TypeOK /\ "lock" \in Pc
  BY DEF RInv, Pc, Closing
<1>1. /\ pc[c] = "idle" /\ icClosed' = TRUE /\ raced' = (raced \/ Overlaps(c, Creating))
      /\ UNCHANGED <<topics, made, writer, closing, call, held, calls>>
  BY DEF CallClose
<1>2. CallerTypes /\ OnlyMoves(c) /\ pc'[c] = "lock" /\ held'[c] = held[c]
  BY <1>0, <1>1, GoesOn DEF CallClose
<1>3. TypeOK'
  <2>1. raced' \in BOOLEAN
    BY <1>0, <1>1 DEF TypeOK, Overlaps
  <2> QED
    BY <1>0, <1>1, <1>2, <2>1 DEF TypeOK, CallerTypes, Made
<1>4. NamesInv' /\ TopicsUnique' /\ StaysEmpty'
  BY <1>1, <1>2 DEF RInv, NamesInv, TopicsUnique, StaysEmpty, Closing
<1>5. ASSUME NEW d \in Callers PROVE HolderInv(d)'
  <2>1. CASE d = c
    BY <1>1, <1>2, <2>1 DEF HolderInv, Creating
  <2>2. CASE d # c
    <3>1. pc'[d] = pc[d] /\ held'[d] = held[d] /\ call'[d] = call[d] /\ HolderInv(d)
      BY <1>2, <2>2 DEF OnlyMoves, RInv
    <3>2. ~raced' => ~raced /\ pc[d] \notin Creating
      BY <1>1, <2>2 DEF Overlaps
    <3> QED
      BY <1>1, <3>1, <3>2 DEF HolderInv, Made
  <2> QED
    BY <2>1, <2>2
<1>6. ASSUME NEW d \in Callers, NEW e \in Callers, d # e PROVE PairInv(d, e)'
  <2>1. PairInv(d, e) /\ held' = held /\ (~raced' => ~raced)
    BY <1>1, <1>6 DEF RInv
  <2>2. \A x \in {d, e} : \/ pc'[x] = pc[x]
                          \/ pc'[x] \notin Creating \cup {"await", "closeAwait", "delete"}
    BY <1>2 DEF OnlyMoves, Creating
  <2> QED
    BY <2>1, <2>2 DEF PairInv, Creating
<1> QED
  BY <1>3, <1>4, <1>5, <1>6 DEF RInv

(* A step of Close between two topics, which changes only what is left to   *)
(* close.                                                                   *)
LEMMA BetweenTopics ==
    ASSUME RInv, NEW c \in Callers, pc[c] \in {"lock", "closeNext"}, pc'[c] = "closeNext",
           OnlyMoves(c), pc' \in [Callers -> Pc], writer' \in Callers \cup {Nobody},
           UNCHANGED <<topics, made, icClosed, call, held, calls, raced>>,
           closing' \subseteq closing \cup {topics[n] : n \in Names}, closing' \subseteq Made
    PROVE  RInv'
<1>0. TypeOK /\ HolderInv(c)
  BY DEF RInv
<1>1. TypeOK'
  BY <1>0 DEF TypeOK, Made
<1>2. NamesInv'
  BY DEF RInv, NamesInv
<1>3. TopicsUnique' /\ StaysEmpty'
  <2>1. icClosed
    BY <1>0 DEF HolderInv, Closing
  <2> QED
    BY <2>1 DEF TopicsUnique, StaysEmpty, Closing
<1>4. ASSUME NEW d \in Callers PROVE HolderInv(d)'
  <2>1. CASE d = c
    BY <1>0, <2>1 DEF HolderInv, Closing, Creating
  <2>2. CASE d # c
    <3>1. pc'[d] = pc[d] /\ held'[d] = held[d] /\ call'[d] = call[d] /\ HolderInv(d)
      BY <2>2 DEF OnlyMoves, RInv
    <3> QED
      BY <3>1 DEF HolderInv, Made
  <2> QED
    BY <2>1, <2>2
<1>5. ASSUME NEW d \in Callers, NEW e \in Callers, d # e PROVE PairInv(d, e)'
  <2>1. PairInv(d, e)
    BY <1>5 DEF RInv
  <2>2. \A x \in {d, e} : \/ pc'[x] = pc[x]
                          \/ pc'[x] \notin Creating \cup {"await", "closeAwait", "delete"}
    BY DEF OnlyMoves, Creating
  <2> QED
    BY <2>1, <2>2 DEF PairInv, Creating
<1> QED
  BY <1>1, <1>2, <1>3, <1>4, <1>5 DEF RInv

LEMMA CloseLockInv ==
    ASSUME RInv, NEW c \in Callers, CloseLock(c)
    PROVE  RInv'
<1>0. TypeOK /\ "closeNext" \in Pc
  BY DEF RInv, Pc, Closing
<1>1. /\ pc[c] = "lock" /\ writer' \in Callers \cup {Nobody}
      /\ UNCHANGED <<topics, made, icClosed, call, held, calls, raced>>
  BY DEF CloseLock
<1>2. CallerTypes /\ OnlyMoves(c) /\ pc'[c] = "closeNext"
  BY <1>0, <1>1, GoesOn DEF CloseLock
<1>3. closing' \subseteq {topics[n] : n \in Names} \ {0}
  BY DEF CloseLock
<1>4. closing' \subseteq Made
  BY <1>0, <1>3, TopicAt
<1> QED
  BY <1>1, <1>2, <1>3, <1>4, BetweenTopics DEF CallerTypes

LEMMA CloseTopicInv ==
    ASSUME RInv, NEW c \in Callers, CloseTopic(c)
    PROVE  RInv'
<1>0. TypeOK /\ HolderInv(c) /\ pc[c] = "closeNext"
      /\ UNCHANGED <<topics, icClosed, writer, call, calls, raced>>
  BY DEF RInv, CloseTopic
<1>1. PICK t \in closing :
         /\ closing' = closing \ {t}
         /\ \/ SwapFree(t) /\ Mark(t, "closing") /\ Hold(c, t) /\ Goto(c, "closeAwait")
            \/ ~SwapFree(t) /\ UNCHANGED <<made, held, pc>>
  BY DEF CloseTopic
<1>2. t \in Made
  BY <1>0 DEF TypeOK
<1>3. CASE SwapFree(t) /\ Mark(t, "closing") /\ Hold(c, t) /\ Goto(c, "closeAwait")
  <2>1. CallerTypes /\ OnlyMoves(c) /\ pc'[c] = "closeAwait" /\ held'[c] = t
    BY <1>0, <1>2, <1>3 DEF TypeOK, Hold, Goto, CallerTypes, OnlyMoves, Pc, Closing
  <2>2. \A d \in Callers \ {c} :
           pc[d] \in {"await", "closeAwait", "delete", "insert"} => held[d] # t
    <3>1. \A d \in Callers : pc[d] = "insert" => held[d] # t
      BY DEF RInv, HolderInv
    <3> QED
      BY <1>2, <1>3, <3>1, OpenIsFree
  <2>3. Len(made') = Len(made) /\ made'[t].state = "closing"
    BY <1>0, <1>2, <1>3, MarkTopic
  <2>4. HolderInv(c)'
    <3>1. Made' = Made
      BY <2>3 DEF Made
    <3> QED
      BY <1>0, <1>2, <2>1, <2>3, <3>1 DEF HolderInv, Closing, Creating
  <2> QED
    BY <1>0, <1>1, <1>2, <1>3, <2>1, <2>2, <2>4, MarkStep DEF Closing, Creating
<1>4. CASE ~SwapFree(t) /\ UNCHANGED <<made, held, pc>>
  <2>1. OnlyMoves(c) /\ pc'[c] = "closeNext" /\ pc' \in [Callers -> Pc]
        /\ writer' \in Callers \cup {Nobody} /\ closing' \subseteq closing
        /\ closing' \subseteq Made
    BY <1>0, <1>1, <1>4 DEF OnlyMoves, TypeOK
  <2> QED
    BY <1>0, <1>4, <2>1, BetweenTopics
<1> QED
  BY <1>1, <1>3, <1>4

LEMMA CloseAnsweredInv ==
    ASSUME RInv, NEW c \in Callers, CloseAnswered(c)
    PROVE  RInv'
<1>0. TypeOK /\ HolderInv(c) /\ pc[c] = "closeAwait" /\ "closeNext" \in Pc
  BY DEF RInv, CloseAnswered, Pc, Closing
<1>1. held[c] \in Made /\ Mark(held[c], "closed")
      /\ UNCHANGED <<topics, icClosed, writer, closing, calls, raced>>
  BY <1>0 DEF HolderInv, CloseAnswered
<1>2. CallerTypes /\ OnlyMoves(c) /\ pc'[c] = "closeNext" /\ held'[c] = held[c]
  BY <1>0, GoesOn DEF CloseAnswered
<1>3. \A d \in Callers \ {c} :
         pc[d] \in {"await", "closeAwait", "delete", "insert"} => held[d] # held[c]
  BY <1>0 DEF RInv, PairInv
<1>4. HolderInv(c)'
  BY <1>0, <1>1, <1>2 DEF HolderInv, Closing, Creating
<1> QED
  BY <1>0, <1>1, <1>2, <1>3, <1>4, MarkStep DEF Closing, Creating

LEMMA CloseDoneInv ==
    ASSUME RInv, NEW c \in Callers, CloseDone(c)
    PROVE  RInv'
<1>0. TypeOK /\ HolderInv(c) /\ pc[c] = "closeNext" /\ icClosed
  BY DEF RInv, CloseDone, HolderInv, Closing
<1>1. /\ topics' = [n \in Names |-> 0] /\ writer' \in Callers \cup {Nobody}
      /\ UNCHANGED <<made, icClosed, closing, calls, raced>>
  BY DEF CloseDone
<1>2. CallerTypes /\ OnlyMoves(c) /\ pc'[c] = "idle" /\ held'[c] = 0
  BY <1>0, Returned DEF CloseDone
<1>3. TypeOK' /\ NamesInv' /\ TopicsUnique' /\ StaysEmpty'
  BY <1>0, <1>1, <1>2 DEF TypeOK, CallerTypes, Made, NamesInv, TopicsUnique, StaysEmpty
<1>4. ASSUME NEW d \in Callers PROVE HolderInv(d)'
  <2>1. CASE d = c
    BY <1>2, <2>1 DEF HolderInv, Closing, Creating
  <2>2. CASE d # c
    <3>1. pc'[d] = pc[d] /\ held'[d] = held[d] /\ call'[d] = call[d] /\ HolderInv(d)
          /\ call[d].name \in Names
      BY <1>0, <1>2, <2>2 DEF OnlyMoves, RInv, TypeOK, Args
    <3>2. pc[d] = "insert" => held[d] # 0
      BY <3>1 DEF HolderInv, Made
    <3>3. Made' = Made /\ \A n \in Names : topics'[n] = 0
      BY <1>1 DEF Made
    <3> QED
      BY <1>0, <1>1, <3>1, <3>2, <3>3 DEF HolderInv
  <2> QED
    BY <2>1, <2>2
<1>5. \A d, e \in Callers : d # e => PairInv(d, e)'
  BY <1>1, ReturnKeepsPairs DEF CloseDone
<1> QED
  BY <1>3, <1>4, <1>5 DEF RInv

-----------------------------------------------------------------------------
LEMMA RInvInit == Init => RInv
<1> SUFFICES ASSUME Init PROVE RInv
  OBVIOUS
<1>1. TypeOK
  <2>1. made \in Seq(MadeTopic)
    BY DEF Init
  <2>2. call \in [Callers -> Args]
    BY NoArgsType DEF Init
  <2>3. pc \in [Callers -> Pc]
    BY DEF Init, Pc
  <2>4. topics \in [Names -> Made \cup {0}] /\ held \in [Callers -> Made \cup {0}]
    BY DEF Init
  <2>5. calls \in 0 .. MaxCalls
    BY RegistryAssumption DEF Init
  <2> QED
    BY <2>1, <2>2, <2>3, <2>4, <2>5 DEF Init, TypeOK
<1>2. NamesInv /\ TopicsUnique /\ StaysEmpty
  BY DEF Init, NamesInv, TopicsUnique, StaysEmpty, Made
<1>3. \A c \in Callers : HolderInv(c)
  BY DEF Init, HolderInv, Closing, Creating
<1>4. \A c, d \in Callers : PairInv(c, d)
  BY DEF Init, PairInv, Creating
<1> QED
  BY <1>1, <1>2, <1>3, <1>4 DEF RInv

LEMMA RInvStep == RInv /\ [Next]_vars => RInv'
<1> SUFFICES ASSUME RInv, [Next]_vars PROVE RInv'
  OBVIOUS
<1>1. ASSUME NEW c \in Callers,
             \/ CallCreateTopic(c) \/ CallRemoveTopic(c) \/ CallClose(c)
             \/ CallCreateSubscription(c) \/ CallRemoveSubscription(c)
             \/ PollGivesUp(c) \/ UseTopic(c) \/ RemoveAnswered(c)
             \/ CloseAnswered(c) \/ CallStep(c)
      PROVE  RInv'
  BY <1>1, QuietActions, CallCreateTopicInv, LookupAbsentInv, InsertInv, DeleteInv,
     RemoveClosesInv, RemoveAnsweredInv, CallCloseInv, CloseLockInv, CloseTopicInv,
     CloseAnsweredInv, CloseDoneInv DEF CallStep
<1>2. CASE UNCHANGED vars
  <2>1. UNCHANGED <<topics, made, icClosed, writer, closing, pc, call, held, calls, raced>>
    BY <1>2 DEF vars, registryVars, callerVars
  <2>2. TypeOK' /\ NamesInv'
    BY <2>1 DEF RInv, TypeOK, NamesInv, Made
  <2>3. TopicsUnique' /\ StaysEmpty'
    BY <2>1 DEF RInv, TopicsUnique, StaysEmpty, Made
  <2>4. \A c \in Callers : HolderInv(c)'
    BY <2>1 DEF RInv, HolderInv, Made
  <2>5. \A c, d \in Callers : c # d => PairInv(c, d)'
    BY <2>1 DEF RInv, PairInv
  <2> QED
    BY <2>2, <2>3, <2>4, <2>5 DEF RInv
<1> QED
  BY <1>1, <1>2 DEF Next

(* The inductive invariant of the registry. *)
THEOREM RegistryInvariance == Spec => []RInv
BY RInvInit, RInvStep, PTL DEF Spec

(* Every variable of the registry has its type (intracom.go). *)
THEOREM RegistryTypeCorrect == Spec => []TypeOK
<1>1. RInv => TypeOK
  BY DEF RInv
<1> QED
  BY <1>1, RegistryInvariance, PTL

(* However RemoveTopic calls and Close interleave, no topic's channels are  *)
(* closed twice (intracom.go:96, 211 and topic.go:127). *)
THEOREM TopicsClosedOnce == Spec => []NoDoubleClose
<1>1. RInv => NoDoubleClose
  <2> SUFFICES ASSUME RInv, NEW t \in Made, NEW c \in Callers, NEW d \in Callers,
                      Awaiting(c, t)
               PROVE  made[t].state = "closing" /\ (Awaiting(d, t) => c = d)
    BY DEF NoDoubleClose
  <2>1. HolderInv(c) /\ (c # d => PairInv(c, d))
    BY DEF RInv
  <2> QED
    BY <2>1 DEF Awaiting, HolderInv, PairInv
<1> QED
  BY <1>1, RegistryInvariance, PTL

(* A name has one open topic, the one registered, as long as CreateTopic    *)
(* calls overlap neither each other nor Close (intracom.go:46). *)
THEOREM NamesUnique == Spec => []TopicsUnique
<1>1. RInv => TopicsUnique
  BY DEF RInv
<1> QED
  BY <1>1, RegistryInvariance, PTL

(* A registry that Close has emptied stays empty, unless a CreateTopic had  *)
(* passed its closed check before (intracom.go:52, 217). *)
THEOREM ClosedStaysEmpty == Spec => []StaysEmpty
<1>1. RInv => StaysEmpty
  BY DEF RInv
<1> QED
  BY <1>1, RegistryInvariance, PTL

-----------------------------------------------------------------------------
(* The lock.                                                                *)

LockInv == CloseHoldsMap /\ (writer = Nobody => closing = {})

(* Steps of callers that neither begin nor end a part of Close. *)
LEMMA OutsideClose ==
    ASSUME RInv, LockInv, NEW c \in Callers, UNCHANGED <<writer, closing>>,
           NEW l \in Pc \ Closing, pc[c] \notin Closing,
           pc' = [pc EXCEPT ![c] = l],
           writer # Nobody => UNCHANGED topics
    PROVE  LockInv'
<1>1. pc \in [Callers -> Pc] /\ writer \in Callers \cup {Nobody}
  BY DEF RInv, TypeOK
<1>2. pc'[c] = l /\ \A d \in Callers \ {c} : pc'[d] = pc[d]
  BY <1>1
<1>3. \A d \in Callers : pc'[d] \in Closing => pc[d] \in Closing
  BY <1>2
<1>4. \A d \in Callers : pc'[d] \in {"closeNext", "closeAwait"} <=> writer = d
  BY <1>2 DEF LockInv, CloseHoldsMap, Closing
<1>5. \A d, e \in Callers : pc'[d] \in Closing /\ pc'[e] \in Closing => d = e
  BY <1>3 DEF LockInv, CloseHoldsMap
<1>6. \A t \in closing : \E n \in Names : topics'[n] = t
  BY DEF LockInv, CloseHoldsMap
<1> QED
  BY <1>4, <1>5, <1>6 DEF LockInv, CloseHoldsMap

(* The calls other than Close. *)
LEMMA OthersLockInv ==
    ASSUME RInv, LockInv, NEW c \in Callers,
           \/ CallCreateTopic(c) \/ CallRemoveTopic(c) \/ CallCreateSubscription(c)
           \/ CallRemoveSubscription(c) \/ PollGivesUp(c) \/ UseTopic(c)
           \/ LookupAbsent(c) \/ LookupFound(c) \/ Insert(c) \/ FindTopic(c)
           \/ RemoveCloses(c) \/ RemoveAnswered(c) \/ Delete(c)
           \/ PollRetry(c) \/ PollPeek(c) \/ FindSubscribed(c)
    PROVE  LockInv'
<1>1. /\ UNCHANGED <<writer, closing>> /\ pc[c] \notin Closing
      /\ writer # Nobody => UNCHANGED topics
  BY DEF Closing, registryVars, CallCreateTopic, CallRemoveTopic,
     CallCreateSubscription, CallRemoveSubscription, PollGivesUp, UseTopic, Begin,
     LookupAbsent, LookupFound, Insert, FindTopic, RemoveCloses, RemoveAnswered,
     Delete, PollRetry, PollPeek, FindSubscribed, Unlocked
<1>2. \E l \in Pc \ Closing : pc' = [pc EXCEPT ![c] = l]
  BY DEF Pc, Creating, Closing, Goto, Return, Resolve, AfterCloseFailed,
     RetryClosed, CallCreateTopic, CallRemoveTopic, CallCreateSubscription,
     CallRemoveSubscription, PollGivesUp, UseTopic, Begin, LookupAbsent,
     LookupFound, Insert, FindTopic, RemoveCloses, RemoveAnswered, Delete,
     PollRetry, PollPeek, FindSubscribed
<1> QED
  BY <1>1, <1>2, OutsideClose

(* Close. *)
LEMMA CloseLockInvs ==
    ASSUME RInv, LockInv, NEW c \in Callers,
           \/ CallClose(c) \/ CloseLock(c) \/ CloseTopic(c) \/ CloseAnswered(c)
           \/ CloseDone(c)
    PROVE  LockInv'
<1>0. /\ pc \in [Callers -> Pc] /\ writer \in Callers \cup {Nobody}
      /\ Nobody \notin Callers
  BY RegistryAssumption DEF RInv, TypeOK
<1>1. \A d \in Callers : pc[d] \in Closing => icClosed
  BY DEF RInv, HolderInv
<1> USE <1>0 DEF LockInv, CloseHoldsMap, Closing, Goto
<1>2. CASE CallClose(c)
  BY <1>1, <1>2 DEF CallClose
<1>3. CASE CloseLock(c)
  <2>1. /\ writer' = c /\ UNCHANGED topics /\ writer = Nobody
        /\ pc[c] = "lock" /\ pc' = [pc EXCEPT ![c] = "closeNext"]
        /\ \A t \in closing' : \E n \in Names : topics[n] = t
    BY <1>3 DEF CloseLock, Unlocked
  <2> QED
    BY <2>1
<1>4. CASE CloseTopic(c)
  <2>1. /\ pc[c] = "closeNext" /\ UNCHANGED <<topics, writer>>
        /\ closing' \subseteq closing
        /\ pc' = [pc EXCEPT ![c] = "closeAwait"] \/ pc' = pc
    BY <1>4 DEF CloseTopic
  <2> QED
    BY <2>1
<1>5. CASE CloseAnswered(c)
  BY <1>5 DEF CloseAnswered
<1>6. CASE CloseDone(c)
  BY <1>6 DEF CloseDone, Return
<1> QED
  BY <1>2, <1>3, <1>4, <1>5, <1>6

(* From reading the map to emptying it Close is alone (intracom.go:204):    *)
(* the steps that lead it to release its lock wait for no other lock, only  *)
(* for topics to close, and these are the registered ones.                  *)
THEOREM CloseIsAlone == Spec => []CloseHoldsMap
<1>1. Init => LockInv
  BY RegistryAssumption DEF Init, LockInv, CloseHoldsMap, Closing
<1>2. RInv /\ LockInv /\ [Next]_vars => LockInv'
  <2> SUFFICES ASSUME RInv, LockInv, [Next]_vars PROVE LockInv'
    OBVIOUS
  <2>1. CASE UNCHANGED vars
    BY <2>1 DEF vars, registryVars, callerVars, LockInv, CloseHoldsMap
  <2> QED
    BY <2>1, OthersLockInv, CloseLockInvs DEF Next, CallStep
<1>3. LockInv => CloseHoldsMap
  BY DEF LockInv
<1> QED
  BY <1>1, <1>2, <1>3, RegistryInvariance, PTL DEF Spec

-----------------------------------------------------------------------------
(* The entries of the map.                                                  *)

EntriesInv ==
    /\ EntriesUsable
    /\ \A c \in Callers : pc[c] = "insert" => made[held[c]].state = "open"

(* It is enough to look at the entries of topics that are no longer open    *)
(* after the step: caller c drops them, or never did.                       *)
LEMMA EntriesStep ==
    ASSUME EntriesUsable, NEW c \in Callers, OnlyMoves(c),
           \A n \in Names : topics'[n] # 0 /\ made'[topics'[n]].state # "open" =>
              \/ Drops(c, topics[n])'
              \/ /\ topics'[n] = topics[n] /\ made[topics[n]].state # "open"
                 /\ ~Drops(c, topics[n])
    PROVE  EntriesUsable'
BY DEF EntriesUsable, OnlyMoves, Drops

(* Steps that leave the topics alone, of a caller that drops nothing. *)
LEMMA IdleEntries ==
    ASSUME RInv, EntriesInv, NEW c \in Callers,
           \/ CallCreateTopic(c) \/ CallRemoveTopic(c) \/ CallClose(c)
           \/ CallCreateSubscription(c) \/ CallRemoveSubscription(c)
           \/ PollGivesUp(c) \/ UseTopic(c) \/ LookupFound(c) \/ FindTopic(c)
           \/ PollRetry(c) \/ PollPeek(c) \/ FindSubscribed(c) \/ CloseLock(c)
    PROVE  EntriesInv'
<1>0. TypeOK
  BY DEF RInv
<1>1. /\ UNCHANGED <<topics, made>>
      /\ pc[c] \notin {"await", "delete", "closeNext", "closeAwait"}
  BY DEF registryVars, CallCreateTopic, CallRemoveTopic, CallClose,
     CallCreateSubscription, CallRemoveSubscription, PollGivesUp, UseTopic, Begin,
     LookupFound, FindTopic, PollRetry, PollPeek, FindSubscribed, CloseLock
<1>2. OnlyMoves(c) /\ pc'[c] # "insert"
  BY <1>0 DEF TypeOK, OnlyMoves, Goto, Hold, Return, Resolve, RetryClosed,
     callerVars, CallCreateTopic, CallRemoveTopic, CallClose,
     CallCreateSubscription, CallRemoveSubscription, PollGivesUp, UseTopic, Begin,
     LookupFound, FindTopic, PollRetry, PollPeek, FindSubscribed, CloseLock
<1>3. EntriesUsable'
  BY <1>1, <1>2, EntriesStep DEF EntriesInv, Drops
<1> QED
  BY <1>1, <1>2, <1>3 DEF EntriesInv, OnlyMoves

(* A step that marks topic t, which c is closing and nobody is to insert. *)
LEMMA MarkEntries ==
    ASSUME RInv, EntriesInv, NEW c \in Callers, NEW t \in Made,
           NEW s \in {"closing", "closed"}, Mark(t, s), OnlyMoves(c),
           UNCHANGED topics, pc'[c] # "insert",
           \A d \in Callers \ {c} : pc[d] = "insert" => held[d] # t,
           \A u \in Made : Drops(c, u) => Drops(c, u)',
           Drops(c, t)'
    PROVE  EntriesInv'
<1>1. TypeOK
  BY DEF RInv
<1>2. \A u \in Made : u # t => made'[u].state = made[u].state
  BY <1>1, MarkTopic
<1>3. \A n \in Names : topics[n] # 0 => topics[n] \in Made
  BY <1>1, TopicAt
<1>4. EntriesUsable'
  <2> SUFFICES ASSUME NEW n \in Names, topics'[n] # 0, made'[topics'[n]].state # "open"
               PROVE  \E d \in Callers : Drops(d, topics[n])'
    BY DEF EntriesUsable
  <2>1. CASE topics[n] = t
    BY <2>1
  <2>2. CASE topics[n] # t
    <3>1. PICK d \in Callers : Drops(d, topics[n])
      BY <1>2, <1>3, <2>2 DEF EntriesInv, EntriesUsable
    <3> QED
      BY <1>3, <3>1 DEF OnlyMoves, Drops
  <2> QED
    BY <2>1, <2>2
<1>5. ASSUME NEW d \in Callers, pc'[d] = "insert" PROVE made'[held'[d]].state = "open"
  <2>1. d # c /\ pc[d] = "insert" /\ held'[d] = held[d] /\ held[d] # t
    BY <1>5 DEF OnlyMoves
  <2>2. held[d] \in Made /\ made[held[d]].state = "open"
    BY <2>1 DEF RInv, HolderInv, EntriesInv
  <2> QED
    BY <1>2, <2>1, <2>2
<1> QED
  BY <1>4, <1>5 DEF EntriesInv

LEMMA ClosingEntries ==
    ASSUME RInv, EntriesInv, NEW c \in Callers,
           RemoveCloses(c) \/ RemoveAnswered(c) \/ CloseTopic(c) \/ CloseAnswered(c)
    PROVE  EntriesInv'
<1>0. TypeOK /\ HolderInv(c)
  BY DEF RInv
<1>1. \A d \in Callers \ {c} : pc[d] = "insert" => held[d] # held[c]
  BY DEF RInv, PairInv
<1>2. CASE RemoveCloses(c)
  <2>1. pc[c] = "close" /\ held[c] \in Made /\ UNCHANGED topics
    BY <1>0, <1>2 DEF RemoveCloses, HolderInv
  <2>2. CASE Mark(held[c], "closing") /\ Goto(c, "await") /\ UNCHANGED <<held, call>>
    <3>1. OnlyMoves(c) /\ pc'[c] = "await" /\ held'[c] = held[c]
      BY <1>0, <2>2 DEF TypeOK, OnlyMoves, Goto
    <3>2. Drops(c, held[c])' /\ \A u \in Made : ~Drops(c, u)
      BY <2>1, <3>1 DEF Drops
    <3> HIDE DEF Mark, Drops
    <3> QED
      BY <1>1, <2>1, <2>2, <3>1, <3>2, MarkEntries
  <2>3. CASE Return(c) /\ UNCHANGED made
    <3>1. OnlyMoves(c) /\ pc'[c] = "idle"
      BY <1>0, <2>3 DEF TypeOK, OnlyMoves, Return, Goto, Hold
    <3>2. EntriesUsable'
      BY <2>1, <2>3, <3>1, EntriesStep DEF EntriesInv, Drops
    <3> QED
      BY <2>3, <3>1, <3>2 DEF EntriesInv, OnlyMoves
  <2> QED
    BY <1>2, <2>2, <2>3 DEF RemoveCloses, AfterCloseFailed
<1>3. CASE RemoveAnswered(c)
  <2>1. /\ pc[c] = "await" /\ held[c] \in Made /\ UNCHANGED <<topics, held>>
        /\ Mark(held[c], "closed") /\ OnlyMoves(c) /\ pc'[c] = "delete"
    BY <1>0, <1>3 DEF RemoveAnswered, HolderInv, TypeOK, OnlyMoves, Goto
  <2>2. Drops(c, held[c])' /\ \A u \in Made : Drops(c, u) => Drops(c, u)'
    BY <2>1 DEF Drops
  <2> HIDE DEF Mark, Drops
  <2> QED
    BY <1>1, <2>1, <2>2, MarkEntries
<1>4. CASE CloseAnswered(c)
  <2>1. /\ held[c] \in Made /\ UNCHANGED <<topics, held>>
        /\ Mark(held[c], "closed") /\ OnlyMoves(c) /\ pc'[c] = "closeNext"
    BY <1>0, <1>4 DEF CloseAnswered, HolderInv, TypeOK, OnlyMoves, Goto
  <2>2. \A u \in Made : Drops(c, u)'
    BY <2>1 DEF Drops
  <2> HIDE DEF Mark, Drops
  <2> QED
    BY <1>1, <2>1, <2>2, MarkEntries
<1>5. CASE CloseTopic(c)
  <2>1. PICK t \in closing :
           \/ SwapFree(t) /\ Mark(t, "closing") /\ Hold(c, t) /\ Goto(c, "closeAwait")
           \/ ~SwapFree(t) /\ UNCHANGED <<made, held, pc>>
    BY <1>5 DEF CloseTopic
  <2>2. UNCHANGED <<topics, call>> /\ t \in Made
    BY <1>0, <1>5 DEF CloseTopic, TypeOK
  <2>3. \A d \in Callers : pc[d] = "insert" => held[d] # t
    BY DEF RInv, HolderInv
  <2>4. CASE Mark(t, "closing") /\ Hold(c, t) /\ Goto(c, "closeAwait")
    <3>1. OnlyMoves(c) /\ pc'[c] = "closeAwait"
      BY <1>0, <2>2, <2>4 DEF TypeOK, OnlyMoves, Goto, Hold
    <3>2. \A u \in Made : Drops(c, u)'
      BY <3>1 DEF Drops
    <3> HIDE DEF Mark, Drops
    <3> QED
      BY <2>2, <2>3, <2>4, <3>1, <3>2, MarkEntries
  <2>5. CASE UNCHANGED <<made, held, pc>>
    BY <2>2, <2>5 DEF EntriesInv, EntriesUsable, Drops
  <2> QED
    BY <2>1, <2>4, <2>5
<1> QED
  BY <1>2, <1>3, <1>4, <1>5

LEMMA MapEntries ==
    ASSUME RInv, EntriesInv, NEW c \in Callers,
           LookupAbsent(c) \/ Insert(c) \/ Delete(c) \/ CloseDone(c)
    PROVE  EntriesInv'
<1>0. TypeOK /\ HolderInv(c) /\ call[c].name \in Names
  BY DEF RInv, TypeOK, Args
<1>1. OnlyMoves(c)
  BY <1>0 DEF TypeOK, OnlyMoves, Goto, Hold, Return, LookupAbsent, Insert, Delete,
     CloseDone
<1>2. CASE LookupAbsent(c)
  <2>1. /\ UNCHANGED topics /\ NewTopic(c) /\ pc[c] = "lookup"
        /\ held'[c] = Len(made) + 1
    BY <1>0, <1>2 DEF LookupAbsent, TypeOK, Hold
  <2>2. /\ \A u \in Made : made'[u] = made[u]
        /\ made'[Len(made) + 1].state = "open"
    BY <1>0, <2>1, NewTopicMade
  <2>3. EntriesUsable'
    BY <1>0, <1>1, <2>1, <2>2, TopicAt, EntriesStep DEF EntriesInv, Drops
  <2>4. ASSUME NEW d \in Callers, pc'[d] = "insert" PROVE made'[held'[d]].state = "open"
    <3>1. CASE d # c
      BY <1>1, <2>2, <2>4, <3>1 DEF OnlyMoves, RInv, HolderInv, EntriesInv
    <3> QED
      BY <2>1, <2>2, <3>1
  <2> QED
    BY <2>3, <2>4 DEF EntriesInv
<1>3. ASSUME UNCHANGED made, pc'[c] = "idle", EntriesUsable' PROVE EntriesInv'
  BY <1>1, <1>3 DEF EntriesInv, OnlyMoves
<1>4. CASE Insert(c)
  <2>1. /\ UNCHANGED made /\ pc'[c] = "idle" /\ pc[c] = "insert"
        /\ topics' = [topics EXCEPT ![call[c].name] = held[c]]
    BY <1>0, <1>4 DEF Insert, Return, Goto, TypeOK
  <2>2. made[held[c]].state = "open"
    BY <2>1 DEF EntriesInv
  <2>3. \A n \in Names : topics'[n] = held[c] \/ topics'[n] = topics[n]
    BY <1>0, <2>1 DEF TypeOK
  <2>4. EntriesUsable'
    BY <1>1, <2>1, <2>2, <2>3, EntriesStep DEF EntriesInv, Drops
  <2> QED
    BY <1>3, <2>1, <2>4
<1>5. CASE Delete(c)
  <2>1. /\ UNCHANGED made /\ pc'[c] = "idle" /\ pc[c] = "delete"
        /\ topics' = [topics EXCEPT ![call[c].name] = 0]
        /\ made[held[c]].name = call[c].name
    BY <1>0, <1>5 DEF Delete, Return, Goto, TypeOK, HolderInv
  <2>2. \A n \in Names : topics'[n] # 0 => topics'[n] = topics[n] /\ n # call[c].name
    BY <1>0, <2>1 DEF TypeOK
  <2>3. \A n \in Names : topics'[n] # 0 => topics[n] # held[c]
    BY <2>1, <2>2 DEF RInv, NamesInv
  <2>4. EntriesUsable'
    BY <1>1, <2>1, <2>2, <2>3, EntriesStep DEF EntriesInv, Drops
  <2> QED
    BY <1>3, <2>1, <2>4
<1>6. CASE CloseDone(c)
  <2>1. /\ UNCHANGED made /\ pc'[c] = "idle"
        /\ \A n \in Names : topics'[n] = 0
    BY <1>0, <1>6 DEF CloseDone, Return, Goto, TypeOK
  <2> QED
    BY <1>3, <2>1 DEF EntriesUsable
<1> QED
  BY <1>2, <1>4, <1>5, <1>6

(* Whatever calls overlap, a name leads to a topic that is not open only    *)
(* while the RemoveTopic or the Close that drops the entry is in progress   *)
(* (intracom.go:96-102, 204-217).                                           *)
THEOREM NoDeadEntries == Spec => []EntriesUsable
<1>1. Init => EntriesInv
  BY DEF Init, EntriesInv, EntriesUsable
<1>2. RInv /\ EntriesInv /\ [Next]_vars => EntriesInv'
  <2> SUFFICES ASSUME RInv, EntriesInv, [Next]_vars PROVE EntriesInv'
    OBVIOUS
  <2>1. CASE UNCHANGED vars
    BY <2>1 DEF vars, registryVars, callerVars, EntriesInv, EntriesUsable, Drops
  <2> QED
    BY <2>1, IdleEntries, ClosingEntries, MapEntries DEF Next, CallStep
<1>3. EntriesInv => EntriesUsable
  BY DEF EntriesInv
<1> QED
  BY <1>1, <1>2, <1>3, RegistryInvariance, PTL DEF Spec
=============================================================================
