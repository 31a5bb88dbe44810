-------------------------- MODULE LifecycleProofs ---------------------------
(***************************************************************************)
(* The daemon implements Lifecycle twice: in what its managers send, and   *)
(* in what its states watcher publishes.  IInv of DaemonProofs is          *)
(* strengthened with LoopInv (the state about to be sent follows the one   *)
(* sent last) and QueueInv (so does every update in the channel).          *)
(***************************************************************************)
EXTENDS DaemonProofs

(* A manager's switch chooses a state that may follow. *)
LEMMA NextFollows ==
    ASSUME NEW m \in Managers, NEW st \in State \ {"exit"}, NEW failed \in BOOLEAN
    PROVE  NextState(m, st, failed) \in Sent!Follows(m, st)
BY DEF NextState, Sent!Follows, State, Managers

(* A goroutine's own steps keep the state it is about to send a follower.   *)
LEMMA ManageLoopInv ==
    ASSUME TypeOK, NEW s \in Services, SentInv(s), LoopInv(s), ManageStep(s)
    PROVE  LoopInv(s)'
<1> USE Constants DEF TypeOK, LoopInv, Goto
<1>1. CASE StartupTickerPanics(s)
  BY <1>1 DEF StartupTickerPanics, Panic, RecoverPoint
<1>2. CASE StartupCancelled(s)
  BY <1>2 DEF StartupCancelled, LoopPoint, history
<1>3. CASE StartupTick(s)
  BY <1>3 DEF StartupTick
<1>4. ASSUME AfterFirstInit(s), pc[s] \in {"firstInit", "logInit"}, pushed' = pushed
      PROVE  LoopInv(s)'
  <2>1. pushed[s] = "none" /\ Manager[s] = "RunUntilSuccess"
    BY <1>4 DEF SentInv
  <2>2. state'[s] = "idle" /\ pc'[s] \in {"push", "logPanic"}
    BY <1>4, <2>1 DEF AfterFirstInit, Panic, RecoverPoint
  <2> QED
    BY <1>4, <2>1, <2>2 DEF Sent!Follows
<1>5. CASE FirstInitReturns(s)
  <2>1. CASE AfterFirstInit(s)
    BY <1>4, <1>5, <2>1 DEF FirstInitReturns
  <2>2. CASE ~AfterFirstInit(s)
    BY <1>5, <2>2 DEF FirstInitReturns, Panic, RecoverPoint
  <2> QED
    BY <2>1, <2>2
<1>6. CASE PushState(s)
  BY <1>6 DEF PushState
<1>7. CASE SelectDone(s)
  BY <1>7 DEF SelectDone, LoopPoint, history
<1>8. CASE SelectTimer(s)
  BY <1>8 DEF SelectTimer
<1>9. CASE CallReturns(s)
  <2>1. state[s] \in State \ {"exit"} /\ pushed[s] = state[s]
    BY <1>9 DEF CallReturns, SentInv
  <2>2. PICK failed \in BOOLEAN : state'[s] = NextState(Manager[s], state[s], failed)
    BY <1>9 DEF CallReturns
  <2>3. state'[s] \in Sent!Follows(Manager[s], pushed[s])
    BY <2>1, <2>2, NextFollows
  <2>4. pc'[s] \in {"log", "push", "exiting"} /\ pushed' = pushed
    BY <1>9 DEF CallReturns, LoopPoint
  <2> QED
    BY <2>3, <2>4
<1>10. CASE CallPanics(s)
  BY <1>10 DEF CallPanics, Panic, RecoverPoint
<1>11. CASE LeaveLoop(s)
  BY <1>11 DEF LeaveLoop, history
<1>12. CASE FinalStopReturns(s)
  BY <1>12 DEF FinalStopReturns
<1>13. CASE PushExit(s)
  BY <1>13 DEF PushExit
<1>14. CASE RecoverPanic(s)
  BY <1>14 DEF RecoverPanic
<1>15. CASE WgDone(s)
  BY <1>15 DEF WgDone, history
<1>16. CASE Log(s)
  <2>1. CASE pc[s] = "logInit"
    BY <1>4, <1>16, <2>1 DEF Log
  <2>2. CASE pc[s] # "logInit"
    BY <1>16, <2>2 DEF Log
  <2> QED
    BY <2>1, <2>2
<1> QED
  BY <1>1, <1>2, <1>3, <1>5, <1>6, <1>7, <1>8, <1>9, <1>10, <1>11, <1>12,
     <1>13, <1>14, <1>15, <1>16
  DEF ManageStep

-----------------------------------------------------------------------------
(* What is received does not change when an update is sent. *)
LEMMA SendReceived ==
    ASSUME TypeOK, NEW s \in Services, NEW st \in State, Send(s, st),
           UNCHANGED states, pushed[s] # "exit", NEW t \in Services
    PROVE  Received'[t] = Received[t]
<1> DEFINE n == Len(updateC)
<1>1. /\ n \in Nat /\ Len(updateC') = n + 1
      /\ \A i \in 1 .. n : updateC'[i] = updateC[i]
      /\ updateC'[n + 1].name = s
  BY DEF TypeOK, Send, UpdateRoom, StateUpdate
<1> HIDE DEF n
<1>2. t # s => pushed'[t] = pushed[t]
  BY DEF Send, UpdateRoom, TypeOK
<1>3. CASE t = s
  <2>1. ~Exited(t)
    BY <1>3 DEF Exited
  <2>2. ~Exited(t)'
    <3>1. n + 1 \in 1 .. Len(updateC')
      BY <1>1
    <3> QED
      BY <1>1, <1>3, <3>1 DEF Exited
  <2> QED
    BY <2>1, <2>2 DEF Received
<1>4. CASE t # s
  <2>1. (\A i \in 1 .. Len(updateC') : updateC'[i].name # t)
          <=> (\A i \in 1 .. n : updateC[i].name # t)
    <3>1. ASSUME \A i \in 1 .. n : updateC[i].name # t, NEW i \in 1 .. Len(updateC')
          PROVE  updateC'[i].name # t
      <4>1. CASE i \in 1 .. n
        BY <1>1, <3>1, <4>1
      <4>2. CASE i = n + 1
        BY <1>1, <1>4, <4>2
      <4> QED
        BY <1>1, <4>1, <4>2
    <3>2. ASSUME \A i \in 1 .. Len(updateC') : updateC'[i].name # t, NEW i \in 1 .. n
          PROVE  updateC[i].name # t
      BY <1>1, <3>2
    <3> QED
      BY <3>1, <3>2
  <2>2. Exited(t)' <=> Exited(t)
    BY <1>2, <1>4, <2>1 DEF Exited, n
  <2> QED
    BY <2>2 DEF Received
<1> QED
  BY <1>3, <1>4

(* An update that follows the last one sent joins the chain at its end. *)
LEMMA SendQueue ==
    ASSUME TypeOK, NEW s \in Services, NEW st \in State, Send(s, st),
           UNCHANGED states, pushed[s] # "exit",
           st \in Sent!Follows(Manager[s], pushed[s]),
           NEW t \in Services, ViewInv(t), QueueInv(t)
    PROVE  QueueInv(t)'
<1> DEFINE n == Len(updateC)
           u == [name |-> s, state |-> st]
<1>1. /\ n \in Nat /\ Len(updateC') = n + 1
      /\ \A i \in 1 .. n : updateC'[i] = updateC[i]
      /\ updateC'[n + 1] = u
  BY DEF TypeOK, Send, UpdateRoom, StateUpdate
<1>2. pushed'[s] = st /\ (t # s => pushed'[t] = pushed[t])
  BY DEF Send, UpdateRoom, TypeOK
<1>3. Received'[t] = Received[t]
  BY SendReceived
<1> DEFINE F(x) == Sent!Follows(Manager[t], x)
<1>4. /\ pushed[t] = "none" => states[t] = "exit"
      /\ \A j \in 1 .. n :
            updateC[j].name = t /\ (\A k \in 1 .. j - 1 : updateC[k].name # t) =>
                updateC[j].state \in F(Received[t])
      /\ \A i, j \in 1 .. n :
            /\ i < j /\ updateC[i].name = t /\ updateC[j].name = t
            /\ \A k \in i + 1 .. j - 1 : updateC[k].name # t
            => updateC[j].state \in F(updateC[i].state)
      /\ \A i \in 1 .. n :
            updateC[i] = [name |-> t, state |-> "exit"] =>
                /\ pushed[t] = "exit"
                /\ \A k \in i + 1 .. n : updateC[k].name # t
  BY DEF QueueInv
<1>5. \/ \E i \in 1 .. n :
            /\ updateC[i] = [name |-> t, state |-> pushed[t]]
            /\ \A j \in (i + 1) .. n : updateC[j].name # t
      \/ /\ \A i \in 1 .. n : updateC[i].name # t
         /\ pushed[t] \in {"none", states[t]}
  BY DEF ViewInv
<1> HIDE DEF n, F
<1>6. pushed'[t] = "none" => states'[t] = "exit"
  BY <1>2, <1>4 DEF State
<1>7. ASSUME NEW j \in 1 .. Len(updateC'), updateC'[j].name = t,
             \A k \in 1 .. j - 1 : updateC'[k].name # t
      PROVE  updateC'[j].state \in F(Received'[t])
  <2>1. CASE j \in 1 .. n
    <3>1. \A k \in 1 .. j - 1 : updateC[k].name # t
      BY <1>1, <1>7, <2>1
    <3> QED
      BY <1>1, <1>3, <1>4, <1>7, <2>1, <3>1
  <2>2. CASE j = n + 1
    <3>1. t = s /\ updateC'[j].state = st
      BY <1>1, <1>7, <2>2
    <3>2. \A i \in 1 .. n : updateC[i].name # t
      BY <1>1, <1>7, <2>2
    <3>3. pushed[t] \in {"none", states[t]}
      BY <1>5, <3>2
    <3>4. Received[t] = pushed[t]
      BY <1>4, <3>1, <3>3 DEF Received, Exited
    <3> QED
      BY <1>3, <3>1, <3>4 DEF F
  <2> QED
    BY <1>1, <2>1, <2>2
<1>8. ASSUME NEW i \in 1 .. Len(updateC'), NEW j \in 1 .. Len(updateC'),
             i < j, updateC'[i].name = t, updateC'[j].name = t,
             \A k \in i + 1 .. j - 1 : updateC'[k].name # t
      PROVE  updateC'[j].state \in F(updateC'[i].state)
  <2>0. i \in 1 .. n /\ updateC'[i] = updateC[i]
    BY <1>1, <1>8
  <2>1. CASE j \in 1 .. n
    <3>1. \A k \in i + 1 .. j - 1 : updateC[k].name # t
      BY <1>1, <1>8, <2>0, <2>1
    <3>2. updateC'[j] = updateC[j]
      BY <1>1, <2>1
    <3> QED
      BY <1>4, <1>8, <2>0, <2>1, <3>1, <3>2
  <2>2. CASE j = n + 1
    <3>1. t = s /\ updateC'[j].state = st
      BY <1>1, <1>8, <2>2
    <3>2. \A k \in i + 1 .. n : updateC[k].name # t
      BY <1>1, <1>8, <2>0, <2>2
    <3>3. PICK h \in 1 .. n :
            /\ updateC[h] = [name |-> t, state |-> pushed[t]]
            /\ \A k \in (h + 1) .. n : updateC[k].name # t
      BY <1>5, <1>8, <2>0
    <3>4. h = i
      BY <1>1, <1>8, <2>0, <3>2, <3>3
    <3> QED
      BY <2>0, <3>1, <3>3, <3>4 DEF F
  <2> QED
    BY <1>1, <2>1, <2>2
<1>9. ASSUME NEW i \in 1 .. Len(updateC'),
              updateC'[i] = [name |-> t, state |-> "exit"]
       PROVE  /\ pushed'[t] = "exit"
              /\ \A k \in i + 1 .. Len(updateC') : updateC'[k].name # t
  <2>1. CASE i \in 1 .. n
    <3>1. pushed[t] = "exit" /\ \A k \in i + 1 .. n : updateC[k].name # t
      BY <1>1, <1>4, <1>9, <2>1
    <3>2. t # s
      BY <3>1
    <3>3. ASSUME NEW k \in i + 1 .. Len(updateC') PROVE updateC'[k].name # t
      <4>1. CASE k \in i + 1 .. n
        BY <1>1, <2>1, <3>1, <4>1
      <4>2. CASE k = n + 1
        BY <1>1, <3>2, <4>2
      <4> QED
        BY <1>1, <4>1, <4>2
    <3> QED
      BY <1>2, <3>1, <3>2, <3>3
  <2>2. CASE i = n + 1
    <3>1. t = s /\ st = "exit"
      BY <1>1, <1>9, <2>2
    <3>2. \A k \in i + 1 .. Len(updateC') : updateC'[k].name # t
      BY <1>1, <2>2
    <3> QED
      BY <1>2, <3>1, <3>2
  <2> QED
    BY <1>1, <2>1, <2>2
<1> QED
  BY <1>6, <1>7, <1>8, <1>9 DEF QueueInv, F

(* Taking the oldest update shifts the others by one. *)
LEMMA ReceiveShift ==
    ASSUME TypeOK, ReceiveUpdate
    PROVE  /\ Len(updateC) \in Nat /\ Len(updateC) > 0
           /\ Len(updateC') = Len(updateC) - 1
           /\ \A i \in 1 .. Len(updateC) - 1 : updateC'[i] = updateC[i + 1]
           /\ updateC[1] \in StateUpdate
           /\ states' = [states EXCEPT ![updateC[1].name] = updateC[1].state]
           /\ pushed' = pushed
<1>1. updateC \in Seq(StateUpdate) /\ updateC # <<>> /\ updateC' = Tail(updateC)
  BY DEF TypeOK, ReceiveUpdate
<1>2. Len(updateC) \in Nat /\ Len(updateC) > 0
  BY <1>1
<1>3. Len(updateC') = Len(updateC) - 1
  BY <1>1
<1>4. \A i \in 1 .. Len(updateC) - 1 : updateC'[i] = updateC[i + 1]
  BY <1>1
<1>5. Head(updateC) = updateC[1] /\ updateC[1] \in StateUpdate
  BY <1>1, <1>2
<1> QED
  BY <1>2, <1>3, <1>4, <1>5 DEF ReceiveUpdate, history

(* The service whose update is taken is then known by that update, and no   *)
(* other service by another one.                                            *)
LEMMA ReceiveReceived ==
    ASSUME TypeOK, ReceiveUpdate, NEW t \in Services, QueueInv(t)
    PROVE  /\ updateC[1].name # t => Received'[t] = Received[t]
           /\ updateC[1].name = t =>
                 /\ Received[t] # "exit"
                 /\ Received'[t] = updateC[1].state
                 /\ updateC[1].state \in Sent!Follows(Manager[t], Received[t])
<1> DEFINE n == Len(updateC)
<1>1. /\ n \in Nat /\ n > 0 /\ Len(updateC') = n - 1
      /\ \A i \in 1 .. n - 1 : updateC'[i] = updateC[i + 1]
      /\ updateC[1] \in StateUpdate
      /\ states' = [states EXCEPT ![updateC[1].name] = updateC[1].state]
      /\ pushed' = pushed
  BY ReceiveShift
<1>2. /\ updateC[1].name = t => states'[t] = updateC[1].state
      /\ updateC[1].name # t => states'[t] = states[t]
  BY <1>1 DEF TypeOK, StateUpdate
<1> HIDE DEF n
<1>3. CASE updateC[1].name # t
  <2>1. (\A i \in 1 .. Len(updateC') : updateC'[i].name # t)
          <=> (\A i \in 1 .. n : updateC[i].name # t)
    <3>1. ASSUME \A i \in 1 .. n : updateC[i].name # t, NEW i \in 1 .. Len(updateC')
          PROVE  updateC'[i].name # t
      BY <1>1, <3>1
    <3>2. ASSUME \A i \in 1 .. Len(updateC') : updateC'[i].name # t, NEW i \in 1 .. n
          PROVE  updateC[i].name # t
      <4>1. CASE i = 1
        BY <1>3, <4>1
      <4>2. CASE i > 1
        <5>1. i - 1 \in 1 .. n - 1 /\ (i - 1) + 1 = i
          BY <1>1, <4>2
        <5> QED
          BY <1>1, <3>2, <5>1
      <4> QED
        BY <4>1, <4>2
    <3> QED
      BY <3>1, <3>2
  <2>2. Exited(t)' <=> Exited(t)
    BY <1>1, <2>1 DEF Exited, n
  <2> QED
    BY <1>2, <1>3, <2>2 DEF Received
<1>4. CASE updateC[1].name = t
  <2>1. ~Exited(t)
    <3>1. 1 \in 1 .. n
      BY <1>1
    <3> QED
      BY <1>4, <3>1 DEF Exited, n
  <2>2. Received[t] # "exit"
    BY <2>1 DEF Received
  <2>3. updateC[1].state \in Sent!Follows(Manager[t], Received[t])
    <3>1. 1 \in 1 .. n /\ \A k \in 1 .. 1 - 1 : updateC[k].name # t
      BY <1>1
    <3> QED
      BY <1>4, <3>1 DEF QueueInv, n
  <2>4. CASE updateC[1].state # "exit"
    BY <1>2, <1>4, <2>2, <2>3, <2>4 DEF Received
  <2>5. CASE updateC[1].state = "exit"
    <3>1. updateC[1] = [name |-> t, state |-> "exit"]
      BY <1>1, <1>4, <2>5 DEF StateUpdate
    <3>2. 1 \in 1 .. n
      BY <1>1
    <3>3. pushed[t] = "exit" /\ \A k \in 1 + 1 .. n : updateC[k].name # t
      BY <3>1, <3>2 DEF QueueInv, n
    <3>4. \A i \in 1 .. Len(updateC') : updateC'[i].name # t
      BY <1>1, <3>3
    <3>5. Exited(t)'
      BY <1>1, <3>3, <3>4 DEF Exited
    <3> QED
      BY <1>2, <1>4, <2>2, <2>3, <2>5, <3>5 DEF Received
  <2> QED
    BY <2>4, <2>5
<1> QED
  BY <1>3, <1>4

(* Taking the oldest update leaves the rest of the chain. *)
LEMMA ReceiveQueue ==
    ASSUME TypeOK, ReceiveUpdate, NEW t \in Services, ViewInv(t), QueueInv(t)
    PROVE  QueueInv(t)'
<1> DEFINE n == Len(updateC)
           F(x) == Sent!Follows(Manager[t], x)
<1>1. /\ n \in Nat /\ n > 0 /\ Len(updateC') = n - 1
      /\ \A i \in 1 .. n - 1 : updateC'[i] = updateC[i + 1]
      /\ updateC[1] \in StateUpdate
      /\ states' = [states EXCEPT ![updateC[1].name] = updateC[1].state]
      /\ pushed' = pushed
  BY ReceiveShift
<1>2. /\ pushed[t] = "none" => states[t] = "exit"
      /\ \A j \in 1 .. n :
            updateC[j].name = t /\ (\A k \in 1 .. j - 1 : updateC[k].name # t) =>
                updateC[j].state \in F(Received[t])
      /\ \A i, j \in 1 .. n :
            /\ i < j /\ updateC[i].name = t /\ updateC[j].name = t
            /\ \A k \in i + 1 .. j - 1 : updateC[k].name # t
            => updateC[j].state \in F(updateC[i].state)
      /\ \A i \in 1 .. n :
            updateC[i] = [name |-> t, state |-> "exit"] =>
                /\ pushed[t] = "exit"
                /\ \A k \in i + 1 .. n : updateC[k].name # t
  BY DEF QueueInv
<1>3. /\ updateC[1].name # t => Received'[t] = Received[t]
      /\ updateC[1].name = t => Received'[t] = updateC[1].state
  BY ReceiveReceived
<1>4. \/ \E i \in 1 .. n : updateC[i] = [name |-> t, state |-> pushed[t]]
      \/ \A i \in 1 .. n : updateC[i].name # t
  BY DEF ViewInv
<1> HIDE DEF n, F
<1>5. pushed'[t] = "none" => states'[t] = "exit"
  <2> SUFFICES ASSUME pushed[t] = "none" PROVE states'[t] = "exit"
    BY <1>1
  <2>1. updateC[1].name # t
    <3>1. ASSUME NEW i \in 1 .. n, updateC[i] = [name |-> t, state |-> "none"]
          PROVE  FALSE
      <4>1. updateC[i] \in StateUpdate
        BY <1>1, <3>1 DEF TypeOK, n
      <4> QED
        BY <3>1, <4>1 DEF StateUpdate, State
    <3> QED
      BY <1>1, <1>4, <3>1
  <2> QED
    BY <1>1, <1>2, <2>1 DEF TypeOK, StateUpdate
<1>6. ASSUME NEW j \in 1 .. Len(updateC'), updateC'[j].name = t,
             \A k \in 1 .. j - 1 : updateC'[k].name # t
      PROVE  updateC'[j].state \in F(Received'[t])
  <2>1. j + 1 \in 1 .. n /\ updateC'[j] = updateC[j + 1]
    BY <1>1
  <2>2. \A k \in 2 .. j : updateC[k].name # t
    <3> SUFFICES ASSUME NEW k \in 2 .. j PROVE updateC[k].name # t
      OBVIOUS
    <3>1. k - 1 \in 1 .. j - 1 /\ k - 1 \in 1 .. n - 1 /\ (k - 1) + 1 = k
      BY <1>1
    <3> QED
      BY <1>1, <1>6, <3>1
  <2>3. CASE updateC[1].name = t
    <3>1. 1 < j + 1 /\ 1 \in 1 .. n /\ \A k \in 1 + 1 .. (j + 1) - 1 : updateC[k].name # t
      BY <1>1, <2>2
    <3> QED
      BY <1>2, <1>3, <1>6, <2>1, <2>3, <3>1
  <2>4. CASE updateC[1].name # t
    <3>1. \A k \in 1 .. (j + 1) - 1 : updateC[k].name # t
      BY <1>1, <2>2, <2>4
    <3> QED
      BY <1>2, <1>3, <1>6, <2>1, <2>4, <3>1
  <2> QED
    BY <2>3, <2>4
<1>7. ASSUME NEW i \in 1 .. Len(updateC'), NEW j \in 1 .. Len(updateC'),
             i < j, updateC'[i].name = t, updateC'[j].name = t,
             \A k \in i + 1 .. j - 1 : updateC'[k].name # t
      PROVE  updateC'[j].state \in F(updateC'[i].state)
  <2>1. /\ i + 1 \in 1 .. n /\ updateC'[i] = updateC[i + 1]
        /\ j + 1 \in 1 .. n /\ updateC'[j] = updateC[j + 1]
        /\ i + 1 < j + 1
    BY <1>1, <1>7
  <2>2. ASSUME NEW k \in (i + 1) + 1 .. (j + 1) - 1 PROVE updateC[k].name # t
    <3>1. k - 1 \in i + 1 .. j - 1 /\ k - 1 \in 1 .. n - 1 /\ (k - 1) + 1 = k
      BY <1>1
    <3> QED
      BY <1>1, <1>7, <3>1
  <2> QED
    BY <1>2, <1>7, <2>1, <2>2
<1>8. ASSUME NEW i \in 1 .. Len(updateC'),
             updateC'[i] = [name |-> t, state |-> "exit"]
      PROVE  /\ pushed'[t] = "exit"
             /\ \A k \in i + 1 .. Len(updateC') : updateC'[k].name # t
  <2>1. i + 1 \in 1 .. n /\ updateC[i + 1] = [name |-> t, state |-> "exit"]
    BY <1>1, <1>8
  <2>2. pushed[t] = "exit" /\ \A k \in (i + 1) + 1 .. n : updateC[k].name # t
    BY <1>2, <2>1
  <2> QED
    BY <1>1, <2>2
<1> QED
  BY <1>5, <1>6, <1>7, <1>8 DEF QueueInv, F

-----------------------------------------------------------------------------
(* What every send of a manager is: a state that follows the last one sent, *)
(* and never after an exit.                                                 *)
LEMMA ManageSends ==
    ASSUME TypeOK, NEW s \in Services, SentInv(s), LoopInv(s), ManageStep(s)
    PROVE  \/ UNCHANGED <<updateC, pushed>>
           \/ /\ pushed[s] # "exit"
              /\ \E st \in State : /\ st \in Sent!Follows(Manager[s], pushed[s])
                                   /\ Send(s, st)
<1>1. CASE PushState(s)
  <2>1. /\ pc[s] = "push" /\ Send(s, state[s])
        /\ state[s] \in State
    BY <1>1 DEF PushState, TypeOK
  <2> QED
    BY <2>1 DEF SentInv, LoopInv
<1>2. CASE PushExit(s) \/ RecoverPanic(s)
  <2>1. pc[s] \notin {"deferred", "done"} /\ Send(s, "exit")
    BY <1>2 DEF PushExit, RecoverPanic
  <2>2. pushed[s] \in {"none", "init", "idle", "run", "stop"}
    BY <2>1 DEF SentInv, TypeOK, State
  <2>3. "exit" \in State /\ "exit" \in Sent!Follows(Manager[s], pushed[s])
    BY <2>2 DEF State, Sent!Follows
  <2> QED
    BY <2>1, <2>2, <2>3
<1>3. CASE ~(PushState(s) \/ PushExit(s) \/ RecoverPanic(s))
  BY <1>3 DEF ManageStep, StartupTickerPanics, StartupCancelled, LoopPoint,
     StartupTick, FirstInitReturns, SelectDone, SelectTimer, ClearStopped,
     CallReturns, MarkStopped, CallPanics, LeaveLoop, FinalStopReturns,
     WgDone, Log, history
<1> QED
  BY <1>1, <1>2, <1>3

(* What is received depends on the channel and the map alone. *)
LEMMA UnchangedQueue ==
    ASSUME UNCHANGED <<updateC, pushed, states>>
    PROVE  /\ Received' = Received
           /\ \A t \in Services : QueueInv(t) => QueueInv(t)'
<1>1. Received' = Received
  BY DEF Received, Exited
<1>2. updateC' = updateC /\ pushed' = pushed /\ states' = states
  OBVIOUS
<1> SUFFICES ASSUME NEW t \in Services, QueueInv(t) PROVE QueueInv(t)'
  BY <1>1, Zenon
<1>3. /\ pushed'[t] = "none" => states'[t] = "exit"
      /\ \A j \in 1 .. Len(updateC') :
            updateC'[j].name = t /\ (\A k \in 1 .. j - 1 : updateC'[k].name # t) =>
                updateC'[j].state \in Sent!Follows(Manager[t], Received'[t])
  BY <1>1, <1>2, Zenon DEF QueueInv
<1>4. \A i, j \in 1 .. Len(updateC') :
          /\ i < j /\ updateC'[i].name = t /\ updateC'[j].name = t
          /\ \A k \in i + 1 .. j - 1 : updateC'[k].name # t
          => updateC'[j].state \in Sent!Follows(Manager[t], updateC'[i].state)
  BY <1>2, Zenon DEF QueueInv
<1>5. \A i \in 1 .. Len(updateC') :
          updateC'[i] = [name |-> t, state |-> "exit"] =>
              /\ pushed'[t] = "exit"
              /\ \A k \in i + 1 .. Len(updateC') : updateC'[k].name # t
  BY <1>2, Zenon DEF QueueInv
<1> QED
  BY <1>3, <1>4, <1>5, Zenon DEF QueueInv

(* A step of one service preserves the invariants of every service. *)
LEMMA ManageLifecycleInv ==
    ASSUME TypeOK, ServicesInv, LifecycleInv, UNCHANGED states,
           NEW s \in Services, ManageStep(s)
    PROVE  LifecycleInv'
<1> SUFFICES ASSUME NEW t \in Services PROVE LoopInv(t)' /\ QueueInv(t)'
  BY DEF LifecycleInv
<1>1. /\ SentInv(s) /\ LoopInv(s) /\ ViewInv(t) /\ QueueInv(t) /\ LoopInv(t)
  BY DEF ServicesInv, LifecycleInv
<1>2. LoopInv(t)'
  <2>1. CASE t = s
    BY <1>1, <2>1, ManageLoopInv
  <2>2. CASE t # s
    BY <1>1, <2>2, ManageFrame DEF LoopInv
  <2> QED
    BY <2>1, <2>2
<1>3. QueueInv(t)'
  <2>1. CASE UNCHANGED <<updateC, pushed>>
    BY <1>1, <2>1, UnchangedQueue
  <2>2. CASE /\ pushed[s] # "exit"
             /\ \E st \in State : /\ st \in Sent!Follows(Manager[s], pushed[s])
                                  /\ Send(s, st)
    BY <1>1, <2>2, SendQueue
  <2> QED
    BY <1>1, <2>1, <2>2, ManageSends
<1> QED
  BY <1>2, <1>3

(* The steps of everybody else leave what the services sent alone. *)
LEMMA OthersUnchanged ==
    ASSUME [Next]_vars, ~Launch, ~ReceiveUpdate, \A s \in Services : ~ServiceStep(s)
    PROVE  UNCHANGED <<pc, state, pushed, updateC, states>>
BY DEF Next, CancelParent, SignalWatcher, Start, NotifierFails, StartWatchers,
   ReceivePrestartError, LogPrestartError, PrestartClosed, ServicesDone, WgZero,
   ShutdownRPC, CloseUpdates, CloseUpdateC, AwaitStates, CloseIntracom, CloseLog,
   AwaitLogger, LoggerDone, PrestartStep, statesWatcher, PublishStates,
   StatesWatcherDone, serviceLogWatcher, ReceiveLog, StartLogWorker,
   LogWorkerDone, LogWatcherDone, Terminated, vars, managerVars, goroutine,
   history, prestartVars, daemonVars, watcher

(* LifecycleInv is inductive, given IInv. *)
LEMMA LifecycleInvStep == IInv /\ LifecycleInv /\ [Next]_vars => LifecycleInv'
<1> SUFFICES ASSUME IInv, LifecycleInv, [Next]_vars PROVE LifecycleInv'
  OBVIOUS
<1>1. TypeOK /\ ServicesInv /\ PhaseInv
  BY DEF IInv, ServicesInv
<1>2. CASE Launch
  <2> SUFFICES ASSUME NEW t \in Services PROVE LoopInv(t)' /\ QueueInv(t)'
    BY DEF LifecycleInv
  <2>1. StopInv(t) /\ pc[t] = "idle" /\ QueueInv(t)
    BY <1>1, <1>2 DEF ServicesInv, LifecycleInv, PhaseInv, Launch, BeforeLaunch
  <2>2. /\ pc'[t] = IF Manager[t] = "RunUntilSuccess" THEN "startup" ELSE "push"
        /\ UNCHANGED <<state, pushed, updateC, states>>
    BY <1>2 DEF Launch, EntryPoint, history
  <2>3. state[t] = "init" /\ pushed[t] = "none"
    BY <2>1 DEF StopInv
  <2>4. LoopInv(t)'
    BY <2>2, <2>3 DEF LoopInv, Sent!Follows
  <2> QED
    BY <2>1, <2>2, <2>4, UnchangedQueue
<1>3. CASE ReceiveUpdate
  <2> SUFFICES ASSUME NEW t \in Services PROVE LoopInv(t)' /\ QueueInv(t)'
    BY DEF LifecycleInv
  <2>1. QueueInv(t)'
    BY <1>1, <1>3, ReceiveQueue DEF ServicesInv, LifecycleInv
  <2>2. UNCHANGED <<pc, state, pushed>>
    BY <1>3 DEF ReceiveUpdate, goroutine, history
  <2> QED
    BY <2>1, <2>2 DEF LifecycleInv, LoopInv
<1>4. ASSUME NEW s \in Services, ServiceStep(s) PROVE LifecycleInv'
  BY <1>1, <1>4, ManageLifecycleInv DEF ServiceStep, daemonVars, watcher
<1>5. CASE ~Launch /\ ~ReceiveUpdate /\ \A s \in Services : ~ServiceStep(s)
  <2>1. UNCHANGED <<pc, state, pushed, updateC, states>>
    BY <1>5, OthersUnchanged
  <2> QED
    BY <2>1, UnchangedQueue DEF LifecycleInv, LoopInv
<1> QED
  BY <1>2, <1>3, <1>4, <1>5

(* LifecycleInv holds in every reachable state. *)
LEMMA LifecycleInvariance == Spec => [](IInv /\ LifecycleInv)
<1>1. Init => LifecycleInv
  <2> SUFFICES ASSUME Init, NEW s \in Services PROVE LoopInv(s) /\ QueueInv(s)
    BY DEF LifecycleInv
  <2>1. LoopInv(s)
    BY DEF Init, ManagerInit, LoopInv
  <2>2. 1 .. Len(updateC) = {} /\ states[s] = "exit"
    BY DEF Init, ManagerInit
  <2>3. QueueInv(s)
    BY <2>2 DEF QueueInv
  <2> QED
    BY <2>1, <2>3
<1> QED
  BY <1>1, LifecycleInvStep, IInvInit, IInvStep, PTL DEF Spec

-----------------------------------------------------------------------------
(* The theorems.                                                            *)

(* Every sequence of updates a manager sends is a lifecycle: no state is    *)
(* skipped, repeated or sent after exit, whatever its runner does and       *)
(* whenever the daemon is cancelled, and Start returns nil only when all    *)
(* the services have exited.                                                *)
THEOREM SendsImplements == Spec => SendsLifecycle
<1>1. Init => Sent!Init
  BY DEF Init, ManagerInit, Sent!Init
<1>2. IInv /\ LifecycleInv /\ [Next]_vars => [Sent!Next]_<<pushed, mainPc = "returned">>
  <2> SUFFICES ASSUME IInv, LifecycleInv, [Next]_vars,
                      ~UNCHANGED <<pushed, mainPc = "returned">>
               PROVE  Sent!Next
    OBVIOUS
  <2>1. TypeOK /\ ServicesInv /\ PhaseInv
    BY DEF IInv, ServicesInv
  <2>2. ASSUME NEW s \in Services, ServiceStep(s) PROVE Sent!Announce(s)
    <3>1. ManageStep(s) /\ mainPc' = mainPc
      BY <2>2 DEF ServiceStep, daemonVars
    <3>2. PICK st \in State : /\ st \in Sent!Follows(Manager[s], pushed[s])
                              /\ Send(s, st) /\ pushed[s] # "exit"
      BY <2>1, <3>1, ManageSends DEF ServicesInv, LifecycleInv
    <3>3. mainPc # "returned"
      BY <2>1, <3>1, ManagePc DEF PhaseInv, AfterWait
    <3>4. pushed' = [pushed EXCEPT ![s] = st]
      BY <3>2 DEF Send
    <3>5. pushed'[s] = st
      BY <2>1, <3>4 DEF TypeOK
    <3> QED
      BY <3>1, <3>2, <3>3, <3>4, <3>5 DEF Sent!Announce
  <2>3. CASE AwaitLogger
    <3>1. /\ mainPc # "returned" /\ mainPc' = "returned" /\ pushed' = pushed
          /\ \A s \in Services : pc[s] = "done"
      BY <2>1, <2>3 DEF AwaitLogger, LoggerDone, Return, history, PhaseInv, AfterWait
    <3>2. \A s \in Services : pushed[s] = "exit" \/ Manager[s] = "RunUntilSuccess"
      BY <2>1, <3>1 DEF ServicesInv, SentInv
    <3>3. Sent!Finish
      BY <3>1, <3>2 DEF Sent!Finish
    <3> QED
      BY <3>3 DEF Sent!Next
  <2>4. CASE ~AwaitLogger /\ \A s \in Services : ~ServiceStep(s)
    <3>1. pushed' = pushed
      <4>1. CASE Launch \/ ReceiveUpdate
        BY <4>1 DEF Launch, ReceiveUpdate, history
      <4>2. CASE ~(Launch \/ ReceiveUpdate)
        BY <2>4, <4>2, OthersUnchanged
      <4> QED
        BY <4>1, <4>2
    <3>2. (mainPc = "returned") = (mainPc' = "returned")
      BY <2>4 DEF Next, CancelParent, SignalWatcher, Start, NotifierFails,
         Return, StartWatchers, ReceivePrestartError, LogPrestartError,
         PrestartClosed, Launch, ServicesDone, WgZero, ShutdownRPC, CloseUpdates,
         CloseUpdateC, AwaitStates, CloseIntracom, CloseLog, PrestartStep,
         statesWatcher, ReceiveUpdate, PublishStates, StatesWatcherDone,
         serviceLogWatcher, ReceiveLog, StartLogWorker, LogWorkerDone,
         LogWatcherDone, Terminated, vars, daemonVars
    <3> QED
      BY <3>1, <3>2
  <2> QED
    BY <2>2, <2>3, <2>4 DEF Sent!Next
<1> QED
  BY <1>1, <1>2, LifecycleInvariance, PTL DEF Spec, SendsLifecycle, Sent!Spec

(* The states the watcher stores and publishes are the same lifecycles: the *)
(* shared, bounded channel neither loses nor reorders the updates of a      *)
(* service, and none is left in it when the watcher ends.                   *)
THEOREM PublishesImplements == Spec => PublishesLifecycle
<1>1. Init => Seen!Init
  BY DEF Init, ManagerInit, Seen!Init, Received, Exited
<1>2. IInv /\ LifecycleInv /\ [Next]_vars => [Seen!Next]_<<Received, statesPc = "done">>
  <2> SUFFICES ASSUME IInv, LifecycleInv, [Next]_vars,
                      ~UNCHANGED <<Received, statesPc = "done">>
               PROVE  Seen!Next
    OBVIOUS
  <2>1. TypeOK /\ ServicesInv /\ PhaseInv
    BY DEF IInv, ServicesInv
  <2>2. ASSUME NEW s \in Services, ServiceStep(s) PROVE FALSE
    <3>1. ManageStep(s) /\ UNCHANGED <<states, statesPc>>
      BY <2>2 DEF ServiceStep, daemonVars, watcher
    <3>2. CASE UNCHANGED <<updateC, pushed>>
      BY <3>1, <3>2, UnchangedQueue
    <3>3. CASE ~UNCHANGED <<updateC, pushed>>
      <4>1. PICK st \in State : Send(s, st) /\ pushed[s] # "exit"
        BY <2>1, <3>1, <3>3, ManageSends DEF ServicesInv, LifecycleInv
      <4>2. \A t \in Services : Received'[t] = Received[t]
        BY <2>1, <3>1, <4>1, SendReceived
      <4>3. Received' = Received
        BY <4>2 DEF Received
      <4> QED
        BY <3>1, <4>3
    <3> QED
      BY <3>2, <3>3
  <2>3. CASE ReceiveUpdate
    <3> DEFINE s == updateC[1].name
               st == updateC[1].state
    <3>1. s \in Services /\ st \in State
      BY <2>1, <2>3, ReceiveShift DEF StateUpdate
    <3> HIDE DEF s, st
    <3>2. /\ Received[s] # "exit" /\ Received'[s] = st
          /\ st \in Sent!Follows(Manager[s], Received[s])
      BY <2>1, <2>3, <3>1, ReceiveReceived DEF LifecycleInv, s, st
    <3>3. \A t \in Services : t # s => Received'[t] = Received[t]
      BY <2>1, <2>3, ReceiveReceived DEF LifecycleInv, s
    <3>4. Received' = [Received EXCEPT ![s] = st]
      BY <3>1, <3>2, <3>3 DEF Received
    <3>5. statesPc # "done" /\ statesPc' # "done"
      BY <2>3 DEF ReceiveUpdate
    <3>6. Seen!Announce(s)
      BY <3>1, <3>2, <3>4, <3>5 DEF Seen!Announce, Seen!Follows, Sent!Follows
    <3> QED
      BY <3>1, <3>6 DEF Seen!Next
  <2>4. CASE StatesWatcherDone
    <3>1. /\ statesPc # "done" /\ statesPc' = "done"
          /\ updateClosed /\ updateC = <<>>
          /\ UNCHANGED <<updateC, pushed, states>>
      BY <2>4 DEF StatesWatcherDone, managerVars
    <3>2. Received' = Received
      BY <3>1, UnchangedQueue
    <3>3. ASSUME NEW s \in Services
          PROVE  Received[s] = "exit" \/ Manager[s] = "RunUntilSuccess"
      <4>1. pc[s] = "done"
        BY <2>1, <3>1 DEF PhaseInv, AfterWait
      <4>2. pushed[s] = "exit" \/ Manager[s] = "RunUntilSuccess"
        BY <2>1, <4>1 DEF ServicesInv, SentInv
      <4>3. \A i \in 1 .. Len(updateC) : updateC[i].name # s
        BY <3>1
      <4>4. pushed[s] \in {"none", states[s]}
        BY <2>1, <3>1 DEF ServicesInv, ViewInv
      <4> QED
        BY <4>2, <4>3, <4>4 DEF Received, Exited
    <3>4. Seen!Finish
      BY <3>1, <3>2, <3>3 DEF Seen!Finish
    <3> QED
      BY <3>4 DEF Seen!Next
  <2>5. CASE /\ ~ReceiveUpdate /\ ~StatesWatcherDone
             /\ \A s \in Services : ~ServiceStep(s)
    <3>1. UNCHANGED <<pushed, updateC, states>>
      <4>1. CASE Launch
        BY <4>1 DEF Launch, history
      <4>2. CASE ~Launch
        BY <2>5, <4>2, OthersUnchanged
      <4> QED
        BY <4>1, <4>2
    <3>2. (statesPc = "done") = (statesPc' = "done")
      BY <2>1, <2>5 DEF Next, CancelParent, SignalWatcher, Start, NotifierFails,
         StartWatchers, ReceivePrestartError, LogPrestartError, PrestartClosed,
         Launch, ServicesDone, WgZero, ShutdownRPC, CloseUpdates, CloseUpdateC,
         AwaitStates, CloseIntracom, CloseLog, AwaitLogger, LoggerDone,
         PrestartStep, statesWatcher, PublishStates, serviceLogWatcher,
         ReceiveLog, StartLogWorker, LogWorkerDone, LogWatcherDone, Terminated,
         vars, daemonVars, watcher, PhaseInv
    <3> QED
      BY <3>1, <3>2, UnchangedQueue
  <2> QED
    BY <2>2, <2>3, <2>4, <2>5
<1> QED
  BY <1>1, <1>2, LifecycleInvariance, PTL DEF Spec, PublishesLifecycle, Seen!Spec
=============================================================================
