---------------------------- MODULE TopicProofs -----------------------------
(***************************************************************************)
(* The safety properties of a topic, for any clients, groups, policies and *)
(* buffer size.  First lemmas about a topic's channels and what TInv says  *)
(* of a state, which the proofs about the watches rest on too; then that   *)
(* TInv is inductive; then the properties that follow from it.             *)
(***************************************************************************)
EXTENDS Topic, TLAPS

(* The types of the constants. *)
LEMMA TopicConstants ==
    /\ GroupOf \in [Clients -> Groups] /\ Policy \in [Clients -> Policies]
    /\ BufferSize \in Nat /\ SubscriberAware \in BOOLEAN
    /\ NoGroup \notin Groups /\ NoClient \notin Clients
BY TopicAssumption

(* Appending one. *)
LEMMA AppendAt ==
    ASSUME NEW S, NEW q \in Seq(S), NEW x \in S, NEW p, p = Append(q, x)
    PROVE  /\ p \in Seq(S) /\ Len(p) = Len(q) + 1 /\ p[Len(q) + 1] = x
           /\ Len(q) \in Nat
           /\ \A j \in 1 .. Len(q) : p[j] = q[j]
OBVIOUS

(* Taking the first. *)
LEMMA TailAt ==
    ASSUME NEW S, NEW q \in Seq(S), q # <<>>, NEW p, p = Tail(q)
    PROVE  /\ p \in Seq(S) /\ Len(p) = Len(q) - 1
           /\ Len(q) \in Nat /\ Len(q) >= 1 /\ Head(q) = q[1] /\ q[1] \in S
           /\ \A j \in 1 .. Len(q) - 1 : p[j] = q[j + 1]
<1>1. Len(q) \in Nat /\ Len(q) >= 1 /\ Head(q) = q[1] /\ q[1] \in S
  OBVIOUS
<1>2. p \in Seq(S) /\ Len(p) = Len(q) - 1
  OBVIOUS
<1>3. \A j \in 1 .. Len(q) - 1 : p[j] = q[j + 1]
  OBVIOUS
<1> QED
  BY <1>1, <1>2, <1>3

(* A function on 1 .. n is a sequence. *)
LEMMA SequenceOf ==
    ASSUME NEW S, NEW n \in Nat, NEW f \in [1 .. n -> S]
    PROVE  f \in Seq(S) /\ Len(f) = n
OBVIOUS

-----------------------------------------------------------------------------
(* What each operation on a channel leaves in it.                           *)

(* The buffer of a channel. *)
LEMMA BufferType ==
    ASSUME TypeOK, NEW k \in 1 .. Len(chans)
    PROVE  /\ chans[k] \in Chan /\ chans[k].buf \in Seq(Messages)
           /\ Len(chans[k].buf) <= BufferSize /\ Len(chans[k].buf) \in Nat
           /\ chans[k].passed \in Messages \cup {-1} /\ chans[k].policy \in Policies
<1>1. chans[k] \in Chan /\ k \in DOMAIN chans
  BY DEF TypeOK, ChanTypes
<1>2. /\ chans[k].buf \in Seq(Messages) /\ chans[k].passed \in Messages \cup {-1}
      /\ chans[k].policy \in Policies
  BY <1>1 DEF Chan
<1>3. Len(chans[k].buf) <= BufferSize
  BY <1>1 DEF TypeOK, ChanTypes
<1> QED
  BY <1>1, <1>2, <1>3

(* One channel is replaced. *)
LEMMA ReplaceChan ==
    ASSUME TypeOK, NEW k \in 1 .. Len(chans), NEW x \in Chan,
           Len(x.buf) <= BufferSize, chans' = [chans EXCEPT ![k] = x]
    PROVE  /\ chans' \in Seq(Chan) /\ Len(chans') = Len(chans) /\ chans'[k] = x
           /\ \A j \in 1 .. Len(chans) : j # k => chans'[j] = chans[j]
           /\ \A j \in DOMAIN chans' : Len(chans'[j].buf) <= BufferSize
<1>1. chans \in Seq(Chan)
  BY DEF TypeOK, ChanTypes
<1>2. /\ chans' \in Seq(Chan) /\ Len(chans') = Len(chans) /\ chans'[k] = x
      /\ \A j \in 1 .. Len(chans) : j # k => chans'[j] = chans[j]
  BY <1>1
<1>3. ASSUME NEW j \in DOMAIN chans' PROVE Len(chans'[j].buf) <= BufferSize
  <2>1. CASE j = k
    BY <1>2, <2>1
  <2>2. CASE j # k
    BY <1>1, <1>2, <2>2 DEF TypeOK, ChanTypes
  <2> QED
    BY <2>1, <2>2
<1> QED
  BY <1>2, <1>3

(* Channel k is replaced by one of the same policy, as open as before. *)
Changes(k) ==
    /\ chans' \in Seq(Chan) /\ Len(chans') = Len(chans)
    /\ chans'[k].policy = chans[k].policy /\ chans'[k].closed = chans[k].closed
    /\ \A j \in 1 .. Len(chans) : j # k => chans'[j] = chans[j]
    /\ \A j \in DOMAIN chans' : Len(chans'[j].buf) <= BufferSize

(* Channel k gets another buffer. *)
LEMMA SetBuffer ==
    ASSUME TypeOK, NEW k \in 1 .. Len(chans), NEW q \in Seq(Messages),
           Len(q) <= BufferSize,
           chans' = [chans EXCEPT ![k].buf = q]
    PROVE  Changes(k) /\ chans'[k].buf = q /\ chans'[k].passed = chans[k].passed
<1> DEFINE x == [chans[k] EXCEPT !.buf = q]
<1>1. chans \in Seq(Chan) /\ chans[k] \in Chan
  BY BufferType DEF TypeOK, ChanTypes
<1>2. /\ x \in Chan /\ x.buf = q /\ x.passed = chans[k].passed
      /\ x.policy = chans[k].policy /\ x.closed = chans[k].closed
  BY <1>1 DEF Chan
<1>3. chans' = [chans EXCEPT ![k] = x]
  BY <1>1
<1> HIDE DEF x
<1>4. Len(x.buf) <= BufferSize
  BY <1>2
<1>5. /\ chans' \in Seq(Chan) /\ Len(chans') = Len(chans) /\ chans'[k] = x
      /\ \A j \in 1 .. Len(chans) : j # k => chans'[j] = chans[j]
      /\ \A j \in DOMAIN chans' : Len(chans'[j].buf) <= BufferSize
  BY <1>2, <1>3, <1>4, ReplaceChan, Zenon
<1> QED
  BY <1>2, <1>5, Zenon DEF Changes

(* A message passes through channel k unbuffered. *)
LEMMA SetPassed ==
    ASSUME TypeOK, NEW k \in 1 .. Len(chans), NEW h \in Messages,
           chans' = [chans EXCEPT ![k].passed = h]
    PROVE  Changes(k) /\ chans'[k].buf = chans[k].buf /\ chans'[k].passed = h
<1> DEFINE x == [chans[k] EXCEPT !.passed = h]
<1>1. chans \in Seq(Chan) /\ chans[k] \in Chan
  BY BufferType DEF TypeOK, ChanTypes
<1>2. /\ x \in Chan /\ x.buf = chans[k].buf /\ x.passed = h
      /\ x.policy = chans[k].policy /\ x.closed = chans[k].closed
  BY <1>1 DEF Chan
<1>3. chans' = [chans EXCEPT ![k] = x]
  BY <1>1
<1> HIDE DEF x
<1>4. Len(x.buf) <= BufferSize
  BY <1>2, BufferType
<1>5. /\ chans' \in Seq(Chan) /\ Len(chans') = Len(chans) /\ chans'[k] = x
      /\ \A j \in 1 .. Len(chans) : j # k => chans'[j] = chans[j]
      /\ \A j \in DOMAIN chans' : Len(chans'[j].buf) <= BufferSize
  BY <1>2, <1>3, <1>4, ReplaceChan, Zenon
<1> QED
  BY <1>2, <1>5, Zenon DEF Changes

(* Both change. *)
LEMMA SetBoth ==
    ASSUME TypeOK, NEW k \in 1 .. Len(chans), NEW q \in Seq(Messages),
           Len(q) <= BufferSize, NEW h \in Messages,
           chans' = [chans EXCEPT ![k].buf = q, ![k].passed = h]
    PROVE  Changes(k) /\ chans'[k].buf = q /\ chans'[k].passed = h
<1> DEFINE x == [chans[k] EXCEPT !.buf = q, !.passed = h]
<1>1. chans \in Seq(Chan) /\ chans[k] \in Chan
  BY BufferType DEF TypeOK, ChanTypes
<1>2. /\ x \in Chan /\ x.buf = q /\ x.passed = h
      /\ x.policy = chans[k].policy /\ x.closed = chans[k].closed
  BY <1>1 DEF Chan
<1>3. chans' = [chans EXCEPT ![k] = x]
  BY <1>1
<1> HIDE DEF x
<1>4. Len(x.buf) <= BufferSize
  BY <1>2
<1>5. /\ chans' \in Seq(Chan) /\ Len(chans') = Len(chans) /\ chans'[k] = x
      /\ \A j \in 1 .. Len(chans) : j # k => chans'[j] = chans[j]
      /\ \A j \in DOMAIN chans' : Len(chans'[j].buf) <= BufferSize
  BY <1>2, <1>3, <1>4, ReplaceChan, ZenonT(30)
<1> QED
  BY <1>2, <1>5, Zenon DEF Changes

(* The other channels keep their order. *)
LEMMA ChangesInOrder ==
    ASSUME TypeOK, InOrder, NEW k \in 1 .. Len(chans), Changes(k), Ordered(k)'
    PROVE  InOrder'
<1> SUFFICES ASSUME NEW j \in 1 .. Len(chans) PROVE Ordered(j)'
  BY DEF InOrder, Changes
<1>1. CASE j = k
  BY <1>1
<1>2. CASE j # k
  <2>1. chans'[j] = chans[j] /\ Ordered(j)
    BY <1>2 DEF Changes, InOrder, TypeOK, ChanTypes
  <2> QED
    BY <2>1 DEF Ordered, Before
<1> QED
  BY <1>1, <1>2

(* A receive moves the oldest message out: the newest stays. *)
LEMMA TakeOldest ==
    ASSUME TypeOK, NEW k \in 1 .. Len(chans), chans[k].buf # <<>>, Ordered(k),
           Changes(k), chans'[k].buf = Tail(chans[k].buf),
           chans'[k].passed = Head(chans[k].buf)
    PROVE  Ordered(k)' /\ Newest(k)' = Newest(k)
<1> DEFINE b == chans[k].buf
           n == Len(b)
           q == Tail(b)
<1>1. b \in Seq(Messages) /\ n <= BufferSize
  BY BufferType
<1>2. /\ q \in Seq(Messages) /\ Len(q) = n - 1
      /\ n \in Nat /\ n >= 1 /\ Head(b) = b[1] /\ b[1] \in Messages
      /\ \A j \in 1 .. n - 1 : q[j] = b[j + 1]
  BY <1>1, TailAt
<1>4. chans'[k].buf = q /\ chans'[k].passed = b[1]
  BY <1>2
<1> HIDE DEF q
<1>5. Ordered(k)'
  <2> SUFFICES ASSUME NEW i \in 1 .. n - 1
               PROVE  /\ Before(k, i)' < q[i]
                      /\ chans[k].policy = "DropNone" => q[i] = Before(k, i)' + 1
    BY <1>2, <1>4 DEF Ordered, Changes
  <2>1. Before(k, i)' = b[i]
    <3>1. CASE i = 1
      BY <1>4, <3>1 DEF Before
    <3>2. CASE i # 1
      <4>1. i - 1 \in 1 .. n - 1 /\ (i - 1) + 1 = i
        BY <1>2, <3>2
      <4> QED
        BY <1>2, <1>4, <3>2, <4>1 DEF Before
    <3> QED
      BY <3>1, <3>2
  <2>2. i + 1 \in 1 .. n /\ Before(k, i + 1) = b[i]
    BY <1>2 DEF Before
  <2> QED
    BY <1>2, <2>1, <2>2 DEF Ordered
<1>6. Newest(k)' = Newest(k)
  <2>1. CASE n = 1
    <3>1. q = <<>>
      BY <1>2, <2>1
    <3>2. Newest(k)' = b[1]
      BY <1>4, <3>1 DEF Newest
    <3> QED
      BY <2>1, <3>2 DEF Newest
  <2>2. CASE n > 1
    <3>1. q # <<>> /\ n - 1 \in 1 .. n - 1 /\ (n - 1) + 1 = n
      BY <1>2, <2>2
    <3>2. q[n - 1] = b[n]
      BY <1>2, <3>1
    <3>3. Newest(k)' = q[n - 1]
      BY <1>2, <1>4, <3>1 DEF Newest
    <3> QED
      BY <3>2, <3>3 DEF Newest
  <2>3. n = 1 \/ n > 1
    <3> HIDE DEF b, n
    <3> QED
      BY <1>2
  <2> QED
    BY <2>1, <2>2, <2>3, Zenon
<1> QED
  BY <1>5, <1>6

(* A receive moves the oldest message out: the newest stays. *)
LEMMA ReceiveChan ==
    ASSUME TypeOK, NEW k \in 1 .. Len(chans), chans[k].buf # <<>>, Ordered(k),
           chans' = [chans EXCEPT ![k].buf = Tail(chans[k].buf),
                                  ![k].passed = Head(chans[k].buf)]
    PROVE  Changes(k) /\ Ordered(k)' /\ Newest(k)' = Newest(k)
<1>0. PICK p, h : p = Tail(chans[k].buf) /\ h = Head(chans[k].buf)
  OBVIOUS
<1> DEFINE Step == chans' = [chans EXCEPT ![k].buf = p, ![k].passed = h]
<1>1. Step
  BY <1>0
<1> HIDE DEF Step
<1>2. p \in Seq(Messages) /\ Len(p) <= BufferSize /\ h \in Messages
  BY <1>0, BufferType, TailAt, TopicConstants
<1>3. Changes(k) /\ chans'[k].buf = p /\ chans'[k].passed = h
  BY <1>1, <1>2, SetBoth, Zenon DEF Step
<1> QED
  BY <1>0, <1>3, TakeOldest

(* A message newer than what is in the channel goes in at the end. *)
LEMMA PutNewest ==
    ASSUME TypeOK, NEW k \in 1 .. Len(chans), Ordered(k), Newest(k) < msg,
           chans[k].policy = "DropNone" => msg = Newest(k) + 1,
           Changes(k), chans'[k].buf = Append(chans[k].buf, msg),
           chans'[k].passed = chans[k].passed
    PROVE  Ordered(k)' /\ Newest(k)' = msg
<1> DEFINE b == chans[k].buf
           n == Len(b)
           q == Append(b, msg)
<1>1. b \in Seq(Messages) /\ msg \in Messages
  BY BufferType DEF TypeOK, LoopTypes
<1>2. /\ q \in Seq(Messages) /\ Len(q) = n + 1 /\ n \in Nat /\ q[n + 1] = msg
      /\ \A j \in 1 .. n : q[j] = b[j]
  BY <1>1, AppendAt
<1>3. chans'[k].buf = q
  OBVIOUS
<1> HIDE DEF q
<1>4. \A i \in 1 .. n : Before(k, i)' = Before(k, i)
  <2> SUFFICES ASSUME NEW i \in 1 .. n PROVE Before(k, i)' = Before(k, i)
    OBVIOUS
  <2>1. CASE i = 1
    BY <2>1 DEF Before
  <2>2. CASE i # 1
    <3>1. i - 1 \in 1 .. n
      BY <1>2, <2>2
    <3> QED
      BY <1>2, <1>3, <2>2, <3>1 DEF Before
  <2> QED
    BY <2>1, <2>2
<1>5. ASSUME NEW i \in Nat, i = n + 1 PROVE Before(k, i)' = Newest(k)
  <2>1. CASE n = 0
    <3>1. b = <<>>
      BY <1>1, <2>1
    <3>2. Before(k, i)' = chans[k].passed
      BY <1>5, <2>1 DEF Before
    <3> QED
      BY <3>1, <3>2 DEF Newest
  <2>2. CASE n # 0
    <3>1. b # <<>>
      BY <2>2
    <3>2. n \in 1 .. n /\ i # 1 /\ i - 1 = n
      <4> HIDE DEF b, n
      <4> QED
        BY <1>2, <1>5, <2>2
    <3>3. Before(k, i)' = q[n]
      BY <1>3, <3>2 DEF Before
    <3> QED
      BY <1>2, <3>1, <3>2, <3>3 DEF Newest
  <2> QED
    BY <2>1, <2>2
<1>6. Ordered(k)'
  <2> SUFFICES ASSUME NEW i \in 1 .. n + 1
               PROVE  /\ Before(k, i)' < q[i]
                      /\ chans[k].policy = "DropNone" => q[i] = Before(k, i)' + 1
    BY <1>2, <1>3 DEF Ordered, Changes
  <2>1. CASE i = n + 1
    <3> HIDE DEF b, n
    <3>1. Before(k, i)' = Newest(k) /\ q[i] = msg
      BY <1>2, <1>5, <2>1
    <3> QED
      BY <3>1, Zenon
  <2>2. CASE i \in 1 .. n
    BY <1>2, <1>4, <2>2 DEF Ordered
  <2>3. i = n + 1 \/ i \in 1 .. n
    <3> HIDE DEF b, n
    <3> QED
      BY <1>2
  <2> QED
    BY <2>1, <2>2, <2>3, Zenon
<1>7. Newest(k)' = msg
  <2>1. q # <<>>
    BY <1>2
  <2> QED
    BY <1>2, <1>3, <2>1 DEF Newest
<1> QED
  BY <1>6, <1>7

(* The broadcaster sends msg on a channel that can take it. *)
LEMMA PushChan ==
    ASSUME TypeOK, NEW k \in 1 .. Len(chans), Ordered(k), Newest(k) < msg,
           BufferSize > 0 /\ chans[k].policy = "DropNone" => msg = Newest(k) + 1,
           CanSend(k), Push(k)
    PROVE  Changes(k) /\ Ordered(k)' /\ Newest(k)' = msg
<1>1. /\ chans[k].buf \in Seq(Messages) /\ Len(chans[k].buf) <= BufferSize
      /\ Len(chans[k].buf) \in Nat /\ chans[k].passed \in Messages \cup {-1}
      /\ msg \in Messages
  BY BufferType DEF TypeOK, LoopTypes
<1>2. CASE BufferSize = 0
  <2>1. chans[k].buf = <<>>
    BY <1>1, <1>2
  <2>2. chans' = [chans EXCEPT ![k].passed = msg]
    BY <1>2 DEF Push
  <2>3. Changes(k) /\ chans'[k].buf = <<>> /\ chans'[k].passed = msg
    BY <1>1, <2>1, <2>2, SetPassed, Zenon
  <2> QED
    BY <2>3 DEF Ordered, Newest
<1>3. CASE BufferSize # 0
  <2>0. PICK p : p = Append(chans[k].buf, msg)
    OBVIOUS
  <2>1. p \in Seq(Messages) /\ Len(p) <= BufferSize
    BY <1>1, <1>3, <2>0, AppendAt, TopicConstants DEF CanSend
  <2>2. chans' = [chans EXCEPT ![k].buf = p]
    BY <1>3, <2>0 DEF Push
  <2>3. Changes(k) /\ chans'[k].buf = p /\ chans'[k].passed = chans[k].passed
    BY <1>1, <2>1, <2>2, SetBuffer, Zenon
  <2>4. BufferSize > 0
    BY <1>3, TopicConstants
  <2> QED
    BY <2>0, <2>3, <2>4, PutNewest
<1> QED
  BY <1>2, <1>3

(* The oldest message makes room for a newer one. *)
LEMMA SwapNewest ==
    ASSUME TypeOK, NEW k \in 1 .. Len(chans), chans[k].buf # <<>>, Ordered(k),
           Newest(k) < msg, chans[k].policy # "DropNone", Changes(k),
           chans'[k].buf = Append(Tail(chans[k].buf), msg),
           chans'[k].passed = Head(chans[k].buf)
    PROVE  Ordered(k)' /\ Newest(k)' = msg
<1> DEFINE b == chans[k].buf
           n == Len(b)
           t == Tail(b)
           q == Append(t, msg)
<1>1. b \in Seq(Messages) /\ msg \in Messages
  BY BufferType DEF TypeOK, LoopTypes
<1>2. /\ t \in Seq(Messages) /\ Len(t) = n - 1
      /\ n \in Nat /\ n >= 1 /\ Head(b) = b[1]
      /\ \A j \in 1 .. n - 1 : t[j] = b[j + 1]
  BY <1>1, TailAt
<1>3. chans'[k].buf = q /\ chans'[k].passed = b[1]
  BY <1>2
<1> HIDE DEF t
<1>4. q \in Seq(Messages) /\ Len(q) = n /\ q[n] = msg
      /\ \A j \in 1 .. n - 1 : q[j] = b[j + 1]
  <2>1. /\ q \in Seq(Messages) /\ Len(q) = Len(t) + 1 /\ q[Len(t) + 1] = msg
        /\ \A j \in 1 .. Len(t) : q[j] = t[j]
    BY <1>1, <1>2, AppendAt
  <2> HIDE DEF b, n, q
  <2>2. Len(t) + 1 = n
    BY <1>2
  <2> QED
    BY <1>2, <2>1, <2>2
<1> HIDE DEF q
<1>5. Newest(k) = b[n]
  BY DEF Newest
<1>6. ASSUME NEW i \in 1 .. n PROVE Before(k, i)' = b[i]
  <2>1. CASE i = 1
    BY <1>3, <2>1 DEF Before
  <2>2. CASE i # 1
    <3>1. i - 1 \in 1 .. n - 1 /\ (i - 1) + 1 = i
      BY <1>2, <2>2
    <3> QED
      BY <1>3, <1>4, <2>2, <3>1 DEF Before
  <2> QED
    BY <2>1, <2>2
<1>7. ASSUME NEW i \in 1 .. n PROVE Before(k, i)' < q[i]
  <2>1. CASE i = n
    BY <1>4, <1>5, <1>6, <2>1
  <2>2. CASE i # n
    <3>1. i \in 1 .. n - 1 /\ i + 1 \in 1 .. n /\ i + 1 # 1 /\ (i + 1) - 1 = i
      <4> HIDE DEF b, n
      <4> QED
        BY <1>2, <2>2
    <3>2. q[i] = b[i + 1] /\ Before(k, i)' = b[i]
      BY <1>4, <1>6, <3>1
    <3>3. Before(k, i + 1) = b[i]
      BY <3>1 DEF Before
    <3> QED
      BY <3>1, <3>2, <3>3 DEF Ordered
  <2> QED
    BY <2>1, <2>2
<1>8. Ordered(k)'
  BY <1>3, <1>4, <1>7 DEF Ordered, Changes
<1>9. Newest(k)' = msg
  <2>1. q # <<>>
    BY <1>2, <1>4
  <2> QED
    BY <1>3, <1>4, <2>1 DEF Newest
<1> QED
  BY <1>8, <1>9

(* DropOldest receives the oldest message and sends msg. *)
LEMMA SwapChan ==
    ASSUME TypeOK, NEW k \in 1 .. Len(chans), chans[k].buf # <<>>, Ordered(k),
           Newest(k) < msg, chans[k].policy # "DropNone",
           chans' = [chans EXCEPT ![k].buf = SwapOldest(chans[k].buf),
                                  ![k].passed = Head(chans[k].buf)]
    PROVE  Changes(k) /\ Ordered(k)' /\ Newest(k)' = msg
<1>0. PICK p, h : p = Append(Tail(chans[k].buf), msg) /\ h = Head(chans[k].buf)
  OBVIOUS
<1> DEFINE Step == chans' = [chans EXCEPT ![k].buf = p, ![k].passed = h]
<1>1. Step
  BY <1>0 DEF SwapOldest
<1> HIDE DEF Step
<1>2. /\ chans[k].buf \in Seq(Messages) /\ Len(chans[k].buf) <= BufferSize
      /\ msg \in Messages
  BY BufferType DEF TypeOK, LoopTypes
<1>3. /\ Tail(chans[k].buf) \in Seq(Messages)
      /\ Len(Tail(chans[k].buf)) = Len(chans[k].buf) - 1
      /\ h \in Messages /\ Len(chans[k].buf) \in Nat
  BY <1>0, <1>2, TailAt
<1>4. p \in Seq(Messages) /\ Len(p) <= BufferSize
  BY <1>0, <1>2, <1>3, AppendAt, TopicConstants
<1>5. Changes(k) /\ chans'[k].buf = p /\ chans'[k].passed = h
  BY <1>1, <1>3, <1>4, SetBoth, Zenon DEF Step
<1> QED
  BY <1>0, <1>5, SwapNewest

(* A new channel holds the last message if it is buffered. *)
LEMMA NewChan ==
    ASSUME TypeOK, InOrder, NEW policy \in Policies,
           chans' = Append(chans, NewSubscriber(policy)),
           NEW n, n = Len(chans) + 1
    PROVE  /\ chans' \in Seq(Chan) /\ Len(chans') = n /\ n \in Nat \ {0}
           /\ \A j \in 1 .. Len(chans) : chans'[j] = chans[j]
           /\ \A j \in DOMAIN chans' : Len(chans'[j].buf) <= BufferSize
           /\ ~chans'[n].closed /\ chans'[n].policy = policy
           /\ InOrder' /\ Newest(n)' <= lastMessage
           /\ BufferSize > 0 => Newest(n)' = lastMessage
<1> DEFINE x == NewSubscriber(policy)
<1>0. lastMessage \in Nat /\ BufferSize \in Nat
  BY TopicConstants DEF TypeOK, LoopTypes, Messages
<1>1. x.policy = policy /\ x.closed = FALSE
  BY DEF NewSubscriber
<1>2. /\ BufferSize = 0 => x.buf = <<>> /\ x.passed = -1
      /\ BufferSize # 0 => x.buf = <<lastMessage>> /\ x.passed = lastMessage - 1
  BY DEF NewSubscriber, Replay
<1>3. x \in Chan
  <2>1. Replay \in Seq(Messages)
    BY <1>0 DEF Replay, Messages
  <2>2. (IF BufferSize = 0 THEN -1 ELSE lastMessage - 1)
            \in Messages \cup {-1}
    BY <1>0 DEF Messages
  <2> QED
    BY <2>1, <2>2 DEF Chan, NewSubscriber
<1>4. chans' = Append(chans, x) /\ chans \in Seq(Chan)
  BY DEF TypeOK, ChanTypes
<1> HIDE DEF x
<1>5. /\ chans' \in Seq(Chan) /\ Len(chans') = n /\ Len(chans) \in Nat
      /\ n \in Nat \ {0} /\ chans'[n] = x
      /\ \A j \in 1 .. Len(chans) : chans'[j] = chans[j]
  BY <1>3, <1>4, AppendAt
<1>6. ASSUME NEW j \in DOMAIN chans' PROVE j \in 1 .. Len(chans) \/ j = n
  BY <1>5
<1>7. Len(x.buf) <= BufferSize
  <2>1. CASE BufferSize = 0
    BY <1>2, <2>1
  <2>2. CASE BufferSize # 0
    <3>1. Len(<<lastMessage>>) = 1
      OBVIOUS
    <3>2. Len(x.buf) = 1
      BY <1>2, <2>2, <3>1, Zenon
    <3> QED
      BY <1>0, <2>2, <3>2
  <2> QED
    BY <2>1, <2>2
<1>8. ASSUME NEW j \in DOMAIN chans' PROVE Len(chans'[j].buf) <= BufferSize
  BY <1>5, <1>6, <1>7, BufferType
<1>9. Ordered(n)'
  <2>1. CASE BufferSize = 0
    BY <1>2, <1>5, <2>1 DEF Ordered
  <2>2. CASE BufferSize # 0
    <3> SUFFICES ASSUME NEW i \in 1 .. Len(x.buf)
                 PROVE  Before(n, i)' < x.buf[i] /\ x.buf[i] = Before(n, i)' + 1
      BY <1>5 DEF Ordered
    <3>1. i = 1 /\ x.buf[i] = lastMessage
      <4>1. i \in 1 .. Len(<<lastMessage>>) /\ x.buf = <<lastMessage>>
        BY <1>2, <2>2, Zenon
      <4>2. i = 1
        BY <4>1
      <4> QED
        BY <4>1, <4>2
    <3>2. Before(n, i)' = lastMessage - 1
      BY <1>2, <1>5, <2>2, <3>1 DEF Before
    <3> QED
      BY <1>0, <3>1, <3>2
  <2> QED
    BY <2>1, <2>2
<1>10. ASSUME NEW j \in 1 .. Len(chans) PROVE Ordered(j)'
  <2>1. Ordered(j) /\ chans'[j] = chans[j]
    BY <1>4, <1>5 DEF InOrder
  <2> QED
    BY <2>1 DEF Ordered, Before
<1>11. InOrder'
  BY <1>5, <1>6, <1>9, <1>10 DEF InOrder
<1>12. Newest(n)' <= lastMessage /\ (BufferSize > 0 => Newest(n)' = lastMessage)
  <2>1. CASE BufferSize = 0
    <3>1. Newest(n)' = -1
      BY <1>2, <1>5, <2>1 DEF Newest
    <3> QED
      BY <1>0, <2>1, <3>1
  <2>2. CASE BufferSize # 0
    <3>1. /\ <<lastMessage>> # <<>> /\ Len(<<lastMessage>>) = 1
          /\ <<lastMessage>>[1] = lastMessage
      OBVIOUS
    <3>2. chans'[n].buf = <<lastMessage>>
      BY <1>2, <1>5, <2>2, Zenon
    <3>3. Newest(n)' = lastMessage
      BY <3>1, <3>2, Zenon DEF Newest
    <3> QED
      BY <1>0, <3>3
  <2> QED
    BY <2>1, <2>2
<1> QED
  BY <1>1, <1>5, <1>8, <1>11, <1>12

(* Channels may close; what is in them stays. *)
Closings ==
    /\ chans' \in Seq(Chan) /\ Len(chans') = Len(chans)
    /\ \A j \in 1 .. Len(chans) :
          /\ chans'[j].buf = chans[j].buf /\ chans'[j].passed = chans[j].passed
          /\ chans'[j].policy = chans[j].policy

LEMMA ClosingsKeep ==
    ASSUME TypeOK, InOrder, Closings
    PROVE  /\ InOrder' /\ \A j \in DOMAIN chans' : Len(chans'[j].buf) <= BufferSize
           /\ \A j \in 1 .. Len(chans) : Newest(j)' = Newest(j)
<1>1. DOMAIN chans = 1 .. Len(chans) /\ DOMAIN chans' = 1 .. Len(chans)
  BY DEF TypeOK, ChanTypes, Closings
<1>2. ASSUME NEW j \in 1 .. Len(chans) PROVE Ordered(j)'
  <2>1. Ordered(j)
    BY <1>1 DEF InOrder
  <2> QED
    BY <2>1 DEF Ordered, Before, Closings
<1>3. ASSUME NEW j \in 1 .. Len(chans) PROVE Newest(j)' = Newest(j)
  BY DEF Newest, Closings
<1>4. ASSUME NEW j \in 1 .. Len(chans) PROVE Len(chans'[j].buf) <= BufferSize
  BY BufferType DEF Closings
<1> QED
  BY <1>1, <1>2, <1>3, <1>4 DEF InOrder

(* One channel closes. *)
LEMMA CloseChan ==
    ASSUME TypeOK, NEW k \in 1 .. Len(chans), chans' = [chans EXCEPT ![k].closed = TRUE]
    PROVE  /\ Closings
           /\ \A j \in 1 .. Len(chans) : j # k => chans'[j].closed = chans[j].closed
<1> DEFINE x == [chans[k] EXCEPT !.closed = TRUE]
<1>1. chans \in Seq(Chan) /\ chans[k] \in Chan
  BY BufferType DEF TypeOK, ChanTypes
<1>2. x \in Chan /\ x.buf = chans[k].buf /\ x.passed = chans[k].passed
      /\ x.policy = chans[k].policy
  BY <1>1 DEF Chan
<1>3. chans' = [chans EXCEPT ![k] = x]
  BY <1>1
<1> HIDE DEF x
<1>4. Len(x.buf) <= BufferSize
  BY <1>2, BufferType
<1>5. /\ chans' \in Seq(Chan) /\ Len(chans') = Len(chans) /\ chans'[k] = x
      /\ \A j \in 1 .. Len(chans) : j # k => chans'[j] = chans[j]
  BY <1>2, <1>3, <1>4, ReplaceChan, ZenonT(30)
<1>6. ASSUME NEW j \in 1 .. Len(chans)
      PROVE  /\ chans'[j].buf = chans[j].buf /\ chans'[j].passed = chans[j].passed
             /\ chans'[j].policy = chans[j].policy
  BY <1>2, <1>5, Zenon
<1> QED
  BY <1>5, <1>6, Zenon DEF Closings

-----------------------------------------------------------------------------
(* What TInv says of a state.                                               *)

AllClients == \A c \in Clients : ClientInv(c)

AllRequests == \A i \in DOMAIN requestC : RequestInv(requestC[i])

LEMMA ChansAt ==
    ASSUME TInv
    PROVE  chans \in Seq(Chan) /\ Len(chans) \in Nat /\ DOMAIN chans = 1 .. Len(chans)
<1>1. chans \in Seq(Chan)
  BY DEF TInv, TypeOK, ChanTypes
<1> QED
  BY <1>1

LEMMA NewestType ==
    ASSUME TypeOK, NEW k \in 1 .. Len(chans) PROVE Newest(k) \in Nat \cup {-1}
<1>1. chans[k].buf \in Seq(Messages) /\ chans[k].passed \in Messages \cup {-1}
  BY BufferType
<1> QED
  BY <1>1 DEF Newest, Messages

(* The message counters and a channel of the map. *)
LEMMA MapAt ==
    ASSUME TInv, NEW g \in Groups, subscribers[g] # 0
    PROVE  /\ subscribers[g] \in 1 .. Len(chans)
           /\ Newest(subscribers[g]) \in Nat \cup {-1} /\ NoGroup \notin Groups
           /\ sent \in Nat /\ lastMessage \in Nat /\ msg \in Nat
<1>1. TypeOK /\ subscribers[g] \in 1 .. Len(chans)
  BY DEF TInv, MapInv
<1> QED
  BY <1>1, NewestType, TopicConstants DEF TypeOK, LoopTypes, PubTypes, Messages

(* The requests of a queue. *)
LEMMA RequestAt ==
    ASSUME TInv, NEW i \in DOMAIN requestC
    PROVE  /\ requestC[i] \in Request /\ RequestInv(requestC[i])
           /\ requestC[i].answerTo \in Clients \cup {NoClient}
           /\ requestC[i].op \in {"subscribe", "unsubscribe", "close"}
<1>1. requestC[i] \in Request
  BY DEF TInv, TypeOK, QueueTypes
<1> QED
  BY <1>1 DEF TInv, Request

(* The queue after a send: the request alone. *)
LEMMA AloneInQueue ==
    ASSUME TypeOK, RequestRoom, NEW r \in Request, requestC' = Append(requestC, r)
    PROVE  /\ requestC' \in Seq(Request) /\ Len(requestC') <= 1
           /\ \A i \in DOMAIN requestC' : requestC'[i] = r
<1>1. requestC = <<>>
  BY DEF TypeOK, QueueTypes, RequestRoom
<1> QED
  BY <1>1

(* The request taken was alone in the queue. *)
LEMMA Taken ==
    ASSUME TInv, NEW op, TakeRequest(op), NEW r, r = Head(requestC)
    PROVE  /\ requestC' \in Seq(Request) /\ Len(requestC') <= 1 /\ AllRequests'
           /\ r \in Request /\ RequestInv(r) /\ r.op = op
           /\ bcPc = "select" /\ cur = NoGroup /\ sent = lastMessage
           /\ \A g \in Groups : Due(g) = lastMessage
<1>0. requestC \in Seq(Request) /\ Len(requestC) <= 1
  BY DEF TInv, TypeOK, QueueTypes
<1>1. requestC # <<>> /\ requestC' = Tail(requestC) /\ r.op = op /\ bcPc = "select"
  BY DEF TakeRequest
<1>2. Len(requestC) = 1 /\ 1 \in DOMAIN requestC /\ r = requestC[1]
  <2>1. Len(requestC) \in Nat /\ Len(requestC) >= 1 /\ r = requestC[1]
    BY <1>0, <1>1, TailAt
  <2>2. ASSUME NEW n \in Nat, n <= 1, n >= 1 PROVE n = 1
    BY <2>2
  <2>3. Len(requestC) = 1
    BY <1>0, <2>1, <2>2
  <2> QED
    BY <1>0, <2>1, <2>3
<1>3. requestC' = <<>>
  BY <1>0, <1>1, <1>2
<1>4. r \in Request /\ RequestInv(r)
  BY <1>2, RequestAt
<1>5. requestC' \in Seq(Request) /\ Len(requestC') <= 1 /\ AllRequests'
  BY <1>3 DEF AllRequests
<1>6. cur = NoGroup /\ sent = lastMessage /\ \A g \in Groups : Due(g) = lastMessage
  BY <1>1 DEF TInv, MapInv, Due
<1> QED
  BY <1>1, <1>4, <1>5, <1>6

(* The group the loop turns to, or waits for, still lacks the message. *)
LEMMA Pending ==
    ASSUME TInv, bcPc = "send", NEW g \in Groups, g \in todo \cup {cur},
           NEW k, k = subscribers[g]
    PROVE  /\ TypeOK /\ k # 0 /\ k \in 1 .. Len(chans) /\ Ordered(k)
           /\ Newest(k) < msg
           /\ BufferSize > 0 /\ chans[k].policy = "DropNone" => msg = Newest(k) + 1
<1>1. TypeOK /\ k # 0 /\ k \in 1 .. Len(chans)
  BY TopicConstants DEF TInv, MapInv
<1>2. Ordered(k)
  BY <1>1 DEF TInv, TypeOK, ChanTypes, InOrder
<1>3. msg = lastMessage + 1 /\ lastMessage \in Nat
  BY DEF TInv, MapInv, TypeOK, LoopTypes, Messages
<1>4. Newest(k) <= lastMessage
      /\ (BufferSize > 0 /\ chans[k].policy = "DropNone" => Newest(k) = lastMessage)
  BY <1>1 DEF TInv, NewestInv, Due, PolicyOf
<1>5. Newest(k) \in Nat \cup {-1}
  BY <1>1, NewestType
<1> QED
  BY <1>1, <1>2, <1>3, <1>4, <1>5

(* The loop waits for cur, which is in the map. *)
LEMMA WaitingFor ==
    ASSUME TInv, NEW policies, Waiting(policies), NEW k, k = subscribers[cur]
    PROVE  /\ bcPc = "send" /\ cur \in Groups /\ cur' = NoGroup
           /\ chans[k].policy \in policies /\ todo \ {cur} = todo
           /\ TypeOK /\ k # 0 /\ k \in 1 .. Len(chans) /\ Ordered(k)
           /\ Newest(k) < msg
           /\ BufferSize > 0 /\ chans[k].policy = "DropNone" => msg = Newest(k) + 1
<1>1. /\ bcPc = "send" /\ cur \in Groups /\ cur' = NoGroup
      /\ chans[k].policy \in policies /\ cur \notin todo
  BY DEF Waiting, TInv, TypeOK, LoopTypes, MapInv, PolicyOf
<1>2. todo \ {cur} = todo
  BY <1>1
<1> QED
  BY <1>1, <1>2, Pending

-----------------------------------------------------------------------------
(* What the parts of TInv depend on.                                        *)

(* What the types depend on. *)
LEMMA TypeFrames ==
    ASSUME TInv
    PROVE  /\ UNCHANGED topicVars => TopicTypes'
           /\ UNCHANGED requestC => QueueTypes'
           /\ UNCHANGED callVars => CallTypes'
           /\ UNCHANGED response => ResponseTypes'
           /\ UNCHANGED <<subscribers, recvOn>> => MapTypes'
           /\ UNCHANGED chans => ChanTypes'
           /\ UNCHANGED loopVars => LoopTypes'
           /\ UNCHANGED pubVars => PubTypes'
<1>1. UNCHANGED topicVars => TopicTypes'
  BY DEF TInv, TypeOK, TopicTypes, topicVars
<1>2. UNCHANGED requestC => QueueTypes'
  BY DEF TInv, TypeOK, QueueTypes
<1>3. UNCHANGED callVars => CallTypes'
  BY DEF TInv, TypeOK, CallTypes, callVars
<1>4. UNCHANGED response => ResponseTypes'
  BY DEF TInv, TypeOK, ResponseTypes
<1>5. UNCHANGED <<subscribers, recvOn>> => MapTypes'
  BY DEF TInv, TypeOK, MapTypes
<1>6. UNCHANGED chans => ChanTypes'
  BY DEF TInv, TypeOK, ChanTypes
<1>7. UNCHANGED loopVars => LoopTypes'
  BY DEF TInv, TypeOK, LoopTypes, loopVars
<1>8. UNCHANGED pubVars => PubTypes'
  BY DEF TInv, TypeOK, PubTypes, pubVars
<1> QED
  BY <1>1, <1>2, <1>3, <1>4, <1>5, <1>6, <1>7, <1>8

(* A part none of whose variables change stays. *)
LEMMA Frames ==
    ASSUME TInv
    PROVE  /\ UNCHANGED chans => InOrder'
           /\ UNCHANGED <<closePc, chans, asked>> => ClosedOnRequest'
           /\ UNCHANGED <<recvOn, subscribers>> => AwareOnly'
           /\ UNCHANGED <<clientPc, clientCh, response, asked, chans>> => AllClients'
           /\ UNCHANGED <<requestC, clientPc, response, asked>> => AllRequests'
           /\ UNCHANGED <<subscribers, chans, loopVars, sent>> => MapInv' /\ NewestInv'
<1>1. UNCHANGED chans => InOrder'
  BY DEF TInv, InOrder, Ordered, Before
<1>2. UNCHANGED <<closePc, chans, asked>> => ClosedOnRequest'
  BY DEF TInv, ClosedOnRequest
<1>3. UNCHANGED <<recvOn, subscribers>> => AwareOnly'
  BY DEF TInv, AwareOnly
<1>4. UNCHANGED <<clientPc, clientCh, response, asked, chans>> => AllClients'
  BY DEF TInv, AllClients, ClientInv
<1>5. UNCHANGED <<requestC, clientPc, response, asked>> => AllRequests'
  BY DEF TInv, AllRequests, RequestInv
<1>6. UNCHANGED <<subscribers, chans, loopVars, sent>> => MapInv'
  BY DEF TInv, MapInv, loopVars
<1>7. UNCHANGED <<subscribers, chans, loopVars, sent>> => NewestInv'
  BY DEF TInv, NewestInv, loopVars, Newest, Due, PolicyOf
<1> QED
  BY <1>1, <1>2, <1>3, <1>4, <1>5, <1>6, <1>7

(* Replacing channel k by one with the same policy, as open as before. *)
LEMMA ChangesKeep ==
    ASSUME TInv, NEW k \in 1 .. Len(chans), Changes(k), Ordered(k)',
           UNCHANGED <<topicVars, requestC, clientVars, subscribers, recvOn>>
    PROVE  /\ InOrder' /\ ClosedOnRequest' /\ AwareOnly' /\ AllClients'
           /\ AllRequests'
           /\ \A j \in 1 .. Len(chans) : /\ chans'[j].policy = chans[j].policy
                                         /\ chans'[j].closed = chans[j].closed
                                         /\ j # k => Newest(j)' = Newest(j)
<1>1. TypeOK /\ DOMAIN chans = 1 .. Len(chans) /\ DOMAIN chans' = 1 .. Len(chans)
  BY DEF TInv, TypeOK, ChanTypes, Changes
<1>2. InOrder'
  BY ChangesInOrder DEF TInv
<1>3. ASSUME NEW j \in 1 .. Len(chans)
      PROVE  /\ chans'[j].policy = chans[j].policy /\ chans'[j].closed = chans[j].closed
             /\ j # k => Newest(j)' = Newest(j)
  BY DEF Changes, Newest
<1>4. ClosedOnRequest'
  BY <1>1, <1>3 DEF TInv, ClosedOnRequest, topicVars, clientVars, callVars
<1>5. AwareOnly' /\ AllRequests'
  BY Frames DEF clientVars, callVars
<1>6. AllClients'
  BY DEF TInv, AllClients, ClientInv, Changes, clientVars, callVars
<1> QED
  BY <1>2, <1>3, <1>4, <1>5, <1>6

-----------------------------------------------------------------------------
(* TInv is inductive: the actions of a client.                              *)

(* A client that is not waiting has no request in the queue. *)
LEMMA RequestsOfOthers ==
    ASSUME TInv, NEW c \in Clients, NEW l,
           clientPc[c] \notin {"subWait", "unsubWait"},
           clientPc' = [clientPc EXCEPT ![c] = l],
           UNCHANGED <<requestC, response>>, asked \subseteq asked'
    PROVE  AllRequests'
<1> SUFFICES ASSUME NEW i \in DOMAIN requestC PROVE RequestInv(requestC[i])'
  BY DEF AllRequests
<1> DEFINE r == requestC[i]
<1>1. /\ RequestInv(r) /\ r.answerTo \in Clients \cup {NoClient}
      /\ r.op \in {"subscribe", "unsubscribe", "close"} /\ r' = r
  BY RequestAt
<1>2. clientPc \in [Clients -> {"idle", "subSend", "subWait", "holding",
                                 "unsubSend", "unsubWait", "panicked"}]
  BY DEF TInv, TypeOK, CallTypes
<1> QED
  BY <1>1, <1>2 DEF RequestInv

LEMMA CallSubscribeTInv ==
    ASSUME TInv, NEW c \in Clients, CallSubscribe(c) PROVE TInv'
<1> USE DEF CallSubscribe, Goto
<1>1. TypeOK'
  BY TypeFrames DEF TInv, TypeOK, CallTypes, bcVars
<1>2. InOrder' /\ ClosedOnRequest' /\ AwareOnly' /\ MapInv' /\ NewestInv'
  BY Frames DEF topicVars, bcVars, loopVars, pubVars
<1>3. AllClients'
  BY DEF TInv, TypeOK, CallTypes, ResponseTypes, AllClients, ClientInv, bcVars
<1>4. AllRequests'
  <2>1. /\ clientPc[c] \notin {"subWait", "unsubWait"} /\ asked \subseteq asked'
        /\ UNCHANGED <<requestC, response>>
    OBVIOUS
  <2> QED
    BY <2>1, RequestsOfOthers, Zenon
<1> QED
  BY <1>1, <1>2, <1>3, <1>4 DEF TInv, AllClients, AllRequests

LEMMA CallUnsubscribeTInv ==
    ASSUME TInv, NEW c \in Clients, CallUnsubscribe(c) PROVE TInv'
<1> USE DEF CallUnsubscribe, Goto
<1>1. TypeOK'
  BY TypeFrames DEF TInv, TypeOK, CallTypes, bcVars
<1>2. InOrder' /\ AwareOnly' /\ MapInv' /\ NewestInv'
  BY Frames DEF topicVars, bcVars, loopVars, pubVars
<1>3. ClosedOnRequest'
  BY DEF TInv, ClosedOnRequest, topicVars, bcVars
<1>4. AllClients'
  BY DEF TInv, TypeOK, CallTypes, ResponseTypes, AllClients, ClientInv, bcVars
<1>5. AllRequests'
  <2>1. /\ clientPc[c] \notin {"subWait", "unsubWait"} /\ asked \subseteq asked'
        /\ UNCHANGED <<requestC, response>>
    OBVIOUS
  <2> QED
    BY <2>1, RequestsOfOthers, Zenon
<1> QED
  BY <1>1, <1>2, <1>3, <1>4, <1>5 DEF TInv, AllClients, AllRequests

LEMMA SendRequestTInv ==
    ASSUME TInv, NEW c \in Clients, SendRequest(c) PROVE TInv'
<1>0. PICK r : r = [op |-> IF clientPc[c] = "subSend" THEN "subscribe"
                           ELSE "unsubscribe",
                    conf |-> c, ch |-> clientCh[c], answerTo |-> c]
  OBVIOUS
<1> DEFINE pc == IF clientPc[c] = "subSend" THEN "subWait" ELSE "unsubWait"
<1>1. /\ requestC' = Append(requestC, r) /\ RequestRoom
      /\ clientPc[c] \in {"subSend", "unsubSend"}
      /\ clientPc' = [clientPc EXCEPT ![c] = pc]
      /\ UNCHANGED <<topicVars, clientCh, response, calls, asked, bcVars, pubVars>>
  BY <1>0 DEF SendRequest, Goto
<1>2. TypeOK /\ r \in Request
  BY <1>0 DEF TInv, TypeOK, CallTypes, Request
<1>3. /\ requestC' \in Seq(Request) /\ Len(requestC') <= 1
      /\ \A i \in DOMAIN requestC' : requestC'[i] = r
  BY <1>1, <1>2, AloneInQueue, Zenon
<1>4. TypeOK'
  BY <1>1, <1>2, <1>3, TypeFrames DEF TInv, TypeOK, QueueTypes, CallTypes, bcVars
<1>5. InOrder' /\ ClosedOnRequest' /\ AwareOnly' /\ MapInv' /\ NewestInv'
  BY <1>1, Frames DEF topicVars, bcVars, loopVars, pubVars
<1>6. AllClients'
  BY <1>1 DEF TInv, TypeOK, CallTypes, ResponseTypes, AllClients, ClientInv, bcVars
<1>7. RequestInv(r)'
  BY <1>0, <1>1
     DEF TInv, TypeOK, CallTypes, ResponseTypes, AllClients, ClientInv, RequestInv
<1>8. AllRequests'
  <2> SUFFICES ASSUME NEW i \in DOMAIN requestC' PROVE RequestInv(requestC[i])'
    BY DEF AllRequests
  <2>1. requestC'[i] = r
    BY <1>3
  <2> QED
    BY <1>7, <2>1 DEF RequestInv
<1> QED
  BY <1>4, <1>5, <1>6, <1>8 DEF TInv, AllClients, AllRequests

LEMMA SendPanicsTInv ==
    ASSUME TInv, NEW c \in Clients, SendPanics(c) PROVE TInv'
<1> USE DEF SendPanics, Goto
<1>1. TypeOK'
  BY TypeFrames DEF TInv, TypeOK, CallTypes, bcVars
<1>2. InOrder' /\ ClosedOnRequest' /\ AwareOnly' /\ MapInv' /\ NewestInv'
  BY Frames DEF topicVars, bcVars, loopVars, pubVars
<1>3. AllClients'
  BY DEF TInv, TypeOK, CallTypes, ResponseTypes, AllClients, ClientInv, bcVars
<1>4. AllRequests'
  <2>1. /\ clientPc[c] \notin {"subWait", "unsubWait"} /\ asked \subseteq asked'
        /\ UNCHANGED <<requestC, response>>
    OBVIOUS
  <2> QED
    BY <2>1, RequestsOfOthers, Zenon
<1> QED
  BY <1>1, <1>2, <1>3, <1>4 DEF TInv, AllClients, AllRequests

LEMMA GiveUpTInv ==
    ASSUME TInv, NEW c \in Clients, GiveUp(c) PROVE TInv'
<1>1. /\ clientPc' = [clientPc EXCEPT ![c] = "idle"]
      /\ clientCh' = [clientCh EXCEPT ![c] = 0]
      /\ response' = [response EXCEPT ![c] = NoResponse]
      /\ UNCHANGED <<topicVars, calls, asked, bcVars, pubVars>>
  BY DEF GiveUp, Goto
<1>2. /\ DOMAIN requestC' = DOMAIN requestC
      /\ \A i \in DOMAIN requestC :
            requestC'[i] = IF requestC[i].answerTo = c
                           THEN [requestC[i] EXCEPT !.answerTo = NoClient]
                           ELSE requestC[i]
  BY DEF GiveUp
<1>3. ASSUME NEW i \in DOMAIN requestC
      PROVE  /\ requestC'[i] \in Request /\ requestC'[i].op = requestC[i].op
             /\ requestC'[i].conf = requestC[i].conf /\ requestC'[i].ch = requestC[i].ch
             /\ requestC'[i].answerTo = IF requestC[i].answerTo = c THEN NoClient
                                         ELSE requestC[i].answerTo
  <2>1. requestC[i] \in Request
    BY RequestAt
  <2> QED
    BY <1>2, <2>1 DEF Request
<1>4. requestC' \in Seq(Request) /\ Len(requestC') = Len(requestC)
  <2>1. requestC \in Seq(Request) /\ Len(requestC) \in Nat
        /\ DOMAIN requestC = 1 .. Len(requestC)
    BY DEF TInv, TypeOK, QueueTypes
  <2>2. requestC' = [i \in 1 .. Len(requestC) |-> requestC'[i]]
    BY <2>1 DEF GiveUp
  <2>3. requestC' \in [1 .. Len(requestC) -> Request]
    BY <1>3, <2>1, <2>2
  <2> QED
    BY <2>1, <2>3, SequenceOf
<1>5. NoResponse \in [ch : ChanIds, err : BOOLEAN, set : BOOLEAN]
      /\ NoResponse.set = FALSE
  BY DEF NoResponse, ChanIds
<1>6. TypeOK'
  BY <1>1, <1>4, <1>5, TypeFrames
     DEF TInv, TypeOK, QueueTypes, CallTypes, ResponseTypes, ChanIds, bcVars
<1>7. InOrder' /\ ClosedOnRequest' /\ AwareOnly' /\ MapInv' /\ NewestInv'
  BY <1>1, Frames DEF topicVars, bcVars, loopVars, pubVars
<1>8. AllClients'
  BY <1>1, <1>5 DEF TInv, TypeOK, CallTypes, ResponseTypes, AllClients, ClientInv, bcVars
<1>9. AllRequests'
  <2> SUFFICES ASSUME NEW i \in DOMAIN requestC PROVE RequestInv(requestC[i])'
    BY <1>2 DEF AllRequests
  <2>1. RequestInv(requestC[i]) /\ requestC[i].answerTo \in Clients \cup {NoClient}
    BY RequestAt
  <2>2. /\ requestC'[i].op # "close" => requestC'[i].conf \in Clients
        /\ requestC'[i].op = "unsubscribe" => requestC'[i].ch \in asked'
    BY <1>1, <1>3, <2>1 DEF RequestInv
  <2>3. ASSUME requestC'[i].answerTo # NoClient
        PROVE  /\ requestC[i].answerTo \in Clients \ {c}
               /\ requestC'[i].answerTo = requestC[i].answerTo
    BY <1>3, <2>1, <2>3
  <2>4. \A d \in Clients \ {c} : clientPc'[d] = clientPc[d] /\ response'[d] = response[d]
    BY <1>1 DEF TInv, TypeOK, CallTypes, ResponseTypes
  <2> QED
    BY <1>3, <2>1, <2>2, <2>3, <2>4 DEF RequestInv
<1> QED
  BY <1>6, <1>7, <1>8, <1>9 DEF TInv, AllClients, AllRequests

LEMMA ReceiveResponseTInv ==
    ASSUME TInv, NEW c \in Clients, ReceiveResponse(c) PROVE TInv'
<1>1. PICK pc, ch :
         /\ clientPc[c] \in {"subWait", "unsubWait"} /\ response[c].set
         /\ \/ clientPc[c] = "subWait" /\ pc = "holding" /\ ch = response[c].ch
            \/ pc = "idle" /\ ch = 0
         /\ clientPc' = [clientPc EXCEPT ![c] = pc]
         /\ clientCh' = [clientCh EXCEPT ![c] = ch]
         /\ response' = [response EXCEPT ![c] = NoResponse]
         /\ UNCHANGED <<topicVars, requestC, calls, asked, bcVars, pubVars>>
  BY DEF ReceiveResponse, Goto
<1>2. /\ response[c] \in [ch : ChanIds, err : BOOLEAN, set : BOOLEAN]
      /\ response[c].ch \in ChanIds /\ ClientInv(c)
  BY DEF TInv, TypeOK, ResponseTypes
<1>3. /\ ch \in ChanIds /\ pc \in {"holding", "idle"}
      /\ pc = "holding" => ch \in 1 .. Len(chans)
  BY <1>1, <1>2 DEF ChanIds, ClientInv
<1>4. NoResponse \in [ch : ChanIds, err : BOOLEAN, set : BOOLEAN]
      /\ NoResponse.set = FALSE
  BY DEF NoResponse, ChanIds
<1>5. TypeOK'
  BY <1>1, <1>3, <1>4, TypeFrames DEF TInv, TypeOK, CallTypes, ResponseTypes, bcVars
<1>6. InOrder' /\ ClosedOnRequest' /\ AwareOnly' /\ MapInv' /\ NewestInv'
  BY <1>1, Frames DEF topicVars, bcVars, loopVars, pubVars
<1>7. AllClients'
  BY <1>1, <1>3, <1>4
     DEF TInv, TypeOK, CallTypes, ResponseTypes, AllClients, ClientInv, bcVars
<1>8. AllRequests'
  <2> SUFFICES ASSUME NEW i \in DOMAIN requestC PROVE RequestInv(requestC[i])'
    BY <1>1 DEF AllRequests
  <2>1. RequestInv(requestC[i]) /\ requestC[i].answerTo \in Clients \cup {NoClient}
        /\ requestC'[i] = requestC[i]
    BY <1>1, RequestAt
  <2>2. requestC[i].answerTo # c
    BY <1>1, <2>1, TopicConstants DEF RequestInv
  <2> QED
    BY <1>1, <2>1, <2>2 DEF TInv, TypeOK, CallTypes, ResponseTypes, RequestInv
<1> QED
  BY <1>5, <1>6, <1>7, <1>8 DEF TInv, AllClients, AllRequests

LEMMA ReceiveTInv ==
    ASSUME TInv, NEW c \in Clients, Receive(c) PROVE TInv'
<1>0. PICK k : k = clientCh[c]
  OBVIOUS
<1>1. k \in 1 .. Len(chans)
  BY <1>0 DEF Receive, TInv, ClientInv
<1>2. /\ chans[k].buf # <<>>
      /\ UNCHANGED <<topicVars, requestC, clientVars, subscribers, recvOn, loopVars,
                     pubVars>>
  BY <1>0 DEF Receive
<1>3. chans' = [chans EXCEPT ![k].buf = Tail(chans[k].buf),
                             ![k].passed = Head(chans[k].buf)]
  BY <1>0, Zenon DEF Receive
<1>4. TypeOK /\ Ordered(k)
  BY <1>1 DEF TInv, TypeOK, ChanTypes, InOrder
<1> HIDE DEF Receive
<1>5. Changes(k) /\ Ordered(k)' /\ Newest(k)' = Newest(k)
  BY <1>1, <1>2, <1>3, <1>4, ReceiveChan, Zenon
<1>6. /\ InOrder' /\ ClosedOnRequest' /\ AwareOnly' /\ AllClients' /\ AllRequests'
      /\ \A j \in 1 .. Len(chans) : /\ chans'[j].policy = chans[j].policy
                                    /\ chans'[j].closed = chans[j].closed
                                    /\ j # k => Newest(j)' = Newest(j)
  BY <1>1, <1>2, <1>5, ChangesKeep
<1>7. TypeOK'
  BY <1>2, <1>5, TypeFrames DEF TInv, TypeOK, ChanTypes, Changes, clientVars
<1>8. MapInv'
  BY <1>2, <1>5, <1>6 DEF TInv, MapInv, Changes, loopVars, pubVars
<1>9. NewestInv'
  <2> SUFFICES ASSUME NEW h \in Groups, subscribers[h] # 0, bcPc # "crashed"
               PROVE  /\ Newest(subscribers[h])' <= Due(h)'
                      /\ BufferSize > 0 /\ PolicyOf(h)' \in {"DropNone", "DropOldest"} =>
                            Newest(subscribers[h])' = Due(h)'
    BY <1>2 DEF NewestInv, loopVars
  <2>1. subscribers' = subscribers /\ subscribers[h] \in 1 .. Len(chans)
    BY <1>2 DEF TInv, MapInv
  <2>2. Due(h)' = Due(h) /\ PolicyOf(h)' = PolicyOf(h)
    BY <1>2, <1>6, <2>1 DEF Due, PolicyOf, loopVars, pubVars
  <2>3. Newest(subscribers[h])' = Newest(subscribers[h])
    BY <1>5, <1>6, <2>1 DEF Newest
  <2> QED
    BY <2>2, <2>3 DEF TInv, NewestInv
<1> QED
  BY <1>6, <1>7, <1>8, <1>9 DEF TInv, AllClients, AllRequests

LEMMA ClientTInv ==
    ASSUME TInv, NEW c \in Clients, Client(c) PROVE TInv'
BY CallSubscribeTInv, CallUnsubscribeTInv, SendRequestTInv, SendPanicsTInv, GiveUpTInv,
   ReceiveResponseTInv, ReceiveTInv DEF Client

-----------------------------------------------------------------------------
(* Close and the publisher.                                                 *)

LEMMA CloseTInv ==
    ASSUME TInv, Close PROVE TInv'
<1>1. ASSUME CallClose \/ CloseRequests \/ ClosePublish PROVE TInv'
  <2> USE <1>1 DEF CallClose, CloseRequests, ClosePublish
  <2>1. TypeOK'
    <3>1. /\ closed' \in BOOLEAN /\ requestsOpen' \in BOOLEAN /\ publishOpen' \in BOOLEAN
          /\ closePc' \in {"closeSend", "closePublish", "closed"}
      BY DEF TInv, TypeOK, TopicTypes
    <3>2. UNCHANGED <<requestC, clientVars, bcVars, pubVars>> /\ TypeOK
      BY DEF TInv
    <3> HIDE <1>1 DEF CallClose, CloseRequests, ClosePublish
    <3> QED
      BY <3>1, <3>2, TypeFrames DEF TInv, TypeOK, TopicTypes, clientVars, bcVars
  <2>2. InOrder' /\ AwareOnly' /\ AllClients' /\ AllRequests' /\ MapInv' /\ NewestInv'
    BY Frames DEF clientVars, callVars, bcVars, loopVars, pubVars
  <2>3. ClosedOnRequest'
    BY DEF TInv, ClosedOnRequest, clientVars, callVars, bcVars
  <2> QED
    BY <2>1, <2>2, <2>3 DEF TInv, AllClients, AllRequests
<1>2. ASSUME SendCloseRequest PROVE TInv'
  <2>1. PICK r : r = [op |-> "close", conf |-> NoClient, ch |-> 0, answerTo |-> NoClient]
    OBVIOUS
  <2>2. /\ RequestRoom /\ requestC' = Append(requestC, r)
        /\ closePc = "closeSend" /\ closePc' = "closeWait"
        /\ UNCHANGED <<closed, requestsOpen, publishOpen, clientVars, bcVars, pubVars>>
    BY <1>2, <2>1 DEF SendCloseRequest
  <2>3. TypeOK /\ r \in Request
    BY <2>1 DEF TInv, Request, ChanIds
  <2>4. /\ requestC' \in Seq(Request) /\ Len(requestC') <= 1
        /\ \A i \in DOMAIN requestC' : requestC'[i] = r
    BY <2>2, <2>3, AloneInQueue, Zenon
  <2>5. TypeOK'
    BY <2>2, <2>3, <2>4, TypeFrames
       DEF TInv, TypeOK, TopicTypes, QueueTypes, clientVars, bcVars
  <2>6. InOrder' /\ AwareOnly' /\ AllClients' /\ MapInv' /\ NewestInv'
    BY <2>2, Frames DEF clientVars, callVars, bcVars, loopVars, pubVars
  <2>7. ClosedOnRequest'
    BY <2>2 DEF TInv, ClosedOnRequest, clientVars, callVars, bcVars
  <2>8. AllRequests'
    BY <2>1, <2>4 DEF AllRequests, RequestInv
  <2> QED
    BY <2>5, <2>6, <2>7, <2>8 DEF TInv, AllClients, AllRequests
<1> QED
  BY <1>1, <1>2 DEF Close

LEMMA PublisherTInv ==
    ASSUME TInv, Publisher PROVE TInv'
<1> USE DEF Publisher, BeginPublish, PublishPanics
<1>1. TypeOK'
  BY TypeFrames DEF TInv, TypeOK, PubTypes, clientVars, bcVars
<1>2. InOrder' /\ ClosedOnRequest' /\ AwareOnly' /\ AllClients' /\ AllRequests'
      /\ MapInv' /\ NewestInv'
  BY Frames DEF topicVars, clientVars, callVars, bcVars, loopVars
<1> QED
  BY <1>1, <1>2 DEF TInv, AllClients, AllRequests

-----------------------------------------------------------------------------
(* The broadcaster's range loop.                                            *)

(* msg is in the channel of group g, and the loop is done with g. *)
LEMMA SentTInv ==
    ASSUME TInv, bcPc = "send", NEW g \in Groups, g \in todo \cup {cur},
           NEW k, k = subscribers[g], Changes(k), Ordered(k)', Newest(k)' = msg,
           cur' = NoGroup, todo' = todo \ {g}, cur \in {g, NoGroup},
           UNCHANGED <<topicVars, requestC, clientVars, subscribers, recvOn, bcPc, msg,
                       lastMessage, pubVars>>
    PROVE  TInv'
<1>1. k \in 1 .. Len(chans) /\ k # 0
  BY Pending
<1>2. /\ InOrder' /\ ClosedOnRequest' /\ AwareOnly' /\ AllClients' /\ AllRequests'
      /\ \A j \in 1 .. Len(chans) : /\ chans'[j].policy = chans[j].policy
                                    /\ chans'[j].closed = chans[j].closed
                                    /\ j # k => Newest(j)' = Newest(j)
  BY <1>1, ChangesKeep
<1>3. TypeOK'
  BY TypeFrames DEF TInv, TypeOK, ChanTypes, LoopTypes, Changes, clientVars
<1>4. MapInv'
  BY <1>2 DEF TInv, TypeOK, LoopTypes, MapTypes, MapInv, Changes, pubVars
<1>5. NewestInv'
  <2> SUFFICES ASSUME NEW h \in Groups, subscribers[h] # 0
               PROVE  /\ Newest(subscribers[h])' <= Due(h)'
                      /\ BufferSize > 0 /\ PolicyOf(h)' \in {"DropNone", "DropOldest"} =>
                            Newest(subscribers[h])' = Due(h)'
    BY DEF NewestInv
  <2>1. msg = sent /\ sent \in Nat /\ NoGroup \notin Groups
    BY TopicConstants DEF TInv, MapInv, TypeOK, PubTypes, Messages
  <2>2. subscribers' = subscribers /\ subscribers[h] \in 1 .. Len(chans)
        /\ PolicyOf(h)' = PolicyOf(h)
    BY <1>2 DEF TInv, MapInv, PolicyOf
  <2>3. CASE h = g
    <3>1. Due(h)' = sent
      BY <2>1, <2>3 DEF Due, pubVars
    <3>2. Newest(subscribers[h])' = msg
      BY <2>2, <2>3 DEF Newest
    <3> QED
      BY <2>1, <3>1, <3>2
  <2>4. CASE h # g
    <3>1. Due(h)' = Due(h)
      BY <2>1, <2>4 DEF Due, pubVars
    <3>2. subscribers[h] # k
      BY <1>1, <2>4 DEF TInv, MapInv
    <3>3. Newest(subscribers[h])' = Newest(subscribers[h])
      BY <1>2, <2>2, <3>2 DEF Newest
    <3>4. bcPc # "crashed"
      OBVIOUS
    <3> QED
      BY <2>2, <3>1, <3>3, <3>4 DEF TInv, NewestInv
  <2> QED
    BY <2>3, <2>4
<1> QED
  BY <1>2, <1>3, <1>4, <1>5 DEF TInv, AllClients, AllRequests

LEMMA TrySendTInv ==
    ASSUME TInv, NEW g \in Groups, TrySend(g) PROVE TInv'
<1>0. PICK k : k = subscribers[g]
  OBVIOUS
<1>1. /\ bcPc = "send" /\ cur = NoGroup /\ g \in todo /\ todo' = todo \ {g}
      /\ CanSend(k) /\ Push(k) /\ cur' = NoGroup
      /\ UNCHANGED <<topicVars, requestC, clientVars, subscribers, recvOn, bcPc, msg,
                     lastMessage, pubVars>>
  BY <1>0 DEF TrySend, Turn
<1>2. /\ TypeOK /\ k \in 1 .. Len(chans) /\ Ordered(k) /\ Newest(k) < msg
      /\ BufferSize > 0 /\ chans[k].policy = "DropNone" => msg = Newest(k) + 1
  BY <1>0, <1>1, Pending
<1>3. Changes(k) /\ Ordered(k)' /\ Newest(k)' = msg
  BY <1>1, <1>2, PushChan
<1>4. g \in todo \cup {cur} /\ cur \in {g, NoGroup}
  BY <1>1
<1> QED
  BY <1>0, <1>1, <1>3, <1>4, SentTInv

LEMMA WaitedSendTInv ==
    ASSUME TInv, WaitedSend PROVE TInv'
<1>0. PICK k, g : k = subscribers[cur] /\ g = cur
  OBVIOUS
<1>1. /\ Waiting({"DropNone", "DropNewestAfterTimeout"}) /\ CanSend(k) /\ Push(k)
      /\ UNCHANGED <<topicVars, requestC, clientVars, subscribers, recvOn, bcPc, msg,
                     todo, lastMessage, pubVars>>
  BY <1>0 DEF WaitedSend
<1>2. /\ bcPc = "send" /\ g \in Groups /\ cur' = NoGroup /\ todo \ {g} = todo
      /\ TypeOK /\ k \in 1 .. Len(chans) /\ Ordered(k) /\ Newest(k) < msg
      /\ BufferSize > 0 /\ chans[k].policy = "DropNone" => msg = Newest(k) + 1
  BY <1>0, <1>1, WaitingFor
<1>3. Changes(k) /\ Ordered(k)' /\ Newest(k)' = msg
  BY <1>1, <1>2, PushChan
<1>4. g \in todo \cup {cur} /\ cur \in {g, NoGroup} /\ todo' = todo \ {g}
      /\ k = subscribers[g]
  BY <1>0, <1>1, <1>2
<1> QED
  BY <1>1, <1>2, <1>3, <1>4, SentTInv

LEMMA DropOldestSwapTInv ==
    ASSUME TInv, DropOldestSwap PROVE TInv'
<1>0. PICK k, g : k = subscribers[cur] /\ g = cur
  OBVIOUS
<1>1. /\ Waiting({"DropOldest"}) /\ chans[k].buf # <<>>
      /\ UNCHANGED <<topicVars, requestC, clientVars, subscribers, recvOn, bcPc, msg,
                     todo, lastMessage, pubVars>>
  BY <1>0 DEF DropOldestSwap
<1>2. chans' = [chans EXCEPT ![k].buf = SwapOldest(chans[k].buf),
                             ![k].passed = Head(chans[k].buf)]
  BY <1>0, Zenon DEF DropOldestSwap
<1>3. /\ bcPc = "send" /\ g \in Groups /\ cur' = NoGroup /\ todo \ {g} = todo
      /\ TypeOK /\ k \in 1 .. Len(chans) /\ Ordered(k) /\ Newest(k) < msg
      /\ chans[k].policy # "DropNone"
  BY <1>0, <1>1, WaitingFor
<1>4. Changes(k) /\ Ordered(k)' /\ Newest(k)' = msg
  BY <1>1, <1>2, <1>3, SwapChan, Zenon
<1>5. g \in todo \cup {cur} /\ cur \in {g, NoGroup} /\ todo' = todo \ {g}
      /\ k = subscribers[g]
  BY <1>0, <1>1, <1>3
<1> QED
  BY <1>1, <1>3, <1>4, <1>5, SentTInv

(* A step of the loop that touches no channel. *)
LEMMA LoopTInv ==
    ASSUME TInv, TypeOK', MapInv', NewestInv',
           UNCHANGED <<topicVars, requestC, clientVars, subscribers, chans, recvOn>>
    PROVE  TInv'
<1>1. InOrder' /\ ClosedOnRequest' /\ AwareOnly' /\ AllClients' /\ AllRequests'
  BY Frames DEF topicVars, clientVars, callVars
<1> QED
  BY <1>1 DEF TInv, AllClients, AllRequests

LEMMA ReceiveMessageTInv ==
    ASSUME TInv, ReceiveMessage PROVE TInv'
<1> USE DEF ReceiveMessage
<1>1. TypeOK'
  <2>1. LoopTypes' /\ PubTypes'
    BY DEF TInv, TypeOK, LoopTypes, PubTypes, Messages
  <2> QED
    BY <2>1, TypeFrames DEF TypeOK, clientVars
<1>2. MapInv'
  BY TopicConstants DEF TInv, TypeOK, MapTypes, LoopTypes, MapInv
<1>3. NewestInv'
  <2> SUFFICES ASSUME NEW h \in Groups, subscribers[h] # 0
               PROVE  /\ Newest(subscribers[h])' <= Due(h)'
                      /\ BufferSize > 0 /\ PolicyOf(h)' \in {"DropNone", "DropOldest"} =>
                            Newest(subscribers[h])' = Due(h)'
    BY DEF NewestInv
  <2>1. Due(h)' = lastMessage /\ Due(h) = lastMessage /\ bcPc # "crashed"
    BY DEF Due, TInv, MapInv
  <2>2. Newest(subscribers[h])' = Newest(subscribers[h]) /\ PolicyOf(h)' = PolicyOf(h)
    BY DEF Newest, PolicyOf
  <2> QED
    BY <2>1, <2>2 DEF TInv, NewestInv
<1> QED
  BY <1>1, <1>2, <1>3, LoopTInv

LEMMA StillAtMost ==
    ASSUME NEW x \in Nat \cup {-1}, NEW y \in Nat, x <= y PROVE x <= y + 1
OBVIOUS

(* The loop is done with group g, or waits for it, and the channels stay: the *)
(* message is dropped only where the policy drops new messages.               *)
LEMMA SkipTInv ==
    ASSUME TInv, bcPc = "send", NEW g \in Groups, g \in todo \cup {cur},
           cur \in {g, NoGroup}, todo' = todo \ {g},
           cur' = g \/ (cur' = NoGroup /\ PolicyOf(g) \notin {"DropNone", "DropOldest"}),
           UNCHANGED <<topicVars, requestC, clientVars, subscribers, chans, recvOn, bcPc,
                       msg, lastMessage, pubVars>>
    PROVE  TInv'
<1>1. TypeOK'
  BY TypeFrames DEF TInv, TypeOK, LoopTypes, clientVars
<1>2. subscribers[g] # 0
  BY Pending
<1>3. MapInv'
  BY <1>2 DEF TInv, TypeOK, LoopTypes, MapInv, pubVars
<1>4. NewestInv'
  <2> SUFFICES ASSUME NEW h \in Groups, subscribers[h] # 0
               PROVE  /\ Newest(subscribers[h])' <= Due(h)'
                      /\ BufferSize > 0 /\ PolicyOf(h)' \in {"DropNone", "DropOldest"} =>
                            Newest(subscribers[h])' = Due(h)'
    BY DEF NewestInv
  <2>1. Newest(subscribers[h])' = Newest(subscribers[h]) /\ PolicyOf(h)' = PolicyOf(h)
    BY DEF Newest, PolicyOf
  <2>2. /\ Newest(subscribers[h]) <= Due(h)
        /\ BufferSize > 0 /\ PolicyOf(h) \in {"DropNone", "DropOldest"} =>
              Newest(subscribers[h]) = Due(h)
    BY DEF TInv, NewestInv
  <2>3. sent = lastMessage + 1 /\ lastMessage \in Nat /\ NoGroup \notin Groups
        /\ Newest(subscribers[h]) \in Nat \cup {-1}
    BY MapAt DEF TInv, MapInv
  <2>4. CASE h # g \/ cur' = g
    <3>1. Due(h)' = Due(h)
      BY <2>3, <2>4 DEF Due, pubVars
    <3> QED
      BY <2>1, <2>2, <3>1
  <2>5. CASE h = g /\ cur' # g
    <3>1. Due(h) = lastMessage /\ Due(h)' = sent
      BY <2>3, <2>5 DEF Due, pubVars
    <3>2. PolicyOf(h) \notin {"DropNone", "DropOldest"}
      BY <2>5
    <3> QED
      BY <2>1, <2>2, <2>3, <3>1, <3>2, StillAtMost
  <2> QED
    BY <2>4, <2>5
<1> QED
  BY <1>1, <1>3, <1>4, LoopTInv

LEMMA TryMissedTInv ==
    ASSUME TInv, NEW g \in Groups, TryMissed(g) PROVE TInv'
<1>1. /\ bcPc = "send" /\ g \in todo \cup {cur} /\ cur \in {g, NoGroup}
      /\ todo' = todo \ {g}
      /\ UNCHANGED <<topicVars, requestC, clientVars, subscribers, chans, recvOn, bcPc,
                     msg, lastMessage, pubVars>>
  BY DEF TryMissed, Turn
<1>2. cur' = g \/ (cur' = NoGroup /\ PolicyOf(g) \notin {"DropNone", "DropOldest"})
  BY DEF TryMissed, DropsAtOnce
<1> QED
  BY <1>1, <1>2, SkipTInv

LEMMA DropNewestTimeoutTInv ==
    ASSUME TInv, DropNewestTimeout PROVE TInv'
<1>0. PICK k, g : k = subscribers[cur] /\ g = cur
  OBVIOUS
<1>1. /\ Waiting({"DropNewestAfterTimeout"})
      /\ UNCHANGED <<topicVars, requestC, clientVars, subscribers, chans, recvOn, bcPc,
                     msg, todo, lastMessage, pubVars>>
  BY DEF DropNewestTimeout
<1>2. /\ bcPc = "send" /\ g \in Groups /\ cur' = NoGroup /\ todo \ {g} = todo
      /\ PolicyOf(g) = "DropNewestAfterTimeout"
  BY <1>0, <1>1, WaitingFor DEF PolicyOf
<1>3. g \in todo \cup {cur} /\ cur \in {g, NoGroup} /\ todo' = todo \ {g}
  BY <1>0, <1>1, <1>2
<1> QED
  BY <1>1, <1>2, <1>3, SkipTInv

(* The goroutine panics, ends the broadcast, or returns. *)
LEMMA OutOfLoopTInv ==
    ASSUME TInv, (\E g \in Groups : NilPolicyPanics(g)) \/ EndBroadcast
                 \/ BroadcasterReturns
    PROVE  TInv'
<1> USE DEF NilPolicyPanics, Turn, EndBroadcast, BroadcasterReturns
<1>1. TypeOK'
  BY TypeFrames DEF TInv, TypeOK, LoopTypes, clientVars
<1>2. MapInv'
  BY DEF TInv, TypeOK, LoopTypes, PubTypes, MapInv, Messages, pubVars
<1>3. NewestInv'
  <2> SUFFICES ASSUME NEW h \in Groups, subscribers[h] # 0, bcPc' # "crashed"
               PROVE  /\ Newest(subscribers[h])' <= Due(h)'
                      /\ BufferSize > 0 /\ PolicyOf(h)' \in {"DropNone", "DropOldest"} =>
                            Newest(subscribers[h])' = Due(h)'
    BY DEF NewestInv
  <2>1. Newest(subscribers[h])' = Newest(subscribers[h]) /\ PolicyOf(h)' = PolicyOf(h)
    BY DEF Newest, PolicyOf
  <2>2. Due(h)' = Due(h) /\ bcPc # "crashed"
    BY TopicConstants DEF Due, pubVars
  <2> QED
    BY <2>1, <2>2 DEF TInv, NewestInv
<1>4. UNCHANGED <<topicVars, requestC, clientVars, subscribers, chans, recvOn>>
  OBVIOUS
<1> QED
  BY <1>1, <1>2, <1>3, <1>4, LoopTInv

-----------------------------------------------------------------------------
(* The broadcaster's requests.                                              *)

(* The answer goes to the client that waits for it, if any still does. *)
LEMMA Answered ==
    ASSUME TInv, NEW r \in Request, RequestInv(r), r.op \in {"subscribe", "unsubscribe"},
           NEW k \in Nat, NEW err \in BOOLEAN, Answer(r, k, err),
           Len(chans') \in Nat, Len(chans') >= Len(chans),
           r.op = "subscribe" => k \in 1 .. Len(chans'),
           UNCHANGED callVars
    PROVE  /\ AllClients'
           /\ response' \in [Clients -> [ch : ChanIds, err : BOOLEAN, set : BOOLEAN]]
<1> DEFINE a == [ch |-> k, err |-> err, set |-> TRUE]
<1>1. a \in [ch : ChanIds, err : BOOLEAN, set : BOOLEAN] /\ a.ch = k /\ a.set
  BY DEF ChanIds
<1>2. r.answerTo \in Clients \cup {NoClient} /\ Len(chans) \in Nat
  BY ChansAt DEF Request
<1>3. /\ response \in [Clients -> [ch : ChanIds, err : BOOLEAN, set : BOOLEAN]]
      /\ \A c \in Clients : ClientInv(c)
  BY DEF TInv, TypeOK, ResponseTypes
<1>4. 1 .. Len(chans) \subseteq 1 .. Len(chans')
  BY <1>2
<1>5. CASE r.answerTo = NoClient
  <2>1. response' = response
    BY <1>5 DEF Answer
  <2> QED
    BY <1>3, <1>4, <2>1 DEF AllClients, ClientInv, callVars
<1>6. CASE r.answerTo # NoClient
  <2>1. response' = [response EXCEPT ![r.answerTo] = a] /\ r.answerTo \in Clients
    BY <1>2, <1>6 DEF Answer
  <2>2. clientPc[r.answerTo] = IF r.op = "subscribe" THEN "subWait" ELSE "unsubWait"
    BY <1>6 DEF RequestInv
  <2> HIDE DEF a
  <2>3. response' \in [Clients -> [ch : ChanIds, err : BOOLEAN, set : BOOLEAN]]
    BY <1>1, <1>3, <2>1
  <2>4. AllClients'
    BY <1>1, <1>3, <1>4, <2>1, <2>2 DEF AllClients, ClientInv, callVars
  <2> QED
    BY <2>3, <2>4
<1> QED
  BY <1>5, <1>6

LEMMA SubscribeExistingTInv ==
    ASSUME TInv, SubscribeExisting PROVE TInv'
<1>0. PICK r, k : r = Head(requestC) /\ k = subscribers[GroupOf[r.conf]]
  OBVIOUS
<1>1. /\ TakeRequest("subscribe") /\ k # 0 /\ Answer(r, k, r.conf \in ErrIfExists)
      /\ recvOn' = (recvOn \/ (SubscriberAware /\ r.conf \notin ErrIfExists))
      /\ UNCHANGED <<topicVars, callVars, subscribers, chans, loopVars, pubVars>>
  BY <1>0 DEF SubscribeExisting
<1>2. /\ requestC' \in Seq(Request) /\ Len(requestC') <= 1 /\ AllRequests'
      /\ r \in Request /\ RequestInv(r) /\ r.op = "subscribe"
  BY <1>0, <1>1, Taken
<1>3. r.conf \in Clients /\ GroupOf[r.conf] \in Groups
  BY <1>2, TopicConstants DEF RequestInv
<1>4. k \in 1 .. Len(chans) /\ Len(chans) \in Nat
  BY <1>0, <1>1, <1>3, MapAt, ChansAt
<1>5. /\ AllClients'
      /\ response' \in [Clients -> [ch : ChanIds, err : BOOLEAN, set : BOOLEAN]]
  <2>1. k \in Nat /\ Len(chans') \in Nat /\ Len(chans') >= Len(chans)
        /\ k \in 1 .. Len(chans') /\ (r.conf \in ErrIfExists) \in BOOLEAN
    BY <1>1, <1>4
  <2> QED
    BY <1>1, <1>2, <2>1, Answered
<1>6. TypeOK'
  BY <1>1, <1>2, <1>5, TopicConstants, TypeFrames
     DEF TInv, TypeOK, QueueTypes, ResponseTypes, MapTypes
<1>7. InOrder' /\ ClosedOnRequest' /\ MapInv' /\ NewestInv'
  BY <1>1, Frames DEF topicVars, callVars, pubVars
<1>8. AwareOnly'
  BY <1>0, <1>1, <1>3 DEF AwareOnly
<1> QED
  BY <1>2, <1>5, <1>6, <1>7, <1>8 DEF TInv, AllClients, AllRequests

LEMMA SubscribeNewTInv ==
    ASSUME TInv, SubscribeNew PROVE TInv'
<1>0. PICK r, g, n : r = Head(requestC) /\ g = GroupOf[r.conf] /\ n = Len(chans) + 1
  OBVIOUS
<1>1. /\ TakeRequest("subscribe") /\ subscribers[g] = 0 /\ Answer(r, n, FALSE)
      /\ subscribers' = [subscribers EXCEPT ![g] = n]
      /\ chans' = Append(chans, NewSubscriber(Policy[r.conf]))
      /\ recvOn' = (recvOn \/ SubscriberAware)
      /\ UNCHANGED <<topicVars, callVars, loopVars, pubVars>>
  BY <1>0 DEF SubscribeNew
<1>2. /\ requestC' \in Seq(Request) /\ Len(requestC') <= 1 /\ AllRequests'
      /\ r \in Request /\ RequestInv(r) /\ r.op = "subscribe"
      /\ bcPc = "select" /\ cur = NoGroup /\ sent = lastMessage
      /\ \A h \in Groups : Due(h) = lastMessage
  BY <1>0, <1>1, Taken
<1>3. r.conf \in Clients /\ g \in Groups /\ Policy[r.conf] \in Policies
  BY <1>0, <1>2, TopicConstants DEF RequestInv
<1>4. /\ chans' \in Seq(Chan) /\ Len(chans') = n /\ n \in Nat \ {0}
      /\ \A j \in 1 .. Len(chans) : chans'[j] = chans[j]
      /\ \A j \in DOMAIN chans' : Len(chans'[j].buf) <= BufferSize
      /\ ~chans'[n].closed /\ InOrder' /\ Newest(n)' <= lastMessage
      /\ BufferSize > 0 => Newest(n)' = lastMessage
  BY <1>0, <1>1, <1>3, NewChan DEF TInv
<1>5. /\ Len(chans) \in Nat /\ n \notin 1 .. Len(chans) /\ n \in 1 .. n
      /\ 1 .. Len(chans) \subseteq 1 .. n /\ n >= Len(chans) /\ n \in Nat
      /\ subscribers \in [Groups -> ChanIds]
  <2>1. \A l \in Nat : /\ l + 1 \notin 1 .. l /\ l + 1 \in 1 .. l + 1
                       /\ 1 .. l \subseteq 1 .. l + 1 /\ l + 1 >= l /\ l + 1 \in Nat
    OBVIOUS
  <2>2. Len(chans) \in Nat /\ subscribers \in [Groups -> ChanIds]
    BY ChansAt DEF TInv, TypeOK, MapTypes
  <2> QED
    BY <1>0, <2>1, <2>2, Zenon
<1>6. /\ AllClients'
      /\ response' \in [Clients -> [ch : ChanIds, err : BOOLEAN, set : BOOLEAN]]
  <2>1. n \in Nat /\ Len(chans') = n /\ n >= Len(chans) /\ n \in 1 .. n
    BY <1>4, <1>5, Zenon
  <2> QED
    BY <1>1, <1>2, <2>1, Answered
<1>7. TypeOK'
  <2>1. subscribers' \in [Groups -> ChanIds] /\ recvOn' \in BOOLEAN
    BY <1>1, <1>3, <1>4, <1>5, TopicConstants DEF TInv, TypeOK, MapTypes, ChanIds
  <2>2. TypeOK
    BY DEF TInv
  <2> QED
    BY <1>1, <1>2, <1>4, <1>6, <2>1, <2>2, TypeFrames
       DEF TInv, TypeOK, QueueTypes, ResponseTypes, MapTypes, ChanTypes
<1>8. ClosedOnRequest'
  <2>1. ASSUME NEW j \in DOMAIN chans', chans'[j].closed
        PROVE  j \in 1 .. Len(chans) /\ chans[j].closed
    <3>1. j # n /\ j \in 1 .. n
      BY <1>4, <2>1
    <3>2. j \in 1 .. Len(chans)
      BY <1>0, <1>5, <3>1
    <3> QED
      BY <1>4, <2>1, <3>2
  <2> QED
    BY <1>1, <2>1 DEF TInv, TypeOK, ChanTypes, ClosedOnRequest, topicVars, callVars
<1>9. AwareOnly'
  BY <1>1, <1>3, <1>4, <1>5 DEF AwareOnly
<1>10. MapInv'
  <2>1. ASSUME NEW h \in Groups, subscribers'[h] # 0
        PROVE  /\ subscribers'[h] \in 1 .. Len(chans') /\ ~chans'[subscribers'[h]].closed
               /\ \A f \in Groups \ {h} : subscribers'[f] # subscribers'[h]
    <3>1. ASSUME NEW f \in Groups, f # g
          PROVE  /\ subscribers'[f] = subscribers[f] /\ subscribers'[f] # n
                 /\ subscribers[f] # 0 => subscribers[f] \in 1 .. Len(chans)
      BY <1>1, <1>4, <1>5, <3>1 DEF TInv, MapInv
    <3>2. subscribers'[g] = n
      BY <1>1, <1>3, <1>5
    <3>3. CASE h = g
      BY <1>4, <1>5, <3>1, <3>2, <3>3
    <3>4. CASE h # g
      <4>1. subscribers'[h] = subscribers[h] /\ subscribers[h] \in 1 .. Len(chans)
            /\ ~chans[subscribers[h]].closed
        BY <2>1, <3>1, <3>4 DEF TInv, MapInv
      <4>2. \A f \in Groups \ {h} : subscribers'[f] # subscribers'[h]
        BY <2>1, <3>1, <3>2, <3>4, <4>1 DEF TInv, MapInv
      <4> QED
        BY <1>4, <1>5, <4>1, <4>2
    <3> QED
      BY <3>3, <3>4
  <2> QED
    BY <1>1, <1>2, <2>1 DEF TInv, MapInv, loopVars, pubVars
<1>11. NewestInv'
  <2> SUFFICES ASSUME NEW h \in Groups, subscribers'[h] # 0
               PROVE  /\ Newest(subscribers[h])' <= Due(h)'
                      /\ BufferSize > 0 /\ PolicyOf(h)' \in {"DropNone", "DropOldest"} =>
                            Newest(subscribers[h])' = Due(h)'
    BY DEF NewestInv
  <2>1. Due(h)' = lastMessage /\ lastMessage \in Nat
    BY <1>1, <1>2 DEF Due, loopVars, pubVars, TInv, TypeOK, LoopTypes, Messages
  <2>2. CASE h = g
    <3>1. subscribers'[h] = n
      BY <1>1, <1>3, <1>5, <2>2
    <3>2. /\ Newest(subscribers[h])' <= lastMessage
          /\ BufferSize > 0 => Newest(subscribers[h])' = lastMessage
      BY <1>4, <3>1 DEF Newest
    <3> QED
      BY <2>1, <3>2
  <2>3. CASE h # g
    <3>1. subscribers'[h] = subscribers[h] /\ subscribers[h] # 0
      BY <1>1, <1>5, <2>3
    <3>2. subscribers[h] \in 1 .. Len(chans)
      BY <3>1, MapAt
    <3>3. chans'[subscribers'[h]] = chans[subscribers[h]]
      BY <1>4, <3>1, <3>2
    <3>4. Newest(subscribers[h])' = Newest(subscribers[h]) /\ PolicyOf(h)' = PolicyOf(h)
      BY <3>1, <3>3 DEF Newest, PolicyOf
    <3> QED
      BY <1>2, <2>1, <3>1, <3>4 DEF TInv, NewestInv
  <2> QED
    BY <2>2, <2>3
<1> QED
  BY <1>2, <1>4, <1>6, <1>7, <1>8, <1>9, <1>10, <1>11 DEF TInv, AllClients, AllRequests

(* Groups leave the map; only their channels close. *)
LEMMA RemovedGroups ==
    ASSUME TInv, Closings, bcPc = "select", cur = NoGroup,
           \A h \in Groups : subscribers'[h] # 0 =>
               /\ subscribers'[h] = subscribers[h]
               /\ chans'[subscribers[h]].closed = chans[subscribers[h]].closed,
           UNCHANGED <<loopVars, pubVars>>
    PROVE  /\ InOrder' /\ MapInv' /\ NewestInv'
           /\ \A j \in DOMAIN chans' : Len(chans'[j].buf) <= BufferSize
<1>1. /\ InOrder' /\ \A j \in DOMAIN chans' : Len(chans'[j].buf) <= BufferSize
      /\ \A j \in 1 .. Len(chans) : Newest(j)' = Newest(j)
  BY ClosingsKeep DEF TInv
<1>2. ASSUME NEW h \in Groups, subscribers'[h] # 0
      PROVE  /\ subscribers'[h] = subscribers[h] /\ subscribers[h] \in 1 .. Len(chans)
             /\ ~chans'[subscribers[h]].closed
  BY <1>2 DEF TInv, MapInv
<1>3. MapInv'
  <2>1. ASSUME NEW h \in Groups, subscribers'[h] # 0
        PROVE  /\ subscribers'[h] \in 1 .. Len(chans') /\ ~chans'[subscribers'[h]].closed
               /\ \A f \in Groups \ {h} : subscribers'[f] # subscribers'[h]
    <3>1. \A f \in Groups \ {h} : subscribers[f] # subscribers[h]
      BY <1>2, <2>1 DEF TInv, MapInv
    <3> QED
      BY <1>2, <2>1, <3>1 DEF Closings
  <2> QED
    BY <2>1 DEF TInv, MapInv, loopVars, pubVars
<1>4. NewestInv'
  <2> SUFFICES ASSUME NEW h \in Groups, subscribers'[h] # 0
               PROVE  /\ Newest(subscribers[h])' <= Due(h)'
                      /\ BufferSize > 0 /\ PolicyOf(h)' \in {"DropNone", "DropOldest"} =>
                            Newest(subscribers[h])' = Due(h)'
    BY DEF NewestInv
  <2>1. subscribers'[h] = subscribers[h] /\ subscribers[h] \in 1 .. Len(chans)
        /\ subscribers[h] # 0
    BY <1>2
  <2>2. PolicyOf(h)' = PolicyOf(h) /\ Due(h)' = Due(h)
    BY <2>1 DEF PolicyOf, Due, Closings, loopVars, pubVars
  <2>3. Newest(subscribers[h])' = Newest(subscribers[h])
    BY <1>1, <2>1 DEF Newest
  <2> QED
    BY <2>1, <2>2, <2>3 DEF TInv, NewestInv
<1> QED
  BY <1>1, <1>3, <1>4

LEMMA HandleUnsubscribeTInv ==
    ASSUME TInv, HandleUnsubscribe PROVE TInv'
<1>0. PICK r, g, k : r = Head(requestC) /\ g = GroupOf[r.conf] /\ k = subscribers[g]
  OBVIOUS
<1>1. /\ TakeRequest("unsubscribe")
      /\ UNCHANGED <<topicVars, callVars, loopVars, pubVars>>
  BY DEF HandleUnsubscribe
<1>2. /\ requestC' \in Seq(Request) /\ Len(requestC') <= 1 /\ AllRequests'
      /\ r \in Request /\ RequestInv(r) /\ r.op = "unsubscribe"
      /\ bcPc = "select" /\ cur = NoGroup
  BY <1>0, <1>1, Taken
<1>3. g \in Groups /\ r.ch \in asked
  BY <1>0, <1>2, TopicConstants DEF RequestInv
<1>4. TypeOK /\ Len(chans) \in Nat /\ subscribers \in [Groups -> ChanIds]
      /\ DOMAIN chans = 1 .. Len(chans)
  BY DEF TInv, TypeOK, ChanTypes, MapTypes
<1>5. ASSUME Unsubscribes(r, k), subscribers' = [subscribers EXCEPT ![g] = 0],
             chans' = [chans EXCEPT ![k].closed = TRUE], recvOn' = RecvWithout(g),
             Answer(r, 0, FALSE)
      PROVE  TInv'
  <2>1. k # 0 /\ k = r.ch /\ k \in 1 .. Len(chans)
    BY <1>0, <1>3, <1>5, MapAt DEF Unsubscribes
  <2>2. /\ Closings
        /\ \A j \in 1 .. Len(chans) : j # k => chans'[j].closed = chans[j].closed
    BY <1>4, <1>5, <2>1, CloseChan
  <2>3. ASSUME NEW h \in Groups, subscribers'[h] # 0
        PROVE  /\ subscribers'[h] = subscribers[h]
               /\ chans'[subscribers[h]].closed = chans[subscribers[h]].closed
    <3>1. h # g /\ subscribers'[h] = subscribers[h]
      BY <1>4, <1>5, <2>3
    <3>2. subscribers[h] # k /\ subscribers[h] \in 1 .. Len(chans)
      BY <1>0, <1>3, <2>1, <2>3, <3>1 DEF TInv, MapInv
    <3> QED
      BY <2>2, <3>1, <3>2
  <2>4. /\ InOrder' /\ MapInv' /\ NewestInv'
        /\ \A j \in DOMAIN chans' : Len(chans'[j].buf) <= BufferSize
    BY <1>1, <1>2, <2>2, <2>3, RemovedGroups
  <2>5. /\ AllClients'
        /\ response' \in [Clients -> [ch : ChanIds, err : BOOLEAN, set : BOOLEAN]]
    <3>1. Len(chans') \in Nat /\ Len(chans') >= Len(chans)
      BY <1>4, <2>2 DEF Closings
    <3> QED
      BY <1>1, <1>2, <1>5, <3>1, Answered
  <2>6. subscribers' \in [Groups -> ChanIds] /\ recvOn' \in BOOLEAN
    BY <1>4, <1>5 DEF ChanIds, RecvWithout, TypeOK, MapTypes
  <2>7. TypeOK'
    BY <1>1, <1>2, <2>2, <2>4, <2>5, <2>6, TypeFrames
       DEF TInv, TypeOK, QueueTypes, ResponseTypes, MapTypes, ChanTypes, Closings
  <2>8. ClosedOnRequest'
    <3>1. DOMAIN chans' = 1 .. Len(chans)
      BY <2>2 DEF Closings
    <3> QED
      BY <1>1, <1>3, <1>4, <2>1, <2>2, <3>1
         DEF TInv, ClosedOnRequest, topicVars, callVars
  <2>9. AwareOnly'
    BY <1>4, <1>5 DEF AwareOnly, RecvWithout
  <2> QED
    BY <1>2, <2>4, <2>5, <2>7, <2>8, <2>9 DEF TInv, AllClients, AllRequests
<1>6. ASSUME recvOn' = (IF k = 0 THEN RecvWithout(g) ELSE recvOn),
             Answer(r, 0, k # 0), UNCHANGED <<subscribers, chans>>
      PROVE  TInv'
  <2>1. /\ AllClients'
        /\ response' \in [Clients -> [ch : ChanIds, err : BOOLEAN, set : BOOLEAN]]
    <3>1. Len(chans') \in Nat /\ Len(chans') >= Len(chans) /\ (k # 0) \in BOOLEAN
      BY <1>4, <1>6
    <3> QED
      BY <1>1, <1>2, <1>6, <3>1, Answered
  <2>2. recvOn' \in BOOLEAN /\ (recvOn' => recvOn)
    BY <1>4, <1>6 DEF RecvWithout, TypeOK, MapTypes
  <2>3. TypeOK'
    BY <1>1, <1>2, <1>6, <2>1, <2>2, TypeFrames
       DEF TInv, TypeOK, QueueTypes, ResponseTypes, MapTypes
  <2>4. InOrder' /\ ClosedOnRequest' /\ MapInv' /\ NewestInv'
    BY <1>1, <1>6, Frames DEF topicVars, callVars, pubVars
  <2>5. AwareOnly'
    BY <1>6, <2>2 DEF TInv, AwareOnly
  <2> QED
    BY <1>2, <2>1, <2>3, <2>4, <2>5 DEF TInv, AllClients, AllRequests
<1> QED
  BY <1>0, <1>5, <1>6 DEF HandleUnsubscribe, RemoveGroup

LEMMA HandleCloseTInv ==
    ASSUME TInv, HandleClose PROVE TInv'
<1>1. /\ TakeRequest("close") /\ recvOn' = FALSE /\ closePc' = "closeRequests"
      /\ subscribers' = [g \in Groups |-> 0]
      /\ UNCHANGED <<closed, requestsOpen, publishOpen, clientVars, loopVars, pubVars>>
  BY DEF HandleClose, AnswerClose
<1>2. /\ requestC' \in Seq(Request) /\ Len(requestC') <= 1 /\ AllRequests'
      /\ bcPc = "select" /\ cur = NoGroup
  BY <1>1, Taken
<1>3. TypeOK /\ chans \in Seq(Chan) /\ Len(chans) \in Nat
      /\ DOMAIN chans = 1 .. Len(chans)
  BY DEF TInv, TypeOK, ChanTypes
<1>4. Closings
  <2> DEFINE y(j) == IF \E g \in Groups : subscribers[g] = j
                     THEN [chans[j] EXCEPT !.closed = TRUE] ELSE chans[j]
  <2>1. chans' = [j \in 1 .. Len(chans) |-> y(j)]
    BY <1>3 DEF HandleClose
  <2>2. ASSUME NEW j \in 1 .. Len(chans)
        PROVE  /\ y(j) \in Chan /\ y(j).buf = chans[j].buf
               /\ y(j).passed = chans[j].passed /\ y(j).policy = chans[j].policy
    <3>1. chans[j] \in Chan
      BY <1>3
    <3> QED
      BY <3>1 DEF Chan
  <2> HIDE DEF y
  <2>3. chans' \in Seq(Chan) /\ Len(chans') = Len(chans)
        /\ \A j \in 1 .. Len(chans) : chans'[j] = y(j)
    <3>1. chans' \in [1 .. Len(chans) -> Chan]
      BY <2>1, <2>2
    <3> QED
      BY <1>3, <2>1, <3>1, SequenceOf
  <2> QED
    BY <2>2, <2>3 DEF Closings
<1>5. \A h \in Groups : subscribers'[h] = 0
  BY <1>1
<1>6. /\ InOrder' /\ MapInv' /\ NewestInv'
      /\ \A j \in DOMAIN chans' : Len(chans'[j].buf) <= BufferSize
  BY <1>1, <1>2, <1>4, <1>5, RemovedGroups
<1>7. TypeOK'
  BY <1>1, <1>2, <1>4, <1>6, TypeFrames
     DEF TInv, TypeOK, TopicTypes, QueueTypes, MapTypes, ChanTypes, Closings, ChanIds,
         clientVars
<1>8. ClosedOnRequest' /\ AwareOnly'
  BY <1>1 DEF ClosedOnRequest, AwareOnly
<1>9. AllClients'
  BY <1>1, <1>4 DEF TInv, AllClients, ClientInv, Closings, clientVars, callVars
<1> QED
  BY <1>2, <1>6, <1>7, <1>8, <1>9 DEF TInv, AllClients, AllRequests

LEMMA BroadcastTInv ==
    ASSUME TInv, Broadcast PROVE TInv'
<1>1. CASE (\E g \in Groups : NilPolicyPanics(g)) \/ EndBroadcast \/ BroadcasterReturns
  BY <1>1, OutOfLoopTInv
<1>2. CASE \E g \in Groups : TrySend(g) \/ TryMissed(g)
  BY <1>2, TrySendTInv, TryMissedTInv
<1>3. CASE ReceiveMessage \/ WaitedSend \/ DropNewestTimeout \/ DropOldestSwap
  BY <1>3, ReceiveMessageTInv, WaitedSendTInv, DropNewestTimeoutTInv, DropOldestSwapTInv
<1>4. CASE SubscribeExisting \/ SubscribeNew \/ HandleUnsubscribe \/ HandleClose
  BY <1>4, SubscribeExistingTInv, SubscribeNewTInv, HandleUnsubscribeTInv,
     HandleCloseTInv
<1> QED
  BY <1>1, <1>2, <1>3, <1>4 DEF Broadcast

-----------------------------------------------------------------------------
(* The theorems.                                                            *)

(* TInv holds when the topic is created. *)
LEMMA TInvInit == Init => TInv
<1> SUFFICES ASSUME Init PROVE TInv
  OBVIOUS
<1> USE DEF Init
<1>1. requestC \in Seq(Request) /\ Len(requestC) = 0 /\ DOMAIN requestC = {}
      /\ chans \in Seq(Chan) /\ DOMAIN chans = {}
  OBVIOUS
<1>2. TypeOK
  <2>1. response \in [Clients -> [ch : ChanIds, err : BOOLEAN, set : BOOLEAN]]
    BY DEF NoResponse, ChanIds
  <2>2. /\ requestC \in Seq(Request) /\ Len(requestC) <= 1
        /\ chans \in Seq(Chan) /\ \A k \in DOMAIN chans : Len(chans[k].buf) <= BufferSize
    BY <1>1
  <2>3. /\ clientPc \in [Clients -> {"idle", "subSend", "subWait", "holding",
                                     "unsubSend", "unsubWait", "panicked"}]
        /\ clientCh \in [Clients -> ChanIds] /\ subscribers \in [Groups -> ChanIds]
        /\ recvOn \in BOOLEAN
    BY DEF ChanIds
  <2> QED
    BY <2>1, <2>2, <2>3
       DEF TypeOK, TopicTypes, QueueTypes, CallTypes, ResponseTypes, MapTypes, ChanTypes,
           LoopTypes, PubTypes, ChanIds, Messages
<1>3. InOrder /\ ClosedOnRequest /\ AwareOnly /\ AllRequests
  BY <1>1 DEF InOrder, ClosedOnRequest, AwareOnly, AllRequests
<1>4. AllClients
  BY DEF AllClients, ClientInv, NoResponse
<1>5. MapInv /\ NewestInv
  BY DEF MapInv, NewestInv
<1> QED
  BY <1>2, <1>3, <1>4, <1>5 DEF TInv, AllClients, AllRequests

(* Every step of the topic, its clients and its publisher preserves TInv. *)
LEMMA TInvStep == TInv /\ [Next]_vars => TInv'
<1> SUFFICES ASSUME TInv, [Next]_vars PROVE TInv'
  OBVIOUS
<1>1. CASE Next
  BY <1>1, ClientTInv, CloseTInv, PublisherTInv, BroadcastTInv DEF Next
<1>2. CASE UNCHANGED vars
  <2>1. TypeOK'
    BY <1>2, TypeFrames DEF TInv, TypeOK, vars, clientVars, bcVars
  <2>2. InOrder' /\ ClosedOnRequest' /\ AwareOnly' /\ AllClients' /\ AllRequests'
        /\ MapInv' /\ NewestInv'
    BY <1>2, Frames DEF vars, topicVars, clientVars, callVars, bcVars, pubVars
  <2> QED
    BY <2>1, <2>2 DEF TInv, AllClients, AllRequests
<1> QED
  BY <1>1, <1>2

(* The inductive invariant holds for any clients, groups, policies and buffer *)
(* size.                                                                      *)
LEMMA TInvariance == Spec => []TInv
<1> QED
  BY TInvInit, TInvStep, PTL DEF Spec

(* Every variable of the topic has its type, and no subscriber channel and   *)
(* no request queue exceeds its capacity.                                    *)
THEOREM TopicTypeCorrect == Spec => []TypeOK
<1>1. TInv => TypeOK
  BY DEF TInv
<1> QED
  BY <1>1, TInvariance, PTL

(* The broadcaster never sends on a channel it has closed (broadcast_sync.go): *)
(* what its map and its range loop refer to is open and belongs to one group.  *)
THEOREM NeverSendsOnClosed == Spec => []RegisteredOpen
<1>1. TInv => RegisteredOpen
  <2> SUFFICES ASSUME TInv PROVE RegisteredOpen
    OBVIOUS
  <2>1. MapInv
    BY DEF TInv
  <2> QED
    BY <2>1 DEF MapInv, RegisteredOpen
<1> QED
  BY <1>1, TInvariance, PTL

(* Subscriber channels carry messages in publishing order, none twice, and    *)
(* under DropNone none is missing (buffer_policy.go).                         *)
THEOREM DeliversInOrder == Spec => []InOrder
<1>1. TInv => InOrder
  BY DEF TInv
<1> QED
  BY <1>1, TInvariance, PTL

(* Between broadcasts every buffered DropNone and DropOldest subscriber has   *)
(* the newest message of the topic, by sending or by the replay of the last   *)
(* message (broadcast_sync.go:29, 63).                                        *)
THEOREM NewestReaches == Spec => []UpToDate
<1>1. TInv => UpToDate
  <2> SUFFICES ASSUME TInv, bcPc = "select", BufferSize > 0,
                      NEW g \in Groups, subscribers[g] # 0,
                      PolicyOf(g) \in {"DropNone", "DropOldest"}
               PROVE  Newest(subscribers[g]) = lastMessage
    BY DEF UpToDate, PolicyOf
  <2>1. Due(g) = lastMessage
    BY DEF TInv, MapInv, Due
  <2> QED
    BY <2>1 DEF TInv, NewestInv
<1> QED
  BY <1>1, TInvariance, PTL

(* A late Unsubscribe never closes the channel of a newer subscription: until *)
(* the topic closes, a closed channel is one a client asked to unsubscribe.   *)
THEOREM ClosesOnlyAsked == Spec => []ClosedOnRequest
<1>1. TInv => ClosedOnRequest
  BY DEF TInv
<1> QED
  BY <1>1, TInvariance, PTL

(* A subscriber-aware topic takes no message from its publisher without a     *)
(* subscriber to send it to.                                                  *)
THEOREM ReceivesOnlyForSubscribers == Spec => []AwareOnly
<1>1. TInv => AwareOnly
  BY DEF TInv
<1> QED
  BY <1>1, TInvariance, PTL

-----------------------------------------------------------------------------
(* Every call that waits is answered or queued.                             *)

AInv ==
    /\ \A c \in Clients : clientPc[c] \in {"subWait", "unsubWait"} =>
          response[c].set \/ Queued(c)
    /\ closePc = "closeWait" => \E i \in DOMAIN requestC : requestC[i].op = "close"
    /\ CloseInv

(* Steps that neither touch the queue and the answers nor begin a wait. *)
LEMMA QuietAInv ==
    ASSUME AInv, UNCHANGED <<requestC, response>>,
           closePc' = "closeWait" => closePc = "closeWait",
           \A c \in Clients : clientPc'[c] \in {"subWait", "unsubWait"} =>
               clientPc[c] \in {"subWait", "unsubWait"}
    PROVE  AInv'
BY DEF AInv, Queued, CloseInv

(* A request is queued only when nothing else is. *)
LEMMA SendAInv ==
    ASSUME TInv, AInv, NEW c \in Clients, SendRequest(c) PROVE AInv'
<1>0. PICK r : r = [op |-> IF clientPc[c] = "subSend" THEN "subscribe"
                           ELSE "unsubscribe",
                    conf |-> c, ch |-> clientCh[c], answerTo |-> c]
  OBVIOUS
<1>1. /\ requestC' = Append(requestC, r) /\ RequestRoom
      /\ UNCHANGED <<response, closePc>>
      /\ \A d \in Clients \ {c} : clientPc'[d] = clientPc[d]
  BY <1>0 DEF SendRequest, Goto, topicVars, TInv, TypeOK, CallTypes
<1>2. r.answerTo = c /\ r.op # "close"
  BY <1>0
<1>3. /\ requestC = <<>> /\ DOMAIN requestC = {}
      /\ DOMAIN requestC' = {1} /\ requestC'[1] = r
  <2>1. requestC = <<>>
    BY <1>1 DEF RequestRoom, TInv, TypeOK, QueueTypes
  <2> QED
    BY <1>1, <2>1
<1>4. ASSUME NEW d \in Clients, clientPc'[d] \in {"subWait", "unsubWait"}
      PROVE  response'[d].set \/ Queued(d)'
  <2>1. CASE d = c
    BY <1>2, <1>3, <2>1 DEF Queued
  <2>2. CASE d # c
    BY <1>1, <1>3, <1>4, <2>2 DEF AInv, Queued
  <2> QED
    BY <2>1, <2>2
<1>5. closePc' # "closeWait"
  BY <1>1, <1>3 DEF AInv
<1>6. CloseInv'
  BY <1>2, <1>3 DEF CloseInv
<1> QED
  BY <1>4, <1>5, <1>6, Zenon DEF AInv

LEMMA SendCloseAInv ==
    ASSUME TInv, AInv, SendCloseRequest PROVE AInv'
<1>0. PICK r : r = [op |-> "close", conf |-> NoClient, ch |-> 0, answerTo |-> NoClient]
  OBVIOUS
<1>1. /\ requestC' = Append(requestC, r) /\ RequestRoom
      /\ UNCHANGED <<response, clientPc>>
  BY <1>0 DEF SendCloseRequest, clientVars, callVars
<1>2. r.answerTo = NoClient /\ r.op = "close"
  BY <1>0
<1>3. /\ DOMAIN requestC = {} /\ DOMAIN requestC' = {1} /\ requestC'[1] = r
  <2>1. requestC = <<>>
    BY <1>1 DEF RequestRoom, TInv, TypeOK, QueueTypes
  <2> QED
    BY <1>1, <2>1
<1> QED
  BY <1>1, <1>2, <1>3 DEF AInv, Queued, CloseInv

(* Giving up takes one client's name off its request. *)
LEMMA GiveUpAInv ==
    ASSUME TInv, AInv, NEW c \in Clients, GiveUp(c) PROVE AInv'
<1>1. /\ closePc' = closePc /\ clientPc'[c] = "idle"
      /\ \A d \in Clients \ {c} :
            clientPc'[d] = clientPc[d] /\ response'[d] = response[d]
  BY DEF GiveUp, Goto, topicVars, TInv, TypeOK, CallTypes, ResponseTypes
<1>2. DOMAIN requestC' = DOMAIN requestC
  BY DEF GiveUp
<1>3. ASSUME NEW i \in DOMAIN requestC
      PROVE  /\ requestC'[i].op = requestC[i].op
             /\ requestC'[i].answerTo = IF requestC[i].answerTo = c THEN NoClient
                                        ELSE requestC[i].answerTo
  <2>1. requestC[i] \in Request
    BY RequestAt
  <2>2. requestC'[i] = IF requestC[i].answerTo = c
                       THEN [requestC[i] EXCEPT !.answerTo = NoClient]
                       ELSE requestC[i]
    BY DEF GiveUp
  <2> QED
    BY <2>1, <2>2 DEF Request
<1>4. ASSUME NEW d \in Clients, clientPc'[d] \in {"subWait", "unsubWait"}
      PROVE  response'[d].set \/ Queued(d)'
  <2>1. /\ d # c /\ clientPc[d] \in {"subWait", "unsubWait"}
        /\ response'[d] = response[d]
    BY <1>1, <1>4
  <2>2. CASE response[d].set
    BY <2>1, <2>2
  <2>3. CASE Queued(d)
    <3>1. PICK i \in DOMAIN requestC : requestC[i].answerTo = d
      BY <2>3 DEF Queued
    <3>2. requestC'[i].answerTo = d
      BY <1>3, <2>1, <3>1
    <3> QED
      BY <1>2, <3>2 DEF Queued
  <2> QED
    BY <2>1, <2>2, <2>3 DEF AInv
<1>5. closePc' = "closeWait" => \E i \in DOMAIN requestC' : requestC'[i].op = "close"
  BY <1>1, <1>2, <1>3 DEF AInv
<1>6. CloseInv'
  BY <1>2, <1>3 DEF AInv, CloseInv
<1> QED
  BY <1>4, <1>5, <1>6, Zenon DEF AInv

(* The answer is received by the client that waited for it. *)
LEMMA ReceiveResponseAInv ==
    ASSUME TInv, AInv, NEW c \in Clients, ReceiveResponse(c) PROVE AInv'
<1>1. /\ UNCHANGED <<requestC, closePc>>
      /\ clientPc'[c] \notin {"subWait", "unsubWait"}
      /\ \A d \in Clients \ {c} :
            clientPc'[d] = clientPc[d] /\ response'[d] = response[d]
  BY DEF ReceiveResponse, Goto, topicVars, TInv, TypeOK, CallTypes, ResponseTypes
<1> QED
  BY <1>1 DEF AInv, Queued, CloseInv

(* The broadcaster takes the only request there is. *)
LEMMA TakesOnly ==
    ASSUME TInv, NEW op, TakeRequest(op)
    PROVE  /\ requestC' = <<>> /\ DOMAIN requestC' = {}
           /\ DOMAIN requestC = {1} /\ Head(requestC) = requestC[1]
           /\ requestC[1] \in Request /\ requestC[1].op = op
<1>1. requestC \in Seq(Request) /\ Len(requestC) <= 1 /\ requestC # <<>>
      /\ requestC' = Tail(requestC) /\ Head(requestC).op = op
  BY DEF TInv, TypeOK, QueueTypes, TakeRequest
<1>2. Len(requestC) = 1 /\ Head(requestC) = requestC[1] /\ requestC[1] \in Request
  <2>1. ASSUME NEW n \in Nat, n <= 1, n >= 1 PROVE n = 1
    BY <2>1
  <2> QED
    BY <1>1, <2>1, TailAt
<1>3. DOMAIN requestC = {1} /\ requestC' = <<>>
  BY <1>1, <1>2
<1> QED
  BY <1>1, <1>2, <1>3

(* and answers whoever still waits for it. *)
LEMMA AnswerAInv ==
    ASSUME TInv, AInv, NEW op \in {"subscribe", "unsubscribe"}, TakeRequest(op),
           NEW k, NEW err, Answer(Head(requestC), k, err),
           UNCHANGED <<clientPc, closePc>>
    PROVE  AInv'
<1>0. PICK r : r = requestC[1]
  OBVIOUS
<1>1. /\ DOMAIN requestC' = {} /\ DOMAIN requestC = {1} /\ Head(requestC) = r
      /\ r \in Request /\ r.op = op
  BY <1>0, TakesOnly
<1>2. closePc # "closeWait"
  BY <1>0, <1>1 DEF AInv
<1>3. ASSUME NEW c \in Clients, clientPc[c] \in {"subWait", "unsubWait"}
      PROVE  response'[c].set
  <2>1. response \in [Clients -> [ch : ChanIds, err : BOOLEAN, set : BOOLEAN]]
    BY DEF TInv, TypeOK, ResponseTypes
  <2>2. CASE r.answerTo = c
    <3>1. response' = [response EXCEPT ![c] = [ch |-> k, err |-> err, set |-> TRUE]]
      BY <1>1, <2>2, TopicConstants DEF Answer
    <3>2. response'[c] = [ch |-> k, err |-> err, set |-> TRUE]
      BY <2>1, <3>1
    <3> QED
      BY <3>2
  <2>3. CASE r.answerTo # c
    <3>1. response[c].set
      BY <1>0, <1>1, <1>3, <2>3 DEF AInv, Queued
    <3>2. response'[c] = response[c]
      BY <1>1, <2>1, <2>3 DEF Answer
    <3> QED
      BY <3>1, <3>2
  <2> QED
    BY <2>2, <2>3
<1> QED
  BY <1>1, <1>2, <1>3 DEF AInv, CloseInv

LEMMA HandleCloseAInv ==
    ASSUME TInv, AInv, HandleClose PROVE AInv'
<1>1. /\ DOMAIN requestC' = {} /\ DOMAIN requestC = {1}
      /\ requestC[1].op = "close"
  BY TakesOnly DEF HandleClose
<1>2. closePc' = "closeRequests" /\ UNCHANGED <<clientPc, response>>
  BY DEF HandleClose, AnswerClose, clientVars, callVars
<1>3. \A c \in Clients : ~Queued(c)
  BY <1>1, TopicConstants DEF AInv, CloseInv, Queued
<1> QED
  BY <1>1, <1>2, <1>3 DEF AInv, CloseInv

(* Every step of the topic and of its clients preserves AInv. *)
LEMMA AInvStep == TInv /\ AInv /\ [Next]_vars => AInv'
<1> SUFFICES ASSUME TInv, AInv, [Next]_vars PROVE AInv'
  OBVIOUS
<1> USE DEF topicVars, clientVars, callVars
<1>1. ASSUME NEW c \in Clients, Client(c) PROVE AInv'
  <2>1. CASE CallSubscribe(c) \/ CallUnsubscribe(c) \/ SendPanics(c) \/ Receive(c)
    <3>1. UNCHANGED <<requestC, response, closePc>>
      BY <2>1 DEF CallSubscribe, CallUnsubscribe, SendPanics, Receive
    <3>2. \A d \in Clients : clientPc'[d] \in {"subWait", "unsubWait"} =>
              clientPc[d] \in {"subWait", "unsubWait"}
      BY <2>1 DEF CallSubscribe, CallUnsubscribe, SendPanics, Receive, Goto,
         TInv, TypeOK, CallTypes
    <3> QED
      BY <3>1, <3>2, QuietAInv
  <2> QED
    BY <1>1, <2>1, SendAInv, GiveUpAInv, ReceiveResponseAInv DEF Client
<1>2. CASE Close
  <2>1. CASE CallClose \/ CloseRequests \/ ClosePublish
    BY <2>1, QuietAInv DEF CallClose, CloseRequests, ClosePublish
  <2> QED
    BY <1>2, <2>1, SendCloseAInv DEF Close
<1>3. CASE Publisher
  BY <1>3, QuietAInv DEF Publisher, BeginPublish, PublishPanics
<1>4. CASE SubscribeExisting
  BY <1>4, AnswerAInv DEF SubscribeExisting
<1>5. CASE SubscribeNew
  BY <1>5, AnswerAInv DEF SubscribeNew
<1>6. CASE HandleUnsubscribe
  <2>1. PICK err : Answer(Head(requestC), 0, err)
    BY <1>6 DEF HandleUnsubscribe
  <2> QED
    BY <1>6, <2>1, AnswerAInv DEF HandleUnsubscribe
<1>7. CASE HandleClose
  BY <1>7, HandleCloseAInv
<1>8. CASE UNCHANGED <<requestC, response, clientPc, closePc>>
  BY <1>8, QuietAInv
<1>9. Broadcast => \/ SubscribeExisting \/ SubscribeNew \/ HandleUnsubscribe
                   \/ HandleClose \/ UNCHANGED <<requestC, response, clientPc, closePc>>
  BY DEF Broadcast, ReceiveMessage, TrySend, TryMissed, NilPolicyPanics,
     WaitedSend, DropNewestTimeout, DropOldestSwap, EndBroadcast,
     BroadcasterReturns
<1> QED
  BY <1>1, <1>2, <1>3, <1>4, <1>5, <1>6, <1>7, <1>8, <1>9 DEF Next, vars

(* No call of Subscribe, Unsubscribe or Close (topic.go) waits for an       *)
(* answer that is neither there nor still to be given: whatever the calls   *)
(* of others, their time-outs and the close of the topic, its request is    *)
(* queued until the broadcaster answers it, once.                           *)
THEOREM EveryCallDue == Spec => []AnswerDue
<1>1. Init => AInv
  BY DEF Init, AInv, CloseInv
<1>2. TInv /\ AInv => AnswerDue
  <2> SUFFICES ASSUME TInv, AInv, NEW c \in Clients, response[c].set, Queued(c)
               PROVE  FALSE
    BY DEF AnswerDue, AInv
  <2>1. PICK i \in DOMAIN requestC : requestC[i].answerTo = c
    BY DEF Queued
  <2> QED
    BY <2>1, RequestAt, TopicConstants DEF RequestInv
<1> QED
  BY <1>1, <1>2, TInvariance, AInvStep, PTL DEF Spec
=============================================================================
