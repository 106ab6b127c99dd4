----------------------- MODULE ConcurrentQueueProofs -----------------------
(***************************************************************************)
(* Theorems about module ConcurrentQueue, for any finite sets of producers *)
(* and consumers and any number of items.                                  *)
(***************************************************************************)
EXTENDS ConcurrentQueue, FiniteSetTheorems, TLAPS

\* The members and histories keep their types.
LEMMA Types == Spec => []TypeOK
<1>1. Init => TypeOK
  BY QueueAssumption DEF Init, TypeOK
<1>2. TypeOK /\ [Next]_vars => TypeOK'
  <2> SUFFICES ASSUME TypeOK, [Next]_vars PROVE TypeOK'
    OBVIOUS
  <2> USE QueueAssumption DEF TypeOK
  <2>1. ASSUME NEW p \in Producer, push(p) PROVE TypeOK'
    BY <2>1 DEF push
  <2>2. ASSUME NEW p \in Producer, NotifyOne(p) PROVE TypeOK'
    BY <2>2 DEF NotifyOne, Consumers
  <2>3. ASSUME NEW c \in Consumer, pop(c) PROVE TypeOK'
    BY <2>3 DEF pop
  <2>4. ASSUME NEW c \in Consumer, Wait(c) PROVE TypeOK'
    BY <2>4 DEF Wait
  <2>5. ASSUME NEW c \in Consumer, WakeUp(c) PROVE TypeOK'
    BY <2>5 DEF WakeUp
  <2>6. ASSUME NEW c \in Consumer, Take(c) PROVE TypeOK'
    BY <2>6 DEF Take
  <2>7. CASE UNCHANGED vars
    BY <2>7 DEF vars
  <2> QED
    BY <2>1, <2>2, <2>3, <2>4, <2>5, <2>6, <2>7 DEF Next
<1> QED
  BY <1>1, <1>2, PTL DEF Spec

\* Pushes append the next number, pops take the first: what was popped followed by
\* what is queued is what was pushed, in order.
THEOREM QueueIsFifo == Spec => []FirstInFirstOut
<1>1. Init => FirstInFirstOut
  BY DEF Init, FirstInFirstOut
<1>2. TypeOK /\ FirstInFirstOut /\ [Next]_vars => FirstInFirstOut'
  <2> SUFFICES ASSUME TypeOK, FirstInFirstOut, [Next]_vars PROVE FirstInFirstOut'
    OBVIOUS
  <2> USE DEF TypeOK, FirstInFirstOut
  <2>1. ASSUME NEW p \in Producer, push(p) PROVE FirstInFirstOut'
    BY <2>1 DEF push
  <2>2. ASSUME NEW c \in Consumer, Take(c) PROVE FirstInFirstOut'
    <3> DEFINE h == Head(queue)
    <3>1. /\ queue # <<>> /\ popped' = Append(popped, h) /\ queue' = Tail(queue)
          /\ pushed' = pushed
      BY <2>2 DEF Take
    <3>2. h = Len(popped) + 1 /\ Len(queue) > 0 /\ h \in Nat
      BY <3>1
    <3>3. /\ Len(queue') = Len(queue) - 1
          /\ \A i \in DOMAIN queue' : queue'[i] = queue[i + 1]
          /\ DOMAIN queue' = 1..(Len(queue) - 1)
      BY <3>1, <3>2
    <3>4. /\ Len(popped') = Len(popped) + 1
          /\ popped'[Len(popped) + 1] = h
          /\ \A i \in 1..Len(popped) : popped'[i] = popped[i]
      BY <3>1, <3>2
    <3>5. \A i \in DOMAIN popped' : popped'[i] = i
      BY <3>1, <3>2, <3>4
    <3>6. \A i \in DOMAIN queue' : queue'[i] = Len(popped') + i
      <4> SUFFICES ASSUME NEW i \in 1..(Len(queue) - 1)
                   PROVE  queue'[i] = Len(popped') + i
        BY <3>3
      <4>0. i \in DOMAIN queue' /\ i \in Nat
        BY <3>2, <3>3
      <4>a. queue'[i] = queue[i + 1]
        BY <3>3, <4>0
      <4>b. i + 1 \in 1..Len(queue)
        BY <3>2
      <4>c. DOMAIN queue = 1..Len(queue)
        OBVIOUS
      <4>1. queue'[i] = queue[i + 1] /\ i + 1 \in DOMAIN queue /\ i \in Nat
        BY <4>0, <4>a, <4>b, <4>c
      <4>2. queue[i + 1] = Len(popped) + (i + 1) /\ Len(popped) \in Nat
        BY <4>1
      <4> HIDE DEF TypeOK, FirstInFirstOut
      <4> QED
        BY <3>4, <4>1, <4>2
    <3>7. Len(popped') + Len(queue') = pushed'
      <4>1. Len(popped) \in Nat /\ Len(queue) \in Nat /\ Len(popped) + Len(queue) = pushed
        OBVIOUS
      <4> HIDE DEF TypeOK, FirstInFirstOut
      <4> QED
        BY <3>1, <3>3, <3>4, <4>1
    <3> QED
      BY <3>5, <3>6, <3>7
  <2>3. CASE UNCHANGED <<queue, pushed, popped>>
    BY <2>3
  <2> QED
    BY <2>1, <2>2, <2>3 DEF Next, NotifyOne, pop, Wait, WakeUp, vars
<1> QED
  BY <1>1, <1>2, Types, PTL DEF Spec

(***************************************************************************)
(* The count of those on their way to the queue.                           *)
(***************************************************************************)

\* A thread that moves to another control point changes the two sets by itself.
LEMMA ProducerMoves ==
  ASSUME TypeOK, NEW p \in Producer, NEW from, NEW to, from # to,
         pushing[p] = from, pushing' = [pushing EXCEPT ![p] = to]
  PROVE  /\ Cardinality(Producers(from)') = Cardinality(Producers(from)) - 1
         /\ Cardinality(Producers(to)') = Cardinality(Producers(to)) + 1
         /\ Cardinality(Producers(from)) \in Nat /\ Cardinality(Producers(to)) \in Nat
<1>1. IsFiniteSet(Producers(from)) /\ IsFiniteSet(Producers(to))
  <2>1. Producers(from) \subseteq Producer /\ Producers(to) \subseteq Producer
    BY DEF Producers
  <2> QED
    BY <2>1, FS_Subset, QueueAssumption
<1>2. Producers(from)' = Producers(from) \ {p} /\ p \in Producers(from)
  BY DEF Producers, TypeOK
<1>3. Producers(to)' = Producers(to) \union {p} /\ p \notin Producers(to)
  BY DEF Producers, TypeOK
<1>5. /\ Cardinality(Producers(from) \ {p}) = Cardinality(Producers(from)) - 1
      /\ Cardinality(Producers(from)) \in Nat
  BY <1>1, <1>2, FS_RemoveElement, FS_CardinalityType
<1>6. /\ Cardinality(Producers(to) \union {p}) = Cardinality(Producers(to)) + 1
      /\ Cardinality(Producers(to)) \in Nat
  BY <1>1, <1>3, FS_AddElement, FS_CardinalityType
<1> QED
  BY <1>2, <1>3, <1>5, <1>6

\* A consumer that goes from one control point to another is counted at the other.
LEMMA ConsumerMoves ==
  ASSUME TypeOK, NEW c \in Consumer, NEW from, NEW to, from # to,
         popping[c] = from, popping' = [popping EXCEPT ![c] = to]
  PROVE  /\ Cardinality(Consumers(from)') = Cardinality(Consumers(from)) - 1
         /\ Cardinality(Consumers(to)') = Cardinality(Consumers(to)) + 1
         /\ Cardinality(Consumers(from)) \in Nat /\ Cardinality(Consumers(to)) \in Nat
<1>1. IsFiniteSet(Consumers(from)) /\ IsFiniteSet(Consumers(to))
  <2>1. Consumers(from) \subseteq Consumer /\ Consumers(to) \subseteq Consumer
    BY DEF Consumers
  <2> QED
    BY <2>1, FS_Subset, QueueAssumption
<1>2. Consumers(from)' = Consumers(from) \ {c} /\ c \in Consumers(from)
  BY DEF Consumers, TypeOK
<1>3. Consumers(to)' = Consumers(to) \union {c} /\ c \notin Consumers(to)
  BY DEF Consumers, TypeOK
<1>5. /\ Cardinality(Consumers(from) \ {c}) = Cardinality(Consumers(from)) - 1
      /\ Cardinality(Consumers(from)) \in Nat
  BY <1>1, <1>2, FS_RemoveElement, FS_CardinalityType
<1>6. /\ Cardinality(Consumers(to) \union {c}) = Cardinality(Consumers(to)) + 1
      /\ Cardinality(Consumers(to)) \in Nat
  BY <1>1, <1>3, FS_AddElement, FS_CardinalityType
<1> QED
  BY <1>2, <1>3, <1>5, <1>6

\* Producers and consumers are finitely many at each control point.
LEMMA Counts ==
  /\ \A point : Cardinality(Producers(point)) \in Nat
  /\ \A point : Cardinality(Consumers(point)) \in Nat
<1>1. ASSUME NEW point PROVE Cardinality(Producers(point)) \in Nat
  <2>1. Producers(point) \subseteq Producer
    BY DEF Producers
  <2> QED
    BY <2>1, FS_Subset, FS_CardinalityType, QueueAssumption
<1>2. ASSUME NEW point PROVE Cardinality(Consumers(point)) \in Nat
  <2>1. Consumers(point) \subseteq Consumer
    BY DEF Consumers
  <2> QED
    BY <2>1, FS_Subset, FS_CardinalityType, QueueAssumption
<1> QED
  BY <1>1, <1>2

\* No sleeping consumer is forgotten: one notification per item is enough.
THEOREM QueueForgetsNoItem == Spec => []NoItemForgotten
<1>1. Init => NoItemForgotten
  BY DEF Init, NoItemForgotten, Consumers
<1>2. TypeOK /\ NoItemForgotten /\ [Next]_vars => NoItemForgotten'
  <2> SUFFICES ASSUME TypeOK, NoItemForgotten, [Next]_vars,
                      Consumers("asleep")' # {}
               PROVE  Len(queue') <= Cardinality(Producers("notify")')
                                     + Cardinality(Consumers("check")')
    BY DEF NoItemForgotten
  <2> USE DEF NoItemForgotten
  <2> Len(queue) \in Nat
    BY DEF TypeOK
  <2>1. ASSUME NEW p \in Producer, push(p)
        PROVE  Len(queue') <= Cardinality(Producers("notify")')
                              + Cardinality(Consumers("check")')
    <3>1. /\ Cardinality(Producers("notify")') = Cardinality(Producers("notify")) + 1
      BY <2>1, ProducerMoves DEF push
    <3>2. Consumers("asleep")' = Consumers("asleep")
          /\ Consumers("check")' = Consumers("check")
      BY <2>1 DEF push, Consumers
    <3>3. Len(queue') = Len(queue) + 1
      BY <2>1 DEF push, TypeOK
    <3> QED
      BY <3>1, <3>2, <3>3, Counts
  <2>2. ASSUME NEW p \in Producer, NotifyOne(p)
        PROVE  Len(queue') <= Cardinality(Producers("notify")')
                              + Cardinality(Consumers("check")')
    <3>1. /\ Cardinality(Producers("notify")') = Cardinality(Producers("notify")) - 1
      BY <2>2, ProducerMoves DEF NotifyOne
    <3>2. Consumers("asleep") # {}
      BY <2>2 DEF NotifyOne, Consumers
    <3>3. PICK c \in Consumers("asleep") : popping' = [popping EXCEPT ![c] = "check"]
      BY <2>2, <3>2 DEF NotifyOne
    <3>4. c \in Consumer /\ popping[c] = "asleep"
      BY <3>3 DEF Consumers
    <3>5. Cardinality(Consumers("check")') = Cardinality(Consumers("check")) + 1
      BY <3>3, <3>4, ConsumerMoves
    <3> QED
      BY <2>2, <3>1, <3>2, <3>5, Counts DEF NotifyOne
  <2>3. ASSUME NEW c \in Consumer, pop(c)
        PROVE  Len(queue') <= Cardinality(Producers("notify")')
                              + Cardinality(Consumers("check")')
    <3>1. /\ Cardinality(Consumers("check")') = Cardinality(Consumers("check")) + 1
      BY <2>3, ConsumerMoves DEF pop
    <3>3. Consumers("asleep") # {}
      BY <2>3 DEF pop, Consumers, TypeOK
    <3>2. Producers("notify")' = Producers("notify") /\ queue' = queue
      BY <2>3 DEF pop, Producers
    <3> QED
      BY <3>1, <3>2, <3>3, Counts
  <2>4. ASSUME NEW c \in Consumer, Wait(c)
        PROVE  Len(queue') <= Cardinality(Producers("notify")')
                              + Cardinality(Consumers("check")')
    <3>1. Len(queue') = 0
      BY <2>4 DEF Wait
    <3>2. Cardinality(Consumers("check")') = Cardinality(Consumers("check")) - 1
      BY <2>4, ConsumerMoves DEF Wait
    <3>4. Producers("notify")' = Producers("notify") /\ c \in Consumers("check")
      BY <2>4 DEF Wait, Producers, Consumers
    <3>3. Cardinality(Consumers("check")) \in Nat /\ Cardinality(Consumers("check")) # 0
      <4>1. IsFiniteSet(Consumers("check"))
        BY FS_Subset, QueueAssumption DEF Consumers
      <4> QED
        BY <4>1, <3>4, FS_EmptySet, Counts
    <3> QED
      BY <3>1, <3>2, <3>3, <3>4, Counts
  <2>5. ASSUME NEW c \in Consumer, WakeUp(c)
        PROVE  Len(queue') <= Cardinality(Producers("notify")')
                              + Cardinality(Consumers("check")')
    <3>1. Cardinality(Consumers("check")') = Cardinality(Consumers("check")) + 1
      BY <2>5, ConsumerMoves DEF WakeUp
    <3>2. Producers("notify")' = Producers("notify") /\ queue' = queue
          /\ Consumers("asleep") # {}
      BY <2>5 DEF WakeUp, Producers, Consumers
    <3> QED
      BY <3>1, <3>2, Counts
  <2>6. ASSUME NEW c \in Consumer, Take(c)
        PROVE  Len(queue') <= Cardinality(Producers("notify")')
                              + Cardinality(Consumers("check")')
    <3>1. /\ Cardinality(Consumers("check")') = Cardinality(Consumers("check")) - 1
      BY <2>6, ConsumerMoves DEF Take
    <3>4. Consumers("asleep") # {}
      BY <2>6 DEF Take, Consumers, TypeOK
    <3>2. Producers("notify")' = Producers("notify")
      BY <2>6 DEF Take, Producers
    <3>3. Len(queue') = Len(queue) - 1
      BY <2>6 DEF Take, TypeOK
    <3> QED
      BY <3>1, <3>2, <3>3, <3>4, Counts
  <2>7. CASE UNCHANGED vars
    BY <2>7 DEF vars, Producers, Consumers
  <2> QED
    BY <2>1, <2>2, <2>3, <2>4, <2>5, <2>6, <2>7 DEF Next
<1> QED
  BY <1>1, <1>2, Types, PTL DEF Spec
=============================================================================
