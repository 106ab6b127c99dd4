--------------------------- MODULE ConcurrentQueue ---------------------------
(***************************************************************************)
(* ConcurrentQueue<T>, include/concurrent_queue.hpp: a queue with a mutex  *)
(* and one condition variable, on which only consumers wait.  Any number   *)
(* of threads push and pop; the k-th item pushed is the number k.          *)
(*                                                                         *)
(* What a thread does with the mutex held is one action.  push notifies    *)
(* after it has unlocked, so the notification is an action of its own and  *)
(* anything may happen before it.                                          *)
(***************************************************************************)
EXTENDS Naturals, Sequences, FiniteSets

CONSTANTS
    Producer, Consumer,   \* the threads that call push and pop
    MaxItems              \* bound: items pushed

ASSUME QueueAssumption ==
    /\ IsFiniteSet(Producer) /\ IsFiniteSet(Consumer)
    /\ MaxItems \in Nat

VARIABLES
    queue,      \* queue_
    pushing,    \* control point of each producer
    popping,    \* control point of each consumer
    pushed,     \* history: number of items pushed
    popped      \* history: the items popped, in the order of the pops

vars == <<queue, pushing, popping, pushed, popped>>

Init ==
    /\ queue = <<>>
    /\ pushing = [p \in Producer |-> "out"]
    /\ popping = [c \in Consumer |-> "out"]
    /\ pushed = 0 /\ popped = <<>>

Producers(point) == {p \in Producer : pushing[p] = point}
Consumers(point) == {c \in Consumer : popping[c] = point}

(***************************************************************************)
(* ConcurrentQueue::push.                                                  *)
(***************************************************************************)

\* Up to mlock.unlock().
push(p) ==
    /\ pushing[p] = "out" /\ pushed < MaxItems
    /\ pushed' = pushed + 1
    /\ queue' = Append(queue, pushed')
    /\ pushing' = [pushing EXCEPT ![p] = "notify"]
    /\ UNCHANGED <<popping, popped>>

\* Mutant of NotifyOne: nobody is notified.
NotifyNone(p) ==
    /\ pushing[p] = "notify"
    /\ pushing' = [pushing EXCEPT ![p] = "out"]
    /\ UNCHANGED <<queue, popping, pushed, popped>>

\* cond_.notify_one(): one of the sleeping consumers, if there is any.
NotifyOne(p) ==
    /\ pushing[p] = "notify"
    /\ pushing' = [pushing EXCEPT ![p] = "out"]
    /\ IF Consumers("asleep") = {}
       THEN UNCHANGED popping
       ELSE \E c \in Consumers("asleep") : popping' = [popping EXCEPT ![c] = "check"]
    /\ UNCHANGED <<queue, pushed, popped>>

(***************************************************************************)
(* ConcurrentQueue::pop, both forms.  At "check" the consumer waits for    *)
(* the mutex, then evaluates queue_.empty().                               *)
(***************************************************************************)
pop(c) ==
    /\ popping[c] = "out"
    /\ popping' = [popping EXCEPT ![c] = "check"]
    /\ UNCHANGED <<queue, pushing, pushed, popped>>

Wait(c) ==
    /\ popping[c] = "check" /\ queue = <<>>
    /\ popping' = [popping EXCEPT ![c] = "asleep"]
    /\ UNCHANGED <<queue, pushing, pushed, popped>>

\* cond_.wait may return without a notification.
WakeUp(c) ==
    /\ popping[c] = "asleep"
    /\ popping' = [popping EXCEPT ![c] = "check"]
    /\ UNCHANGED <<queue, pushing, pushed, popped>>

\* Mutant of Take: emptiness is not evaluated again after the wait.
TakeUnchecked(c) ==
    /\ popping[c] = "check"
    /\ popped' = Append(popped, IF queue = <<>> THEN 0 ELSE Head(queue))
    /\ queue' = IF queue = <<>> THEN queue ELSE Tail(queue)
    /\ popping' = [popping EXCEPT ![c] = "out"]
    /\ UNCHANGED <<pushing, pushed>>

\* front(), pop().
Take(c) ==
    /\ popping[c] = "check" /\ queue # <<>>
    /\ popped' = Append(popped, Head(queue))
    /\ queue' = Tail(queue)
    /\ popping' = [popping EXCEPT ![c] = "out"]
    /\ UNCHANGED <<pushing, pushed>>

Next ==
    \/ \E p \in Producer : push(p) \/ NotifyOne(p)
    \/ \E c \in Consumer : pop(c) \/ Wait(c) \/ WakeUp(c) \/ Take(c)

Spec == Init /\ [][Next]_vars

\* A thread inside push or pop goes on; that a thread calls one of them, or wakes up
\* without a notification, is not assumed.
FairSpec ==
    /\ Spec
    /\ \A p \in Producer : WF_vars(NotifyOne(p))
    /\ \A c \in Consumer : WF_vars(Wait(c) \/ Take(c))

(***************************************************************************)
(* Properties.                                                             *)
(***************************************************************************)
TypeOK ==
    /\ queue \in Seq(Nat) /\ popped \in Seq(Nat) /\ pushed \in 0..MaxItems
    /\ pushing \in [Producer -> {"out", "notify"}]
    /\ popping \in [Consumer -> {"out", "check", "asleep"}]

\* Items leave in the order they came, none is lost, none comes twice, and no
\* consumer takes the front of an empty queue: the pops and the queue together are
\* the pushes, however many threads take part.
FirstInFirstOut ==
    /\ Len(popped) + Len(queue) = pushed
    /\ \A i \in DOMAIN popped : popped[i] = i
    /\ \A i \in DOMAIN queue : queue[i] = Len(popped) + i

\* While a consumer sleeps, each item in the queue has somebody on the way to it: a
\* producer about to notify or a consumer about to look.  One notification per
\* item, sent after the unlock and possibly to nobody, is enough.
NoItemForgotten ==
    Consumers("asleep") # {} =>
        Len(queue) <= Cardinality(Producers("notify")) + Cardinality(Consumers("check"))

\* As long as a consumer is inside pop, the queue does not keep its items.
ItemsAreTaken ==
    \A n \in 0..MaxItems :
        Len(popped) = n /\ queue # <<>> /\ Consumers("out") # Consumer ~> Len(popped) > n
=============================================================================
