----------------------------- MODULE Observable -----------------------------
(***************************************************************************)
(* ProcessingUnit::Observable, src/observable.cpp: a map from identifiers  *)
(* to callbacks, behind one mutex.  The process has two of them            *)
(* (ObservablesResolver): inputs, to which the processor subscribes, and   *)
(* processor results, to which every job subscribes.                       *)
(*                                                                         *)
(* notify holds the mutex while it walks through the map and runs one      *)
(* callback after the other.  "at" says where a thread is in that walk, so *)
(* the mutex is held exactly while some thread is not Outside, and no lock *)
(* variable is needed.  subscribe and unsubscribe are one critical section *)
(* each, hence one action.                                                 *)
(***************************************************************************)
EXTENDS Naturals, Sequences

CONSTANTS
    Thread,            \* threads that notify
    Observer,          \* those who subscribe
    Nobody,            \* no observer
    IdLimit,           \* number of values of the uint32_t counter
    Throwing,          \* external: observers whose callback may throw
    Reentrant,         \* external: observers whose callback may call the observable
    MaxSubscriptions,  \* bound: calls of subscribe
    MaxNotifications   \* bound: calls of notify

ASSUME ObservableAssumption ==
    /\ Nobody \notin Observer
    /\ IdLimit \in Nat \ {0}
    /\ MaxSubscriptions \in Nat /\ MaxNotifications \in Nat

VARIABLES
    callbacks,      \* _callbacks_observers_map; Nobody where there is no entry
    counter,        \* _counter
    at,             \* position of each thread's iterator in notify
    stuck,          \* a callback called the observable, whose mutex its thread holds
    ticket,         \* the identifier each observer got from subscribe and still holds
    subscriptions,  \* history: number of subscribe calls
    notifications,  \* history: number of notify calls; the k-th carries the number k
    heard           \* history: the notifications each observer's callback took

obsVars == <<callbacks, counter, at, stuck, ticket, subscriptions, notifications, heard>>

Id == 0..(IdLimit - 1)
NoTicket == IdLimit
End == IdLimit
Outside == IdLimit + 1

ObsInit ==
    /\ callbacks = [id \in Id |-> Nobody]
    /\ counter = 0
    /\ at = [t \in Thread |-> Outside]
    /\ stuck = FALSE
    /\ ticket = [o \in Observer |-> NoTicket]
    /\ subscriptions = 0 /\ notifications = 0
    /\ heard = [o \in Observer |-> <<>>]

Locked == \E t \in Thread : at[t] # Outside

\* Mutant of subscribe: the identifier returned is the counter after its increment.
subscribeNextId(o) ==
    /\ ~Locked /\ ticket[o] = NoTicket /\ subscriptions < MaxSubscriptions
    /\ callbacks' = [callbacks EXCEPT ![counter] = o]
    /\ counter' = (counter + 1) % IdLimit
    /\ ticket' = [ticket EXCEPT ![o] = counter']
    /\ subscriptions' = subscriptions + 1
    /\ heard' = [heard EXCEPT ![o] = <<>>]
    /\ UNCHANGED <<at, stuck, notifications>>

\* Mutant of subscribe: the counter is wider than the identifiers.
subscribeWide(o) ==
    /\ ~Locked /\ ticket[o] = NoTicket /\ subscriptions < MaxSubscriptions
    /\ callbacks' = [callbacks EXCEPT ![counter] = o]
    /\ counter' = counter + 1
    /\ ticket' = [ticket EXCEPT ![o] = counter]
    /\ subscriptions' = subscriptions + 1
    /\ heard' = [heard EXCEPT ![o] = <<>>]
    /\ UNCHANGED <<at, stuck, notifications>>

\* Observable::subscribe: the entry is assigned, whatever the map had there.
subscribe(o) ==
    /\ ~Locked /\ ticket[o] = NoTicket /\ subscriptions < MaxSubscriptions
    /\ callbacks' = [callbacks EXCEPT ![counter] = o]
    /\ counter' = (counter + 1) % IdLimit
    /\ ticket' = [ticket EXCEPT ![o] = counter]
    /\ subscriptions' = subscriptions + 1
    /\ heard' = [heard EXCEPT ![o] = <<>>]
    /\ UNCHANGED <<at, stuck, notifications>>

\* Mutant of unsubscribe: the mutex is not taken.
unsubscribeUnlocked(o) ==
    /\ ticket[o] # NoTicket
    /\ callbacks' = [callbacks EXCEPT ![ticket[o]] = Nobody]
    /\ ticket' = [ticket EXCEPT ![o] = NoTicket]
    /\ UNCHANGED <<counter, at, stuck, subscriptions, notifications, heard>>

\* Observable::unsubscribe, with the identifier the observer holds.
unsubscribe(o) ==
    /\ ~Locked /\ ticket[o] # NoTicket
    /\ callbacks' = [callbacks EXCEPT ![ticket[o]] = Nobody]
    /\ ticket' = [ticket EXCEPT ![o] = NoTicket]
    /\ UNCHANGED <<counter, at, stuck, subscriptions, notifications, heard>>

(***************************************************************************)
(* Observable::notify.                                                     *)
(***************************************************************************)

\* An iterator at i moves to the entry j, or to the end if there is no entry left.
NextEntry(i, j) ==
    /\ j \in i..End
    /\ j # End => callbacks[j] # Nobody
    /\ \A k \in i..(j - 1) : callbacks[k] = Nobody

MoveIterator(t, i) == \E j \in i..End : NextEntry(i, j) /\ at' = [at EXCEPT ![t] = j]

\* Mutant of notify: the mutex is not taken.
notifyUnlocked(t) ==
    /\ at[t] = Outside /\ notifications < MaxNotifications
    /\ MoveIterator(t, 0)
    /\ notifications' = notifications + 1
    /\ UNCHANGED <<callbacks, counter, stuck, ticket, subscriptions, heard>>

\* lock_guard, begin().
notify(t) ==
    /\ ~Locked /\ notifications < MaxNotifications
    /\ MoveIterator(t, 0)
    /\ notifications' = notifications + 1
    /\ UNCHANGED <<callbacks, counter, stuck, ticket, subscriptions, heard>>

\* The callback under the iterator is running.
Calling(t) == at[t] \in Id /\ ~stuck

\* The callback returns; ++it.
CallbackReturns(t) ==
    /\ Calling(t)
    /\ heard' = [heard EXCEPT ![callbacks[at[t]]] = Append(@, notifications)]
    /\ MoveIterator(t, at[t] + 1)
    /\ UNCHANGED <<callbacks, counter, stuck, ticket, subscriptions, notifications>>

\* The callback throws: the lock_guard unlocks, the entries after it are not called.
CallbackThrows(t) ==
    /\ Calling(t) /\ callbacks[at[t]] \in Throwing
    /\ at' = [at EXCEPT ![t] = Outside]
    /\ UNCHANGED <<callbacks, counter, stuck, ticket, subscriptions, notifications, heard>>

\* The callback subscribes, unsubscribes or notifies: it waits for the mutex that
\* its own thread holds.
CallbackReenters(t) ==
    /\ Calling(t) /\ callbacks[at[t]] \in Reentrant
    /\ stuck' = TRUE
    /\ UNCHANGED <<callbacks, counter, at, ticket, subscriptions, notifications, heard>>

\* Mutant of NotifyReturns: the mutex is not released.
NotifyKeepsLock(t) == at[t] = End /\ UNCHANGED obsVars

NotifyReturns(t) ==
    /\ at[t] = End
    /\ at' = [at EXCEPT ![t] = Outside]
    /\ UNCHANGED <<callbacks, counter, stuck, ticket, subscriptions, notifications, heard>>

NotifyStep(t) == CallbackReturns(t) \/ CallbackThrows(t) \/ NotifyReturns(t)

ObsNext ==
    \/ \E o \in Observer : subscribe(o) \/ unsubscribe(o)
    \/ \E t \in Thread : notify(t) \/ NotifyStep(t) \/ CallbackReenters(t)

ObsSpec == ObsInit /\ [][ObsNext]_obsVars

\* A callback returns or throws, unless it waits for the mutex its thread holds.
ObsFairSpec == ObsSpec /\ \A t \in Thread : WF_obsVars(NotifyStep(t))

(***************************************************************************)
(* Properties.                                                             *)
(***************************************************************************)
ObsTypeOK ==
    /\ callbacks \in [Id -> Observer \union {Nobody}] /\ counter \in Id
    /\ at \in [Thread -> 0..Outside] /\ stuck \in BOOLEAN
    /\ ticket \in [Observer -> 0..NoTicket]
    /\ subscriptions \in Nat /\ notifications \in Nat
    /\ heard \in [Observer -> Seq(Nat)]

\* A callback runs only while its observer holds the identifier it is filed under:
\* once unsubscribe has returned no callback of the observer is running or will be
\* called, which ~Job relies on, even after the identifiers have wrapped.
NoCallAfterUnsubscribe ==
    \A t \in Thread : at[t] \in Id =>
        \E o \in Observer : callbacks[at[t]] = o /\ ticket[o] = at[t]

\* Until the counter wraps, every observer that holds an identifier has the entry
\* of that identifier: nobody's subscription is replaced or cancelled by another.
OwnEntry ==
    subscriptions <= IdLimit =>
        \A o \in Observer : ticket[o] # NoTicket => callbacks[ticket[o]] = o

\* An observable is a broadcast: seen from outside, a notification reaches its
\* members at once, when notify returns or a callback throws.
Reached(o) ==
    /\ Locked /\ heard[o] # <<>>
    /\ heard[o][Len(heard[o])] = notifications

Broadcasts == INSTANCE Broadcast WITH
    members <- {o \in Observer : \E id \in Id : callbacks[id] = o},
    joins <- subscriptions,
    sent <- IF Locked THEN notifications - 1 ELSE notifications,
    heard <- [o \in Observer |-> IF Reached(o)
                                 THEN SubSeq(heard[o], 1, Len(heard[o]) - 1)
                                 ELSE heard[o]]
BroadcastSpec == Broadcasts!Spec

\* The mutex is always released again, so that the io thread in ~Job and a job that
\* subscribes get on, unless a callback called the observable itself.
Released == Locked ~> ~Locked \/ stuck
=============================================================================
