--------------------------- MODULE ObservableProofs ---------------------------
(***************************************************************************)
(* Proofs about Observable, for any number of threads, observers,          *)
(* identifiers, subscriptions and notifications, whatever callbacks throw. *)
(***************************************************************************)
EXTENDS Observable, TLAPS

Member(o) == \E id \in Id : callbacks[id] = o

\* The mutex: at most one thread is inside notify.
OneHolder == \A t, u \in Thread : at[t] # Outside /\ at[u] # Outside => t = u

\* An observer is filed under no identifier but the one it holds.
Filed == \A id \in Id, o \in Observer : callbacks[id] = o => ticket[o] = id

\* The iterator is at an entry or at the end.
AtEntry == \A t \in Thread : at[t] \in Id => callbacks[at[t]] # Nobody

\* Until the counter wraps it is above every identifier held.
Fresh ==
    /\ subscriptions < IdLimit => counter = subscriptions
    /\ subscriptions <= IdLimit =>
           \A o \in Observer : ticket[o] # NoTicket => ticket[o] < subscriptions

\* Nobody heard of a notification to come.
NoForesight ==
    \A o \in Observer : heard[o] # <<>> => heard[o][Len(heard[o])] <= notifications

\* The notification in progress has reached the entries the iterator has passed, and
\* no other observer.
Walked ==
    /\ \A o \in Observer : Reached(o) => Member(o)
    /\ \A t \in Thread, id \in Id, o \in Observer :
           at[t] # Outside /\ callbacks[id] = o => (Reached(o) <=> id < at[t])

ObsInv ==
    /\ ObsTypeOK /\ OneHolder /\ Filed /\ AtEntry /\ Fresh /\ OwnEntry
    /\ NoForesight /\ Walked

(***************************************************************************)
(* The steps of notify.                                                    *)
(***************************************************************************)

\* Where an iterator goes: past no entry, to an entry or to the end.
LEMMA Moved ==
  ASSUME ObsTypeOK, NEW t \in Thread, NEW i \in Nat, MoveIterator(t, i)
  PROVE  \E j \in 0..End : /\ i <= j
                           /\ at' = [at EXCEPT ![t] = j]
                           /\ j \in Id => callbacks[j] # Nobody
                           /\ \A k \in Id : i <= k /\ k < j => callbacks[k] = Nobody
<1>1. PICK j \in i..End : NextEntry(i, j) /\ at' = [at EXCEPT ![t] = j]
  BY DEF MoveIterator
<1>2. j \in 0..End /\ i <= j
  BY <1>1, ObservableAssumption DEF End
<1>3. j \in Id => callbacks[j] # Nobody
  BY <1>1, ObservableAssumption DEF NextEntry, Id, End
<1>4. \A k \in Id : i <= k /\ k < j => callbacks[k] = Nobody
  BY <1>1, <1>2, ObservableAssumption DEF NextEntry, Id
<1> QED
  BY <1>1, <1>2, <1>3, <1>4

\* Outside is no position of an iterator.
LEMMA Positions ==
  /\ Outside \notin 0..End /\ Id \subseteq 0..End /\ End \notin Id
  /\ 0..Outside = (0..End) \union {Outside} /\ 0..End = Id \union {End}
  /\ NoTicket \notin Id /\ Id \subseteq Nat /\ 0..End \subseteq Nat
  /\ \A id \in Id : id < End /\ id + 1 \in 0..End
  /\ Id \subseteq 0..NoTicket
BY ObservableAssumption DEF Outside, End, Id, NoTicket

\* The initial values have the types.
LEMMA InitTypes == ASSUME ObsInit PROVE ObsTypeOK
<1>1. 0 \in Id /\ NoTicket \in 0..NoTicket /\ Outside \in 0..Outside
  BY ObservableAssumption DEF Id, Outside, NoTicket
<1>2. <<>> \in Seq(Nat)
  OBVIOUS
<1>3. heard \in [Observer -> Seq(Nat)]
  BY <1>2 DEF ObsInit
<1>4. at \in [Thread -> 0..Outside] /\ ticket \in [Observer -> 0..NoTicket]
  BY <1>1 DEF ObsInit
<1> QED
  BY <1>1, <1>3, <1>4 DEF ObsInit, ObsTypeOK

\* The members and histories keep their types.
THEOREM ObsTypes == ObsSpec => []ObsTypeOK
<1>1. ObsInit => ObsTypeOK
  BY InitTypes
<1>2. ObsTypeOK /\ [ObsNext]_obsVars => ObsTypeOK'
  <2> SUFFICES ASSUME ObsTypeOK, [ObsNext]_obsVars PROVE ObsTypeOK'
    OBVIOUS
  <2>1. ASSUME NEW o \in Observer, subscribe(o) PROVE ObsTypeOK'
    <3>1. counter' \in Id
      BY <2>1, ObservableAssumption DEF subscribe, ObsTypeOK, Id
    <3> QED
      BY <2>1, <3>1, Positions DEF subscribe, ObsTypeOK
  <2>2. ASSUME NEW o \in Observer, unsubscribe(o) PROVE ObsTypeOK'
    <3>1. NoTicket \in 0..NoTicket
      BY ObservableAssumption DEF NoTicket
    <3> QED
      BY <2>2, <3>1 DEF unsubscribe, ObsTypeOK
  <2>3. ASSUME NEW t \in Thread, notify(t) PROVE ObsTypeOK'
    <3>1. PICK j \in 0..End : at' = [at EXCEPT ![t] = j]
      BY <2>3, Moved DEF notify
    <3> QED
      BY <2>3, <3>1, Positions DEF notify, ObsTypeOK
  <2>4. ASSUME NEW t \in Thread, CallbackReturns(t) PROVE ObsTypeOK'
    <3>1. at[t] + 1 \in Nat
      BY <2>4, Positions DEF CallbackReturns, Calling
    <3>2. PICK j \in 0..End : at' = [at EXCEPT ![t] = j]
      BY <2>4, <3>1, Moved DEF CallbackReturns
    <3>3. \A o \in Observer : Append(heard[o], notifications) \in Seq(Nat)
      BY DEF ObsTypeOK
    <3>4. heard' \in [Observer -> Seq(Nat)]
      BY <2>4, <3>3 DEF CallbackReturns, ObsTypeOK
    <3> QED
      BY <2>4, <3>2, <3>4, Positions DEF CallbackReturns, ObsTypeOK
  <2>5. ASSUME NEW t \in Thread, CallbackThrows(t) PROVE ObsTypeOK'
    BY <2>5, Positions DEF CallbackThrows, ObsTypeOK
  <2>6. ASSUME NEW t \in Thread, CallbackReenters(t) PROVE ObsTypeOK'
    BY <2>6 DEF CallbackReenters, ObsTypeOK
  <2>7. ASSUME NEW t \in Thread, NotifyReturns(t) PROVE ObsTypeOK'
    BY <2>7, Positions DEF NotifyReturns, ObsTypeOK
  <2>8. CASE UNCHANGED obsVars
    BY <2>8 DEF obsVars, ObsTypeOK
  <2> QED
    BY <2>1, <2>2, <2>3, <2>4, <2>5, <2>6, <2>7, <2>8 DEF ObsNext, NotifyStep
<1> QED
  BY <1>1, <1>2, PTL DEF ObsSpec

(***************************************************************************)
(* The invariant.                                                          *)
(***************************************************************************)

\* Unlocked, no notification is in progress and no iterator has a position.
LEMMA Unlocked ==
  ASSUME ~Locked
  PROVE  /\ \A t \in Thread : at[t] = Outside
         /\ \A o \in Observer : ~Reached(o)
BY DEF Locked, Reached

\* One thread comes in or goes on: it holds the mutex, nobody else does.
LEMMA Holder ==
  ASSUME ObsTypeOK, OneHolder, NEW t \in Thread, NEW j \in 0..Outside,
         at[t] # Outside \/ ~Locked, at' = [at EXCEPT ![t] = j]
  PROVE  /\ OneHolder'
         /\ at'[t] = j /\ \A u \in Thread : u # t => at[u] = Outside /\ at'[u] = Outside
         /\ Locked' <=> j # Outside
<1>1. \A u \in Thread : u # t => at[u] = Outside
  BY DEF OneHolder, Locked
<1>2. at'[t] = j /\ \A u \in Thread : u # t => at'[u] = at[u]
  BY DEF ObsTypeOK
<1> QED
  BY <1>1, <1>2 DEF OneHolder, Locked

\* The critical section of subscribe.
LEMMA Subscribes ==
  ASSUME ObsInv, NEW o \in Observer, subscribe(o) PROVE ObsInv'
<1> USE DEF ObsInv
<1>1. ObsTypeOK'
  <2>1. counter' \in Id
    BY ObservableAssumption DEF subscribe, ObsTypeOK, Id
  <2> QED
    BY <2>1, Positions DEF subscribe, ObsTypeOK
<1>2. /\ ~Locked /\ at' = at /\ ~Locked'
  BY DEF subscribe, Locked
<1>3. OneHolder' /\ AtEntry'
  BY <1>2, Unlocked, Positions DEF OneHolder, AtEntry, Outside, Locked
<1>4. /\ callbacks'[counter] = o /\ \A id \in Id : id # counter => callbacks'[id] = callbacks[id]
      /\ ticket'[o] = counter /\ \A p \in Observer : p # o => ticket'[p] = ticket[p]
      /\ counter \in Id /\ ticket[o] = NoTicket
  BY DEF subscribe, ObsTypeOK
<1>5. Filed'
  BY <1>4, Positions DEF Filed
<1>6. /\ subscriptions' = subscriptions + 1 /\ subscriptions \in Nat
      /\ counter' = (counter + 1) % IdLimit
  BY DEF subscribe, ObsTypeOK
<1>7. Fresh'
  <2>1. subscriptions' < IdLimit => counter' = subscriptions'
    BY <1>4, <1>6, ObservableAssumption DEF Fresh, Id
  <2>2. subscriptions' <= IdLimit =>
           \A p \in Observer : ticket'[p] # NoTicket => ticket'[p] < subscriptions'
    <3> SUFFICES ASSUME subscriptions' <= IdLimit, NEW p \in Observer, ticket'[p] # NoTicket
                 PROVE  ticket'[p] < subscriptions'
      OBVIOUS
    <3>1. subscriptions < IdLimit /\ counter = subscriptions
      BY <1>6, ObservableAssumption DEF Fresh
    <3>2. CASE p = o
      BY <1>4, <1>6, <3>1, <3>2
    <3>3. CASE p # o
      <4>1. ticket'[p] = ticket[p] /\ ticket[p] < subscriptions /\ ticket[p] \in Nat
        BY <1>4, <3>1, <3>3, ObservableAssumption DEF Fresh, ObsTypeOK, NoTicket
      <4> QED
        BY <1>6, <4>1
    <3> QED
      BY <3>2, <3>3
  <2> QED
    BY <2>1, <2>2 DEF Fresh
<1>8. OwnEntry'
  <2> SUFFICES ASSUME subscriptions' <= IdLimit, NEW p \in Observer, ticket'[p] # NoTicket
               PROVE  callbacks'[ticket'[p]] = p
    BY DEF OwnEntry, NoTicket
  <2>1. subscriptions < IdLimit /\ counter = subscriptions
    BY <1>6, ObservableAssumption DEF Fresh
  <2>2. CASE p = o
    BY <1>4, <2>2
  <2>3. CASE p # o
    <3>1. /\ ticket'[p] = ticket[p] /\ callbacks[ticket[p]] = p
          /\ ticket[p] < subscriptions /\ ticket[p] \in Id
      BY <1>4, <2>1, <2>3, ObservableAssumption DEF Fresh, OwnEntry, ObsTypeOK, NoTicket, Id
    <3>2. ticket[p] # counter
      BY <2>1, <3>1, <1>6, ObservableAssumption DEF Id
    <3> QED
      BY <1>4, <3>1, <3>2
  <2> QED
    BY <2>2, <2>3
<1>9. NoForesight'
  BY DEF subscribe, NoForesight, ObsTypeOK
<1>10. Walked'
  BY <1>2, <1>3 DEF Walked, Reached, Locked
<1> QED
  BY <1>1, <1>3, <1>5, <1>7, <1>8, <1>9, <1>10

\* The critical section of unsubscribe.
LEMMA Unsubscribes ==
  ASSUME ObsInv, NEW o \in Observer, unsubscribe(o) PROVE ObsInv'
<1> USE DEF ObsInv
<1>1. ObsTypeOK'
  <2>1. NoTicket \in 0..NoTicket
    BY ObservableAssumption DEF NoTicket
  <2> QED
    BY <2>1 DEF unsubscribe, ObsTypeOK
<1>2. /\ ~Locked /\ at' = at /\ ~Locked'
  BY DEF unsubscribe, Locked
<1>3. OneHolder' /\ AtEntry'
  BY <1>2, Unlocked, Positions DEF OneHolder, AtEntry, Outside, Locked
<1>4. /\ ticket[o] \in Id /\ callbacks'[ticket[o]] = Nobody
      /\ \A id \in Id : id # ticket[o] => callbacks'[id] = callbacks[id]
      /\ ticket'[o] = NoTicket /\ \A p \in Observer : p # o => ticket'[p] = ticket[p]
  BY ObservableAssumption DEF unsubscribe, ObsTypeOK, NoTicket, Id
<1>5. Filed'
  BY <1>4, ObservableAssumption DEF Filed
<1>6. Fresh'
  BY <1>4 DEF unsubscribe, Fresh, NoTicket
<1>7. OwnEntry'
  <2> SUFFICES ASSUME subscriptions <= IdLimit, NEW p \in Observer, ticket'[p] # NoTicket
               PROVE  callbacks'[ticket'[p]] = p
    BY DEF OwnEntry, NoTicket, unsubscribe
  <2>1. p # o /\ ticket'[p] = ticket[p] /\ ticket[p] \in Id
    BY <1>4, ObservableAssumption DEF ObsTypeOK, NoTicket, Id
  <2>2. callbacks[ticket[p]] = p /\ callbacks[ticket[o]] = o
    BY <1>4, <2>1, Positions DEF OwnEntry
  <2> QED
    BY <1>4, <2>1, <2>2
<1>8. NoForesight'
  BY DEF unsubscribe, NoForesight
<1>9. Walked'
  BY <1>2, <1>3 DEF Walked, Reached, Locked
<1> QED
  BY <1>1, <1>3, <1>5, <1>6, <1>7, <1>8, <1>9

\* begin() of notify.
LEMMA Begins ==
  ASSUME ObsInv, ObsTypeOK', NEW t \in Thread, notify(t) PROVE ObsInv'
<1> USE DEF ObsInv
<1>1. PICK j \in 0..End : /\ at' = [at EXCEPT ![t] = j]
                          /\ j \in Id => callbacks[j] # Nobody
                          /\ \A k \in Id : 0 <= k /\ k < j => callbacks[k] = Nobody
  BY Moved DEF notify
<1>2. /\ ~Locked /\ UNCHANGED <<callbacks, counter, ticket, subscriptions, heard>>
      /\ notifications' = notifications + 1 /\ notifications \in Nat
  BY DEF notify, ObsTypeOK
<1>3. j \in 0..Outside /\ j # Outside
  BY Positions
<1>4. /\ OneHolder' /\ Locked' /\ at'[t] = j
      /\ \A u \in Thread : u # t => at'[u] = Outside
  <2>1. OneHolder
    OBVIOUS
  <2> QED
    BY <1>1, <1>2, <1>3, <2>1, Holder, Unlocked
<1>5. Filed' /\ Fresh' /\ OwnEntry'
  BY <1>2 DEF Filed, Fresh, OwnEntry
<1>6. AtEntry'
  BY <1>1, <1>2, <1>4, Positions DEF AtEntry
<1>7. \A o \in Observer : heard[o] # <<>> =>
          /\ heard[o][Len(heard[o])] \in Nat
          /\ heard[o][Len(heard[o])] <= notifications
  BY DEF NoForesight, ObsTypeOK
<1>8. NoForesight'
  BY <1>2, <1>7 DEF NoForesight
<1>9. \A o \in Observer : ~Reached(o)'
  BY <1>2, <1>7 DEF Reached
<1>10. Walked'
  <2> SUFFICES ASSUME NEW id \in Id, NEW o \in Observer, callbacks[id] = o PROVE ~(id < j)
    BY <1>2, <1>4, <1>9 DEF Walked
  <2> QED
    BY <1>1, Positions, ObservableAssumption
<1> QED
  BY <1>4, <1>5, <1>6, <1>8, <1>10

\* A callback returns and the iterator moves on.
LEMMA Returns ==
  ASSUME ObsInv, ObsTypeOK', NEW t \in Thread, CallbackReturns(t),
         NEW o \in Observer, o = callbacks[at[t]]
  PROVE  /\ ObsInv' /\ Locked /\ Locked' /\ ~Reached(o) /\ Reached(o)'
         /\ \A p \in Observer : p # o => (Reached(p)' <=> Reached(p))
<1>1. at[t] \in Id
  BY DEF CallbackReturns, Calling
<1>2. PICK j \in 0..End : /\ at[t] + 1 <= j /\ at' = [at EXCEPT ![t] = j]
                          /\ j \in Id => callbacks[j] # Nobody
                          /\ \A k \in Id : at[t] + 1 <= k /\ k < j => callbacks[k] = Nobody
  <2>1. at[t] + 1 \in Nat
    BY <1>1, Positions
  <2> QED
    BY <2>1, Moved DEF CallbackReturns, ObsInv
<1>3. /\ UNCHANGED <<callbacks, counter, ticket, subscriptions, notifications>>
      /\ heard'[o] = Append(heard[o], notifications) /\ heard[o] \in Seq(Nat)
      /\ \A p \in Observer : p # o => heard'[p] = heard[p]
      /\ notifications \in Nat
  BY <1>1 DEF CallbackReturns, ObsInv, ObsTypeOK
<1>4. j \in 0..Outside /\ j # Outside /\ at[t] # Outside
  BY <1>1, Positions
<1>5. /\ OneHolder' /\ Locked /\ Locked' /\ at'[t] = j
      /\ \A u \in Thread : u # t => at[u] = Outside /\ at'[u] = Outside
  <2>1. OneHolder /\ ObsTypeOK
    BY DEF ObsInv
  <2>2. Locked
    BY <1>4 DEF Locked
  <2> QED
    BY <1>2, <1>4, <2>1, <2>2, Holder
<1>6. Filed' /\ Fresh' /\ OwnEntry'
  BY <1>3 DEF ObsInv, Filed, Fresh, OwnEntry
<1>7. AtEntry'
  BY <1>2, <1>3, <1>5, Positions DEF AtEntry
<1>8. heard'[o] # <<>> /\ heard'[o][Len(heard'[o])] = notifications
  <2>1. \A s \in Seq(Nat), n \in Nat : Append(s, n) # <<>> /\ Append(s, n)[Len(Append(s, n))] = n
    OBVIOUS
  <2> QED
    BY <1>3, <2>1
<1>9. NoForesight'
  <2> SUFFICES ASSUME NEW p \in Observer, heard'[p] # <<>>
               PROVE  heard'[p][Len(heard'[p])] <= notifications
    BY <1>3 DEF NoForesight
  <2>1. CASE p = o
    BY <1>3, <1>8, <2>1
  <2>2. CASE p # o
    BY <1>3, <2>2 DEF ObsInv, NoForesight
  <2> QED
    BY <2>1, <2>2
<1>10. ~Reached(o) /\ Reached(o)'
  <2>1. Reached(o) <=> at[t] < at[t]
    BY <1>1, <1>4 DEF ObsInv, Walked
  <2>2. ~(at[t] < at[t])
    BY <1>1, Positions
  <2>3. Reached(o)'
    BY <1>3, <1>5, <1>8 DEF Reached
  <2> QED
    BY <2>1, <2>2, <2>3
<1>11. \A p \in Observer : p # o => (Reached(p)' <=> Reached(p))
  BY <1>3, <1>5 DEF Reached
<1>12. Walked'
  <2>1. \A p \in Observer : Reached(p)' => Member(p)'
    BY <1>1, <1>3, <1>11 DEF ObsInv, Walked, Member
  <2>2. ASSUME NEW id \in Id, NEW p \in Observer, callbacks[id] = p
        PROVE  Reached(p)' <=> id < j
    <3>1. CASE p = o
      <4>1. id = at[t]
        BY <1>1, <2>2, <3>1 DEF ObsInv, Filed
      <4>2. id < j
        BY <1>2, <4>1, Positions
      <4> QED
        BY <1>10, <3>1, <4>2
    <3>2. CASE p # o
      <4>1. id # at[t] /\ id \in Nat /\ at[t] \in Nat /\ j \in Nat
        BY <1>1, <2>2, <3>2, Positions
      <4>2. Reached(p) <=> id < at[t]
        BY <1>4, <2>2 DEF ObsInv, Walked
      <4>3. ~(at[t] < id /\ id < j)
        BY <1>2, <2>2, <4>1, ObservableAssumption
      <4> QED
        BY <1>2, <1>11, <3>2, <4>1, <4>2, <4>3
    <3> QED
      BY <3>1, <3>2
  <2> QED
    BY <1>3, <1>5, <2>1, <2>2 DEF Walked
<1> QED
  BY <1>1, <1>5, <1>6, <1>7, <1>9, <1>10, <1>11, <1>12 DEF ObsInv

\* notify is left, at its end or by an exception.
LEMMA Leaves ==
  ASSUME ObsInv, ObsTypeOK', NEW t \in Thread, at[t] # Outside,
         at' = [at EXCEPT ![t] = Outside],
         UNCHANGED <<callbacks, counter, ticket, subscriptions, notifications, heard>>
  PROVE  ObsInv' /\ Locked /\ ~Locked' /\ \A u \in Thread : at[u] # Outside => u = t
<1>1. /\ OneHolder' /\ ~Locked' /\ at'[t] = Outside
      /\ \A u \in Thread : u # t => at[u] = Outside /\ at'[u] = Outside
  <2>1. OneHolder /\ ObsTypeOK /\ Outside \in 0..Outside
    BY ObservableAssumption DEF ObsInv, Outside
  <2> QED
    BY <2>1, Holder
<1>2. Filed' /\ Fresh' /\ OwnEntry' /\ NoForesight'
  BY DEF ObsInv, Filed, Fresh, OwnEntry, NoForesight
<1>3. AtEntry' /\ Walked'
  BY <1>1, Positions DEF AtEntry, Walked, Reached
<1>4. Locked
  BY DEF Locked
<1> QED
  BY <1>1, <1>2, <1>3, <1>4 DEF ObsInv

\* The invariant holds in every state of an observable.
LEMMA ObsInvariant == ObsSpec => []ObsInv
<1>1. ObsInit => ObsInv
  <2> SUFFICES ASSUME ObsInit PROVE ObsInv
    OBVIOUS
  <2>1. ~Locked
    BY DEF ObsInit, Locked
  <2>2. OneHolder /\ AtEntry
    BY <2>1, Unlocked, Positions DEF OneHolder, AtEntry, Outside
  <2>3. Filed /\ Fresh /\ OwnEntry
    BY ObservableAssumption DEF ObsInit, Filed, Fresh, OwnEntry
  <2>4. NoForesight /\ Walked
    BY <2>1, Unlocked DEF ObsInit, NoForesight, Walked
  <2>5. ObsTypeOK
    BY InitTypes
  <2> QED
    BY <2>2, <2>3, <2>4, <2>5 DEF ObsInv
<1>2. ObsInv /\ [ObsNext]_obsVars /\ ObsTypeOK' => ObsInv'
  <2> SUFFICES ASSUME ObsInv, [ObsNext]_obsVars, ObsTypeOK' PROVE ObsInv'
    OBVIOUS
  <2>1. ASSUME NEW t \in Thread, CallbackThrows(t) \/ NotifyReturns(t) PROVE ObsInv'
    BY <2>1, Leaves, Positions DEF CallbackThrows, NotifyReturns, Calling
  <2>2. CASE UNCHANGED <<callbacks, counter, at, ticket, subscriptions, notifications, heard>>
    BY <2>2 DEF ObsInv, OneHolder, Filed, AtEntry, Fresh, OwnEntry, NoForesight, Walked,
                Reached, Locked, Member
  <2>3. ASSUME NEW t \in Thread, CallbackReturns(t) PROVE callbacks[at[t]] \in Observer
    BY <2>3 DEF CallbackReturns, Calling, ObsInv, AtEntry, ObsTypeOK
  <2>4. ASSUME NEW t \in Thread, CallbackReturns(t) PROVE ObsInv'
    BY <2>3, <2>4, Returns
  <2> QED
    BY <2>1, <2>2, <2>4, Subscribes, Unsubscribes, Begins
       DEF ObsNext, NotifyStep, CallbackReenters, obsVars
<1> QED
  BY <1>1, <1>2, ObsTypes, PTL DEF ObsSpec

\* No callback runs for an observer that has unsubscribed, nor for one whose
\* identifier belongs to somebody else: the mutex is held throughout notify, and
\* nobody is filed under an identifier it does not hold.
THEOREM ObsNoCallAfterUnsubscribe == ObsSpec => []NoCallAfterUnsubscribe
<1>1. ObsInv => NoCallAfterUnsubscribe
  BY DEF ObsInv, ObsTypeOK, AtEntry, Filed, NoCallAfterUnsubscribe
<1> QED
  BY <1>1, ObsInvariant, PTL

\* Until the identifiers are used up, every identifier held has its own entry.
THEOREM ObsOwnEntry == ObsSpec => []OwnEntry
<1>1. ObsInv => OwnEntry
  BY DEF ObsInv
<1> QED
  BY <1>1, ObsInvariant, PTL

(***************************************************************************)
(* The refinement.                                                         *)
(***************************************************************************)
Members == {o \in Observer : Member(o)}
Sent == IF Locked THEN notifications - 1 ELSE notifications
Heard == [o \in Observer |-> IF Reached(o)
                             THEN SubSeq(heard[o], 1, Len(heard[o]) - 1)
                             ELSE heard[o]]

\* A new entry is a join; the entry it replaces, if any, leaves.
LEMMA SubscribeJoins ==
  ASSUME ObsInv, NEW o \in Observer, subscribe(o) PROVE Broadcasts!Join(o)
<1>1. /\ ~Locked /\ ~Locked'
  BY DEF subscribe, Locked
<1>2. /\ counter \in Id
      /\ callbacks' = [callbacks EXCEPT ![counter] = o] /\ ticket[o] = NoTicket
      /\ callbacks \in [Id -> Observer \union {Nobody}]
      /\ subscriptions' = subscriptions + 1 /\ notifications' = notifications
      /\ heard' = [heard EXCEPT ![o] = <<>>] /\ heard \in [Observer -> Seq(Nat)]
  BY DEF subscribe, ObsInv, ObsTypeOK
<1>3. Heard = heard /\ Heard' = heard'
  <2>1. \A p \in Observer : ~Reached(p) /\ ~Reached(p)'
    BY <1>1 DEF Reached
  <2>2. heard' \in [Observer -> Seq(Nat)]
    BY <1>2
  <2> QED
    BY <1>2, <2>1, <2>2 DEF Heard
<1>4. Sent' = Sent
  BY <1>1, <1>2 DEF Sent
<1>5. o \notin Members
  BY <1>2, Positions DEF Members, Member, ObsInv, Filed
<1>6. CASE callbacks[counter] = Nobody
  <2>1. Members' = Members \union {o}
    BY <1>2, <1>6, ObservableAssumption DEF Members, Member
  <2> QED
    BY <1>2, <1>3, <1>4, <1>5, <2>1 DEF Broadcasts!Join, Members, Member, Sent, Heard
<1>7. CASE callbacks[counter] # Nobody
  <2> DEFINE e == callbacks[counter]
  <2>1. e \in Observer /\ ticket[e] = counter /\ e # o
    BY <1>2, <1>7, Positions DEF ObsInv, Filed
  <2>2. \A id \in Id : callbacks[id] = e => id = counter
    BY <2>1 DEF ObsInv, Filed
  <2>3. Members' = (Members \ {e}) \union {o} /\ e \in Members
    BY <1>2, <2>1, <2>2, ObservableAssumption DEF Members, Member
  <2>4. subscriptions >= IdLimit
    <3> SUFFICES ASSUME subscriptions < IdLimit PROVE FALSE
      BY ObservableAssumption DEF ObsInv, ObsTypeOK
    <3>1. counter = subscriptions /\ ticket[e] < subscriptions
      BY <1>2, <2>1, Positions, ObservableAssumption DEF ObsInv, Fresh
    <3> QED
      BY <1>2, <2>1, <3>1, Positions
  <2> QED
    BY <1>2, <1>3, <1>4, <1>5, <2>3, <2>4
       DEF Broadcasts!Join, Members, Member, Sent, Heard
<1> QED
  BY <1>6, <1>7

\* The entry removed leaves, whosoever it is.
LEMMA UnsubscribeLeaves ==
  ASSUME ObsInv, NEW o \in Observer, unsubscribe(o) PROVE Broadcasts!Leave(o)
<1>1. /\ ~Locked /\ ~Locked'
  BY DEF unsubscribe, Locked
<1>2. /\ ticket[o] \in Id
      /\ callbacks' = [callbacks EXCEPT ![ticket[o]] = Nobody]
      /\ callbacks \in [Id -> Observer \union {Nobody}]
      /\ UNCHANGED <<subscriptions, notifications, heard>>
  BY ObservableAssumption DEF unsubscribe, ObsInv, ObsTypeOK, NoTicket, Id
<1>3. Heard' = Heard
  BY <1>1, <1>2 DEF Heard, Reached
<1>4. Sent' = Sent
  BY <1>1, <1>2 DEF Sent
<1> DEFINE e == callbacks[ticket[o]]
<1>5. Members' = Members \ {e}
  <2>1. \A id \in Id, p \in Observer : callbacks[id] = p /\ p = e => id = ticket[o]
    BY <1>2 DEF ObsInv, Filed
  <2> QED
    BY <1>2, <2>1, ObservableAssumption DEF Members, Member
<1>6. CASE e = o
  BY <1>2, <1>3, <1>4, <1>5, <1>6 DEF Broadcasts!Leave, Members, Member, Sent, Heard
<1>7. CASE e # o
  <2>1. o \notin Members
    BY <1>2, <1>7 DEF ObsInv, Filed, Members, Member
  <2>2. subscriptions > IdLimit
    BY <1>2, <1>7, Positions, ObservableAssumption DEF ObsInv, ObsTypeOK, OwnEntry
  <2>3. CASE e = Nobody
    <3>1. Members' = Members \ {o}
      BY <1>5, <2>1, <2>3, ObservableAssumption DEF Members
    <3> QED
      BY <1>2, <1>3, <1>4, <3>1 DEF Broadcasts!Leave, Members, Member, Sent, Heard
  <2>4. CASE e # Nobody
    <3>1. e \in Members
      BY <1>2, <2>4 DEF Members, Member
    <3> QED
      BY <1>2, <1>3, <1>4, <1>5, <2>2, <3>1
         DEF Broadcasts!Leave, Members, Member, Sent, Heard
  <2> QED
    BY <2>3, <2>4
<1> QED
  BY <1>6, <1>7

\* When the mutex is released the notification has reached S at once.
LEMMA LeavingPublishes ==
  ASSUME ObsInv, NEW t \in Thread, Locked, ~Locked',
         UNCHANGED <<callbacks, subscriptions, notifications, heard>>,
         {o \in Observer : Reached(o)} # Members => Members \intersect Throwing # {}
  PROVE  \E S \in SUBSET Members : Broadcasts!Publish(S)
<1> DEFINE S == {o \in Observer : Reached(o)}
<1>1. S \in SUBSET Members
  BY DEF ObsInv, Walked, Members
<1>2. Members' = Members /\ Sent' = Sent + 1 /\ Sent + 1 = notifications
  BY DEF Members, Member, Sent, ObsInv, ObsTypeOK
<1>3. Heard' = [o \in Observer |-> IF o \in S THEN Append(Heard[o], Sent + 1) ELSE Heard[o]]
  <2>1. Heard' = heard
    BY DEF Heard, Reached, ObsInv, ObsTypeOK
  <2>2. ASSUME NEW o \in Observer, Reached(o) PROVE heard[o] = Append(Heard[o], Sent + 1)
    <3>1. /\ heard[o] \in Seq(Nat) /\ heard[o] # <<>>
          /\ heard[o][Len(heard[o])] = notifications
      BY <2>2 DEF Reached, ObsInv, ObsTypeOK
    <3>2. Heard[o] = SubSeq(heard[o], 1, Len(heard[o]) - 1)
      BY <2>2 DEF Heard
    <3>3. \A s \in Seq(Nat) : s # <<>> => s = Append(SubSeq(s, 1, Len(s) - 1), s[Len(s)])
      OBVIOUS
    <3> QED
      BY <1>2, <3>1, <3>2, <3>3
  <2>3. ASSUME NEW o \in Observer, ~Reached(o) PROVE heard[o] = Heard[o]
    BY <2>3 DEF Heard
  <2>4. heard = [o \in Observer |-> heard[o]]
    BY DEF ObsInv, ObsTypeOK
  <2> QED
    BY <2>1, <2>2, <2>3, <2>4
<1>4. S # Members => Members \intersect Throwing # {}
  OBVIOUS
<1>5. subscriptions' = subscriptions
  OBVIOUS
<1> HIDE DEF S
<1> QED
  BY <1>1, <1>2, <1>3, <1>4, <1>5 DEF Broadcasts!Publish, Members, Member, Sent, Heard

\* A step that starts a notification or calls a member is not seen from outside.
LEMMA BeginsUnseen ==
  ASSUME ObsInv, ObsTypeOK', NEW t \in Thread, notify(t)
  PROVE  UNCHANGED Broadcasts!broadcast
<1>1. ObsInv' /\ ~Locked
  BY Begins DEF notify
<1>2. Locked'
  <2>1. PICK j \in 0..End : at' = [at EXCEPT ![t] = j]
    BY Moved DEF notify, ObsInv
  <2> QED
    BY <2>1, Positions DEF Locked, ObsInv, ObsTypeOK
<1>3. /\ UNCHANGED <<callbacks, subscriptions, heard>>
      /\ notifications' = notifications + 1 /\ notifications \in Nat
  BY DEF notify, ObsInv, ObsTypeOK
<1>4. \A o \in Observer : ~Reached(o) /\ ~Reached(o)'
  <2>1. \A o \in Observer : heard[o] # <<>> =>
            /\ heard[o][Len(heard[o])] \in Nat
            /\ heard[o][Len(heard[o])] <= notifications
    BY DEF ObsInv, NoForesight, ObsTypeOK
  <2> QED
    BY <1>1, <1>3, <2>1 DEF Reached
<1>5. Heard' = Heard
  BY <1>3, <1>4 DEF Heard
<1>6. Sent' = Sent
  BY <1>1, <1>2, <1>3 DEF Sent
<1>7. Members' = Members
  BY <1>3 DEF Members, Member
<1> QED
  BY <1>3, <1>5, <1>6, <1>7 DEF Broadcasts!broadcast, Members, Member, Sent, Heard

\* A callback in the middle of a notification is no step of the broadcast.
LEMMA CallUnseen ==
  ASSUME ObsInv, ObsTypeOK', NEW t \in Thread, CallbackReturns(t)
  PROVE  UNCHANGED Broadcasts!broadcast
<1>1. PICK o \in Observer : o = callbacks[at[t]]
  BY DEF CallbackReturns, Calling, ObsInv, AtEntry, ObsTypeOK
<1>2. /\ Locked /\ Locked' /\ ~Reached(o) /\ Reached(o)'
      /\ \A p \in Observer : p # o => (Reached(p)' <=> Reached(p))
  BY <1>1, Returns
<1>3. /\ UNCHANGED <<callbacks, subscriptions, notifications>>
      /\ heard[o] \in Seq(Nat) /\ notifications \in Nat
      /\ heard'[o] = Append(heard[o], notifications)
      /\ \A p \in Observer : p # o => heard'[p] = heard[p]
  BY <1>1 DEF CallbackReturns, ObsInv, ObsTypeOK
<1>4. \A s \in Seq(Nat), n \in Nat : SubSeq(Append(s, n), 1, Len(Append(s, n)) - 1) = s
  OBVIOUS
<1>5. SubSeq(heard'[o], 1, Len(heard'[o]) - 1) = heard[o]
  BY <1>3, <1>4
<1>6. Heard' = Heard
  BY <1>2, <1>3, <1>5 DEF Heard
<1>7. Sent' = Sent /\ Members' = Members
  BY <1>2, <1>3 DEF Sent, Members, Member
<1> QED
  BY <1>3, <1>6, <1>7 DEF Broadcasts!broadcast, Members, Member, Sent, Heard

\* The observable implements the broadcast: whatever the interleaving of the threads
\* and whoever throws, observers agree on what was sent and in which order.
THEOREM ObsImplementsBroadcast == ObsSpec => BroadcastSpec
<1>1. ObsInit => Broadcasts!Init
  <2> SUFFICES ASSUME ObsInit PROVE Broadcasts!Init
    OBVIOUS
  <2>1. ~Locked
    BY DEF ObsInit, Locked
  <2>2. Members = {} /\ Sent = 0 /\ Heard = [o \in Observer |-> <<>>]
    BY <2>1, ObservableAssumption DEF ObsInit, Members, Member, Sent, Heard, Reached
  <2> QED
    BY <2>2 DEF ObsInit, Broadcasts!Init, Members, Member, Sent, Heard
<1>2. ObsInv /\ ObsTypeOK' /\ [ObsNext]_obsVars => [Broadcasts!Next]_(Broadcasts!broadcast)
  <2> SUFFICES ASSUME ObsInv, ObsTypeOK', [ObsNext]_obsVars
               PROVE  [Broadcasts!Next]_(Broadcasts!broadcast)
    OBVIOUS
  <2>1. ASSUME NEW o \in Observer, subscribe(o) PROVE Broadcasts!Next
    BY <2>1, SubscribeJoins DEF Broadcasts!Next
  <2>2. ASSUME NEW o \in Observer, unsubscribe(o) PROVE Broadcasts!Next
    BY <2>2, UnsubscribeLeaves DEF Broadcasts!Next
  <2>3. ASSUME NEW t \in Thread, CallbackThrows(t) PROVE Broadcasts!Next
    <3>1. /\ at[t] # Outside /\ at' = [at EXCEPT ![t] = Outside]
          /\ UNCHANGED <<callbacks, counter, ticket, subscriptions, notifications, heard>>
      BY <2>3, Positions DEF CallbackThrows, Calling
    <3>2. Locked /\ ~Locked'
      BY <3>1, Leaves
    <3>3. callbacks[at[t]] \in Throwing /\ callbacks[at[t]] \in Members
      BY <2>3 DEF CallbackThrows, Calling, Members, Member, ObsInv, AtEntry, ObsTypeOK
    <3>4. \E S \in SUBSET Members : Broadcasts!Publish(S)
      BY <3>1, <3>2, <3>3, LeavingPublishes
    <3> QED
      BY <3>4 DEF Broadcasts!Next, Members, Member
  <2>4. ASSUME NEW t \in Thread, NotifyReturns(t) PROVE Broadcasts!Next
    <3>1. /\ at[t] = End /\ at[t] # Outside /\ at' = [at EXCEPT ![t] = Outside]
          /\ UNCHANGED <<callbacks, counter, ticket, subscriptions, notifications, heard>>
      BY <2>4, Positions, ObservableAssumption DEF NotifyReturns, End, Outside
    <3>2. Locked /\ ~Locked'
      BY <3>1, Leaves
    <3>3. {o \in Observer : Reached(o)} = Members
      BY <3>1, Positions DEF ObsInv, Walked, Members, Member
    <3>4. \E S \in SUBSET Members : Broadcasts!Publish(S)
      BY <3>1, <3>2, <3>3, LeavingPublishes
    <3> QED
      BY <3>4 DEF Broadcasts!Next, Members, Member
  <2>5. ASSUME NEW t \in Thread, notify(t) \/ CallbackReturns(t)
        PROVE  UNCHANGED Broadcasts!broadcast
    BY <2>5, BeginsUnseen, CallUnseen
  <2>6. CASE UNCHANGED <<callbacks, at, subscriptions, notifications, heard>>
    <3>1. Members' = Members /\ Sent' = Sent /\ Heard' = Heard
      BY <2>6 DEF Members, Member, Sent, Heard, Reached, Locked
    <3> QED
      BY <2>6, <3>1 DEF Broadcasts!broadcast, Members, Member, Sent, Heard
  <2> QED
    BY <2>1, <2>2, <2>3, <2>4, <2>5, <2>6
       DEF ObsNext, NotifyStep, CallbackReenters, obsVars
<1> QED
  BY <1>1, <1>2, ObsInvariant, ObsTypes, PTL DEF ObsSpec, BroadcastSpec, Broadcasts!Spec
=============================================================================
