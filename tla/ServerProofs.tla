----------------------------- MODULE ServerProofs -----------------------------
(***************************************************************************)
(* Proofs about Server, for any number of connections, identifiers, Data   *)
(* messages and refused messages.  What the observable promises is taken   *)
(* from ObservableProofs: the server is one of its clients.                *)
(***************************************************************************)
EXTENDS Server, ObservableProofs

Started(c) == job[c] \notin {"none", "subscribe"}

\* The identifier belongs to the job, from its subscription to its destruction.
TicketOfJob ==
    \A c \in Connection :
        /\ ticket[c] # NoTicket => entry[c] \in {"open", "destroying"} /\ Started(c)
        /\ entry[c] \in {"open", "destroying"} /\ Started(c) => ticket[c] # NoTicket
        /\ entry[c] = "absent" => job[c] = "none"

\* The processor works for jobs that were subscribed before they asked.
Origin ==
    /\ Len(results) = notifications
    /\ \A c \in Connection : asked[c] > 0 => Started(c)
    /\ \A n \in DOMAIN results : Started(results[n])

(***************************************************************************)
(* The server uses the observable as ObsSpec allows, so that all that is   *)
(* proved about an observable holds here.                                  *)
(***************************************************************************)

\* Every step of the server is a step of the observable's specification, or leaves
\* the observable alone.
THEOREM ServerUsesObservable == Spec => ObsSpec
<1>1. Init => ObsInit
  BY DEF Init
<1>2. [Next]_vars => [ObsNext]_obsVars
  <2> SUFFICES ASSUME [Next]_vars PROVE [ObsNext]_obsVars
    OBVIOUS
  <2>1. ASSUME NEW c \in Connection, Erase(c) \/ Subscribe(c) PROVE [ObsNext]_obsVars
    BY <2>1 DEF Erase, Subscribe, ObsNext, Connection
  <2>2. ASSUME NEW c \in Connection, AnswerAtOnce(c) \/ Answer(c) \/ ProcessorReturns(c) \/ Answered
        PROVE  [ObsNext]_obsVars
    BY <2>2, ServerAssumption
       DEF AnswerAtOnce, Answer, ProcessorReturns, Answered, ObsNext, NotifyStep
  <2>3. ASSUME NEW t \in Thread, Callback(t) PROVE [ObsNext]_obsVars
    BY <2>3 DEF Callback, ObsNext, NotifyStep
  <2>4. CASE UNCHANGED obsVars
    BY <2>4
  <2>5. ASSUME NEW c \in Connection, QueueMessage(c) \/ \E type \in {"Data", "End"} : OnQueued(c, type)
        PROVE  UNCHANGED obsVars
    BY <2>5 DEF QueueMessage, OnQueued, Queue
  <2>6. ASSUME NEW c \in Connection,
               \/ OnOpen(c) \/ OnStart(c) \/ OnRefused(c) \/ OnCloseSent(c) \/ OnClose(c)
               \/ ReadEnd(c) \/ Join(c) \/ SendEnd(c) \/ UseAfterDestroy(c)
               \/ Take(c) \/ Ask(c) \/ Keep(c) \/ AwaitResult(c) \/ Finish(c)
        PROVE  UNCHANGED obsVars
    BY <2>6 DEF OnOpen, OnStart, OnRefused, OnCloseSent, OnClose, ReadEnd, Join, SendEnd,
                UseAfterDestroy, Take, Ask, Keep, AwaitResult, Finish
  <2>7. CASE UNCHANGED vars
    BY <2>7 DEF vars
  <2>8. CASE Next
    BY <2>8, <2>1, <2>2, <2>3, <2>5, <2>6, ServerAssumption
       DEF Next, IoStep, JobStep, Answered, ObsNext, NotifyStep
  <2> QED
    BY <2>7, <2>8
<1> QED
  BY <1>1, <1>2, PTL DEF Spec, ObsSpec

(***************************************************************************)
(* Types.                                                                  *)
(***************************************************************************)
Rest ==
    /\ entry \in [Connection -> {"absent", "open", "destroying", "erased"}]
    /\ closing \subseteq Connection
    /\ io \in [step : {"Data", "End", "erase"}, on : Connection] \union {Idle}
    /\ input \in [Connection -> {"reading", "stopping", "joining", "done"}]
    /\ ended \subseteq Connection
    /\ job \in [Connection -> {"none", "subscribe", "loop", "ask", "delivering",
                               "publishing", "await", "done"}]
    /\ todo \in [Connection -> Nat] /\ asked \in [Connection -> Nat]
    /\ released \in [Connection -> BOOLEAN]
    /\ results \in Seq(Connection) /\ received \in Nat
    /\ fault \in {"none", "dangling", "terminate", "null_job", "use_after_destroy"}

\* The handlers of the io thread.
LEMMA IoTypes ==
  ASSUME Rest, NEW c \in Connection,
         \/ OnOpen(c) \/ OnStart(c) \/ OnRefused(c) \/ OnCloseSent(c) \/ OnClose(c)
         \/ QueueMessage(c) \/ Erase(c) \/ \E type \in {"Data", "End"} : OnQueued(c, type)
  PROVE  Rest'
<1> USE DEF Rest
<1>1. CASE OnOpen(c)
  BY <1>1 DEF OnOpen, inputVars, jobVars
<1>2. CASE OnStart(c)
  BY <1>2 DEF OnStart, ioVars, inputVars
<1>3. CASE OnRefused(c)
  BY <1>3 DEF OnRefused, inputVars, jobVars
<1>4. CASE OnCloseSent(c)
  <2>1. closing' \subseteq Connection /\ UNCHANGED <<inputVars, jobVars>>
    BY <1>4 DEF OnCloseSent
  <2>2. ASSUME NEW other \in Connection, Erasing(other), UNCHANGED fault PROVE Rest'
    BY <2>1, <2>2 DEF Erasing, inputVars, jobVars
  <2>3. CASE UNCHANGED <<entry, io>> /\ fault' \in {fault, "dangling"}
    BY <2>1, <2>3 DEF inputVars, jobVars
  <2> QED
    BY <1>4, <2>2, <2>3 DEF OnCloseSent
<1>5. CASE OnClose(c)
  BY <1>5 DEF OnClose, Erasing, inputVars, jobVars
<1>6. ASSUME NEW type \in {"Data", "End"}, Queue(c, type), io' \in {io, Idle} PROVE Rest'
  <2>1. todo' \in [Connection -> Nat]
    BY <1>6 DEF Queue
  <2>2. input' \in [Connection -> {"reading", "stopping", "joining", "done"}]
    BY <1>6 DEF Queue
  <2> QED
    BY <1>6, <2>1, <2>2 DEF Queue, Idle
<1>7. CASE QueueMessage(c)
  BY <1>6, <1>7 DEF QueueMessage
<1>8. ASSUME NEW type \in {"Data", "End"}, OnQueued(c, type) PROVE Rest'
  <2>1. CASE input[c] = "joining"
    BY <1>8, <2>1 DEF OnQueued, inputVars, jobVars
  <2>2. CASE input[c] # "joining"
    BY <1>6, <1>8, <2>2 DEF OnQueued
  <2> QED
    BY <2>1, <2>2
<1>9. CASE Erase(c)
  BY <1>9 DEF Erase, inputVars, jobVars
<1> QED
  BY <1>1, <1>2, <1>3, <1>4, <1>5, <1>7, <1>8, <1>9

\* The threads.
LEMMA ThreadTypes ==
  ASSUME Rest, NEW c \in Connection,
         \/ ReadEnd(c) \/ Join(c) \/ SendEnd(c) \/ JobStep(c) \/ Answer(c)
         \/ UseAfterDestroy(c)
  PROVE  Rest'
<1> USE DEF Rest
<1>1. CASE ReadEnd(c) \/ Join(c) \/ SendEnd(c) \/ UseAfterDestroy(c)
  BY <1>1 DEF ReadEnd, Join, SendEnd, UseAfterDestroy, ioVars, inputVars, jobVars
<1>2. CASE Subscribe(c) \/ Ask(c) \/ Finish(c) \/ AwaitResult(c)
  BY <1>2 DEF Subscribe, Ask, Finish, AwaitResult, Goto, ioVars, inputVars
<1>3. CASE Take(c)
  <2>1. todo' \in [Connection -> Nat]
    BY <1>3 DEF Take
  <2> QED
    BY <1>3, <2>1 DEF Take, Goto, ioVars, inputVars
<1>4. CASE Keep(c)
  <2>1. asked' \in [Connection -> Nat]
    BY <1>4 DEF Keep
  <2> QED
    BY <1>4, <2>1 DEF Keep, Goto, ioVars, inputVars
<1>5. CASE AnswerAtOnce(c)
  <2>1. results' \in Seq(Connection)
    BY <1>5 DEF AnswerAtOnce
  <2> QED
    BY <1>5, <2>1 DEF AnswerAtOnce, Goto, ioVars, inputVars
<1>7. CASE ProcessorReturns(c)
  BY <1>7 DEF ProcessorReturns, ioVars, inputVars
<1>6. CASE Answer(c)
  <2>1. asked' \in [Connection -> Nat] /\ results' \in Seq(Connection)
    BY <1>6 DEF Answer
  <2> QED
    BY <1>6, <2>1 DEF Answer, ioVars, inputVars
<1> QED
  BY <1>1, <1>2, <1>3, <1>4, <1>5, <1>6, <1>7 DEF JobStep

\* Variables keep their types: no count goes below zero, the io thread does one
\* thing at a time.
THEOREM ServerTypes == Spec => []TypeOK
<1>1. Init => Rest
  BY DEF Init, Rest
<1>2. Rest /\ [Next]_vars => Rest'
  <2> SUFFICES ASSUME Rest, [Next]_vars PROVE Rest'
    OBVIOUS
  <2>1. CASE Answered \/ UNCHANGED vars
    BY <2>1 DEF Rest, Answered, vars, ioVars, inputVars, jobVars
  <2>2. ASSUME NEW t \in Thread, Callback(t) PROVE Rest'
    BY <2>2 DEF Rest, Callback, ioVars, inputVars
  <2> QED
    BY <2>1, <2>2, IoTypes, ThreadTypes DEF Next, IoStep
<1>3. ObsTypeOK /\ Rest => TypeOK
  BY DEF Rest, TypeOK
<1> QED
  BY <1>1, <1>2, <1>3, ServerUsesObservable, ObsTypes, PTL DEF Spec

(***************************************************************************)
(* The invariant.                                                          *)
(***************************************************************************)
Arrival == TicketOfJob /\ Origin /\ OwnResultArrives

\* A step that leaves the results alone, and starts and opens nothing that has a
\* past, keeps it.
LEMMA Aside ==
  ASSUME TypeOK, Arrival, UNCHANGED <<obsVars, results>>,
         \A c \in Connection :
             /\ Started(c)' <=> Started(c)
             /\ \/ entry'[c] = entry[c]
                \/ entry[c] = "open" /\ entry'[c] = "destroying"
                \/ entry[c] = "absent" /\ entry'[c] = "open"
             /\ entry'[c] = "absent" => job'[c] = job[c]
             /\ asked'[c] > 0 => asked[c] > 0 \/ Started(c)
  PROVE  Arrival'
<1>1. /\ UNCHANGED <<callbacks, at, ticket, subscriptions, notifications, heard>>
      /\ Locked' <=> Locked
  BY DEF obsVars, Locked
<1>2. TicketOfJob'
  BY <1>1 DEF Arrival, TicketOfJob, Started
<1>3. Origin'
  <2>1. \A n \in DOMAIN results : results[n] \in Connection
    BY DEF TypeOK
  <2>2. \A n \in DOMAIN results' : Started(results[n])'
    BY <2>1 DEF Arrival, Origin, Started
  <2> QED
    BY <1>1, <2>2 DEF Arrival, Origin, Started
<1>4. OwnResultArrives'
  <2> SUFFICES ASSUME subscriptions <= IdLimit, NEW n \in DOMAIN results,
                      entry'[results[n]] = "open", n < notifications \/ ~Locked
               PROVE  \E i \in DOMAIN heard[results[n]] : heard[results[n]][i] = n
    BY <1>1 DEF OwnResultArrives
  <2>1. results[n] \in Connection /\ Started(results[n])
    BY DEF TypeOK, Arrival, Origin
  <2>2. entry[results[n]] = "open"
    BY <2>1 DEF Arrival, TicketOfJob, Started
  <2> QED
    BY <2>2 DEF Arrival, OwnResultArrives
<1> QED
  BY <1>2, <1>3, <1>4 DEF Arrival

\* The job that subscribes has asked for nothing yet.
LEMMA SubscribeArrival ==
  ASSUME TypeOK, Arrival, NEW c \in Connection, Subscribe(c) PROVE Arrival'
<1>1. /\ entry[c] = "open" /\ job[c] = "subscribe" /\ job' = [job EXCEPT ![c] = "loop"]
      /\ UNCHANGED <<entry, asked, results, notifications, at>>
      /\ ticket' = [ticket EXCEPT ![c] = counter] /\ subscriptions' = subscriptions + 1
      /\ heard' = [heard EXCEPT ![c] = <<>>] /\ counter \in Id
  BY DEF Subscribe, Goto, Open, subscribe, ioVars, TypeOK, ObsTypeOK
<1>2. TicketOfJob'
  BY <1>1, Positions DEF Arrival, TicketOfJob, Started, TypeOK, ObsTypeOK, Connection
<1>3. \A d \in Connection : Started(d) => Started(d)' /\ d # c
  BY <1>1 DEF Started, TypeOK
<1>4. \A n \in DOMAIN results : results[n] \in Connection /\ Started(results[n])
  BY DEF TypeOK, Arrival, Origin
<1>5. Origin'
  <2>1. \A n \in DOMAIN results : (job'[results[n]] \notin {"none", "subscribe"})
    BY <1>3, <1>4 DEF Started
  <2> QED
    BY <1>1, <1>3, <2>1 DEF Arrival, Origin, Started
<1>6. OwnResultArrives'
  <2> SUFFICES ASSUME subscriptions' <= IdLimit, NEW n \in DOMAIN results,
                      entry[results[n]] = "open", n < notifications \/ ~Locked
               PROVE  \E i \in DOMAIN heard'[results[n]] : heard'[results[n]][i] = n
    BY <1>1 DEF OwnResultArrives, Locked
  <2>1. subscriptions <= IdLimit
    BY <1>1, ObservableAssumption DEF TypeOK, ObsTypeOK
  <2>2. heard'[results[n]] = heard[results[n]]
    BY <1>1, <1>3, <1>4 DEF TypeOK, ObsTypeOK, Connection
  <2> QED
    BY <2>1, <2>2 DEF Arrival, OwnResultArrives
<1> QED
  BY <1>2, <1>5, <1>6 DEF Arrival

\* The entry that ~Job leaves behind is not open.
LEMMA EraseArrival ==
  ASSUME TypeOK, Arrival, NEW c \in Connection, Erase(c)
  PROVE  Arrival'
<1>1. /\ UNCHANGED <<job, asked, results>>
      /\ \/ entry' = entry /\ UNCHANGED obsVars
         \/ entry' = [entry EXCEPT ![c] = "erased"] /\ job[c] = "none" /\ UNCHANGED obsVars
         \/ entry' = [entry EXCEPT ![c] = "erased"] /\ unsubscribe(c)
  BY DEF Erase, jobVars
<1>2. CASE entry' = entry /\ UNCHANGED obsVars
  BY <1>1, <1>2, Aside DEF Started
<1>3. CASE \/ entry' = [entry EXCEPT ![c] = "erased"] /\ job[c] = "none" /\ UNCHANGED obsVars
           \/ entry' = [entry EXCEPT ![c] = "erased"] /\ unsubscribe(c)
  <2>1. /\ UNCHANGED <<job, asked, results, subscriptions, notifications, heard, at>>
        /\ entry'[c] = "erased" /\ \A d \in Connection : d # c => entry'[d] = entry[d]
        /\ ticket'[c] = NoTicket /\ \A d \in Connection : d # c => ticket'[d] = ticket[d]
    BY <1>1, <1>3
       DEF unsubscribe, obsVars, Arrival, TicketOfJob, Started, TypeOK, ObsTypeOK, Connection
  <2>2. TicketOfJob'
    BY <2>1 DEF Arrival, TicketOfJob, Started
  <2>3. Origin'
    BY <2>1 DEF Arrival, Origin, Started
  <2>4. OwnResultArrives'
    <3>1. \A n \in DOMAIN results : results[n] \in Connection
      BY DEF TypeOK
    <3> QED
      BY <2>1, <3>1 DEF Arrival, OwnResultArrives, Locked
  <2> QED
    BY <2>2, <2>3, <2>4 DEF Arrival
<1> QED
  BY <1>1, <1>2, <1>3

\* A notification that begins is one that has not arrived.
LEMMA NotifyArrival ==
  ASSUME TypeOK, Arrival, ~Locked, Locked', NEW c \in Connection, Started(c),
         UNCHANGED <<entry, subscriptions, ticket, heard>>,
         notifications' = notifications + 1, results' = Append(results, c),
         \A d \in Connection : /\ Started(d)' <=> Started(d)
                               /\ entry[d] = "absent" => job'[d] = job[d]
                               /\ asked'[d] > 0 => asked[d] > 0
  PROVE  Arrival'
<1>1. TicketOfJob'
  BY DEF Arrival, TicketOfJob, Started
<1>2. /\ Len(results') = Len(results) + 1 /\ results'[Len(results) + 1] = c
      /\ \A n \in DOMAIN results : results'[n] = results[n] /\ results[n] \in Connection
      /\ DOMAIN results' = DOMAIN results \union {Len(results) + 1}
      /\ Len(results) \in Nat /\ Len(results) = notifications
      /\ \A n \in DOMAIN results : n \in Nat
  BY DEF TypeOK, Arrival, Origin
<1>3. Origin'
  <2>1. \A n \in DOMAIN results' : job'[results'[n]] \notin {"none", "subscribe"}
    BY <1>2 DEF Arrival, Origin, Started
  <2> QED
    BY <1>2, <2>1 DEF Arrival, Origin, Started
<1>4. OwnResultArrives'
  <2> SUFFICES ASSUME subscriptions <= IdLimit, NEW n \in DOMAIN results',
                      entry[results'[n]] = "open", n < notifications'
               PROVE  \E i \in DOMAIN heard[results'[n]] : heard[results'[n]][i] = n
    BY DEF OwnResultArrives
  <2>1. n \in DOMAIN results /\ results'[n] = results[n]
    BY <1>2
  <2> QED
    BY <2>1 DEF Arrival, OwnResultArrives
<1> QED
  BY <1>1, <1>3, <1>4 DEF Arrival

\* A callback adds to what its observer heard.
LEMMA CallbackArrival ==
  ASSUME TypeOK, Arrival, ObsInv, ObsTypeOK', NEW t \in Thread, Callback(t) PROVE Arrival'
<1>1. PICK o \in Connection : o = callbacks[at[t]]
  BY DEF Callback, CallbackReturns, Calling, ObsInv, AtEntry, TypeOK, ObsTypeOK, Connection
<1>2. CallbackReturns(t) /\ UNCHANGED <<entry, job, asked, results>>
  BY DEF Callback, ioVars
<1>3. Locked /\ Locked'
  BY <1>1, <1>2, Returns DEF Connection
<1>4. /\ UNCHANGED <<callbacks, ticket, subscriptions, notifications>>
      /\ heard' = [heard EXCEPT ![o] = Append(heard[o], notifications)]
      /\ heard \in [Connection -> Seq(Nat)] /\ notifications \in Nat
  BY <1>1, <1>2 DEF CallbackReturns, TypeOK, ObsTypeOK, Connection
<1>5. TicketOfJob' /\ Origin'
  BY <1>2, <1>4 DEF Arrival, TicketOfJob, Origin, Started
<1>6. \A d \in Connection : \A i \in DOMAIN heard[d] :
          i \in DOMAIN heard'[d] /\ heard'[d][i] = heard[d][i]
  BY <1>4
<1>7. \A n \in DOMAIN results : results[n] \in Connection
  BY DEF TypeOK
<1>8. OwnResultArrives'
  BY <1>2, <1>3, <1>4, <1>6, <1>7 DEF Arrival, OwnResultArrives
<1> QED
  BY <1>5, <1>8 DEF Arrival

\* When a notification is over, the iterator has passed every entry, that of the job
\* it answers included.
LEMMA ReturnArrival ==
  ASSUME TypeOK, Arrival, ObsInv, ObsTypeOK', NEW t \in Thread, NotifyReturns(t),
         UNCHANGED <<entry, asked, results>>,
         \A d \in Connection : /\ Started(d)' <=> Started(d)
                               /\ entry[d] = "absent" => job'[d] = job[d]
  PROVE  Arrival'
<1>1. /\ UNCHANGED <<callbacks, ticket, subscriptions, notifications, heard>>
      /\ at[t] = End /\ at[t] # Outside /\ Locked
  BY Positions, ObservableAssumption DEF NotifyReturns, Locked, End, Outside
<1>2. TicketOfJob' /\ Origin'
  <2>1. \A n \in DOMAIN results : results[n] \in Connection
    BY DEF TypeOK
  <2>2. \A n \in DOMAIN results : job'[results[n]] \notin {"none", "subscribe"}
    BY <2>1 DEF Arrival, Origin, Started
  <2> QED
    BY <1>1, <2>2 DEF Arrival, TicketOfJob, Origin, Started
<1>3. OwnResultArrives'
  <2> SUFFICES ASSUME subscriptions <= IdLimit, NEW n \in DOMAIN results,
                      entry[results[n]] = "open"
               PROVE  \E i \in DOMAIN heard[results[n]] : heard[results[n]][i] = n
    BY <1>1 DEF OwnResultArrives
  <2> DEFINE c == results[n]
  <2>1. n \in Nat /\ n <= notifications /\ notifications \in Nat
    BY DEF TypeOK, ObsTypeOK, Arrival, Origin
  <2>2. CASE n < notifications
    BY <2>2 DEF Arrival, OwnResultArrives
  <2>3. CASE n = notifications
    <3>1. c \in Connection /\ ticket[c] # NoTicket
      BY DEF TypeOK, Arrival, Origin, TicketOfJob
    <3>a. ticket[c] \in 0..NoTicket
      BY <3>1 DEF TypeOK, ObsTypeOK, Connection
    <3>b. ticket[c] \in Id
      BY <3>1, <3>a, ObservableAssumption DEF NoTicket, Id
    <3>c. callbacks[ticket[c]] = c
      BY <3>1 DEF ObsInv, OwnEntry, Connection
    <3>2. ticket[c] \in Id /\ callbacks[ticket[c]] = c
      BY <3>b, <3>c
    <3>3. Reached(c)
      BY <1>1, <3>1, <3>2, Positions DEF ObsInv, Walked, Connection
    <3>4. heard[c] \in Seq(Nat)
      BY <3>1 DEF TypeOK, ObsTypeOK, Connection
    <3>5. Len(heard[c]) \in DOMAIN heard[c] /\ heard[c][Len(heard[c])] = notifications
      BY <3>3, <3>4 DEF Reached
    <3> QED
      BY <2>3, <3>5
  <2> QED
    BY <2>1, <2>2, <2>3
<1> QED
  BY <1>2, <1>3 DEF Arrival

\* The steps of one connection and of the processor that answers it.
LEMMA ConnectionArrival ==
  ASSUME TypeOK, Arrival, ObsInv, ObsInv', NEW c \in Connection,
         \/ OnOpen(c) \/ OnStart(c) \/ OnRefused(c) \/ OnCloseSent(c) \/ OnClose(c)
         \/ \E type \in {"Data", "End"} : OnQueued(c, type)
         \/ IoStep(c) \/ ReadEnd(c) \/ Join(c) \/ SendEnd(c) \/ JobStep(c) \/ Answer(c)
         \/ UseAfterDestroy(c)
  PROVE  Arrival'
<1>1. CASE UNCHANGED <<obsVars, results, entry, job, asked>>
  BY <1>1, Aside DEF Started
<1>2. CASE \/ OnRefused(c) \/ QueueMessage(c) \/ UseAfterDestroy(c)
           \/ ReadEnd(c) \/ Join(c) \/ SendEnd(c)
           \/ \E type \in {"Data", "End"} : OnQueued(c, type)
  <2>1. UNCHANGED <<obsVars, results, entry, job, asked>>
    BY <1>2 DEF OnRefused, QueueMessage, UseAfterDestroy, ReadEnd, Join, SendEnd, OnQueued,
                Queue, ioVars, jobVars
  <2> QED
    BY <1>1, <2>1
<1>3. CASE OnOpen(c)
  BY <1>3, Aside DEF OnOpen, Started, jobVars, TypeOK
<1>4. CASE OnStart(c)
  BY <1>4, Aside DEF OnStart, Served, Open, Started, ioVars, TypeOK
<1>5. ASSUME NEW d \in Connection, Erasing(d), UNCHANGED <<obsVars, jobVars>> PROVE Arrival'
  BY <1>5, Aside DEF Erasing, Served, Open, Started, jobVars, TypeOK
<1>6. CASE OnClose(c) \/ OnCloseSent(c)
  BY <1>1, <1>5, <1>6 DEF OnClose, OnCloseSent, jobVars
<1>7. CASE Erase(c)
  BY <1>7, EraseArrival
<1>8. CASE Subscribe(c)
  BY <1>8, SubscribeArrival
<1>9. CASE Take(c) \/ Ask(c) \/ Keep(c) \/ AwaitResult(c) \/ Finish(c)
  <2>1. /\ UNCHANGED <<obsVars, results, entry>> /\ Started(c)
        /\ \A d \in Connection : d # c => job'[d] = job[d] /\ asked'[d] = asked[d]
        /\ Started(c)' /\ entry[c] = "open"
    BY <1>9 DEF Take, Ask, Keep, AwaitResult, Finish, Goto, Open, Started, ioVars, TypeOK
  <2> QED
    BY <2>1, Aside DEF Started
<1>10. ASSUME NEW t \in Thread, notify(t) PROVE ~Locked /\ Locked'
  <2>1. PICK j \in 0..End : at' = [at EXCEPT ![t] = j]
    BY <1>10, Moved DEF notify, ObsInv
  <2> QED
    BY <1>10, <2>1, Positions DEF notify, Locked, ObsInv, ObsTypeOK
<1>11. CASE AnswerAtOnce(c)
  <2>1. /\ Started(c) /\ Started(c)' /\ entry[c] = "open" /\ notify(c) /\ c \in Thread
        /\ \A d \in Connection : d # c => job'[d] = job[d]
        /\ UNCHANGED <<entry, asked, subscriptions, ticket, heard>>
        /\ notifications' = notifications + 1 /\ results' = Append(results, c)
    BY <1>11, ServerAssumption
       DEF AnswerAtOnce, Goto, Open, Started, notify, ioVars, TypeOK
  <2> QED
    BY <1>10, <2>1, NotifyArrival DEF Started
<1>12. CASE Answer(c)
  <2>1. /\ Started(c) /\ notify(Processor) /\ Processor \in Thread
        /\ UNCHANGED <<entry, job, subscriptions, ticket, heard>>
        /\ notifications' = notifications + 1 /\ results' = Append(results, c)
        /\ \A d \in Connection : asked'[d] > 0 => asked[d] > 0
    BY <1>12, ServerAssumption DEF Answer, notify, ioVars, TypeOK, Arrival, Origin
  <2> QED
    BY <1>10, <2>1, NotifyArrival DEF Started
<1>13. CASE ProcessorReturns(c)
  <2>1. /\ NotifyReturns(c) /\ c \in Thread /\ UNCHANGED <<entry, asked, results>>
        /\ Started(c) /\ Started(c)'
        /\ \A d \in Connection : d # c => job'[d] = job[d]
    BY <1>13, ServerAssumption DEF ProcessorReturns, Started, ioVars, TypeOK
  <2>2. entry[c] # "absent"
    BY <2>1 DEF Arrival, TicketOfJob, Started
  <2> QED
    BY <2>1, <2>2, ReturnArrival DEF Started, ObsInv
<1> QED
  BY <1>2, <1>3, <1>4, <1>6, <1>7, <1>8, <1>9, <1>11, <1>12, <1>13 DEF IoStep, JobStep

\* The invariant of the results holds in every state of the server.
LEMMA ServerArrival == Spec => []Arrival
<1>1. Init => Arrival
  BY ObservableAssumption
     DEF Init, ObsInit, Arrival, TicketOfJob, Origin, OwnResultArrives, Started, Connection,
         NoTicket
<1>2. TypeOK /\ Arrival /\ ObsInv /\ ObsInv' /\ [Next]_vars => Arrival'
  <2> SUFFICES ASSUME TypeOK, Arrival, ObsInv, ObsInv', [Next]_vars PROVE Arrival'
    OBVIOUS
  <2>1. ASSUME NEW t \in Thread, Callback(t) PROVE Arrival'
    BY <2>1, CallbackArrival DEF ObsInv
  <2>2. CASE Answered
    <3>1. NotifyReturns(Processor) /\ UNCHANGED <<entry, job, asked, results>>
      BY <2>2 DEF Answered, ioVars, jobVars
    <3> QED
      BY <3>1, ReturnArrival, ServerAssumption DEF Started, ObsInv
  <2>3. CASE UNCHANGED vars
    BY <2>3, Aside DEF vars, ioVars, jobVars, Started
  <2> QED
    BY <2>1, <2>2, <2>3, ConnectionArrival DEF Next
<1> QED
  BY <1>1, <1>2, ServerTypes, ServerUsesObservable, ObsInvariant, PTL DEF Spec

\* The job a callback belongs to is still in m_Jobs: nobody is called after
\* unsubscribing, and the entry is erased after that.
THEOREM ServerCallbackOnLiveJob == Spec => []CallbackOnLiveJob
<1>1. ObsInv /\ Arrival => CallbackOnLiveJob
  <2> SUFFICES ASSUME ObsInv, Arrival, NEW t \in Thread, NEW c \in Connection,
                      at[t] \in Id, callbacks[at[t]] = c
               PROVE  entry[c] \in {"open", "destroying"}
    BY DEF CallbackOnLiveJob
  <2>1. ticket[c] # NoTicket
    BY Positions DEF ObsInv, Filed, Connection
  <2> QED
    BY <2>1 DEF Arrival, TicketOfJob
<1> QED
  BY <1>1, ServerArrival, ServerUsesObservable, ObsInvariant, PTL

\* A job gets the results of its own payloads: it subscribes before it asks, keeps
\* its identifier while its connection is open, and a notification that is over has
\* reached every identifier held.
THEOREM ServerOwnResultArrives == Spec => []OwnResultArrives
<1>1. Arrival => OwnResultArrives
  BY DEF Arrival
<1> QED
  BY <1>1, ServerArrival, PTL

(***************************************************************************)
(* Why nobody waits for what never comes.                                  *)
(***************************************************************************)

\* A job's thread is in notify while the processor answers it inside its callback.
Walks ==
    /\ \A c \in Connection : at[c] # Outside <=> job[c] = "publishing"
    /\ ~stuck

\* What the io thread does is for a connection in the state this calls for.
Errand ==
    /\ io.step = "erase" => entry[io.on] = "destroying"
    /\ io.step \in {"Data", "End"} => entry[io.on] = "open"
    /\ io.step = "Data" => job[io.on] # "none"
    /\ \A c \in Connection : entry[c] = "destroying" => io.step = "erase" /\ io.on = c

\* A job that is not there, or returned, has nothing left to do, and the Input thread
\* knows of it.
Life ==
    \A c \in Connection :
        /\ job[c] = "none" => todo[c] = 0 /\ input[c] \in {"reading", "stopping"}
        /\ job[c] = "done" => todo[c] = 0 /\ input[c] \in {"joining", "done"}
        /\ input[c] = "done" => job[c] = "done"
        /\ entry[c] = "erased" => job[c] \in {"none", "done"}

\* A job that waits for a result has been released, or its own result is still with
\* the processor, or the notification in progress is that result and has not reached
\* it.
Owed ==
    \A c \in Connection : subscriptions <= IdLimit /\ entry[c] = "open" =>
        /\ job[c] = "publishing" /\ Reached(c) => released[c]
        /\ job[c] = "await" /\ ~released[c] =>
              asked[c] > 0 \/ (Locked /\ results[notifications] = c /\ ~Reached(c))

Steady == Walks /\ Errand /\ Life

\* At first nobody is inside notify, on an errand or at work.
LEMMA InitSteady == ASSUME Init PROVE Steady
<1>1. Walks
  BY ServerAssumption DEF Init, ObsInit, Walks, Connection
<1>2. Errand /\ Life
  BY DEF Init, Idle, Errand, Life
<1> QED
  BY <1>1, <1>2 DEF Steady

\* A thread enters and leaves notify at the control points that call it.
LEMMA WalksKept == ASSUME TypeOK, Walks, [Next]_vars PROVE Walks'
<1>1. ASSUME UNCHANGED <<at, stuck>>,
             \A d \in Connection : job'[d] = "publishing" <=> job[d] = "publishing"
      PROVE  Walks'
  BY <1>1 DEF Walks
<1>2. ASSUME NEW t \in Thread, NEW j \in 0..End, at' = [at EXCEPT ![t] = j], UNCHANGED stuck,
             \A d \in Connection : job'[d] = "publishing" <=> d = t \/ job[d] = "publishing"
      PROVE  Walks'
  BY <1>2, Positions, ServerAssumption DEF Walks, TypeOK, ObsTypeOK
<1>3. ASSUME NEW c \in Connection, AnswerAtOnce(c) PROVE Walks'
  <2>1. c \in Thread /\ ObsTypeOK
    BY ServerAssumption DEF TypeOK
  <2>2. PICK j \in 0..End : at' = [at EXCEPT ![c] = j]
    BY <1>3, <2>1, Moved DEF AnswerAtOnce, notify
  <2>3. job' = [job EXCEPT ![c] = "publishing"] /\ UNCHANGED stuck
    BY <1>3 DEF AnswerAtOnce, Goto, notify
  <2> QED
    BY <1>2, <2>1, <2>2, <2>3 DEF TypeOK
<1>4. ASSUME NEW c \in Connection, Answer(c) PROVE Walks'
  <2>1. PICK j \in 0..End : at' = [at EXCEPT ![Processor] = j]
    BY <1>4, Moved, ServerAssumption DEF Answer, notify, TypeOK
  <2>2. UNCHANGED <<job, stuck>> /\ \A d \in Connection : at'[d] = at[d]
    BY <1>4, <2>1, ServerAssumption DEF Answer, notify, TypeOK, ObsTypeOK
  <2> QED
    BY <2>2 DEF Walks
<1>5. ASSUME NEW c \in Connection, ProcessorReturns(c) PROVE Walks'
  <2>1. /\ at' = [at EXCEPT ![c] = Outside] /\ job' = [job EXCEPT ![c] = "await"]
        /\ UNCHANGED stuck
    BY <1>5 DEF ProcessorReturns, NotifyReturns
  <2> QED
    BY <2>1, ServerAssumption DEF Walks, TypeOK, ObsTypeOK
<1>6. CASE Answered
  <2>1. at' = [at EXCEPT ![Processor] = Outside] /\ UNCHANGED <<job, stuck>>
    BY <1>6 DEF Answered, NotifyReturns, jobVars
  <2>2. \A d \in Connection : at'[d] = at[d]
    BY <2>1, ServerAssumption DEF TypeOK, ObsTypeOK
  <2> QED
    BY <2>1, <2>2 DEF Walks
<1>7. ASSUME NEW t \in Thread, Callback(t) PROVE Walks'
  <2>1. at[t] \in Id /\ at[t] # Outside /\ at[t] + 1 \in Nat
    BY <1>7, Positions DEF Callback, CallbackReturns, Calling
  <2>2. PICK j \in 0..End : at' = [at EXCEPT ![t] = j]
    BY <1>7, <2>1, Moved DEF Callback, CallbackReturns, TypeOK
  <2>3. UNCHANGED <<job, stuck>>
    BY <1>7 DEF Callback, CallbackReturns
  <2> QED
    BY <1>2, <2>1, <2>2, <2>3 DEF Walks
<1>8. ASSUME NEW c \in Connection, Erase(c) \/ Subscribe(c) PROVE Walks'
  BY <1>1, <1>8 DEF Erase, Subscribe, subscribe, unsubscribe, obsVars, jobVars, Goto, TypeOK
<1>9. ASSUME NEW c \in Connection,
             \/ OnOpen(c) \/ OnStart(c) \/ OnRefused(c) \/ OnCloseSent(c) \/ OnClose(c)
             \/ ReadEnd(c) \/ Join(c) \/ SendEnd(c) \/ UseAfterDestroy(c)
             \/ Take(c) \/ Ask(c) \/ Keep(c) \/ AwaitResult(c) \/ Finish(c)
      PROVE  Walks'
  BY <1>1, <1>9
     DEF OnOpen, OnStart, OnRefused, OnCloseSent, OnClose, ReadEnd, Join, SendEnd, TypeOK,
         UseAfterDestroy, Take, Ask, Keep, AwaitResult, Finish, Goto, obsVars, jobVars
<1>10. ASSUME NEW c \in Connection, QueueMessage(c) \/ \E type \in {"Data", "End"} : OnQueued(c, type)
       PROVE  Walks'
  BY <1>1, <1>10 DEF QueueMessage, OnQueued, Queue, obsVars, jobVars
<1>11. CASE UNCHANGED vars
  BY <1>1, <1>11 DEF vars, obsVars, jobVars
<1> QED
  BY <1>3, <1>4, <1>5, <1>6, <1>7, <1>8, <1>9, <1>10, <1>11 DEF Next, IoStep, JobStep

\* The io thread takes up an errand for an open connection, and another one only when
\* it has finished.
LEMMA ErrandKept == ASSUME TypeOK, Errand, [Next]_vars PROVE Errand'
<1>1. ASSUME UNCHANGED <<io, entry>>, \A d \in Connection : job'[d] = "none" => job[d] = "none"
      PROVE  Errand'
  BY <1>1 DEF Errand, TypeOK, Idle
<1>2. ASSUME NEW c \in Connection, OnOpen(c) PROVE Errand'
  BY <1>2 DEF OnOpen, Errand, TypeOK, Idle
<1>3. ASSUME NEW c \in Connection, Erasing(c), UNCHANGED jobVars PROVE Errand'
  BY <1>3 DEF Erasing, Served, Open, Errand, TypeOK, Idle
<1>4. ASSUME NEW c \in Connection, OnCloseSent(c) \/ OnClose(c) PROVE Errand'
  BY <1>1, <1>3, <1>4 DEF OnCloseSent, OnClose, jobVars
<1>5. ASSUME NEW c \in Connection, QueueMessage(c) \/ \E type \in {"Data", "End"} : OnQueued(c, type)
      PROVE  Errand'
  BY <1>5 DEF QueueMessage, OnQueued, Queue, Served, Open, Errand, TypeOK, Idle, jobVars
<1>6. ASSUME NEW c \in Connection, Erase(c) PROVE Errand'
  <2>1. CASE UNCHANGED <<entry, io>>
    BY <1>1, <1>6, <2>1 DEF Erase, jobVars
  <2>2. CASE entry' = [entry EXCEPT ![c] = "erased"] /\ io' = Idle
    BY <1>6, <2>2 DEF Erase, Errand, TypeOK, Idle
  <2> QED
    BY <1>6, <2>1, <2>2 DEF Erase
<1>7. ASSUME NEW c \in Connection,
             \/ OnStart(c) \/ OnRefused(c) \/ ReadEnd(c) \/ Join(c) \/ SendEnd(c) \/ Answer(c)
             \/ UseAfterDestroy(c)
      PROVE  Errand'
  BY <1>1, <1>7 DEF OnStart, OnRefused, ReadEnd, Join, SendEnd, Answer, UseAfterDestroy,
                    ioVars, jobVars, TypeOK
<1>8. ASSUME NEW c \in Connection, JobStep(c) PROVE Errand'
  BY <1>1, <1>8 DEF JobStep, Subscribe, Take, Ask, Keep, AnswerAtOnce, ProcessorReturns,
                    AwaitResult, Finish, Goto, ioVars, TypeOK
<1>9. CASE Answered \/ UNCHANGED vars \/ \E t \in Thread : Callback(t)
  BY <1>1, <1>9 DEF Answered, Callback, vars, ioVars, jobVars
<1> QED
  BY <1>2, <1>4, <1>5, <1>6, <1>7, <1>8, <1>9 DEF Next, IoStep

\* Nothing is queued for a job that is not there or has returned; the Input thread
\* leaves the join when its job has returned, a job when it is told to stop.
LEMMA LifeKept == ASSUME TypeOK, Arrival, Errand, Life, [Next]_vars PROVE Life'
<1>1. ASSUME UNCHANGED <<job, todo, input>>, \A d \in Connection : entry'[d] = "erased" => entry[d] = "erased"
      PROVE  Life'
  BY <1>1 DEF Life
<1>2. ASSUME NEW c \in Connection,
             \/ OnRefused(c) \/ OnOpen(c) \/ SendEnd(c) \/ UseAfterDestroy(c) \/ Answer(c)
             \/ OnClose(c) \/ OnCloseSent(c)
      PROVE  Life'
  BY <1>1, <1>2 DEF OnRefused, OnOpen, SendEnd, UseAfterDestroy, Answer, OnClose, OnCloseSent,
                    Erasing, Served, ioVars, inputVars, jobVars, TypeOK
<1>3. CASE Answered \/ UNCHANGED vars \/ \E t \in Thread : Callback(t)
  BY <1>1, <1>3 DEF Answered, Callback, vars, ioVars, inputVars, jobVars
<1>4. ASSUME NEW c \in Connection, OnStart(c) PROVE Life'
  BY <1>4 DEF OnStart, Served, Open, ioVars, inputVars, Life, TypeOK
<1>5. ASSUME NEW c \in Connection, NEW type \in {"Data", "End"}, Queue(c, type),
             type = "Data" => job[c] # "none", input[c] # "joining"
      PROVE  Life'
  <2>1. /\ UNCHANGED <<job, entry>>
        /\ todo' = [todo EXCEPT ![c] = todo'[c]] /\ input' = [input EXCEPT ![c] = input'[c]]
        /\ todo'[c] # todo[c] => type = "Data" /\ input[c] = "reading"
        /\ input'[c] # input[c] => input[c] = "reading" /\ input'[c] = "stopping"
    BY <1>5 DEF Queue, TypeOK
  <2> QED
    BY <1>5, <2>1 DEF Life, TypeOK
<1>6. ASSUME NEW c \in Connection, QueueMessage(c) \/ \E type \in {"Data", "End"} : OnQueued(c, type)
      PROVE  Life'
  <2>1. CASE UNCHANGED <<entry, inputVars, jobVars>>
    BY <1>1, <2>1 DEF inputVars, jobVars
  <2> QED
    BY <1>5, <1>6, <2>1 DEF QueueMessage, OnQueued, Errand
<1>7. ASSUME NEW c \in Connection, Erase(c) PROVE Life'
  BY <1>7 DEF Erase, inputVars, jobVars, Life, TypeOK
<1>8. ASSUME NEW c \in Connection, ReadEnd(c) \/ Join(c) PROVE Life'
  BY <1>8 DEF ReadEnd, Join, Open, ioVars, jobVars, Life, TypeOK
<1>9. ASSUME NEW c \in Connection, Take(c) PROVE Life'
  BY <1>9 DEF Take, Goto, Open, ioVars, inputVars, Life, TypeOK
<1>10. ASSUME NEW c \in Connection,
              Subscribe(c) \/ Ask(c) \/ Keep(c) \/ AnswerAtOnce(c) \/ AwaitResult(c) \/ Finish(c)
       PROVE  Life'
  BY <1>10 DEF Subscribe, Ask, Keep, AnswerAtOnce, AwaitResult, Finish, Goto, Open, ioVars,
               inputVars, Life, TypeOK
<1>11. ASSUME NEW c \in Connection, ProcessorReturns(c) PROVE Life'
  BY <1>11 DEF ProcessorReturns, ioVars, inputVars, Life, TypeOK
<1> QED
  BY <1>2, <1>3, <1>4, <1>6, <1>7, <1>8, <1>9, <1>10, <1>11 DEF Next, IoStep, JobStep

\* A connection whose job, payloads with the processor, and results are left alone.
LEMMA OwedAside ==
  ASSUME TypeOK, Owed,
         UNCHANGED <<at, heard, notifications, results, released, asked>>,
         subscriptions' \in {subscriptions, subscriptions + 1},
         \A c \in Connection : entry'[c] = "open" /\ job'[c] \in {"publishing", "await"} =>
             entry[c] = "open" /\ job'[c] = job[c]
  PROVE  Owed'
<1>1. /\ Locked' <=> Locked
      /\ \A c \in Connection : Reached(c)' <=> Reached(c)
  BY DEF Locked, Reached
<1>2. subscriptions' <= IdLimit => subscriptions <= IdLimit
  BY ObservableAssumption DEF TypeOK, ObsTypeOK
<1> QED
  BY <1>1, <1>2 DEF Owed

\* A notification that begins has reached nobody; if it answers a job that waits, it is
\* the one this job waits for.
LEMMA OwedNotified ==
  ASSUME TypeOK, Arrival, ObsInv, Walks, Owed, NEW t \in Thread, NEW c \in Connection,
         notify(t), results' = Append(results, c), UNCHANGED <<entry, released>>,
         \A d \in Connection : d # c => job'[d] = job[d] /\ asked'[d] = asked[d],
         \/ t = c /\ job'[c] = "publishing"
         \/ t = Processor /\ job'[c] = job[c]
  PROVE  Owed'
<1>1. ~Locked /\ UNCHANGED <<heard, subscriptions>> /\ notifications' = notifications + 1
  BY DEF notify
<1>2. Locked' /\ \A u \in Thread : at[u] = Outside
  <2>1. PICK j \in 0..End : at' = [at EXCEPT ![t] = j]
    BY Moved DEF notify, ObsInv
  <2> QED
    BY <1>1, <2>1, Positions, Unlocked DEF Locked, TypeOK, ObsTypeOK
<1>3. \A d \in Connection : ~Reached(d)'
  BY <1>1 DEF Reached, ObsInv, NoForesight, ObsTypeOK, Connection
<1>4. results'[notifications'] = c
  BY <1>1 DEF Arrival, Origin, TypeOK
<1>5. \A d \in Connection : job[d] # "publishing"
  BY <1>2, ServerAssumption DEF Walks
<1> QED
  BY <1>1, <1>2, <1>3, <1>4, <1>5 DEF Owed

\* A callback releases its job and changes nothing for the others.
LEMMA OwedCalled ==
  ASSUME TypeOK, ObsInv, ObsTypeOK', Owed, NEW t \in Thread, Callback(t) PROVE Owed'
<1>1. PICK o \in Connection : o = callbacks[at[t]]
  BY DEF Callback, CallbackReturns, Calling, ObsInv, AtEntry, TypeOK, ObsTypeOK, Connection
<1>2. /\ CallbackReturns(t) /\ UNCHANGED <<entry, job, asked, results, notifications, subscriptions>>
      /\ released' = [released EXCEPT ![o] = TRUE]
      /\ heard' = [heard EXCEPT ![o] = Append(heard[o], notifications)]
  BY <1>1 DEF Callback, CallbackReturns, ioVars
<1>3. Locked /\ Locked'
  BY <1>1, <1>2, Returns DEF Connection
<1>4. \A d \in Connection : d # o => released'[d] = released[d] /\ (Reached(d)' <=> Reached(d))
  BY <1>2, <1>3 DEF Reached, TypeOK, ObsTypeOK, Connection
<1>5. released'[o]
  BY <1>2 DEF TypeOK
<1> QED
  BY <1>2, <1>3, <1>4, <1>5 DEF Owed

\* A notification that ends has reached every job of an open connection.
LEMMA OwedReturned ==
  ASSUME TypeOK, Arrival, ObsInv, Owed, NEW t \in Thread, NotifyReturns(t),
         UNCHANGED <<entry, released, asked, results>>,
         \A d \in Connection : \/ job'[d] = job[d]
                               \/ job[d] = "publishing" /\ job'[d] = "await"
  PROVE  Owed'
<1>1. /\ UNCHANGED <<callbacks, ticket, subscriptions, notifications, heard>>
      /\ at[t] = End /\ at[t] # Outside /\ Locked
  BY Positions, ObservableAssumption DEF NotifyReturns, Locked, End, Outside
<1>2. ASSUME NEW c \in Connection, subscriptions <= IdLimit, entry[c] = "open", Started(c)
      PROVE  Reached(c)
  <2>1. ticket[c] # NoTicket /\ ticket[c] \in 0..NoTicket
    BY <1>2 DEF Arrival, TicketOfJob, TypeOK, ObsTypeOK, Connection
  <2>2. ticket[c] \in Id
    BY <2>1, ObservableAssumption DEF NoTicket, Id
  <2>3. callbacks[ticket[c]] = c
    BY <1>2, <2>1 DEF ObsInv, OwnEntry, Connection
  <2> QED
    BY <1>1, <2>2, <2>3, Positions DEF ObsInv, Walked, Connection
<1>3. ~Locked'
  <2>1. at' = [at EXCEPT ![t] = Outside] /\ \A u \in Thread : u # t => at[u] = Outside
    BY <1>1 DEF NotifyReturns, ObsInv, OneHolder
  <2> QED
    BY <2>1 DEF Locked, TypeOK, ObsTypeOK
<1> QED
  BY <1>1, <1>2, <1>3 DEF Owed, Started, Reached

\* Each step of the server keeps what a waiting job is owed.
LEMMA OwedKept ==
  ASSUME TypeOK, Arrival, ObsInv, ObsTypeOK', Steady, Owed, [Next]_vars PROVE Owed'
<1>1. ASSUME NEW c \in Connection,
             \/ OnOpen(c) \/ OnStart(c) \/ OnRefused(c) \/ OnCloseSent(c) \/ OnClose(c)
             \/ ReadEnd(c) \/ Join(c) \/ SendEnd(c) \/ UseAfterDestroy(c)
             \/ Take(c) \/ Ask(c) \/ Finish(c)
      PROVE  Owed'
  <2>1. UNCHANGED <<obsVars, results, released, asked>>
    BY <1>1 DEF OnOpen, OnStart, OnRefused, OnCloseSent, OnClose, ReadEnd, Join, SendEnd,
                UseAfterDestroy, Take, Ask, Finish, Goto, jobVars
  <2>2. CASE UNCHANGED <<entry, job>> \/ OnCloseSent(c) \/ OnClose(c)
    <3>1. UNCHANGED job /\ \A d \in Connection : entry'[d] = "open" => entry[d] = "open"
      BY <1>1, <2>2 DEF OnCloseSent, OnClose, Erasing, Served, Open, jobVars, TypeOK
    <3> QED
      BY <2>1, <3>1, OwedAside DEF obsVars
  <2>3. CASE OnOpen(c)
    <3>1. UNCHANGED job /\ entry' = [entry EXCEPT ![c] = "open"] /\ job[c] = "none"
      BY <2>3 DEF OnOpen, jobVars, Arrival, TicketOfJob
    <3> QED
      BY <2>1, <3>1, OwedAside DEF obsVars, TypeOK
  <2>4. CASE OnStart(c) \/ Take(c) \/ Ask(c) \/ Finish(c)
    <3>1. UNCHANGED entry /\ job' = [job EXCEPT ![c] = job'[c]]
          /\ job'[c] \in {"subscribe", "ask", "delivering", "done"}
      BY <2>4 DEF OnStart, Take, Ask, Finish, Goto, ioVars, TypeOK
    <3> QED
      BY <2>1, <3>1, OwedAside DEF obsVars, TypeOK
  <2> QED
    BY <1>1, <2>2, <2>3, <2>4
       DEF OnRefused, ReadEnd, Join, SendEnd, UseAfterDestroy, ioVars, jobVars
<1>2. ASSUME NEW c \in Connection, QueueMessage(c) \/ \E type \in {"Data", "End"} : OnQueued(c, type)
      PROVE  Owed'
  <2>1. UNCHANGED <<obsVars, entry, job, released, asked, results>>
    BY <1>2 DEF QueueMessage, OnQueued, Queue, jobVars
  <2> QED
    BY <2>1, OwedAside DEF obsVars
<1>3. ASSUME NEW c \in Connection, Erase(c) PROVE Owed'
  <2>1. /\ UNCHANGED <<at, heard, subscriptions, notifications, jobVars>>
        /\ entry' = entry \/ entry' = [entry EXCEPT ![c] = "erased"]
    BY <1>3 DEF Erase, unsubscribe, obsVars
  <2> QED
    BY <2>1, OwedAside DEF jobVars, TypeOK
<1>4. ASSUME NEW c \in Connection, Subscribe(c) PROVE Owed'
  <2>1. /\ ~Locked /\ UNCHANGED <<at, entry, released, asked, results, notifications>>
        /\ subscriptions' = subscriptions + 1 /\ job' = [job EXCEPT ![c] = "loop"]
    BY <1>4 DEF Subscribe, subscribe, Goto, ioVars
  <2>2. \A d \in Connection : ~Reached(d) /\ ~Reached(d)'
    BY <2>1 DEF Locked, Reached
  <2>3. subscriptions' <= IdLimit => subscriptions <= IdLimit
    BY <2>1, ObservableAssumption DEF TypeOK, ObsTypeOK
  <2> QED
    BY <2>1, <2>2, <2>3 DEF Owed, TypeOK
<1>5. ASSUME NEW c \in Connection, Keep(c) PROVE Owed'
  <2>1. /\ UNCHANGED <<obsVars, entry, released, results>> /\ job' = [job EXCEPT ![c] = "await"]
        /\ asked' = [asked EXCEPT ![c] = asked[c] + 1] /\ asked[c] \in Nat
    BY <1>5 DEF Keep, Goto, ioVars, TypeOK
  <2>2. asked'[c] > 0
    BY <2>1 DEF TypeOK
  <2>3. /\ Locked' <=> Locked
        /\ \A d \in Connection : Reached(d)' <=> Reached(d)
    BY <2>1 DEF Locked, Reached, obsVars
  <2> QED
    BY <2>1, <2>2, <2>3 DEF Owed, obsVars, TypeOK
<1>6. ASSUME NEW c \in Connection, AwaitResult(c) PROVE Owed'
  <2>1. /\ UNCHANGED <<obsVars, entry, asked, results>> /\ job' = [job EXCEPT ![c] = "loop"]
        /\ released' = [released EXCEPT ![c] = FALSE]
    BY <1>6 DEF AwaitResult, Goto, ioVars
  <2>2. /\ Locked' <=> Locked
        /\ \A d \in Connection : Reached(d)' <=> Reached(d)
    BY <2>1 DEF Locked, Reached, obsVars
  <2> QED
    BY <2>1, <2>2 DEF Owed, obsVars, TypeOK
<1>7. ASSUME NEW c \in Connection, AnswerAtOnce(c) PROVE Owed'
  <2>1. /\ notify(c) /\ results' = Append(results, c) /\ UNCHANGED <<entry, released, asked>>
        /\ job' = [job EXCEPT ![c] = "publishing"] /\ c \in Thread
    BY <1>7, ServerAssumption DEF AnswerAtOnce, Goto, ioVars
  <2> QED
    BY <2>1, OwedNotified DEF TypeOK, Steady
<1>8. ASSUME NEW c \in Connection, Answer(c) PROVE Owed'
  <2>1. /\ notify(Processor) /\ results' = Append(results, c) /\ UNCHANGED <<entry, released, job>>
        /\ asked' = [asked EXCEPT ![c] = asked[c] - 1] /\ Processor \in Thread
    BY <1>8, ServerAssumption DEF Answer, ioVars
  <2> QED
    BY <2>1, OwedNotified DEF TypeOK, Steady
<1>9. ASSUME NEW c \in Connection, ProcessorReturns(c) PROVE Owed'
  <2>1. /\ NotifyReturns(c) /\ UNCHANGED <<entry, released, asked, results>> /\ c \in Thread
        /\ job[c] = "publishing" /\ job' = [job EXCEPT ![c] = "await"]
    BY <1>9, ServerAssumption DEF ProcessorReturns, ioVars
  <2> QED
    BY <2>1, OwedReturned DEF TypeOK
<1>10. CASE Answered
  BY <1>10, OwedReturned, ServerAssumption DEF Answered, ioVars, jobVars
<1>11. ASSUME NEW t \in Thread, Callback(t) PROVE Owed'
  BY <1>11, OwedCalled
<1>12. CASE UNCHANGED vars
  BY <1>12, OwedAside DEF vars, obsVars, ioVars, jobVars
<1> QED
  BY <1>1, <1>2, <1>3, <1>4, <1>5, <1>6, <1>7, <1>8, <1>9, <1>10, <1>11, <1>12
     DEF Next, IoStep, JobStep

\* What the progress of the server rests on holds in every state.
LEMMA ServerSteady == Spec => [](Steady /\ Owed)
<1>1. Init => Steady /\ Owed
  BY InitSteady DEF Init, Owed
<1>2. TypeOK /\ Arrival /\ ObsInv /\ ObsTypeOK' /\ Steady /\ Owed /\ [Next]_vars => (Steady /\ Owed)'
  BY WalksKept, ErrandKept, LifeKept, OwedKept DEF Steady
<1>3. ObsInv => ObsTypeOK
  BY DEF ObsInv
<1> QED
  BY <1>1, <1>2, <1>3, ServerTypes, ServerArrival, ServerUsesObservable, ObsInvariant, PTL DEF Spec

\* When every thread rests nobody is inside the results' notify, which somebody would
\* have to leave, nor in the processor's callback.
LEMMA MutexesFree ==
  ASSUME TypeOK, Arrival, Steady, Resting
  PROVE  ~Locked /\ ~InputHeld /\ \A c \in Connection : entry[c] # "destroying"
<1>1. ~Locked
  <2> SUFFICES ASSUME NEW t \in Thread, at[t] # Outside PROVE FALSE
    BY DEF Locked
  <2>1. at[t] \in Id \/ at[t] = End
    BY Positions DEF TypeOK, ObsTypeOK
  <2>2. at[t] = End
    BY <2>1 DEF Resting, Calling, Steady, Walks
  <2>3. t \in Connection
    BY <2>2, ServerAssumption DEF Resting
  <2> QED
    BY <2>2, <2>3 DEF Steady, Walks, Resting
<1>2. ASSUME NEW c \in Connection, entry[c] = "destroying" PROVE FALSE
  <2>1. io.step = "erase" /\ io.on = c
    BY <1>2 DEF Steady, Errand
  <2>2. input[c] = "done" /\ ticket[c] = NoTicket
    BY <1>1, <2>1 DEF Resting
  <2>3. Started(c)
    BY <2>2 DEF Steady, Life, Started
  <2> QED
    BY <1>2, <2>2, <2>3 DEF Arrival, TicketOfJob
<1>3. ASSUME NEW c \in Connection, job[c] \in {"delivering", "publishing"} PROVE FALSE
  <2>1. entry[c] = "open"
    BY <1>2, <1>3 DEF Steady, Life, Arrival, TicketOfJob, TypeOK
  <2>2. job[c] = "publishing"
    BY <1>3, <2>1 DEF Resting
  <2> QED
    BY <1>1, <2>2, ServerAssumption DEF Steady, Walks, Locked
<1> QED
  BY <1>1, <1>2, <1>3 DEF InputHeld

\* The waits of the io thread, the Input threads, the jobs' threads and the processor
\* for each other form no circle, and none is for something that was lost.
THEOREM ServerRestingOwesNothing == Spec => []RestingOwesNothing
<1>1. TypeOK /\ Arrival /\ Steady /\ Owed => RestingOwesNothing
  <2> SUFFICES ASSUME TypeOK, Arrival, Steady, Owed, Up, Resting, subscriptions <= IdLimit
               PROVE  /\ io = Idle
                      /\ \A c \in Connection :
                            /\ job[c] \in {"none", "loop", "done"} /\ todo[c] = 0 /\ asked[c] = 0
                            /\ entry[c] = "open" => input[c] \in {"reading", "done"}
    BY DEF RestingOwesNothing
  <2>1. ~Locked /\ ~InputHeld /\ \A c \in Connection : entry[c] # "destroying"
    BY MutexesFree
  <2>2. \A c \in Connection : asked[c] = 0
    BY <2>1 DEF Resting, TypeOK
  <2>3. ASSUME NEW c \in Connection, entry[c] = "open"
        PROVE  job[c] \in {"none", "loop", "done"} /\ todo[c] = 0 /\ input[c] \in {"reading", "done"}
    <3>1. job[c] # "subscribe"
      BY <2>1, <2>3 DEF Resting, Arrival, TicketOfJob, Started
    <3>2. job[c] \notin {"ask", "delivering", "publishing"}
      BY <2>1, <2>3 DEF Resting, InputHeld
    <3>3. job[c] # "await"
      BY <2>1, <2>2, <2>3 DEF Resting, Owed, TypeOK
    <3>4. job[c] \in {"none", "loop", "done"}
      BY <3>1, <3>2, <3>3 DEF TypeOK
    <3>5. todo[c] = 0
      BY <2>3, <3>4 DEF Resting, Steady, Life
    <3>6. input[c] # "joining"
      BY <2>1, <2>3, <3>4 DEF Resting, Steady, Life
    <3> QED
      BY <2>3, <3>4, <3>5, <3>6 DEF Resting, TypeOK
  <2>4. ASSUME NEW c \in Connection, entry[c] # "open"
        PROVE  job[c] \in {"none", "done"} /\ todo[c] = 0
    BY <2>1, <2>4 DEF Steady, Life, Arrival, TicketOfJob, TypeOK
  <2>5. io = Idle
    <3>1. io.step \notin {"Data", "End"}
      BY <2>3 DEF Resting, Steady, Errand, TypeOK, Idle
    <3>2. io.step # "erase"
      BY <2>1 DEF Steady, Errand, TypeOK, Idle
    <3> QED
      BY <3>1, <3>2 DEF TypeOK
  <2> QED
    BY <2>2, <2>3, <2>4, <2>5
<1> QED
  BY <1>1, ServerTypes, ServerArrival, ServerSteady, PTL
=============================================================================
