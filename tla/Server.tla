------------------------------- MODULE Server -------------------------------
(***************************************************************************)
(* The server with several connections: JobConnectionManager and the       *)
(* handlers VmsAgent::start installs, in composition with the two          *)
(* observables all connections share.  What one connection does inside is  *)
(* module JobConnection; here it is reduced to what others can notice:     *)
(*                                                                         *)
(*   - one io thread runs every handler, with m_ConnectionsMutex held;     *)
(*   - each job's thread hands its payloads to the processor through the   *)
(*     input observable, whose mutex only one of them holds at a time;     *)
(*   - every job is an observer of the results (module Observable, whose   *)
(*     threads are the jobs' and the processor's), and each result         *)
(*     releases every job that waits.                                      *)
(*                                                                         *)
(* A fault ends the process; nothing happens afterwards.                   *)
(***************************************************************************)
EXTENDS Observable, FiniteSets

CONSTANTS
    Processor,  \* external: the thread on which the processor answers later
    MaxData,    \* bound: Data messages of all connections
    MaxClosing  \* bound: connections with a close frame on its way

Connection == Observer

ASSUME ServerAssumption ==
    /\ Thread = Connection \union {Processor} /\ Processor \notin Connection
    /\ Throwing = {} /\ Reentrant = {}  \* Job's callback catches, and calls no observable
    /\ MaxData \in Nat /\ MaxClosing \in Nat

VARIABLES
    entry,     \* the connection's entry in m_Jobs
    closing,   \* connections whose close frame, sent by on_message, is on its way
    io,        \* what the io thread is doing, on which connection
    input,     \* each connection's Input thread: "reading", "stopping" with an End in
               \* m_InputMessages, "joining" with the queue's mutex held, or "done"
    ended,     \* connections whose Output thread sent End and returned
    job,       \* control point of its job's thread
    todo,      \* its Data messages in m_InputMessages and payloads in m_InputData
    released,  \* its job's m_isVARecived
    asked,     \* external: its payloads that the processor has not answered yet
    results,   \* history: whose payload each notification answers
    received,  \* history: Data messages accepted
    fault      \* how the process died, or "none"

ioVars == <<entry, closing, io>>
inputVars == <<input, ended, received>>
jobVars == <<job, todo, released, asked, results>>
vars == <<obsVars, ioVars, inputVars, jobVars, fault>>

Idle == [step |-> "idle", on |-> Nobody]

Init ==
    /\ ObsInit
    /\ entry = [c \in Connection |-> "absent"] /\ closing = {} /\ io = Idle
    /\ input = [c \in Connection |-> "reading"] /\ ended = {}
    /\ job = [c \in Connection |-> "none"]
    /\ todo = [c \in Connection |-> 0]
    /\ released = [c \in Connection |-> FALSE]
    /\ asked = [c \in Connection |-> 0]
    /\ results = <<>> /\ received = 0
    /\ fault = "none"

Up == fault = "none"
Open(c) == Up /\ entry[c] = "open"
Served(c) == Open(c) /\ io = Idle

(***************************************************************************)
(* The io thread.  A message or a close for a connection that m_Jobs does  *)
(* not know is logged and changes nothing.                                 *)
(***************************************************************************)

\* on_open: OnOpen inserts the entry, Init starts the Input thread.
OnOpen(c) ==
    /\ Up /\ io = Idle /\ entry[c] = "absent"
    /\ entry' = [entry EXCEPT ![c] = "open"]
    /\ UNCHANGED <<obsVars, closing, io, inputVars, jobVars, fault>>

\* on_message, Start: the job's thread is created.
OnStart(c) ==
    /\ Served(c) /\ job[c] = "none"
    /\ job' = [job EXCEPT ![c] = "subscribe"]
    /\ UNCHANGED <<obsVars, ioVars, inputVars, todo, released, asked, results, fault>>

\* HandleMessage queues the message.  The Input thread reads nothing after an End.
Queue(c, type) ==
    /\ todo' = [todo EXCEPT ![c] = IF type = "Data" /\ input[c] = "reading" THEN @ + 1 ELSE @]
    /\ received' = IF type = "Data" THEN received + 1 ELSE received
    /\ input' = [input EXCEPT ![c] = IF type = "End" /\ @ = "reading" THEN "stopping" ELSE @]
    /\ UNCHANGED <<obsVars, entry, closing, ended, job, released, asked, results, fault>>

\* on_message, Data or End: the Input thread has the mutex while it joins the job.
OnQueued(c, type) ==
    /\ Served(c)
    /\ type = "Data" => job[c] # "none" /\ received < MaxData
    /\ IF input[c] = "joining"
       THEN /\ io' = [step |-> type, on |-> c]
            /\ UNCHANGED <<obsVars, entry, closing, inputVars, jobVars, fault>>
       ELSE Queue(c, type) /\ UNCHANGED io

\* The mutex that the io thread waited for is free.
QueueMessage(c) ==
    /\ Up /\ io.on = c /\ io.step \in {"Data", "End"} /\ input[c] # "joining"
    /\ Queue(c, io.step)
    /\ io' = Idle

\* on_message catches an exception of OnMessage and sends a close frame.
OnRefused(c) ==
    /\ Served(c) /\ Cardinality(closing) < MaxClosing
    /\ closing' = closing \union {c}
    /\ UNCHANGED <<obsVars, entry, io, inputVars, jobVars, fault>>

\* OnClose erases an entry: ~JobConnection, up to ~Job.
Erasing(c) ==
    /\ Served(c)
    /\ entry' = [entry EXCEPT ![c] = "destroying"]
    /\ io' = [step |-> "erase", on |-> c]

\* The close frame was sent.  Its completion handler has a reference to a parameter
\* of on_message, which has returned: it may find there its own connection, that of
\* a later call, something m_Jobs does not know, or no pointer at all.
OnCloseSent(c) ==
    /\ Up /\ io = Idle /\ c \in closing
    /\ closing' = closing \ {c}
    /\ \/ \E other \in Connection : Erasing(other) /\ UNCHANGED fault
       \/ UNCHANGED <<entry, io, fault>>
       \/ fault' = "dangling" /\ UNCHANGED <<entry, io>>
    /\ UNCHANGED <<obsVars, inputVars, jobVars>>

\* on_close and on_error.
OnClose(c) ==
    /\ Erasing(c)
    /\ UNCHANGED <<obsVars, closing, inputVars, jobVars, fault>>

\* Mutant of Erase: ~Job does not unsubscribe.
EraseSubscribed(c) ==
    /\ Up /\ io.step = "erase" /\ io.on = c
    /\ IF job[c] = "none" \/ input[c] = "done"
       THEN /\ entry' = [entry EXCEPT ![c] = "erased"] /\ io' = Idle
            /\ UNCHANGED fault
       ELSE fault' = "terminate" /\ UNCHANGED <<entry, io>>
    /\ UNCHANGED <<obsVars, closing, inputVars, jobVars>>

\* ~Job unsubscribes, waiting for the results' mutex; then the thread is destroyed,
\* which ends the process unless the Input thread has joined it.
Erase(c) ==
    /\ Up /\ io.step = "erase" /\ io.on = c
    /\ \/ /\ job[c] = "none"
          /\ entry' = [entry EXCEPT ![c] = "erased"] /\ io' = Idle
          /\ UNCHANGED <<obsVars, fault>>
       \/ /\ input[c] = "done" /\ unsubscribe(c)
          /\ entry' = [entry EXCEPT ![c] = "erased"] /\ io' = Idle
          /\ UNCHANGED fault
       \/ /\ job[c] # "none" /\ input[c] # "done" /\ ~Locked
          /\ fault' = "terminate"
          /\ UNCHANGED <<obsVars, entry, io>>
    /\ UNCHANGED <<closing, inputVars, jobVars>>

(***************************************************************************)
(* The Input and Output threads.                                           *)
(***************************************************************************)

\* End is read: the job is told to stop, if there is one.
ReadEnd(c) ==
    /\ Open(c) /\ input[c] = "stopping"
    /\ IF job[c] = "none"
       THEN fault' = "null_job" /\ UNCHANGED input
       ELSE input' = [input EXCEPT ![c] = "joining"] /\ UNCHANGED fault
    /\ UNCHANGED <<obsVars, ioVars, ended, received, jobVars>>

\* The job's thread has returned.
Join(c) ==
    /\ Open(c) /\ input[c] = "joining" /\ job[c] = "done"
    /\ input' = [input EXCEPT ![c] = "done"]
    /\ UNCHANGED <<obsVars, ioVars, ended, received, jobVars, fault>>

\* The Output thread has sent the results and End.
SendEnd(c) ==
    /\ Open(c) /\ input[c] = "done" /\ c \notin ended
    /\ ended' = ended \union {c}
    /\ UNCHANGED <<obsVars, ioVars, input, received, jobVars, fault>>

(***************************************************************************)
(* The jobs' threads.  InputHeld: one of them is inside notify of the      *)
(* input observable, hence in the processor's callback.                    *)
(***************************************************************************)
Goto(c, from, to) == Open(c) /\ job[c] = from /\ job' = [job EXCEPT ![c] = to]
InputHeld == \E c \in Connection : job[c] \in {"delivering", "publishing"}

\* Mutant of Subscribe: the job starts without its callback.
SubscribeNever(c) ==
    /\ Goto(c, "subscribe", "loop")
    /\ UNCHANGED <<obsVars, ioVars, inputVars, todo, released, asked, results, fault>>

Subscribe(c) ==
    /\ Goto(c, "subscribe", "loop")
    /\ subscribe(c)
    /\ UNCHANGED <<ioVars, inputVars, todo, released, asked, results, fault>>

\* Mutant of Take: the queue is not tested.
TakeUnchecked(c) ==
    /\ Goto(c, "loop", "ask")
    /\ todo' = [todo EXCEPT ![c] = @ - 1]
    /\ UNCHANGED <<obsVars, ioVars, inputVars, released, asked, results, fault>>

\* readData
Take(c) ==
    /\ todo[c] > 0
    /\ Goto(c, "loop", "ask")
    /\ todo' = [todo EXCEPT ![c] = @ - 1]
    /\ UNCHANGED <<obsVars, ioVars, inputVars, released, asked, results, fault>>

\* NotifyInputData: the processor's callback begins.
Ask(c) ==
    /\ ~InputHeld
    /\ Goto(c, "ask", "delivering")
    /\ UNCHANGED <<obsVars, ioVars, inputVars, todo, released, asked, results, fault>>

\* External: the processor keeps the payload for later; its callback returns.
Keep(c) ==
    /\ Goto(c, "delivering", "await")
    /\ asked' = [asked EXCEPT ![c] = @ + 1]
    /\ UNCHANGED <<obsVars, ioVars, inputVars, todo, released, results, fault>>

\* External: the processor answers before its callback returns.
AnswerAtOnce(c) ==
    /\ Goto(c, "delivering", "publishing")
    /\ notify(c)
    /\ results' = Append(results, c)
    /\ UNCHANGED <<ioVars, inputVars, todo, released, asked, fault>>

\* Mutant of ProcessorReturns: m_isVARecived is reset before the wait.
ProcessorReturnsAndResets(c) ==
    /\ Up /\ job[c] = "publishing"
    /\ job' = [job EXCEPT ![c] = "await"]
    /\ NotifyReturns(c)
    /\ released' = [released EXCEPT ![c] = FALSE]
    /\ UNCHANGED <<ioVars, inputVars, todo, asked, results, fault>>

\* The thread is still inside notify when its connection is being destroyed.
ProcessorReturns(c) ==
    /\ Up /\ job[c] = "publishing"
    /\ job' = [job EXCEPT ![c] = "await"]
    /\ NotifyReturns(c)
    /\ UNCHANGED <<ioVars, inputVars, todo, released, asked, results, fault>>

\* The wait for the result; a result for another connection will do.
AwaitResult(c) ==
    /\ released[c]
    /\ Goto(c, "await", "loop")
    /\ released' = [released EXCEPT ![c] = FALSE]
    /\ UNCHANGED <<obsVars, ioVars, inputVars, todo, asked, results, fault>>

\* Stopped and drained: the empty payload is delivered, the thread returns.
Finish(c) ==
    /\ input[c] = "joining" /\ todo[c] = 0 /\ ~InputHeld
    /\ Goto(c, "loop", "done")
    /\ UNCHANGED <<obsVars, ioVars, inputVars, todo, released, asked, results, fault>>

JobStep(c) ==
    \/ Subscribe(c) \/ Take(c) \/ Ask(c) \/ Keep(c) \/ AnswerAtOnce(c)
    \/ ProcessorReturns(c) \/ AwaitResult(c) \/ Finish(c)

(***************************************************************************)
(* Results.                                                                *)
(***************************************************************************)

\* External: the processor answers a payload of c on its own thread.
Answer(c) ==
    /\ Up /\ asked[c] > 0
    /\ notify(Processor)
    /\ asked' = [asked EXCEPT ![c] = @ - 1]
    /\ results' = Append(results, c)
    /\ UNCHANGED <<ioVars, inputVars, job, todo, released, fault>>

Answered ==
    /\ Up /\ NotifyReturns(Processor)
    /\ UNCHANGED <<ioVars, inputVars, jobVars, fault>>

\* The callback of the job under the iterator of the thread t.
Callback(t) ==
    /\ Up /\ CallbackReturns(t)
    /\ released' = [released EXCEPT ![callbacks[at[t]]] = TRUE]
    /\ UNCHANGED <<ioVars, inputVars, job, todo, asked, results, fault>>

\* While the members of a connection are destroyed, or after that, its Input or
\* Output thread or its job's callback uses them.
UseAfterDestroy(c) ==
    /\ Up /\ entry[c] \in {"destroying", "erased"}
    /\ c \notin ended \/ \E t \in Thread : at[t] \in Id /\ callbacks[at[t]] = c
    /\ fault' = "use_after_destroy"
    /\ UNCHANGED <<obsVars, ioVars, inputVars, jobVars>>

IoStep(c) == QueueMessage(c) \/ Erase(c)

Next ==
    \/ \E c \in Connection :
          \/ OnOpen(c) \/ OnStart(c) \/ OnRefused(c) \/ OnCloseSent(c) \/ OnClose(c)
          \/ \E type \in {"Data", "End"} : OnQueued(c, type)
          \/ IoStep(c)
          \/ ReadEnd(c) \/ Join(c) \/ SendEnd(c)
          \/ JobStep(c)
          \/ Answer(c)
          \/ UseAfterDestroy(c)
    \/ Answered
    \/ \E t \in Thread : Callback(t)

Spec == Init /\ [][Next]_vars

\* Threads are scheduled and get the mutexes they wait for, and the processor
\* answers.  That a peer sends anything, or closes, is not assumed.
FairSpec ==
    /\ Spec
    /\ \A c \in Connection :
          /\ WF_vars(IoStep(c)) /\ WF_vars(JobStep(c)) /\ WF_vars(Answer(c))
          /\ WF_vars(ReadEnd(c)) /\ WF_vars(Join(c))
    /\ WF_vars(Answered)
    /\ \A t \in Thread : WF_vars(Callback(t))

(***************************************************************************)
(* Properties.                                                             *)
(***************************************************************************)
TypeOK ==
    /\ ObsTypeOK
    /\ entry \in [Connection -> {"absent", "open", "destroying", "erased"}]
    /\ closing \subseteq Connection
    /\ io \in [step : {"Data", "End", "erase"}, on : Connection] \union {Idle}
    /\ input \in [Connection -> {"reading", "stopping", "joining", "done"}]
    /\ ended \subseteq Connection
    /\ job \in [Connection -> {"none", "subscribe", "loop", "ask", "delivering",
                               "publishing", "await", "done"}]
    /\ todo \in [Connection -> Nat] /\ asked \in [Connection -> Nat]
    /\ released \in [Connection -> BOOLEAN]
    /\ results \in Seq(Connection) /\ received \in Nat
    /\ fault \in {"none", "dangling", "terminate", "null_job", "use_after_destroy"}

\* No result is handed to a job whose entry in m_Jobs is gone, whichever entry the
\* io thread erases while whichever thread publishes: ~Job waits for the results'
\* mutex, and a callback runs only while that is held.
CallbackOnLiveJob ==
    \A t \in Thread, c \in Connection :
        at[t] \in Id /\ callbacks[at[t]] = c => entry[c] \in {"open", "destroying"}

\* Until the identifiers wrap, no result is lost: one that answers a payload of an
\* open connection reaches that connection's job, at the latest when the
\* notification is over.
OwnResultArrives ==
    subscriptions <= IdLimit =>
        \A n \in DOMAIN results :
            entry[results[n]] = "open" /\ (n < notifications \/ ~Locked) =>
                \E i \in DOMAIN heard[results[n]] : heard[results[n]][i] = n

\* Every thread in an operation waits, for a mutex or for what its condition tells.
Resting ==
    /\ \A t \in Thread : ~Calling(t)
    /\ at[Processor] # End
    /\ io.step \in {"Data", "End"} => input[io.on] = "joining"
    /\ io.step = "erase" =>
           job[io.on] # "none" /\ (Locked \/ (input[io.on] = "done" /\ ticket[io.on] = NoTicket))
    /\ \A c \in Connection :
          /\ asked[c] > 0 => Locked
          /\ job[c] = "publishing" => at[c] # End
          /\ entry[c] = "open" =>
                /\ input[c] # "stopping"
                /\ input[c] = "joining" => job[c] # "done"
                /\ job[c] = "subscribe" => Locked \/ ticket[c] # NoTicket
                /\ job[c] = "loop" => todo[c] = 0 /\ (input[c] = "joining" => InputHeld)
                /\ job[c] = "ask" => InputHeld
                /\ job[c] # "delivering"
                /\ job[c] = "await" => ~released[c]

\* Nobody waits for what never comes: not the io thread for an input queue's mutex or
\* that of the results, not a job for a result or for the processor, not an Input
\* thread for its job.  When all threads rest, every queue is empty and every
\* payload answered, until the identifiers wrap.
RestingOwesNothing ==
    Up /\ Resting /\ subscriptions <= IdLimit =>
        /\ io = Idle
        /\ \A c \in Connection :
              /\ job[c] \in {"none", "loop", "done"} /\ todo[c] = 0 /\ asked[c] = 0
              /\ entry[c] = "open" => input[c] \in {"reading", "done"}

\* The io thread serves every connection: neither the queue of a connection whose
\* job is being joined nor a notification in progress keeps it for good.
IoReturns == io # Idle ~> io = Idle \/ ~Up

\* A job with payloads gets through them, however many others use the processor and
\* the results, as long as the identifiers have not wrapped.
PayloadsAreServed ==
    \A c \in Connection : todo[c] > 0 ~> todo[c] = 0 \/ ~Open(c) \/ subscriptions > IdLimit
=============================================================================
