# Verification of the Osprey processing unit

TLA+ models, TLC runs and TLAPS proofs for the C++ processing unit in `src/`: a
websocket server that gives each connection a job. A peer sends Start, Data, ... ,
End; the job hands each payload to a processor through an observable, and the
connection returns the results, one per Continue of the peer, and End.

Contents: [inventory](#inventory) · [modules](#modules-and-their-code) ·
[runs](#what-is-checked) · [proofs](#what-is-proved) ·
[disagreements](#where-documentation-and-code-disagree) ·
[abstractions](#abstractions-and-their-reasons) · [plan](#plan)

## Inventory

| component | state | operations |
| --- | --- | --- |
| `Job` (`src/job.cpp`) | payload queue, its cached emptiness, stop flag, "result received" flag, one mutex, two condition variables, one thread | `process`, `stopJob`, `readData`, `writeData`, `Processing`, the result callback |
| `JobConnection` (`src/job_connection.cpp`) | state, job id, input and output queue with a mutex, a condition variable and a cached emptiness each, the Continue, job-stopped and processing flags, the job, two detached threads | `Init`, `Input`, `Output`, `OnMessage` and its five handlers, `SendData`, `SendContinue`, destruction |
| `JobConnectionManager` | `m_Jobs`: connection to `JobConnection`; one mutex | `OnOpen`, `OnMessage`, `OnClose`; four accessors nobody calls |
| `VmsAgent` (`src/vms_agent.cpp`) | the websocket server | handlers `on_open`, `on_message`, `on_close`, `on_error`; `start` |
| Osprey protocol (`src/osprey_ws_protocol.cpp`) | type, JSON document and payload of a `MessageReader` | `to_json`/`from_json` per message, `pack`, `Parse`, `GetMessage` |
| `Observable`, `ObservablesResolver` | two process-wide subscriber lists (inputs, results), a mutex and an id counter each | `subscribe`, `unsubscribe`, `notify` |
| `ProcessingUnitServer` | the `VmsAgent` pointer; with it the process-wide logger registry | start (which restarts), stop, destructor |
| `ConcurrentQueue` | a queue, mutex, condition variable | `push`, `pop`, `size`; instantiated nowhere |

**How they interact.** The server's io thread runs the handlers, one at a time,
for *all* connections, with the manager's mutex held. `OnMessage` builds a
`MessageReader` on the frame and dispatches on its type: Start constructs the job
(whose thread starts at once), Data and End go into the input queue, Continue sets
a flag. The *input* thread moves Data into the job's queue; on End it stops the job
and joins its thread, holding the input queue's mutex all the while. The *job*
thread takes a payload, sends Continue, publishes the payload on the input
observable and waits for `m_isVARecived`. The processor (outside the repository)
subscribes to the input observable and publishes its result on the result
observable, to which *every* job subscribes. The job's callback puts the result
into the connection's output queue and sets the flag. The *output* thread sends one
result per Continue, and End once the job has stopped and the queue is empty.

**What is hard.** Four threads per connection and five notifications, all made after
the unlock; two emptiness flags that stand for queues; a loop condition read without
its mutex; one result flag for any number of results; a join under a mutex the
io thread needs; messages in any order (End before Start, Data after End); a close
at any moment; results for other connections; subscribers that throw before or
after they took a payload.

**What makes each part correct.**

* Job: no wakeup is lost; the thread ends only when everything submitted was read
  and acknowledged; at most one payload is outstanding; results keep their order.
* JobConnection: End is sent once, last, and only when every result is out; Data
  never outruns Continue; Ready is first; every accepted message is answered; the
  threads neither wait for each other for good nor spin; a clean end can be destroyed
  safely.
* Manager and agent: one connection's trouble does not end the process.
* Protocol: what is packed is read back as it was; what is not parsed does not look
  like Start or Data; no frame makes the reader throw.
* Observable: every current subscriber gets each notification once, in one order; ids
  are unique until they wrap; nobody is called once it has unsubscribed; the mutex is
  released again.
* Server: no result reaches a job that is gone, none is lost on the way to its own,
  one connection's waiting never keeps the io thread for good, and the waits of all
  the threads for mutexes, results and each other close no circle.
* ProcessingUnitServer: one agent at a time, which can be stopped as long as it listens
  and its server was not destroyed under a running `Start`; stop ends start; calls one after the other are safe; a server can be started again.
* ConcurrentQueue: first in, first out; no item left behind by sleeping consumers.

`PROJECT.json` lists each hazard at its line with the properties aimed at it.

## Modules and their code

| module | models |
| --- | --- |
| `Job` | one job with the caller, the processor and other connections' results around it |
| `JobProofs` | theorems about `Job` |
| `JobConnection` (extends `Job`) | one connection: io, input, output and job thread, open to destruction |
| `OspreySession` | the abstract specification: what a connection promises its peer |
| `JobConnectionProofs` | theorems about `JobConnection` |
| `JobConnectionProgressProofs` (extends `JobConnectionProofs`) | why its threads get on with their work |
| `OspreyProtocol` | the messages' codec and `MessageReader`, as a machine that reads one frame after the other |
| `OspreyProtocolProofs` | theorems about `OspreyProtocol` |
| `Observable` | one observable: subscribe, unsubscribe, notify entry by entry |
| `Broadcast` | the abstract specification: what an observable promises |
| `ObservableProofs` | theorems about `Observable` |
| `Server` (extends `Observable`) | several connections, the io thread and the shared observables |
| `ServerProofs` (extends `ObservableProofs`) | theorems about `Server` |
| `ServerLifecycle` | `ProcessingUnitServer` and the life of its `VmsAgent` |
| `ServerLifecycleProofs` | theorems about `ServerLifecycle` |
| `ConcurrentQueue` | the queue template with its producers and consumers |
| `ConcurrentQueueProofs` | theorems about `ConcurrentQueue` |

**Job.** Each critical section of `m_DataProtector` is one action; `thread` is the
control point of `Processing` between two of them (`loop`, `wait`, `read`,
`continue`, `notify`, `va`, `final`, ...). A thread blocked in `wait()` has a control
point of its own (`asleep`, `vaAsleep`); a `notify_one` moves it back to the point
where it evaluates its predicate, and `SpuriousWakeup` does so at any time. The
unlocked loop condition is the action `Loop`: the stop flag only ever goes up, so the
second read decides. `ResultCallback` is the lambda; `OwnResult` and `ForeignResult`
are the processor, outside `src/`, calling it. The k-th payload is the number k and
its result carries the same number, 0 is the empty payload, so order, loss and
duplication can all be seen. `acks` and `written` record the calls to
`SendContinue` and `SendData`.

**JobConnection** reuses those actions: `OnStart` constructs the job, `InputData`
calls `process`, `InputEnd` calls `stopJob`, `InputJoined` is the return of the join,
`OnResult` is `writeData`/`SendData`. A mutex is held exactly between two control
points of its holder (`InputLocked`, `OutputLocked`), so there are no lock variables:
whoever needs the mutex has the negation as a guard. `io` is the io thread's position
inside a handler: `starting` between the job's construction and Ready, `Data` or
`End` before the input queue's mutex is taken. `conn` is the entry in `m_Jobs`:
`closing` after a refused message, while the close frame is under way and messages
are still handled; `destroying` and `destroyed` in the destructor. What ends the
process (null `m_Job`, `std::terminate` on a joinable thread, an exception that
leaves the job's thread, a step on destroyed members) sets `fault`, and nothing
happens after it.

**OspreySession** has no threads, queues or flags: counters for what was accepted and
acknowledged, the results on their way, what was sent. `Session` in `JobConnection` maps
its `outbox` to `m_OutputMessages`; the other variables are the histories of the same
name. Its promise: acknowledge Data in order up to the first End, at most one result per
payload and none before its acknowledgement, send on credit, one End when every Data
before the peer's is acknowledged and no result is left to send, nothing after it. A
connection may also get results of others (`ProduceForOthers`), and a result may then come
after those of later payloads, or too late to be sent. While it is `Alone`
(`Undisturbed` in `JobConnection`) it promises more: results in the order of the payloads,
and none that End overtakes.

**OspreyProtocol** keeps the control of `Parse` and `GetMessage`: which read fails
how, in which order the three members are assigned, and the value `m_CurrMessageType`
has before (any). Texts and payloads are members of small sets; a field of the wrong
JSON type is a string that begins with `#`.

**Observable.** `notify` holds the mutex while it walks through the map, so the mutex is
held exactly while some thread has an iterator (`at`), and the walk is one action per
callback; `subscribe` and `unsubscribe` are one critical section each. Identifiers are
numbers below `IdLimit`, the width of the `uint32_t` counter, and wrap. A callback
throws (the `lock_guard` unlocks, the rest of the entries hear nothing) or calls its own
observable (`stuck`, for good). Which callbacks do so is a constant: the job's do
neither.

**Broadcast** has members and no map, iterator or mutex: a notification reaches everybody
at once. The mapping hides a walk in progress: what it has delivered so far counts when it
ends. The two exceptions of the code are part of the promise: a failing member may hide
the notification from others, and after the identifiers have wrapped a newcomer may push
out a member.

**Server** is the composition: `JobConnectionManager` and the handlers of `VmsAgent` over
several connections, with one instance of `Observable` (the results) whose observers are
the connections' jobs and whose threads are those that may publish: the jobs' (the
processor answers inside its callback, `AnswerAtOnce`) and the processor's own (`Keep`,
`Answer`). The input observable is reduced to its mutex (`InputHeld`): its one subscriber
is the processor. Of a connection only what others notice is left: `todo` counts the Data
in both of its queues, `input` says whether its input thread holds the queue's mutex in
the join. `io` is the handler in progress. After an exception the close frame is on its
way (`closing`); its completion handler uses a reference to a parameter that is gone, so
`OnCloseSent` erases any connection, none, or kills the process.

**ServerLifecycle** has threads that call the members of servers, one action per step of
`Start`, `Stop` and the destructor, with nothing that orders them: `delete vmsAgent`
is the read of the pointer, `_server.stop()`, the destruction, and the assignment of
`nullptr`. The logger registry and the port belong to the process. `alive` are the servers
whose destructor was not called, `Destroyed` those whose destructor has returned. A second
delete, a use of a deleted agent, a step that reads or writes a member of a destroyed server
(`UseDestroyed`: `Goto` takes no other step from a point in `MemberUse`), and
`std::terminate` (the agent is destroyed with a job that runs) are faults and end it.

**ConcurrentQueue.** What is done with the mutex held is one action, the notification
after the unlock another. A woken consumer competes for the mutex with everybody else.

## What is checked

Every run finishes in about two minutes or less with two workers. Deadlock is off
everywhere: a job, a connection and a process end.

| run | question | bounds |
| --- | --- | --- |
| `connection` | one payload in flight and results in order; End complete and last, Ready first, flow control, no missed message, clean destruction; the job inside is a `JobSpec`, what the peer sees is a session (`SessionSpec`) | 2 Data, End while fewer than 3 messages are queued, 1 Continue too many |
| `connection_live` | with results that were not asked for: no lost wakeup, draining, the session kept; the threads never wait for each other (`RestingOwesNothing`) and never spin (`WorkRunsOut`); every Data acknowledged, every End answered, the io thread released | 2 Data, 1 foreign result, throws after taking, End while nothing is queued |
| `protocol` | round trip, and frames with missing, mistyped or unreadable parts | 2 texts, 2 payloads |
| `observable` | nobody called after unsubscribing, own entry, mutex released; implements `Broadcast` | 3 observers (one throws, one re-enters), 2 threads, 3 identifiers, 5 subscriptions, 2 notifications |
| `server` | no call to a dead job, own result arrives, nobody waits for what never comes (`RestingOwesNothing`), io thread returns, payloads served | 2 connections, 2 identifiers, 2 Data, 1 close frame on its way |
| `server_lifecycle` | one agent, listener reachable, calls in turn safe, stop ends start | 2 threads, 2 servers, log file that may not open |
| `concurrent_queue` | order, no forgotten item, items taken | 2 producers, 3 consumers, 4 items |
| five `violation` runs | see [below](#where-documentation-and-code-disagree) | smallest that shows it |

**Why the bounds suffice.** Two payloads are the fewest for which order, a stale
result flag and "queue still non-empty after a pop" arise. A second End needs a queue
longer than one. One result that was not asked for can set the flag early, and two can
coalesce: a foreign one and the late answers to payloads whose subscriber threw make
three. One superfluous Continue is enough to lose one (`connection`; the peer of
`connection_live` sends none). Five subscriptions wrap three identifiers with an older
observer still there. In `server` the two Data are one for each connection or two for one;
that a result for the other connection releases a job early and its own comes when it
has gone on needs both; an early release with a third payload behind it is in
`connection_live`. Two threads are a call and the one it races with; two servers show
that the registry and the port are shared. `MaxAgents = 2` is not reached: that is
`OneAgent`. Three consumers leave one asleep while one is woken and one comes new. For
safety the bounds do not matter in the end: it is proved for all values of the
constants.

**Undisturbed.** `EndIsComplete`, `OneInFlight`, `ResultsInOrder` and
`QuietCloseIsSafe` assume that no foreign result arrives and that a subscriber that
throws had not taken its payload. Otherwise they do not hold, by design of the code:
there is one result observable for all connections, so a foreign result is written as
if it were the job's own and releases its thread early. All others hold without that
assumption; of `SessionSpec`, only the stronger promise of a connection that is `Alone`
needs it. `connection` runs the session alone, `connection_live` disturbed.

**Progress.** `EndAnswered` and its like are checked on small instances only, but two
properties that together are their reason are stated so that they can be proved.
`Resting` spells out that every thread is blocked and the processor owes no answer: each
conjunct is the negation of what lets that thread go on. `RestingOwesNothing` says that in
such a state nothing is owed to the peer, `WorkRunsOut` that a state like it is reached:
`Work` bounds the steps the threads and the processor can take, and each step they take
lowers the bound. It is raised by the environment alone: a message, a result not asked
for, a Continue, a spurious wakeup. In `Server` the same is asked of all connections
together, whose io thread, jobs and processor wait for the two observables' mutexes, the
input queues' and the joins. There `Resting` leaves out the bounds on the histories: an
answer not given because `MaxNotifications` is reached still counts as owed.

**ReadyFirst** claims only that no Continue and no Data precede Ready. End may: an End
sent before Start can be handled while the io thread is still inside
`HandleStartMessage`, so the job is stopped and End sent before Ready, after which
`job_ended` is overwritten with `job_started`.

**Fairness** (`FairSpec`). In `JobConnection`: weak fairness for the input, the output and the job thread
(the operating system schedules runnable threads), for the rest of a handler the io
thread has begun, for the processor's answer to a payload it was given
(`ResultStep`), and for the peer's Continue while the last one is used up. Nothing is
assumed about spurious wakeups, foreign results, further messages, or a close.
Liveness is claimed as long as the connection is up and the process alive (`Live`).
A processor that never answers blocks the job, the join, the io thread and with it
every connection: that is the code's assumption about its subscriber, and why
`ResultStep` is fair. The answer may be empty.

In the other modules, likewise, a thread that is inside an operation goes on, and nothing
is assumed about calls, messages, closes and spurious wakeups. A thread that waits for a
mutex gets it when it is free for good; weak fairness asks no more, and the results say
that it is enough. In `Server` the processor answers (`Answer` and `Callback` are fair),
and `PayloadsAreServed` stops where the identifiers wrap, after which a job may have lost
its entry. In `Observable` callbacks end unless they call their own observable.

## What is proved

TLAPS, for every number of payloads, foreign results, queued messages and every
`SubscriberThrows`:

* `JobProofs`: `JobSpec => []JobInv`, and from it `JobTypeOK`, `NoLostWakeup`,
  `DrainedAtExit`, `OneInFlight`, `ResultsInOrder`.
* `JobConnectionProofs`: `Spec => []ConnInv`, and from it `TypeOK`,
  `NoMissedMessage`, `EndIsComplete`, `ReadyFirst`, `FlowControl`,
  `QuietCloseIsSafe`, the action property `EndIsLast`, and the refinement
  `Spec => JobSpec`: whatever the connection does to its job is something the
  environment of module `Job` does. And `Spec => SessionSpec`, whatever else is published
  on the result observable: each step is hidden from the peer (`Hidden`) or one of the
  session's (`PeerSteps`, `AcknowledgePromised`, `ResultPromised`, `OutputPromised`).
* `JobConnectionProgressProofs`: `RestingOwesNothing` and the action property
  `WorkRunsOut`.
* `ObservableProofs`: `ObsSpec => []ObsInv`, from it `ObsTypeOK`, `NoCallAfterUnsubscribe`,
  `OwnEntry`, and the refinement `ObsSpec => BroadcastSpec`.
* `ServerProofs`: `Spec => ObsSpec`, so that the theorems about an observable hold in the
  server; `TypeOK`, `CallbackOnLiveJob`, `OwnResultArrives`, `RestingOwesNothing`.
* `ServerLifecycleProofs`: `TypeOK`, `OneAgent`, `ListenerReachable`,
  `SequentialCallsAreSafe`.
* `OspreyProtocolProofs`: `TypeOK`, `RoundTrip`, `UnparsedStartsNothing`.
* `ConcurrentQueueProofs`: `FirstInFirstOut`, `NoItemForgotten`.

**JobInv.** `DrainedAtExit` is not inductive: the loop is left on the word of
`m_isJobEmpty`, so the flag must agree with the queue (`FlagAgrees`), and "everything
acknowledged" needs to know where each payload is (`Pipeline`: the queue holds exactly
the numbers after the one taken last). `NoLostWakeup` needs `Awaited`: without a
result seen, the awaited payload is with the processor. Order and one-in-flight need
`Alone` (undisturbed, a payload is outstanding or its result unseen, never both) and
`Written`. For the disturbed session `Once` says that a payload with the processor has no
result yet, so that the next one is its first; `Called`, that the thread leaves its first
wait only for a payload or the stop, so that it does not spin.

**ConnInv.** `EndIsComplete` relates the peer's End to what was sent much later, so the
invariant follows each message through: `Feed` (the input queue holds exactly the
accepted, not yet submitted payloads, in order), `Ends` (the first End is behind
exactly `endAt` payloads until it stops the job, so the job is stopped with `endAt`
submitted), `JobInv`'s `DrainedAtExit` (all of them acknowledged), `Alone` (nothing
outstanding), `Wire` (written = sent followed by queued) and `NothingLeft` (the
queue is empty when End goes out and, undisturbed, stays so). `Started` says that an open
connection has its threads. `Control` ties flags to control
points, `CachesAgree` the emptiness flags to the queues, `Early` says what has not
happened before Ready and before the first Continue, `Credit` counts Continues. That
`JobInv` is preserved is not proved again: `Refines` shows that each step of the
connection is a step of the job or leaves it alone, and `JobStepInv` does the rest.
There is one lemma per conjunct; frame lemmas (`InputFrame`, `OutputFrame`,
`HistoryFrame`, ...) say which actions can disturb it.

**Progress of a connection.** `RestingOwesNothing` follows the messages backwards: the
job rests, so by `NoLostWakeup` its queue is empty and everything submitted acknowledged
(`RestingJob`); hence a join has returned, and by `NoMissedMessage` the input thread
sleeps on an empty queue; hence nothing holds its mutex and the io thread is not in a
handler; and the output thread sleeps for want of a Continue or because nothing is there.
`WorkRunsOut` has a lemma for each thread. What a message adds to the job is less than it
takes from the input queue's part of the bound, and what a result adds to the output
queue less than it takes from the job's (`Trade`). Its delicate case is the job's loop,
entered once more after the stop because the loop condition is read unlocked:
`FlagAgrees` and `Called` allow that one round (`LastRound`) and no other.

**ObsInv.** That an observer called is one that holds its identifier needs `Filed` (an
entry's observer holds that identifier, wrapped or not) and `OneHolder` (one thread walks
at a time, so the entry under the iterator does not change); `OwnEntry` needs
`Fresh` (identifiers not given out yet are above those given). The refinement needs to
know what a walk in progress has delivered: `Walked` says that the entries behind the
iterator have heard the current notification and those at or after it have not.

**Server.** `TicketOfJob` says which control points and entries go with holding an
identifier: a job that has subscribed, of an entry not erased. `Origin` gives the
answered connection of each notification. `OwnResultArrives` is then inductive with
them: during a walk the result's own job is either behind the iterator or still to
come. `RestingOwesNothing` needs to know why a job waits. `Owed` says that, unless it has
been released, its own payload is still with the processor, or the notification in progress
is its result and has not reached it; a result for another connection may release it
before, and its own answer then meets it one payload later, which `Owed` survives because only an
answer to the job takes a payload of its from the processor, and each such answer
releases it. `Walks`, `Errand` and `Life` tie the
iterators, the io thread and the Input threads to the jobs' control points. The argument
then goes around the possible circle: somebody inside `notify` can always go on, so when all
rest the results' mutex is free (`MutexesFree`); hence no job is in the processor's
callback, which would hold the inputs' mutex, and `~Job` is not waiting; hence every job
is through with its payloads or told to stop and returned; hence no Input thread is in a
join, and the io thread not behind one.

**ServerLifecycle.** `Builder`: the registry is a lock that is taken once and never given
back, and only who took it creates an agent. `Reach`: every agent created and not freed
is pointed to by a server that is alive, or by one whose destructor has yet to read the
pointer, or is in the hands of a thread about to delete it. The step that could break it
is `NewAgent` while the server's destructor runs: since there was no agent yet, that
destructor can only be before its test of the pointer, so it will find the new one.
`InTurn`: while no
calls have overlapped, one thread is inside, every pointer is to an agent that is there
(but for the thread between `delete` and the assignment), and an agent that served is
still being served. `Home`: nor is the server of the thread inside destroyed, so that
`UseDestroyed` needs an overlap too.

**OspreyProtocol.** `ReadBack` says what a reader holds after the frame of a message; each
`from_json` is then shown to undo its `to_json`. `Unread`: without an answer of true or an
exception the reader has no document, on which the getters throw.

**ConcurrentQueue.** `NoItemForgotten` is a count: a push adds an item and a producer
about to notify, and each step that takes one of the "on the way" threads away takes an
item with it or leaves nobody asleep.

The only assumptions are those on the constants, named in each module (`JobAssumption`,
`ConnectionAssumption`, `ProtocolAssumption` and `EncodingAssumption`, `ObservableAssumption`, `ServerAssumption`,
`LifecycleAssumption`, `QueueAssumption`).

**Only model-checked.** Liveness (`EndAnswered`, `DataAcknowledged`, `IoReleased`,
`Released`, `IoReturns`, `PayloadsAreServed`, `StopEndsStart`, `ItemsAreTaken`):
fairness and `ENABLED` are out of the prover's reach. For a connection the step that is
missing is the last one, from "each fair step lowers `Work`, and none is possible only in
`Resting`" to "`Resting` is reached unless the environment brings work for ever". Every
safety property of a passing run is proved.

## Where documentation and code disagree

Each is a run that TLC refutes; `PROJECT.json` quotes the line.

* `end_before_start`: End before Start reaches `m_Job->stopJob()` on a null pointer.
* `close_while_running`: a connection closed while its job's thread is joinable ends
  the process in `std::terminate`.
* `end_without_continue`: End follows the last Data without waiting for Continue.
* `parse_throws`: `Parse` throws instead of returning false on a broken frame.
* `restart_throws`: a second `StartProcessingUnitServer` throws, since the logger names of
  the first are still registered. Hence `OneAgent`.

Two more things the models show, without a run of their own. With a second connection,
Data can be sent before Ready, since the job subscribes before `HandleStartMessage` sends
it (`ReadyFirst` therefore assumes that there is none). Data accepted after End is never
acknowledged, since nobody reads it (`DataAcknowledged` therefore stops at End), although
`osprey_ws_protocol.hpp:22` asks any side that receives data to answer with Continue.

## Abstractions and their reasons

* Ready and Unknown messages are only logged and have no action. A frame that
  could not be parsed is handled under whatever type the uninitialised field shows;
  `UnparsedStartsNothing` shows that it cannot carry a Start or Data that `GetMessage`
  accepts, and the others may arrive at any time anyway.
* The states `job_started_end_received`, `job_work_finished` and `error` are in the
  type and in `Refused`, but the code never sets them; likewise
  `m_isEndMessageReceived` and `m_Valid` have no effect.
* Loop conditions and `m_Processing` are read unlocked: reads of a `bool` are taken
  as atomic, as the supported compilers on x86 make them.
* The result callback holds `m_DataProtector` while it waits for the output queue's
  mutex. It is one action, enabled when that mutex is free: the output thread never
  needs `m_DataProtector`, so holding it longer delays the job and changes nothing else.
* The output thread notifies its own condition variable (line 218); nobody else waits
  on it, so the call has no effect.
* One subscriber is assumed to answer a payload once. Any further answer is a
  foreign result, which is what it amounts to for the job.
* After destruction nothing is predicted: a thread with a step left on a destroyed
  member may set `fault`. So may one asleep on a condition variable that is being
  destroyed, which the C library of Ubuntu 16.04 (the platform of `src/README.MD`)
  tolerates and later ones answer by blocking the io thread in the destructor: both
  outcomes are in the model. `~Job` calls through observable pointers declared after `m_Job`, hence
  destroyed before it; in practice the resolver keeps the observables alive, and
  the model lets the call through.
* The io thread handles one message at a time; several io threads are not configured.
* `Server` leaves out what `JobConnection` has in detail: acknowledgements, the output
  queue, subscribers that throw, wakeups. A refused Start or Data may or may not raise an
  exception there (`OnRefused` may come at any time).
* `~Job` of a job that has not subscribed yet unsubscribes an uninitialised identifier;
  in `Server` the process ends in the same step, as it does in the code a moment later.
* The three logger names are registered in one step: whoever gets `"console"` gets them
  all. A log file that cannot be opened throws before any name is registered.
* After a deleted agent's stop, `_server.start()` may return normally or run into the
  destroyed members; both are in the model, as is the acceptor of an agent that began
  to listen after the stop. A `Start` that goes on after its server's destruction writes a
  freed member, reads `_host`, and may then serve an agent that no server can stop: this is
  the fault `use_after_destroy`, and nothing is predicted after it. `VmsAgent` destroyed while it serves may destroy a running
  job, hence `terminate`.

## Plan

Done, in this order: `Job`, its invariant and proofs; `JobConnection` on top of it, its
runs, invariant, proofs and refinement of `JobSpec`; `OspreyProtocol`; `OspreySession`
and the refinement to it; `Observable` with its refinement to `Broadcast`; `Server` on top
of it; `ServerLifecycle`; `ConcurrentQueue`; their theorems; `SessionSpec` for disturbed
connections; the progress of a connection and of the server as safety and action
properties.

Left: a processor that keeps state per job, for which an empty payload would be taken for
the end of a job; a bound like `Work` for the server; a proof that what `Server` keeps of a
connection is what `JobConnection` does.

## Not modelled

* `ConcurrentQueue::size` reads the queue without the mutex: a data race that changes
  nothing, in a template that is instantiated nowhere.
* `JobConnectionManager::GetConnectionState`, `ChangeConnectionState`, `GetJobId` and
  `AddJobId` are called by nobody, `AddInputMessage`, `AddOutputMessage` and
  `AddJobIdToConnection` are declared and not defined.
* The members of `VmsAgent` left from before the connection manager are unused.
* The completion handler of `send` refers to a message that is gone; only the text of a
  log line depends on it.
* `json.hpp`, spdlog, msgpack, boost and the websocket library are external, modelled
  where `src/` depends on what they do; logging and the build files have no behaviour
  to check.
