--------------------------- MODULE ServerLifecycle ---------------------------
(***************************************************************************)
(* ProcessingUnitServer, src/processing_unit_server.cpp, and the life of   *)
(* its VmsAgent: StartProcessingUnitServer, StopProcessingUnitServer and   *)
(* the destructor, called by several threads, on one or more servers of a  *)
(* process.  Start blocks while the agent serves, so a Stop that ends it   *)
(* comes from another thread; nothing in the code orders the two.          *)
(*                                                                         *)
(* The logger registry belongs to the process and is never cleared.  A     *)
(* fault (second delete, use of a deleted agent or of a destroyed server,  *)
(* std::terminate) ends the process, or leaves nothing to be said of it.   *)
(* What the agent does while it serves is module Server.                   *)
(***************************************************************************)
EXTENDS Naturals

CONSTANTS
    Thread,     \* the threads of the embedding program
    Server,     \* its ProcessingUnitServer objects, all on the same port
    LogOpens,   \* external: whether log.txt can always be opened
    MaxAgents   \* bound: agents created

ASSUME LifecycleAssumption == LogOpens \in BOOLEAN /\ MaxAgents \in Nat

VARIABLES
    vmsAgent,   \* the pointer of each server; 0 is nullptr
    created,    \* number of agents allocated; the k-th is the number k
    served,     \* agents whose _server listened at some time
    freed,      \* agents that were deleted
    port,       \* the agent that listens on the port, NoAgent or (external) Other
    registered, \* the logger names are in spdlog's registry
    alive,      \* servers whose destructor has not been called
    point,      \* control point of each thread; "out" outside the server's members
    call,       \* the member it called last
    on,         \* the server it called it on
    agent,      \* the agent it deletes or runs
    outcome,    \* history: how its last call ended
    overlapped, \* history: a call began while another was in progress
    fault       \* how the process died or became undefined, or "none"

threadVars == <<point, call, on, agent, outcome>>
vars == <<vmsAgent, created, served, freed, port, registered, alive, threadVars,
          overlapped, fault>>

Agent == 1..MaxAgents
NoAgent == 0
Other == MaxAgents + 1  \* another process, or the system, which keeps the port for a while

Init ==
    /\ vmsAgent = [s \in Server |-> NoAgent]
    /\ created = 0 /\ served = {} /\ freed = {}
    /\ port = NoAgent /\ registered = FALSE /\ alive = Server
    /\ point = [t \in Thread |-> "out"] /\ call = [t \in Thread |-> "none"]
    /\ on \in [Thread -> Server] /\ \A t, u \in Thread : on[t] = on[u]
    /\ agent = [t \in Thread |-> NoAgent] /\ outcome = [t \in Thread |-> "none"]
    /\ overlapped = FALSE /\ fault = "none"

At(t, p) == fault = "none" /\ point[t] = p

\* The destructor of s has returned.
Destroyed(s) ==
    /\ s \notin alive
    /\ ~\E t \in Thread : point[t] # "out" /\ call[t] = "destructor" /\ on[t] = s

\* Where the next step reads or writes vmsAgent, _host or _port.
MemberUse == {"close", "null", "new", "start"}

\* A step of t; one that uses a member of the server finds it there.
Goto(t, from, to) ==
    /\ At(t, from)
    /\ ~(from \in MemberUse /\ Destroyed(on[t]))
    /\ point' = [point EXCEPT ![t] = to]

\* The call of t ends, from a control point, in a result.
Leave(t, from, result) ==
    /\ Goto(t, from, "out")
    /\ agent' = [agent EXCEPT ![t] = NoAgent]
    /\ outcome' = [outcome EXCEPT ![t] = result]
    /\ UNCHANGED <<call, on>>

Dies(how) ==
    /\ fault' = how
    /\ UNCHANGED <<vmsAgent, created, served, freed, port, registered, alive, threadVars,
                   overlapped>>

(***************************************************************************)
(* "close previous season", common to the three members.                   *)
(***************************************************************************)
Call(t, s, member) ==
    /\ s \in alive
    /\ Goto(t, "out", "close")
    /\ call' = [call EXCEPT ![t] = member] /\ on' = [on EXCEPT ![t] = s]
    /\ alive' = IF member = "destructor" THEN alive \ {s} ELSE alive
    /\ overlapped' = (overlapped \/ \E u \in Thread : point[u] # "out")
    /\ UNCHANGED <<vmsAgent, created, served, freed, port, registered, agent, outcome, fault>>

\* Where a thread goes on when the previous agent is gone.
Closed(t, from) ==
    IF call[t] = "Start"
    THEN Goto(t, from, "loggers") /\ agent' = [agent EXCEPT ![t] = NoAgent]
                                  /\ UNCHANGED <<call, on, outcome>>
    ELSE Leave(t, from, "returned")

\* Mutant of NothingToClose: the destructor leaves the agent to itself.
LeaveAgent(t) ==
    /\ vmsAgent[on[t]] = NoAgent \/ call[t] = "destructor"
    /\ Closed(t, "close")
    /\ UNCHANGED <<vmsAgent, created, served, freed, port, registered, alive, overlapped, fault>>

\* if (vmsAgent) is false.
NothingToClose(t) ==
    /\ vmsAgent[on[t]] = NoAgent
    /\ Closed(t, "close")
    /\ UNCHANGED <<vmsAgent, created, served, freed, port, registered, alive, overlapped, fault>>

\* if (vmsAgent) is true: the pointer is read for the delete.
StartDelete(t) ==
    /\ vmsAgent[on[t]] # NoAgent
    /\ Goto(t, "close", "delete")
    /\ agent' = [agent EXCEPT ![t] = vmsAgent[on[t]]]
    /\ UNCHANGED <<vmsAgent, created, served, freed, port, registered, alive, call, on,
                   outcome, overlapped, fault>>

\* Mutant of StopServer: instead of stopping the server it waits for start to return.
AwaitServer(t) ==
    /\ agent[t] \notin freed
    /\ \A u \in Thread : ~(point[u] = "serve" /\ agent[u] = agent[t])
    /\ Goto(t, "delete", "free")
    /\ UNCHANGED <<vmsAgent, created, served, freed, port, registered, alive, call, on,
                   agent, outcome, overlapped, fault>>

\* ~VmsAgent: _server.stop()
StopServer(t) ==
    /\ agent[t] \notin freed
    /\ Goto(t, "delete", "free")
    /\ port' = IF port = agent[t] THEN NoAgent ELSE port
    /\ UNCHANGED <<vmsAgent, created, served, freed, registered, alive, call, on, agent,
                   outcome, overlapped, fault>>

\* The members are destroyed, the acceptor of an agent that began to listen after
\* the stop() included, and the memory is freed.  m_Jobs ends the process if one of
\* its jobs still runs.
Free(t) ==
    \/ /\ agent[t] \notin freed
       /\ Goto(t, "free", "null")
       /\ freed' = freed \union {agent[t]}
       /\ port' = IF port = agent[t] THEN NoAgent ELSE port
       /\ UNCHANGED <<vmsAgent, created, served, registered, alive, call, on, agent,
                      outcome, overlapped, fault>>
    \/ At(t, "free") /\ agent[t] \in served /\ Dies("terminate")

\* The agent is deleted although another thread has deleted it, or is about to.
DeleteAgain(t) ==
    /\ At(t, "delete") \/ At(t, "free")
    /\ agent[t] \in freed
    /\ Dies("double_delete")

\* Mutant of SetNull: the pointer is kept.
KeepPointer(t) ==
    /\ Closed(t, "null")
    /\ UNCHANGED <<vmsAgent, created, served, freed, port, registered, alive, overlapped, fault>>

\* vmsAgent = nullptr
SetNull(t) ==
    /\ Closed(t, "null")
    /\ vmsAgent' = [vmsAgent EXCEPT ![on[t]] = NoAgent]
    /\ UNCHANGED <<created, served, freed, port, registered, alive, overlapped, fault>>

(***************************************************************************)
(* The rest of StartProcessingUnitServer, and VmsAgent::start.             *)
(***************************************************************************)

\* The file sink cannot open log.txt, or a name is in the registry: Start throws.
LoggersThrow(t) ==
    /\ registered \/ ~LogOpens
    /\ Leave(t, "loggers", "threw")
    /\ UNCHANGED <<vmsAgent, created, served, freed, port, registered, alive, overlapped, fault>>

\* Mutant of Register: names are taken over from an earlier Start.
RegisterAnyway(t) ==
    /\ Goto(t, "loggers", "new")
    /\ registered' = TRUE
    /\ UNCHANGED <<vmsAgent, created, served, freed, port, alive, call, on, agent, outcome,
                   overlapped, fault>>

\* The names "console", "error" and "MainLogger" are registered; whoever gets the
\* first gets them all.
Register(t) ==
    /\ ~registered
    /\ Goto(t, "loggers", "new")
    /\ registered' = TRUE
    /\ UNCHANGED <<vmsAgent, created, served, freed, port, alive, call, on, agent, outcome,
                   overlapped, fault>>

\* vmsAgent = new VmsAgent()
NewAgent(t) ==
    /\ created < MaxAgents
    /\ Goto(t, "new", "start")
    /\ created' = created + 1
    /\ agent' = [agent EXCEPT ![t] = created']
    /\ vmsAgent' = [vmsAgent EXCEPT ![on[t]] = created']
    /\ UNCHANGED <<served, freed, port, registered, alive, call, on, outcome, overlapped, fault>>

\* PortInUse: start returns false, and the agent stays where it is.
PortInUse(t) ==
    /\ agent[t] \notin freed /\ port # NoAgent
    /\ Leave(t, "start", "false")
    /\ UNCHANGED <<vmsAgent, created, served, freed, port, registered, alive, overlapped, fault>>

PortFree(t) ==
    /\ agent[t] \notin freed /\ port = NoAgent
    /\ Goto(t, "start", "bind")
    /\ UNCHANGED <<vmsAgent, created, served, freed, port, registered, alive, call, on, agent,
                   outcome, overlapped, fault>>

\* _server.start() binds the port and runs the handlers until it is stopped.
Serve(t) ==
    /\ agent[t] \notin freed /\ port = NoAgent
    /\ Goto(t, "bind", "serve")
    /\ port' = agent[t] /\ served' = served \union {agent[t]}
    /\ UNCHANGED <<vmsAgent, created, freed, registered, alive, call, on, agent, outcome,
                   overlapped, fault>>

\* _server.start() throws, since the port was taken after the test or for another
\* reason; the exception is caught and start returns true all the same.
BindFails(t) ==
    /\ agent[t] \notin freed
    /\ Leave(t, "bind", "true")
    /\ UNCHANGED <<vmsAgent, created, served, freed, port, registered, alive, overlapped, fault>>

\* _server.start() returns; the members it still uses may be gone.
ServeReturns(t) ==
    /\ port # agent[t]
    /\ Leave(t, "serve", "true")
    /\ UNCHANGED <<vmsAgent, created, served, freed, port, registered, alive, overlapped, fault>>

UseAfterDelete(t) ==
    /\ At(t, "start") \/ At(t, "bind") \/ At(t, "serve")
    /\ agent[t] \in freed
    /\ Dies("use_after_delete")

\* A member goes on after another thread has destroyed its server.
UseDestroyed(t) ==
    /\ fault = "none" /\ point[t] \in MemberUse /\ Destroyed(on[t])
    /\ Dies("use_after_destroy")

\* External: another process, or the system, takes the port, or leaves it.
Elsewhere ==
    /\ fault = "none"
    /\ \/ port = NoAgent /\ port' = Other
       \/ port = Other /\ port' = NoAgent
    /\ UNCHANGED <<vmsAgent, created, served, freed, registered, alive, threadVars, overlapped,
                   fault>>

ThreadStep(t) ==
    \/ NothingToClose(t) \/ StartDelete(t) \/ StopServer(t) \/ Free(t) \/ DeleteAgain(t)
    \/ SetNull(t) \/ LoggersThrow(t) \/ Register(t) \/ NewAgent(t) \/ PortInUse(t)
    \/ PortFree(t) \/ Serve(t) \/ BindFails(t) \/ ServeReturns(t) \/ UseAfterDelete(t)
    \/ UseDestroyed(t)

Next ==
    \/ \E t \in Thread :
          \/ \E s \in Server, member \in {"Start", "Stop", "destructor"} : Call(t, s, member)
          \/ ThreadStep(t)
    \/ Elsewhere

Spec == Init /\ [][Next]_vars

\* A thread inside a member goes on; that anybody calls one is not assumed.
FairSpec == Spec /\ \A t \in Thread : WF_vars(ThreadStep(t))

(***************************************************************************)
(* Properties.                                                             *)
(***************************************************************************)
Point == {"out", "close", "delete", "free", "null", "loggers", "new", "start", "bind", "serve"}

TypeOK ==
    /\ vmsAgent \in [Server -> 0..MaxAgents] /\ created \in 0..MaxAgents
    /\ served \subseteq 0..MaxAgents /\ freed \subseteq 0..MaxAgents
    /\ port \in 0..Other
    /\ registered \in BOOLEAN /\ alive \subseteq Server
    /\ point \in [Thread -> Point]
    /\ call \in [Thread -> {"none", "Start", "Stop", "destructor"}]
    /\ on \in [Thread -> Server] /\ agent \in [Thread -> 0..MaxAgents]
    /\ outcome \in [Thread -> {"none", "returned", "threw", "true", "false"}]
    /\ overlapped \in BOOLEAN
    /\ fault \in {"none", "terminate", "double_delete", "use_after_delete", "use_after_destroy"}

\* However many threads start however many servers, the process never has a second
\* agent: no start overwrites the pointer to an agent that is still there.
OneAgent == created <= 1

\* An agent that listens can be stopped: a server whose members can be called points
\* to it, or the destructor of the server that does has yet to read the pointer, or a
\* thread has begun to delete it.  (A Start that goes on after its server was destroyed
\* is a fault, and nothing is said of what it may leave behind.)
ListenerReachable ==
    port \in Agent =>
        \/ \E s \in alive : vmsAgent[s] = port
        \/ \E t \in Thread :
              point[t] = "close" /\ call[t] = "destructor" /\ vmsAgent[on[t]] = port
        \/ \E t \in Thread : point[t] \in {"delete", "free"} /\ agent[t] = port

\* Calls that do not overlap are safe, in any order, those after a Start that threw,
\* returned false, or returned true without having served included.
SequentialCallsAreSafe == fault # "none" => overlapped

\* A Start that serves returns, or the process dies, when its agent is deleted.
StopEndsStart ==
    \A t \in Thread, a \in Agent :
        /\ point[t] = "serve" /\ agent[t] = a
        /\ \E u \in Thread : point[u] = "delete" /\ agent[u] = a
        ~> point[t] # "serve" \/ fault # "none"

\* A server can be started again: what Start would close a previous session for.
StartNeverThrows == \A t \in Thread : outcome[t] # "threw"
=============================================================================
