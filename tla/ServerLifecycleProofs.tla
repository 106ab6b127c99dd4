------------------------ MODULE ServerLifecycleProofs ------------------------
(***************************************************************************)
(* Proofs about ServerLifecycle, for any number of threads and servers and *)
(* any length of the history of calls.                                     *)
(***************************************************************************)
EXTENDS ServerLifecycle, TLAPS

\* Where the numbers of agents, no agent and the other process lie.
LEMMA Constants ==
  /\ MaxAgents \in Nat /\ NoAgent \in 0..MaxAgents /\ NoAgent \in 0..Other
  /\ Other \in 0..Other /\ 0..MaxAgents \subseteq 0..Other /\ Agent \subseteq 0..MaxAgents
  /\ NoAgent \notin Agent /\ Other \notin Agent /\ \A a \in 0..MaxAgents : a # NoAgent => a \in Agent
BY LifecycleAssumption DEF NoAgent, Other, Agent

\* The threads stay in the member they called.
LEMMA PointTypes ==
  ASSUME TypeOK, NEW t \in Thread, NEW from, NEW to \in Point, Goto(t, from, to)
  PROVE  point' \in [Thread -> Point]
BY DEF TypeOK, Goto

\* A call that ends keeps the types of its thread.
LEMMA LeaveTypes ==
  ASSUME TypeOK, NEW t \in Thread, NEW from,
         NEW result \in {"returned", "threw", "true", "false"}, Leave(t, from, result)
  PROVE  /\ point' \in [Thread -> Point] /\ agent' \in [Thread -> 0..MaxAgents]
         /\ outcome' \in [Thread -> {"none", "returned", "threw", "true", "false"}]
         /\ call' = call /\ on' = on
BY Constants DEF TypeOK, Leave, Goto, Point

\* So does the close that is common to the three members.
LEMMA ClosedTypes ==
  ASSUME TypeOK, NEW t \in Thread, NEW from, Closed(t, from)
  PROVE  /\ point' \in [Thread -> Point] /\ agent' \in [Thread -> 0..MaxAgents]
         /\ outcome' \in [Thread -> {"none", "returned", "threw", "true", "false"}]
         /\ call' = call /\ on' = on
BY LeaveTypes, Constants DEF TypeOK, Closed, Goto, Point

\* Variables keep their types: an agent is a number up to MaxAgents, and whoever
\* listens is one of them or another process.
THEOREM LifecycleTypes == Spec => []TypeOK
<1>1. Init => TypeOK
  <2> SUFFICES ASSUME Init PROVE TypeOK
    OBVIOUS
  <2>1. vmsAgent \in [Server -> 0..MaxAgents] /\ created \in 0..MaxAgents /\ port \in 0..Other
    BY Constants, LifecycleAssumption DEF Init
  <2>2. point \in [Thread -> Point] /\ agent \in [Thread -> 0..MaxAgents]
    BY Constants DEF Init, Point
  <2> QED
    BY <2>1, <2>2 DEF Init, TypeOK
<1>2. TypeOK /\ [Next]_vars => TypeOK'
  <2> SUFFICES ASSUME TypeOK, [Next]_vars PROVE TypeOK'
    OBVIOUS
  <2> USE DEF TypeOK
  <2>1. ASSUME NEW t \in Thread, NEW s \in Server, NEW member \in {"Start", "Stop", "destructor"},
               Call(t, s, member)
        PROVE  TypeOK'
    BY <2>1 DEF Call, Goto, Point
  <2>2. ASSUME NEW t \in Thread, NothingToClose(t) PROVE TypeOK'
    BY <2>2, ClosedTypes DEF NothingToClose
  <2>3. ASSUME NEW t \in Thread, StartDelete(t) PROVE TypeOK'
    BY <2>3 DEF StartDelete, Goto, Point
  <2>4. ASSUME NEW t \in Thread, StopServer(t) PROVE TypeOK'
    BY <2>4, Constants DEF StopServer, Goto, Point
  <2>5. ASSUME NEW t \in Thread, Free(t) PROVE TypeOK'
    <3>1. CASE At(t, "free") /\ agent[t] \in served /\ Dies("terminate")
      BY <3>1 DEF Dies, threadVars
    <3> QED
      BY <2>5, <3>1, Constants DEF Free, Goto, Point
  <2>6. ASSUME NEW t \in Thread, DeleteAgain(t) \/ UseAfterDelete(t) \/ UseDestroyed(t)
        PROVE  TypeOK'
    BY <2>6 DEF DeleteAgain, UseAfterDelete, UseDestroyed, Dies, threadVars
  <2>7. ASSUME NEW t \in Thread, SetNull(t) PROVE TypeOK'
    BY <2>7, ClosedTypes, Constants DEF SetNull
  <2>8. ASSUME NEW t \in Thread, LoggersThrow(t) PROVE TypeOK'
    BY <2>8, LeaveTypes DEF LoggersThrow
  <2>9. ASSUME NEW t \in Thread, Register(t) \/ PortFree(t) PROVE TypeOK'
    BY <2>9 DEF Register, PortFree, Goto, Point
  <2>10. ASSUME NEW t \in Thread, NewAgent(t) PROVE TypeOK'
    <3>1. created' \in 0..MaxAgents
      BY <2>10, Constants DEF NewAgent
    <3> QED
      BY <2>10, <3>1 DEF NewAgent, Goto, Point
  <2>11. ASSUME NEW t \in Thread, PortInUse(t) \/ BindFails(t) \/ ServeReturns(t) PROVE TypeOK'
    BY <2>11, LeaveTypes DEF PortInUse, BindFails, ServeReturns
  <2>12. ASSUME NEW t \in Thread, Serve(t) PROVE TypeOK'
    BY <2>12, Constants DEF Serve, Goto, Point
  <2>13. CASE Elsewhere
    BY <2>13, Constants DEF Elsewhere, threadVars
  <2>14. CASE UNCHANGED vars
    BY <2>14 DEF vars, threadVars
  <2> QED
    BY <2>1, <2>2, <2>3, <2>4, <2>5, <2>6, <2>7, <2>8, <2>9, <2>10, <2>11, <2>12, <2>13, <2>14
       DEF Next, ThreadStep
<1> QED
  BY <1>1, <1>2, PTL DEF Spec

(***************************************************************************)
(* One agent: the registry is a lock that is taken once and never given    *)
(* back, and only who took it creates an agent.                            *)
(***************************************************************************)
Builder ==
    /\ OneAgent
    /\ ~registered => created = 0
    /\ \A t \in Thread : point[t] = "new" => registered /\ created = 0
    /\ \A t, u \in Thread : point[t] = "new" /\ point[u] = "new" => t = u

\* What a thread does to itself and not to the others.
LEMMA Goes ==
  ASSUME TypeOK, NEW t \in Thread, NEW from, NEW to, Goto(t, from, to)
  PROVE  /\ fault = "none" /\ point[t] = from /\ point'[t] = to
         /\ \A u \in Thread : u # t => point'[u] = point[u]
BY DEF TypeOK, Goto, At

\* A call that ends moves its own thread alone.
LEMMA Leaves ==
  ASSUME TypeOK, NEW t \in Thread, NEW from, NEW result, Leave(t, from, result)
  PROVE  /\ fault = "none" /\ point[t] = from /\ point'[t] = "out"
         /\ call' = call /\ on' = on
         /\ \A u \in Thread : u # t => point'[u] = point[u] /\ agent'[u] = agent[u]
BY DEF TypeOK, Leave, Goto, At

\* So does the end of the close.
LEMMA Closes ==
  ASSUME TypeOK, NEW t \in Thread, NEW from, Closed(t, from)
  PROVE  /\ fault = "none" /\ point[t] = from /\ call' = call /\ on' = on
         /\ point'[t] = "out" \/ (point'[t] = "loggers" /\ call[t] = "Start")
         /\ \A u \in Thread : u # t => point'[u] = point[u] /\ agent'[u] = agent[u]
BY DEF TypeOK, Closed, Leave, Goto, At

\* The registry lets one thread through, once, so that one agent is created.
LEMMA BuilderStep ==
  ASSUME TypeOK, Builder, [Next]_vars PROVE Builder'
<1> USE DEF Builder, OneAgent
<1>1. CASE UNCHANGED <<created, registered>> /\ \A u \in Thread : point'[u] = "new" => point[u] = "new"
  BY <1>1
<1>2. ASSUME NEW t \in Thread, NEW s \in Server, NEW member \in {"Start", "Stop", "destructor"},
             Call(t, s, member)
      PROVE  Builder'
  BY <1>1, <1>2, Goes DEF Call
<1>3. ASSUME NEW t \in Thread,
             \/ StartDelete(t) \/ StopServer(t) \/ PortFree(t) \/ Serve(t)
             \/ Free(t) /\ Goto(t, "free", "null")
      PROVE  Builder'
  BY <1>1, <1>3, Goes DEF StartDelete, StopServer, Free, PortFree, Serve, Dies
<1>4. ASSUME NEW t \in Thread, NothingToClose(t) \/ SetNull(t) PROVE Builder'
  BY <1>1, <1>4, Closes DEF NothingToClose, SetNull
<1>5. ASSUME NEW t \in Thread,
             LoggersThrow(t) \/ PortInUse(t) \/ BindFails(t) \/ ServeReturns(t)
      PROVE  Builder'
  BY <1>1, <1>5, Leaves DEF LoggersThrow, PortInUse, BindFails, ServeReturns
<1>6. ASSUME NEW how, Dies(how) PROVE Builder'
  BY <1>1, <1>6 DEF Dies, threadVars
<1>7. ASSUME NEW t \in Thread, Register(t) PROVE Builder'
  BY <1>7, Goes DEF Register
<1>8. ASSUME NEW t \in Thread, NewAgent(t) PROVE Builder'
  <2>1. created = 0 /\ registered /\ created' = 1 /\ registered' /\ point'[t] = "start"
    BY <1>8, Goes DEF NewAgent
  <2>2. \A u \in Thread : point'[u] # "new"
    BY <1>8, <2>1, Goes DEF NewAgent
  <2> QED
    BY <2>1, <2>2
<1>9. CASE Elsewhere \/ UNCHANGED vars
  BY <1>1, <1>9 DEF Elsewhere, vars, threadVars
<1> QED
  BY <1>2, <1>3, <1>4, <1>5, <1>6, <1>7, <1>8, <1>9
     DEF Next, ThreadStep, Free, DeleteAgain, UseAfterDelete, UseDestroyed

\* The process never creates a second agent, whoever calls Start how often.
THEOREM LifecycleOneAgent == Spec => []OneAgent
<1>1. Init => Builder
  BY DEF Init, Builder, OneAgent
<1>2. Builder => OneAgent
  BY DEF Builder
<1> QED
  BY <1>1, <1>2, BuilderStep, LifecycleTypes, PTL DEF Spec

(***************************************************************************)
(* An agent that was created and not freed can be found: its server can be *)
(* called, or is in the destructor that will delete it, or a delete has    *)
(* begun.                                                                  *)
(***************************************************************************)
Deleting == {"delete", "free"}
Running == {"start", "bind", "serve"}
Building == {"loggers", "new"}

Findable(a) ==
    \/ \E s \in alive : vmsAgent[s] = a
    \/ \E t \in Thread : point[t] = "close" /\ call[t] = "destructor" /\ vmsAgent[on[t]] = a
    \/ \E t \in Thread : point[t] \in Deleting /\ agent[t] = a

Reach ==
    /\ \A t \in Thread : point[t] \in Building \union Running => call[t] # "destructor"
    /\ \A t \in Thread : point[t] \in Deleting \union Running \union {"null"} =>
           agent[t] \in 1..created
    /\ \A s \in Server : vmsAgent[s] # NoAgent => vmsAgent[s] \in 1..created
    /\ \A t \in Thread : point[t] = "null" => agent[t] \in freed
    /\ port \in Agent => port \in 1..created /\ port \notin freed
    /\ \A a \in 1..created : a \notin freed => Findable(a)

\* An agent that is there stays within reach: the pointer is cleared when it is freed.
LEMMA ReachStep ==
  ASSUME TypeOK, Builder, Reach, [Next]_vars PROVE Reach'
<1>0. created \in {0, 1} /\ 1..0 = {} /\ 1..1 = {1}
  BY DEF TypeOK, Builder, OneAgent
<1>1. ASSUME NEW t \in Thread, NEW s \in Server, NEW member \in {"Start", "Stop", "destructor"},
             Call(t, s, member)
      PROVE  Reach'
  <2>1. /\ point[t] = "out" /\ point'[t] = "close" /\ call'[t] = member /\ on'[t] = s
        /\ \A u \in Thread : u # t =>
               point'[u] = point[u] /\ call'[u] = call[u] /\ on'[u] = on[u]
        /\ UNCHANGED <<vmsAgent, created, freed, port, agent>>
    BY <1>1, Goes DEF Call, TypeOK
  <2>2. alive' = alive \/ (member = "destructor" /\ alive' = alive \ {s})
    BY <1>1 DEF Call
  <2>3. \A a : Findable(a) => Findable(a)'
    BY <2>1, <2>2 DEF Findable, Deleting
  <2> QED
    BY <2>1, <2>3 DEF Reach, Deleting, Running, Building
<1>2. ASSUME NEW t \in Thread, StartDelete(t) PROVE Reach'
  <2>1. /\ point[t] = "close" /\ point'[t] = "delete" /\ agent'[t] = vmsAgent[on[t]]
        /\ agent'[t] # NoAgent /\ on[t] \in Server
        /\ \A u \in Thread : u # t => point'[u] = point[u] /\ agent'[u] = agent[u]
        /\ UNCHANGED <<vmsAgent, created, freed, port, alive, call, on>>
    BY <1>2, Goes DEF StartDelete, TypeOK
  <2>2. \A a : Findable(a) => Findable(a)'
    BY <2>1 DEF Findable, Deleting
  <2> QED
    BY <2>1, <2>2 DEF Reach, Deleting, Running, Building
<1>3. ASSUME NEW t \in Thread, StopServer(t) PROVE Reach'
  <2>1. /\ point[t] = "delete" /\ point'[t] = "free"
        /\ \A u \in Thread : u # t => point'[u] = point[u]
        /\ UNCHANGED <<vmsAgent, created, freed, agent, alive, call, on>>
        /\ port' \in {port, NoAgent}
    BY <1>3, Goes DEF StopServer
  <2>2. \A a : Findable(a) => Findable(a)'
    BY <2>1 DEF Findable, Deleting
  <2> QED
    BY <2>1, <2>2, Constants DEF Reach, Deleting, Running, Building
<1>4. ASSUME NEW t \in Thread, Free(t), Goto(t, "free", "null") PROVE Reach'
  <2>1. /\ point[t] = "free" /\ point'[t] = "null"
        /\ \A u \in Thread : u # t => point'[u] = point[u]
        /\ UNCHANGED <<vmsAgent, created, agent, alive, call, on>>
        /\ freed' = freed \union {agent[t]}
        /\ port' = IF port = agent[t] THEN NoAgent ELSE port
    BY <1>4, Goes DEF Free, Dies, threadVars
  <2>2. \A a : a # agent[t] /\ Findable(a) => Findable(a)'
    BY <2>1 DEF Findable, Deleting
  <2> QED
    BY <2>1, <2>2, Constants DEF Reach, Deleting, Running, Building
<1>5. ASSUME NEW t \in Thread, NothingToClose(t) PROVE Reach'
  <2>1. /\ point[t] = "close" /\ vmsAgent[on[t]] = NoAgent
        /\ point'[t] = "out" \/ (point'[t] = "loggers" /\ call[t] = "Start")
        /\ \A u \in Thread : u # t => point'[u] = point[u] /\ agent'[u] = agent[u]
        /\ UNCHANGED <<vmsAgent, created, freed, port, alive, call, on>>
    BY <1>5, Closes DEF NothingToClose
  <2>2. \A a : a # NoAgent /\ Findable(a) => Findable(a)'
    BY <2>1 DEF Findable, Deleting
  <2> QED
    BY <1>0, <2>1, <2>2 DEF Reach, Deleting, Running, Building, NoAgent
<1>6. ASSUME NEW t \in Thread, SetNull(t) PROVE Reach'
  <2>1. /\ point[t] = "null"
        /\ point'[t] = "out" \/ (point'[t] = "loggers" /\ call[t] = "Start")
        /\ \A u \in Thread : u # t => point'[u] = point[u] /\ agent'[u] = agent[u]
        /\ UNCHANGED <<created, freed, port, call>>
        /\ vmsAgent' = [vmsAgent EXCEPT ![on[t]] = NoAgent]
    BY <1>6, Closes DEF SetNull
  <2>2. created = 1 /\ 1 \in freed
    BY <1>0, <2>1 DEF Reach
  <2>3. \A a \in 1..created : a \in freed
    BY <1>0, <2>2
  <2>4. \A s \in Server : vmsAgent'[s] \in {vmsAgent[s], NoAgent}
    BY <2>1 DEF TypeOK
  <2> QED
    BY <2>1, <2>3, <2>4 DEF Reach, Deleting, Running, Building
<1>7. ASSUME NEW t \in Thread,
             LoggersThrow(t) \/ PortInUse(t) \/ BindFails(t) \/ ServeReturns(t)
      PROVE  Reach'
  <2>1. /\ point[t] \in Running \union {"loggers"} /\ point'[t] = "out"
        /\ \A u \in Thread : u # t => point'[u] = point[u] /\ agent'[u] = agent[u]
        /\ UNCHANGED <<vmsAgent, created, freed, port, alive, call, on>>
    BY <1>7, Leaves DEF LoggersThrow, PortInUse, BindFails, ServeReturns, Running
  <2>2. \A a : Findable(a) => Findable(a)'
    BY <2>1 DEF Findable, Deleting, Running
  <2> QED
    BY <2>1, <2>2 DEF Reach, Deleting, Running, Building
<1>8. ASSUME NEW t \in Thread, Register(t) \/ PortFree(t) \/ Serve(t) PROVE Reach'
  <2>1. /\ \/ point[t] = "loggers" /\ point'[t] = "new"
           \/ point[t] \in Running /\ point'[t] \in Running
        /\ \A u \in Thread : u # t => point'[u] = point[u]
        /\ UNCHANGED <<vmsAgent, created, freed, agent, alive, call, on>>
        /\ call[t] # "destructor"
        /\ \/ port' = port
           \/ point[t] \in Running /\ port' = agent[t] /\ agent[t] \notin freed
    <3>1. CASE Register(t)
      <4>1. /\ Goto(t, "loggers", "new")
            /\ UNCHANGED <<vmsAgent, created, freed, port, agent, alive, call, on>>
        BY <3>1 DEF Register
      <4> QED
        BY <4>1, Goes DEF Reach, Building
    <3>2. CASE PortFree(t)
      <4>1. /\ Goto(t, "start", "bind")
            /\ UNCHANGED <<vmsAgent, created, freed, port, agent, alive, call, on>>
        BY <3>2 DEF PortFree
      <4> QED
        BY <4>1, Goes DEF Reach, Running
    <3>3. CASE Serve(t)
      <4>1. /\ Goto(t, "bind", "serve")
            /\ UNCHANGED <<vmsAgent, created, freed, agent, alive, call, on>>
            /\ port' = agent[t] /\ agent[t] \notin freed
        BY <3>3 DEF Serve
      <4> QED
        BY <4>1, Goes DEF Reach, Running
    <3> QED
      BY <1>8, <3>1, <3>2, <3>3
  <2>2. \A a : Findable(a) => Findable(a)'
    BY <2>1 DEF Findable, Deleting, Running
  <2> QED
    BY <2>1, <2>2 DEF Reach, Deleting, Running, Building
<1>9. ASSUME NEW t \in Thread, NewAgent(t) PROVE Reach'
  <2>1. /\ point[t] = "new" /\ point'[t] = "start" /\ created = 0 /\ created' = 1
        /\ agent'[t] = 1 /\ \A u \in Thread : u # t => point'[u] = point[u] /\ agent'[u] = agent[u]
        /\ vmsAgent' = [vmsAgent EXCEPT ![on[t]] = 1] /\ on[t] \in Server
        /\ UNCHANGED <<freed, port, alive, call, on>>
    <3>1. created = 0 /\ point[t] = "new" /\ point'[t] = "start"
      BY <1>9, Goes DEF NewAgent, Builder
    <3>2. created' = 1
      BY <1>9, <3>1 DEF NewAgent
    <3>3. \A u \in Thread : u # t => point'[u] = point[u]
      BY <1>9, Goes DEF NewAgent
    <3>4. agent' = [agent EXCEPT ![t] = 1] /\ vmsAgent' = [vmsAgent EXCEPT ![on[t]] = 1]
      BY <1>9, <3>2 DEF NewAgent
    <3>5. on[t] \in Server /\ agent'[t] = 1 /\ \A u \in Thread : u # t => agent'[u] = agent[u]
      BY <3>4 DEF TypeOK
    <3> QED
      BY <1>9, <3>1, <3>2, <3>3, <3>4, <3>5 DEF NewAgent
  <2>2. \A s \in Server : vmsAgent'[s] \in {vmsAgent[s], 1}
    BY <2>1 DEF TypeOK
  <2>3. Findable(1)'
    <3>1. ~Destroyed(on[t]) /\ vmsAgent'[on[t]] = 1
      BY <1>9, <2>1 DEF NewAgent, Goto, At, MemberUse, TypeOK
    <3>2. CASE on[t] \in alive
      BY <2>1, <3>1, <3>2 DEF Findable
    <3>3. CASE on[t] \notin alive
      <4>1. PICK u \in Thread : point[u] # "out" /\ call[u] = "destructor" /\ on[u] = on[t]
        BY <3>1, <3>3 DEF Destroyed
      <4>2. point[u] \notin Deleting \union Running \union {"null"} \union Building
        BY <1>0, <2>1, <4>1 DEF Reach
      <4>3. point[u] = "close" /\ u # t
        BY <2>1, <4>1, <4>2 DEF TypeOK, Point, Deleting, Running, Building
      <4> QED
        BY <2>1, <3>1, <4>1, <4>3 DEF Findable
    <3> QED
      BY <3>2, <3>3
  <2>4. \A u \in Thread : u # t => point[u] \notin Deleting \union Running \union {"null"}
    BY <1>0, <2>1 DEF Reach
  <2>5. \A s \in Server : vmsAgent[s] = NoAgent
    BY <1>0, <2>1 DEF Reach
  <2> QED
    BY <1>0, <2>1, <2>2, <2>3, <2>4, <2>5 DEF Reach, Deleting, Running, Building
<1>10. CASE Elsewhere
  <2>1. /\ UNCHANGED <<vmsAgent, created, freed, point, agent, alive, call, on>>
        /\ port' \in {NoAgent, Other}
    BY <1>10 DEF Elsewhere, threadVars
  <2> QED
    BY <2>1, Constants DEF Reach, Findable
<1>11. CASE UNCHANGED <<vmsAgent, created, freed, port, point, agent, alive, call, on>>
  BY <1>11 DEF Reach, Findable
<1>12. CASE UNCHANGED vars \/ \E how : Dies(how)
  BY <1>11, <1>12 DEF Dies, vars, threadVars
<1> QED
  BY <1>1, <1>2, <1>3, <1>4, <1>5, <1>6, <1>7, <1>8, <1>9, <1>10, <1>12
     DEF Next, ThreadStep, Free, DeleteAgain, UseAfterDelete, UseDestroyed

\* Whoever listens can be stopped, through a server that is alive or by a destructor or
\* delete under way: there is one agent, so no pointer to a listening one is overwritten,
\* a pointer is cleared only after its agent was freed, and a Start that creates the
\* agent of a server in its destructor does so before that has read the pointer.
THEOREM LifecycleListenerReachable == Spec => []ListenerReachable
<1>1. Init => Builder /\ Reach
  BY Constants DEF Init, Builder, OneAgent, Reach, Deleting, Running, Building, NoAgent
<1>2. Reach => ListenerReachable
  BY DEF Reach, Findable, Deleting, ListenerReachable
<1> QED
  BY <1>1, <1>2, BuilderStep, ReachStep, LifecycleTypes, PTL DEF Spec

(***************************************************************************)
(* Calls that do not overlap: one thread is inside, so what it finds is    *)
(* what the calls before it left, a pointer to an agent that is there.     *)
(***************************************************************************)
InTurn ==
    /\ fault = "none"
    /\ \A t, u \in Thread : point[t] # "out" /\ point[u] # "out" => t = u
    /\ freed \subseteq 1..created
    /\ \A s, r \in Server : vmsAgent[s] # NoAgent /\ vmsAgent[r] # NoAgent => s = r
    /\ \A s \in Server : vmsAgent[s] \in freed =>
           \E t \in Thread : point[t] = "null" /\ on[t] = s
    /\ \A t \in Thread : point[t] \in Deleting \union Running => agent[t] \notin freed
    /\ \A t \in Thread : point[t] \in Deleting => vmsAgent[on[t]] = agent[t]
    /\ \A a \in served : port = a /\ \E t \in Thread : point[t] = "serve" /\ agent[t] = a

\* The server whose member a thread is in was not destroyed by another thread.
Home == \A t \in Thread : point[t] # "out" => on[t] \in alive \/ call[t] = "destructor"

Sequential == overlapped \/ (InTurn /\ Home)

\* That calls have overlapped is not forgotten.
LEMMA Overlapped ==
  ASSUME overlapped, [Next]_vars PROVE overlapped'
BY DEF Next, ThreadStep, Call, NothingToClose, StartDelete, StopServer, Free, DeleteAgain, SetNull,
       LoggersThrow, Register, NewAgent, PortInUse, PortFree, Serve, BindFails, ServeReturns,
       UseAfterDelete, UseDestroyed, Elsewhere, Dies, vars

\* While calls come one after the other, no server is destroyed under a thread.
LEMMA HomeStep ==
  ASSUME TypeOK, Home, ~overlapped', [Next]_vars PROVE Home'
<1>1. CASE /\ UNCHANGED <<alive, call, on>>
           /\ \A t \in Thread : point'[t] # "out" => point[t] # "out"
  BY <1>1 DEF Home
<1>2. ASSUME NEW t \in Thread, NEW s \in Server, NEW member \in {"Start", "Stop", "destructor"},
             Call(t, s, member)
      PROVE  Home'
  <2>1. \A u \in Thread : u # t => point'[u] = "out"
    BY <1>2, Goes DEF Call
  <2>2. on'[t] = s /\ call'[t] = member /\ (member = "destructor" \/ s \in alive')
    BY <1>2 DEF Call, TypeOK
  <2> QED
    BY <2>1, <2>2 DEF Home
<1>3. ASSUME NEW t \in Thread,
             \/ StartDelete(t) \/ StopServer(t) \/ Register(t) \/ NewAgent(t)
             \/ PortFree(t) \/ Serve(t)
      PROVE  Home'
  <2>1. PICK from, to : Goto(t, from, to) /\ from # "out"
    BY <1>3 DEF StartDelete, StopServer, Register, NewAgent, PortFree, Serve
  <2>2. UNCHANGED <<alive, call, on>>
    BY <1>3 DEF StartDelete, StopServer, Register, NewAgent, PortFree, Serve
  <2> QED
    BY <1>1, <2>1, <2>2, Goes
<1>4. ASSUME NEW t \in Thread, NothingToClose(t) \/ SetNull(t) PROVE Home'
  BY <1>1, <1>4, Closes DEF NothingToClose, SetNull
<1>5. ASSUME NEW t \in Thread,
             LoggersThrow(t) \/ PortInUse(t) \/ BindFails(t) \/ ServeReturns(t)
      PROVE  Home'
  BY <1>1, <1>5, Leaves DEF LoggersThrow, PortInUse, BindFails, ServeReturns
<1>6. ASSUME NEW how, Dies(how) PROVE Home'
  BY <1>1, <1>6 DEF Dies, threadVars
<1>7. CASE Elsewhere \/ UNCHANGED vars
  BY <1>1, <1>7 DEF Elsewhere, vars, threadVars
<1>8. ASSUME NEW t \in Thread, Free(t) PROVE Home'
  <2>1. CASE Goto(t, "free", "null") /\ UNCHANGED <<alive, call, on>>
    BY <1>1, <2>1, Goes
  <2> QED
    BY <1>6, <1>8, <2>1 DEF Free
<1>9. ASSUME NEW t \in Thread, DeleteAgain(t) \/ UseAfterDelete(t) \/ UseDestroyed(t) PROVE Home'
  BY <1>6, <1>9 DEF DeleteAgain, UseAfterDelete, UseDestroyed
<1> QED
  BY <1>2, <1>3, <1>4, <1>5, <1>7, <1>8, <1>9 DEF Next, ThreadStep

\* A step of the only thread inside that keeps the agents, and does not enter a
\* control point at which it would need more.
LEMMA InTurnMove ==
  ASSUME TypeOK, InTurn, NEW t \in Thread, point[t] # "out",
         \A u \in Thread : u # t => point'[u] = point[u] /\ agent'[u] = agent[u],
         point'[t] \in {"out", "loggers", "new", "start", "bind"},
         point'[t] \in {"start", "bind"} => agent'[t] \notin freed,
         point[t] # "null", served = {},
         UNCHANGED <<vmsAgent, created, served, freed, on, fault>>
  PROVE  InTurn'
<1>1. \A u \in Thread : u # t => point'[u] = "out"
  BY DEF InTurn
<1>2. \A s \in Server : vmsAgent[s] \notin freed
  BY <1>1 DEF InTurn
<1> QED
  BY <1>1, <1>2 DEF InTurn, Deleting, Running

\* While calls come one after the other, each step of the thread inside keeps the order.
LEMMA InTurnStep ==
  ASSUME TypeOK, Builder, Reach, InTurn, Home, ~overlapped', [Next]_vars PROVE InTurn'
<1>0. /\ \A t \in Thread : point[t] # "out" => \A u \in Thread : u # t => point[u] = "out"
      /\ \A t \in Thread : point[t] \notin {"out", "serve"} => served = {}
      /\ \A s \in Server : vmsAgent[s] \notin freed \/ \E t \in Thread : point[t] = "null"
  BY DEF InTurn
<1>1. ASSUME NEW t \in Thread, NEW s \in Server, NEW member \in {"Start", "Stop", "destructor"},
             Call(t, s, member)
      PROVE  InTurn'
  <2>1. /\ \A u \in Thread : point[u] = "out"
        /\ point'[t] = "close" /\ \A u \in Thread : u # t => point'[u] = "out"
        /\ UNCHANGED <<vmsAgent, created, served, freed, port, agent, fault>>
    BY <1>1, Goes DEF Call
  <2> QED
    BY <1>0, <2>1 DEF InTurn, Deleting, Running
<1>2. ASSUME NEW t \in Thread, StartDelete(t) PROVE InTurn'
  <2>1. /\ point[t] = "close" /\ point'[t] = "delete"
        /\ \A u \in Thread : u # t => point'[u] = point[u] /\ agent'[u] = agent[u]
        /\ agent'[t] = vmsAgent[on[t]] /\ on[t] \in Server
        /\ UNCHANGED <<vmsAgent, created, served, freed, port, on, fault>>
    BY <1>2, Goes DEF StartDelete, TypeOK
  <2>2. /\ served = {} /\ \A u \in Thread : u # t => point'[u] = "out"
        /\ \A s \in Server : vmsAgent[s] \notin freed
    BY <1>0, <2>1
  <2> QED
    BY <2>1, <2>2 DEF InTurn, Deleting, Running
<1>3. ASSUME NEW t \in Thread, StopServer(t) PROVE InTurn'
  <2>1. /\ point[t] = "delete" /\ point'[t] = "free"
        /\ \A u \in Thread : u # t => point'[u] = point[u]
        /\ UNCHANGED <<vmsAgent, created, served, freed, agent, on, fault>>
    BY <1>3, Goes DEF StopServer
  <2>2. served = {} /\ \A u \in Thread : u # t => point'[u] = "out"
    BY <1>0, <2>1
  <2> QED
    BY <2>1, <2>2 DEF InTurn, Deleting, Running
<1>4. ASSUME NEW t \in Thread, Free(t) PROVE InTurn'
  <2>1. point[t] = "free" /\ served = {} /\ agent[t] \in 1..created /\ on[t] \in Server
    BY <1>0, <1>4 DEF Free, Goto, At, Reach, Deleting, TypeOK
  <2>2. /\ Goto(t, "free", "null") /\ freed' = freed \union {agent[t]}
        /\ UNCHANGED <<vmsAgent, created, served, agent, on, fault>>
    BY <1>4, <2>1 DEF Free
  <2>3. /\ point'[t] = "null" /\ \A u \in Thread : u # t => point'[u] = "out"
        /\ vmsAgent[on[t]] = agent[t]
    BY <1>0, <2>1, <2>2, Goes DEF InTurn, Deleting
  <2>4. \A s \in Server : vmsAgent[s] \in freed' => s = on[t]
    <3>1. agent[t] # NoAgent /\ \A s \in Server : vmsAgent[s] \notin freed
      BY <1>0, <2>1 DEF NoAgent
    <3> QED
      BY <2>1, <2>2, <2>3, <3>1 DEF InTurn
  <2> QED
    BY <2>1, <2>2, <2>3, <2>4 DEF InTurn, Deleting, Running
<1>5. ASSUME NEW t \in Thread, DeleteAgain(t) \/ UseAfterDelete(t) \/ UseDestroyed(t)
      PROVE  FALSE
  <2>1. CASE UseDestroyed(t)
    BY <2>1 DEF UseDestroyed, MemberUse, Destroyed, Home
  <2> QED
    BY <1>5, <2>1 DEF DeleteAgain, UseAfterDelete, At, InTurn, Deleting, Running
<1>6. ASSUME NEW t \in Thread, SetNull(t) PROVE InTurn'
  <2>1. /\ point[t] = "null" /\ point'[t] \in {"out", "loggers"}
        /\ \A u \in Thread : u # t => point'[u] = point[u]
        /\ UNCHANGED <<created, served, freed, on, fault>>
        /\ vmsAgent' = [vmsAgent EXCEPT ![on[t]] = NoAgent] /\ on[t] \in Server
    BY <1>6, Closes DEF SetNull, TypeOK
  <2>2. served = {} /\ \A u \in Thread : u # t => point'[u] = "out" /\ point[u] = "out"
    BY <1>0, <2>1
  <2>3. /\ vmsAgent'[on[t]] = NoAgent /\ NoAgent \notin freed
        /\ \A s \in Server : s # on[t] => vmsAgent'[s] = vmsAgent[s] /\ vmsAgent[s] \notin freed
    BY <2>1, <2>2 DEF InTurn, TypeOK, NoAgent
  <2> QED
    BY <2>1, <2>2, <2>3 DEF InTurn, Deleting, Running
<1>7. ASSUME NEW t \in Thread, NothingToClose(t) PROVE InTurn'
  <2>1. /\ point[t] = "close" /\ point'[t] \in {"out", "loggers"} /\ served = {}
        /\ \A u \in Thread : u # t => point'[u] = point[u] /\ agent'[u] = agent[u]
        /\ UNCHANGED <<vmsAgent, created, served, freed, on, fault>>
    BY <1>0, <1>7, Closes DEF NothingToClose
  <2> QED
    BY <2>1, InTurnMove
<1>8. ASSUME NEW t \in Thread, LoggersThrow(t) \/ PortInUse(t) \/ BindFails(t) PROVE InTurn'
  <2>1. /\ point[t] \in {"loggers", "start", "bind"} /\ point'[t] = "out"
        /\ \A u \in Thread : u # t => point'[u] = point[u] /\ agent'[u] = agent[u]
        /\ UNCHANGED <<vmsAgent, created, served, freed, on, fault>>
    BY <1>8, Leaves DEF LoggersThrow, PortInUse, BindFails
  <2>2. served = {}
    BY <1>0, <2>1
  <2> QED
    BY <2>1, <2>2, InTurnMove
<1>9. ASSUME NEW t \in Thread, Register(t) \/ PortFree(t) PROVE InTurn'
  <2>1. /\ point[t] \in {"loggers", "start"}
        /\ point'[t] = "new" \/ (point'[t] = "bind" /\ agent[t] \notin freed)
        /\ \A u \in Thread : u # t => point'[u] = point[u]
        /\ UNCHANGED <<vmsAgent, created, served, freed, agent, on, fault>>
    <3>1. CASE Register(t)
      <4>1. /\ Goto(t, "loggers", "new")
            /\ UNCHANGED <<vmsAgent, created, served, freed, agent, on, fault>>
        BY <3>1 DEF Register
      <4>2. /\ point[t] = "loggers" /\ point'[t] = "new"
            /\ \A u \in Thread : u # t => point'[u] = point[u]
        BY <4>1, Goes
      <4> QED
        BY <4>1, <4>2
    <3>2. CASE PortFree(t)
      <4>1. /\ Goto(t, "start", "bind") /\ agent[t] \notin freed
            /\ UNCHANGED <<vmsAgent, created, served, freed, agent, on, fault>>
        BY <3>2 DEF PortFree
      <4> QED
        BY <4>1, Goes
    <3> QED
      BY <1>9, <3>1, <3>2
  <2>2. served = {}
    BY <1>0, <2>1
  <2> QED
    BY <2>1, <2>2, InTurnMove
<1>10. ASSUME NEW t \in Thread, NewAgent(t) PROVE InTurn'
  <2>1. created = 0 /\ point[t] = "new" /\ point'[t] = "start"
    BY <1>10, Goes DEF NewAgent, Builder
  <2>2. created' = 1 /\ 1..0 = {}
    BY <1>10, <2>1 DEF NewAgent
  <2>3. served = {} /\ freed = {} /\ \A s \in Server : vmsAgent[s] = NoAgent
    BY <1>0, <2>1, <2>2 DEF InTurn, Reach
  <2>4. \A u \in Thread : u # t => point'[u] = "out"
    BY <1>0, <1>10, <2>1, Goes DEF NewAgent
  <2>5. /\ vmsAgent' = [vmsAgent EXCEPT ![on[t]] = 1]
        /\ UNCHANGED <<served, freed, on, fault>>
    BY <1>10, <2>2 DEF NewAgent
  <2>6. \A s \in Server : s # on[t] => vmsAgent'[s] = NoAgent
    BY <2>3, <2>5 DEF TypeOK
  <2> QED
    BY <2>1, <2>2, <2>3, <2>4, <2>5, <2>6 DEF InTurn, Deleting, Running
<1>11. ASSUME NEW t \in Thread, Serve(t) PROVE InTurn'
  <2>1. /\ Goto(t, "bind", "serve") /\ port' = agent[t] /\ served' = served \union {agent[t]}
        /\ agent[t] \notin freed
        /\ UNCHANGED <<vmsAgent, created, freed, agent, on, fault>>
    BY <1>11 DEF Serve
  <2>2. /\ point[t] = "bind" /\ point'[t] = "serve" /\ served' = {agent[t]}
        /\ \A u \in Thread : u # t => point'[u] = "out"
    BY <1>0, <2>1, Goes
  <2>3. \A s \in Server : vmsAgent[s] \notin freed
    BY <1>0, <2>2
  <2> QED
    BY <2>1, <2>2, <2>3 DEF InTurn, Deleting, Running
<1>12. ASSUME NEW t \in Thread, ServeReturns(t) PROVE InTurn'
  <2>1. /\ point[t] = "serve" /\ point'[t] = "out" /\ port # agent[t]
        /\ \A u \in Thread : u # t => point'[u] = point[u] /\ agent'[u] = agent[u]
        /\ UNCHANGED <<vmsAgent, created, served, freed, on, fault>>
    BY <1>12, Leaves DEF ServeReturns
  <2>2. served = {}
    BY <1>0, <2>1 DEF InTurn
  <2> QED
    BY <2>1, <2>2, InTurnMove
<1>13. CASE Elsewhere
  <2>1. /\ port \in {NoAgent, Other}
        /\ UNCHANGED <<vmsAgent, created, served, freed, point, on, agent, fault>>
    BY <1>13 DEF Elsewhere, threadVars
  <2>2. \A t \in Thread : point[t] = "serve" => agent[t] \in 1..created /\ 1..created \subseteq Agent
    BY Constants DEF Reach, Running, TypeOK, Agent
  <2>3. ASSUME NEW a \in served PROVE FALSE
    <3>1. PICK t \in Thread : port = a /\ point[t] = "serve" /\ agent[t] = a
      BY DEF InTurn
    <3>2. a \in Agent
      BY <2>2, <3>1
    <3> QED
      BY <2>1, <3>1, <3>2, Constants
  <2> QED
    BY <2>1, <2>3 DEF InTurn
<1>14. CASE UNCHANGED vars
  BY <1>14 DEF vars, threadVars, InTurn
<1> QED
  BY <1>1, <1>2, <1>3, <1>4, <1>5, <1>6, <1>7, <1>8, <1>9, <1>10, <1>11, <1>12, <1>13, <1>14
     DEF Next, ThreadStep

\* Members called one after the other never kill the process: none deletes an agent
\* twice or uses one that is gone, whatever the calls before it returned.
THEOREM LifecycleSequentialCallsAreSafe == Spec => []SequentialCallsAreSafe
<1>1. Init => Builder /\ Reach /\ Sequential
  BY Constants DEF Init, Builder, OneAgent, Reach, Deleting, Running, Building, NoAgent, Sequential, InTurn,
                    Home
<1>2. TypeOK /\ Builder /\ Reach /\ Sequential /\ [Next]_vars => Sequential'
  BY Overlapped, InTurnStep, HomeStep DEF Sequential
<1>3. Sequential => SequentialCallsAreSafe
  BY DEF Sequential, InTurn, SequentialCallsAreSafe
<1> QED
  BY <1>1, <1>2, <1>3, BuilderStep, ReachStep, LifecycleTypes, PTL DEF Spec
=============================================================================
