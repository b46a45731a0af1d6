----------------------------- MODULE GateProofs -----------------------------
(***************************************************************************)
(* Proofs about the connection server (Proxy) and the gate around it       *)
(* (Gate), for any number of listeners, connections and calls of Drain and *)
(* any limit.                                                              *)
(***************************************************************************)
EXTENDS Gate, CountingTheorems, TLAPS

-----------------------------------------------------------------------------
(* The server's invariant: what its counters count *)

\* The accept loops that have not returned, those that hold a slot for the
\* connection in their hand, the goroutines that hold one, and the goroutines
\* that have not called Done.
Running == {l \in Listeners : loop[l] \in {"accept", "acquire", "spawn"}}
Admitting == {l \in Listeners : loop[l] = "spawn"}
Holding == {c \in Conns : task[c] \in {"handle", "close", "release"}}
Tasks == {c \in Conns : task[c] \in {"handle", "close", "release", "done"}}

\* The WaitGroups count what is running, and the channel holds one token for
\* every connection between Acquire and Release.
CountersAgree ==
    /\ acceptWG = Cardinality(Running)
    /\ connWG = Cardinality(Tasks)
    /\ MaxConcurrent > 0 => slots = Cardinality(Holding) + Cardinality(Admitting)

\* A loop between Accept and the goroutine has its own open connection.
HandsAgree ==
    /\ \A l \in Listeners :
           /\ ln[l] = "unserved" <=> loop[l] = "off"
           /\ hand[l] # NoConn <=> loop[l] \in {"acquire", "spawn"}
           /\ hand[l] # NoConn => conn[hand[l]] = "open" /\ task[hand[l]] = "none"
    /\ \A l, m \in Listeners : hand[l] = hand[m] /\ hand[l] # NoConn => l = m

\* An open connection is in a loop's hand or in a goroutine that will close it.
SocketsAgree ==
    \A c \in Conns :
        /\ conn[c] = "dialing" => task[c] = "none"
        /\ task[c] \in {"release", "done", "ended"} => conn[c] = "closed"
        /\ conn[c] = "open" /\ task[c] = "none" => \E l \in Listeners : hand[l] = c

\* What a waiting goroutine of Drain has seen at zero stays at zero: nobody
\* serves any more, and only accept loops start goroutines.
DrainsAgree ==
    \A d \in Drains :
        /\ drain[d] \in {"conns", "done"} => Running = {}
        /\ drain[d] = "done" => Tasks = {}
        /\ result[d] = "true" => drain[d] = "done"

ServerInv == TypeOK /\ CountersAgree /\ HandsAgree /\ SocketsAgree /\ DrainsAgree

\* In every state the counted sets are finite.
LEMMA CountedSets ==
    /\ IsFiniteSet(Running) /\ IsFiniteSet(Admitting)
    /\ IsFiniteSet(Holding) /\ IsFiniteSet(Tasks)
    /\ Cardinality(Running) \in Nat /\ Cardinality(Admitting) \in Nat
    /\ Cardinality(Holding) \in Nat /\ Cardinality(Tasks) \in Nat
    /\ Cardinality(Running) <= Cardinality(Listeners)
    /\ Cardinality(Tasks) <= Cardinality(Conns)
<1>1. Running \in SUBSET Listeners /\ Admitting \in SUBSET Listeners
  BY DEF Running, Admitting
<1>2. Holding \in SUBSET Conns /\ Tasks \in SUBSET Conns
  BY DEF Holding, Tasks
<1> QED
  BY <1>1, <1>2, SubsetCount, ProxyAssumption

LEMMA ServerInit == Init => ServerInv
<1> SUFFICES ASSUME Init PROVE ServerInv
  OBVIOUS
<1>1. Running = {} /\ Admitting = {} /\ Holding = {} /\ Tasks = {}
  BY DEF Init, Running, Admitting, Holding, Tasks
<1>2. CountersAgree
  BY <1>1, FS_EmptySet, ProxyAssumption DEF Init, CountersAgree
<1>3. Cardinality(Listeners) \in Nat /\ Cardinality(Conns) \in Nat
  BY FS_CardinalityType, ProxyAssumption
<1>4. TypeOK
  BY <1>3, ProxyAssumption DEF Init, TypeOK
<1>5. HandsAgree /\ SocketsAgree /\ DrainsAgree
  BY <1>1, ProxyAssumption DEF Init, HandsAgree, SocketsAgree, DrainsAgree
<1> QED
  BY <1>2, <1>4, <1>5 DEF ServerInv

\* The counted sets depend on loop and task alone.
LEMMA SetsUnchanged ==
    /\ UNCHANGED loop => Running' = Running /\ Admitting' = Admitting
    /\ UNCHANGED task => Holding' = Holding /\ Tasks' = Tasks
BY DEF Running, Admitting, Holding, Tasks

LEMMA ServeStep ==
    ASSUME ServerInv, NEW l \in Listeners, Serve(l) PROVE ServerInv'
<1> USE DEF ServerInv, TypeOK
<1>1. Running' = Running \cup {l} /\ Admitting' = Admitting /\ l \notin Running
  BY DEF Serve, Running, Admitting, HandsAgree
<1>2. Holding' = Holding /\ Tasks' = Tasks
  BY SetsUnchanged DEF Serve, taskVars
<1>3. CountersAgree'
  BY <1>1, <1>2, CountedSets, OneMore DEF Serve, taskVars, CountersAgree
<1>4. acceptWG' \in 0..Cardinality(Listeners)
  <2>1. Running' \in SUBSET Listeners
    BY DEF Running
  <2> QED
    BY <1>3, <2>1, SubsetCount, ProxyAssumption DEF CountersAgree
<1>5. TypeOK'
  BY <1>4 DEF Serve, taskVars, drainVars
<1>6. HandsAgree' /\ SocketsAgree' /\ DrainsAgree'
  BY <1>1, <1>2 DEF Serve, taskVars, drainVars, HandsAgree, SocketsAgree, DrainsAgree
<1> QED
  BY <1>3, <1>5, <1>6

LEMMA CloseListenerStep ==
    ASSUME ServerInv, NEW l \in Listeners, CloseListener(l) PROVE ServerInv'
<1> USE DEF ServerInv, TypeOK
<1>1. /\ Running' = Running /\ Admitting' = Admitting
      /\ Holding' = Holding /\ Tasks' = Tasks
  BY SetsUnchanged DEF CloseListener, taskVars
<1>2. TypeOK' /\ CountersAgree'
  BY <1>1 DEF CloseListener, taskVars, drainVars, CountersAgree
<1>3. HandsAgree' /\ SocketsAgree' /\ DrainsAgree'
  BY <1>1 DEF CloseListener, taskVars, drainVars, HandsAgree, SocketsAgree, DrainsAgree
<1> QED
  BY <1>2, <1>3

LEMMA AcceptStep ==
    ASSUME ServerInv, NEW l \in Listeners, NEW c \in Conns, Accept(l, c)
    PROVE  ServerInv'
<1> USE DEF ServerInv, TypeOK
<1>1. Running' = Running /\ Admitting' = Admitting
  BY DEF Accept, Running, Admitting
<1>2. Holding' = Holding /\ Tasks' = Tasks
  BY SetsUnchanged DEF Accept
<1>3. TypeOK' /\ CountersAgree' /\ DrainsAgree'
  BY <1>1, <1>2 DEF Accept, drainVars, CountersAgree, DrainsAgree
<1>4. HandsAgree'
  BY ProxyAssumption DEF Accept, HandsAgree, SocketsAgree
<1>5. SocketsAgree'
  <2>1. hand[l] = NoConn
    BY DEF Accept, HandsAgree
  <2> QED
    BY <2>1, ProxyAssumption DEF Accept, SocketsAgree
<1> QED
  BY <1>3, <1>4, <1>5

LEMMA AcceptClosedStep ==
    ASSUME ServerInv, NEW l \in Listeners, AcceptClosed(l) PROVE ServerInv'
<1> USE DEF ServerInv, TypeOK
<1>1. Running' = Running \ {l} /\ Admitting' = Admitting /\ l \in Running
  BY DEF AcceptClosed, Running, Admitting
<1>2. Holding' = Holding /\ Tasks' = Tasks
  BY SetsUnchanged DEF AcceptClosed, taskVars
<1>3. CountersAgree' /\ acceptWG' \in 0..Cardinality(Listeners)
  BY <1>1, <1>2, CountedSets, OneLess, FS_CardinalityType, ProxyAssumption
  DEF AcceptClosed, taskVars, CountersAgree
<1>4. TypeOK'
  BY <1>3 DEF AcceptClosed, taskVars, drainVars
<1>5. HandsAgree' /\ SocketsAgree' /\ DrainsAgree'
  BY <1>1, <1>2 DEF AcceptClosed, taskVars, drainVars, HandsAgree, SocketsAgree, DrainsAgree
<1> QED
  BY <1>3, <1>4, <1>5

LEMMA AcquireStep ==
    ASSUME ServerInv, NEW l \in Listeners, Acquire(l) PROVE ServerInv'
<1> USE DEF ServerInv, TypeOK
<1>1. Running' = Running /\ Admitting' = Admitting \cup {l} /\ l \notin Admitting
  BY DEF Acquire, Running, Admitting
<1>2. Holding' = Holding /\ Tasks' = Tasks
  BY SetsUnchanged DEF Acquire
<1>3. CountersAgree'
  BY <1>1, <1>2, CountedSets, OneMore, ProxyAssumption DEF Acquire, CountersAgree
<1>4. TypeOK'
  BY ProxyAssumption DEF Acquire, drainVars
<1>5. HandsAgree' /\ SocketsAgree' /\ DrainsAgree'
  BY <1>1, <1>2 DEF Acquire, drainVars, HandsAgree, SocketsAgree, DrainsAgree
<1> QED
  BY <1>3, <1>4, <1>5

LEMMA OverloadStep ==
    ASSUME ServerInv, NEW l \in Listeners, Overload(l) PROVE ServerInv'
<1> USE DEF ServerInv, TypeOK
<1>1. Running' = Running /\ Admitting' = Admitting
  BY DEF Overload, Running, Admitting
<1>2. Holding' = Holding /\ Tasks' = Tasks
  BY SetsUnchanged DEF Overload
<1>3. PICK c \in Conns : c = hand[l] /\ task[c] = "none"
  BY DEF Overload, HandsAgree
<1>4. TypeOK' /\ CountersAgree' /\ DrainsAgree'
  BY <1>1, <1>2, <1>3 DEF Overload, drainVars, CountersAgree, DrainsAgree
<1>5. HandsAgree' /\ SocketsAgree'
  BY <1>3 DEF Overload, HandsAgree, SocketsAgree
<1> QED
  BY <1>4, <1>5

\* The slot passes from the loop to the goroutine.
LEMMA SpawnStep ==
    ASSUME ServerInv, NEW l \in Listeners, Spawn(l) PROVE ServerInv'
<1> USE DEF ServerInv, TypeOK
<1>1. PICK c \in Conns : c = hand[l] /\ task[c] = "none" /\ conn[c] = "open"
  BY DEF Spawn, HandsAgree
<1>2. /\ Running' = Running /\ l \in Running
      /\ Admitting' = Admitting \ {l} /\ l \in Admitting
  BY DEF Spawn, Running, Admitting
<1>3. /\ Holding' = Holding \cup {c} /\ c \notin Holding
      /\ Tasks' = Tasks \cup {c} /\ c \notin Tasks
  BY <1>1 DEF Spawn, Holding, Tasks
<1>4. CountersAgree'
  BY <1>2, <1>3, CountedSets, OneMore, OneLess DEF Spawn, CountersAgree
<1>5. connWG' \in 0..Cardinality(Conns)
  <2>1. Tasks' \in SUBSET Conns
    BY DEF Tasks
  <2> QED
    BY <1>4, <2>1, SubsetCount, ProxyAssumption DEF CountersAgree
<1>6. TypeOK'
  BY <1>1, <1>5 DEF Spawn, drainVars
<1>7. HandsAgree' /\ SocketsAgree'
  BY <1>1 DEF Spawn, HandsAgree, SocketsAgree
<1>8. DrainsAgree'
  BY <1>2 DEF Spawn, drainVars, DrainsAgree
<1> QED
  BY <1>4, <1>6, <1>7, <1>8

\* A step of a goroutine leaves the loops and their connections alone.
LEMMA HandlerClosesStep ==
    ASSUME ServerInv, NEW c \in Conns, HandlerCloses(c) PROVE ServerInv'
<1> USE DEF ServerInv, TypeOK
<1>1. /\ Running' = Running /\ Admitting' = Admitting
      /\ Holding' = Holding /\ Tasks' = Tasks
  BY SetsUnchanged DEF HandlerCloses, loopVars
<1>2. TypeOK' /\ CountersAgree' /\ DrainsAgree'
  BY <1>1 DEF HandlerCloses, loopVars, drainVars, CountersAgree, DrainsAgree
<1>3. HandsAgree' /\ SocketsAgree'
  BY DEF HandlerCloses, loopVars, HandsAgree, SocketsAgree
<1> QED
  BY <1>2, <1>3

LEMMA HandlerReturnsStep ==
    ASSUME ServerInv, NEW c \in Conns, HandlerReturns(c) PROVE ServerInv'
<1> USE DEF ServerInv, TypeOK
<1>1. Running' = Running /\ Admitting' = Admitting
  BY SetsUnchanged DEF HandlerReturns, loopVars
<1>2. Holding' = Holding /\ Tasks' = Tasks
  BY DEF HandlerReturns, Holding, Tasks
<1>3. TypeOK' /\ CountersAgree' /\ DrainsAgree'
  BY <1>1, <1>2 DEF HandlerReturns, loopVars, drainVars, CountersAgree, DrainsAgree
<1>4. HandsAgree' /\ SocketsAgree'
  BY DEF HandlerReturns, loopVars, HandsAgree, SocketsAgree
<1> QED
  BY <1>3, <1>4

LEMMA CloseConnStep ==
    ASSUME ServerInv, NEW c \in Conns, CloseConn(c) PROVE ServerInv'
<1> USE DEF ServerInv, TypeOK
<1>1. Running' = Running /\ Admitting' = Admitting
  BY SetsUnchanged DEF CloseConn, loopVars
<1>2. Holding' = Holding /\ Tasks' = Tasks
  BY DEF CloseConn, Holding, Tasks
<1>3. TypeOK' /\ CountersAgree' /\ DrainsAgree'
  BY <1>1, <1>2 DEF CloseConn, loopVars, drainVars, CountersAgree, DrainsAgree
<1>4. HandsAgree' /\ SocketsAgree'
  BY DEF CloseConn, loopVars, HandsAgree, SocketsAgree
<1> QED
  BY <1>3, <1>4

\* The token that is given back is there: Release never finds the channel empty.
LEMMA ReleaseStep ==
    ASSUME ServerInv, NEW c \in Conns, Release(c) PROVE ServerInv'
<1> USE DEF ServerInv, TypeOK
<1>1. Running' = Running /\ Admitting' = Admitting
  BY SetsUnchanged DEF Release, loopVars
<1>2. Holding' = Holding \ {c} /\ c \in Holding /\ Tasks' = Tasks
  BY DEF Release, Holding, Tasks
<1>3. CountersAgree'
  BY <1>1, <1>2, CountedSets, OneLess DEF Release, loopVars, CountersAgree
<1>4. TypeOK'
  BY ProxyAssumption DEF Release, loopVars, drainVars
<1>5. HandsAgree' /\ SocketsAgree'
  BY DEF Release, loopVars, HandsAgree, SocketsAgree
<1>6. DrainsAgree'
  BY <1>1, <1>2 DEF Release, drainVars, DrainsAgree
<1> QED
  BY <1>3, <1>4, <1>5, <1>6

LEMMA DoneStep ==
    ASSUME ServerInv, NEW c \in Conns, Done(c) PROVE ServerInv'
<1> USE DEF ServerInv, TypeOK
<1>1. Running' = Running /\ Admitting' = Admitting
  BY SetsUnchanged DEF Done, loopVars
<1>2. Holding' = Holding /\ Tasks' = Tasks \ {c} /\ c \in Tasks
  BY DEF Done, Holding, Tasks
<1>3. CountersAgree' /\ connWG' \in 0..Cardinality(Conns)
  BY <1>1, <1>2, CountedSets, OneLess, FS_CardinalityType, ProxyAssumption
  DEF Done, loopVars, CountersAgree
<1>4. TypeOK'
  BY <1>3 DEF Done, loopVars, drainVars
<1>5. HandsAgree' /\ SocketsAgree'
  BY DEF Done, loopVars, HandsAgree, SocketsAgree
<1>6. DrainsAgree'
  BY <1>1, <1>2 DEF Done, drainVars, DrainsAgree
<1> QED
  BY <1>3, <1>4, <1>5, <1>6

\* Drain only waits: what it has seen at zero is the emptiness of a set.
LEMMA DrainCallStep ==
    ASSUME ServerInv, NEW d \in Drains, Drain(d) \/ DrainStep(d) \/ Timeout(d)
    PROVE  ServerInv'
<1> USE DEF ServerInv, TypeOK, DrainStep
<1>1. UNCHANGED <<ln, loop, hand, acceptWG, conn, task, slots, connWG>>
  BY DEF Drain, AcceptsWaited, ConnsWaited, ReturnTrue, Timeout, loopVars, taskVars
<1>2. /\ Running' = Running /\ Admitting' = Admitting
      /\ Holding' = Holding /\ Tasks' = Tasks
  BY <1>1, SetsUnchanged
<1>3. /\ acceptWG = 0 => Running = {}
      /\ connWG = 0 => Tasks = {}
  BY CountedSets, FS_EmptySet DEF CountersAgree
<1>4. TypeOK'
  BY <1>1 DEF Drain, AcceptsWaited, ConnsWaited, ReturnTrue, Timeout
<1>5. CountersAgree' /\ HandsAgree' /\ SocketsAgree'
  BY <1>1, <1>2 DEF CountersAgree, HandsAgree, SocketsAgree
<1>6. DrainsAgree'
  BY <1>2, <1>3 DEF Drain, AcceptsWaited, ConnsWaited, ReturnTrue, Timeout, DrainsAgree
<1> QED
  BY <1>4, <1>5, <1>6

LEMMA ServerStepInv == ServerInv /\ [Next]_vars => ServerInv'
<1> SUFFICES ASSUME ServerInv, [Next]_vars PROVE ServerInv'
  OBVIOUS
<1>1. CASE UNCHANGED vars
  <2>1. /\ Running' = Running /\ Admitting' = Admitting
        /\ Holding' = Holding /\ Tasks' = Tasks
    BY <1>1, SetsUnchanged DEF vars, loopVars, taskVars
  <2> QED
    BY <1>1, <2>1 DEF vars, loopVars, taskVars, drainVars, ServerInv, TypeOK, CountersAgree,
                      HandsAgree, SocketsAgree, DrainsAgree
<1>2. ASSUME NEW l \in Listeners,
             \/ Serve(l) \/ CloseListener(l) \/ LoopStep(l)
             \/ \E c \in Conns : Accept(l, c)
      PROVE  ServerInv'
  BY <1>2, ServeStep, CloseListenerStep, AcceptStep, AcceptClosedStep, AcquireStep,
     OverloadStep, SpawnStep DEF LoopStep
<1>3. ASSUME NEW c \in Conns, HandlerCloses(c) \/ TaskStep(c) PROVE ServerInv'
  BY <1>3, HandlerClosesStep, HandlerReturnsStep, CloseConnStep, ReleaseStep, DoneStep
  DEF TaskStep
<1> QED
  BY <1>1, <1>2, <1>3, DrainCallStep DEF Next

\* The invariant, for every behaviour of the server: whatever handlers, listeners
\* and calls of Drain do, the counters count what they should.
THEOREM ServerInvariant == Spec => []ServerInv
BY ServerInit, ServerStepInv, PTL DEF Spec

\* Every variable keeps its type: no WaitGroup is taken below zero, which would
\* panic, and no more tokens are in the channel than it has room for.
THEOREM ServerTypeSafe == Spec => []TypeOK
<1>1. ServerInv => TypeOK
  BY DEF ServerInv
<1> QED
  BY ServerInvariant, <1>1, PTL

LEMMA HoldingBoundsInFlight == ServerInv => InFlightBounded
<1> SUFFICES ASSUME ServerInv, MaxConcurrent > 0
             PROVE  Cardinality(InFlight) <= MaxConcurrent
  BY DEF InFlightBounded
<1> USE DEF ServerInv, TypeOK
<1>1. InFlight \in SUBSET Holding
  BY DEF InFlight, Holding, SocketsAgree
<1>2. /\ Cardinality(InFlight) \in Nat /\ Cardinality(Holding) \in Nat
      /\ Cardinality(InFlight) <= Cardinality(Holding)
  BY <1>1, CountedSets, SubsetCount
<1>3. Cardinality(Holding) <= slots
  BY CountedSets DEF CountersAgree
<1> QED
  BY <1>2, <1>3, ProxyAssumption

\* The limit holds across all listeners: a connection that costs a socket is one
\* of those that hold a token, and a token is never given back twice.
THEOREM InFlightSafe == Spec => []InFlightBounded
BY ServerInvariant, HoldingBoundsInFlight, PTL

LEMMA DrainedIsIdle == ServerInv => DrainedMeansIdle
<1> SUFFICES ASSUME ServerInv, NEW d \in Drains, result[d] = "true"
             PROVE  /\ \A l \in Listeners : loop[l] \in {"off", "exited"}
                    /\ \A c \in Conns : task[c] \in {"none", "ended"} /\ conn[c] # "open"
                    /\ slots = 0
  BY DEF DrainedMeansIdle
<1> USE DEF ServerInv, TypeOK
<1>1. Running = {} /\ Tasks = {}
  BY DEF DrainsAgree
<1>2. \A l \in Listeners : loop[l] \in {"off", "exited"}
  BY <1>1 DEF Running
<1>3. \A c \in Conns : task[c] \in {"none", "ended"}
  BY <1>1 DEF Tasks
<1>4. ASSUME NEW c \in Conns PROVE conn[c] # "open"
  BY <1>2, <1>3, ProxyAssumption DEF SocketsAgree, HandsAgree
<1>5. Holding = {} /\ Admitting = {}
  BY <1>2, <1>3 DEF Holding, Admitting
<1>6. slots = 0
  BY <1>5, FS_EmptySet, ProxyAssumption DEF CountersAgree
<1> QED
  BY <1>2, <1>3, <1>4, <1>6

\* Drain's answer can be relied on: once it has returned true there is no accept
\* loop, no goroutine, no open connection and no token, now or at any later time,
\* since accept loops are waited for first and only they start goroutines.
THEOREM DrainSafe == Spec => []DrainedMeansIdle
BY ServerInvariant, DrainedIsIdle, PTL

\* A gate implements the server's specification: main, the signal loop and the
\* upgrader only choose when the server's operations are called.
THEOREM GateImplementsServer == GateSpec => Spec
<1>1. GateInit => Init
  BY DEF GateInit
<1>2. [GateNext]_gateVars => [Next]_vars
  BY DEF GateNext, ServerStep, SignalStep, BecomeReady, Leave, Finish, gateVars
<1> QED
  BY <1>1, <1>2, PTL DEF GateSpec, Spec

\* So the server's properties are the gate's.
THEOREM GateServerSafe == GateSpec => [](TypeOK /\ InFlightBounded /\ DrainedMeansIdle)
BY GateImplementsServer, ServerTypeSafe, InFlightSafe, DrainSafe, PTL

-----------------------------------------------------------------------------
(* Why Exit is closed *)

\* Exit is closed for a reason, and the reason is known to whoever sees it closed:
\* nobody stops the upgrader but the signal loop, which has stored the flag by
\* then, and main on its way out.
ExitExplained ==
    /\ watcher = "stop" => terminating
    /\ flip = "stopped" => terminating \/ done
    /\ exit => flip \in {"handed", "stopped"}
    /\ done => main = "finished"
    /\ HandoffHasChild

LEMMA ExplainedInit == GateInit => ExitExplained
BY DEF GateInit, Life!Init, ExitExplained, HandoffHasChild

\* The steps of the signal loop, of the runtime and of the upgrader.
LEMMA SignalStepExplained ==
    ASSUME ExitExplained, SignalStep
    PROVE  ExitExplained'
<1> USE DEF ExitExplained, HandoffHasChild, mainVars
<1>1. main' = main /\ deadline' = deadline
  BY DEF SignalStep
<1>2. ASSUME NEW s, Life!Notify(s) PROVE ExitExplained'
  BY <1>1, <1>2 DEF Life!Notify
<1>3. CASE Life!Receive
  BY <1>1, <1>3 DEF Life!Receive
<1>4. CASE Life!ReceiveDone
  BY <1>1, <1>4 DEF Life!ReceiveDone
<1>5. CASE Life!UpgradeSucceeds
  BY <1>1, <1>5 DEF Life!UpgradeSucceeds
<1>6. CASE Life!UpgradeFails
  BY <1>1, <1>6 DEF Life!UpgradeFails
<1>7. CASE Life!StoreTerminating
  BY <1>1, <1>7 DEF Life!StoreTerminating
<1>8. CASE Life!StopUpgrader
  BY <1>1, <1>8 DEF Life!StopUpgrader, Life!Stop
<1>9. CASE Life!CloseExit
  BY <1>1, <1>9 DEF Life!CloseExit
<1> QED
  BY <1>2, <1>3, <1>4, <1>5, <1>6, <1>7, <1>8, <1>9
  DEF SignalStep, Life!Next, Life!WatcherStep

LEMMA ExplainedStep == ExitExplained /\ [GateNext]_gateVars => ExitExplained'
<1> SUFFICES ASSUME ExitExplained, [GateNext]_gateVars PROVE ExitExplained'
  OBVIOUS
<1>1. CASE ServerStep
  BY <1>1 DEF ServerStep, lifeVars, mainVars, ExitExplained, HandoffHasChild
<1>2. CASE SignalStep
  BY <1>2, SignalStepExplained
<1>3. CASE BecomeReady
  BY <1>3 DEF BecomeReady, Life!Ready, ExitExplained, HandoffHasChild
<1>4. CASE Leave
  \* Main has not called Close, so a stopped upgrader means the flag is stored.
  <2>1. ~terminating => flip = "handed"
    BY <1>4 DEF Leave, ExitExplained
  <2> QED
    BY <1>4, <2>1 DEF Leave, lifeVars, ExitExplained, HandoffHasChild
<1>5. CASE Finish
  BY <1>5 DEF Finish, Life!Close, Life!Stop, ExitExplained, HandoffHasChild
<1>6. CASE UNCHANGED gateVars
  BY <1>6 DEF gateVars, lifeVars, mainVars, ExitExplained, HandoffHasChild
<1> QED
  BY <1>1, <1>2, <1>3, <1>4, <1>5, <1>6 DEF GateNext

\* Whatever the server does meanwhile, main drains with the deadline of a handoff
\* only when a child has the listeners: the flag is stored before Stop is called,
\* so nobody who sees Exit closed by a signal finds it unset.
THEOREM HandoffSafe == GateSpec => []HandoffHasChild
<1>1. ExitExplained => HandoffHasChild
  BY DEF ExitExplained
<1> QED
  BY ExplainedInit, ExplainedStep, <1>1, PTL DEF GateSpec
=============================================================================
