------------------------------- MODULE Proxy -------------------------------
(***************************************************************************)
(* The connection server of a gate (package proxy) with its concurrency    *)
(* limit (package semaphore): one accept loop per listener, one goroutine  *)
(* per admitted connection, and Drain, which waits for all of them.        *)
(*                                                                         *)
(* An accept error other than net.ErrClosed is logged and the loop goes    *)
(* on: a stuttering step.  A handler that panics ends the process and is   *)
(* not modelled.                                                           *)
(*                                                                         *)
(* Faulty variants, defined next to what they are variants of and used     *)
(* only to show that the properties can fail: OverloadDone, OverloadLeaks, *)
(* ReleasesTwice, ForgetsDone, DrainConnsOnly.                             *)
(***************************************************************************)
EXTENDS Integers, FiniteSets

CONSTANTS
    Listeners,
    Conns,           \* connections clients make, each once
    NoConn,
    Drains,          \* calls of Drain
    MaxConcurrent    \* NewServer's argument; 0 is unbounded

ASSUME ProxyAssumption ==
    /\ IsFiniteSet(Listeners) /\ IsFiniteSet(Conns)
    /\ NoConn \notin Conns
    /\ MaxConcurrent \in Nat

VARIABLES
    ln,         \* per listener: its socket
    loop,       \* per listener: where its accept loop is
    hand,       \* per listener: the connection the loop has accepted
    conn,       \* per connection: its socket
    task,       \* per connection: where its goroutine is
    slots,      \* semaphore: filled slots of the channel
    acceptWG, connWG,
    drain,      \* per call of Drain: where the waiting goroutine is
    result      \* per call of Drain: what it returned

loopVars == <<ln, loop, hand, acceptWG>>
taskVars == <<conn, task, slots, connWG>>
drainVars == <<drain, result>>
vars == <<loopVars, taskVars, drainVars>>

Init ==
    /\ ln = [l \in Listeners |-> "unserved"]
    /\ loop = [l \in Listeners |-> "off"]
    /\ hand = [l \in Listeners |-> NoConn]
    /\ conn = [c \in Conns |-> "dialing"]
    /\ task = [c \in Conns |-> "none"]
    /\ slots = 0
    /\ acceptWG = 0 /\ connWG = 0
    /\ drain = [d \in Drains |-> "idle"]
    /\ result = [d \in Drains |-> "none"]

-----------------------------------------------------------------------------
(* The accept loops *)

\* Serve.  A gate serves its listeners before it drains.
Serve(l) ==
    /\ ln[l] = "unserved"
    /\ \A d \in Drains : drain[d] = "idle"
    /\ ln' = [ln EXCEPT ![l] = "open"]
    /\ loop' = [loop EXCEPT ![l] = "accept"]
    /\ acceptWG' = acceptWG + 1
    /\ UNCHANGED <<hand, taskVars, drainVars>>

\* The caller closes the listener, before or after it calls Drain.
CloseListener(l) ==
    /\ ln[l] = "open"
    /\ ln' = [ln EXCEPT ![l] = "closed"]
    /\ UNCHANGED <<loop, hand, acceptWG, taskVars, drainVars>>

Accept(l, c) ==
    /\ loop[l] = "accept"
    /\ ln[l] = "open"
    /\ conn[c] = "dialing"
    /\ conn' = [conn EXCEPT ![c] = "open"]
    /\ hand' = [hand EXCEPT ![l] = c]
    /\ loop' = [loop EXCEPT ![l] = "acquire"]
    /\ UNCHANGED <<ln, acceptWG, task, slots, connWG, drainVars>>

\* Accept returns net.ErrClosed: the loop returns and acceptWG.Done runs.
AcceptClosed(l) ==
    /\ loop[l] = "accept"
    /\ ln[l] = "closed"
    /\ loop' = [loop EXCEPT ![l] = "exited"]
    /\ acceptWG' = acceptWG - 1
    /\ UNCHANGED <<ln, hand, taskVars, drainVars>>

\* Semaphore.Acquire; a nil semaphore always succeeds and counts nothing.
Acquire(l) ==
    /\ loop[l] = "acquire"
    /\ slots < MaxConcurrent \/ MaxConcurrent = 0
    /\ slots' = IF MaxConcurrent = 0 THEN slots ELSE slots + 1
    /\ loop' = [loop EXCEPT ![l] = "spawn"]
    /\ UNCHANGED <<ln, hand, acceptWG, conn, task, connWG, drainVars>>

\* No slot is free: the connection is closed and the loop goes on.
OverloadDone(l) ==
    /\ loop[l] = "acquire"
    /\ MaxConcurrent > 0 /\ slots = MaxConcurrent
    /\ conn' = [conn EXCEPT ![hand[l]] = "closed"]
    /\ connWG' = connWG - 1
    /\ hand' = [hand EXCEPT ![l] = NoConn]
    /\ loop' = [loop EXCEPT ![l] = "accept"]
    /\ UNCHANGED <<ln, acceptWG, task, slots, drainVars>>
OverloadLeaks(l) ==
    /\ loop[l] = "acquire"
    /\ MaxConcurrent > 0 /\ slots = MaxConcurrent
    /\ hand' = [hand EXCEPT ![l] = NoConn]
    /\ loop' = [loop EXCEPT ![l] = "accept"]
    /\ UNCHANGED <<ln, acceptWG, taskVars, drainVars>>
Overload(l) ==
    /\ loop[l] = "acquire"
    /\ MaxConcurrent > 0 /\ slots = MaxConcurrent
    /\ conn' = [conn EXCEPT ![hand[l]] = "closed"]
    /\ hand' = [hand EXCEPT ![l] = NoConn]
    /\ loop' = [loop EXCEPT ![l] = "accept"]
    /\ UNCHANGED <<ln, acceptWG, task, slots, connWG, drainVars>>

\* connWG.Add(1), then the goroutine.
Spawn(l) ==
    /\ loop[l] = "spawn"
    /\ connWG' = connWG + 1
    /\ task' = [task EXCEPT ![hand[l]] = "handle"]
    /\ hand' = [hand EXCEPT ![l] = NoConn]
    /\ loop' = [loop EXCEPT ![l] = "accept"]
    /\ UNCHANGED <<ln, acceptWG, conn, slots, drainVars>>

-----------------------------------------------------------------------------
(* The goroutine of a connection: the handler, then the defers, last first *)

\* A gate that rejects a client may close the connection in the handler.
HandlerCloses(c) ==
    /\ task[c] = "handle"
    /\ conn[c] = "open"
    /\ conn' = [conn EXCEPT ![c] = "closed"]
    /\ UNCHANGED <<loopVars, task, slots, connWG, drainVars>>

ReleasesTwice(c) ==
    /\ task[c] = "handle"
    /\ task' = [task EXCEPT ![c] = "close"]
    /\ slots' = IF slots = 0 THEN 0 ELSE slots - 1
    /\ UNCHANGED <<loopVars, conn, connWG, drainVars>>
HandlerReturns(c) ==
    /\ task[c] = "handle"
    /\ task' = [task EXCEPT ![c] = "close"]
    /\ UNCHANGED <<loopVars, conn, slots, connWG, drainVars>>

CloseConn(c) ==
    /\ task[c] = "close"
    /\ conn' = [conn EXCEPT ![c] = "closed"]
    /\ task' = [task EXCEPT ![c] = "release"]
    /\ UNCHANGED <<loopVars, slots, connWG, drainVars>>

\* Semaphore.Release: a receive that does nothing on an empty channel.
Release(c) ==
    /\ task[c] = "release"
    /\ slots' = IF slots = 0 THEN 0 ELSE slots - 1
    /\ task' = [task EXCEPT ![c] = "done"]
    /\ UNCHANGED <<loopVars, conn, connWG, drainVars>>

ForgetsDone(c) ==
    /\ task[c] = "done"
    /\ task' = [task EXCEPT ![c] = "ended"]
    /\ UNCHANGED <<loopVars, conn, slots, connWG, drainVars>>
Done(c) ==
    /\ task[c] = "done"
    /\ connWG' = connWG - 1
    /\ task' = [task EXCEPT ![c] = "ended"]
    /\ UNCHANGED <<loopVars, conn, slots, drainVars>>

-----------------------------------------------------------------------------
(* Drain *)

\* A call starts the goroutine that waits for the accept loops first, since
\* they are what adds to connWG.
DrainConnsOnly(d) ==
    /\ drain[d] = "idle"
    /\ drain' = [drain EXCEPT ![d] = "conns"]
    /\ result' = [result EXCEPT ![d] = "waiting"]
    /\ UNCHANGED <<loopVars, taskVars>>
Drain(d) ==
    /\ drain[d] = "idle"
    /\ drain' = [drain EXCEPT ![d] = "accepts"]
    /\ result' = [result EXCEPT ![d] = "waiting"]
    /\ UNCHANGED <<loopVars, taskVars>>

AcceptsWaited(d) ==
    /\ drain[d] = "accepts"
    /\ acceptWG = 0
    /\ drain' = [drain EXCEPT ![d] = "conns"]
    /\ UNCHANGED <<loopVars, taskVars, result>>

ConnsWaited(d) ==
    /\ drain[d] = "conns"
    /\ connWG = 0
    /\ drain' = [drain EXCEPT ![d] = "done"]
    /\ UNCHANGED <<loopVars, taskVars, result>>

\* The select: done is closed, or the timeout fires first.
ReturnTrue(d) ==
    /\ drain[d] = "done"
    /\ result[d] = "waiting"
    /\ result' = [result EXCEPT ![d] = "true"]
    /\ UNCHANGED <<loopVars, taskVars, drain>>

Timeout(d) ==
    /\ result[d] = "waiting"
    /\ result' = [result EXCEPT ![d] = "false"]
    /\ UNCHANGED <<loopVars, taskVars, drain>>

-----------------------------------------------------------------------------

LoopStep(l) == AcceptClosed(l) \/ Acquire(l) \/ Overload(l) \/ Spawn(l)
TaskStep(c) == HandlerReturns(c) \/ CloseConn(c) \/ Release(c) \/ Done(c)
DrainStep(d) == AcceptsWaited(d) \/ ConnsWaited(d) \/ ReturnTrue(d)

Next ==
    \/ \E l \in Listeners :
           \/ Serve(l) \/ CloseListener(l) \/ LoopStep(l)
           \/ \E c \in Conns : Accept(l, c)
    \/ \E c \in Conns : HandlerCloses(c) \/ TaskStep(c)
    \/ \E d \in Drains : Drain(d) \/ DrainStep(d) \/ Timeout(d)

Spec == Init /\ [][Next]_vars

\* Go schedules every runnable goroutine.  That a handler returns is the gate's
\* business (it sets deadlines on its connections); Accept on an open listener
\* may block for ever, and nobody has to close a listener or to call Drain.
Fairness ==
    /\ \A l \in Listeners : WF_vars(LoopStep(l))
    /\ \A c \in Conns : WF_vars(TaskStep(c))
    /\ \A d \in Drains : WF_vars(DrainStep(d))

-----------------------------------------------------------------------------
(* Properties *)

\* Every variable has its type: no WaitGroup goes below zero, which would panic,
\* and the semaphore's channel never holds more than its capacity.
TypeOK ==
    /\ ln \in [Listeners -> {"unserved", "open", "closed"}]
    /\ loop \in [Listeners -> {"off", "accept", "acquire", "spawn", "exited"}]
    /\ hand \in [Listeners -> Conns \cup {NoConn}]
    /\ conn \in [Conns -> {"dialing", "open", "closed"}]
    /\ task \in [Conns -> {"none", "handle", "close", "release", "done", "ended"}]
    /\ slots \in 0..MaxConcurrent
    /\ acceptWG \in 0..Cardinality(Listeners)
    /\ connWG \in 0..Cardinality(Conns)
    /\ drain \in [Drains -> {"idle", "accepts", "conns", "done"}]
    /\ result \in [Drains -> {"none", "waiting", "true", "false"}]

\* The connections that are past the limit and still cost a socket.
InFlight == {c \in Conns : conn[c] = "open" /\ task[c] # "none"}

\* Semaphore's promise: never more than MaxConcurrent connections are open in
\* handlers, across all listeners, at whatever point of its way out each is.
InFlightBounded == MaxConcurrent > 0 => Cardinality(InFlight) <= MaxConcurrent

\* Drain returns true only when nothing is left: no accept loop, no goroutine,
\* no open connection, no slot taken, and no connection can be admitted later.
DrainedMeansIdle ==
    (\E d \in Drains : result[d] = "true") =>
        /\ \A l \in Listeners : loop[l] \in {"off", "exited"}
        /\ \A c \in Conns : task[c] \in {"none", "ended"} /\ conn[c] # "open"
        /\ slots = 0

\* Every connection that is accepted is closed in the end, the ones refused for
\* overload included.
ConnectionsClose == \A c \in Conns : conn[c] = "open" ~> conn[c] = "closed"

\* The waiting goroutine of Drain ends once every listener is closed, so a Drain
\* without a timeout returns and one that timed out leaves nothing behind.
DrainEnds ==
    \A d \in Drains :
        (drain[d] # "idle" /\ \A l \in Listeners : ln[l] # "open") ~> drain[d] = "done"
=============================================================================
