------------------------------- MODULE Gate -------------------------------
(***************************************************************************)
(* A gate process: the connection server and the signal loop under the     *)
(* main function of a gate, which calls both.  That function belongs to    *)
(* the gates and is modelled from how the packages' comments say they are  *)
(* called: Listen and Serve every route, Ready, Wait; then choose a drain  *)
(* deadline by Terminating, close the listeners, Drain, and Close.         *)
(***************************************************************************)
EXTENDS Proxy

VARIABLES
    signals, watcher, terminating, done, flip, exit,   \* Lifecycle
    main,       \* where the main function is
    deadline    \* the drain deadline it chose

Life == INSTANCE Lifecycle

lifeVars == <<signals, watcher, terminating, done, flip, exit>>
mainVars == <<main, deadline>>
gateVars == <<vars, lifeVars, mainVars>>

GateInit ==
    /\ Init
    /\ Life!Init
    /\ main = "starting"
    /\ deadline = "none"

-----------------------------------------------------------------------------
(* The main function *)

\* A step of the server.  Main serves while it starts; while it leaves, it closes
\* the listeners and then drains, again when a Drain has timed out.
ServerStep ==
    /\ Next
    /\ \A l \in Listeners :
           ln'[l] # ln[l] => main = IF ln[l] = "unserved" THEN "starting" ELSE "leaving"
    /\ \A d \in Drains :
           drain[d] = "idle" /\ drain'[d] # "idle" =>
               /\ main = "leaving"
               /\ \A l \in Listeners : ln[l] = "closed"
               /\ \A e \in Drains : result[e] \in {"none", "false"}
    /\ UNCHANGED <<lifeVars, mainVars>>

SignalStep == Life!Next /\ UNCHANGED <<vars, mainVars>>

\* Every route is served: Ready, then Wait.
BecomeReady ==
    /\ main = "starting"
    /\ \A l \in Listeners : ln[l] = "open"
    /\ Life!Ready
    /\ main' = "waiting"
    /\ UNCHANGED <<vars, deadline>>

\* Wait returns, and Terminating chooses between the two deadlines.
Leave ==
    /\ main = "waiting"
    /\ exit
    /\ deadline' = IF terminating THEN "terminate" ELSE "handoff"
    /\ main' = "leaving"
    /\ UNCHANGED <<vars, lifeVars>>

\* Drain has returned, either way: Close.
Finish ==
    /\ main = "leaving"
    /\ \E d \in Drains : result[d] \in {"true", "false"}
    /\ \A d \in Drains : result[d] # "waiting"
    /\ Life!Close
    /\ main' = "finished"
    /\ UNCHANGED <<vars, deadline>>

GateNext == ServerStep \/ SignalStep \/ BecomeReady \/ Leave \/ Finish

GateSpec == GateInit /\ [][GateNext]_gateVars

\* Main does not stop on its way: it serves every listener, closes every listener
\* and calls Drain once.
MainStep ==
    \/ /\ ServerStep
       /\ \/ ln' # ln
          \/ drain' # drain /\ \A d \in Drains : result[d] = "none"
    \/ BecomeReady \/ Leave \/ Finish

GateLiveSpec == GateSpec /\ Fairness /\ Life!Fairness /\ WF_gateVars(MainStep)

-----------------------------------------------------------------------------
(* Properties *)

\* Terminating's comment: it "distinguishes SIGTERM/SIGINT from an upgrade handoff
\* so callers can choose an appropriate connection-drain deadline".  Main drains
\* with the deadline of a handoff only when a child has the listeners, however
\* signals, upgrades and Wait interleave.
HandoffHasChild == deadline = "handoff" => flip = "handed"

\* New's comment: "SIGTERM/SIGINT stop accepting and unblock Wait".  A terminating
\* signal that got into the channel, behind any number of upgrades that fail or
\* succeed, ends every accept loop and takes main to its end.
TermFinishes ==
    signals = "term" ~> /\ main = "finished"
                        /\ \A l \in Listeners : loop[l] = "exited"
=============================================================================
