----------------------------- MODULE Lifecycle -----------------------------
(***************************************************************************)
(* The signal loop of a gate process (package lifecycle) over tableflip's  *)
(* Upgrader, of which only what the package uses is modelled: Upgrade      *)
(* fails or hands the listeners to a child, Stop gives up, and Exit is     *)
(* closed some time after either.                                          *)
(*                                                                         *)
(* SIGINT is treated as SIGTERM is; both are "term".                       *)
(*                                                                         *)
(* Faulty variants, defined next to what they are variants of and used     *)
(* only to show that the properties can fail: StopsFirst, FailureReturns.  *)
(***************************************************************************)
VARIABLES
    signals,      \* the channel of capacity one: "hup", "term" or "none"
    watcher,      \* where watchSignals is
    terminating,  \* the atomic flag
    done,         \* the channel Close closes is closed
    flip,         \* tableflip: what became of the listeners
    exit          \* the channel Exit returns is closed

vars == <<signals, watcher, terminating, done, flip, exit>>

\* New, once signal.Notify and the goroutine are in place.
Init ==
    /\ signals = "none"
    /\ watcher = "select"
    /\ terminating = FALSE
    /\ done = FALSE
    /\ flip = "starting"
    /\ exit = FALSE

\* The runtime sends without blocking: a signal that finds the channel full is
\* lost, and none is delivered after signal.Stop.
Notify(s) ==
    /\ ~done
    /\ signals = "none"
    /\ signals' = s
    /\ UNCHANGED <<watcher, terminating, done, flip, exit>>

Receive ==
    /\ watcher = "select"
    /\ signals # "none"
    /\ watcher' = IF signals = "hup" THEN "upgrade" ELSE "store"
    /\ signals' = "none"
    /\ UNCHANGED <<terminating, done, flip, exit>>

ReceiveDone ==
    /\ watcher = "select"
    /\ done
    /\ watcher' = "returned"
    /\ UNCHANGED <<signals, terminating, done, flip, exit>>

\* Upgrade returns nil: the child has called Ready with the listeners.  Only a
\* process that is ready itself, and neither stopped nor replaced, gets there.
UpgradeSucceeds ==
    /\ watcher = "upgrade"
    /\ flip = "ready"
    /\ flip' = "handed"
    /\ watcher' = "select"
    /\ UNCHANGED <<signals, terminating, done, exit>>

\* Upgrade returns an error, for any reason: it is logged and the loop goes on.
FailureReturns ==
    /\ watcher = "upgrade"
    /\ watcher' = "returned"
    /\ UNCHANGED <<signals, terminating, done, flip, exit>>
UpgradeFails ==
    /\ watcher = "upgrade"
    /\ watcher' = "select"
    /\ UNCHANGED <<signals, terminating, done, flip, exit>>

\* Upgrader.Stop: nothing is left to stop once the listeners are handed over.
Stop == flip' = IF flip = "handed" THEN "handed" ELSE "stopped"

\* terminating.Store(true)
StopsFirst ==
    /\ watcher = "store"
    /\ \/ flip \notin {"stopped", "handed"} /\ Stop /\ UNCHANGED <<watcher, terminating>>
       \/ flip \in {"stopped", "handed"} /\ terminating' = TRUE /\ watcher' = "stop"
          /\ UNCHANGED flip
    /\ UNCHANGED <<signals, done, exit>>
StoreTerminating ==
    /\ watcher = "store"
    /\ terminating' = TRUE
    /\ watcher' = "stop"
    /\ UNCHANGED <<signals, done, flip, exit>>

\* controller.Stop(), and the loop returns.
StopUpgrader ==
    /\ watcher = "stop"
    /\ Stop
    /\ watcher' = "returned"
    /\ UNCHANGED <<signals, terminating, done, exit>>

\* The upgrader's goroutine ends and closes the channel Wait receives from.
CloseExit ==
    /\ flip \in {"handed", "stopped"}
    /\ ~exit
    /\ exit' = TRUE
    /\ UNCHANGED <<signals, watcher, terminating, done, flip>>

\* Manager.Ready, called by the gate's main.
Ready ==
    /\ flip' = IF flip = "starting" THEN "ready" ELSE flip
    /\ UNCHANGED <<signals, watcher, terminating, done, exit>>

\* Manager.Close, called by the gate's main; done again, it changes nothing.
Close ==
    /\ done' = TRUE
    /\ Stop
    /\ UNCHANGED <<signals, watcher, terminating, exit>>

WatcherStep ==
    \/ Receive \/ ReceiveDone
    \/ UpgradeSucceeds \/ UpgradeFails
    \/ StoreTerminating \/ StopUpgrader

\* What happens without the gate's main.
Next ==
    \/ \E s \in {"hup", "term"} : Notify(s)
    \/ WatcherStep
    \/ CloseExit

\* Go schedules the goroutines, and Upgrade returns: it gives a child that does
\* not get ready a minute.
Fairness == WF_vars(WatcherStep) /\ WF_vars(CloseExit)
=============================================================================
