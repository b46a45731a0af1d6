------------------------------ MODULE Verdicts ------------------------------
(***************************************************************************)
(* What the fingerprint store promises about verdicts, without counts,     *)
(* history, metadata, clocks or limits: which verdicts may appear, change  *)
(* and disappear together, and what happens to the cursor with them.       *)
(*                                                                         *)
(* A step is told apart by what it does to the table: Kept fingerprints    *)
(* have a verdict before and after it, New ones only after, Gone ones only *)
(* before.                                                                 *)
(***************************************************************************)
CONSTANTS NoLabel, NoScope, NoCursor

VARIABLES
    verdicts,   \* fingerprint -> [status, label, scope], where there is one
    cursor      \* how far the hub's policy has been applied

vars == <<verdicts, cursor>>

Kept == DOMAIN verdicts \cap DOMAIN verdicts'
New  == DOMAIN verdicts' \ DOMAIN verdicts
Gone == DOMAIN verdicts \ DOMAIN verdicts'

Same(f) == verdicts'[f] = verdicts[f]

Init ==
    /\ \A f \in DOMAIN verdicts : verdicts[f].scope = NoScope
    /\ cursor = NoCursor

\* Clients and limits: at most one newcomer, undecided; an approval never goes.
Traffic ==
    /\ \A f \in Kept : Same(f)
    /\ \A f \in Gone : verdicts[f].status # "approved"
    /\ \A f, g \in New : f = g
    /\ \A f \in New : /\ verdicts'[f].status \in {"pending", "blocked"}
                      /\ verdicts'[f].label = NoLabel
                      /\ verdicts'[f].scope = NoScope
    /\ UNCHANGED cursor

\* The hub or an operator: any number of verdicts, each with a scope only on an
\* approval.  Nothing is forgotten, the place in the hub's policy included.
Decide ==
    /\ Gone = {}
    /\ \A f \in DOMAIN verdicts' :
           \/ f \in Kept /\ Same(f)
           \/ verdicts'[f].scope # NoScope => verdicts'[f].status = "approved"
    /\ cursor' = NoCursor => cursor = NoCursor

\* An operator forgets one fingerprint, approved or not.
Forget(f) ==
    /\ Gone = {f} /\ New = {}
    /\ \A g \in Kept : Same(g)
    /\ UNCHANGED cursor

\* Everything goes, the cursor with it, so that the whole policy comes again.
Reset == DOMAIN verdicts' = {} /\ cursor' = NoCursor

Next ==
    \/ Decide
    \/ Traffic
    \/ \E f \in Gone : Forget(f)
    \/ Reset

Spec == Init /\ [][Next]_vars
=============================================================================
