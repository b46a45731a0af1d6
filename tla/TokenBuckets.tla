---------------------------- MODULE TokenBuckets ----------------------------
(***************************************************************************)
(* What the rate limiter of gatekit promises, without its bucket map: each *)
(* client network owns a full bucket from the start, which refills with    *)
(* time and never overflows; a connection costs one token.  There is no    *)
(* eviction.  While the limiter is saturated, a client with a full bucket  *)
(* may be let in for free.                                                 *)
(*                                                                         *)
(* Tokens are counted in the ticks it takes to earn them: a token costs    *)
(* Cost ticks, that is 1/rate, and a bucket holds at most Burst ticks.     *)
(***************************************************************************)
EXTENDS Integers

CONSTANTS Keys, Cost, Burst

VARIABLES
    level,       \* per key: the bucket, refilled up to this instant
    answer,      \* per key: what the last Allow of this instant answered
    saturated,   \* the limiter tracks as many clients as it can
    now          \* the clock

vars == <<level, answer, saturated, now>>

Fill(n) == IF n > Burst THEN Burst ELSE n

Init ==
    /\ level = [k \in Keys |-> Burst]
    /\ answer = [k \in Keys |-> "none"]
    /\ saturated \in BOOLEAN
    /\ now = 0

\* Time passes, and every bucket gains what passed.
Refill ==
    /\ now' > now
    /\ level' = [k \in Keys |-> Fill(level[k] + (now' - now))]
    /\ answer' = [k \in Keys |-> "none"]

Admit(k) ==
    /\ level[k] >= Cost
    /\ level' = [level EXCEPT ![k] = @ - Cost]
    /\ answer' = [answer EXCEPT ![k] = "yes"]
    /\ UNCHANGED now

AdmitFree(k) ==
    /\ saturated
    /\ level[k] = Burst
    /\ answer' = [answer EXCEPT ![k] = "yes"]
    /\ UNCHANGED <<level, now>>

Deny(k) ==
    /\ level[k] < Cost
    /\ answer' = [answer EXCEPT ![k] = "no"]
    /\ UNCHANGED <<level, now>>

\* The number of tracked clients changes on its own: a sweep.
Resize == UNCHANGED <<level, answer, now>>

Next ==
    \/ Refill
    \/ \E k \in Keys : Admit(k) \/ AdmitFree(k) \/ Deny(k)
    \/ Resize

Spec == Init /\ [][Next]_vars
=============================================================================
