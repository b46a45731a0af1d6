----------------------------- MODULE RateLimit -----------------------------
(***************************************************************************)
(* The per-client rate limiter (package ratelimit): a map of token         *)
(* buckets behind a mutex, filled by Allow, emptied by the sweeper.  Allow *)
(* and Sweep hold the mutex throughout, so each is one step.               *)
(*                                                                         *)
(* Time is the process's monotonic clock, in ticks.  Tokens are counted in *)
(* the ticks it takes to earn them, so that any rate and burst are whole   *)
(* numbers and a refill adds the ticks elapsed: a token costs Cost ticks.  *)
(* The rounding of float64 is not modelled.  A nil limiter, which allows   *)
(* everything, is not modelled either.                                     *)
(*                                                                         *)
(* Faulty variants, defined next to what they are variants of and used     *)
(* only to show that the properties can fail: KeyByAddress, Overfill,      *)
(* SinceUsed, SweepFirst.                                                  *)
(***************************************************************************)
EXTENDS Integers, FiniteSets

CONSTANTS
    Addrs,        \* source addresses: [family, net, host]
    Cost,         \* ticks to earn one token: 1/rate
    Burst,        \* capacity of a bucket, in ticks: burst/rate
    TTL,          \* idle ticks after which a bucket may be evicted
    MaxBuckets,   \* bound of the map; 0 is unlimited
    Interval,     \* ticks between two ticks of the sweeper's ticker
    MaxTime       \* bound on the clock

\* Limiter's comment: ttl must be >= burst/rate.
ASSUME RateLimitAssumption ==
    /\ Addrs \subseteq [family : {"v4", "v6", "text"}, net : Nat, host : Nat]
    /\ Cost \in Nat /\ Burst \in Nat /\ MaxBuckets \in Nat /\ MaxTime \in Nat
    /\ Interval \in Nat \ {0}
    /\ TTL \in Nat /\ TTL >= Burst

VARIABLES
    buckets,   \* key -> [tokens, last], for the keys that have a bucket
    now,       \* the monotonic clock
    ticked,    \* the ticker's channel, which holds at most one tick
    stop,      \* the stop channel is closed
    sweeper,   \* the goroutine of RunSweeper runs
    answer,    \* per key: what its last Allow answered, if at this instant
    since,     \* history: when the window of observation began
    spent      \* history: per network, ticks spent on tracked connections since

window == <<since, spent>>
vars == <<buckets, now, ticked, stop, sweeper, answer, window>>

\* Key: an IPv6 client is its /64, any other source its text.  net.Conn writes
\* an IPv4 address mapped into IPv6 as IPv4, so each source has one text.
KeyByAddress(a) == a
Key(a) == IF a.family = "v6" THEN [a EXCEPT !.host = 0] ELSE a

Keys == {Key(a) : a \in Addrs}

\* Who a source is, for the count of what it spends: the holder of a routed
\* prefix, or of one address.
Client(a) == <<a.family, a.net, IF a.family = "v6" THEN 0 ELSE a.host>>
Clients == {Client(a) : a \in Addrs}

Init ==
    /\ buckets = [k \in {} |-> [tokens |-> 0, last |-> 0]]
    /\ now = 0
    /\ ticked = FALSE /\ stop = FALSE /\ sweeper = TRUE
    /\ answer = [k \in Keys |-> "none"]
    /\ since = 0
    /\ spent = [c \in Clients |-> 0]

\* The clock moves on; the ticker drops a tick nobody has received.
Tick ==
    /\ now < MaxTime
    /\ now' = now + 1
    /\ ticked' = (ticked \/ now' % Interval = 0)
    /\ answer' = [k \in Keys |-> "none"]
    /\ UNCHANGED <<buckets, stop, sweeper, window>>

\* An observer starts counting afresh.
StartWindow ==
    /\ since' = now
    /\ spent' = [c \in Clients |-> 0]
    /\ UNCHANGED <<buckets, now, ticked, stop, sweeper, answer>>

Overfill(n) == n
Cap(n) == IF n > Burst THEN Burst ELSE n

\* The tokens of a bucket brought up to date.
Refilled(b) == Cap(b.tokens + (now - b.last))

Full == MaxBuckets > 0 /\ Cardinality(DOMAIN buckets) >= MaxBuckets

\* Map full: allow without tracking.
AllowUntracked(k) ==
    /\ k \notin DOMAIN buckets
    /\ Full
    /\ answer' = [answer EXCEPT ![k] = "yes"]
    /\ UNCHANGED <<buckets, now, ticked, stop, sweeper, window>>

\* The tokens Allow finds for a key; a key without a bucket gets a full one.
Level(k) == IF k \in DOMAIN buckets THEN Refilled(buckets[k]) ELSE Burst

\* The bucket is created or refilled, and last set, whatever the answer is.
AllowTracked(k, c) ==
    LET cost == IF Level(k) < Cost THEN 0 ELSE Cost
        ok   == ~(Level(k) < Cost)
    IN  /\ k \in DOMAIN buckets \/ ~Full
        /\ buckets' = [j \in DOMAIN buckets \cup {k} |->
                          IF j = k THEN [tokens |-> Level(k) - cost, last |-> now]
                          ELSE buckets[j]]
        /\ answer' = [answer EXCEPT ![k] = IF ok THEN "yes" ELSE "no"]
        /\ spent' = [spent EXCEPT ![c] = @ + cost]
        /\ UNCHANGED <<now, ticked, stop, sweeper, since>>

Allow(a) == AllowUntracked(Key(a)) \/ AllowTracked(Key(a), Client(a))

\* The buckets whose last use is before the cutoff.
SinceUsed(b) == b.last < now
Idle(b) == b.last < now - TTL

\* The buckets a sweep deletes.
SweepFirst == LET S == {k \in DOMAIN buckets : Idle(buckets[k])}
              IN  IF S = {} THEN {} ELSE {CHOOSE k \in S : TRUE}
Swept == {k \in DOMAIN buckets : Idle(buckets[k])}

Sweep == buckets' = [k \in DOMAIN buckets \ Swept |-> buckets[k]]

\* RunSweeper: the select takes a tick or the closed stop channel.
SweepOnTick ==
    /\ sweeper
    /\ ticked
    /\ Sweep
    /\ ticked' = FALSE
    /\ UNCHANGED <<now, stop, sweeper, answer, window>>

SweeperReturns ==
    /\ sweeper /\ stop
    /\ sweeper' = FALSE
    /\ UNCHANGED <<buckets, now, ticked, stop, answer, window>>

CloseStop ==
    /\ ~stop
    /\ stop' = TRUE
    /\ UNCHANGED <<buckets, now, ticked, sweeper, answer, window>>

Next ==
    \/ Tick \/ StartWindow \/ CloseStop
    \/ \E a \in Addrs : Allow(a)
    \/ SweepOnTick \/ SweeperReturns

Spec == Init /\ [][Next]_vars

\* Go schedules the sweeper's goroutine; which of two ready cases its select
\* takes is random, so it may return instead.
LiveSpec == Spec /\ WF_vars(SweepOnTick)

-----------------------------------------------------------------------------
(* Properties *)

\* Every variable has its type: a bucket never holds more than the burst nor
\* less than nothing, and was not used in the future.
TypeOK ==
    /\ DOMAIN buckets \subseteq Keys
    /\ buckets \in [DOMAIN buckets -> [tokens : 0..Burst, last : 0..now]]
    /\ now \in Nat
    /\ ticked \in BOOLEAN /\ stop \in BOOLEAN /\ sweeper \in BOOLEAN
    /\ answer \in [Keys -> {"none", "yes", "no"}]
    /\ since \in 0..now
    /\ spent \in [Clients -> Nat]

\* The limiter's reason to be: in any window of time, the tracked connections of
\* one client cost at most a burst and what refills in the window, however its
\* addresses take turns and wherever the sweeper evicts the bucket in between.
RateBound == \A a \in Addrs : spent[Client(a)] + Level(Key(a)) <= Burst + (now - since)

\* The limiter with its map, its lazy refill, its sweeper and its cap behaves as
\* full buckets that are never evicted: "eviction is then indistinguishable from
\* keeping a full bucket, and never resets a still-throttled" client.
Ideal == INSTANCE TokenBuckets WITH
             level     <- [k \in Keys |-> Level(k)],
             saturated <- Full

EvictionInvisible == Ideal!Spec

\* While the sweeper runs, a bucket that is idle when the ticker fires does not
\* stay: it is evicted, or used again, unless the limiter is told to stop.
IdleSwept ==
    \A k \in Keys :
        (ticked /\ k \in DOMAIN buckets /\ Idle(buckets[k]))
            ~> (k \notin DOMAIN buckets \/ ~Idle(buckets[k]) \/ stop)
=============================================================================
