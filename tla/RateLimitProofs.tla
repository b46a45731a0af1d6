-------------------------- MODULE RateLimitProofs --------------------------
(***************************************************************************)
(* Proofs about the rate limiter, for every set of addresses, rate, burst, *)
(* map size and sweep interval, and every ttl of at least burst/rate.      *)
(*                                                                         *)
(* TypeOK is inductive: it bounds every bucket by the burst and its last   *)
(* use by the clock.  With it, an idle bucket has refilled to the burst,   *)
(* which is what a key without a bucket is worth: a sweep changes no       *)
(* Level.  The rate bound and the refinement both rest on that.            *)
(***************************************************************************)
EXTENDS RateLimit, TLAPS

\* A key of the map stands for one client, and a client for one key.
LEMMA KeyOfClient ==
    ASSUME NEW a \in Addrs, NEW b \in Addrs
    PROVE  (Key(a) = Key(b)) <=> (Client(a) = Client(b))
<1> DEFINE Addr == [family : {"v4", "v6", "text"}, net : Nat, host : Nat]
<1>1. a \in Addr /\ b \in Addr
  BY RateLimitAssumption
<1>2. PICK x \in Addr, y \in Addr : x = a /\ y = b
  BY <1>1
<1>3. (Key(x) = Key(y)) <=> (Client(x) = Client(y))
  <2>1. CASE x.family = "v6" /\ y.family = "v6"
    BY <2>1 DEF Key, Client
  <2>2. CASE x.family = "v6" /\ y.family # "v6"
    <3>1. Key(x).family = "v6" /\ Key(y).family # "v6"
      BY <2>2 DEF Key
    <3> QED  BY <3>1, <2>2 DEF Client
  <2>3. CASE x.family # "v6" /\ y.family = "v6"
    <3>1. Key(x).family # "v6" /\ Key(y).family = "v6"
      BY <2>3 DEF Key
    <3> QED  BY <3>1, <2>3 DEF Client
  <2>4. CASE x.family # "v6" /\ y.family # "v6"
    BY <2>4 DEF Key, Client
  <2> QED  BY <2>1, <2>2, <2>3, <2>4
<1> QED  BY <1>2, <1>3

\* A key without a bucket, or one idle longer than the ttl, is worth a burst.
LEMMA LevelType ==
    ASSUME TypeOK, NEW k \in Keys
    PROVE  /\ Level(k) \in 0..Burst
           /\ (k \in DOMAIN buckets /\ Idle(buckets[k])) => Level(k) = Burst
  BY RateLimitAssumption DEF TypeOK, Level, Refilled, Cap, Idle

LEMMA KeysClients ==
    ASSUME NEW a \in Addrs
    PROVE  Key(a) \in Keys /\ Client(a) \in Clients
  BY DEF Keys, Clients

LEMMA TypeInit == Init => TypeOK
<1> SUFFICES ASSUME Init PROVE TypeOK
  OBVIOUS
<1>1. DOMAIN buckets = {} /\ buckets \in [{} -> [tokens : 0..Burst, last : 0..now]]
  BY DEF Init
<1>2. ticked \in BOOLEAN /\ stop \in BOOLEAN /\ sweeper \in BOOLEAN
  BY DEF Init
<1>3. now \in Nat /\ since \in 0..now
  BY DEF Init
<1>4. answer \in [Keys -> {"none", "yes", "no"}] /\ spent \in [Clients -> Nat]
  BY DEF Init
<1> QED  BY <1>1, <1>2, <1>3, <1>4 DEF TypeOK

\* What Allow does to the map, whatever it answers.
LEMMA TrackedStep ==
    ASSUME TypeOK, NEW k \in Keys, NEW c \in Clients, AllowTracked(k, c)
    PROVE  \E cost \in {0, Cost} :
             /\ IF Level(k) < Cost THEN cost = 0 ELSE cost = Cost
             /\ cost <= Level(k)
             /\ DOMAIN buckets' = DOMAIN buckets \cup {k}
             /\ buckets'[k] = [tokens |-> Level(k) - cost, last |-> now]
             /\ \A j \in DOMAIN buckets \ {k} : buckets'[j] = buckets[j]
             /\ spent' = [spent EXCEPT ![c] = @ + cost]
             /\ answer' = [answer EXCEPT ![k] = IF Level(k) < Cost THEN "no" ELSE "yes"]
             /\ buckets' \in [DOMAIN buckets \cup {k} -> [tokens : 0..Burst, last : 0..now]]
<1>1. Level(k) \in 0..Burst
  BY LevelType
<1> DEFINE cost == IF Level(k) < Cost THEN 0 ELSE Cost
<1>2. cost \in {0, Cost} /\ cost <= Level(k) /\ cost \in Nat
  BY <1>1, RateLimitAssumption
<1>3. buckets' = [j \in DOMAIN buckets \cup {k} |->
                    IF j = k THEN [tokens |-> Level(k) - cost, last |-> now]
                    ELSE buckets[j]]
  BY DEF AllowTracked
<1>4. /\ spent' = [spent EXCEPT ![c] = @ + cost]
      /\ answer' = [answer EXCEPT ![k] = IF Level(k) < Cost THEN "no" ELSE "yes"]
  BY DEF AllowTracked
<1>5. Level(k) - cost \in 0..Burst /\ now \in 0..now
  BY <1>1, <1>2, RateLimitAssumption DEF TypeOK
<1> HIDE DEF cost
<1>6. buckets' \in [DOMAIN buckets \cup {k} -> [tokens : 0..Burst, last : 0..now]]
  BY <1>3, <1>5 DEF TypeOK
<1>7. IF Level(k) < Cost THEN cost = 0 ELSE cost = Cost
  BY DEF cost
<1> QED  BY <1>2, <1>3, <1>4, <1>6, <1>7

LEMMA TypeStep ==
    ASSUME TypeOK, [Next]_vars
    PROVE  TypeOK'
<1> USE RateLimitAssumption
<1>1. CASE Tick
  <2>1. now' = now + 1 /\ 0..now \subseteq 0..now' /\ now' \in Nat
    BY <1>1 DEF Tick, TypeOK
  <2>2. buckets' \in [DOMAIN buckets' -> [tokens : 0..Burst, last : 0..now']]
    BY <1>1, <2>1 DEF Tick, TypeOK
  <2>3. ticked' \in BOOLEAN
    BY <1>1 DEF Tick, TypeOK
  <2> QED  BY <1>1, <2>1, <2>2, <2>3 DEF Tick, TypeOK, window
<1>2. CASE StartWindow
  BY <1>2 DEF StartWindow, TypeOK
<1>3. CASE CloseStop
  BY <1>3 DEF CloseStop, TypeOK, window
<1>4. ASSUME NEW a \in Addrs, AllowUntracked(Key(a))
      PROVE  TypeOK'
  BY <1>4, KeysClients DEF AllowUntracked, TypeOK, window
<1>5. ASSUME NEW a \in Addrs, AllowTracked(Key(a), Client(a))
      PROVE  TypeOK'
  <2>1. Key(a) \in Keys /\ Client(a) \in Clients
    BY KeysClients
  <2>2. PICK cost \in {0, Cost} :
             /\ DOMAIN buckets' = DOMAIN buckets \cup {Key(a)}
             /\ spent' = [spent EXCEPT ![Client(a)] = @ + cost]
             /\ answer' = [answer EXCEPT ![Key(a)] = IF Level(Key(a)) < Cost THEN "no" ELSE "yes"]
             /\ buckets' \in [DOMAIN buckets \cup {Key(a)} -> [tokens : 0..Burst, last : 0..now]]
    BY <1>5, <2>1, TrackedStep
  <2>3. UNCHANGED <<now, ticked, stop, sweeper, since>>
    BY <1>5 DEF AllowTracked
  <2> QED  BY <2>1, <2>2, <2>3 DEF TypeOK
<1>6. CASE SweepOnTick
  BY <1>6 DEF SweepOnTick, Sweep, Swept, TypeOK, window
<1>7. CASE SweeperReturns
  BY <1>7 DEF SweeperReturns, TypeOK, window
<1>8. CASE UNCHANGED vars
  BY <1>8 DEF vars, TypeOK, window
<1> QED  BY <1>1, <1>2, <1>3, <1>4, <1>5, <1>6, <1>7, <1>8 DEF Next, Allow

\* Buckets stay between empty and the burst, and are never used in the future.
THEOREM LimiterTypes == Spec => []TypeOK
<1>1. TypeOK /\ [Next]_vars => TypeOK'
  BY TypeStep
<1> QED  BY TypeInit, <1>1, PTL DEF Spec

\* How a step changes what a key is worth: a tick refills, an admission spends,
\* a sweep and everything else leave it alone.
LEMMA LevelStep ==
    ASSUME TypeOK, [Next]_vars, NEW k \in Keys
    PROVE  /\ Tick => Level(k)' = Cap(Level(k) + 1)
           /\ (now' = now /\ ~(\E a \in Addrs : AllowTracked(Key(a), Client(a))))
                  => Level(k)' = Level(k)
<1> USE RateLimitAssumption
<1>1. ASSUME Tick PROVE Level(k)' = Cap(Level(k) + 1)
  <2>1. now' = now + 1 /\ buckets' = buckets /\ now \in Nat
    BY <1>1 DEF Tick, TypeOK
  <2>2. CASE k \in DOMAIN buckets
    <3>1. PICK b \in [tokens : 0..Burst, last : 0..now] : b = buckets[k]
      BY <2>2 DEF TypeOK
    <3> QED  BY <2>1, <2>2, <3>1 DEF Level, Refilled, Cap
  <2>3. CASE k \notin DOMAIN buckets
    BY <2>1, <2>3 DEF Level, Cap
  <2> QED  BY <2>2, <2>3
<1>2. ASSUME now' = now, ~(\E a \in Addrs : AllowTracked(Key(a), Client(a)))
      PROVE  Level(k)' = Level(k)
  <2>1. CASE buckets' = buckets
    BY <1>2, <2>1 DEF Level, Refilled, Cap
  <2>2. CASE SweepOnTick
    <3>1. CASE k \in DOMAIN buckets /\ Idle(buckets[k])
      <4>1. Level(k) = Burst
        BY <3>1, LevelType
      <4>2. k \notin DOMAIN buckets'
        BY <2>2, <3>1 DEF SweepOnTick, Sweep, Swept
      <4> QED  BY <4>1, <4>2 DEF Level
    <3>2. CASE k \notin DOMAIN buckets
      BY <2>2, <3>2 DEF SweepOnTick, Sweep, Swept, Level
    <3>3. CASE k \in DOMAIN buckets /\ ~Idle(buckets[k])
      <4>1. k \in DOMAIN buckets' /\ buckets'[k] = buckets[k]
        BY <2>2, <3>3 DEF SweepOnTick, Sweep, Swept
      <4> QED  BY <1>2, <3>3, <4>1 DEF Level, Refilled, Cap
    <3> QED  BY <3>1, <3>2, <3>3
  <2> QED
    BY <1>2, <2>1, <2>2
    DEF Next, Allow, vars, Tick, StartWindow, CloseStop, AllowUntracked, SweeperReturns, TypeOK
<1> QED  BY <1>1, <1>2

\* An Allow that finds room for the key spends the cost from its bucket only.
LEMMA LevelSpend ==
    ASSUME TypeOK, NEW a \in Addrs, AllowTracked(Key(a), Client(a))
    PROVE  \E cost \in {0, Cost} :
             /\ IF Level(Key(a)) < Cost THEN cost = 0 ELSE cost = Cost
             /\ Level(Key(a))' = Level(Key(a)) - cost
             /\ \A k \in Keys \ {Key(a)} : Level(k)' = Level(k)
             /\ spent' = [spent EXCEPT ![Client(a)] = @ + cost]
             /\ answer' = [answer EXCEPT ![Key(a)] =
                              IF Level(Key(a)) < Cost THEN "no" ELSE "yes"]
<1> USE RateLimitAssumption
<1>1. Key(a) \in Keys /\ Client(a) \in Clients
  BY KeysClients
<1>2. Level(Key(a)) \in 0..Burst
  BY <1>1, LevelType
<1>3. PICK cost \in {0, Cost} :
             /\ IF Level(Key(a)) < Cost THEN cost = 0 ELSE cost = Cost
             /\ cost <= Level(Key(a))
             /\ DOMAIN buckets' = DOMAIN buckets \cup {Key(a)}
             /\ buckets'[Key(a)] = [tokens |-> Level(Key(a)) - cost, last |-> now]
             /\ \A j \in DOMAIN buckets \ {Key(a)} : buckets'[j] = buckets[j]
             /\ spent' = [spent EXCEPT ![Client(a)] = @ + cost]
             /\ answer' = [answer EXCEPT ![Key(a)] =
                              IF Level(Key(a)) < Cost THEN "no" ELSE "yes"]
  BY <1>1, TrackedStep
<1>4. now' = now /\ now \in Nat
  BY DEF AllowTracked, TypeOK
<1>5. Level(Key(a))' = Level(Key(a)) - cost
  <2>1. PICK n \in 0..Burst : n = Level(Key(a)) - cost
    BY <1>2, <1>3
  <2>2. Level(Key(a))' = IF n + (now - now) > Burst THEN Burst ELSE n + (now - now)
    BY <1>3, <1>4, <2>1 DEF Level, Refilled, Cap
  <2> QED  BY <1>4, <2>1, <2>2
<1>6. ASSUME NEW k \in Keys \ {Key(a)} PROVE Level(k)' = Level(k)
  BY <1>3, <1>4 DEF Level, Refilled, Cap
<1> QED  BY <1>3, <1>5, <1>6

LEMMA RateInit == Init => RateBound
<1> SUFFICES ASSUME Init, NEW a \in Addrs
             PROVE  spent[Client(a)] + Level(Key(a)) <= Burst + (now - since)
  BY DEF RateBound
<1> QED  BY KeysClients, RateLimitAssumption DEF Init, Level

LEMMA RateStep ==
    ASSUME TypeOK, RateBound, [Next]_vars
    PROVE  RateBound'
<1> USE RateLimitAssumption
<1> SUFFICES ASSUME NEW b \in Addrs
             PROVE  spent'[Client(b)] + Level(Key(b))' <= Burst + (now' - since')
  BY DEF RateBound
<1>1. /\ Key(b) \in Keys /\ Client(b) \in Clients
      /\ Level(Key(b)) \in 0..Burst
      /\ spent \in [Clients -> Nat] /\ now \in Nat /\ since \in 0..now
      /\ spent[Client(b)] + Level(Key(b)) <= Burst + (now - since)
  BY KeysClients, LevelType DEF TypeOK, RateBound
<1>2. CASE Tick
  <2>1. Level(Key(b))' = Cap(Level(Key(b)) + 1)
    BY <1>1, <1>2, LevelStep
  <2>2. now' = now + 1 /\ since' = since /\ spent' = spent
    BY <1>2 DEF Tick, window
  <2> QED  BY <1>1, <2>1, <2>2 DEF Cap
<1>3. ASSUME NEW a \in Addrs, AllowTracked(Key(a), Client(a))
      PROVE  spent'[Client(b)] + Level(Key(b))' <= Burst + (now' - since')
  <2>1. PICK cost \in {0, Cost} :
             /\ Level(Key(a))' = Level(Key(a)) - cost
             /\ \A k \in Keys \ {Key(a)} : Level(k)' = Level(k)
             /\ spent' = [spent EXCEPT ![Client(a)] = @ + cost]
    BY <1>3, LevelSpend
  <2>2. now' = now /\ since' = since
    BY <1>3 DEF AllowTracked
  <2>3. CASE Key(a) = Key(b)
    <3>1. Client(a) = Client(b)
      BY <2>3, KeyOfClient
    <3>2. spent'[Client(b)] = spent[Client(b)] + cost
      BY <1>1, <2>1, <3>1
    <3>3. Level(Key(b))' = Level(Key(b)) - cost
      BY <2>1, <2>3
    <3> QED  BY <1>1, <2>2, <3>2, <3>3
  <2>4. CASE Key(a) # Key(b)
    <3>1. Client(a) # Client(b)
      BY <2>4, KeyOfClient
    <3>2. spent'[Client(b)] = spent[Client(b)]
      BY <1>1, <2>1, <3>1
    <3>3. Level(Key(b))' = Level(Key(b))
      BY <1>1, <2>1, <2>4
    <3> QED  BY <1>1, <2>2, <3>2, <3>3
  <2> QED  BY <2>3, <2>4
<1>4. ASSUME ~Tick, ~(\E a \in Addrs : AllowTracked(Key(a), Client(a)))
      PROVE  spent'[Client(b)] + Level(Key(b))' <= Burst + (now' - since')
  <2>1. now' = now
    BY <1>4
    DEF Next, Allow, vars, StartWindow, CloseStop, AllowUntracked, SweeperReturns, SweepOnTick
  <2>2. Level(Key(b))' = Level(Key(b))
    BY <1>1, <1>4, <2>1, LevelStep
  <2>3. CASE StartWindow
    BY <1>1, <2>1, <2>2, <2>3 DEF StartWindow
  <2>4. CASE UNCHANGED window
    BY <1>1, <2>1, <2>2, <2>4 DEF window
  <2> QED
    BY <1>4, <2>3, <2>4
    DEF Next, Allow, vars, CloseStop, AllowUntracked, SweeperReturns, SweepOnTick
<1> QED  BY <1>2, <1>3, <1>4

\* In every window, a client's tracked connections cost at most a burst and the
\* refill of the window, across its addresses and across evictions.
THEOREM RateSafe == Spec => []RateBound
<1>1. TypeOK /\ RateBound /\ [Next]_vars => RateBound'
  BY RateStep
<1> QED  BY RateInit, LimiterTypes, <1>1, PTL DEF Spec

LEMMA RefineInit == Init => Ideal!Init
  BY DEF Init, Ideal!Init, Level, Full

LEMMA RefineStep ==
    ASSUME TypeOK, [Next]_vars
    PROVE  [Ideal!Next]_(Ideal!vars)
<1> USE RateLimitAssumption
<1> DEFINE level == [k \in Keys |-> Level(k)]
<1>1. CASE Tick
  <2>1. \A k \in Keys : Level(k)' = Cap(Level(k) + 1)
    BY <1>1, LevelStep
  <2>2. now' = now + 1 /\ now \in Nat /\ answer' = [k \in Keys |-> "none"]
    BY <1>1 DEF Tick, TypeOK
  <2>3. now' - now = 1 /\ now' > now
    BY <2>2
  <2>4. level' = [k \in Keys |-> Ideal!Fill(level[k] + (now' - now))]
    BY <2>1, <2>3 DEF Ideal!Fill, Cap
  <2>5. Ideal!Refill
    BY <2>2, <2>3, <2>4 DEF Ideal!Refill
  <2> QED  BY <2>5 DEF Ideal!Next
<1>2. ASSUME NEW a \in Addrs, AllowTracked(Key(a), Client(a))
      PROVE  Ideal!Next
  <2>1. PICK cost \in {0, Cost} :
             /\ IF Level(Key(a)) < Cost THEN cost = 0 ELSE cost = Cost
             /\ Level(Key(a))' = Level(Key(a)) - cost
             /\ \A k \in Keys \ {Key(a)} : Level(k)' = Level(k)
             /\ answer' = [answer EXCEPT ![Key(a)] =
                              IF Level(Key(a)) < Cost THEN "no" ELSE "yes"]
    BY <1>2, LevelSpend
  <2>2. Key(a) \in Keys /\ Level(Key(a)) \in 0..Burst /\ now' = now
    BY <1>2, KeysClients, LevelType DEF AllowTracked
  <2>3. level' = [level EXCEPT ![Key(a)] = @ - cost]
    BY <2>1, <2>2
  <2>4. CASE Level(Key(a)) < Cost
    <3>1. level' = level
      BY <2>1, <2>2, <2>4
    <3>2. Ideal!Deny(Key(a))
      BY <2>1, <2>2, <2>4, <3>1 DEF Ideal!Deny
    <3> QED  BY <2>2, <3>2 DEF Ideal!Next
  <2>5. CASE ~(Level(Key(a)) < Cost)
    <3>1. Ideal!Admit(Key(a))
      BY <2>1, <2>2, <2>3, <2>5 DEF Ideal!Admit
    <3> QED  BY <2>2, <3>1 DEF Ideal!Next
  <2> QED  BY <2>4, <2>5
<1>3. ASSUME ~Tick, ~(\E a \in Addrs : AllowTracked(Key(a), Client(a)))
      PROVE  Ideal!Next \/ UNCHANGED Ideal!vars
  <2>1. now' = now
    BY <1>3
    DEF Next, Allow, vars, StartWindow, CloseStop, AllowUntracked, SweeperReturns, SweepOnTick
  <2>2. level' = level
    BY <1>3, <2>1, LevelStep
  <2>3. ASSUME NEW a \in Addrs, AllowUntracked(Key(a))
        PROVE  Ideal!Next
    <3>1. Key(a) \in Keys /\ Level(Key(a)) = Burst /\ Full
      BY <2>3, KeysClients DEF AllowUntracked, Level
    <3>2. answer' = [answer EXCEPT ![Key(a)] = "yes"]
      BY <2>3 DEF AllowUntracked
    <3>3. Ideal!AdmitFree(Key(a))
      BY <2>1, <2>2, <3>1, <3>2 DEF Ideal!AdmitFree
    <3> QED  BY <3>1, <3>3 DEF Ideal!Next
  <2>4. CASE answer' = answer
    BY <2>1, <2>2, <2>4 DEF Ideal!Next, Ideal!Resize
  <2> QED
    BY <1>3, <2>3, <2>4
    DEF Next, Allow, vars, StartWindow, CloseStop, SweeperReturns, SweepOnTick
<1> QED  BY <1>1, <1>2, <1>3

\* The limiter implements token buckets that are never evicted: no order of
\* connections, sweeps and cap overflows tells it from them.
THEOREM RefinesBuckets == Spec => EvictionInvisible
<1>1. TypeOK /\ [Next]_vars => [Ideal!Next]_(Ideal!vars)
  BY RefineStep
<1> QED  BY RefineInit, LimiterTypes, <1>1, PTL DEF Spec, EvictionInvisible, Ideal!Spec
=============================================================================
