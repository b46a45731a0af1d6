--------------------------- MODULE StartupProofs ---------------------------
(***************************************************************************)
(* Proofs about the start of a gate, for any number of processes, clients  *)
(* and methods, any kind of legacy column and any number of restarts.      *)
(*                                                                         *)
(* MigratedIsFolded is not inductive: a fold writes bags that were read    *)
(* earlier, so FoldInv says of them what must be true of the rows.         *)
(* ServesOwnMethod is not either: MethodInv adds what the recorded method  *)
(* says about the rows, and that a reset left none when the method is      *)
(* about to be replaced.  ResetKeepsOwnRows and RefreshedBeforeStartKept   *)
(* compare a write with what its process read earlier: ResetInv and        *)
(* KeptInv bound how far the two can be apart, KeptInv for two processes.  *)
(***************************************************************************)
EXTENDS Startup, TLAPS

Labels == {"down", "marker", "columns", "read", "fold", "bound",
           "method", "reset", "record", "serving"}

TypeOK ==
    /\ DOMAIN rows \subseteq Fps /\ rows \in [DOMAIN rows -> Rows]
    /\ method \in Methods \cup {NoMethod}
    /\ pc \in [Procs -> Labels]
    /\ conf \in [Procs -> Confs]
    /\ \A p \in Procs : updates[p] \in [DOMAIN updates[p] -> Bags]
    /\ updates = [p \in Procs |-> updates[p]]
    /\ version \in Nat /\ markedAt \in Nat
    /\ started \in [Procs -> [at : Nat, left : Nat]]

FoldInv ==
    /\ MigratedIsFolded
    /\ markedAt <= version
    /\ ~columns => \A f \in DOMAIN rows : rows[f].raw = "null"
    /\ \A p \in Procs, f \in DOMAIN rows :
           (pc[p] = "fold" /\ HasValue(rows[f].raw))
               => (f \in DOMAIN updates[p] /\ updates[p][f].key # "absent")

MethodInv ==
    /\ \A p, q \in Procs : (pc[p] # "down" /\ pc[q] # "down")
                               => conf[p].method = conf[q].method
    /\ \A f \in DOMAIN rows : f.method \in {method, NoMethod}
    /\ \A p \in Procs : pc[p] = "serving" => conf[p].method = method
    /\ \A p \in Procs : (pc[p] = "record" /\ method \notin {conf[p].method, NoMethod})
                            => DOMAIN rows = {}

LEMMA EmptyBagType == EmptyBag \in Bags
  BY DEF EmptyBag, Bags

\* What the fold does to a bag: the sighting that wrote it stays, and so does its
\* key if it has one.
LEMMA FoldBag ==
    ASSUME NEW r \in Rows
    PROVE  /\ Fold(r) \in Bags /\ Fold(r).at = r.bag.at
           /\ r.bag.key # "absent" => Fold(r).key = r.bag.key
           /\ r.bag.key = "absent" => Fold(r).key \in {"absent", "folded"}
           /\ HasValue(r.raw) => Fold(r).key # "absent"
<1>1. PICK a \in Nat, k \in {"absent", "folded", "sighted"}, w \in Raw :
        r = [bag |-> [at |-> a, key |-> k], raw |-> w]
  <2>1. PICK b \in Bags, w \in Raw : r = [bag |-> b, raw |-> w]
    BY DEF Rows
  <2>2. PICK a \in Nat, k \in {"absent", "folded", "sighted"} : b = [at |-> a, key |-> k]
    BY DEF Bags
  <2> QED  BY <2>1, <2>2
<1>2. PICK b : b = r.bag /\ b = [at |-> a, key |-> k]
  BY <1>1
<1>3. [b EXCEPT !.key = "folded"] = [at |-> a, key |-> "folded"]
  BY <1>2
<1>4. Fold(r) = IF w # "null" /\ k = "absent" /\ decodeLegacy(w) = "some"
                THEN [at |-> a, key |-> "folded"] ELSE [at |-> a, key |-> k]
  BY <1>1, <1>2, <1>3 DEF Fold
<1>5. HasValue(w) => w # "null" /\ decodeLegacy(w) = "some"
  BY DEF HasValue
<1> QED  BY <1>1, <1>4, <1>5 DEF Bags

\* What the transaction of the fold does to the rows.
LEMMA CommitFoldRows ==
    ASSUME TypeOK, NEW p \in Procs, CommitFold(p)
    PROVE  /\ DOMAIN rows' = DOMAIN rows
           /\ rows' \in [DOMAIN rows' -> Rows]
           /\ \A f \in DOMAIN rows : rows'[f].raw = rows[f].raw
           /\ \A f \in DOMAIN rows : f \in DOMAIN updates[p] => rows'[f].bag = updates[p][f]
           /\ \A f \in DOMAIN rows : f \notin DOMAIN updates[p] => rows'[f] = rows[f]
<1>1. DOMAIN rows' = DOMAIN rows /\ rows' = [f \in DOMAIN rows |-> rows'[f]]
  BY DEF CommitFold
<1>2. ASSUME NEW f \in DOMAIN rows, f \in DOMAIN updates[p]
      PROVE  rows'[f] \in Rows /\ rows'[f].raw = rows[f].raw /\ rows'[f].bag = updates[p][f]
  <2>1. PICK r \in Rows : r = rows[f]
    BY DEF TypeOK
  <2>2. PICK b \in Bags : b = updates[p][f]
    BY <1>2 DEF TypeOK
  <2>3. rows'[f] = [r EXCEPT !.bag = b]
    BY <1>2, <2>1, <2>2 DEF CommitFold
  <2>4. [r EXCEPT !.bag = b] = [bag |-> b, raw |-> r.raw] /\ r.raw \in Raw
    BY DEF Rows
  <2>5. rows'[f] = [bag |-> b, raw |-> r.raw]
    BY <2>3, <2>4
  <2> QED  BY <2>1, <2>2, <2>4, <2>5 DEF Rows
<1>3. ASSUME NEW f \in DOMAIN rows, f \notin DOMAIN updates[p] PROVE rows'[f] = rows[f]
  BY <1>3 DEF CommitFold
<1>4. ASSUME NEW f \in DOMAIN rows PROVE rows'[f] \in Rows /\ rows'[f].raw = rows[f].raw
  <2>1. CASE f \in DOMAIN updates[p]
    BY <1>2, <2>1
  <2>2. CASE f \notin DOMAIN updates[p]
    BY <1>3, <2>2 DEF TypeOK
  <2> QED  BY <2>1, <2>2
<1>5. rows' \in [DOMAIN rows' -> Rows]
  BY <1>1, <1>4
<1>6. \A f \in DOMAIN rows : f \in DOMAIN updates[p] => rows'[f].bag = updates[p][f]
  BY <1>2
<1> QED  BY <1>1, <1>3, <1>4, <1>5, <1>6

\* boundExistingHistory changes only bags that the fold has made too large.
LEMMA BoundRows ==
    ASSUME TypeOK, NEW p \in Procs, Bound(p)
    PROVE  /\ DOMAIN rows' = DOMAIN rows
           /\ rows' \in [DOMAIN rows' -> Rows]
           /\ \A f \in DOMAIN rows :
                  /\ rows'[f].raw = rows[f].raw
                  /\ \/ rows'[f] = rows[f]
                     \/ /\ rows[f].bag.key = "folded" /\ rows[f].raw = "huge"
                        /\ rows'[f].bag = EmptyBag
<1>1. DOMAIN rows' = DOMAIN rows /\ rows' = [f \in DOMAIN rows |-> rows'[f]]
  BY DEF Bound
<1>2. ASSUME NEW f \in DOMAIN rows
      PROVE  /\ rows'[f] \in Rows /\ rows'[f].raw = rows[f].raw
             /\ \/ rows'[f] = rows[f]
                \/ /\ rows[f].bag.key = "folded" /\ rows[f].raw = "huge"
                   /\ rows'[f].bag = EmptyBag
  <2>1. PICK r \in Rows : r = rows[f]
    BY DEF TypeOK
  <2>2. CASE r.bag.key = "folded" /\ r.raw = "huge"
    <3>1. rows'[f] = [r EXCEPT !.bag = EmptyBag]
      BY <2>1, <2>2 DEF Bound
    <3>2. [r EXCEPT !.bag = EmptyBag] = [bag |-> EmptyBag, raw |-> r.raw]
      BY DEF Rows
    <3> QED  BY <2>1, <2>2, <3>1, <3>2, EmptyBagType DEF Rows
  <2>3. CASE ~(r.bag.key = "folded" /\ r.raw = "huge")
    <3>1. rows'[f] = rows[f]
      BY <2>1, <2>3 DEF Bound
    <3> QED  BY <2>1, <3>1
  <2> QED  BY <2>2, <2>3
<1> QED  BY <1>1, <1>2

\* What a sighting does to the rows.
LEMMA ObserveRows ==
    ASSUME TypeOK, NEW p \in Procs, NEW f \in Fps, NEW key \in {"absent", "sighted"},
           Observe(p, f, key)
    PROVE  /\ DOMAIN rows' = DOMAIN rows \cup {f} /\ DOMAIN rows' \subseteq Fps
           /\ rows' \in [DOMAIN rows' -> Rows]
           /\ rows'[f].bag = [at |-> version + 1, key |-> key]
           /\ rows'[f].bag.at = version + 1
           /\ f \in DOMAIN rows => rows'[f].raw = rows[f].raw
           /\ f \notin DOMAIN rows => rows'[f].raw = IF columns THEN "empty" ELSE "null"
           /\ \A g \in DOMAIN rows \ {f} : rows'[g] = rows[g]
<1>1. DOMAIN rows' = DOMAIN rows \cup {f} /\ DOMAIN rows' \subseteq Fps
  BY DEF Observe, TypeOK
<1>2. PICK w \in Raw : w = IF f \in DOMAIN rows THEN rows[f].raw
                          ELSE IF columns THEN "empty" ELSE "null"
  BY DEF TypeOK, Rows, Raw
<1>3. rows'[f] = [bag |-> [at |-> version + 1, key |-> key], raw |-> w]
  BY <1>2 DEF Observe
<1>4. [at |-> version + 1, key |-> key] \in Bags
  BY DEF Bags, TypeOK
<1>5. \A g \in DOMAIN rows \ {f} : rows'[g] = rows[g]
  BY DEF Observe
<1>6. rows' = [g \in DOMAIN rows \cup {f} |-> rows'[g]]
  BY DEF Observe
<1>7. rows'[f] \in Rows
  BY <1>3, <1>4 DEF Rows
<1>8. rows' \in [DOMAIN rows' -> Rows]
  BY <1>1, <1>5, <1>6, <1>7 DEF TypeOK
<1> QED  BY <1>1, <1>2, <1>3, <1>5, <1>8

LEMMA TypeInit == Init => TypeOK
<1> SUFFICES ASSUME Init PROVE TypeOK
  OBVIOUS
<1>1. DOMAIN rows \subseteq Fps /\ rows \in [DOMAIN rows -> Rows]
  BY EmptyBagType DEF Init, Rows, Raw
<1>2. conf \in [Procs -> Confs]
  <2>1. (CHOOSE m \in Methods : TRUE) \in Methods
    BY StartupAssumption
  <2> QED  BY <2>1 DEF Init, Confs
<1>3. \A p \in Procs : updates[p] \in [DOMAIN updates[p] -> Bags]
  BY DEF Init, Empty
<1>4. /\ method \in Methods \cup {NoMethod}
      /\ pc \in [Procs -> Labels]
      /\ updates = [p \in Procs |-> updates[p]]
      /\ version \in Nat /\ markedAt \in Nat
  BY DEF Init, Labels
<1>5. started \in [Procs -> [at : Nat, left : Nat]]
  BY StartupAssumption DEF Init
<1> QED  BY <1>1, <1>2, <1>3, <1>4, <1>5 DEF TypeOK

LEMMA TypeStep ==
    ASSUME TypeOK, [Next]_vars
    PROVE  TypeOK'
<1>1. ASSUME NEW p \in Procs, NEW c \in Confs, Start(p, c)
      PROVE  TypeOK'
  BY <1>1 DEF Start, TypeOK, Goto, Labels, database, Confs
<1>2. ASSUME NEW p \in Procs, Crash(p)
      PROVE  TypeOK'
  BY <1>2 DEF Crash, TypeOK, Goto, Labels, database, Empty
<1>3. ASSUME NEW p \in Procs, ReadMarker(p) \/ ReadColumns(p) \/ ReadMethod(p) \/ RecordMethod(p)
      PROVE  TypeOK'
  BY <1>3 DEF ReadMarker, ReadColumns, ReadMethod, RecordMethod, TypeOK, Goto, Labels, database, Confs
<1>4. ASSUME NEW p \in Procs, ReadRows(p)
      PROVE  TypeOK'
  <2>1. updates' = [updates EXCEPT ![p] = [f \in DOMAIN rows |-> Fold(rows[f])]]
    BY <1>4 DEF ReadRows
  <2>2. \A f \in DOMAIN rows : Fold(rows[f]) \in Bags
    BY FoldBag DEF TypeOK
  <2>3. \A q \in Procs : updates'[q] \in [DOMAIN updates'[q] -> Bags]
    BY <2>1, <2>2 DEF TypeOK
  <2>4. updates' = [q \in Procs |-> updates'[q]]
    BY <2>1 DEF TypeOK
  <2> QED  BY <1>4, <2>3, <2>4 DEF ReadRows, TypeOK, Goto, Labels, database
<1>5. ASSUME NEW p \in Procs, CommitFold(p)
      PROVE  TypeOK'
  <2>1. DOMAIN rows' = DOMAIN rows /\ rows' \in [DOMAIN rows' -> Rows]
    BY <1>5, CommitFoldRows
  <2>2. \A q \in Procs : updates'[q] \in [DOMAIN updates'[q] -> Bags]
    BY <1>5 DEF CommitFold, TypeOK, Empty
  <2>3. updates' = [q \in Procs |-> updates'[q]]
    BY <1>5 DEF CommitFold, TypeOK
  <2> QED  BY <1>5, <2>1, <2>2, <2>3 DEF CommitFold, TypeOK, Goto, Labels
<1>6. ASSUME NEW p \in Procs, Bound(p)
      PROVE  TypeOK'
  <2>1. DOMAIN rows' = DOMAIN rows /\ rows' \in [DOMAIN rows' -> Rows]
    BY <1>6, BoundRows
  <2> QED  BY <1>6, <2>1 DEF Bound, TypeOK, Goto, Labels
<1>7. ASSUME NEW p \in Procs, Reset(p)
      PROVE  TypeOK'
  BY <1>7 DEF Reset, TypeOK, Goto, Labels
<1>8. ASSUME NEW p \in Procs, NEW f \in Fps, NEW key \in {"absent", "sighted"},
             Observe(p, f, key)
      PROVE  TypeOK'
  <2>1. DOMAIN rows' \subseteq Fps /\ rows' \in [DOMAIN rows' -> Rows]
    BY <1>8, ObserveRows
  <2> QED  BY <1>8, <2>1 DEF Observe, TypeOK
<1>9. CASE UNCHANGED vars
  BY <1>9 DEF vars, database, TypeOK
<1> QED
  BY <1>1, <1>2, <1>3, <1>4, <1>5, <1>6, <1>7, <1>8, <1>9 DEF Next, StartStep
-----------------------------------------------------------------------------

LEMMA FoldInit == Init => FoldInv
  BY DEF Init, FoldInv, MigratedIsFolded

LEMMA FoldStep ==
    ASSUME TypeOK, FoldInv, [Next]_vars
    PROVE  FoldInv'
<1>1. ASSUME NEW p \in Procs, NEW c \in Confs, Start(p, c)
      PROVE  FoldInv'
  BY <1>1 DEF Start, TypeOK, Goto, database, FoldInv, MigratedIsFolded
<1>2. ASSUME NEW p \in Procs, Crash(p)
      PROVE  FoldInv'
  BY <1>2 DEF Crash, TypeOK, Goto, database, FoldInv, MigratedIsFolded
<1>3. ASSUME NEW p \in Procs, ReadMarker(p) \/ ReadMethod(p) \/ RecordMethod(p)
      PROVE  FoldInv'
  <2>1. PICK label \in Labels \ {"fold"} : pc' = [pc EXCEPT ![p] = label]
    BY <1>3 DEF ReadMarker, ReadMethod, RecordMethod, Goto, Labels
  <2>2. UNCHANGED <<rows, columns, migrated, updates, version, markedAt>>
    BY <1>3 DEF ReadMarker, ReadMethod, RecordMethod, database
  <2> QED  BY <2>1, <2>2 DEF TypeOK, FoldInv, MigratedIsFolded
<1>4. ASSUME NEW p \in Procs, ReadColumns(p)
      PROVE  FoldInv'
  <2>1. MigratedIsFolded'
    BY <1>4 DEF ReadColumns, FoldInv, MigratedIsFolded, HasValue
  <2>2. markedAt' <= version'
    BY <1>4 DEF ReadColumns, FoldInv, TypeOK
  <2> QED  BY <1>4, <2>1, <2>2 DEF ReadColumns, TypeOK, Goto, FoldInv
<1>5. ASSUME NEW p \in Procs, ReadRows(p)
      PROVE  FoldInv'
  <2>1. \A f \in DOMAIN rows : HasValue(rows[f].raw) => Fold(rows[f]).key # "absent"
    BY FoldBag DEF TypeOK
  <2>2. updates' = [updates EXCEPT ![p] = [f \in DOMAIN rows |-> Fold(rows[f])]]
    BY <1>5 DEF ReadRows
  <2>3. UNCHANGED <<database, version, markedAt>> /\ pc' = [pc EXCEPT ![p] = "fold"]
    BY <1>5 DEF ReadRows, Goto
  <2>4. ASSUME NEW q \in Procs, NEW f \in DOMAIN rows', pc'[q] = "fold", HasValue(rows'[f].raw)
        PROVE  f \in DOMAIN updates'[q] /\ updates'[q][f].key # "absent"
    <3>1. CASE q = p
      BY <2>1, <2>2, <2>3, <2>4, <3>1 DEF TypeOK, database
    <3>2. CASE q # p
      BY <2>2, <2>3, <2>4, <3>2 DEF TypeOK, database, FoldInv
    <3> QED  BY <3>1, <3>2
  <2> QED  BY <2>3, <2>4 DEF FoldInv, MigratedIsFolded, database
<1>6. ASSUME NEW p \in Procs, CommitFold(p)
      PROVE  FoldInv'
  <2>1. /\ DOMAIN rows' = DOMAIN rows
        /\ \A f \in DOMAIN rows : rows'[f].raw = rows[f].raw
        /\ \A f \in DOMAIN rows : f \in DOMAIN updates[p] => rows'[f].bag = updates[p][f]
    BY <1>6, CommitFoldRows
  <2>2. \A f \in DOMAIN rows' : HasValue(rows'[f].raw) => rows'[f].bag.key # "absent"
    BY <1>6, <2>1 DEF CommitFold, FoldInv
  <2>3. ASSUME NEW q \in Procs, NEW f \in DOMAIN rows', pc'[q] = "fold", HasValue(rows'[f].raw)
        PROVE  f \in DOMAIN updates'[q] /\ updates'[q][f].key # "absent"
    BY <1>6, <2>1, <2>3 DEF CommitFold, Goto, TypeOK, FoldInv
  <2>4. markedAt' <= version' /\ UNCHANGED columns
    BY <1>6 DEF CommitFold, FoldInv, TypeOK
  <2> QED  BY <2>1, <2>2, <2>3, <2>4 DEF FoldInv, MigratedIsFolded
<1>7. ASSUME NEW p \in Procs, Bound(p)
      PROVE  FoldInv'
  <2>1. /\ DOMAIN rows' = DOMAIN rows
        /\ \A f \in DOMAIN rows : /\ rows'[f].raw = rows[f].raw
                                  /\ HasValue(rows[f].raw) => rows'[f] = rows[f]
    BY <1>7, BoundRows DEF HasValue
  <2> QED  BY <1>7, <2>1 DEF Bound, TypeOK, Goto, FoldInv, MigratedIsFolded
<1>8. ASSUME NEW p \in Procs, Reset(p)
      PROVE  FoldInv'
  BY <1>8 DEF Reset, FoldInv, MigratedIsFolded
<1>9. ASSUME NEW p \in Procs, NEW f \in Fps, NEW key \in {"absent", "sighted"},
             Observe(p, f, key)
      PROVE  FoldInv'
  <2>1. /\ DOMAIN rows' = DOMAIN rows \cup {f}
        /\ \A g \in DOMAIN rows : rows'[g].raw = rows[g].raw
        /\ \A g \in DOMAIN rows \ {f} : rows'[g] = rows[g]
        /\ f \notin DOMAIN rows => ~HasValue(rows'[f].raw)
        /\ (f \notin DOMAIN rows /\ ~columns) => rows'[f].raw = "null"
    BY <1>9, ObserveRows DEF HasValue
  <2>2. rows'[f].bag.at > markedAt /\ markedAt <= version'
    BY <1>9, ObserveRows DEF Observe, TypeOK, FoldInv
  <2>3. UNCHANGED <<columns, migrated, pc, updates, markedAt>>
    BY <1>9 DEF Observe
  <2> QED  BY <2>1, <2>2, <2>3 DEF FoldInv, MigratedIsFolded
<1>10. CASE UNCHANGED vars
  BY <1>10 DEF vars, database, FoldInv, MigratedIsFolded
<1> QED
  BY <1>1, <1>2, <1>3, <1>4, <1>5, <1>6, <1>7, <1>8, <1>9, <1>10 DEF Next, StartStep

\* A database marked as migrated has left no legacy value behind, through any
\* number of overlapping starts, sightings and crashes: where the key is missing,
\* a sighting after the migration has replaced the bag.
THEOREM MigrationComplete == Spec => []MigratedIsFolded
<1>1. TypeOK /\ FoldInv /\ [Next]_vars => TypeOK' /\ FoldInv'
  BY TypeStep, FoldStep
<1>2. FoldInv => MigratedIsFolded
  BY DEF FoldInv
<1> QED  BY TypeInit, FoldInit, <1>1, <1>2, PTL DEF Spec
-----------------------------------------------------------------------------

LEMMA MethodInit == Init => MethodInv
  BY DEF Init, MethodInv, Fps

LEMMA MethodStep ==
    ASSUME TypeOK, MethodInv, [Next]_vars
    PROVE  MethodInv'
<1>1. ASSUME NEW p \in Procs, NEW c \in Confs, Start(p, c)
      PROVE  MethodInv'
  BY <1>1 DEF Start, TypeOK, Goto, database, MethodInv, Confs
<1>2. ASSUME NEW p \in Procs, Crash(p)
      PROVE  MethodInv'
  BY <1>2 DEF Crash, TypeOK, Goto, database, MethodInv
<1>3. ASSUME NEW p \in Procs, ReadMarker(p) \/ ReadColumns(p) \/ ReadRows(p)
      PROVE  MethodInv'
  <2>1. PICK label \in {"columns", "bound", "read", "fold"} : pc' = [pc EXCEPT ![p] = label]
    BY <1>3 DEF ReadMarker, ReadColumns, ReadRows, Goto
  <2>2. pc[p] # "down" /\ UNCHANGED <<rows, method, conf>>
    BY <1>3 DEF ReadMarker, ReadColumns, ReadRows, database
  <2> QED  BY <2>1, <2>2 DEF TypeOK, MethodInv
<1>4. ASSUME NEW p \in Procs, CommitFold(p) \/ Bound(p)
      PROVE  MethodInv'
  <2>1. DOMAIN rows' = DOMAIN rows
    BY <1>4 DEF CommitFold, Bound
  <2>2. PICK label \in {"bound", "method"} : pc' = [pc EXCEPT ![p] = label]
    BY <1>4 DEF CommitFold, Bound, Goto
  <2>3. pc[p] # "down" /\ UNCHANGED <<method, conf>>
    BY <1>4 DEF CommitFold, Bound
  <2> QED  BY <2>1, <2>2, <2>3 DEF TypeOK, MethodInv
<1>5. ASSUME NEW p \in Procs, ReadMethod(p)
      PROVE  MethodInv'
  BY <1>5 DEF ReadMethod, TypeOK, Goto, database, MethodInv
<1>6. ASSUME NEW p \in Procs, Reset(p)
      PROVE  MethodInv'
  <2>1. DOMAIN rows' = {}
    BY <1>6 DEF Reset
  <2> QED  BY <1>6, <2>1 DEF Reset, TypeOK, Goto, MethodInv
<1>7. ASSUME NEW p \in Procs, RecordMethod(p)
      PROVE  MethodInv'
  <2>1. /\ pc[p] = "record" /\ method' = conf[p].method
        /\ pc' = [pc EXCEPT ![p] = "serving"] /\ UNCHANGED <<rows, conf>>
    BY <1>7 DEF RecordMethod, Goto
  <2>2. \A f \in DOMAIN rows' : f.method \in {method', NoMethod}
    BY <2>1 DEF MethodInv
  <2>3. \A q \in Procs : pc[q] # "down" => conf[q].method = method'
    BY <2>1 DEF MethodInv
  <2> QED  BY <2>1, <2>2, <2>3 DEF TypeOK, MethodInv
<1>8. ASSUME NEW p \in Procs, NEW f \in Fps, NEW key \in {"absent", "sighted"},
             Observe(p, f, key)
      PROVE  MethodInv'
  <2>1. /\ DOMAIN rows' = DOMAIN rows \cup {f}
        /\ pc[p] = "serving" /\ UNCHANGED <<method, pc, conf>>
        /\ f.method \in {conf[p].method, NoMethod}
    BY <1>8 DEF Observe
  <2>2. \A q \in Procs : pc[q] # "down" => conf[q].method = method
    BY <2>1 DEF MethodInv
  <2> QED  BY <2>1, <2>2 DEF MethodInv
<1>9. CASE UNCHANGED vars
  BY <1>9 DEF vars, database, MethodInv
<1> QED
  BY <1>1, <1>2, <1>3, <1>4, <1>5, <1>6, <1>7, <1>8, <1>9 DEF Next, StartStep

LEMMA MethodAlways == Spec => [](TypeOK /\ MethodInv)
<1>1. TypeOK /\ MethodInv /\ [Next]_vars => TypeOK' /\ MethodInv'
  BY TypeStep, MethodStep
<1> QED  BY TypeInit, MethodInit, <1>1, PTL DEF Spec

\* A gate that serves has only rows of its own method or from before methods were
\* recorded, wherever an earlier change of method was interrupted.
THEOREM MethodSafe == Spec => []ServesOwnMethod
<1>1. MethodInv => ServesOwnMethod
  BY DEF MethodInv, ServesOwnMethod
<1> QED  BY MethodAlways, <1>1, PTL
-----------------------------------------------------------------------------

\* Of the rows, and of the bags about to be written, that belong to the method a
\* process is about to reset for: all are younger than its start.  The rows were
\* inserted since, so that no value in their columns can cost them their bags.
ResetInv ==
    /\ \A p \in Procs : started[p].at <= version
    /\ \A p \in Procs : \A f \in DOMAIN updates[p] :
           (pc[p] = "fold" /\ f.method = conf[p].method) => method = conf[p].method
    /\ \A p \in Procs, f \in DOMAIN rows :
           (pc[p] = "reset" /\ f.method = conf[p].method)
               => rows[f].bag.at > started[p].at /\ rows[f].raw # "huge"
    /\ \A p, q \in Procs : \A f \in DOMAIN updates[q] :
           (pc[p] = "reset" /\ pc[q] = "fold" /\ f.method = conf[p].method)
               => updates[q][f].at > started[p].at

LEMMA ResetInit == Init => ResetInv
  BY DEF Init, ResetInv, Fps

LEMMA ResetStep ==
    ASSUME TypeOK, MethodInv, ResetInv, [Next]_vars
    PROVE  ResetInv'
<1>0. /\ version \in Nat
      /\ \A p \in Procs : started[p].at \in Nat
  BY DEF TypeOK
<1>1. ASSUME NEW p \in Procs, NEW c \in Confs, Start(p, c)
      PROVE  ResetInv'
  BY <1>1 DEF Start, TypeOK, Goto, database, ResetInv, Confs
<1>2. ASSUME NEW p \in Procs, Crash(p)
      PROVE  ResetInv'
  BY <1>2 DEF Crash, TypeOK, Goto, database, ResetInv
<1>3. ASSUME NEW p \in Procs, ReadMarker(p) \/ ReadColumns(p)
      PROVE  ResetInv'
  <2>1. PICK label \in {"columns", "bound", "read"} : pc' = [pc EXCEPT ![p] = label]
    BY <1>3 DEF ReadMarker, ReadColumns, Goto
  <2>2. UNCHANGED <<rows, method, conf, updates, version, started>>
    BY <1>3 DEF ReadMarker, ReadColumns, database
  <2> QED  BY <2>1, <2>2 DEF TypeOK, ResetInv
<1>4. ASSUME NEW p \in Procs, ReadRows(p)
      PROVE  ResetInv'
  <2>1. /\ updates' = [updates EXCEPT ![p] = [f \in DOMAIN rows |-> Fold(rows[f])]]
        /\ pc' = [pc EXCEPT ![p] = "fold"]
        /\ pc[p] = "read"
        /\ UNCHANGED <<rows, method, conf, version, started>>
    BY <1>4 DEF ReadRows, Goto, database
  <2>2. /\ DOMAIN updates'[p] = DOMAIN rows
        /\ \A f \in DOMAIN rows : updates'[p][f] = Fold(rows[f])
        /\ \A q \in Procs \ {p} : updates'[q] = updates[q] /\ pc'[q] = pc[q]
        /\ pc'[p] = "fold"
    BY <2>1 DEF TypeOK
  <2>3. \A f \in DOMAIN rows : f.method = conf[p].method => method = conf[p].method
    BY StartupAssumption DEF MethodInv, TypeOK, Confs
  <2>4. ASSUME NEW q \in Procs, NEW f \in DOMAIN rows, pc[q] = "reset",
               f.method = conf[q].method
        PROVE  Fold(rows[f]).at > started[q].at
    <3>1. rows[f].bag.at > started[q].at /\ rows[f] \in Rows
      BY <2>4 DEF ResetInv, TypeOK
    <3>2. Fold(rows[f]).at = rows[f].bag.at
      BY <3>1, FoldBag
    <3> QED  BY <3>1, <3>2
  <2>5. \A q \in Procs : \A f \in DOMAIN updates'[q] :
           (pc'[q] = "fold" /\ f.method = conf'[q].method) => method' = conf'[q].method
    BY <2>1, <2>2, <2>3 DEF ResetInv
  <2>6. \A r, q \in Procs : \A f \in DOMAIN updates'[q] :
           (pc'[r] = "reset" /\ pc'[q] = "fold" /\ f.method = conf'[r].method)
               => updates'[q][f].at > started'[r].at
    BY <2>1, <2>2, <2>4 DEF ResetInv
  <2>7. \A q \in Procs, f \in DOMAIN rows' :
           (pc'[q] = "reset" /\ f.method = conf'[q].method)
               => rows'[f].bag.at > started'[q].at /\ rows'[f].raw # "huge"
    BY <2>1, <2>2 DEF ResetInv
  <2> QED  BY <2>1, <2>5, <2>6, <2>7 DEF ResetInv
<1>5. ASSUME NEW p \in Procs, CommitFold(p)
      PROVE  ResetInv'
  <2>1. /\ DOMAIN rows' = DOMAIN rows
        /\ \A f \in DOMAIN rows : rows'[f].raw = rows[f].raw
        /\ \A f \in DOMAIN rows : f \in DOMAIN updates[p] => rows'[f].bag = updates[p][f]
        /\ \A f \in DOMAIN rows : f \notin DOMAIN updates[p] => rows'[f] = rows[f]
    BY <1>5, CommitFoldRows
  <2>2. /\ pc[p] = "fold" /\ pc' = [pc EXCEPT ![p] = "bound"]
        /\ updates' = [updates EXCEPT ![p] = Empty]
        /\ UNCHANGED <<method, conf, version, started>>
    BY <1>5 DEF CommitFold, Goto
  <2>3. \A q \in Procs, f \in DOMAIN rows' :
           (pc'[q] = "reset" /\ f.method = conf'[q].method)
               => rows'[f].bag.at > started'[q].at /\ rows'[f].raw # "huge"
    BY <2>1, <2>2 DEF TypeOK, ResetInv
  <2> QED  BY <2>2, <2>3 DEF TypeOK, ResetInv
<1>6. ASSUME NEW p \in Procs, Bound(p)
      PROVE  ResetInv'
  <2>1. /\ DOMAIN rows' = DOMAIN rows
        /\ \A f \in DOMAIN rows : rows[f].raw # "huge" => rows'[f] = rows[f]
    BY <1>6, BoundRows
  <2>2. /\ pc' = [pc EXCEPT ![p] = "method"]
        /\ UNCHANGED <<method, conf, updates, version, started>>
    BY <1>6 DEF Bound, Goto
  <2>3. \A q \in Procs, f \in DOMAIN rows' :
           (pc'[q] = "reset" /\ f.method = conf'[q].method)
               => rows'[f].bag.at > started'[q].at /\ rows'[f].raw # "huge"
    BY <2>1, <2>2 DEF TypeOK, ResetInv
  <2> QED  BY <2>2, <2>3 DEF TypeOK, ResetInv
<1>7. ASSUME NEW p \in Procs, ReadMethod(p)
      PROVE  ResetInv'
  <2>1. /\ pc[p] = "method"
        /\ pc' = [pc EXCEPT ![p] = IF method = conf[p].method THEN "serving"
                                   ELSE IF method = NoMethod THEN "record" ELSE "reset"]
        /\ UNCHANGED <<rows, method, conf, updates, version, started>>
    BY <1>7 DEF ReadMethod, Goto, database
  <2>2. CASE method \in {conf[p].method, NoMethod}
    BY <2>1, <2>2 DEF TypeOK, ResetInv
  <2>3. CASE method \notin {conf[p].method, NoMethod}
    <3>1. pc' = [pc EXCEPT ![p] = "reset"]
      BY <2>1, <2>3
    <3>2. \A f \in DOMAIN rows : f.method # conf[p].method
      BY <2>3, StartupAssumption DEF MethodInv, TypeOK, Confs
    <3>3. \A q \in Procs : \A f \in DOMAIN updates[q] :
              pc[q] = "fold" => f.method # conf[p].method
      BY <2>1, <2>3 DEF MethodInv, ResetInv
    <3> QED  BY <2>1, <3>1, <3>2, <3>3 DEF TypeOK, ResetInv
  <2> QED  BY <2>2, <2>3
<1>8. ASSUME NEW p \in Procs, Reset(p)
      PROVE  ResetInv'
  BY <1>8 DEF Reset, TypeOK, Goto, ResetInv
<1>9. ASSUME NEW p \in Procs, RecordMethod(p)
      PROVE  ResetInv'
  <2>1. /\ pc[p] = "record" /\ method' = conf[p].method
        /\ pc' = [pc EXCEPT ![p] = "serving"]
        /\ UNCHANGED <<rows, conf, updates, version, started>>
    BY <1>9 DEF RecordMethod, Goto
  <2>2. \A q \in Procs : pc[q] # "down" => conf[q].method = method'
    BY <2>1 DEF MethodInv
  <2> QED  BY <2>1, <2>2 DEF TypeOK, ResetInv
<1>10. ASSUME NEW p \in Procs, NEW f \in Fps, NEW key \in {"absent", "sighted"},
              Observe(p, f, key)
      PROVE  ResetInv'
  <2>1. /\ DOMAIN rows' = DOMAIN rows \cup {f}
        /\ rows'[f].bag.at = version + 1
        /\ f \in DOMAIN rows => rows'[f].raw = rows[f].raw
        /\ f \notin DOMAIN rows => rows'[f].raw # "huge"
        /\ \A g \in DOMAIN rows \ {f} : rows'[g] = rows[g]
        /\ version' = version + 1
        /\ UNCHANGED <<method, pc, conf, updates, started>>
    BY <1>10, ObserveRows DEF Observe
  <2>2. \A q \in Procs : started[q].at \in Nat /\ started[q].at <= version /\ version \in Nat
    BY DEF TypeOK, ResetInv
  <2>3. \A q \in Procs, g \in DOMAIN rows' :
           (pc'[q] = "reset" /\ g.method = conf'[q].method)
               => rows'[g].bag.at > started'[q].at /\ rows'[g].raw # "huge"
    BY <2>1, <2>2 DEF ResetInv
  <2> QED  BY <2>1, <2>2, <2>3 DEF ResetInv
<1>11. CASE UNCHANGED vars
  BY <1>11 DEF vars, database, ResetInv
<1> QED
  BY <1>1, <1>2, <1>3, <1>4, <1>5, <1>6, <1>7, <1>8, <1>9, <1>10, <1>11 DEF Next, StartStep

\* A start with the reset flag never wipes a row of its own method that was there
\* when it began, for any number of processes and interrupted changes.
THEOREM ResetSafe == Spec => ResetKeepsOwnRows
<1>1. TypeOK /\ MethodInv /\ ResetInv /\ [Next]_vars => ResetInv'
  BY ResetStep
<1>2. ResetInv /\ [Next]_vars =>
          [\A p \in Procs, f \in DOMAIN rows \ DOMAIN rows' :
              f.method = conf[p].method =>
                  (Reset(p) => rows[f].bag.at > started[p].at)]_vars
  BY DEF ResetInv, Reset
<1> QED  BY MethodAlways, ResetInit, <1>1, <1>2, PTL DEF Spec, ResetKeepsOwnRows

-----------------------------------------------------------------------------

\* Nothing is written ahead of the sightings.
NotAhead ==
    /\ \A p \in Procs : started[p].at <= version
    /\ \A f \in DOMAIN rows : rows[f].bag.at <= version
    /\ \A p \in Procs : \A f \in DOMAIN updates[p] : updates[p][f].at <= version

\* Two bags of one sighting agree on whether the sighting wrote the key.
KeyAgrees(b, c) == b.at = c.at => (b.key = "sighted" <=> c.key = "sighted")

KeysAgree ==
    /\ \A p \in Procs : \A f \in DOMAIN rows \cap DOMAIN updates[p] :
           KeyAgrees(rows[f].bag, updates[p][f])
    /\ \A p, q \in Procs : \A f \in DOMAIN updates[p] \cap DOMAIN updates[q] :
           KeyAgrees(updates[p][f], updates[q][f])
    /\ \A f \in DOMAIN rows : KeyAgrees(rows[f].bag, EmptyBag)
    /\ \A p \in Procs : \A f \in DOMAIN updates[p] : KeyAgrees(updates[p][f], EmptyBag)

\* Only a fold writes folded keys, and it marks the database.
FoldedIsMarked == \A f \in DOMAIN rows : rows[f].bag.key = "folded" => migrated

\* What a process read before its fold is out of date only by sightings after its
\* start: of the rows,
ReadsRecent ==
    \A p \in Procs : \A f \in DOMAIN rows \cap DOMAIN updates[p] :
        pc[p] = "fold" => \/ rows[f].bag.at <= updates[p][f].at
                          \/ rows[f].bag.at > started[p].at

\* and of what another process that folds at the same time has read.
ReadsAgree ==
    \A p, q \in Procs : \A f \in DOMAIN updates[p] \cap DOMAIN updates[q] :
        (pc[p] = "fold" /\ pc[q] = "fold") =>
            \/ updates[q][f].at <= updates[p][f].at
            \/ updates[q][f].at > started[p].at

\* Until the first fold commits, and as long as a process is about to read beside
\* the one that folds, reading again yields no less.
ReadsGrow ==
    \A p, q \in Procs : \A f \in DOMAIN rows \cap DOMAIN updates[q] :
        (/\ pc[q] = "fold"
         /\ ~migrated \/ (p # q /\ pc[p] \in {"columns", "read"}))
            => updates[q][f].at <= rows[f].bag.at

KeptInv == NotAhead /\ KeysAgree /\ FoldedIsMarked /\ ReadsRecent /\ ReadsAgree /\ ReadsGrow

LEMMA KeptInit == Init => KeptInv
<1> SUFFICES ASSUME Init PROVE KeptInv
  OBVIOUS
<1>1. \A f \in DOMAIN rows : rows[f].bag.at = 0 /\ rows[f].bag.key = "absent"
  BY DEF Init, EmptyBag
<1>2. /\ version = 0 /\ \A p \in Procs : started[p].at = 0 /\ pc[p] = "down"
      /\ \A p \in Procs : DOMAIN updates[p] = {}
  BY DEF Init, Empty
<1>3. NotAhead /\ FoldedIsMarked /\ ReadsRecent /\ ReadsAgree /\ ReadsGrow
  BY <1>1, <1>2 DEF NotAhead, FoldedIsMarked, ReadsRecent, ReadsAgree, ReadsGrow
<1>4. KeysAgree
  BY <1>1, <1>2 DEF KeysAgree, KeyAgrees, EmptyBag
<1> QED
  BY <1>3, <1>4 DEF KeptInv

\* Two processes share the file: the gate that runs and the one that replaces it.
TwoProcs == \A p, q, r \in Procs : p = q \/ q = r \/ p = r

\* Steps that write neither rows nor bags.
LEMMA KeptAside ==
    ASSUME TypeOK, KeptInv, NEW p \in Procs,
           \/ \E c \in Confs : Start(p, c)
           \/ Crash(p) \/ ReadMarker(p) \/ ReadColumns(p) \/ ReadMethod(p) \/ RecordMethod(p)
    PROVE  KeptInv'
<1>0. /\ version \in Nat /\ UNCHANGED <<rows, version>> /\ (migrated => migrated')
      /\ \A q \in Procs : started[q].at \in Nat
  <2>1. version \in Nat /\ \A q \in Procs : started[q].at \in Nat
    BY DEF TypeOK
  <2>2. UNCHANGED <<rows, version>>
    BY DEF Start, Crash, ReadMarker, ReadColumns, ReadMethod, RecordMethod, database
  <2>3. migrated => migrated'
    BY DEF Start, Crash, ReadMarker, ReadColumns, ReadMethod, RecordMethod, database
  <2> QED  BY <2>1, <2>2, <2>3
<1>1. /\ \A q \in Procs \ {p} :
            pc'[q] = pc[q] /\ started'[q] = started[q] /\ updates'[q] = updates[q]
      /\ updates'[p] = updates[p] \/ DOMAIN updates'[p] = {}
      /\ started'[p].at \in {started[p].at, version}
  <2>1. CASE \E c \in Confs : Start(p, c)
    BY <2>1 DEF Start, Goto, TypeOK
  <2>2. CASE Crash(p)
    BY <2>2 DEF Crash, Goto, TypeOK, Empty
  <2>3. CASE ReadMarker(p) \/ ReadColumns(p) \/ ReadMethod(p) \/ RecordMethod(p)
    BY <2>3 DEF ReadMarker, ReadColumns, ReadMethod, RecordMethod, Goto, TypeOK
  <2> QED  BY <2>1, <2>2, <2>3
<1>2. pc'[p] # "fold" /\ (pc'[p] \in {"columns", "read"} => ~migrated \/ pc[p] = "columns")
  <2>1. CASE (\E c \in Confs : Start(p, c)) \/ Crash(p)
    <3>1. pc'[p] \in {"marker", "down"}
      BY <2>1 DEF Start, Crash, Goto, TypeOK
    <3> QED  BY <3>1
  <2>2. CASE ReadMarker(p)
    <3>1. pc'[p] = IF conf[p].legacy /\ ~migrated THEN "columns" ELSE "bound"
      BY <2>2 DEF ReadMarker, Goto, TypeOK
    <3> QED  BY <3>1
  <2>3. CASE ReadColumns(p)
    <3>1. pc[p] = "columns" /\ pc'[p] \in {"read", "bound"}
      BY <2>3 DEF ReadColumns, Goto, TypeOK
    <3> QED  BY <3>1
  <2>4. CASE ReadMethod(p) \/ RecordMethod(p)
    <3>1. pc'[p] \in {"serving", "record", "reset"}
      BY <2>4 DEF ReadMethod, RecordMethod, Goto, TypeOK
    <3> QED  BY <3>1
  <2> QED  BY <2>1, <2>2, <2>3, <2>4
<1>3. \A q \in Procs : DOMAIN updates'[q] = {} \/ updates'[q] = updates[q]
  BY <1>1
<1>4. NotAhead'
  <2>1. \A q \in Procs : started'[q].at <= version
    BY <1>0, <1>1 DEF KeptInv, NotAhead
  <2> QED  BY <1>0, <1>3, <2>1 DEF KeptInv, NotAhead
<1>5. KeysAgree'
  BY <1>0, <1>3 DEF KeptInv, KeysAgree, KeyAgrees
<1>6. FoldedIsMarked'
  BY <1>0 DEF KeptInv, FoldedIsMarked
<1>7. ReadsRecent'
  BY <1>0, <1>1, <1>2 DEF KeptInv, ReadsRecent
<1>8. ReadsAgree'
  BY <1>0, <1>1, <1>2 DEF KeptInv, ReadsAgree
<1>9. ReadsGrow'
  BY <1>0, <1>1, <1>2 DEF KeptInv, ReadsGrow
<1> QED  BY <1>4, <1>5, <1>6, <1>7, <1>8, <1>9 DEF KeptInv

LEMMA KeptReadRows ==
    ASSUME TypeOK, KeptInv, NEW p \in Procs, ReadRows(p)
    PROVE  KeptInv'
<1>1. /\ pc[p] = "read" /\ pc'[p] = "fold" /\ DOMAIN updates'[p] = DOMAIN rows
      /\ \A f \in DOMAIN rows : updates'[p][f] = Fold(rows[f])
      /\ \A q \in Procs \ {p} : pc'[q] = pc[q] /\ updates'[q] = updates[q]
      /\ UNCHANGED <<rows, migrated, conf, version, started>>
  BY DEF ReadRows, Goto, TypeOK, database
<1>2. \A f \in DOMAIN rows : /\ updates'[p][f].at = rows[f].bag.at /\ rows[f].bag.at \in Nat
                             /\ updates'[p][f].key = "sighted" <=> rows[f].bag.key = "sighted"
  <2>1. \A f \in DOMAIN rows : rows[f] \in Rows /\ rows[f].bag.at \in Nat
    BY DEF TypeOK, Rows, Bags
  <2>2. \A f \in DOMAIN rows :
          /\ Fold(rows[f]).at = rows[f].bag.at
          /\ Fold(rows[f]).key = "sighted" <=> rows[f].bag.key = "sighted"
    BY <2>1, FoldBag
  <2> QED  BY <1>1, <2>1, <2>2
<1>3. NotAhead'
  BY <1>1, <1>2 DEF KeptInv, NotAhead
<1>4. KeysAgree'
  <2>1. ASSUME NEW q \in Procs, NEW f \in DOMAIN rows \cap DOMAIN updates'[q]
        PROVE  KeyAgrees(rows[f].bag, updates'[q][f])
    BY <1>1, <1>2 DEF KeptInv, KeysAgree, KeyAgrees
  <2>2. ASSUME NEW a \in Procs, NEW b \in Procs,
               NEW f \in DOMAIN updates'[a] \cap DOMAIN updates'[b]
        PROVE  KeyAgrees(updates'[a][f], updates'[b][f])
    BY <1>1, <1>2 DEF KeptInv, KeysAgree, KeyAgrees
  <2>3. ASSUME NEW q \in Procs, NEW f \in DOMAIN updates'[q]
        PROVE  KeyAgrees(updates'[q][f], EmptyBag)
    BY <1>1, <1>2 DEF KeptInv, KeysAgree, KeyAgrees
  <2>4. \A f \in DOMAIN rows : KeyAgrees(rows[f].bag, EmptyBag)
    BY DEF KeptInv, KeysAgree
  <2> QED  BY <1>1, <2>1, <2>2, <2>3, <2>4 DEF KeysAgree, KeyAgrees
<1>5. FoldedIsMarked'
  BY <1>1 DEF KeptInv, FoldedIsMarked
<1>6. ReadsRecent'
  BY <1>1, <1>2 DEF KeptInv, ReadsRecent
<1>7. ReadsAgree'
  <2> SUFFICES ASSUME NEW a \in Procs, NEW b \in Procs,
                      NEW f \in DOMAIN updates'[a] \cap DOMAIN updates'[b],
                      pc'[a] = "fold", pc'[b] = "fold"
               PROVE  updates'[b][f].at <= updates'[a][f].at \/ updates'[b][f].at > started[a].at
    BY <1>1 DEF ReadsAgree
  <2>1. CASE a = p /\ b = p
    BY <1>1, <1>2, <2>1
  <2>2. CASE a = p /\ b # p
    BY <1>1, <1>2, <2>2 DEF KeptInv, ReadsGrow
  <2>3. CASE a # p /\ b = p
    BY <1>1, <1>2, <2>3 DEF KeptInv, ReadsRecent
  <2>4. CASE a # p /\ b # p
    BY <1>1, <2>4 DEF KeptInv, ReadsAgree
  <2> QED  BY <2>1, <2>2, <2>3, <2>4
<1>8. ReadsGrow'
  BY <1>1, <1>2 DEF KeptInv, ReadsGrow
<1> QED  BY <1>3, <1>4, <1>5, <1>6, <1>7, <1>8 DEF KeptInv

LEMMA KeptCommitFold ==
    ASSUME TwoProcs, TypeOK, KeptInv, NEW p \in Procs, CommitFold(p)
    PROVE  KeptInv'
<1>1. /\ DOMAIN rows' = DOMAIN rows
      /\ \A f \in DOMAIN rows : f \in DOMAIN updates[p] => rows'[f].bag = updates[p][f]
      /\ \A f \in DOMAIN rows : f \notin DOMAIN updates[p] => rows'[f] = rows[f]
  BY CommitFoldRows
<1>2. /\ pc[p] = "fold" /\ pc'[p] = "bound" /\ DOMAIN updates'[p] = {} /\ migrated'
      /\ \A q \in Procs \ {p} : pc'[q] = pc[q] /\ updates'[q] = updates[q]
      /\ UNCHANGED <<conf, version, started>>
  BY DEF CommitFold, Goto, TypeOK, Empty
<1>3. NotAhead'
  BY <1>1, <1>2 DEF KeptInv, NotAhead
<1>4. KeysAgree'
  <2>1. ASSUME NEW q \in Procs, NEW f \in DOMAIN rows \cap DOMAIN updates'[q]
        PROVE  KeyAgrees(rows'[f].bag, updates'[q][f])
    BY <1>1, <1>2 DEF KeptInv, KeysAgree
  <2>2. ASSUME NEW a \in Procs, NEW b \in Procs,
               NEW f \in DOMAIN updates'[a] \cap DOMAIN updates'[b]
        PROVE  KeyAgrees(updates'[a][f], updates'[b][f])
    BY <1>2 DEF KeptInv, KeysAgree
  <2>3. ASSUME NEW f \in DOMAIN rows PROVE KeyAgrees(rows'[f].bag, EmptyBag)
    BY <1>1 DEF KeptInv, KeysAgree
  <2>4. ASSUME NEW q \in Procs, NEW f \in DOMAIN updates'[q]
        PROVE  KeyAgrees(updates'[q][f], EmptyBag)
    BY <1>2 DEF KeptInv, KeysAgree
  <2> QED  BY <1>1, <2>1, <2>2, <2>3, <2>4 DEF KeysAgree, KeyAgrees
<1>5. FoldedIsMarked'
  BY <1>2 DEF FoldedIsMarked
<1>6. ReadsRecent'
  BY <1>1, <1>2 DEF KeptInv, ReadsRecent, ReadsAgree
<1>7. ReadsAgree'
  BY <1>2 DEF KeptInv, ReadsAgree
<1>8. ReadsGrow'
  <2> SUFFICES ASSUME NEW a \in Procs, NEW b \in Procs, pc'[b] = "fold", a # b,
                      pc'[a] \in {"columns", "read"}
               PROVE  FALSE
    BY <1>2 DEF ReadsGrow
  <2> QED  BY <1>2 DEF TwoProcs
<1> QED  BY <1>3, <1>4, <1>5, <1>6, <1>7, <1>8 DEF KeptInv

\* A bag is discarded only after a fold, beside at most one other process.
LEMMA KeptBound ==
    ASSUME TwoProcs, TypeOK, KeptInv, NEW p \in Procs, Bound(p)
    PROVE  KeptInv'
<1>0. /\ version \in Nat
      /\ \A f \in DOMAIN rows : rows[f].bag.at \in Nat
      /\ \A q \in Procs : started[q].at \in Nat
      /\ \A q \in Procs : \A f \in DOMAIN updates[q] : updates[q][f].at \in Nat
  BY DEF TypeOK, Rows, Bags
<1>1. /\ DOMAIN rows' = DOMAIN rows
      /\ \A f \in DOMAIN rows : \/ rows'[f] = rows[f]
                                \/ /\ rows[f].bag.key = "folded" /\ rows'[f].bag = EmptyBag
                                   /\ rows'[f].bag.at = 0 /\ rows'[f].bag.key = "absent"
  BY BoundRows DEF EmptyBag
<1>2. /\ pc[p] = "bound" /\ pc'[p] = "method"
      /\ \A q \in Procs \ {p} : pc'[q] = pc[q]
      /\ UNCHANGED <<migrated, conf, updates, version, started>>
  BY DEF Bound, Goto, TypeOK
<1>3. NotAhead'
  BY <1>0, <1>1, <1>2 DEF KeptInv, NotAhead
<1>4. KeysAgree'
  <2>1. ASSUME NEW q \in Procs, NEW f \in DOMAIN rows \cap DOMAIN updates[q]
        PROVE  KeyAgrees(rows'[f].bag, updates[q][f])
    BY <1>1 DEF KeptInv, KeysAgree, KeyAgrees
  <2>2. ASSUME NEW f \in DOMAIN rows PROVE KeyAgrees(rows'[f].bag, EmptyBag)
    BY <1>1 DEF KeptInv, KeysAgree, KeyAgrees
  <2> QED  BY <1>1, <1>2, <2>1, <2>2 DEF KeptInv, KeysAgree, KeyAgrees
<1>5. FoldedIsMarked'
  BY <1>1, <1>2 DEF KeptInv, FoldedIsMarked
<1>6. ReadsRecent'
  BY <1>0, <1>1, <1>2 DEF KeptInv, ReadsRecent
<1>7. ReadsAgree'
  BY <1>2 DEF KeptInv, ReadsAgree
<1>8. ReadsGrow'
  <2>1. CASE ~migrated
    <3>1. \A f \in DOMAIN rows : rows'[f] = rows[f]
      BY <1>1, <2>1 DEF KeptInv, FoldedIsMarked
    <3> QED  BY <1>1, <1>2, <2>1, <3>1 DEF KeptInv, ReadsGrow
  <2>2. CASE migrated
    <3> SUFFICES ASSUME NEW a \in Procs, NEW b \in Procs, pc'[b] = "fold", a # b,
                        pc'[a] \in {"columns", "read"}
                 PROVE  FALSE
      BY <1>2, <2>2 DEF ReadsGrow
    <3> QED  BY <1>2 DEF TwoProcs
  <2> QED  BY <2>1, <2>2
<1> QED  BY <1>3, <1>4, <1>5, <1>6, <1>7, <1>8 DEF KeptInv

LEMMA KeptReset ==
    ASSUME TypeOK, KeptInv, NEW p \in Procs, Reset(p)
    PROVE  KeptInv'
<1>1. /\ DOMAIN rows' = {} /\ pc[p] = "reset" /\ pc'[p] = "record"
      /\ \A q \in Procs \ {p} : pc'[q] = pc[q]
      /\ UNCHANGED <<migrated, conf, updates, version, started>>
  BY DEF Reset, Goto, TypeOK
<1>2. NotAhead' /\ FoldedIsMarked'
  BY <1>1 DEF KeptInv, NotAhead, FoldedIsMarked
<1>3. KeysAgree'
  BY <1>1 DEF KeptInv, KeysAgree, KeyAgrees
<1>4. ReadsRecent' /\ ReadsGrow'
  BY <1>1 DEF ReadsRecent, ReadsGrow
<1>5. ReadsAgree'
  BY <1>1 DEF KeptInv, ReadsAgree
<1> QED  BY <1>2, <1>3, <1>4, <1>5 DEF KeptInv

LEMMA KeptObserve ==
    ASSUME TypeOK, KeptInv, NEW p \in Procs, NEW f \in Fps,
           NEW key \in {"absent", "sighted"}, Observe(p, f, key)
    PROVE  KeptInv'
<1>0. /\ version \in Nat
      /\ \A q \in Procs : started[q].at \in Nat
      /\ \A q \in Procs : \A g \in DOMAIN updates[q] : updates[q][g].at \in Nat
      /\ \A g \in DOMAIN rows : rows[g].bag.at \in Nat
  BY DEF TypeOK, Rows, Bags
<1>1. /\ DOMAIN rows' = DOMAIN rows \cup {f}
      /\ rows'[f].bag.at = version + 1 /\ rows'[f].bag.key # "folded"
      /\ \A g \in DOMAIN rows \ {f} : rows'[g] = rows[g]
      /\ version' = version + 1
      /\ UNCHANGED <<migrated, pc, conf, updates, started>>
  BY ObserveRows DEF Observe
<1>2. NotAhead'
  BY <1>0, <1>1 DEF KeptInv, NotAhead
<1>3. KeysAgree'
  <2>1. ASSUME NEW q \in Procs, NEW g \in DOMAIN rows' \cap DOMAIN updates[q]
        PROVE  KeyAgrees(rows'[g].bag, updates[q][g])
    <3>1. CASE g = f
      <4>1. updates[q][g].at <= version
        BY DEF KeptInv, NotAhead
      <4> QED  BY <1>0, <1>1, <3>1, <4>1 DEF KeyAgrees
    <3>2. CASE g # f
      BY <1>1, <3>2 DEF KeptInv, KeysAgree
    <3> QED  BY <3>1, <3>2
  <2>2. ASSUME NEW g \in DOMAIN rows' PROVE KeyAgrees(rows'[g].bag, EmptyBag)
    <3>1. CASE g = f
      BY <1>0, <1>1, <3>1 DEF KeyAgrees, EmptyBag
    <3>2. CASE g # f
      BY <1>1, <3>2 DEF KeptInv, KeysAgree
    <3> QED  BY <3>1, <3>2
  <2> QED  BY <1>1, <2>1, <2>2 DEF KeptInv, KeysAgree, KeyAgrees
<1>4. FoldedIsMarked'
  BY <1>1 DEF KeptInv, FoldedIsMarked
<1>5. ReadsRecent'
  BY <1>0, <1>1 DEF KeptInv, ReadsRecent, NotAhead
<1>6. ReadsAgree'
  BY <1>1 DEF KeptInv, ReadsAgree
<1>7. ReadsGrow'
  BY <1>0, <1>1 DEF KeptInv, ReadsGrow, NotAhead
<1> QED  BY <1>2, <1>3, <1>4, <1>5, <1>6, <1>7 DEF KeptInv

LEMMA KeptStep ==
    ASSUME TwoProcs, TypeOK, KeptInv, [Next]_vars
    PROVE  KeptInv'
<1>1. CASE UNCHANGED vars
  <2>1. UNCHANGED <<rows, migrated, pc, updates, version, started>>
    BY <1>1 DEF vars, database
  <2>2. NotAhead' /\ FoldedIsMarked' /\ KeysAgree'
    BY <2>1 DEF KeptInv, NotAhead, FoldedIsMarked, KeysAgree, KeyAgrees
  <2>3. ReadsRecent' /\ ReadsAgree' /\ ReadsGrow'
    BY <2>1 DEF KeptInv, ReadsRecent, ReadsAgree, ReadsGrow
  <2> QED  BY <2>2, <2>3 DEF KeptInv
<1>2. CASE Next
  BY <1>2, KeptAside, KeptReadRows, KeptCommitFold, KeptBound, KeptReset, KeptObserve
     DEF Next, StartStep
<1> QED  BY <1>1, <1>2

\* "Metadata the gate has refreshed since is never reverted on a restart": what a
\* fold takes back was written by a sighting after the folding process started.
\* TwoProcs cannot be dropped: with three, a fold that read early takes a sighting
\* back, a second process reads that, a third writes the sighting again, and the
\* second takes it back although it started after the sighting.
THEOREM RefreshKept ==
    ASSUME TwoProcs
    PROVE  Spec => RefreshedBeforeStartKept
<1>1. TypeOK /\ KeptInv /\ [Next]_vars => TypeOK' /\ KeptInv'
  BY TypeStep, KeptStep
<1>2. TypeOK /\ KeptInv /\ [Next]_vars =>
          [\A p \in Procs, f \in DOMAIN rows \cap DOMAIN rows' :
              Reverts(rows[f].bag, rows'[f].bag) =>
                  (CommitFold(p) => rows[f].bag.at > started[p].at)]_vars
  <2> SUFFICES ASSUME TypeOK, KeptInv, NEW p \in Procs, NEW f \in DOMAIN rows,
                      Reverts(rows[f].bag, rows'[f].bag), CommitFold(p)
               PROVE  rows[f].bag.at > started[p].at
    OBVIOUS
  <2>1. rows[f].bag.at \in Nat
    BY DEF TypeOK, Rows, Bags
  <2>2. f \in DOMAIN updates[p] /\ rows'[f].bag = updates[p][f] /\ pc[p] = "fold"
    <3>1. f \in DOMAIN updates[p]
      <4> SUFFICES ASSUME f \notin DOMAIN updates[p] PROVE FALSE
        OBVIOUS
      <4>1. rows'[f] = rows[f]
        BY CommitFoldRows
      <4> QED  BY <2>1, <4>1 DEF Reverts
    <3> QED  BY <3>1, CommitFoldRows DEF CommitFold
  <2>3. updates[p][f].at \in Nat
    BY <2>2 DEF TypeOK, Bags
  <2>4. KeyAgrees(rows[f].bag, updates[p][f])
    BY <2>2 DEF KeptInv, KeysAgree
  <2>5. updates[p][f].at < rows[f].bag.at
    BY <2>2, <2>4 DEF Reverts, KeyAgrees
  <2> QED  BY <2>1, <2>2, <2>3, <2>5 DEF KeptInv, ReadsRecent
<1> QED
  BY TypeInit, KeptInit, <1>1, <1>2, PTL DEF Spec, RefreshedBeforeStartKept
=============================================================================
