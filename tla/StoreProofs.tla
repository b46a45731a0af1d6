---------------------------- MODULE StoreProofs ----------------------------
(***************************************************************************)
(* Proofs about Store, for every value of its constants.                   *)
(***************************************************************************)
EXTENDS StoreHistory, CountingTheorems, TLAPS

-----------------------------------------------------------------------------
(* Helpers keep tables tables *)

\* Inserting or overwriting one entry gives a table.
LEMMA PutTable ==
    ASSUME NEW r, IsTable(r), NEW fp \in Fingerprints, NEW e \in Entry
    PROVE  IsTable(Put(r, fp, e))
BY DEF IsTable, Put

\* Deleting rows gives a table.
LEMMA DropTable ==
    ASSUME NEW r, IsTable(r), NEW S
    PROVE  IsTable(Drop(r, S))
BY DEF IsTable, Drop

\* Trimming only removes history.
LEMMA TrimEntry ==
    ASSUME NEW e \in Entry
    PROVE  /\ trimHistory(e) \in Entry
           /\ trimHistory(e).status = e.status
           /\ trimHistory(e).label = e.label
           /\ trimHistory(e).scope = e.scope
           /\ trimHistory(e).first = e.first
           /\ trimHistory(e).last = e.last
           /\ trimHistory(e).count = e.count
BY DEF trimHistory, Entry, KeepSightings, KeepSmallest

\* The row inserted for a verdict about a fingerprint nobody has seen.
LEMMA PlaceholderEntry ==
    ASSUME NEW status \in Statuses, NEW label \in Labels \cup {NoLabel},
           NEW scope \in Scopes \cup {NoScope}, now \in Nat
    PROVE  Placeholder(status, label, scope) \in Entry
BY StoreAssumption DEF Placeholder, Entry

\* The row of a client that was just observed.  It is the row that was there,
\* its verdict and first_seen untouched, or an undecided new one.
LEMMA ObservedEntry ==
    ASSUME TypeOK, NEW fp \in Fingerprints,
           NEW ip \in IPs \cup {0}, NEW port \in Ports \cup {0},
           NEW meta \in MetaSizes, NEW blockUnknown \in BOOLEAN
    PROVE  LET e == Observed(fp, ip, port, meta, blockUnknown)
           IN  /\ e \in Entry
               /\ e.last = now
               /\ fp \in DOMAIN rows => /\ e.status = rows[fp].status
                                        /\ e.label = rows[fp].label
                                        /\ e.scope = rows[fp].scope
                                        /\ e.first = rows[fp].first
               /\ fp \notin DOMAIN rows => /\ e.status \in {"pending", "blocked"}
                                           /\ e.label = NoLabel
                                           /\ e.scope = NoScope
                                           /\ e.count = 1
<1> DEFINE fresh == [status    |-> IF blockUnknown THEN "blocked" ELSE "pending",
                     label     |-> NoLabel,
                     first     |-> now,
                     last      |-> now,
                     count     |-> 0,
                     meta      |-> 0,
                     scope     |-> NoScope,
                     ips       |-> {},
                     ports     |-> {},
                     sightings |-> {}]
           base == IF fp \in DOMAIN rows THEN rows[fp] ELSE fresh
           sight(S) == IF ip = 0 THEN S
                       ELSE {s \in S : s.ip # ip \/ s.port # port}
                                \cup {[ip |-> ip, port |-> port, last |-> now]}
<1>1. fresh \in Entry
  BY StoreAssumption DEF Entry, TypeOK, Statuses
<1>2. base \in Entry
  BY <1>1 DEF TypeOK, IsTable
<1>3. \A S \in SUBSET Sightings : sight(S) \in SUBSET Sightings
  BY DEF Sightings, TypeOK
<1>4. \A S \in SUBSET IPs : S \cup ({ip} \ {0}) \in SUBSET IPs
  OBVIOUS
<1>5. \A S \in SUBSET Ports : S \cup ({port} \ {0}) \in SUBSET Ports
  OBVIOUS
<1>6. Observed(fp, ip, port, meta, blockUnknown) =
        [base EXCEPT !.last = now, !.count = @ + 1, !.meta = meta,
                     !.ips = @ \cup ({ip} \ {0}), !.ports = @ \cup ({port} \ {0}),
                     !.sightings = sight(@)]
  BY DEF Observed
<1> HIDE DEF sight, fresh
<1>7. now \in Nat
  BY DEF TypeOK
<1> HIDE DEF base
<1> DEFINE e == Observed(fp, ip, port, meta, blockUnknown)
<1>8. e \in Entry
  <2>1. e = [status    |-> base.status,
             label     |-> base.label,
             first     |-> base.first,
             last      |-> now,
             count     |-> base.count + 1,
             meta      |-> meta,
             scope     |-> base.scope,
             ips       |-> base.ips \cup ({ip} \ {0}),
             ports     |-> base.ports \cup ({port} \ {0}),
             sightings |-> sight(base.sightings)]
    BY <1>2, <1>6 DEF Entry
  <2>2. /\ base.ips \cup ({ip} \ {0}) \in SUBSET IPs
        /\ base.ports \cup ({port} \ {0}) \in SUBSET Ports
        /\ sight(base.sightings) \in SUBSET Sightings
    BY <1>2, <1>3, <1>4, <1>5 DEF Entry
  <2>3. /\ base.status \in Statuses
        /\ base.label \in Labels \cup {NoLabel}
        /\ base.first \in Nat
        /\ base.count + 1 \in Nat
        /\ base.scope \in Scopes \cup {NoScope}
    BY <1>2 DEF Entry
  <2> HIDE DEF e
  <2> QED
    BY <2>1, <2>2, <2>3, <1>7 DEF Entry
<1>9. /\ e.status = base.status /\ e.label = base.label /\ e.scope = base.scope
      /\ e.first = base.first /\ e.count = base.count + 1 /\ e.last = now
  BY <1>2, <1>6 DEF Entry
<1> QED
  BY <1>8, <1>9 DEF base, fresh

-----------------------------------------------------------------------------
(* The inductive invariant: typed, and every row readable *)

Readable(r) == \A f \in DOMAIN r : scanEntry(r[f])

IInv == TypeOK /\ EveryRowReadable

\* A table stays a readable table when one readable entry is put in it.
LEMMA PutReadable ==
    ASSUME NEW r, IsTable(r), Readable(r), NEW fp, NEW e, scanEntry(e)
    PROVE  Readable(Put(r, fp, e))
BY DEF Readable, Put

LEMMA DropReadable ==
    ASSUME NEW r, Readable(r), NEW S
    PROVE  Readable(Drop(r, S))
BY DEF Readable, Drop

\* The database an earlier release left has no scopes at all.
LEMMA InitIInv == Init => IInv
<1> SUFFICES ASSUME Init PROVE IInv
  OBVIOUS
<1>1. PICK S \in SUBSET Fingerprints : rows \in [S -> LegacyRows]
  BY DEF Init
<1>2. \A f \in DOMAIN rows : rows[f] \in Entry /\ rows[f].scope = NoScope
  BY <1>1, StoreAssumption
<1>3. IsTable(rows)
  BY <1>1, <1>2 DEF IsTable
<1> QED
  BY <1>2, <1>3 DEF Init, IInv, TypeOK, EveryRowReadable, scanEntry

\* Reopening trims history and drops oversized metadata, nothing else.
LEMMA OpenStep ==
    ASSUME IInv, Open
    PROVE  /\ IInv'
           /\ DOMAIN rows' = DOMAIN rows
           /\ \A f \in DOMAIN rows : /\ Verdict(rows'[f]) = Verdict(rows[f])
                                     /\ rows'[f].first = rows[f].first
<1> DEFINE bounded(f) == [rows[f] EXCEPT !.meta = IF @ > MaxMetadataBytes THEN 0 ELSE @]
<1>1. \A f \in DOMAIN rows :
        /\ bounded(f) \in Entry
        /\ bounded(f).status = rows[f].status
        /\ bounded(f).label = rows[f].label
        /\ bounded(f).scope = rows[f].scope
        /\ bounded(f).first = rows[f].first
  BY StoreAssumption DEF IInv, TypeOK, IsTable, Entry
<1> HIDE DEF bounded
<1>2. rows' = [f \in DOMAIN rows |-> trimHistory(bounded(f))]
  BY DEF Open, boundExistingHistory, bounded
<1>3. \A f \in DOMAIN rows :
        /\ rows'[f] \in Entry
        /\ rows'[f].status = rows[f].status
        /\ rows'[f].label = rows[f].label
        /\ rows'[f].scope = rows[f].scope
        /\ rows'[f].first = rows[f].first
  BY <1>1, <1>2, TrimEntry
<1>4. IsTable(rows)'
  BY <1>2, <1>3 DEF IInv, TypeOK, IsTable
<1>5. EveryRowReadable'
  BY <1>2, <1>3 DEF IInv, EveryRowReadable, scanEntry
<1> QED
  BY <1>2, <1>3, <1>4, <1>5 DEF IInv, TypeOK, Open, Verdict

\* What a sighting writes: the observed entry, then the victims of the row cap.
LEMMA ObserveRows ==
    ASSUME IInv, NEW fp \in Fingerprints,
           NEW ip \in IPs \cup {0}, NEW port \in Ports \cup {0},
           NEW meta \in MetaSizes, NEW blockUnknown \in BOOLEAN,
           Observe(fp, ip, port, meta, blockUnknown)
    PROVE  \E e \in Entry :
             /\ scanEntry(e)
             /\ e.last = now
             /\ fp \in DOMAIN rows => /\ Verdict(e) = Verdict(rows[fp])
                                      /\ e.first = rows[fp].first
             /\ fp \notin DOMAIN rows => /\ e.status \in {"pending", "blocked"}
                                         /\ e.label = NoLabel
                                         /\ e.scope = NoScope
                                         /\ e.count = 1
             /\ IF e.count = 1 /\ MaxFingerprints > 0
                THEN \E V \in PruneVictims(Put(rows, fp, e), MaxFingerprints) :
                         rows' = Drop(Put(rows, fp, e), V)
                ELSE rows' = Put(rows, fp, e)
<1> DEFINE o == Observed(fp, ip, port, meta, blockUnknown)
           e == trimHistory(o)
<1>1. /\ o \in Entry
      /\ o.last = now
      /\ fp \in DOMAIN rows => /\ o.status = rows[fp].status
                               /\ o.label = rows[fp].label
                               /\ o.scope = rows[fp].scope
                               /\ o.first = rows[fp].first
      /\ fp \notin DOMAIN rows => /\ o.status \in {"pending", "blocked"}
                                  /\ o.label = NoLabel /\ o.scope = NoScope
                                  /\ o.count = 1
  BY ObservedEntry DEF IInv
<1> HIDE DEF o
<1>2. /\ e \in Entry /\ e.status = o.status /\ e.label = o.label
      /\ e.scope = o.scope /\ e.first = o.first /\ e.count = o.count /\ e.last = o.last
  BY <1>1, TrimEntry
<1>3. /\ scanEntry(e)
      /\ IF e.count = 1 /\ MaxFingerprints > 0
         THEN \E V \in PruneVictims(Put(rows, fp, e), MaxFingerprints) :
                  rows' = Drop(Put(rows, fp, e), V)
         ELSE rows' = Put(rows, fp, e)
  BY DEF Observe, o
<1> HIDE DEF e
<1> e \in Entry
  BY <1>2
<1> WITNESS e \in Entry
<1> QED
  BY <1>1, <1>2, <1>3 DEF Verdict

LEMMA ObserveIInv ==
    ASSUME IInv, NEW fp \in Fingerprints, ObserveStep(fp)
    PROVE  IInv'
<1>1. PICK ip \in IPs \cup {0}, port \in Ports \cup {0}, meta \in MetaSizes,
           blockUnknown \in BOOLEAN : Observe(fp, ip, port, meta, blockUnknown)
  BY DEF ObserveStep
<1>2. UNCHANGED <<cursor, now, open>>
  BY <1>1 DEF Observe
<1>3. PICK e \in Entry :
        /\ scanEntry(e)
        /\ \/ rows' = Put(rows, fp, e)
           \/ \E V : rows' = Drop(Put(rows, fp, e), V)
  BY <1>1, ObserveRows
<1>4. IsTable(rows) /\ Readable(rows)
  BY DEF IInv, TypeOK, EveryRowReadable, Readable
<1>5. IsTable(Put(rows, fp, e)) /\ Readable(Put(rows, fp, e))
  BY <1>3, <1>4, PutTable, PutReadable
<1>6. IsTable(rows') /\ Readable(rows')
  BY <1>3, <1>5, DropTable, DropReadable
<1> QED
  BY <1>2, <1>6 DEF IInv, TypeOK, EveryRowReadable, Readable

LEMMA SetStatusIInv ==
    ASSUME IInv, NEW fp \in Fingerprints, NEW status \in Statuses, SetStatus(fp, status)
    PROVE  IInv'
<1> DEFINE e == [rows[fp] EXCEPT !.status = status, !.scope = NoScope]
<1>1. fp \in DOMAIN rows /\ UNCHANGED <<cursor, now, open>>
  BY DEF SetStatus
<1>2. e \in Entry /\ e.scope = NoScope
  BY <1>1 DEF IInv, TypeOK, IsTable, Entry
<1>3. /\ DOMAIN rows' = DOMAIN rows
      /\ rows'[fp] = e
      /\ \A f \in DOMAIN rows : f # fp => rows'[f] = rows[f]
      /\ rows' = [f \in DOMAIN rows |-> rows'[f]]
  BY <1>1 DEF SetStatus, IInv, TypeOK, IsTable
<1> HIDE DEF e
<1>4. IsTable(rows')
  BY <1>1, <1>2, <1>3 DEF IInv, TypeOK, IsTable
<1>5. EveryRowReadable'
  BY <1>2, <1>3 DEF IInv, EveryRowReadable, scanEntry
<1> QED
  BY <1>1, <1>4, <1>5 DEF IInv, TypeOK

LEMMA UpsertStatusIInv ==
    ASSUME IInv, NEW fp \in Fingerprints, NEW status \in Statuses,
           NEW label \in Labels \cup {NoLabel}, UpsertStatus(fp, status, label)
    PROVE  IInv'
<1>1. UNCHANGED <<cursor, now, open>>
  BY DEF UpsertStatus
<1>2. IsTable(rows) /\ Readable(rows) /\ now \in Nat
  BY DEF IInv, TypeOK, EveryRowReadable, Readable
<1>3. \E e \in Entry : e.scope = NoScope /\ rows' = Put(rows, fp, e)
  <2>1. CASE fp \in DOMAIN rows
    <3> DEFINE e == [rows[fp] EXCEPT !.status = status, !.label = label, !.scope = NoScope]
    <3>1. e \in Entry /\ e.scope = NoScope
      BY <2>1 DEF IInv, TypeOK, IsTable, Entry
    <3>2. rows' = Put(rows, fp, e)
      BY <2>1, <1>2 DEF UpsertStatus, Put, IsTable
    <3> QED
      BY <3>1, <3>2
  <2>2. CASE fp \notin DOMAIN rows
    <3> DEFINE e == Placeholder(status, label, NoScope)
    <3>1. e \in Entry
      BY <1>2, PlaceholderEntry
    <3>2. e.scope = NoScope
      BY DEF Placeholder
    <3>3. rows' = Put(rows, fp, e)
      BY <2>2 DEF UpsertStatus
    <3> HIDE DEF e
    <3> QED
      BY <3>1, <3>2, <3>3
  <2> QED
    BY <2>1, <2>2
<1>4. IsTable(rows') /\ Readable(rows')
  BY <1>2, <1>3, PutTable, PutReadable DEF scanEntry
<1> QED
  BY <1>1, <1>4 DEF IInv, TypeOK, EveryRowReadable, Readable

LEMMA SetLabelIInv ==
    ASSUME IInv, NEW fp \in Fingerprints, NEW label \in Labels \cup {NoLabel},
           SetLabel(fp, label)
    PROVE  IInv'
<1> DEFINE e == [rows[fp] EXCEPT !.label = label]
<1>1. fp \in DOMAIN rows /\ UNCHANGED <<cursor, now, open>>
  BY DEF SetLabel
<1>2. e \in Entry /\ e.scope = rows[fp].scope /\ e.status = rows[fp].status
  BY <1>1 DEF IInv, TypeOK, IsTable, Entry
<1>3. rows' = Put(rows, fp, e)
  BY <1>1 DEF SetLabel, Put, IInv, TypeOK, IsTable
<1>4. scanEntry(e)
  BY <1>1, <1>2 DEF IInv, EveryRowReadable, scanEntry
<1> HIDE DEF e
<1>5. IsTable(rows) /\ Readable(rows)
  BY DEF IInv, TypeOK, EveryRowReadable, Readable
<1>6. IsTable(rows') /\ Readable(rows')
  BY <1>2, <1>3, <1>4, <1>5, PutTable, PutReadable
<1> QED
  BY <1>1, <1>6 DEF IInv, TypeOK, EveryRowReadable, Readable

\* Deletions, for whatever reason.
LEMMA DropIInv ==
    ASSUME IInv, NEW S, rows' = Drop(rows, S), cursor' \in {cursor, NoCursor},
           UNCHANGED <<now, open>>
    PROVE  IInv'
<1>1. IsTable(rows') /\ Readable(rows')
  BY DropTable, DropReadable DEF IInv, TypeOK, EveryRowReadable, Readable
<1> QED
  BY <1>1 DEF IInv, TypeOK, EveryRowReadable, Readable

\* A batch that passed Validate writes readable entries only, whichever decision
\* about a fingerprint comes last.
LEMMA ApplyDecisionsIInv ==
    ASSUME IInv, NEW batch \in Batches, NEW c \in Cursors \cup {NoCursor},
           ApplyDecisions(batch, c)
    PROVE  IInv'
<1> DEFINE named == {batch[i].fp : i \in DOMAIN batch}
           lastAt(f) == CHOOSE i \in DOMAIN batch :
                            /\ batch[i].fp = f
                            /\ \A j \in DOMAIN batch : batch[j].fp = f => j <= i
           last(f) == batch[lastAt(f)]
           e(f) == IF f \notin named THEN rows[f]
                   ELSE IF f \in DOMAIN rows
                   THEN [rows[f] EXCEPT !.status = last(f).status,
                                        !.label  = last(f).label,
                                        !.scope  = last(f).scope]
                   ELSE Placeholder(last(f).status, last(f).label, last(f).scope)
<1>1. PICK n \in 0..MaxBatch : batch \in [1..n -> Decisions]
  BY DEF Batches
<1>2. rows' = [f \in DOMAIN rows \cup named |-> e(f)]
  BY DEF ApplyDecisions, Decided
<1>3. \A f \in named : lastAt(f) \in DOMAIN batch
  <2> SUFFICES ASSUME NEW f \in named PROVE lastAt(f) \in DOMAIN batch
    OBVIOUS
  <2> DEFINE T == {i \in DOMAIN batch : batch[i].fp = f}
  <2>1. T \in SUBSET (0..n) /\ T # {} /\ n \in Nat
    BY <1>1, StoreAssumption
  <2>2. PICK x \in T : \A y \in T : y <= x
    <3> HIDE DEF T
    <3> QED
      BY <2>1, BoundedSetHasMax
  <2>3. \E i \in DOMAIN batch : /\ batch[i].fp = f
                                /\ \A j \in DOMAIN batch : batch[j].fp = f => j <= i
    BY <2>2
  <2> QED
    BY <2>3
<1>4. \A f \in named : /\ last(f).status \in Statuses
                       /\ last(f).label \in Labels \cup {NoLabel}
                       /\ last(f).scope \in Scopes \cup {NoScope}
                       /\ last(f).scope # NoScope => last(f).status = "approved"
  BY <1>1, <1>3 DEF ApplyDecisions, Validate, Decisions
<1>5. named \subseteq Fingerprints
  BY <1>1 DEF Decisions
<1> HIDE DEF named, last
<1>6. IsTable(rows) /\ now \in Nat /\ \A f \in DOMAIN rows : scanEntry(rows[f])
  BY DEF IInv, TypeOK, EveryRowReadable
<1>7. \A f \in DOMAIN rows \cup named : e(f) \in Entry /\ scanEntry(e(f))
  <2> SUFFICES ASSUME NEW f \in DOMAIN rows \cup named
               PROVE  e(f) \in Entry /\ scanEntry(e(f))
    OBVIOUS
  <2>1. CASE f \notin named
    BY <2>1, <1>6 DEF IsTable
  <2>2. CASE f \in named /\ f \in DOMAIN rows
    <3>1. rows[f] \in Entry
      BY <2>2, <1>6 DEF IsTable
    <3>2. e(f) = [rows[f] EXCEPT !.status = last(f).status,
                                 !.label  = last(f).label,
                                 !.scope  = last(f).scope]
      BY <2>2
    <3> HIDE DEF e
    <3>3. PICK status \in Statuses, label \in Labels \cup {NoLabel},
               scope \in Scopes \cup {NoScope} :
            status = last(f).status /\ label = last(f).label /\ scope = last(f).scope
      BY <2>2, <1>4
    <3>4. PICK x \in Entry : x = rows[f]
      BY <3>1
    <3>5. e(f) = [x EXCEPT !.status = status, !.label = label, !.scope = scope]
      BY <3>2, <3>3, <3>4
    <3>6. e(f) \in Entry /\ e(f).status = status /\ e(f).scope = scope
      BY <3>5 DEF Entry
    <3> QED
      BY <3>3, <3>6, <2>2, <1>4 DEF scanEntry
  <2>3. CASE f \in named /\ f \notin DOMAIN rows
    <3>1. e(f) = Placeholder(last(f).status, last(f).label, last(f).scope)
      BY <2>3
    <3>2. Placeholder(last(f).status, last(f).label, last(f).scope) \in Entry
      BY <2>3, <1>4, <1>6, PlaceholderEntry
    <3> HIDE DEF e
    <3> QED
      BY <3>1, <3>2, <2>3, <1>4 DEF Placeholder, scanEntry
  <2> QED
    BY <2>1, <2>2, <2>3
<1> HIDE DEF e
<1>8. IsTable(rows')
  BY <1>2, <1>5, <1>6, <1>7 DEF IsTable
<1>9. EveryRowReadable'
  BY <1>2, <1>7 DEF EveryRowReadable
<1>10. cursor' \in Cursors \cup {NoCursor} /\ UNCHANGED <<now, open>>
  BY DEF ApplyDecisions, IInv, TypeOK
<1> QED
  BY <1>8, <1>9, <1>10 DEF IInv, TypeOK

-----------------------------------------------------------------------------
(* The invariant *)

LEMMA NextIInv == IInv /\ [Next]_vars => IInv'
<1> SUFFICES ASSUME IInv, [Next]_vars PROVE IInv'
  OBVIOUS
<1>1. CASE Clock
  BY <1>1, StoreAssumption DEF Clock, IInv, TypeOK, EveryRowReadable
<1>2. CASE Open
  BY <1>2, OpenStep
<1>3. CASE Close
  BY <1>3 DEF Close, IInv, TypeOK, EveryRowReadable
<1>4. CASE ClientStep
  BY <1>4, ObserveIInv DEF ClientStep
<1>5. CASE PruneStep
  <2>1. \E V : rows' = Drop(rows, V)
    BY <1>5 DEF PruneStep, PruneToLimit
  <2>2. UNCHANGED <<cursor, now, open>>
    BY <1>5 DEF PruneStep, PruneToLimit
  <2> QED
    BY <2>1, <2>2, DropIInv
<1>6. CASE DecisionStep
  BY <1>6, ApplyDecisionsIInv DEF DecisionStep
<1>7. CASE OperatorStep
  <2>1. ASSUME NEW fp \in Fingerprints, NEW status \in Statuses, SetStatus(fp, status)
        PROVE  IInv'
    BY <2>1, SetStatusIInv
  <2>2. ASSUME NEW fp \in Fingerprints, NEW status \in Statuses,
               NEW label \in Labels \cup {NoLabel}, UpsertStatus(fp, status, label)
        PROVE  IInv'
    BY <2>2, UpsertStatusIInv
  <2>3. ASSUME NEW fp \in Fingerprints, NEW label \in Labels \cup {NoLabel},
               SetLabel(fp, label)
        PROVE  IInv'
    BY <2>3, SetLabelIInv
  <2>4. ASSUME NEW fp \in Fingerprints, Delete(fp)
        PROVE  IInv'
    BY <2>4, DropIInv DEF Delete
  <2>5. CASE ResetFingerprints
    BY <2>5, DropIInv DEF ResetFingerprints
  <2> QED
    BY <1>7, <2>1, <2>2, <2>3, <2>4, <2>5 DEF OperatorStep
<1>8. CASE UNCHANGED vars
  BY <1>8 DEF vars, IInv, TypeOK, EveryRowReadable
<1> QED
  BY <1>1, <1>2, <1>3, <1>4, <1>5, <1>6, <1>7, <1>8 DEF Next

LEMMA Invariant == Spec => []IInv
BY InitIInv, NextIInv, PTL DEF Spec

\* Whatever the batches the hub sends, only well-formed scopes are stored, and
\* the table stays a table through every upsert, eviction and reset.
THEOREM TypeCorrect == Spec => []TypeOK
BY Invariant, PTL DEF IInv

\* scanEntry can read every row back in every reachable state, so no sequence of
\* writes makes List and ListPage fail.
THEOREM RowsReadable == Spec => []EveryRowReadable
BY Invariant, PTL DEF IInv

-----------------------------------------------------------------------------
(* Traffic preserves verdicts *)

\* Eviction spares approvals and changes no row it leaves.
LEMMA VictimsNotApproved ==
    ASSUME NEW r, NEW max, NEW V \in PruneVictims(r, max)
    PROVE  /\ V \cap Approved(r) = {}
           /\ DOMAIN Drop(r, V) = DOMAIN r \ V
           /\ \A f \in DOMAIN r \ V : Drop(r, V)[f] = r[f]
BY DEF PruneVictims, PruneCandidates, Drop

LEMMA ObservePreservesVerdicts ==
    ASSUME IInv, NEW fp \in Fingerprints, ObserveStep(fp)
    PROVE  VerdictsPreserved
<1>1. PICK ip \in IPs \cup {0}, port \in Ports \cup {0}, meta \in MetaSizes,
           blockUnknown \in BOOLEAN : Observe(fp, ip, port, meta, blockUnknown)
  BY DEF ObserveStep
<1>2. PICK e \in Entry :
        /\ fp \in DOMAIN rows => /\ Verdict(e) = Verdict(rows[fp])
                                 /\ e.first = rows[fp].first
        /\ \/ rows' = Put(rows, fp, e)
           \/ \E V \in PruneVictims(Put(rows, fp, e), MaxFingerprints) :
                  rows' = Drop(Put(rows, fp, e), V)
  BY <1>1, ObserveRows
<1> DEFINE r == Put(rows, fp, e)
<1>3. /\ DOMAIN r = DOMAIN rows \cup {fp}
      /\ \A f \in DOMAIN rows : /\ Verdict(r[f]) = Verdict(rows[f])
                                /\ r[f].first = rows[f].first
  BY <1>2 DEF Put
<1>4. Approved(rows) \subseteq Approved(r)
  BY <1>3 DEF Approved, Verdict
<1>5. Approved(r) \subseteq DOMAIN r
  BY DEF Approved
<1>6. /\ Approved(r) \subseteq DOMAIN rows'
      /\ \A f \in DOMAIN r \cap DOMAIN rows' : rows'[f] = r[f]
  <2>1. \/ rows' = r
        \/ \E V \in PruneVictims(r, MaxFingerprints) : rows' = Drop(r, V)
    BY <1>2
  <2> HIDE DEF r
  <2>2. CASE rows' = r
    BY <2>2, <1>5
  <2>3. CASE \E V \in PruneVictims(r, MaxFingerprints) : rows' = Drop(r, V)
    <3>1. PICK V \in PruneVictims(r, MaxFingerprints) : rows' = Drop(r, V)
      BY <2>3
    <3>2. /\ V \cap Approved(r) = {}
          /\ DOMAIN Drop(r, V) = DOMAIN r \ V
          /\ \A f \in DOMAIN r \ V : Drop(r, V)[f] = r[f]
      BY VictimsNotApproved
    <3> QED
      BY <3>1, <3>2, <1>5
  <2> QED
    BY <2>1, <2>2, <2>3
<1> HIDE DEF r
<1> QED
  BY <1>3, <1>4, <1>6 DEF VerdictsPreserved

\* No traffic pattern, eviction or restart changes a verdict that survives it or
\* removes an approval.
THEOREM TrafficSafe == Spec => TrafficPreservesVerdicts
<1>1. ASSUME IInv
      PROVE  ~VerdictsPreserved => ~(ClientStep \/ PruneStep \/ Open \/ Close)
  <2> SUFFICES ASSUME ClientStep \/ PruneStep \/ Open \/ Close
               PROVE  VerdictsPreserved
    OBVIOUS
  <2>1. CASE ClientStep
    BY <1>1, <2>1, ObservePreservesVerdicts DEF ClientStep
  <2>2. CASE PruneStep
    <3>1. PICK max \in PruneLimits :
            \E V \in PruneVictims(rows, max) : rows' = Drop(rows, V)
      BY <2>2 DEF PruneStep, PruneToLimit
    <3>2. PICK V \in PruneVictims(rows, max) : rows' = Drop(rows, V)
      BY <3>1
    <3>3. Approved(rows) \subseteq DOMAIN rows
      BY DEF Approved
    <3>4. /\ V \cap Approved(rows) = {}
          /\ DOMAIN Drop(rows, V) = DOMAIN rows \ V
          /\ \A f \in DOMAIN rows \ V : Drop(rows, V)[f] = rows[f]
      BY VictimsNotApproved
    <3> QED
      BY <3>2, <3>3, <3>4 DEF VerdictsPreserved
  <2>3. CASE Open
    BY <1>1, <2>3, OpenStep DEF VerdictsPreserved, Approved
  <2>4. CASE Close
    BY <2>4 DEF Close, VerdictsPreserved, Approved
  <2> QED
    BY <2>1, <2>2, <2>3, <2>4
<1> QED
  BY <1>1, Invariant, PTL DEF TrafficPreservesVerdicts

-----------------------------------------------------------------------------
(* Only decisions change the scope of an approval *)

\* The operations without a scope argument never change the scope of an approval
\* that stays approved.
THEOREM RescopeSafe == Spec => OnlyDecisionsRescope
<1>1. ASSUME IInv PROVE ~ScopesPreserved => ~OperatorStep
  <2> SUFFICES ASSUME OperatorStep PROVE ScopesPreserved
    OBVIOUS
  <2> USE <1>1
  <2>1. IsTable(rows)
    BY DEF IInv, TypeOK
  <2>2. ASSUME NEW fp \in Fingerprints, NEW status \in Statuses, SetStatus(fp, status)
        PROVE  ScopesPreserved
    <3> SUFFICES ASSUME NEW f \in Approved(rows) \cap Approved(rows')
                 PROVE  rows'[f].scope = rows[f].scope
      BY DEF ScopesPreserved
    <3>1. CASE f # fp
      BY <2>1, <2>2, <3>1 DEF SetStatus, IsTable, Approved
    <3>2. CASE f = fp
      <4>1. rows'[f] = [rows[f] EXCEPT !.status = status, !.scope = NoScope]
        BY <2>1, <2>2, <3>2 DEF SetStatus, IsTable, Approved
      <4>2. rows[f] \in Entry
        BY <2>1 DEF IsTable, Approved
      <4>3. rows'[f].status = status /\ rows'[f].scope = NoScope
        BY <4>1, <4>2 DEF Entry
      <4> QED
        BY <2>2, <3>2, <4>3 DEF SetStatus, MayOverwrite, Approved
    <3> QED
      BY <3>1, <3>2
  <2>3. ASSUME NEW fp \in Fingerprints, NEW status \in Statuses,
               NEW label \in Labels \cup {NoLabel}, UpsertStatus(fp, status, label)
        PROVE  ScopesPreserved
    <3> SUFFICES ASSUME NEW f \in Approved(rows) \cap Approved(rows')
                 PROVE  rows'[f].scope = rows[f].scope
      BY DEF ScopesPreserved
    <3>1. CASE f # fp
      BY <2>1, <2>3, <3>1 DEF UpsertStatus, IsTable, Approved, Put
    <3>2. CASE f = fp
      <4>1. rows'[f] = [rows[f] EXCEPT !.status = status, !.label = label, !.scope = NoScope]
        BY <2>1, <2>3, <3>2 DEF UpsertStatus, IsTable, Approved
      <4>2. rows[f] \in Entry
        BY <2>1 DEF IsTable, Approved
      <4>3. rows'[f].status = status /\ rows'[f].scope = NoScope
        BY <4>1, <4>2 DEF Entry
      <4> QED
        BY <2>3, <3>2, <4>3 DEF UpsertStatus, MayOverwrite, Approved
    <3> QED
      BY <3>1, <3>2
  <2>4. ASSUME NEW fp \in Fingerprints, NEW label \in Labels \cup {NoLabel},
               SetLabel(fp, label)
        PROVE  ScopesPreserved
    BY <2>1, <2>4 DEF SetLabel, IsTable, Entry, ScopesPreserved, Approved
  <2>5. ASSUME NEW fp \in Fingerprints, Delete(fp)
        PROVE  ScopesPreserved
    BY <2>5 DEF Delete, Drop, ScopesPreserved, Approved
  <2>6. CASE ResetFingerprints
    BY <2>6 DEF ResetFingerprints, Drop, ScopesPreserved, Approved
  <2> QED
    BY <2>2, <2>3, <2>4, <2>5, <2>6 DEF OperatorStep
<1> QED
  BY <1>1, Invariant, PTL DEF OnlyDecisionsRescope

-----------------------------------------------------------------------------
(* The row cap *)

\* A table the victims have left is within the cap, or all its rows are approved.
LEMMA VictimsEnough ==
    ASSUME NEW r, IsTable(r), NEW max \in Nat, NEW V \in PruneVictims(r, max)
    PROVE  \/ Cardinality(DOMAIN Drop(r, V)) <= max
           \/ DOMAIN Drop(r, V) = Approved(r)
<1> DEFINE D == DOMAIN r
<1>1. IsFiniteSet(D) /\ Cardinality(D) \in Nat
  BY StoreAssumption, FS_Subset, FS_CardinalityType DEF IsTable
<1>2. V \subseteq D
  BY DEF PruneVictims, PruneCandidates
<1>3. Cardinality(D \ V) = Cardinality(D) - Cardinality(V)
  <2>1. D \cap V = V
    BY <1>2
  <2>2. Cardinality(D \ V) = Cardinality(D) - Cardinality(D \cap V)
    BY <1>1, FS_Difference
  <2> QED
    BY <2>1, <2>2
<1>4. DOMAIN Drop(r, V) = D \ V
  BY DEF Drop
<1>5. CASE Excess(r, max) <= 0 /\ V = {}
  <2>1. D \ V = D
    BY <1>5
  <2>2. Cardinality(D) - max <= 0
    BY <1>5 DEF Excess
  <2> QED
    BY <1>1, <1>4, <2>1, <2>2
<1>6. CASE Excess(r, max) > 0 /\ Cardinality(V) = Excess(r, max)
  BY <1>1, <1>3, <1>4, <1>6 DEF Excess
<1>7. CASE V = PruneCandidates(r)
  BY <1>4, <1>7 DEF PruneCandidates, Approved
<1>8. CASE Excess(r, max) <= 0
  BY <1>5, <1>8 DEF PruneVictims
<1>9. CASE ~(Excess(r, max) <= 0)
  <2>1. Excess(r, max) > 0
    BY <1>1, <1>9 DEF Excess
  <2> QED
    BY <1>6, <1>7, <1>9, <2>1 DEF PruneVictims
<1> QED
  BY <1>8, <1>9

\* However far decisions have taken the table past the cap, a step that admits a
\* client nobody decided about leaves it within the cap.
THEOREM RowCap == Spec => NewcomersWithinCap
<1> DEFINE newcomer(f) == f \in DOMAIN rows' \ DOMAIN rows /\ rows'[f].count > 0
           within == Cardinality(DOMAIN rows') <= MaxFingerprints
<1>1. ASSUME IInv, Next, MaxFingerprints > 0, NEW f, newcomer(f)
      PROVE  within
  <2>1. IsTable(rows) /\ now \in Nat
    BY <1>1 DEF IInv, TypeOK
  <2>2. CASE ClientStep
    <3>1. PICK fp \in Fingerprints, ip \in IPs \cup {0}, port \in Ports \cup {0},
               meta \in MetaSizes, blockUnknown \in BOOLEAN :
            Observe(fp, ip, port, meta, blockUnknown)
      BY <2>2 DEF ClientStep, ObserveStep
    <3>2. PICK e \in Entry :
            /\ fp \notin DOMAIN rows => e.status # "approved" /\ e.count = 1
            /\ IF e.count = 1 /\ MaxFingerprints > 0
               THEN \E V \in PruneVictims(Put(rows, fp, e), MaxFingerprints) :
                        rows' = Drop(Put(rows, fp, e), V)
               ELSE rows' = Put(rows, fp, e)
      BY <1>1, <3>1, ObserveRows
    <3> DEFINE r == Put(rows, fp, e)
    <3>3. IsTable(r) /\ DOMAIN r = DOMAIN rows \cup {fp} /\ r[fp] = e
      BY <2>1, PutTable DEF Put
    <3>4. DOMAIN rows' \subseteq DOMAIN r
      BY <3>2 DEF Drop
    <3>5. f = fp /\ fp \notin DOMAIN rows
      BY <1>1, <3>3, <3>4
    <3>6. PICK V \in PruneVictims(r, MaxFingerprints) : rows' = Drop(r, V)
      BY <1>1, <3>2, <3>5
    <3>7. fp \notin Approved(r)
      BY <3>2, <3>3, <3>5 DEF Approved
    <3> HIDE DEF r
    <3>8. \/ Cardinality(DOMAIN rows') <= MaxFingerprints
          \/ DOMAIN rows' = Approved(r)
      BY <3>3, <3>6, StoreAssumption, VictimsEnough
    <3> QED
      BY <1>1, <3>5, <3>7, <3>8
  <2>3. ASSUME NEW S, rows' = Drop(rows, S) PROVE FALSE
    BY <1>1, <2>3 DEF Drop
  <2>4. ASSUME DOMAIN rows' = DOMAIN rows PROVE FALSE
    BY <1>1, <2>4
  <2>5. CASE DecisionStep
    <3>1. PICK batch \in Batches : rows' = Decided(batch)
      BY <2>5 DEF DecisionStep, ApplyDecisions
    <3>2. f \in DOMAIN rows' /\ f \notin DOMAIN rows
      BY <1>1
    <3>3. rows'[f].count = 0
      BY <3>1, <3>2 DEF Decided, Placeholder
    <3> QED
      BY <1>1, <3>3
  <2>6. CASE OperatorStep
    <3>1. ASSUME NEW fp, NEW status, NEW label, UpsertStatus(fp, status, label)
          PROVE  FALSE
      <4>1. CASE fp \in DOMAIN rows
        BY <2>1, <2>4, <3>1, <4>1 DEF UpsertStatus, IsTable
      <4>2. CASE fp \notin DOMAIN rows
        <5>1. rows'[f].count = 0
          BY <1>1, <3>1, <4>2 DEF UpsertStatus, Put, Placeholder
        <5> QED
          BY <1>1, <5>1
      <4> QED
        BY <4>1, <4>2
    <3>2. ASSUME NEW fp, NEW status, SetStatus(fp, status) PROVE FALSE
      BY <2>1, <2>4, <3>2 DEF SetStatus, IsTable
    <3>3. ASSUME NEW fp, NEW label, SetLabel(fp, label) PROVE FALSE
      BY <2>1, <2>4, <3>3 DEF SetLabel, IsTable
    <3>4. ASSUME NEW fp, Delete(fp) PROVE FALSE
      BY <2>3, <3>4 DEF Delete
    <3>5. CASE ResetFingerprints
      BY <2>3, <3>5 DEF ResetFingerprints
    <3> QED
      BY <2>6, <3>1, <3>2, <3>3, <3>4, <3>5 DEF OperatorStep
  <2>7. CASE Clock \/ Open \/ Close
    BY <2>4, <2>7 DEF Clock, Open, boundExistingHistory, Close
  <2>8. CASE PruneStep
    BY <2>3, <2>8 DEF PruneStep, PruneToLimit
  <2> QED
    BY <1>1, <2>2, <2>5, <2>6, <2>7, <2>8 DEF Next
<1>2. IInv /\ [Next]_vars =>
        [(MaxFingerprints > 0 /\ \E f \in DOMAIN rows' \ DOMAIN rows : rows'[f].count > 0)
            => within]_vars
  BY <1>1
<1> QED
  BY <1>2, Invariant, PTL DEF NewcomersWithinCap, Spec

-----------------------------------------------------------------------------
(* Eviction order *)

\* The text of a time lies in the second of the time.
LEMMA EncodedWithinSecond ==
    ASSUME NEW t \in Nat
    PROVE  /\ Second(t) \in Nat /\ encodeTime(t) \in Int
           /\ Second(t) * TicksPerSecond <= encodeTime(t)
           /\ encodeTime(t) < (Second(t) + 1) * TicksPerSecond
<1>1. PICK n \in Nat \ {0} : n = TicksPerSecond
  BY StoreAssumption
<1>2. /\ t \div n \in Nat /\ t % n \in 0..(n - 1)
      /\ t = n * (t \div n) + (t % n)
  BY <1>1
<1>3. PICK q \in Nat, m \in 0..(n - 1) : q = t \div n /\ m = t % n
  BY <1>2
<1>4. PICK p \in Nat : p = n * q
  BY <1>1, <1>3
<1>5. t = p + m
  BY <1>2, <1>3, <1>4
<1>6. q * n = p /\ (q + 1) * n = p + n
  BY <1>1, <1>3, <1>4
<1>7. encodeTime(t) = IF m = 0 THEN t + (n - 1) ELSE t - 1
  BY <1>1, <1>3 DEF encodeTime
<1>8. /\ encodeTime(t) \in Int
      /\ p <= encodeTime(t)
      /\ encodeTime(t) < p + n
  BY <1>1, <1>3, <1>4, <1>5, <1>7
<1> QED
  BY <1>1, <1>3, <1>6, <1>8 DEF Second

\* Times whose texts are in order are in order of their seconds.
LEMMA EncodedOrder ==
    ASSUME NEW a \in Nat, NEW b \in Nat, encodeTime(a) <= encodeTime(b)
    PROVE  Second(a) <= Second(b)
<1>1. PICK n \in Nat \ {0} : n = TicksPerSecond
  BY StoreAssumption
<1>2. PICK p \in Nat, q \in Nat : p = Second(a) /\ q = Second(b)
  BY EncodedWithinSecond
<1>3. p * n < (q + 1) * n
  <2>1. /\ p * n <= encodeTime(a) /\ encodeTime(a) \in Int
        /\ encodeTime(b) < (q + 1) * n /\ encodeTime(b) \in Int
    BY <1>1, <1>2, EncodedWithinSecond
  <2>2. p * n \in Int /\ (q + 1) * n \in Int
    BY <1>1, <1>2
  <2> QED
    BY <2>1, <2>2
<1>4. ~(q + 1 <= p)
  <2> SUFFICES ASSUME q + 1 <= p PROVE FALSE
    OBVIOUS
  <2>1. PICK d \in Nat : p = (q + 1) + d
    <3>1. p - (q + 1) \in Nat /\ p = (q + 1) + (p - (q + 1))
      BY <1>2
    <3> QED
      BY <3>1
  <2>2. p * n = (q + 1) * n + d * n
    <3>1. \A x, y, z \in Nat : (x + y) * z = x * z + y * z
      OBVIOUS
    <3> QED
      BY <2>1, <1>1, <1>2, <3>1
  <2>3. d * n >= 0 /\ d * n \in Int /\ (q + 1) * n \in Int
    BY <2>1, <1>1, <1>2
  <2> QED
    BY <2>2, <2>3, <1>3
<1> QED
  BY <1>2, <1>4

\* The victims of a prune precede what is left in the order of the seconds they
\* were last seen in.
LEMMA VictimsOldest ==
    ASSUME NEW r, IsTable(r), NEW max, NEW V \in PruneVictims(r, max),
           NEW v \in V, NEW w \in DOMAIN r \ V, r[w].status # "approved"
    PROVE  Second(r[v].last) <= Second(r[w].last)
<1>1. v \in DOMAIN r /\ w \in PruneCandidates(r) \ V
  BY DEF PruneVictims, PruneCandidates, Approved
<1>2. encodeTime(r[v].last) <= encodeTime(r[w].last)
  BY <1>1 DEF PruneVictims, PruneKey
<1>3. r[v].last \in Nat /\ r[w].last \in Nat
  BY <1>1 DEF IsTable, Entry
<1> QED
  BY <1>2, <1>3, EncodedOrder

\* What the row cap and PruneToLimit evict was last seen, to the second, no later
\* than any non-approved row they leave; last_seen texts need not sort as times
\* do within a second, and this is all the order they give.
THEOREM EvictionOrder == Spec => EvictsOldestSecond
<1>1. ASSUME IInv, PruneStep PROVE EvictedInOrder(LastSeen, Second)
  <2>1. PICK max \in PruneLimits :
          \E V \in PruneVictims(rows, max) : rows' = Drop(rows, V)
    BY <1>1 DEF PruneStep, PruneToLimit
  <2>2. PICK V \in PruneVictims(rows, max) : rows' = Drop(rows, V)
    BY <2>1
  <2>3. IsTable(rows)
    BY <1>1 DEF IInv, TypeOK
  <2>4. /\ DOMAIN rows' = DOMAIN rows \ V
        /\ \A f \in DOMAIN rows' : rows'[f] = rows[f]
    BY <2>2 DEF Drop
  <2> SUFFICES ASSUME NEW v \in DOMAIN LastSeen \ DOMAIN rows',
                      NEW w \in DOMAIN rows' \ Approved(rows')
               PROVE  Second(LastSeen[v]) <= Second(rows'[w].last)
    BY DEF EvictedInOrder
  <2>5. v \in V /\ LastSeen[v] = rows[v].last
    BY <2>4 DEF LastSeen
  <2>6. /\ w \in DOMAIN rows \ V
        /\ rows'[w] = rows[w]
        /\ rows[w].status # "approved"
    BY <2>4 DEF Approved
  <2> QED
    BY <2>2, <2>3, <2>5, <2>6, VictimsOldest
<1>2. ASSUME IInv, NEW fp \in Fingerprints, ObserveStep(fp)
      PROVE  EvictedInOrder(Put(LastSeen, fp, now), Second)
  <2>1. PICK ip \in IPs \cup {0}, port \in Ports \cup {0}, meta \in MetaSizes,
             blockUnknown \in BOOLEAN : Observe(fp, ip, port, meta, blockUnknown)
    BY <1>2 DEF ObserveStep
  <2>2. PICK e \in Entry :
          /\ e.last = now
          /\ \/ rows' = Put(rows, fp, e)
             \/ \E V \in PruneVictims(Put(rows, fp, e), MaxFingerprints) :
                    rows' = Drop(Put(rows, fp, e), V)
    BY <1>2, <2>1, ObserveRows
  <2> DEFINE r == Put(rows, fp, e)
             seen == Put(LastSeen, fp, now)
  <2>3. IsTable(r)
    BY <1>2, PutTable DEF IInv, TypeOK
  <2>4. DOMAIN seen = DOMAIN r /\ \A f \in DOMAIN r : seen[f] = r[f].last
    BY <2>2 DEF Put, LastSeen
  <2>5. rows' = r \/ \E V \in PruneVictims(r, MaxFingerprints) : rows' = Drop(r, V)
    BY <2>2
  <2> HIDE DEF r, seen
  <2>6. CASE rows' = r
    BY <2>4, <2>6 DEF EvictedInOrder, seen
  <2>7. CASE \E V \in PruneVictims(r, MaxFingerprints) : rows' = Drop(r, V)
    <3>1. PICK V \in PruneVictims(r, MaxFingerprints) : rows' = Drop(r, V)
      BY <2>7
    <3>2. /\ DOMAIN rows' = DOMAIN r \ V
          /\ \A f \in DOMAIN rows' : rows'[f] = r[f]
      BY <3>1 DEF Drop
    <3>3. ASSUME NEW v \in DOMAIN seen \ DOMAIN rows',
                 NEW w \in DOMAIN rows' \ Approved(rows')
          PROVE  Second(seen[v]) <= Second(rows'[w].last)
      <4>1. v \in V /\ seen[v] = r[v].last
        BY <2>4, <3>2
      <4>2. /\ w \in DOMAIN r \ V
            /\ rows'[w] = r[w]
            /\ r[w].status # "approved"
        BY <3>2 DEF Approved
      <4> QED
        BY <2>3, <3>1, <4>1, <4>2, VictimsOldest
    <3> QED
      BY <3>3 DEF EvictedInOrder, seen
  <2> QED
    BY <2>5, <2>6, <2>7
<1>3. IInv /\ [Next]_vars =>
        [/\ ~EvictedInOrder(LastSeen, Second) => ~PruneStep
         /\ \A fp \in Fingerprints :
                ~EvictedInOrder(Put(LastSeen, fp, now), Second) => ~ObserveStep(fp)]_vars
  BY <1>1, <1>2
<1> QED
  BY <1>3, Invariant, PTL DEF EvictsOldestSecond, Spec

-----------------------------------------------------------------------------
(* Store implements Verdicts *)

\* A database an earlier release left holds no scope and no cursor.
LEMMA PromiseInit == Init => Promise!Init
<1> SUFFICES ASSUME Init PROVE Promise!Init
  OBVIOUS
<1>1. PICK S \in SUBSET Fingerprints : rows \in [S -> LegacyRows]
  BY DEF Init
<1>2. \A f \in DOMAIN rows : rows[f].scope = NoScope
  BY <1>1, StoreAssumption
<1> QED
  BY <1>2 DEF Init, Promise!Init

\* A step that removes no row is a decision when what it leaves can be read back.
LEMMA KeepingRowsDecides ==
    ASSUME IInv', DOMAIN rows \subseteq DOMAIN rows',
           cursor' = NoCursor => cursor = NoCursor
    PROVE  Promise!Decide
BY DEF IInv, EveryRowReadable, scanEntry, Promise!Decide, Promise!Gone

\* A sighting, and what the row cap evicts in its transaction, is traffic.
LEMMA ObserveIsTraffic ==
    ASSUME IInv, NEW fp \in Fingerprints, ObserveStep(fp)
    PROVE  Promise!Traffic
<1>1. PICK ip \in IPs \cup {0}, port \in Ports \cup {0}, meta \in MetaSizes,
           blockUnknown \in BOOLEAN : Observe(fp, ip, port, meta, blockUnknown)
  BY DEF ObserveStep
<1>2. PICK e \in Entry :
        /\ fp \in DOMAIN rows => Verdict(e) = Verdict(rows[fp])
        /\ fp \notin DOMAIN rows => /\ e.status \in {"pending", "blocked"}
                                    /\ e.label = NoLabel
                                    /\ e.scope = NoScope
        /\ \/ rows' = Put(rows, fp, e)
           \/ \E V \in PruneVictims(Put(rows, fp, e), MaxFingerprints) :
                  rows' = Drop(Put(rows, fp, e), V)
  BY <1>1, ObserveRows
<1> DEFINE r == Put(rows, fp, e)
<1>3. /\ DOMAIN r = DOMAIN rows \cup {fp}
      /\ r[fp] = e
      /\ \A f \in DOMAIN rows : /\ r[f].status = rows[f].status
                                /\ r[f].label = rows[f].label
                                /\ r[f].scope = rows[f].scope
  BY <1>2 DEF Put, Verdict
<1>4. /\ DOMAIN rows' \subseteq DOMAIN r
      /\ \A f \in DOMAIN rows' : rows'[f] = r[f]
      /\ \A f \in DOMAIN r \ DOMAIN rows' : r[f].status # "approved"
  <2>1. \/ rows' = r
        \/ \E V \in PruneVictims(r, MaxFingerprints) : rows' = Drop(r, V)
    BY <1>2
  <2> HIDE DEF r
  <2>2. CASE rows' = r
    BY <2>2
  <2>3. CASE \E V \in PruneVictims(r, MaxFingerprints) : rows' = Drop(r, V)
    <3>1. PICK V \in PruneVictims(r, MaxFingerprints) : rows' = Drop(r, V)
      BY <2>3
    <3>2. /\ V \cap Approved(r) = {}
          /\ DOMAIN rows' = DOMAIN r \ V
          /\ \A f \in DOMAIN r \ V : rows'[f] = r[f]
      BY <3>1, VictimsNotApproved
    <3> QED
      BY <3>2 DEF Approved
  <2> QED
    BY <2>1, <2>2, <2>3
<1> HIDE DEF r
<1>5. cursor' = cursor
  BY <1>1 DEF Observe
<1> QED
  BY <1>2, <1>3, <1>4, <1>5
  DEF Promise!Traffic, Promise!Kept, Promise!New, Promise!Gone, Promise!Same

\* Periodic pruning is traffic.
LEMMA PruneIsTraffic ==
    ASSUME PruneStep
    PROVE  Promise!Traffic
<1>1. PICK max \in PruneLimits :
        /\ \E V \in PruneVictims(rows, max) : rows' = Drop(rows, V)
        /\ cursor' = cursor
  BY DEF PruneStep, PruneToLimit
<1>2. PICK V \in PruneVictims(rows, max) : rows' = Drop(rows, V)
  BY <1>1
<1>3. /\ V \cap Approved(rows) = {}
      /\ DOMAIN rows' = DOMAIN rows \ V
      /\ \A f \in DOMAIN rows \ V : rows'[f] = rows[f]
  BY <1>2, VictimsNotApproved
<1>4. \A f \in DOMAIN rows \cap V : rows[f].status # "approved"
  BY <1>3 DEF Approved
<1> QED
  BY <1>1, <1>3, <1>4
  DEF Promise!Traffic, Promise!Kept, Promise!New, Promise!Gone, Promise!Same

\* Every step of the store is a step of Verdicts, or changes no verdict.
LEMMA PromiseStep == IInv /\ [Next]_vars => [Promise!Next]_(Promise!vars)
<1> SUFFICES ASSUME IInv, [Next]_vars PROVE [Promise!Next]_(Promise!vars)
  OBVIOUS
<1>1. IInv'
  BY NextIInv
<1>2. CASE Clock \/ Open \/ Close
  <2>1. DOMAIN rows' = DOMAIN rows /\ cursor' = cursor
    BY <1>2, OpenStep DEF Clock, Open, Close
  <2> QED
    BY <1>1, <2>1, KeepingRowsDecides DEF Promise!Next
<1>3. CASE ClientStep
  BY <1>3, ObserveIsTraffic DEF ClientStep, Promise!Next
<1>4. CASE PruneStep
  BY <1>4, PruneIsTraffic DEF Promise!Next
<1>5. CASE DecisionStep
  <2>1. DOMAIN rows \subseteq DOMAIN rows' /\ (cursor' = NoCursor => cursor = NoCursor)
    BY <1>5 DEF DecisionStep, ApplyDecisions, Decided
  <2> QED
    BY <1>1, <2>1, KeepingRowsDecides DEF Promise!Next
<1>6. CASE OperatorStep
  <2>1. ASSUME NEW fp \in Fingerprints, NEW status \in Statuses, SetStatus(fp, status)
        PROVE  Promise!Decide
    <3>1. DOMAIN rows' = DOMAIN rows /\ cursor' = cursor
      BY <2>1 DEF SetStatus
    <3> QED
      BY <1>1, <3>1, KeepingRowsDecides
  <2>2. ASSUME NEW fp \in Fingerprints, NEW status \in Statuses,
               NEW label \in Labels \cup {NoLabel}, UpsertStatus(fp, status, label)
        PROVE  Promise!Decide
    <3>1. DOMAIN rows \subseteq DOMAIN rows' /\ cursor' = cursor
      BY <2>2 DEF UpsertStatus, Put
    <3> QED
      BY <1>1, <3>1, KeepingRowsDecides
  <2>3. ASSUME NEW fp \in Fingerprints, NEW label \in Labels \cup {NoLabel},
               SetLabel(fp, label)
        PROVE  Promise!Decide
    <3>1. DOMAIN rows' = DOMAIN rows /\ cursor' = cursor
      BY <2>3 DEF SetLabel
    <3> QED
      BY <1>1, <3>1, KeepingRowsDecides
  <2>4. ASSUME NEW fp \in Fingerprints, Delete(fp)
        PROVE  Promise!Next
    <3>1. /\ fp \in DOMAIN rows
          /\ DOMAIN rows' = DOMAIN rows \ {fp}
          /\ \A f \in DOMAIN rows' : rows'[f] = rows[f]
          /\ cursor' = cursor
      BY <2>4 DEF Delete, Drop
    <3>2. fp \in Promise!Gone
      BY <3>1 DEF Promise!Gone
    <3>3. Promise!Forget(fp)
      BY <3>1 DEF Promise!Forget, Promise!Kept, Promise!New, Promise!Gone, Promise!Same
    <3> QED
      BY <3>2, <3>3 DEF Promise!Next
  <2>5. CASE ResetFingerprints
    <3>1. DOMAIN rows' = {} /\ cursor' = NoCursor
      BY <2>5 DEF ResetFingerprints, Drop
    <3> QED
      BY <3>1 DEF Promise!Next, Promise!Reset
  <2> QED
    BY <1>6, <2>1, <2>2, <2>3, <2>4, <2>5 DEF OperatorStep, Promise!Next
<1>7. CASE UNCHANGED vars
  BY <1>7 DEF vars, Promise!vars
<1> QED
  BY <1>2, <1>3, <1>4, <1>5, <1>6, <1>7 DEF Next

\* The store implements Verdicts whatever its limits and whoever calls it: no
\* transaction mixes an eviction with a decision, removes an approval by traffic,
\* or forgets the hub's verdicts and keeps the cursor that says they were applied.
THEOREM StoreKeepsPromise == Spec => KeepsPromise
BY PromiseInit, PromiseStep, Invariant, PTL DEF Spec, KeepsPromise, Promise!Spec

-----------------------------------------------------------------------------
(* Trimming: the orders SQLite cuts a history by *)

Smaller(S) == {p \in S \X S : p[1] < p[2]}
Earlier(S) == {p \in S \X S : SightingBefore(p[1], p[2])}

LEMMA SmallerOrder ==
    ASSUME NEW S \in SUBSET Nat
    PROVE  /\ StrictOrder(Smaller(S), S)
           /\ KeepSmallest(S) = Lowest(S, Smaller(S), MaxObservationValues)
<1>1. StrictOrder(Smaller(S), S)
  BY DEF Smaller, StrictOrder
<1>2. ASSUME NEW x \in S PROVE {y \in S : y < x} = Below(S, Smaller(S), x)
  BY DEF Below, Smaller
<1>3. KeepSmallest(S) = Lowest(S, Smaller(S), MaxObservationValues)
  BY <1>2 DEF KeepSmallest, Lowest
<1> QED
  BY <1>1, <1>3

\* Different times have different texts.
LEMMA EncodedInjective ==
    ASSUME NEW a \in Nat, NEW b \in Nat, encodeTime(a) = encodeTime(b)
    PROVE  a = b
<1>1. PICK n \in Nat \ {0} : n = TicksPerSecond
  BY StoreAssumption
<1>2. encodeTime(a) \in Int /\ encodeTime(b) \in Int
  BY EncodedWithinSecond
<1>3. Second(a) \in Nat /\ Second(b) \in Nat /\ Second(a) <= Second(b) /\ Second(b) <= Second(a)
  BY <1>2, EncodedOrder, EncodedWithinSecond
<1>4. PICK q \in Nat : q = a \div n /\ q = b \div n
  BY <1>1, <1>3 DEF Second
<1>5. PICK i \in 0..(n - 1), j \in 0..(n - 1) : i = a % n /\ j = b % n
  BY <1>1
<1>6. PICK p \in Nat : p = n * q
  BY <1>1, <1>4
<1>7. a = p + i /\ b = p + j
  BY <1>1, <1>4, <1>5, <1>6
<1>8. /\ encodeTime(a) = IF i = 0 THEN a + (n - 1) ELSE a - 1
      /\ encodeTime(b) = IF j = 0 THEN b + (n - 1) ELSE b - 1
  BY <1>1, <1>5 DEF encodeTime
<1>9. i = j
  BY <1>1, <1>5, <1>6, <1>7, <1>8
<1> QED
  BY <1>7, <1>9

LEMMA SightingParts ==
    ASSUME NEW s \in Sightings
    PROVE  /\ s.ip \in Nat /\ s.port \in Nat /\ s.last \in Nat /\ encodeTime(s.last) \in Int
           /\ s = [ip |-> s.ip, port |-> s.port, last |-> s.last]
<1>1. /\ s.ip \in Nat /\ s.port \in Nat /\ s.last \in Nat
      /\ s = [ip |-> s.ip, port |-> s.port, last |-> s.last]
  BY StoreAssumption DEF Sightings
<1> QED
  BY <1>1, EncodedWithinSecond

LEMMA SightingBeforeTrans ==
    ASSUME NEW a \in Sightings, NEW b \in Sightings, NEW c \in Sightings,
           SightingBefore(a, b), SightingBefore(b, c)
    PROVE  SightingBefore(a, c)
<1>1. PICK x \in Int, y \in Int, z \in Int :
        x = encodeTime(a.last) /\ y = encodeTime(b.last) /\ z = encodeTime(c.last)
  BY SightingParts
<1>2. PICK i \in Nat, j \in Nat, k \in Nat : i = a.ip /\ j = b.ip /\ k = c.ip
  BY SightingParts
<1>3. PICK p \in Nat, q \in Nat, r \in Nat : p = a.port /\ q = b.port /\ r = c.port
  BY SightingParts
<1>4. x > y \/ (a.last = b.last /\ (i < j \/ (i = j /\ p < q)))
  BY <1>1, <1>2, <1>3 DEF SightingBefore
<1>5. y > z \/ (b.last = c.last /\ (j < k \/ (j = k /\ q < r)))
  BY <1>1, <1>2, <1>3 DEF SightingBefore
<1>6. a.last = b.last => x = y
  BY <1>1
<1>7. b.last = c.last => y = z
  BY <1>1
<1>8. x > z \/ (a.last = c.last /\ (i < k \/ (i = k /\ p < r)))
  BY <1>1, <1>2, <1>3, <1>4, <1>5, <1>6, <1>7
<1> QED
  BY <1>1, <1>2, <1>3, <1>8 DEF SightingBefore

LEMMA EarlierOrder ==
    ASSUME NEW S \in SUBSET Sightings
    PROVE  /\ StrictOrder(Earlier(S), S)
           /\ KeepSightings(S) = Lowest(S, Earlier(S), MaxObservationValues)
<1>1. ASSUME NEW x \in S PROVE ~SightingBefore(x, x)
  BY SightingParts DEF SightingBefore
<1>2. ASSUME NEW x \in S, NEW y \in S, NEW z \in S, SightingBefore(x, y), SightingBefore(y, z)
      PROVE  SightingBefore(x, z)
  BY <1>2, SightingBeforeTrans
<1>3. ASSUME NEW x \in S, NEW y \in S, ~SightingBefore(x, y), ~SightingBefore(y, x)
      PROVE  x = y
  <2>1. x \in Sightings /\ y \in Sightings
    OBVIOUS
  <2>2. encodeTime(x.last) = encodeTime(y.last)
    BY <1>3, <2>1, SightingParts DEF SightingBefore
  <2>3. x.last = y.last
    BY <2>1, <2>2, SightingParts, EncodedInjective
  <2>4. x.ip = y.ip /\ x.port = y.port
    BY <1>3, <2>1, <2>3, SightingParts DEF SightingBefore
  <2> QED
    BY <2>1, <2>3, <2>4, SightingParts
<1>4. StrictOrder(Earlier(S), S)
  BY <1>1, <1>2, <1>3 DEF Earlier, StrictOrder
<1>5. ASSUME NEW x \in S PROVE {y \in S : SightingBefore(y, x)} = Below(S, Earlier(S), x)
  BY DEF Below, Earlier
<1>6. KeepSightings(S) = Lowest(S, Earlier(S), MaxObservationValues)
  BY <1>5 DEF KeepSightings, Lowest
<1> QED
  BY <1>4, <1>6

-----------------------------------------------------------------------------
(* The history of a row *)

FiniteHistory(e) == IsFiniteSet(e.ips) /\ IsFiniteSet(e.ports) /\ IsFiniteSet(e.sightings)

BoundedHistory(e) ==
    /\ Cardinality(e.ips) <= MaxObservationValues
    /\ Cardinality(e.ports) <= MaxObservationValues
    /\ Cardinality(e.sightings) <= MaxObservationValues
    /\ e.meta <= MaxMetadataBytes

SameHistory(d, e) ==
    d.ips = e.ips /\ d.ports = e.ports /\ d.sightings = e.sightings /\ d.meta = e.meta

NoHistory(e) == e.ips = {} /\ e.ports = {} /\ e.sightings = {} /\ e.meta = 0

\* Every history is finite, and within the bounds while the store is open: a
\* closed database may be one an older release left.
HistoryInv ==
    \A f \in DOMAIN rows :
        FiniteHistory(rows[f]) /\ (open => BoundedHistory(rows[f]))

LEMMA EntryHistory ==
    ASSUME NEW e \in Entry
    PROVE  /\ e.ips \in SUBSET Nat /\ e.ports \in SUBSET Nat
           /\ e.sightings \in SUBSET Sightings /\ e.meta \in Nat
BY StoreAssumption DEF Entry

\* trimHistory bounds what it cuts.
LEMMA TrimBounds ==
    ASSUME NEW e \in Entry, FiniteHistory(e), e.meta <= MaxMetadataBytes
    PROVE  FiniteHistory(trimHistory(e)) /\ BoundedHistory(trimHistory(e))
<1>1. MaxObservationValues \in Nat
  BY StoreAssumption
<1>2. /\ trimHistory(e).ips = KeepSmallest(e.ips)
      /\ trimHistory(e).ports = KeepSmallest(e.ports)
      /\ trimHistory(e).sightings = KeepSightings(e.sightings)
      /\ trimHistory(e).meta = e.meta
  BY DEF trimHistory, Entry
<1>3. /\ e.ips \in SUBSET Nat /\ e.ports \in SUBSET Nat /\ e.sightings \in SUBSET Sightings
      /\ IsFiniteSet(e.ips) /\ IsFiniteSet(e.ports) /\ IsFiniteSet(e.sightings)
  BY EntryHistory DEF FiniteHistory
<1>4. ASSUME NEW S \in SUBSET Nat, IsFiniteSet(S)
      PROVE  /\ IsFiniteSet(KeepSmallest(S))
             /\ Cardinality(KeepSmallest(S)) <= MaxObservationValues
  BY <1>1, <1>4, SmallerOrder, LowestBounded
<1>5. /\ IsFiniteSet(KeepSightings(e.sightings))
      /\ Cardinality(KeepSightings(e.sightings)) <= MaxObservationValues
  BY <1>1, <1>3, EarlierOrder, LowestBounded
<1> QED
  BY <1>2, <1>3, <1>4, <1>5 DEF FiniteHistory, BoundedHistory

LEMMA SameHistoryBounds ==
    ASSUME NEW d, NEW e, SameHistory(d, e)
    PROVE  /\ FiniteHistory(d) <=> FiniteHistory(e)
           /\ BoundedHistory(d) <=> BoundedHistory(e)
BY DEF SameHistory, FiniteHistory, BoundedHistory

LEMMA NoHistoryBounds ==
    ASSUME NEW e, NoHistory(e)
    PROVE  FiniteHistory(e) /\ BoundedHistory(e)
BY FS_EmptySet, StoreAssumption DEF NoHistory, FiniteHistory, BoundedHistory

\* What a step does to the history of one row that is there afterwards.
HistoryAlone(f) ==
    \/ f \in DOMAIN rows /\ SameHistory(rows'[f], rows[f])
    \/ f \notin DOMAIN rows /\ NoHistory(rows'[f])

\* The setters and the hub's decisions rewrite status, label and scope only, and
\* create rows without a history.
LEMMA DecisionsLeaveHistory ==
    ASSUME IInv, DecisionStep, NEW f \in DOMAIN rows'
    PROVE  HistoryAlone(f)
<1>1. PICK batch \in Batches : rows' = Decided(batch)
  BY DEF DecisionStep, ApplyDecisions
<1>2. PICK s, l, c :
        \/ f \in DOMAIN rows /\ rows'[f] = rows[f]
        \/ /\ f \in DOMAIN rows
           /\ rows'[f] = [rows[f] EXCEPT !.status = s, !.label = l, !.scope = c]
        \/ f \notin DOMAIN rows /\ rows'[f] = Placeholder(s, l, c)
  <2> DEFINE named == {batch[i].fp : i \in DOMAIN batch}
             last == batch[CHOOSE i \in DOMAIN batch :
                              /\ batch[i].fp = f
                              /\ \A j \in DOMAIN batch : batch[j].fp = f => j <= i]
  <2>1. f \in DOMAIN rows \cup named
    BY <1>1 DEF Decided
  <2>2. rows'[f] = IF f \notin named THEN rows[f]
                   ELSE IF f \in DOMAIN rows
                   THEN [rows[f] EXCEPT !.status = last.status, !.label = last.label,
                                        !.scope = last.scope]
                   ELSE Placeholder(last.status, last.label, last.scope)
    BY <1>1, <2>1 DEF Decided
  <2> HIDE DEF named, last
  <2> QED
    BY <2>1, <2>2
<1>3. CASE f \in DOMAIN rows /\ rows'[f] = rows[f]
  BY <1>3 DEF HistoryAlone, SameHistory
<1>4. CASE /\ f \in DOMAIN rows
           /\ rows'[f] = [rows[f] EXCEPT !.status = s, !.label = l, !.scope = c]
  <2>1. PICK x \in Entry : x = rows[f]
    BY <1>4 DEF IInv, TypeOK, IsTable
  <2>2. PICK y : y = [x EXCEPT !.status = s, !.label = l, !.scope = c]
    OBVIOUS
  <2>3. SameHistory(y, x)
    BY <2>2 DEF SameHistory, Entry
  <2>4. rows'[f] = y
    BY <1>4, <2>1, <2>2
  <2> QED
    BY <1>4, <2>1, <2>3, <2>4 DEF HistoryAlone
<1>5. CASE f \notin DOMAIN rows /\ rows'[f] = Placeholder(s, l, c)
  BY <1>5 DEF HistoryAlone, NoHistory, Placeholder
<1> QED
  BY <1>2, <1>3, <1>4, <1>5

LEMMA SetterLeavesHistory ==
    ASSUME IInv, OperatorStep, NEW f \in DOMAIN rows'
    PROVE  HistoryAlone(f)
<1>1. IsTable(rows)
  BY DEF IInv, TypeOK
<1>2. ASSUME NEW fp \in Fingerprints, NEW status \in Statuses, SetStatus(fp, status)
      PROVE  HistoryAlone(f)
  <2>1. PICK x : x = rows[fp]
    OBVIOUS
  <2>2. rows' = [rows EXCEPT ![fp] = [x EXCEPT !.status = status, !.scope = NoScope]]
    BY <1>1, <1>2, <2>1 DEF SetStatus, IsTable
  <2>3. f \in DOMAIN rows /\ rows[f] \in Entry /\ fp \in DOMAIN rows /\ x \in Entry
    BY <1>1, <1>2, <2>1, <2>2 DEF IsTable, SetStatus
  <2>4. SameHistory([x EXCEPT !.status = status, !.scope = NoScope], x)
    BY <2>3 DEF SameHistory, Entry
  <2> QED
    BY <2>1, <2>2, <2>3, <2>4 DEF HistoryAlone, SameHistory
<1>3. ASSUME NEW fp \in Fingerprints, NEW status \in Statuses,
             NEW label \in Labels \cup {NoLabel}, UpsertStatus(fp, status, label)
      PROVE  HistoryAlone(f)
  <2>1. CASE fp \in DOMAIN rows
    <3>1. PICK x : x = rows[fp]
      OBVIOUS
    <3>2. PICK y : y = [x EXCEPT !.status = status, !.label = label, !.scope = NoScope]
      OBVIOUS
    <3>3. rows' = [rows EXCEPT ![fp] = y]
      BY <1>1, <1>3, <2>1, <3>1, <3>2 DEF UpsertStatus, IsTable
    <3>4. f \in DOMAIN rows /\ rows[f] \in Entry /\ x \in Entry
      BY <1>1, <2>1, <3>1, <3>3 DEF IsTable
    <3>5. SameHistory(y, x)
      BY <3>2, <3>4 DEF SameHistory, Entry
    <3> QED
      BY <2>1, <3>1, <3>3, <3>4, <3>5 DEF HistoryAlone, SameHistory
  <2>2. CASE fp \notin DOMAIN rows
    <3>1. PICK y : y = Placeholder(status, label, NoScope)
      OBVIOUS
    <3>2. NoHistory(y)
      BY <3>1 DEF NoHistory, Placeholder
    <3>3. rows' = Put(rows, fp, y)
      BY <1>3, <2>2, <3>1 DEF UpsertStatus
    <3> QED
      BY <2>2, <3>2, <3>3 DEF HistoryAlone, SameHistory, Put
  <2> QED
    BY <2>1, <2>2
<1>4. ASSUME NEW fp \in Fingerprints, NEW label \in Labels \cup {NoLabel}, SetLabel(fp, label)
      PROVE  HistoryAlone(f)
  <2>1. PICK x : x = rows[fp]
    OBVIOUS
  <2>2. rows' = [rows EXCEPT ![fp] = [x EXCEPT !.label = label]]
    BY <1>1, <1>4, <2>1 DEF SetLabel, IsTable
  <2>3. f \in DOMAIN rows /\ rows[f] \in Entry /\ fp \in DOMAIN rows /\ x \in Entry
    BY <1>1, <1>4, <2>1, <2>2 DEF IsTable, SetLabel
  <2>4. SameHistory([x EXCEPT !.label = label], x)
    BY <2>3 DEF SameHistory, Entry
  <2> QED
    BY <2>1, <2>2, <2>3, <2>4 DEF HistoryAlone, SameHistory
<1>5. ASSUME NEW fp \in Fingerprints, Delete(fp) PROVE HistoryAlone(f)
  BY <1>5 DEF Delete, Drop, HistoryAlone, SameHistory
<1>6. CASE ResetFingerprints
  BY <1>6 DEF ResetFingerprints, Drop
<1> QED
  BY <1>2, <1>3, <1>4, <1>5, <1>6 DEF OperatorStep

\* Of all steps only Open and Observe write a history.
LEMMA OthersLeaveHistory ==
    ASSUME IInv, Clock \/ Close \/ PruneStep \/ DecisionStep \/ OperatorStep,
           NEW f \in DOMAIN rows'
    PROVE  HistoryAlone(f) /\ (open' => open)
<1>1. CASE Clock \/ Close
  BY <1>1 DEF Clock, Close, HistoryAlone, SameHistory
<1>2. CASE PruneStep
  BY <1>2 DEF PruneStep, PruneToLimit, Drop, HistoryAlone, SameHistory
<1>3. CASE DecisionStep
  BY <1>3, DecisionsLeaveHistory DEF DecisionStep, ApplyDecisions
<1>4. CASE OperatorStep
  <2>1. open' = open
    BY <1>4 DEF OperatorStep, SetStatus, UpsertStatus, SetLabel, Delete, ResetFingerprints
  <2> QED
    BY <1>4, <2>1, SetterLeavesHistory
<1> QED
  BY <1>1, <1>2, <1>3, <1>4

IPsOf(fp) == IF fp \in DOMAIN rows THEN rows[fp].ips ELSE {}
PortsOf(fp) == IF fp \in DOMAIN rows THEN rows[fp].ports ELSE {}
SightingsOf(fp) == IF fp \in DOMAIN rows THEN rows[fp].sightings ELSE {}

\* The sightings an upsert leaves: the pair that was seen is seen now.
SightingsAfter(fp, ip, port) ==
    IF ip = 0 THEN SightingsOf(fp)
    ELSE {s \in SightingsOf(fp) : s.ip # ip \/ s.port # port}
             \cup {[ip |-> ip, port |-> port, last |-> now]}

\* The history an upsert leaves before it is trimmed.
LEMMA ObservedHistory ==
    ASSUME TypeOK, NEW fp \in Fingerprints, NEW ip, NEW port, NEW meta, NEW blockUnknown,
           NEW e, e = Observed(fp, ip, port, meta, blockUnknown)
    PROVE  /\ e.ips = IPsOf(fp) \cup ({ip} \ {0})
           /\ e.ports = PortsOf(fp) \cup ({port} \ {0})
           /\ e.sightings = SightingsAfter(fp, ip, port)
           /\ e.meta = meta
<1>1. CASE fp \in DOMAIN rows
  <2>1. PICK x \in Entry : x = rows[fp]
    BY <1>1 DEF TypeOK, IsTable
  <2> QED
    BY <1>1, <2>1 DEF Observed, IPsOf, PortsOf, SightingsOf, SightingsAfter, Entry
<1>2. CASE fp \notin DOMAIN rows
  BY <1>2 DEF Observed, IPsOf, PortsOf, SightingsOf, SightingsAfter
<1> QED
  BY <1>1, <1>2

\* What Observe writes of a history: the client's, trimmed.
LEMMA ObserveWrites ==
    ASSUME IInv, NEW fp \in Fingerprints,
           NEW ip \in IPs \cup {0}, NEW port \in Ports \cup {0},
           NEW meta \in MetaSizes, NEW blockUnknown \in BOOLEAN,
           Observe(fp, ip, port, meta, blockUnknown), NEW f \in DOMAIN rows'
    PROVE  IF f = fp
           THEN rows'[f] = trimHistory(Observed(fp, ip, port, meta, blockUnknown))
           ELSE f \in DOMAIN rows /\ rows'[f] = rows[f]
<1>1. PICK e : e = trimHistory(Observed(fp, ip, port, meta, blockUnknown))
  OBVIOUS
<1>2. rows' = Put(rows, fp, e) \/ \E V : rows' = Drop(Put(rows, fp, e), V)
  BY <1>1 DEF Observe
<1>3. f \in DOMAIN Put(rows, fp, e) /\ rows'[f] = Put(rows, fp, e)[f]
  BY <1>2 DEF Drop
<1> QED
  BY <1>1, <1>3 DEF Put

-----------------------------------------------------------------------------
(* Histories stay within their bounds *)

LEMMA HistoryInit == Init => HistoryInv
BY StoreAssumption DEF Init, HistoryInv, FiniteHistory

LEMMA OpenHistory ==
    ASSUME IInv, HistoryInv, Open, NEW f \in DOMAIN rows'
    PROVE  /\ f \in DOMAIN rows /\ FiniteHistory(rows'[f]) /\ BoundedHistory(rows'[f])
           /\ rows'[f].ips = KeepSmallest(rows[f].ips)
           /\ rows'[f].ports = KeepSmallest(rows[f].ports)
           /\ rows'[f].sightings = KeepSightings(rows[f].sightings)
<1>1. f \in DOMAIN rows
  BY OpenStep
<1>2. PICK x \in Entry : x = rows[f]
  BY <1>1 DEF IInv, TypeOK, IsTable
<1>3. PICK m \in MetaSizes : m = (IF x.meta > MaxMetadataBytes THEN 0 ELSE x.meta)
  BY StoreAssumption DEF Entry
<1>4. m <= MaxMetadataBytes
  BY <1>3, StoreAssumption, EntryHistory
<1>5. PICK y : y = [x EXCEPT !.meta = m]
  OBVIOUS
<1>6. rows'[f] = trimHistory(y)
  BY <1>1, <1>2, <1>3, <1>5 DEF Open, boundExistingHistory
<1>7. /\ y \in Entry /\ y.ips = x.ips /\ y.ports = x.ports /\ y.sightings = x.sightings
      /\ y.meta = m
  BY <1>5 DEF Entry
<1>8. FiniteHistory(y)
  BY <1>1, <1>2, <1>7 DEF HistoryInv, FiniteHistory
<1>9. FiniteHistory(trimHistory(y)) /\ BoundedHistory(trimHistory(y))
  BY <1>4, <1>7, <1>8, TrimBounds
<1>10. /\ trimHistory(y).ips = KeepSmallest(y.ips)
       /\ trimHistory(y).ports = KeepSmallest(y.ports)
       /\ trimHistory(y).sightings = KeepSightings(y.sightings)
  BY <1>7 DEF trimHistory, Entry
<1> QED
  BY <1>1, <1>2, <1>6, <1>7, <1>9, <1>10

\* A row's history before a sighting is finite, and so is what the sighting adds.
LEMMA ObservedFinite ==
    ASSUME IInv, HistoryInv, NEW fp \in Fingerprints,
           NEW ip \in IPs \cup {0}, NEW port \in Ports \cup {0},
           NEW meta \in MetaSizes, NEW blockUnknown \in BOOLEAN
    PROVE  /\ FiniteHistory(Observed(fp, ip, port, meta, blockUnknown))
           /\ IsFiniteSet(IPsOf(fp)) /\ IsFiniteSet(PortsOf(fp)) /\ IsFiniteSet(SightingsOf(fp))
<1>1. IsFiniteSet(IPsOf(fp)) /\ IsFiniteSet(PortsOf(fp)) /\ IsFiniteSet(SightingsOf(fp))
  BY FS_EmptySet DEF IPsOf, PortsOf, SightingsOf, HistoryInv, FiniteHistory
<1>2. PICK e : e = Observed(fp, ip, port, meta, blockUnknown)
  OBVIOUS
<1>3. /\ e.ips = IPsOf(fp) \cup ({ip} \ {0})
      /\ e.ports = PortsOf(fp) \cup ({port} \ {0})
      /\ e.sightings = SightingsAfter(fp, ip, port)
  BY <1>2, ObservedHistory DEF IInv
<1>4. ASSUME NEW S, IsFiniteSet(S), NEW x PROVE IsFiniteSet(S \cup {x})
  BY <1>4, FS_AddElement
<1>5. e.ips = IPsOf(fp) \/ e.ips = IPsOf(fp) \cup {ip}
  BY <1>3
<1>6. IsFiniteSet(e.ips)
  BY <1>1, <1>4, <1>5
<1>7. IsFiniteSet(e.ports)
  <2>1. e.ports = PortsOf(fp) \/ e.ports = PortsOf(fp) \cup {port}
    BY <1>3
  <2> QED
    BY <1>1, <1>4, <2>1
<1>8. IsFiniteSet(e.sightings)
  <2>1. PICK T : T = {s \in SightingsOf(fp) : s.ip # ip \/ s.port # port}
    OBVIOUS
  <2>2. PICK n : n = [ip |-> ip, port |-> port, last |-> now]
    OBVIOUS
  <2>3. T \in SUBSET SightingsOf(fp)
    BY <2>1
  <2>4. IsFiniteSet(T)
    BY <1>1, <2>3, SubsetCount
  <2>5. IsFiniteSet(T \cup {n})
    BY <1>4, <2>4
  <2>6. e.sightings = IF ip = 0 THEN SightingsOf(fp) ELSE T \cup {n}
    BY <1>3, <2>1, <2>2 DEF SightingsAfter
  <2> QED
    BY <1>1, <2>5, <2>6
<1> QED
  BY <1>1, <1>2, <1>6, <1>7, <1>8 DEF FiniteHistory

LEMMA ObserveBounds ==
    ASSUME IInv, HistoryInv, NEW fp \in Fingerprints, ObserveStep(fp)
    PROVE  HistoryInv'
<1>1. PICK ip \in IPs \cup {0}, port \in Ports \cup {0}, meta \in MetaSizes,
           blockUnknown \in BOOLEAN : Observe(fp, ip, port, meta, blockUnknown)
  BY DEF ObserveStep
<1>2. PICK o \in Entry : o = Observed(fp, ip, port, meta, blockUnknown)
  BY ObservedEntry DEF IInv
<1>3. FiniteHistory(o)
  BY <1>2, ObservedFinite
<1>4. o.meta <= MaxMetadataBytes
  <2>1. o.meta = meta
    BY <1>2, ObservedHistory DEF IInv
  <2> QED
    BY <1>1, <2>1 DEF Observe
<1>5. FiniteHistory(trimHistory(o)) /\ BoundedHistory(trimHistory(o))
  BY <1>3, <1>4, TrimBounds
<1>6. ASSUME NEW f \in DOMAIN rows'
      PROVE  FiniteHistory(rows'[f]) /\ BoundedHistory(rows'[f])
  <2>1. CASE f = fp
    <3>1. rows'[f] = trimHistory(o)
      BY <1>1, <1>2, <2>1, ObserveWrites
    <3> QED
      BY <1>5, <3>1
  <2>2. CASE f # fp
    <3>1. f \in DOMAIN rows /\ rows'[f] = rows[f]
      BY <1>1, <2>2, ObserveWrites
    <3>2. open
      BY <1>1 DEF Observe
    <3> QED
      BY <3>1, <3>2 DEF HistoryInv
  <2> QED
    BY <2>1, <2>2
<1> QED
  BY <1>6 DEF HistoryInv

LEMMA HistoryStep == IInv /\ HistoryInv /\ [Next]_vars => HistoryInv'
<1> SUFFICES ASSUME IInv, HistoryInv, [Next]_vars PROVE HistoryInv'
  OBVIOUS
<1>1. CASE Open
  BY <1>1, OpenHistory DEF HistoryInv
<1>2. CASE ClientStep
  BY <1>2, ObserveBounds DEF ClientStep
<1>3. CASE Clock \/ Close \/ PruneStep \/ DecisionStep \/ OperatorStep
  <2>1. ASSUME NEW f \in DOMAIN rows'
        PROVE  FiniteHistory(rows'[f]) /\ (open' => BoundedHistory(rows'[f]))
    <3>1. HistoryAlone(f) /\ (open' => open)
      BY <1>3, OthersLeaveHistory
    <3>2. CASE f \in DOMAIN rows /\ SameHistory(rows'[f], rows[f])
      BY <3>1, <3>2, SameHistoryBounds DEF HistoryInv
    <3>3. CASE f \notin DOMAIN rows /\ NoHistory(rows'[f])
      BY <3>3, NoHistoryBounds
    <3> QED
      BY <3>1, <3>2, <3>3 DEF HistoryAlone
  <2> QED
    BY <2>1 DEF HistoryInv
<1>4. CASE UNCHANGED vars
  BY <1>4 DEF vars, HistoryInv
<1> QED
  BY <1>1, <1>2, <1>3, <1>4 DEF Next

LEMMA HistoryInvariant == Spec => [](IInv /\ HistoryInv)
BY Invariant, HistoryInit, HistoryStep, PTL DEF Spec

\* While the store is open no row holds more addresses, ports or sightings than
\* MaxObservationValues, or metadata over the limit: every write trims what it
\* wrote in its transaction, and Open what an older release left.
THEOREM HistorySafe == Spec => []HistoryBounded
<1>1. HistoryInv => HistoryBounded
  BY DEF HistoryInv, HistoryBounded, BoundedHistory
<1> QED
  BY <1>1, HistoryInvariant, PTL

-----------------------------------------------------------------------------
(* The order in which sightings are lost *)

\* What trimming leaves out was last seen, to the second, no later than what it
\* keeps.
LEMMA TrimmedOlder ==
    ASSUME NEW S \in SUBSET Sightings, IsFiniteSet(S),
           NEW s \in S, s \notin KeepSightings(S), NEW t \in KeepSightings(S)
    PROVE  Second(s.last) <= Second(t.last)
<1>1. MaxObservationValues \in Nat
  BY StoreAssumption
<1>2. <<t, s>> \in Earlier(S)
  BY <1>1, EarlierOrder, LowestFirst
<1>3. SightingBefore(t, s) /\ t \in Sightings /\ s \in Sightings
  BY <1>2 DEF Earlier
<1>4. PICK a \in Nat, b \in Nat : a = s.last /\ b = t.last
  BY <1>3, SightingParts
<1>5. encodeTime(a) <= encodeTime(b)
  BY <1>3, <1>4, SightingParts DEF SightingBefore
<1> QED
  BY <1>4, <1>5, EncodedOrder

\* A pair that is seen again takes nobody's place.
LEMMA SeenAgainFits ==
    ASSUME NEW A, IsFiniteSet(A), NEW s \in A, NEW n,
           NEW B \in SUBSET ((A \ {s}) \cup {n})
    PROVE  Cardinality(B) <= Cardinality(A)
<1>1. PICK C : C = A \ {s}
  OBVIOUS
<1>2. /\ IsFiniteSet(C) /\ Cardinality(A) \in Nat \ {0}
      /\ Cardinality(C) = Cardinality(A) - 1
  BY <1>1, OneLess, SubsetCount
<1>3. IsFiniteSet(C \cup {n}) /\ Cardinality(C \cup {n}) <= Cardinality(A)
  <2>1. IsFiniteSet(C \cup {n})
    BY <1>2, FS_AddElement
  <2>2. CASE n \in C
    <3>1. C \cup {n} = C
      BY <2>2
    <3> QED
      BY <1>2, <2>1, <3>1
  <2>3. CASE n \notin C
    BY <1>2, <2>1, <2>3, OneMore
  <2> QED
    BY <2>2, <2>3
<1>4. B \in SUBSET (C \cup {n})
  BY <1>1
<1>5. /\ Cardinality(B) \in Nat /\ Cardinality(C \cup {n}) \in Nat
      /\ Cardinality(B) <= Cardinality(C \cup {n})
  BY <1>3, <1>4, SubsetCount
<1> QED
  BY <1>2, <1>3, <1>5

LEMMA LostIsOlder ==
    ASSUME IInv, HistoryInv, NEW fp \in Fingerprints, ObserveStep(fp),
           NEW f \in DOMAIN rows, f \in DOMAIN rows',
           NEW s \in rows[f].sightings, NEW t \in rows'[f].sightings,
           \A u \in rows'[f].sightings : u.ip # s.ip \/ u.port # s.port
    PROVE  Second(s.last) <= Second(t.last)
<1>1. PICK ip \in IPs \cup {0}, port \in Ports \cup {0}, meta \in MetaSizes,
           blockUnknown \in BOOLEAN : Observe(fp, ip, port, meta, blockUnknown)
  BY DEF ObserveStep
<1>2. f = fp
  <2> SUFFICES ASSUME f # fp PROVE FALSE
    OBVIOUS
  <2>1. rows'[f] = rows[f]
    BY <1>1, ObserveWrites
  <2> QED
    BY <2>1
<1>3. PICK o \in Entry : o = Observed(fp, ip, port, meta, blockUnknown)
  BY ObservedEntry DEF IInv
<1>4. PICK S \in SUBSET Sightings : S = o.sightings /\ S = SightingsAfter(fp, ip, port)
  BY <1>3, ObservedHistory, EntryHistory DEF IInv
<1>5. IsFiniteSet(S)
  BY <1>3, <1>4, ObservedFinite DEF FiniteHistory
<1>6. rows'[f].sightings = KeepSightings(S)
  <2>1. rows'[f] = trimHistory(o)
    BY <1>1, <1>2, <1>3, ObserveWrites
  <2> QED
    BY <1>4, <2>1 DEF trimHistory, Entry
<1>7. s \notin KeepSightings(S) /\ t \in KeepSightings(S)
  BY <1>6
<1>8. SightingsOf(fp) = rows[f].sightings
  BY <1>2 DEF SightingsOf
<1>9. CASE s \in S
  BY <1>5, <1>7, <1>9, TrimmedOlder
<1>10. CASE s \notin S
  <2>1. PICK n : n = [ip |-> ip, port |-> port, last |-> now]
    OBVIOUS
  <2>2. /\ s.ip = ip /\ s.port = port
        /\ S = {x \in SightingsOf(fp) : x.ip # ip \/ x.port # port} \cup {n}
    BY <1>4, <1>8, <1>10, <2>1 DEF SightingsAfter
  <2>3. S \subseteq (SightingsOf(fp) \ {s}) \cup {n} /\ n \in S
    BY <2>2
  <2>4. IsFiniteSet(SightingsOf(fp)) /\ Cardinality(SightingsOf(fp)) <= MaxObservationValues
    <3>1. open
      BY <1>1 DEF Observe
    <3> QED
      BY <1>8, <3>1 DEF HistoryInv, FiniteHistory, BoundedHistory
  <2>5. Cardinality(S) <= Cardinality(SightingsOf(fp))
    <3>1. PICK A : A = SightingsOf(fp)
      OBVIOUS
    <3>2. IsFiniteSet(A) /\ s \in A /\ S \in SUBSET ((A \ {s}) \cup {n})
      BY <1>8, <2>3, <2>4, <3>1
    <3> QED
      BY <3>1, <3>2, SeenAgainFits
  <2>6. Cardinality(S) <= MaxObservationValues
    <3>1. Cardinality(S) \in Nat /\ Cardinality(SightingsOf(fp)) \in Nat
      BY <1>5, <2>4, FS_CardinalityType
    <3> QED
      BY <2>4, <2>5, <3>1, StoreAssumption
  <2>7. KeepSightings(S) = S
    BY <1>5, <2>6, EarlierOrder, LowestAll, StoreAssumption
  <2>8. n \in rows'[f].sightings /\ n.ip = s.ip /\ n.port = s.port
    BY <1>6, <2>1, <2>2, <2>3, <2>7
  <2> QED
    BY <2>8
<1> QED
  BY <1>9, <1>10

\* Open cuts what an older release left the same way, and nothing is replaced.
LEMMA LostAtOpen ==
    ASSUME IInv, HistoryInv, Open, NEW f \in DOMAIN rows,
           NEW s \in rows[f].sightings, NEW t \in rows'[f].sightings,
           \A u \in rows'[f].sightings : u.ip # s.ip \/ u.port # s.port
    PROVE  Second(s.last) <= Second(t.last)
<1>1. rows[f] \in Entry /\ f \in DOMAIN rows'
  BY OpenStep DEF IInv, TypeOK, IsTable
<1>2. PICK S \in SUBSET Sightings : S = rows[f].sightings
  BY <1>1, EntryHistory
<1>3. rows'[f].sightings = KeepSightings(S)
  BY <1>1, <1>2, OpenHistory
<1>4. IsFiniteSet(S)
  BY <1>2 DEF HistoryInv, FiniteHistory
<1>5. s \in S /\ s \notin KeepSightings(S) /\ t \in KeepSightings(S)
  BY <1>2, <1>3
<1> QED
  BY <1>4, <1>5, TrimmedOlder

\* The other writes leave the sightings of the rows they keep.
LEMMA OthersLoseNothing ==
    ASSUME IInv, Next, ~ClientStep, ~Open, NEW f \in DOMAIN rows, f \in DOMAIN rows'
    PROVE  rows'[f].sightings = rows[f].sightings
<1>1. rows[f] \in Entry
  BY DEF IInv, TypeOK, IsTable
<1>2. CASE Clock \/ Close
  BY <1>2 DEF Clock, Close
<1>3. CASE PruneStep
  BY <1>3 DEF PruneStep, PruneToLimit, Drop
<1>4. CASE DecisionStep
  <2>1. PICK batch \in Batches, c \in Cursors \cup {NoCursor} : ApplyDecisions(batch, c)
    BY <1>4 DEF DecisionStep
  <2>2. rows'[f] = Decided(batch)[f]
    BY <2>1 DEF ApplyDecisions
  <2> QED
    BY <1>1, <2>2 DEF Decided, Entry
<1>5. CASE OperatorStep
  <2>1. CASE \E fp \in Fingerprints, status \in Statuses : SetStatus(fp, status)
    BY <1>1, <2>1 DEF SetStatus, Entry
  <2>2. CASE \E fp \in Fingerprints, status \in Statuses, label \in Labels \cup {NoLabel} :
                 UpsertStatus(fp, status, label)
    BY <1>1, <2>2 DEF UpsertStatus, Put, Entry
  <2>3. CASE \E fp \in Fingerprints, label \in Labels \cup {NoLabel} : SetLabel(fp, label)
    BY <1>1, <2>3 DEF SetLabel, Entry
  <2>4. CASE \E fp \in Fingerprints : Delete(fp)
    BY <2>4 DEF Delete, Drop
  <2>5. CASE ResetFingerprints
    BY <2>5 DEF ResetFingerprints, Drop
  <2> QED
    BY <1>5, <2>1, <2>2, <2>3, <2>4, <2>5 DEF OperatorStep
<1> QED
  BY <1>2, <1>3, <1>4, <1>5 DEF Next

\* No row loses a sighting more recent, to the second, than one it keeps: not at
\* Open, whatever an older release left, and not when its client is seen, even
\* after the clock has been stepped back, since a pair that is seen again replaces
\* its own sighting and then nothing is cut.
THEOREM TrimOrder == Spec => TrimKeepsRecentSecond
<1>1. ASSUME IInv, HistoryInv, [Next]_vars, NEW f \in DOMAIN rows \cap DOMAIN rows',
             NEW s \in rows[f].sightings, NEW t \in rows'[f].sightings,
             \A u \in rows'[f].sightings : u.ip # s.ip \/ u.port # s.port
      PROVE  Second(s.last) <= Second(t.last)
  <2>1. CASE ClientStep
    BY <1>1, <2>1, LostIsOlder DEF ClientStep
  <2>2. CASE Open
    BY <1>1, <2>2, LostAtOpen
  <2>3. CASE ~ClientStep /\ ~Open /\ Next
    <3>1. s \in rows'[f].sightings
      BY <1>1, <2>3, OthersLoseNothing
    <3> QED
      BY <1>1, <3>1
  <2>4. CASE UNCHANGED vars
    BY <1>1, <2>4 DEF vars
  <2> QED
    BY <1>1, <2>1, <2>2, <2>3, <2>4
<1>2. IInv /\ HistoryInv /\ [Next]_vars =>
        [\A f \in DOMAIN rows \cap DOMAIN rows' :
            \A s \in rows[f].sightings, t \in rows'[f].sightings :
                (\A u \in rows'[f].sightings : u.ip # s.ip \/ u.port # s.port)
                    => Second(s.last) <= Second(t.last)]_vars
  BY <1>1
<1> QED
  BY <1>2, HistoryInvariant, PTL DEF TrimKeepsRecentSecond, Spec

-----------------------------------------------------------------------------
(* What the compatibility sets retain *)

\* StoreHistory only watches.
LEMMA WatchingIsStore == HSpec => Spec
<1>1. HInit => Init
  BY DEF HInit
<1>2. [HObserve \/ HOther]_hvars => [Next]_vars
  <2>1. HObserve => Next
    BY DEF HObserve, Next, ClientStep, ObserveStep
  <2>2. HOther => Next
    BY DEF HOther, Next
  <2>3. UNCHANGED hvars => UNCHANGED vars
    BY DEF hvars
  <2> QED
    BY <2>1, <2>2, <2>3
<1> QED
  BY <1>1, <1>2, PTL DEF HSpec, Spec

\* Trimming what was kept, with a new value or none, gives what trimming
\* everything would have given.
LEMMA TrimmingComposes ==
    ASSUME NEW K \in SUBSET Nat, IsFiniteSet(K), NEW E \in SUBSET Nat, FirstOf(K, E),
           NEW X \in SUBSET Nat, \A x, y \in X : x = y
    PROVE  FirstOf(KeepSmallest(K \cup X), E \cup X)
<1>1. PICK n \in Nat : n = MaxObservationValues
  BY StoreAssumption
<1>2. PICK U, R : U = K \cup X /\ U \in SUBSET Nat /\ R = Smaller(U)
  OBVIOUS
<1>3. IsFiniteSet(U)
  <2>1. CASE X = {}
    BY <1>2, <2>1
  <2>2. CASE X # {}
    <3>1. PICK x \in X : X = {x}
      BY <2>2
    <3> QED
      BY <1>2, <3>1, FS_AddElement
  <2> QED
    BY <2>1, <2>2
<1>4. StrictOrder(R, U) /\ KeepSmallest(U) = Lowest(U, R, n)
  BY <1>1, <1>2, SmallerOrder
<1>5. PICK L : L = KeepSmallest(U)
  OBVIOUS
<1>6. /\ L \in SUBSET U /\ IsFiniteSet(L) /\ Cardinality(L) \in Nat /\ Cardinality(L) <= n
      /\ L = U \/ Cardinality(L) = n
  BY <1>3, <1>4, <1>5, LowestBounded, LowestFull
<1>7. ASSUME NEW x \in L, NEW y \in U, y \notin L PROVE x < y
  <2>1. <<x, y>> \in R
    BY <1>3, <1>4, <1>5, <1>7, LowestFirst
  <2> QED
    BY <1>2, <2>1 DEF Smaller
<1>8. /\ K \in SUBSET E /\ \A x \in K, y \in E \ K : x < y
      /\ Cardinality(K) = n \/ K = E
  BY <1>1 DEF FirstOf
<1>9. L \subseteq E \cup X
  BY <1>2, <1>6, <1>8
<1>10. ASSUME NEW x \in L, NEW y \in (E \cup X) \ L PROVE x < y
  <2>1. CASE y \in U
    BY <1>7, <1>10, <2>1
  <2>2. CASE y \notin U
    <3>1. y \in E \ K
      BY <1>2, <2>2
    <3>2. CASE x \in K
      BY <1>8, <3>1, <3>2
    <3>3. CASE x \notin K
      <4>1. x \in X /\ Cardinality(K) = n
        BY <1>2, <1>6, <1>8, <3>1, <3>3
      <4>2. PICK z \in K : ~(z < x)
        <5> SUFFICES ASSUME \A z \in K : z < x PROVE FALSE
          OBVIOUS
        <5>1. K \in SUBSET Below(U, R, x)
          BY <1>2, <4>1 DEF Below, Smaller
        <5>2. IsFiniteSet(Below(U, R, x)) /\ Cardinality(Below(U, R, x)) \in Nat
          BY <1>3, BelowCount
        <5>3. n <= Cardinality(Below(U, R, x))
          BY <4>1, <5>1, <5>2, SubsetCount
        <5>4. Cardinality(Below(U, R, x)) < n
          BY <1>4, <1>5 DEF Lowest
        <5> QED
          BY <5>2, <5>3, <5>4
      <4>3. z < y /\ x \in Nat /\ y \in Nat /\ z \in Nat
        BY <1>8, <3>1, <4>1
      <4> QED
        BY <4>2, <4>3
    <3> QED
      BY <3>2, <3>3
  <2> QED
    BY <2>1, <2>2
<1>11. Cardinality(L) = n \/ L = E \cup X
  <2>1. CASE L = U /\ K = E
    BY <1>2, <2>1
  <2>2. CASE L = U /\ Cardinality(K) = n
    <3>1. K \in SUBSET L
      BY <1>2, <2>2
    <3>2. n <= Cardinality(L)
      BY <1>6, <2>2, <3>1, SubsetCount
    <3> QED
      BY <1>6, <3>2
  <2> QED
    BY <1>6, <1>8, <2>1, <2>2
<1> QED
  BY <1>1, <1>2, <1>5, <1>9, <1>10, <1>11 DEF FirstOf

\* Trimmed or not, what a row holds is the first of what it was given.
RetainInv ==
    /\ DOMAIN everIPs = DOMAIN rows /\ DOMAIN everPorts = DOMAIN rows
    /\ \A f \in DOMAIN rows :
           /\ everIPs[f] \in SUBSET Nat /\ FirstOf(rows[f].ips, everIPs[f])
           /\ everPorts[f] \in SUBSET Nat /\ FirstOf(rows[f].ports, everPorts[f])

LEMMA FirstOfItself == ASSUME NEW S PROVE FirstOf(S, S)
BY DEF FirstOf

LEMMA RetainInit == HInit => RetainInv
<1> SUFFICES ASSUME HInit PROVE RetainInv
  OBVIOUS
<1>1. IInv
  BY InitIInv DEF HInit
<1>2. ASSUME NEW f \in DOMAIN rows
      PROVE  rows[f].ips \in SUBSET Nat /\ rows[f].ports \in SUBSET Nat
  BY <1>1, EntryHistory DEF IInv, TypeOK, IsTable
<1> QED
  BY <1>2, FirstOfItself DEF HInit, RetainInv

LEMMA RetainObserve ==
    ASSUME IInv, HistoryInv, RetainInv, HObserve PROVE RetainInv'
<1>1. PICK fp \in Fingerprints, ip \in IPs \cup {0}, port \in Ports \cup {0},
           meta \in MetaSizes, blockUnknown \in BOOLEAN :
        /\ Observe(fp, ip, port, meta, blockUnknown)
        /\ everIPs' = Remember(everIPs, fp, ip)
        /\ everPorts' = Remember(everPorts, fp, port)
  BY DEF HObserve
<1>2. DOMAIN everIPs' = DOMAIN rows' /\ DOMAIN everPorts' = DOMAIN rows'
  BY <1>1 DEF Remember
<1>3. PICK o \in Entry : o = Observed(fp, ip, port, meta, blockUnknown)
  BY ObservedEntry DEF IInv
<1>4. /\ o.ips = IPsOf(fp) \cup ({ip} \ {0}) /\ o.ports = PortsOf(fp) \cup ({port} \ {0})
      /\ IsFiniteSet(IPsOf(fp)) /\ IsFiniteSet(PortsOf(fp))
  BY <1>3, ObservedHistory, ObservedFinite DEF IInv
<1>5. ASSUME NEW f \in DOMAIN rows'
      PROVE  /\ everIPs'[f] \in SUBSET Nat /\ FirstOf(rows'[f].ips, everIPs'[f])
             /\ everPorts'[f] \in SUBSET Nat /\ FirstOf(rows'[f].ports, everPorts'[f])
  <2>1. CASE f # fp
    <3>1. f \in DOMAIN rows /\ rows'[f] = rows[f]
      BY <1>1, <2>1, ObserveWrites
    <3>2. everIPs'[f] = everIPs[f] /\ everPorts'[f] = everPorts[f]
      BY <1>1, <2>1, <3>1 DEF Remember
    <3> QED
      BY <3>1, <3>2 DEF RetainInv
  <2>2. CASE f = fp
    <3>1. PICK E, F : /\ E = (IF fp \in DOMAIN rows THEN everIPs[fp] ELSE {})
                      /\ F = (IF fp \in DOMAIN rows THEN everPorts[fp] ELSE {})
      OBVIOUS
    <3>2. /\ E \in SUBSET Nat /\ FirstOf(IPsOf(fp), E)
          /\ F \in SUBSET Nat /\ FirstOf(PortsOf(fp), F)
      BY <3>1, FirstOfItself DEF RetainInv, IPsOf, PortsOf
    <3>3. everIPs'[f] = E \cup ({ip} \ {0}) /\ everPorts'[f] = F \cup ({port} \ {0})
      BY <1>1, <2>2, <3>1 DEF Remember
    <3>4. /\ rows'[f].ips = KeepSmallest(IPsOf(fp) \cup ({ip} \ {0}))
          /\ rows'[f].ports = KeepSmallest(PortsOf(fp) \cup ({port} \ {0}))
      <4>1. rows'[f] = trimHistory(o)
        BY <1>1, <1>3, <2>2, ObserveWrites
      <4> QED
        BY <1>4, <4>1 DEF trimHistory, Entry
    <3>5. IPsOf(fp) \in SUBSET Nat /\ PortsOf(fp) \in SUBSET Nat
      BY <1>4, EntryHistory
    <3>6. /\ {ip} \ {0} \in SUBSET Nat /\ \A x, y \in {ip} \ {0} : x = y
          /\ {port} \ {0} \in SUBSET Nat /\ \A x, y \in {port} \ {0} : x = y
      BY StoreAssumption
    <3>7. FirstOf(rows'[f].ips, everIPs'[f])
      <4>1. PICK K \in SUBSET Nat, X \in SUBSET Nat : K = IPsOf(fp) /\ X = {ip} \ {0}
        BY <3>5, <3>6
      <4>2. IsFiniteSet(K) /\ FirstOf(K, E) /\ \A x, y \in X : x = y
        BY <1>4, <3>2, <4>1
      <4>3. FirstOf(KeepSmallest(K \cup X), E \cup X)
        BY <3>2, <4>2, TrimmingComposes
      <4> QED
        BY <3>3, <3>4, <4>1, <4>3
    <3>8. FirstOf(rows'[f].ports, everPorts'[f])
      <4>1. PICK K \in SUBSET Nat, X \in SUBSET Nat : K = PortsOf(fp) /\ X = {port} \ {0}
        BY <3>5, <3>6
      <4>2. IsFiniteSet(K) /\ FirstOf(K, F) /\ \A x, y \in X : x = y
        BY <1>4, <3>2, <4>1
      <4>3. FirstOf(KeepSmallest(K \cup X), F \cup X)
        BY <3>2, <4>2, TrimmingComposes
      <4> QED
        BY <3>3, <3>4, <4>1, <4>3
    <3> QED
      BY <3>2, <3>3, <3>6, <3>7, <3>8
  <2> QED
    BY <2>1, <2>2
<1> QED
  BY <1>2, <1>5 DEF RetainInv

LEMMA RetainOther ==
    ASSUME IInv, HistoryInv, RetainInv, HOther PROVE RetainInv'
<1>1. DOMAIN everIPs' = DOMAIN rows' /\ DOMAIN everPorts' = DOMAIN rows'
  BY DEF HOther
<1>2. ASSUME NEW f \in DOMAIN rows'
      PROVE  /\ everIPs'[f] \in SUBSET Nat /\ FirstOf(rows'[f].ips, everIPs'[f])
             /\ everPorts'[f] \in SUBSET Nat /\ FirstOf(rows'[f].ports, everPorts'[f])
  <2>1. /\ everIPs'[f] = (IF f \in DOMAIN rows THEN everIPs[f] ELSE {})
        /\ everPorts'[f] = (IF f \in DOMAIN rows THEN everPorts[f] ELSE {})
    BY DEF HOther
  <2>2. CASE Open
    <3>1. /\ f \in DOMAIN rows
          /\ rows'[f].ips = KeepSmallest(rows[f].ips)
          /\ rows'[f].ports = KeepSmallest(rows[f].ports)
      BY <2>2, OpenHistory
    <3>2. /\ rows[f].ips \in SUBSET Nat /\ rows[f].ports \in SUBSET Nat
          /\ IsFiniteSet(rows[f].ips) /\ IsFiniteSet(rows[f].ports)
      BY <3>1, EntryHistory DEF IInv, TypeOK, IsTable, HistoryInv, FiniteHistory
    <3>3. PICK X \in SUBSET Nat : X = {}
      OBVIOUS
    <3>4. ASSUME NEW K \in SUBSET Nat, IsFiniteSet(K), NEW E \in SUBSET Nat, FirstOf(K, E)
          PROVE  FirstOf(KeepSmallest(K), E)
      <4>1. K \cup X = K /\ E \cup X = E /\ \A x, y \in X : x = y
        BY <3>3
      <4>2. FirstOf(KeepSmallest(K \cup X), E \cup X)
        BY <3>4, <4>1, TrimmingComposes
      <4> QED
        BY <4>1, <4>2
    <3>5. /\ everIPs[f] \in SUBSET Nat /\ FirstOf(rows[f].ips, everIPs[f])
          /\ everPorts[f] \in SUBSET Nat /\ FirstOf(rows[f].ports, everPorts[f])
      BY <3>1 DEF RetainInv
    <3> QED
      BY <2>1, <3>1, <3>2, <3>4, <3>5
  <2>3. CASE Clock \/ Close \/ PruneStep \/ DecisionStep \/ OperatorStep
    <3>1. HistoryAlone(f)
      BY <2>3, OthersLeaveHistory
    <3> QED
      BY <2>1, <3>1, FirstOfItself DEF HistoryAlone, SameHistory, NoHistory, RetainInv
  <2> QED
    BY <2>2, <2>3 DEF HOther
<1> QED
  BY <1>1, <1>2 DEF RetainInv

\* The addresses and ports of a row are the first MaxObservationValues of all it
\* was ever given, or all of them: cutting after every sighting and at every Open
\* loses nothing that cutting once at the end would have kept.
THEOREM RetentionSafe == HSpec => []RetainsFirstValues
<1>1. IInv /\ HistoryInv /\ RetainInv /\ [HObserve \/ HOther]_hvars => RetainInv'
  <2> SUFFICES ASSUME IInv, HistoryInv, RetainInv, [HObserve \/ HOther]_hvars
               PROVE  RetainInv'
    OBVIOUS
  <2>1. CASE UNCHANGED hvars
    BY <2>1 DEF hvars, vars, RetainInv
  <2> QED
    BY <2>1, RetainObserve, RetainOther
<1>2. RetainInv => RetainsFirstValues
  BY DEF RetainInv, RetainsFirstValues
<1> QED
  BY <1>1, <1>2, RetainInit, WatchingIsStore, HistoryInvariant, PTL DEF HSpec

=============================================================================
