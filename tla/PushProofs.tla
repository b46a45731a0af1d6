----------------------------- MODULE PushProofs -----------------------------
(***************************************************************************)
(* Proofs about PushSync, for any number of fingerprints, any page size    *)
(* and any number of sightings, decisions and faults.                      *)
(***************************************************************************)
EXTENDS PushSync, CountingTheorems, TLAPS

-----------------------------------------------------------------------------
(* The invariants *)

\* The parts of the state the type invariant leaves out, and what bounds a row.
StoreOK ==
    /\ clock \in 0..MaxSightings /\ decisions \in 0..MaxDecisions /\ faults \in Nat
    /\ \A b \in late : IsTable(b, Observations)
    /\ \A f \in DOMAIN rows :
           /\ rows[f].at <= clock
           /\ Recurs => rows[f].verdict <= 1
           /\ ~Recurs => rows[f].verdict <= decisions

PushTypes == TypeOK /\ StoreOK

\* A page holds every row that was there throughout, from the last page's end to
\* its own, so everything stable up to after has been read.
PagesInOrder ==
    /\ stable \subseteq DOMAIN rows
    /\ \A f \in stable : f <= through /\ (f <= after => f \in DOMAIN seen)
    /\ pc \in {"history", "send"} =>
           /\ DOMAIN page # {}
           /\ \A f \in stable, g \in DOMAIN page :
                  f <= g => f <= after \/ f \in DOMAIN page
    /\ pc = "send" => DOMAIN page \subseteq DOMAIN seen
    /\ PagesCoverStableRows

\* A full snapshot uploads what it reads.
FullUploads ==
    full => \A f \in DOMAIN seen : f \in uploaded \/ (pc = "send" /\ f \in DOMAIN batch)

\* The order in which the contents of a row come about.
RowLeq(q, r) == q.at < r.at \/ (q.at = r.at /\ q.verdict <= r.verdict)

\* o was read of f's row in the past: the row is beyond it, or is still the same,
\* and then so is its history.
WasRead(o, f) ==
    /\ o.row.at <= clock
    /\ f \in DOMAIN rows =>
           RowLeq(o.row, rows[f]) /\ (o.row = rows[f] => o.hist = History(f))

\* The cache has what was read of a row that the hub knows, and nothing newer
\* than what the hub holds.
AckFollows(f) ==
    f \in DOMAIN hub /\ WasRead(ack[f], f) /\ RowLeq(ack[f].row, hub[f].row)

\* Between the reads of a row and of its history: the row read is behind the
\* store's and not behind the hub's, and if it is the one in the cache, then the
\* cache and the hub agree.
PageFollows(f) ==
    /\ page[f].at <= clock
    /\ f \in DOMAIN rows => RowLeq(page[f], rows[f])
    /\ f \in DOMAIN hub => RowLeq(hub[f].row, page[f])
    /\ f \in DOMAIN ack /\ ack[f].row = page[f] => ack[f] = hub[f]

\* Of every row the hub holds what was read last of what reached it, and the
\* cache that or something older.
HubFollows ==
    /\ \A f \in DOMAIN hub : WasRead(hub[f], f)
    /\ \A f \in DOMAIN ack : AckFollows(f)
    /\ pc = "history" => \A f \in DOMAIN page : PageFollows(f)
    /\ pc = "send" => \A f \in DOMAIN batch :
           /\ WasRead(batch[f], f)
           /\ f \in DOMAIN hub => RowLeq(hub[f].row, batch[f].row)
           /\ f \in DOMAIN seen /\ seen[f] = batch[f]
    /\ \A f \in DOMAIN seen :
           \/ pc = "send" /\ f \in DOMAIN batch
           \/ f \in DOMAIN hub /\ hub[f] = seen[f]

-----------------------------------------------------------------------------
(* Tables *)

LEMMA EmptyTable == DOMAIN Empty = {} /\ \A S : IsTable(Empty, S)
BY DEF Empty, IsTable

LEMMA TableIsEmpty ==
    ASSUME NEW S, NEW t, IsTable(t, S), DOMAIN t = {}
    PROVE  t = Empty
BY DEF Empty, IsTable

LEMMA OverwriteTable ==
    ASSUME NEW S, NEW t, NEW u, IsTable(t, S), IsTable(u, S)
    PROVE  /\ IsTable(Overwrite(t, u), S)
           /\ DOMAIN Overwrite(t, u) = DOMAIN t \cup DOMAIN u
BY DEF Overwrite, IsTable

LEMMA OverwriteNew ==
    ASSUME NEW t, NEW u, NEW f \in DOMAIN u
    PROVE  Overwrite(t, u)[f] = u[f]
BY DEF Overwrite

LEMMA OverwriteOld ==
    ASSUME NEW t, NEW u, NEW f \in DOMAIN t, f \notin DOMAIN u
    PROVE  Overwrite(t, u)[f] = t[f]
BY DEF Overwrite

LEMMA KeepTable ==
    ASSUME NEW S, NEW t, IsTable(t, S), NEW D
    PROVE  /\ IsTable(Keep(t, D), S)
           /\ DOMAIN Keep(t, D) = DOMAIN t \cap D
BY DEF Keep, IsTable

LEMMA KeepRow ==
    ASSUME NEW t, NEW D, NEW f \in DOMAIN Keep(t, D)
    PROVE  Keep(t, D)[f] = t[f]
BY DEF Keep

LEMMA TableRows ==
    ASSUME NEW S, NEW t, IsTable(t, S), NEW f \in DOMAIN t
    PROVE  t[f] \in S /\ f \in Fps
BY DEF IsTable

LEMMA LargestMember ==
    ASSUME NEW T \in SUBSET Fps, T # {}
    PROVE  Largest(T) \in T /\ \A x \in T : x <= Largest(T)
<1>1. LastFp \in Nat /\ T \in SUBSET (0..LastFp)
  BY PushAssumption DEF Fps
<1>2. \E x \in T : \A y \in T : y <= x
  BY <1>1, BoundedSetHasMax
<1> QED
  BY <1>2 DEF Largest

-----------------------------------------------------------------------------
(* Types *)

LEMMA TypesInit == Init => PushTypes
<1> SUFFICES ASSUME Init PROVE PushTypes
  OBVIOUS
<1>1. TypeOK
  <2>1. {after, through} \subseteq 0..LastFp
    BY PushAssumption DEF Init
  <2>2. {fullDue, full, sent, rewritten} \subseteq BOOLEAN
    BY DEF Init
  <2> QED
    BY <2>1, <2>2, EmptyTable DEF Init, TypeOK
<1>2. StoreOK
  BY EmptyTable, PushAssumption DEF Init, StoreOK
<1> QED
  BY <1>1, <1>2 DEF PushTypes

\* What a sighting and a placeholder have in common: f's row is written with a
\* new timestamp, and the history is left alone or marked with it.
LEMMA WriteTypes ==
    ASSUME PushTypes, NEW f \in Fps, NEW n, NEW v \in 0..MaxDecisions,
           clock < MaxSightings, clock' = clock + 1, n = clock + 1,
           rows' = Overwrite(rows, [g \in {f} |-> [at |-> n, verdict |-> v]]),
           hist' = Overwrite(hist, [g \in {f} |-> n]) \/ UNCHANGED hist,
           decisions' \in 0..MaxDecisions, decisions <= decisions',
           Recurs => v <= 1, ~Recurs => v <= decisions',
           UNCHANGED <<hubVars, pc, ack, fullDue, localVars, faults>>
    PROVE  PushTypes'
<1>1. /\ IsTable(rows, Rows) /\ IsTable(hist, 1..MaxSightings)
      /\ DOMAIN hist \subseteq DOMAIN rows
      /\ clock \in 0..MaxSightings /\ decisions \in 0..MaxDecisions
  BY DEF PushTypes, TypeOK, StoreOK
<1>2. n \in 1..MaxSightings
  BY <1>1, PushAssumption
<1>3. PICK e \in Rows : e = [at |-> n, verdict |-> v]
  BY <1>2 DEF Rows
<1>4. /\ IsTable(rows', Rows) /\ DOMAIN rows' = DOMAIN rows \cup {f} /\ rows'[f] = e
      /\ \A g \in DOMAIN rows : g # f => rows'[g] = rows[g]
  <2>1. rows' = Overwrite(rows, [g \in {f} |-> e])
    BY <1>3
  <2> QED
    BY <1>1, <2>1 DEF Overwrite, IsTable
<1>5. IsTable(hist', 1..MaxSightings) /\ DOMAIN hist' \subseteq DOMAIN hist \cup {f}
  <2>1. CASE hist' = Overwrite(hist, [g \in {f} |-> n])
    BY <1>1, <1>2, <2>1 DEF Overwrite, IsTable
  <2>2. CASE UNCHANGED hist
    BY <1>1, <2>2
  <2> QED
    BY <2>1, <2>2
<1>6. TypeOK'
  BY <1>1, <1>4, <1>5 DEF PushTypes, TypeOK, hubVars, localVars
<1>7. StoreOK'
  <2>1. clock' \in 0..MaxSightings /\ UNCHANGED <<late, faults>>
    BY <1>2 DEF hubVars
  <2>2. ASSUME NEW g \in DOMAIN rows'
        PROVE  /\ rows'[g].at <= clock'
               /\ Recurs => rows'[g].verdict <= 1
               /\ ~Recurs => rows'[g].verdict <= decisions'
    <3>1. CASE g = f
      BY <1>2, <1>3, <1>4, <3>1
    <3>2. CASE g # f
      <4>1. g \in DOMAIN rows /\ rows[g] \in Rows /\ rows'[g] = rows[g]
        BY <1>1, <1>4, <3>2, TableRows
      <4>2. PICK a \in 1..MaxSightings, w \in 0..MaxDecisions : a = rows[g].at /\ w = rows[g].verdict
        BY <4>1 DEF Rows
      <4>3. a <= clock /\ (Recurs => w <= 1) /\ (~Recurs => w <= decisions)
        BY <4>1, <4>2 DEF PushTypes, StoreOK
      <4> QED
        BY <1>1, <4>1, <4>2, <4>3
    <3> QED
      BY <3>1, <3>2
  <2> QED
    BY <2>1, <2>2 DEF PushTypes, StoreOK
<1> QED
  BY <1>6, <1>7 DEF PushTypes

LEMMA ObserveTypes ==
    ASSUME PushTypes, NEW f \in Fps, Observe(f) PROVE PushTypes'
<1>1. IsTable(rows, Rows) /\ decisions \in 0..MaxDecisions
  BY DEF PushTypes, TypeOK, StoreOK
<1>2. PICK v \in 0..MaxDecisions :
        /\ v = IF f \in DOMAIN rows THEN rows[f].verdict ELSE 0
        /\ Recurs => v <= 1
        /\ ~Recurs => v <= decisions
  <2>1. CASE f \in DOMAIN rows
    <3>1. rows[f] \in Rows
      BY <1>1, <2>1, TableRows
    <3> QED
      BY <2>1, <3>1 DEF Rows, PushTypes, StoreOK
  <2>2. CASE f \notin DOMAIN rows
    BY <1>1, <2>2, PushAssumption
  <2> QED
    BY <2>1, <2>2
<1>3. PICK n : n = clock + 1
  OBVIOUS
<1>4. rows' = Overwrite(rows, [g \in {f} |-> [at |-> n, verdict |-> v]])
  BY <1>2, <1>3 DEF Observe
<1>5. decisions' \in 0..MaxDecisions /\ decisions <= decisions' /\ (~Recurs => v <= decisions')
  BY <1>1, <1>2 DEF Observe
<1> QED
  BY <1>2, <1>3, <1>4, <1>5, WriteTypes DEF Observe

LEMMA PlaceholderTypes ==
    ASSUME PushTypes, NEW f \in Fps, Placeholder(f) PROVE PushTypes'
<1>1. decisions \in 0..MaxDecisions /\ decisions < MaxDecisions /\ decisions' = decisions + 1
  BY DEF PushTypes, StoreOK, Placeholder
<1>2. PICK v \in 0..MaxDecisions :
        /\ v = IF Recurs THEN 1 ELSE decisions + 1
        /\ Recurs => v <= 1
        /\ ~Recurs => v <= decisions'
  BY <1>1, PushAssumption
<1>3. PICK n : n = clock + 1
  OBVIOUS
<1>4. rows' = Overwrite(rows, [g \in {f} |-> [at |-> n, verdict |-> v]])
  BY <1>2, <1>3 DEF Placeholder
<1>5. decisions' \in 0..MaxDecisions /\ decisions <= decisions'
  BY <1>1, PushAssumption
<1> QED
  BY <1>2, <1>3, <1>4, <1>5, WriteTypes DEF Placeholder

LEMMA DecideTypes ==
    ASSUME PushTypes, NEW f \in Fps, Decide(f) PROVE PushTypes'
<1>1. /\ IsTable(rows, Rows) /\ DOMAIN hist \subseteq DOMAIN rows
      /\ decisions \in 0..MaxDecisions /\ decisions' = decisions + 1 /\ f \in DOMAIN rows
      /\ decisions < MaxDecisions
  BY DEF PushTypes, TypeOK, StoreOK, Decide
<1>2. PICK a \in 1..MaxSightings, v \in 0..MaxDecisions :
        /\ rows[f] = [at |-> a, verdict |-> v]
        /\ Recurs => v <= 1
  <2>1. rows[f] \in Rows
    BY <1>1, TableRows
  <2> QED
    BY <1>1, <2>1 DEF Rows, PushTypes, StoreOK
<1>3. PICK w \in 0..MaxDecisions :
        /\ w = IF Recurs THEN 1 - v ELSE decisions + 1
        /\ Recurs => w <= 1
        /\ ~Recurs => w <= decisions'
  BY <1>1, <1>2, PushAssumption
<1>4. rows' = [rows EXCEPT ![f] = [at |-> a, verdict |-> w]]
  <2>1. PICK e : e = rows[f]
    OBVIOUS
  <2>2. rows' = [rows EXCEPT ![f] = [e EXCEPT !.verdict = w]]
    BY <1>2, <1>3, <2>1 DEF Decide
  <2>3. [e EXCEPT !.verdict = w] = [at |-> a, verdict |-> w]
    BY <1>2, <2>1
  <2> QED
    BY <2>2, <2>3
<1>5. /\ IsTable(rows', Rows) /\ DOMAIN rows' = DOMAIN rows
      /\ rows'[f] = [at |-> a, verdict |-> w]
      /\ \A g \in DOMAIN rows : g # f => rows'[g] = rows[g]
  BY <1>1, <1>4 DEF IsTable, Rows
<1>6. TypeOK'
  BY <1>1, <1>5 DEF PushTypes, TypeOK, Decide, hubVars, localVars
<1>7. StoreOK'
  <2>1. /\ UNCHANGED <<clock, hist, late, faults>> /\ decisions' \in 0..MaxDecisions
    BY <1>1, PushAssumption DEF Decide, hubVars
  <2>2. ASSUME NEW g \in DOMAIN rows'
        PROVE  /\ rows'[g].at <= clock'
               /\ Recurs => rows'[g].verdict <= 1
               /\ ~Recurs => rows'[g].verdict <= decisions'
    <3>1. CASE g = f
      BY <1>1, <1>2, <1>3, <1>5, <2>1, <3>1 DEF PushTypes, StoreOK
    <3>2. CASE g # f
      <4>1. g \in DOMAIN rows /\ rows[g] \in Rows
        BY <1>1, <1>5, <3>2, TableRows
      <4> QED
        BY <1>1, <1>5, <2>1, <3>2, <4>1 DEF PushTypes, StoreOK, Rows
    <3> QED
      BY <3>1, <3>2
  <2> QED
    BY <2>1, <2>2 DEF PushTypes, StoreOK
<1> QED
  BY <1>6, <1>7 DEF PushTypes

LEMMA RemoveTypes ==
    ASSUME PushTypes, NEW f \in Fps, Remove(f) PROVE PushTypes'
<1>1. /\ IsTable(rows, Rows) /\ IsTable(hist, 1..MaxSightings) /\ DOMAIN hist \subseteq DOMAIN rows
      /\ rows' = Keep(rows, Fps \ {f}) /\ hist' = Keep(hist, Fps \ {f})
  BY DEF PushTypes, TypeOK, Remove
<1>2. /\ IsTable(rows', Rows) /\ DOMAIN rows' = DOMAIN rows \cap (Fps \ {f})
      /\ \A g \in DOMAIN rows' : rows'[g] = rows[g]
  BY <1>1, KeepTable, KeepRow
<1>3. /\ IsTable(hist', 1..MaxSightings) /\ DOMAIN hist' = DOMAIN hist \cap (Fps \ {f})
      /\ \A g \in DOMAIN hist' : hist'[g] = hist[g]
  BY <1>1, KeepTable, KeepRow
<1>4. TypeOK'
  BY <1>1, <1>2, <1>3 DEF PushTypes, TypeOK, Remove, hubVars
<1>5. StoreOK'
  BY <1>1, <1>2, <1>3 DEF PushTypes, StoreOK, Remove, hubVars
<1> QED
  BY <1>4, <1>5 DEF PushTypes

\* The steps that are none of the store's.
LEMMA OtherTypes ==
    ASSUME PushTypes, UNCHANGED storeVars, faults' \in Nat,
           \A b \in late' : IsTable(b, Observations),
           IsTable(hub', Observations), IsTable(ack', Observations),
           IsTable(page', Rows), IsTable(batch', Observations), IsTable(seen', Observations),
           pc' \in {"idle", "page", "history", "send", "finish"},
           fullDue' \in BOOLEAN, full' \in BOOLEAN, sent' \in BOOLEAN, rewritten' \in BOOLEAN,
           after' \in 0..LastFp, through' \in 0..LastFp
    PROVE  PushTypes'
<1>1. UNCHANGED <<rows, hist, clock, decisions>>
  BY DEF storeVars
<1>2. TypeOK'
  BY <1>1 DEF PushTypes, TypeOK
<1>3. StoreOK'
  BY <1>1 DEF PushTypes, StoreOK
<1> QED
  BY <1>2, <1>3 DEF PushTypes

\* The steps at whose end pushObservations is not running.
LEMMA LeaveTypes ==
    ASSUME PushTypes, UNCHANGED storeVars, Leave, faults' \in Nat, fullDue' \in BOOLEAN,
           UNCHANGED rewritten, \A b \in late' : IsTable(b, Observations),
           IsTable(hub', Observations), IsTable(ack', Observations)
    PROVE  PushTypes'
<1>1. rewritten \in BOOLEAN
  BY DEF PushTypes, TypeOK
<1>2. IsTable(Empty, Rows) /\ IsTable(Empty, Observations)
  BY EmptyTable
<1>3. 0 \in 0..LastFp
  BY PushAssumption
<1>4. page' = Empty /\ batch' = Empty /\ seen' = Empty
  BY DEF Leave
<1>5. after' \in 0..LastFp /\ through' \in 0..LastFp
  BY <1>3 DEF Leave
<1>6. full' \in BOOLEAN /\ sent' \in BOOLEAN /\ rewritten' \in BOOLEAN
  BY <1>1 DEF Leave
<1>7. pc' \in {"idle", "page", "history", "send", "finish"}
  BY DEF Leave
<1> QED
  BY <1>2, <1>4, <1>5, <1>6, <1>7, OtherTypes

LEMMA ReturnTypes ==
    ASSUME PushTypes, NEW complete \in BOOLEAN, Return(complete)
    PROVE  Leave /\ fullDue' \in BOOLEAN
BY DEF Return

LEMMA FaultCounts ==
    ASSUME PushTypes, faults' = faults + 1 \/ UNCHANGED faults
    PROVE  faults' \in Nat
BY DEF PushTypes, StoreOK

LEMMA BeginTypes ==
    ASSUME PushTypes, Begin PROVE PushTypes'
<1>1. through' \in 0..LastFp
  <2>1. CASE rows = Empty
    BY <2>1, PushAssumption DEF Begin
  <2>2. CASE rows # Empty
    <3>1. IsTable(rows, Rows) /\ DOMAIN rows \subseteq Fps
      BY DEF PushTypes, TypeOK, IsTable
    <3>2. DOMAIN rows # {}
      BY <2>2, <3>1, TableIsEmpty
    <3>3. through' = Largest(DOMAIN rows)
      BY <2>2 DEF Begin
    <3>4. through' \in Fps
      BY <3>1, <3>2, <3>3, LargestMember
    <3> QED
      BY <3>4, PushAssumption DEF Fps
  <2> QED
    BY <2>1, <2>2
<1>2. full' \in BOOLEAN /\ sent' \in BOOLEAN
  BY DEF Begin, PushTypes, TypeOK
<1>3. 0 \in 0..LastFp
  BY PushAssumption
<1>4. faults' \in Nat
  BY DEF PushTypes, StoreOK, Begin
<1>5. page' = Empty /\ batch' = Empty /\ seen' = Empty
  BY DEF Begin
<1>6. IsTable(Empty, Rows) /\ IsTable(Empty, Observations)
  BY EmptyTable
<1>7. PushTypes /\ UNCHANGED <<storeVars, hub, late, rewritten, ack, fullDue>>
  BY DEF Begin, hubVars
<1>8. /\ IsTable(hub', Observations) /\ IsTable(ack', Observations)
      /\ \A b \in late' : IsTable(b, Observations)
      /\ fullDue' \in BOOLEAN /\ rewritten' \in BOOLEAN
  BY <1>7 DEF PushTypes, TypeOK, StoreOK
<1>9. after' \in 0..LastFp /\ pc' \in {"idle", "page", "history", "send", "finish"}
  BY <1>3 DEF Begin
<1> QED
  BY <1>1, <1>2, <1>4, <1>5, <1>6, <1>7, <1>8, <1>9, OtherTypes

LEMMA ReadRowsTypes ==
    ASSUME PushTypes, ReadRows PROVE PushTypes'
<1>1. /\ UNCHANGED <<storeVars, hub, late, rewritten, ack, fullDue, full, seen, sent, after,
                     through, batch, faults>>
      /\ pc' \in {"finish", "history"} /\ page' = Keep(rows, NextPage(after))
  BY DEF ReadRows, hubVars
<1>2. IsTable(rows, Rows)
  BY DEF PushTypes, TypeOK
<1>3. IsTable(page', Rows)
  BY <1>1, <1>2, KeepTable
<1> QED
  BY <1>1, <1>3, OtherTypes DEF PushTypes, TypeOK, StoreOK

LEMMA PageObservationsTable ==
    ASSUME PushTypes
    PROVE  /\ IsTable(PageObservations, Observations)
           /\ DOMAIN PageObservations = DOMAIN page
           /\ \A f \in DOMAIN page :
                  /\ PageObservations[f] \in Observations
                  /\ PageObservations[f].row = page[f]
                  /\ PageObservations[f].hist = History(f)
<1>1. IsTable(page, Rows) /\ IsTable(hist, 1..MaxSightings)
  BY DEF PushTypes, TypeOK
<1>2. PICK o : o = PageObservations
  OBVIOUS
<1>3. o = [f \in DOMAIN page |-> [row |-> page[f], hist |-> History(f)]]
  BY <1>2 DEF PageObservations
<1>4. ASSUME NEW f \in DOMAIN page
      PROVE  /\ o[f] \in Observations /\ o[f].row = page[f]
             /\ o[f].hist = History(f)
  <2>1. PICK h \in 0..MaxSightings : h = History(f)
    BY <1>1, TableRows, PushAssumption DEF History
  <2>2. o[f] = [row |-> page[f], hist |-> h] /\ page[f] \in Rows
    BY <1>1, <1>3, <2>1, TableRows
  <2> QED
    BY <2>1, <2>2 DEF Observations
<1>5. DOMAIN o = DOMAIN page /\ o \in [DOMAIN page -> Observations]
  <2>1. o = [f \in DOMAIN page |-> o[f]] /\ DOMAIN o = DOMAIN page
    BY <1>3
  <2> QED
    BY <1>4, <2>1
<1>6. DOMAIN page \subseteq Fps
  BY <1>1 DEF IsTable
<1> QED
  BY <1>2, <1>4, <1>5, <1>6 DEF IsTable

LEMMA ReadHistoryTypes ==
    ASSUME PushTypes, PagesInOrder, ReadHistory PROVE PushTypes'
<1>1. /\ UNCHANGED <<storeVars, hub, late, rewritten, ack, fullDue, full, sent, through, faults>>
      /\ pc' \in {"page", "send"} /\ pc = "history"
      /\ after' = after \/ after' = Largest(DOMAIN page)
      /\ page' = page \/ page' = Empty
      /\ seen' = Overwrite(seen, PageObservations)
      /\ batch' = Keep(PageObservations, Changed(PageObservations))
  BY DEF ReadHistory, hubVars
<1>2. IsTable(page, Rows) /\ IsTable(seen, Observations) /\ IsTable(PageObservations, Observations)
  BY PageObservationsTable DEF PushTypes, TypeOK
<1>3. IsTable(seen', Observations)
  BY <1>1, <1>2, OverwriteTable
<1>4. IsTable(batch', Observations)
  BY <1>1, <1>2, KeepTable
<1>5. IsTable(page', Rows)
  BY <1>1, <1>2, EmptyTable
<1>6. after' \in 0..LastFp
  <2>1. DOMAIN page \in SUBSET Fps /\ DOMAIN page # {}
    BY <1>1, <1>2 DEF IsTable, PagesInOrder
  <2>2. Largest(DOMAIN page) \in Fps
    BY <2>1, LargestMember
  <2>3. after \in 0..LastFp
    BY DEF PushTypes, TypeOK
  <2> QED
    BY <1>1, <2>2, <2>3, PushAssumption DEF Fps
<1> QED
  BY <1>1, <1>3, <1>4, <1>5, <1>6, OtherTypes DEF PushTypes, TypeOK, StoreOK

LEMMA AcceptedTypes ==
    ASSUME PushTypes, PagesInOrder, Accepted PROVE PushTypes'
<1>1. /\ UNCHANGED <<storeVars, late, rewritten, fullDue, full, seen, through, faults>>
      /\ pc = "send" /\ pc' = "page" /\ sent' = TRUE
      /\ after' = Largest(DOMAIN page) /\ page' = Empty /\ batch' = Empty
      /\ hub' = Overwrite(hub, batch) /\ ack' = Overwrite(ack, batch)
  BY DEF Accepted
<1>2. /\ IsTable(page, Rows) /\ IsTable(hub, Observations) /\ IsTable(ack, Observations)
      /\ IsTable(batch, Observations)
  BY DEF PushTypes, TypeOK
<1>3. IsTable(hub', Observations) /\ IsTable(ack', Observations)
  BY <1>1, <1>2, OverwriteTable
<1>4. IsTable(page', Rows) /\ IsTable(batch', Observations)
  BY <1>1, EmptyTable
<1>5. after' \in 0..LastFp
  <2>1. DOMAIN page \in SUBSET Fps /\ DOMAIN page # {}
    BY <1>1, <1>2 DEF IsTable, PagesInOrder
  <2>2. after' \in Fps
    BY <1>1, <2>1, LargestMember
  <2> QED
    BY <2>2, PushAssumption DEF Fps
<1> QED
  BY <1>1, <1>3, <1>4, <1>5, OtherTypes DEF PushTypes, TypeOK, StoreOK

LEMMA FailedTypes ==
    ASSUME PushTypes, Failed PROVE PushTypes'
<1>1. /\ UNCHANGED <<storeVars, ack, rewritten>> /\ faults' = faults + 1 /\ Return(FALSE)
      /\ hub' = hub \/ hub' = Overwrite(hub, batch)
      /\ late' \subseteq late \cup {batch}
  BY DEF Failed
<1>2. /\ IsTable(hub, Observations) /\ IsTable(ack, Observations)
      /\ IsTable(batch, Observations) /\ \A b \in late : IsTable(b, Observations)
  BY DEF PushTypes, TypeOK, StoreOK
<1>3. IsTable(hub', Observations) /\ IsTable(ack', Observations)
  <2>1. CASE hub' = hub
    BY <1>1, <1>2, <2>1
  <2>2. CASE hub' = Overwrite(hub, batch)
    BY <1>1, <1>2, <2>2, OverwriteTable
  <2> QED
    BY <1>1, <2>1, <2>2
<1>4. \A b \in late' : IsTable(b, Observations)
  BY <1>1, <1>2
<1>5. Leave /\ fullDue' \in BOOLEAN /\ faults' \in Nat
  BY <1>1, ReturnTypes, FaultCounts
<1> QED
  BY <1>1, <1>3, <1>4, <1>5, LeaveTypes

LEMMA FinishTypes ==
    ASSUME PushTypes, Finish PROVE PushTypes'
<1>1. /\ UNCHANGED <<storeVars, hub, late, rewritten, faults>> /\ Return(TRUE)
      /\ ack' = Keep(ack, DOMAIN seen)
  BY DEF Finish, hubVars
<1>2. /\ IsTable(hub, Observations) /\ IsTable(ack, Observations)
      /\ \A b \in late : IsTable(b, Observations)
  BY DEF PushTypes, TypeOK, StoreOK
<1>3. IsTable(ack', Observations)
  BY <1>1, <1>2, KeepTable
<1>4. Leave /\ fullDue' \in BOOLEAN /\ faults' \in Nat
  BY <1>1, ReturnTypes, FaultCounts
<1> QED
  BY <1>1, <1>2, <1>3, <1>4, LeaveTypes

LEMMA GiveUpTypes ==
    ASSUME PushTypes, HeartbeatFailed \/ Abandon PROVE PushTypes'
<1>1. /\ UNCHANGED <<storeVars, hub, late, rewritten, ack>> /\ Return(FALSE)
      /\ faults' = faults + 1
  BY DEF HeartbeatFailed, Abandon, hubVars
<1>2. /\ IsTable(hub, Observations) /\ IsTable(ack, Observations)
      /\ \A b \in late : IsTable(b, Observations)
  BY DEF PushTypes, TypeOK, StoreOK
<1>3. Leave /\ fullDue' \in BOOLEAN /\ faults' \in Nat
  BY <1>1, ReturnTypes, FaultCounts
<1> QED
  BY <1>1, <1>2, <1>3, LeaveTypes

LEMMA RestartTypes ==
    ASSUME PushTypes, Restart PROVE PushTypes'
<1>1. /\ UNCHANGED <<storeVars, hub, late, rewritten>> /\ Leave /\ ack' = Empty
      /\ faults' = faults + 1 /\ fullDue' \in BOOLEAN
  BY DEF Restart, hubVars
<1>2. /\ IsTable(hub, Observations) /\ IsTable(Empty, Observations)
      /\ \A b \in late : IsTable(b, Observations)
  BY EmptyTable DEF PushTypes, TypeOK, StoreOK
<1>3. faults' \in Nat
  BY <1>1, FaultCounts
<1> QED
  BY <1>1, <1>2, <1>3, LeaveTypes

\* The steps of the hub and of the clock leave pushObservations alone.
LEMMA AsideTypes ==
    ASSUME PushTypes, FullSyncTimer \/ HubRestore \/ LateCommit
    PROVE  PushTypes' /\ UNCHANGED <<storeVars, pc, ack, localVars>>
<1>1. UNCHANGED <<storeVars, pc, ack, localVars>>
  BY DEF FullSyncTimer, HubRestore, LateCommit
<1>2. /\ IsTable(hub, Observations) /\ \A b \in late : IsTable(b, Observations)
      /\ fullDue \in BOOLEAN /\ rewritten \in BOOLEAN /\ faults \in Nat
  BY DEF PushTypes, TypeOK, StoreOK
<1>3. /\ IsTable(hub', Observations) /\ \A b \in late' : IsTable(b, Observations)
      /\ fullDue' \in BOOLEAN /\ rewritten' \in BOOLEAN /\ faults' \in Nat
  <2>1. CASE FullSyncTimer
    BY <1>2, <2>1 DEF FullSyncTimer, hubVars
  <2>2. CASE HubRestore
    <3>1. PICK D : hub' = Keep(hub, D)
      BY <2>2 DEF HubRestore
    <3>2. IsTable(hub', Observations)
      BY <1>2, <3>1, KeepTable
    <3> QED
      BY <1>2, <2>2, <3>2 DEF HubRestore
  <2>3. CASE LateCommit
    <3>1. PICK b \in late : /\ hub' = Overwrite(hub, b) /\ late' = late \ {b}
                            /\ rewritten' = TRUE /\ UNCHANGED <<fullDue, faults>>
      BY <2>3 DEF LateCommit
    <3>2. IsTable(hub', Observations)
      BY <1>2, <3>1, OverwriteTable
    <3> QED
      BY <1>2, <3>1, <3>2
  <2> QED
    BY <2>1, <2>2, <2>3
<1>4. UNCHANGED <<full, seen, sent, after, through, page, batch>>
  BY <1>1 DEF localVars
<1> QED
  BY <1>1, <1>3, <1>4, OtherTypes DEF PushTypes, TypeOK

-----------------------------------------------------------------------------
(* Pages *)

\* The rows a page is taken from.
Left(a) == {f \in DOMAIN rows : a < f /\ f <= through}

LEMMA LeftCount ==
    ASSUME PushTypes, NEW a, NEW f
    PROVE  IsFiniteSet({g \in Left(a) : g < f})
<1>1. IsFiniteSet(Fps)
  BY FS_Interval, PushAssumption DEF Fps
<1>2. {g \in Left(a) : g < f} \in SUBSET Fps
  BY DEF Left, PushTypes, TypeOK, IsTable
<1> QED
  BY <1>1, <1>2, SubsetCount

\* A page leaves out no row between its first and its last.
LEMMA PageIsClosed ==
    ASSUME PushTypes, NEW g \in NextPage(after), NEW f \in DOMAIN rows, after < f, f <= g
    PROVE  f \in NextPage(after)
<1>1. DOMAIN rows \subseteq Nat /\ through \in Nat
  BY PushAssumption DEF PushTypes, TypeOK, IsTable, Fps
<1>2. g \in Left(after) /\ Cardinality({h \in Left(after) : h < g}) < PageSize
  BY DEF NextPage, Left
<1>3. f \in Left(after) /\ Left(after) \subseteq Nat
  BY <1>1, <1>2 DEF Left
<1>4. PICK A, B : A = {h \in Left(after) : h < f} /\ B = {h \in Left(after) : h < g}
  OBVIOUS
<1>5. PICK m \in Nat, n \in Nat : m = Cardinality(A) /\ n = Cardinality(B) /\ m <= n
  <2>1. A \in SUBSET B
    BY <1>1, <1>2, <1>3, <1>4 DEF Left
  <2>2. IsFiniteSet(B)
    BY <1>4, LeftCount
  <2> QED
    BY <2>1, <2>2, SubsetCount
<1>6. m < PageSize
  BY <1>2, <1>4, <1>5, PushAssumption
<1> QED
  BY <1>3, <1>4, <1>5, <1>6 DEF NextPage, Left

\* A page is empty only when no row is left.
LEMMA EmptyPageIsLast ==
    ASSUME PushTypes, NextPage(after) = {}, NEW f \in DOMAIN rows, f <= through
    PROVE  f <= after
<1> SUFFICES ASSUME ~(f <= after) PROVE FALSE
  OBVIOUS
<1>1. DOMAIN rows \subseteq Nat /\ through \in Nat /\ after \in Nat
  BY PushAssumption DEF PushTypes, TypeOK, IsTable, Fps
<1>2. f \in Left(after) /\ Left(after) \subseteq Nat
  BY <1>1 DEF Left
<1>3. PICK x \in Left(after) : \A y \in Left(after) : x <= y
  BY <1>2, SetOfNatHasMin
<1>4. {h \in Left(after) : h < x} = {}
  BY <1>2, <1>3
<1>5. Cardinality({h \in Left(after) : h < x}) = 0
  BY <1>4, FS_EmptySet
<1>6. x \in NextPage(after)
  BY <1>3, <1>5, PushAssumption DEF NextPage, Left
<1> QED
  BY <1>6

LEMMA NextPageRows ==
    ASSUME PushTypes
    PROVE  /\ NextPage(after) \subseteq DOMAIN rows
           /\ DOMAIN Keep(rows, NextPage(after)) = NextPage(after)
<1>1. NextPage(after) \subseteq DOMAIN rows
  BY DEF NextPage
<1> QED
  BY <1>1 DEF Keep

\* What the store's writers do to the domains.
LEMMA StoreStepRows ==
    ASSUME PushTypes, stable \subseteq DOMAIN rows, StoreStep
    PROVE  /\ stable' \subseteq stable /\ stable' \subseteq DOMAIN rows'
           /\ UNCHANGED <<pc, ack, hubVars, fullDue, full, seen, sent, after, through, page,
                          batch, uploaded>>
<1>1. PICK f \in Fps : Observe(f) \/ Placeholder(f) \/ Decide(f) \/ Remove(f)
  BY DEF StoreStep
<1>2. CASE Observe(f) \/ Placeholder(f)
  BY <1>2 DEF Observe, Placeholder, Overwrite, localVars
<1>3. CASE Decide(f)
  BY <1>3 DEF Decide, localVars
<1>4. CASE Remove(f)
  <2>1. DOMAIN rows \subseteq Fps
    BY DEF PushTypes, TypeOK, IsTable
  <2> QED
    BY <1>4, <2>1 DEF Remove, Keep
<1> QED
  BY <1>1, <1>2, <1>3, <1>4

LEMMA LeavePages == Leave => PagesInOrder'
BY DEF Leave, PagesInOrder, PagesCoverStableRows

LEMMA StorePages ==
    ASSUME PushTypes, PagesInOrder, StoreStep PROVE PagesInOrder'
BY StoreStepRows DEF PagesInOrder, PagesCoverStableRows

LEMMA BeginPages ==
    ASSUME PushTypes, Begin PROVE PagesInOrder'
<1>1. DOMAIN rows \in SUBSET Fps /\ IsTable(rows, Rows)
  BY DEF PushTypes, TypeOK, IsTable
<1>2. /\ pc' = "page" /\ after' = 0 /\ stable' = DOMAIN rows /\ rows' = rows
      /\ through' = IF rows = Empty THEN 0 ELSE Largest(DOMAIN rows)
  BY DEF Begin, storeVars
<1>3. ASSUME NEW f \in DOMAIN rows PROVE f <= through' /\ ~(f <= after')
  <2>1. DOMAIN rows # {} /\ rows # Empty
    BY EmptyTable
  <2>2. f <= through'
    BY <1>1, <1>2, <2>1, LargestMember
  <2>3. f \in Fps
    BY <1>1
  <2> QED
    BY <1>2, <2>2, <2>3, PushAssumption DEF Fps
<1> QED
  BY <1>2, <1>3 DEF PagesInOrder, PagesCoverStableRows

LEMMA ReadRowsPages ==
    ASSUME PushTypes, PagesInOrder, ReadRows PROVE PagesInOrder'
<1>1. /\ UNCHANGED <<rows, stable, seen, after, through>>
      /\ pc' = IF NextPage(after) = {} THEN "finish" ELSE "history"
      /\ page' = Keep(rows, NextPage(after))
  BY DEF ReadRows, storeVars
<1>2. DOMAIN page' = NextPage(after)
  BY <1>1, NextPageRows
<1>3. DOMAIN rows \subseteq Nat /\ through \in Nat /\ after \in Nat
  BY PushAssumption DEF PushTypes, TypeOK, IsTable, Fps
<1>4. CASE NextPage(after) = {}
  <2>1. \A f \in stable : f <= after
    BY <1>4, EmptyPageIsLast DEF PagesInOrder
  <2>2. \A f \in stable : f \in DOMAIN seen
    BY <2>1 DEF PagesInOrder
  <2> QED
    BY <1>1, <1>4, <2>2 DEF PagesInOrder, PagesCoverStableRows
<1>5. CASE NextPage(after) # {}
  <2>1. ASSUME NEW f \in stable, NEW g \in NextPage(after), f <= g, ~(f <= after)
        PROVE  f \in NextPage(after)
    <3>1. f \in DOMAIN rows /\ after < f
      BY <1>3, <2>1 DEF PagesInOrder
    <3> QED
      BY <2>1, <3>1, PageIsClosed
  <2>2. pc' = "history"
    BY <1>1, <1>5
  <2> QED
    BY <1>1, <1>2, <1>5, <2>1, <2>2 DEF PagesInOrder, PagesCoverStableRows
<1> QED
  BY <1>4, <1>5

\* A page that has been read moves after to its end.
LEMMA PageBehind ==
    ASSUME PushTypes, PagesInOrder, pc \in {"history", "send"},
           NEW f \in stable, f <= Largest(DOMAIN page)
    PROVE  f \in DOMAIN seen \/ f \in DOMAIN page
<1>1. DOMAIN page \in SUBSET Fps /\ DOMAIN page # {}
  BY DEF PushTypes, TypeOK, IsTable, PagesInOrder
<1>2. PICK g \in DOMAIN page : g = Largest(DOMAIN page)
  BY <1>1, LargestMember
<1> QED
  BY <1>2 DEF PagesInOrder

LEMMA ReadHistoryPages ==
    ASSUME PushTypes, PagesInOrder, ReadHistory PROVE PagesInOrder'
<1>1. UNCHANGED <<rows, stable, through>> /\ pc = "history"
  BY DEF ReadHistory, storeVars
<1>2. DOMAIN seen' = DOMAIN seen \cup DOMAIN page
  BY PageObservationsTable DEF ReadHistory, Overwrite
<1>3. CASE Changed(PageObservations) = {}
  <2>1. pc' = "page" /\ after' = Largest(DOMAIN page)
    BY <1>3 DEF ReadHistory
  <2>2. \A f \in stable : f <= after' => f \in DOMAIN seen'
    BY <1>1, <1>2, <2>1, PageBehind
  <2> QED
    BY <1>1, <2>1, <2>2 DEF PagesInOrder, PagesCoverStableRows
<1>4. CASE Changed(PageObservations) # {}
  <2>1. pc' = "send" /\ UNCHANGED <<after, page>>
    BY <1>4 DEF ReadHistory
  <2> QED
    BY <1>1, <1>2, <2>1 DEF PagesInOrder, PagesCoverStableRows
<1> QED
  BY <1>3, <1>4

LEMMA AcceptedPages ==
    ASSUME PushTypes, PagesInOrder, Accepted PROVE PagesInOrder'
<1>1. /\ UNCHANGED <<rows, stable, through, seen>> /\ pc = "send" /\ pc' = "page"
      /\ after' = Largest(DOMAIN page)
  BY DEF Accepted, storeVars
<1>2. \A f \in stable : f <= after' => f \in DOMAIN seen
  BY <1>1, PageBehind DEF PagesInOrder
<1> QED
  BY <1>1, <1>2 DEF PagesInOrder, PagesCoverStableRows

\* Every step ends the push, is one of the above, or leaves it alone.
LEMMA NextKinds ==
    ASSUME Next
    PROVE  \/ StoreStep \/ Begin \/ ReadRows \/ ReadHistory \/ Accepted
           \/ Failed \/ Finish \/ HeartbeatFailed \/ Abandon \/ Restart
           \/ FullSyncTimer \/ HubRestore \/ LateCommit
BY DEF Next, PushStep

LEMMA ReturningLeaves ==
    ASSUME Failed \/ Finish \/ HeartbeatFailed \/ Abandon \/ Restart
    PROVE  Leave
BY DEF Failed, Finish, HeartbeatFailed, Abandon, Restart, Return

PushInv == PushTypes /\ PagesInOrder

LEMMA PushInvInit == Init => PushInv
<1>1. Init => PagesInOrder
  BY DEF Init, PagesInOrder, PagesCoverStableRows
<1> QED
  BY <1>1, TypesInit DEF PushInv

LEMMA PushInvStep == PushInv /\ [Next]_vars => PushInv'
<1> SUFFICES ASSUME PushTypes, PagesInOrder, [Next]_vars PROVE PushTypes' /\ PagesInOrder'
  BY DEF PushInv
<1>1. CASE StoreStep
  <2>1. PICK f \in Fps : Observe(f) \/ Placeholder(f) \/ Decide(f) \/ Remove(f)
    BY <1>1 DEF StoreStep
  <2>2. PushTypes'
    BY <2>1, ObserveTypes, PlaceholderTypes, DecideTypes, RemoveTypes
  <2> QED
    BY <1>1, <2>2, StorePages
<1>2. CASE Begin
  BY <1>2, BeginTypes, BeginPages
<1>3. CASE ReadRows
  BY <1>3, ReadRowsTypes, ReadRowsPages
<1>4. CASE ReadHistory
  BY <1>4, ReadHistoryTypes, ReadHistoryPages
<1>5. CASE Accepted
  BY <1>5, AcceptedTypes, AcceptedPages
<1>6. CASE Failed \/ Finish \/ HeartbeatFailed \/ Abandon \/ Restart
  <2>1. PagesInOrder'
    BY <1>6, ReturningLeaves, LeavePages
  <2> QED
    BY <1>6, <2>1, FailedTypes, FinishTypes, GiveUpTypes, RestartTypes
<1>7. CASE FullSyncTimer \/ HubRestore \/ LateCommit
  <2>1. PushTypes' /\ UNCHANGED <<rows, pc, seen, after, through, page, stable>>
    BY <1>7, AsideTypes DEF storeVars, localVars
  <2> QED
    BY <2>1 DEF PagesInOrder, PagesCoverStableRows
<1>8. CASE UNCHANGED vars
  BY <1>8 DEF vars, storeVars, hubVars, localVars, PushTypes, TypeOK, StoreOK,
              PagesInOrder, PagesCoverStableRows
<1> QED
  BY <1>1, <1>2, <1>3, <1>4, <1>5, <1>6, <1>7, <1>8, NextKinds

LEMMA PushInvariant == Spec => []PushInv
BY PushInvInit, PushInvStep, PTL DEF Spec

\* The store's tables, the hub's and the cache keep their types, and no history
\* outlives its row, whatever is written while pushObservations walks the store
\* and wherever it fails.
THEOREM PushTypeSafe == Spec => []TypeOK
<1>1. PushInv => TypeOK
  BY DEF PushInv, PushTypes
<1> QED
  BY <1>1, PushInvariant, PTL

\* Keyset paging misses no row that was in the store throughout the push: after
\* is always the end of a page read, a page has no gaps, and an empty page means
\* that no row is left below the push's upper bound.
THEOREM PagingSafe == Spec => []PagesCoverStableRows
<1>1. PushInv => PagesCoverStableRows
  BY DEF PushInv, PagesInOrder
<1> QED
  BY <1>1, PushInvariant, PTL

-----------------------------------------------------------------------------
(* Full snapshots *)

LEMMA FullInit == Init => FullUploads
BY DEF Init, FullUploads

LEMMA ReadHistoryFull ==
    ASSUME PushTypes, FullUploads, ReadHistory PROVE FullUploads'
<1>1. /\ UNCHANGED <<full, uploaded>> /\ pc = "history"
      /\ batch' = Keep(PageObservations, Changed(PageObservations))
      /\ pc' = IF Changed(PageObservations) = {} THEN "page" ELSE "send"
  BY DEF ReadHistory
<1>2. DOMAIN PageObservations = DOMAIN page
  BY PageObservationsTable
<1>3. DOMAIN seen' = DOMAIN seen \cup DOMAIN page
  BY <1>2 DEF ReadHistory, Overwrite
<1>4. SUFFICES ASSUME full PROVE FullUploads'
  BY <1>1 DEF FullUploads
<1>5. DOMAIN seen \subseteq uploaded
  BY <1>1, <1>4 DEF FullUploads
<1>6. Changed(PageObservations) = DOMAIN page
  BY <1>2, <1>4 DEF Changed
<1>7. DOMAIN batch' = DOMAIN page
  BY <1>1, <1>2, <1>6 DEF Keep
<1> QED
  BY <1>1, <1>3, <1>5, <1>6, <1>7 DEF FullUploads

LEMMA FullStep == PushInv /\ FullUploads /\ [Next]_vars => FullUploads'
<1> SUFFICES ASSUME PushTypes, PagesInOrder, FullUploads, [Next]_vars PROVE FullUploads'
  BY DEF PushInv
<1>1. CASE StoreStep
  <2>1. UNCHANGED <<full, seen, uploaded, pc, batch>>
    BY <1>1, StoreStepRows DEF PagesInOrder
  <2> QED
    BY <2>1 DEF FullUploads
<1>2. CASE Begin
  BY <1>2, EmptyTable DEF Begin, FullUploads
<1>3. CASE ReadRows
  BY <1>3 DEF ReadRows, FullUploads
<1>4. CASE ReadHistory
  BY <1>4, ReadHistoryFull
<1>5. CASE Accepted
  BY <1>5 DEF Accepted, FullUploads
<1>6. CASE Failed \/ Finish \/ HeartbeatFailed \/ Abandon \/ Restart
  <2>1. Leave
    BY <1>6, ReturningLeaves
  <2> QED
    BY <2>1 DEF Leave, FullUploads
<1>7. CASE FullSyncTimer \/ HubRestore \/ LateCommit
  <2>1. UNCHANGED <<full, seen, uploaded, pc, batch>>
    BY <1>7, AsideTypes DEF localVars
  <2> QED
    BY <2>1 DEF FullUploads
<1>8. CASE UNCHANGED vars
  BY <1>8 DEF vars, localVars, FullUploads
<1> QED
  BY <1>1, <1>2, <1>3, <1>4, <1>5, <1>6, <1>7, <1>8, NextKinds

\* Only the end of a full snapshot clears fullDue, and there everything read has
\* been accepted.
LEMMA DoneIsComplete ==
    ASSUME PushInv, FullUploads, [Next]_vars, fullDue, ~fullDue'
    PROVE  stable \subseteq uploaded
<1>1. PushTypes /\ PagesInOrder
  BY DEF PushInv
<1>2. Finish
  <2>1. ~StoreStep
    BY <1>1, StoreStepRows DEF PagesInOrder
  <2>2. ~Begin /\ ~ReadRows /\ ~ReadHistory /\ ~Accepted
    BY DEF Begin, ReadRows, ReadHistory, Accepted
  <2>3. ~Failed /\ ~HeartbeatFailed /\ ~Abandon /\ ~Restart
    BY DEF Failed, HeartbeatFailed, Abandon, Restart, Return
  <2>4. ~FullSyncTimer /\ ~HubRestore /\ ~LateCommit
    BY DEF FullSyncTimer, HubRestore, LateCommit
  <2>5. ~UNCHANGED vars
    BY DEF vars
  <2> QED
    BY <2>1, <2>2, <2>3, <2>4, <2>5, NextKinds
<1>3. full /\ pc = "finish"
  BY <1>2 DEF Finish, Return
<1>4. DOMAIN seen \subseteq uploaded
  BY <1>3 DEF FullUploads
<1> QED
  BY <1>1, <1>3, <1>4 DEF PagesInOrder, PagesCoverStableRows

\* lastFullSync is set only when the hub has accepted, in that very push, every
\* row that was there throughout: a push that fails anywhere leaves it alone, a
\* full one suppresses nothing, and the pages miss nothing.
THEOREM SnapshotSafe == Spec => SnapshotComplete
<1>1. PushInv /\ FullUploads /\ [Next]_vars
        => [(fullDue /\ ~fullDue') => stable \subseteq uploaded]_vars
  BY DoneIsComplete
<1>2. Spec => [](PushInv /\ FullUploads)
  BY PushInvariant, FullInit, FullStep, PTL DEF Spec
<1> QED
  BY <1>1, <1>2, PTL DEF Spec, SnapshotComplete

-----------------------------------------------------------------------------
(* What the hub holds *)

LEMMA ObservationParts ==
    ASSUME NEW o \in Observations
    PROVE  /\ o.row \in Rows /\ o.row.at \in Nat /\ o.row.verdict \in Nat /\ o.hist \in Nat
           /\ o = [row |-> o.row, hist |-> o.hist]
BY PushAssumption DEF Observations, Rows

LEMMA RowParts ==
    ASSUME NEW r \in Rows
    PROVE  /\ r.at \in Nat /\ r.verdict \in Nat
           /\ r = [at |-> r.at, verdict |-> r.verdict]
BY PushAssumption DEF Rows

LEMMA RowLeqTrans ==
    ASSUME NEW q \in Rows, NEW r \in Rows, NEW s \in Rows, RowLeq(q, r), RowLeq(r, s)
    PROVE  RowLeq(q, s)
BY RowParts DEF RowLeq

LEMMA RowLeqBack ==
    ASSUME NEW q \in Rows, NEW r \in Rows, RowLeq(q, r), RowLeq(r, q)
    PROVE  q = r
<1>1. q.at = r.at /\ q.verdict = r.verdict
  BY RowParts DEF RowLeq
<1> QED
  BY <1>1, RowParts

\* A row's content only moves on: a sighting has a new timestamp, a decision a
\* new verdict.  A row that stays the same keeps its history.
LEMMA RowsMoveOn ==
    ASSUME PushTypes, ~Recurs, StoreStep, NEW g \in DOMAIN rows'
    PROVE  /\ rows'[g] \in Rows
           /\ \/ rows'[g].at = clock + 1
              \/ g \in DOMAIN rows /\ rows'[g] = rows[g] /\ History(g)' = History(g)
              \/ g \in DOMAIN rows /\ rows'[g].at = rows[g].at
                                   /\ rows[g].verdict < rows'[g].verdict
<1>1. PICK f \in Fps : Observe(f) \/ Placeholder(f) \/ Decide(f) \/ Remove(f)
  BY DEF StoreStep
<1>2. /\ PushTypes' /\ IsTable(rows, Rows) /\ IsTable(hist, 1..MaxSightings)
      /\ clock \in 0..MaxSightings
  BY <1>1, ObserveTypes, PlaceholderTypes, DecideTypes, RemoveTypes
     DEF PushTypes, TypeOK, StoreOK
<1>3. rows'[g] \in Rows
  BY <1>2, TableRows DEF PushTypes, TypeOK
<1>4. CASE Observe(f) \/ Placeholder(f)
  <2>1. PICK u, v : /\ rows' = Overwrite(rows, u)
                    /\ u = [h \in {f} |-> [at |-> clock + 1, verdict |-> v]]
    BY <1>4 DEF Observe, Placeholder
  <2>2. PICK w : /\ hist' = Overwrite(hist, w) \/ UNCHANGED hist
                 /\ w = [h \in {f} |-> clock + 1]
    BY <1>4 DEF Observe, Placeholder
  <2>3. DOMAIN u = {f} /\ u[f].at = clock + 1 /\ DOMAIN w = {f}
    BY <2>1, <2>2
  <2>4. CASE g = f
    BY <1>3, <2>1, <2>3, <2>4, OverwriteNew
  <2>5. CASE g # f
    <3>1. g \in DOMAIN rows /\ g \notin DOMAIN u /\ g \notin DOMAIN w
      BY <2>1, <2>3, <2>5 DEF Overwrite
    <3>2. rows'[g] = rows[g]
      BY <2>1, <3>1, OverwriteOld
    <3>3. History(g)' = History(g)
      BY <2>2, <3>1 DEF History, Overwrite
    <3> QED
      BY <1>3, <3>1, <3>2, <3>3
  <2> QED
    BY <2>4, <2>5
<1>5. CASE Decide(f)
  <2>1. f \in DOMAIN rows /\ decisions \in Nat /\ History(g)' = History(g)
    BY <1>5 DEF Decide, PushTypes, StoreOK, History
  <2>2. PICK a \in Nat, v \in Nat : rows[f] = [at |-> a, verdict |-> v] /\ v <= decisions
    <3>1. rows[f] \in Rows
      BY <1>2, <2>1, TableRows
    <3> QED
      BY <2>1, <3>1, RowParts DEF PushTypes, StoreOK
  <2>3. rows' = [rows EXCEPT ![f] = [at |-> a, verdict |-> decisions + 1]]
    <3>1. PICK e : e = rows[f]
      OBVIOUS
    <3>2. rows' = [rows EXCEPT ![f] = [e EXCEPT !.verdict = decisions + 1]]
      BY <1>5, <3>1 DEF Decide
    <3>3. [e EXCEPT !.verdict = decisions + 1] = [at |-> a, verdict |-> decisions + 1]
      BY <2>2, <3>1
    <3> QED
      BY <3>2, <3>3
  <2>4. g \in DOMAIN rows
    BY <2>3
  <2>5. CASE g = f
    BY <1>3, <2>1, <2>2, <2>3, <2>5
  <2>6. CASE g # f
    BY <1>3, <2>1, <2>3, <2>4, <2>6
  <2> QED
    BY <2>5, <2>6
<1>6. CASE Remove(f)
  <2>1. g \in DOMAIN rows /\ g \in Fps /\ g # f /\ rows'[g] = rows[g]
    BY <1>6 DEF Remove, Keep
  <2>2. History(g)' = History(g)
    BY <1>6, <2>1 DEF Remove, Keep, History
  <2> QED
    BY <1>3, <2>1, <2>2
<1> QED
  BY <1>1, <1>4, <1>5, <1>6

LEMMA ClockMovesOn ==
    ASSUME PushTypes, StoreStep
    PROVE  clock \in Nat /\ clock' \in Nat /\ clock <= clock'
<1>1. clock \in Nat
  BY PushAssumption DEF PushTypes, StoreOK
<1>2. clock' = clock \/ clock' = clock + 1
  BY DEF StoreStep, Observe, Placeholder, Decide, Remove
<1> QED
  BY <1>1, <1>2

\* What was read of a row stays behind it.
LEMMA RowStaysBehind ==
    ASSUME PushTypes, ~Recurs, StoreStep, NEW g, NEW q \in Rows, q.at <= clock,
           g \in DOMAIN rows => RowLeq(q, rows[g]), g \in DOMAIN rows'
    PROVE  /\ RowLeq(q, rows'[g])
           /\ q = rows'[g] => /\ g \in DOMAIN rows /\ q = rows[g]
                              /\ History(g)' = History(g)
<1>1. /\ rows'[g] \in Rows
      /\ \/ rows'[g].at = clock + 1
         \/ g \in DOMAIN rows /\ rows'[g] = rows[g] /\ History(g)' = History(g)
         \/ g \in DOMAIN rows /\ rows'[g].at = rows[g].at
                              /\ rows[g].verdict < rows'[g].verdict
  BY RowsMoveOn
<1>2. q.at \in Nat /\ q.verdict \in Nat /\ rows'[g].verdict \in Nat /\ clock \in Nat
  BY <1>1, RowParts, ClockMovesOn
<1>3. CASE rows'[g].at = clock + 1
  BY <1>2, <1>3 DEF RowLeq
<1>4. CASE g \in DOMAIN rows /\ rows'[g] = rows[g] /\ History(g)' = History(g)
  BY <1>4
<1>5. CASE /\ g \in DOMAIN rows /\ rows'[g].at = rows[g].at
           /\ rows[g].verdict < rows'[g].verdict
  <2>1. rows[g] \in Rows
    BY <1>5, TableRows DEF PushTypes, TypeOK
  <2>2. PICK a \in Nat, v \in Nat : a = rows[g].at /\ v = rows[g].verdict
    BY <2>1, RowParts
  <2> QED
    BY <1>2, <1>5, <2>2 DEF RowLeq
<1> QED
  BY <1>1, <1>3, <1>4, <1>5

LEMMA WasReadStays ==
    ASSUME PushTypes, ~Recurs, StoreStep, NEW g, NEW o \in Observations, WasRead(o, g)
    PROVE  WasRead(o, g)'
<1>1. o.row \in Rows /\ o.row.at \in Nat
  BY ObservationParts
<1>2. o.row.at <= clock'
  BY <1>1, ClockMovesOn DEF WasRead
<1>3. ASSUME g \in DOMAIN rows'
      PROVE  RowLeq(o.row, rows'[g]) /\ (o.row = rows'[g] => o.hist = History(g)')
  BY <1>1, <1>3, RowStaysBehind DEF WasRead
<1> QED
  BY <1>2, <1>3 DEF WasRead

\* The same of an entry of a table that stays.
LEMMA TableReadStays ==
    ASSUME PushTypes, ~Recurs, StoreStep, NEW t, IsTable(t, Observations),
           NEW f \in DOMAIN t, WasRead(t[f], f)
    PROVE  WasRead(t[f], f)'
<1>1. PICK o \in Observations : o = t[f]
  BY TableRows
<1>2. WasRead(o, f)'
  BY <1>1, WasReadStays
<1> QED
  BY <1>1, <1>2 DEF WasRead

LEMMA StoreFollows ==
    ASSUME PushTypes, PagesInOrder, ~Recurs, HubFollows, StoreStep PROVE HubFollows'
<1>1. /\ IsTable(hub, Observations) /\ IsTable(ack, Observations)
      /\ IsTable(batch, Observations) /\ IsTable(page, Rows)
  BY DEF PushTypes, TypeOK
<1>2. UNCHANGED <<pc, ack, hub, seen, page, batch>>
  BY StoreStepRows DEF PagesInOrder, hubVars
<1>3. ASSUME NEW f \in DOMAIN hub PROVE WasRead(hub[f], f)'
  <2>1. PICK t : t = hub /\ t = hub'
    BY <1>2
  <2>2. WasRead(t[f], f)'
    BY <1>1, <2>1, TableReadStays DEF HubFollows
  <2> QED
    BY <2>1, <2>2 DEF WasRead
<1>4. ASSUME NEW f \in DOMAIN ack PROVE AckFollows(f)'
  <2>1. PICK t : t = ack /\ t = ack'
    BY <1>2
  <2>2. WasRead(t[f], f)'
    BY <1>1, <2>1, TableReadStays DEF HubFollows, AckFollows
  <2>3. WasRead(ack[f], f)'
    BY <2>1, <2>2 DEF WasRead
  <2> QED
    BY <1>2, <2>3 DEF HubFollows, AckFollows
<1>5. ASSUME pc = "send", NEW f \in DOMAIN batch PROVE WasRead(batch[f], f)'
  <2>1. PICK t : t = batch /\ t = batch'
    BY <1>2
  <2>2. WasRead(t[f], f)'
    BY <1>1, <1>5, <2>1, TableReadStays DEF HubFollows
  <2> QED
    BY <2>1, <2>2 DEF WasRead
<1>6. ASSUME pc = "history", NEW f \in DOMAIN page PROVE PageFollows(f)'
  <2>1. page[f] \in Rows /\ page[f].at \in Nat /\ PageFollows(f)
    BY <1>1, <1>6, TableRows, RowParts DEF HubFollows
  <2>2. page[f].at <= clock'
    BY <2>1, ClockMovesOn DEF PageFollows
  <2>3. f \in DOMAIN rows' => RowLeq(page[f], rows'[f])
    BY <2>1, RowStaysBehind DEF PageFollows
  <2> QED
    BY <1>2, <2>1, <2>2, <2>3 DEF PageFollows
<1> QED
  BY <1>2, <1>3, <1>4, <1>5, <1>6 DEF HubFollows

\* Steps that leave the store, the hub and the cache alone.
LEMMA StillFollows ==
    ASSUME HubFollows, UNCHANGED <<rows, hist, clock, hub, ack>>
    PROVE  /\ \A f \in DOMAIN hub' : WasRead(hub[f], f)'
           /\ \A f \in DOMAIN ack' : AckFollows(f)'
<1>1. \A f \in DOMAIN hub' : WasRead(hub[f], f)'
  BY DEF HubFollows, WasRead, History
<1>2. \A f \in DOMAIN ack' : AckFollows(f)'
  BY DEF HubFollows, AckFollows, WasRead, History
<1> QED
  BY <1>1, <1>2

\* Two observations of the same row that is still there are the same.
LEMMA SameRow ==
    ASSUME NEW f \in DOMAIN rows, NEW o \in Observations, NEW p \in Observations,
           WasRead(o, f), WasRead(p, f), o.row = rows[f], p.row = rows[f]
    PROVE  o = p
<1>1. o.row = p.row /\ o.hist = p.hist
  BY DEF WasRead
<1> QED
  BY <1>1, ObservationParts

LEMMA ReadRowsFollows ==
    ASSUME PushTypes, HubFollows, ReadRows PROVE HubFollows'
<1>1. /\ UNCHANGED <<rows, hist, clock, hub, ack, seen>> /\ pc' \in {"finish", "history"}
      /\ pc = "page" /\ page' = Keep(rows, NextPage(after))
  BY DEF ReadRows, storeVars, hubVars
<1>2. ASSUME NEW f \in DOMAIN page' PROVE PageFollows(f)'
  <2>1. PICK r \in Rows : f \in DOMAIN rows /\ page'[f] = r /\ rows[f] = r
    <3>1. f \in DOMAIN rows /\ page'[f] = rows[f]
      BY <1>1 DEF Keep
    <3> QED
      BY <3>1, TableRows DEF PushTypes, TypeOK
  <2>2. r.at <= clock /\ RowLeq(r, r)
    BY <2>1, RowParts DEF PushTypes, StoreOK, RowLeq
  <2>3. ASSUME f \in DOMAIN hub PROVE RowLeq(hub[f].row, r)
    BY <2>1, <2>3 DEF HubFollows, WasRead
  <2>4. ASSUME f \in DOMAIN ack, ack[f].row = r PROVE ack[f] = hub[f]
    <3>1. /\ f \in DOMAIN hub /\ RowLeq(ack[f].row, hub[f].row)
          /\ WasRead(ack[f], f) /\ WasRead(hub[f], f)
      BY <2>4 DEF HubFollows, AckFollows
    <3>2. PICK o \in Observations, p \in Observations : o = ack[f] /\ p = hub[f]
      BY <2>4, <3>1, TableRows DEF PushTypes, TypeOK
    <3>3. p.row = r
      BY <2>3, <2>4, <3>1, <3>2, ObservationParts, RowLeqBack
    <3> QED
      BY <2>1, <2>4, <3>1, <3>2, <3>3, SameRow
  <2> QED
    BY <1>1, <2>1, <2>2, <2>3, <2>4 DEF PageFollows
<1>3. /\ \A f \in DOMAIN hub' : WasRead(hub[f], f)'
      /\ \A f \in DOMAIN ack' : AckFollows(f)'
  BY <1>1, StillFollows
<1> QED
  BY <1>1, <1>2, <1>3 DEF HubFollows

\* What a page yields was read of its rows and is not behind the hub.
LEMMA PageWasRead ==
    ASSUME PushTypes, HubFollows, pc = "history", NEW f \in DOMAIN page
    PROVE  /\ WasRead(PageObservations[f], f)
           /\ f \in DOMAIN hub => RowLeq(hub[f].row, PageObservations[f].row)
<1>1. PageFollows(f)
  BY DEF HubFollows
<1>2. PageObservations[f].row = page[f] /\ PageObservations[f].hist = History(f)
  BY PageObservationsTable
<1> QED
  BY <1>1, <1>2 DEF PageFollows, WasRead

\* What is suppressed is what the hub holds.
LEMMA SuppressedFollows ==
    ASSUME PushTypes, HubFollows, pc = "history", NEW f \in DOMAIN page,
           f \notin Changed(PageObservations)
    PROVE  f \in DOMAIN hub /\ hub[f] = PageObservations[f]
<1>1. DOMAIN PageObservations = DOMAIN page /\ PageObservations[f].row = page[f]
  BY PageObservationsTable
<1>2. f \in DOMAIN ack /\ ack[f] = PageObservations[f]
  BY <1>1 DEF Changed
<1>3. f \in DOMAIN hub
  BY <1>2 DEF HubFollows, AckFollows
<1>4. ack[f] = hub[f]
  BY <1>1, <1>2 DEF HubFollows, PageFollows
<1> QED
  BY <1>2, <1>3, <1>4

LEMMA ReadHistoryFollows ==
    ASSUME PushTypes, HubFollows, ReadHistory PROVE HubFollows'
<1>1. /\ UNCHANGED <<rows, hist, clock, hub, ack>> /\ pc = "history"
      /\ pc' = IF Changed(PageObservations) = {} THEN "page" ELSE "send"
      /\ seen' = Overwrite(seen, PageObservations)
      /\ batch' = Keep(PageObservations, Changed(PageObservations))
  BY DEF ReadHistory, storeVars, hubVars
<1>2. DOMAIN PageObservations = DOMAIN page /\ Changed(PageObservations) \subseteq DOMAIN page
  BY PageObservationsTable DEF Changed
<1>3. DOMAIN batch' = Changed(PageObservations)
  BY <1>1, <1>2 DEF Keep
<1>4. DOMAIN seen' = DOMAIN seen \cup DOMAIN page
  BY <1>1, <1>2 DEF Overwrite
<1>5. ASSUME NEW f \in DOMAIN page PROVE seen'[f] = PageObservations[f]
  BY <1>1, <1>2, OverwriteNew
<1>6. ASSUME NEW f \in DOMAIN batch'
      PROVE  /\ WasRead(batch'[f], f) /\ f \in DOMAIN seen' /\ seen'[f] = batch'[f]
             /\ f \in DOMAIN hub => RowLeq(hub[f].row, batch'[f].row)
  <2>1. f \in DOMAIN page /\ batch'[f] = PageObservations[f]
    BY <1>1, <1>2, <1>3, KeepRow
  <2> QED
    BY <1>1, <1>4, <1>5, <2>1, PageWasRead
<1>7. ASSUME NEW f \in DOMAIN seen', ~(pc' = "send" /\ f \in DOMAIN batch')
      PROVE  f \in DOMAIN hub /\ hub[f] = seen'[f]
  <2>1. CASE f \in DOMAIN page
    <3>1. f \notin Changed(PageObservations)
      BY <1>1, <1>3, <1>7
    <3> QED
      BY <1>1, <1>5, <2>1, <3>1, SuppressedFollows
  <2>2. CASE f \notin DOMAIN page
    <3>1. f \in DOMAIN seen /\ seen'[f] = seen[f]
      BY <1>1, <1>2, <1>4, <2>2, OverwriteOld
    <3> QED
      BY <1>1, <3>1 DEF HubFollows
  <2> QED
    BY <2>1, <2>2
<1>8. /\ \A f \in DOMAIN hub' : WasRead(hub[f], f)'
      /\ \A f \in DOMAIN ack' : AckFollows(f)'
  BY <1>1, StillFollows
<1>9. \A f \in DOMAIN batch' : WasRead(batch[f], f)'
  BY <1>1, <1>6 DEF WasRead, History
<1> QED
  BY <1>1, <1>6, <1>7, <1>8, <1>9 DEF HubFollows

\* The hub takes a batch.
LEMMA BatchFollows ==
    ASSUME PushTypes, HubFollows, pc = "send", UNCHANGED <<rows, hist, clock>>,
           hub' = Overwrite(hub, batch)
    PROVE  /\ \A f \in DOMAIN hub' : WasRead(hub[f], f)'
           /\ \A f \in DOMAIN ack : /\ f \in DOMAIN hub' /\ WasRead(ack[f], f)
                                     /\ RowLeq(ack[f].row, hub'[f].row)
<1>1. /\ IsTable(hub, Observations) /\ IsTable(batch, Observations) /\ IsTable(ack, Observations)
      /\ DOMAIN hub' = DOMAIN hub \cup DOMAIN batch
  BY DEF PushTypes, TypeOK, Overwrite
<1>2. ASSUME NEW f \in DOMAIN batch PROVE hub'[f] = batch[f] /\ WasRead(batch[f], f)
  BY OverwriteNew DEF HubFollows
<1>3. ASSUME NEW f \in DOMAIN hub, f \notin DOMAIN batch
      PROVE  hub'[f] = hub[f] /\ WasRead(hub[f], f)
  BY <1>3, OverwriteOld DEF HubFollows
<1>4. ASSUME NEW f \in DOMAIN hub' PROVE WasRead(hub[f], f)'
  <2>1. WasRead(hub'[f], f)
    BY <1>1, <1>2, <1>3
  <2> QED
    BY <2>1 DEF WasRead, History
<1>5. ASSUME NEW f \in DOMAIN ack
      PROVE  f \in DOMAIN hub' /\ WasRead(ack[f], f) /\ RowLeq(ack[f].row, hub'[f].row)
  <2>1. f \in DOMAIN hub /\ WasRead(ack[f], f) /\ RowLeq(ack[f].row, hub[f].row)
    BY DEF HubFollows, AckFollows
  <2>2. CASE f \in DOMAIN batch
    <3>1. RowLeq(hub[f].row, batch[f].row)
      BY <2>1, <2>2 DEF HubFollows
    <3>2. PICK q \in Rows, r \in Rows, t \in Rows :
            q = ack[f].row /\ r = hub[f].row /\ t = batch[f].row
      BY <1>1, <2>1, <2>2, TableRows, ObservationParts
    <3>3. RowLeq(ack[f].row, batch[f].row)
      BY <2>1, <3>1, <3>2, RowLeqTrans
    <3> QED
      BY <1>1, <1>2, <2>1, <2>2, <3>3
  <2>3. CASE f \notin DOMAIN batch
    BY <1>1, <1>3, <2>1, <2>3
  <2> QED
    BY <2>2, <2>3
<1> QED
  BY <1>4, <1>5

LEMMA AcceptedFollows ==
    ASSUME PushTypes, HubFollows, Accepted PROVE HubFollows'
<1>1. /\ UNCHANGED <<rows, hist, clock, seen>> /\ pc = "send" /\ pc' = "page"
      /\ hub' = Overwrite(hub, batch) /\ ack' = Overwrite(ack, batch)
  BY DEF Accepted, storeVars
<1>2. /\ \A f \in DOMAIN hub' : WasRead(hub[f], f)'
      /\ \A f \in DOMAIN ack : /\ f \in DOMAIN hub' /\ WasRead(ack[f], f)
                                /\ RowLeq(ack[f].row, hub'[f].row)
  BY <1>1, BatchFollows
<1>3. /\ DOMAIN hub' = DOMAIN hub \cup DOMAIN batch
      /\ DOMAIN ack' = DOMAIN ack \cup DOMAIN batch
  BY <1>1 DEF Overwrite
<1>4. ASSUME NEW f \in DOMAIN batch PROVE hub'[f] = batch[f] /\ ack'[f] = batch[f]
  BY <1>1, OverwriteNew
<1>5. ASSUME NEW f \in DOMAIN ack' PROVE AckFollows(f)'
  <2>1. CASE f \in DOMAIN batch
    <3>1. batch[f].row \in Rows /\ WasRead(batch[f], f)
      BY <1>1, <2>1, TableRows, ObservationParts DEF PushTypes, TypeOK, HubFollows
    <3>2. RowLeq(batch[f].row, batch[f].row)
      BY <3>1, RowParts DEF RowLeq
    <3>3. WasRead(ack[f], f)'
      BY <1>1, <1>4, <2>1, <3>1 DEF WasRead, History
    <3> QED
      BY <1>3, <1>4, <2>1, <3>2, <3>3 DEF AckFollows
  <2>2. CASE f \notin DOMAIN batch
    <3>1. f \in DOMAIN ack /\ ack'[f] = ack[f]
      BY <1>1, <1>3, <2>2, OverwriteOld
    <3>2. WasRead(ack[f], f)'
      BY <1>1, <1>2, <3>1 DEF WasRead, History
    <3> QED
      BY <1>2, <3>1, <3>2 DEF AckFollows
  <2> QED
    BY <2>1, <2>2
<1>6. ASSUME NEW f \in DOMAIN seen PROVE f \in DOMAIN hub' /\ hub'[f] = seen[f]
  <2>1. CASE f \in DOMAIN batch
    BY <1>1, <1>3, <1>4, <2>1 DEF HubFollows
  <2>2. CASE f \notin DOMAIN batch
    <3>1. f \in DOMAIN hub /\ hub[f] = seen[f]
      BY <2>2 DEF HubFollows
    <3> QED
      BY <1>1, <1>3, <2>2, <3>1, OverwriteOld
  <2> QED
    BY <2>1, <2>2
<1> QED
  BY <1>1, <1>2, <1>5, <1>6 DEF HubFollows

\* A push that ends leaves nothing but the hub and the cache.
LEMMA LeaveFollows ==
    ASSUME Leave, \A f \in DOMAIN hub' : WasRead(hub[f], f)',
           \A f \in DOMAIN ack' : AckFollows(f)'
    PROVE  HubFollows'
<1>1. pc' = "idle" /\ DOMAIN seen' = {}
  BY EmptyTable DEF Leave
<1> QED
  BY <1>1 DEF HubFollows

LEMMA EndFollows ==
    ASSUME PushTypes, HubFollows, Failed \/ Finish \/ HeartbeatFailed \/ Abandon \/ Restart
    PROVE  HubFollows'
<1>1. Leave /\ UNCHANGED <<rows, hist, clock>>
  BY ReturningLeaves DEF Failed, Finish, HeartbeatFailed, Abandon, Restart, storeVars
<1>2. CASE hub' = hub
  <2>1. \A f \in DOMAIN hub' : WasRead(hub[f], f)'
    BY <1>1, <1>2 DEF HubFollows, WasRead, History
  <2>2. ack' = ack \/ ack' = Empty \/ ack' = Keep(ack, DOMAIN seen)
    BY DEF Failed, Finish, HeartbeatFailed, Abandon, Restart
  <2>3. \A f \in DOMAIN ack' : f \in DOMAIN ack /\ ack'[f] = ack[f]
    BY <2>2, EmptyTable DEF Keep
  <2>4. \A f \in DOMAIN ack' : AckFollows(f)'
    BY <1>1, <1>2, <2>3 DEF HubFollows, AckFollows, WasRead, History
  <2> QED
    BY <1>1, <2>1, <2>4, LeaveFollows
<1>3. CASE hub' # hub
  <2>1. pc = "send" /\ hub' = Overwrite(hub, batch) /\ ack' = ack
    BY <1>3 DEF Failed, Finish, HeartbeatFailed, Abandon, Restart, hubVars
  <2>2. /\ \A f \in DOMAIN hub' : WasRead(hub[f], f)'
        /\ \A f \in DOMAIN ack : /\ f \in DOMAIN hub' /\ WasRead(ack[f], f)
                                  /\ RowLeq(ack[f].row, hub'[f].row)
    BY <1>1, <2>1, BatchFollows
  <2>3. \A f \in DOMAIN ack' : AckFollows(f)'
    BY <1>1, <2>1, <2>2 DEF AckFollows, WasRead, History
  <2> QED
    BY <1>1, <2>2, <2>3, LeaveFollows
<1> QED
  BY <1>2, <1>3

HubInv == ~rewritten => HubFollows

LEMMA HubInvInit == Init => HubInv
BY EmptyTable DEF Init, HubInv, HubFollows

LEMMA HubInvStep ==
    ASSUME ~Recurs PROVE PushInv /\ HubInv /\ [Next]_vars => HubInv'
<1> SUFFICES ASSUME PushTypes, PagesInOrder, HubInv, [Next]_vars, ~rewritten'
             PROVE  HubFollows'
  BY DEF PushInv, HubInv
<1>1. ~rewritten
  <2>1. CASE StoreStep
    BY <2>1, StoreStepRows DEF PagesInOrder, hubVars
  <2>2. ~HubRestore /\ ~LateCommit
    BY DEF HubRestore, LateCommit
  <2>3. CASE \/ Begin \/ ReadRows \/ ReadHistory \/ Accepted
             \/ Failed \/ Finish \/ HeartbeatFailed \/ Abandon \/ Restart \/ FullSyncTimer
    BY <2>3 DEF Begin, ReadRows, ReadHistory, Accepted, Failed, Finish, HeartbeatFailed,
                Abandon, Restart, FullSyncTimer, hubVars
  <2>4. CASE UNCHANGED vars
    BY <2>4 DEF vars, hubVars
  <2> QED
    BY <2>1, <2>2, <2>3, <2>4, NextKinds
<1>2. HubFollows
  BY <1>1 DEF HubInv
<1>3. CASE StoreStep
  BY <1>2, <1>3, StoreFollows
<1>4. CASE Begin
  <2>1. UNCHANGED <<rows, hist, clock, hub, ack>> /\ pc' = "page" /\ DOMAIN seen' = {}
    BY <1>4, EmptyTable DEF Begin, storeVars, hubVars
  <2> QED
    BY <1>2, <2>1, StillFollows DEF HubFollows
<1>5. CASE ReadRows
  BY <1>2, <1>5, ReadRowsFollows
<1>6. CASE ReadHistory
  BY <1>2, <1>6, ReadHistoryFollows
<1>7. CASE Accepted
  BY <1>2, <1>7, AcceptedFollows
<1>8. CASE Failed \/ Finish \/ HeartbeatFailed \/ Abandon \/ Restart
  BY <1>2, <1>8, EndFollows
<1>9. CASE FullSyncTimer \/ UNCHANGED vars
  <2>1. UNCHANGED <<rows, hist, clock, hub, ack, pc, page, batch, seen>>
    BY <1>9 DEF FullSyncTimer, vars, storeVars, hubVars, localVars
  <2>2. pc = "history" => \A f \in DOMAIN page : PageFollows(f)'
    BY <1>2, <2>1 DEF HubFollows, PageFollows
  <2>3. pc = "send" => \A f \in DOMAIN batch : WasRead(batch[f], f)'
    BY <1>2, <2>1 DEF HubFollows, WasRead, History
  <2> QED
    BY <1>2, <2>1, <2>2, <2>3, StillFollows DEF HubFollows
<1>10. ~HubRestore /\ ~LateCommit
  BY DEF HubRestore, LateCommit
<1> QED
  BY <1>3, <1>4, <1>5, <1>6, <1>7, <1>8, <1>9, <1>10, NextKinds

\* What a push suppresses as acknowledged, the hub really holds: a request that
\* was committed though it failed is only ever followed by what was read later,
\* so a cached hash that equals the content read is the hub's content too, torn
\* reads included.  That needs contents never to recur (a verdict that returns to
\* an earlier value is the counterexample of MCPushRecurs.cfg).
THEOREM SuppressionSafe ==
    ASSUME ~Recurs PROVE Spec => []SuppressedIsHeld
<1>1. Spec => [](PushInv /\ HubInv)
  BY PushInvariant, HubInvInit, HubInvStep, PTL DEF Spec
<1>2. PushInv /\ HubInv => SuppressedIsHeld
  BY DEF HubInv, HubFollows, SuppressedIsHeld
<1> QED
  BY <1>1, <1>2, PTL

=============================================================================
