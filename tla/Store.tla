------------------------------- MODULE Store -------------------------------
(***************************************************************************)
(* The fingerprint database of gatekit (package store).                    *)
(*                                                                         *)
(* A gate has one Store: an SQLite file behind a writer handle pinned to   *)
(* one connection, so every write below is one transaction and one step.   *)
(* A write that fails (invalid argument, unknown fingerprint, database     *)
(* error) rolls back and is a stuttering step.                             *)
(*                                                                         *)
(* rows is the fingerprints table with the three history tables folded     *)
(* in: they reference it ON DELETE CASCADE, so a fingerprint's history     *)
(* lives exactly as long as its row.  Text whose only use is comparison    *)
(* (addresses, ports) is a natural number in the order SQLite sorts it.    *)
(*                                                                         *)
(* Faulty variants, defined next to what they are variants of and used     *)
(* only to show that the properties can fail: OldestFirst, KeepLargest,    *)
(* TrimSetsOnly, ValidateSyntaxOnly, ValidatePairingOnly, EveryRow,        *)
(* ByFirstSeen, ExcessButOne, AlwaysOverwrite, ResetKeepsCursor.           *)
(***************************************************************************)
EXTENDS Integers, FiniteSets, Sequences

CONSTANTS
    Fingerprints,          \* the non-empty keys clients and operators name
    Labels,                \* operator labels
    NoLabel,               \* the empty label
    Scopes,                \* well-formed approval scopes (CIDR lists)
    MalformedScope,        \* a scope approval.Scope.Validate refuses
    NoScope,               \* SQL NULL: an unrestricted approval
    IPs, Ports,            \* observed addresses and ports; 0 is "none"
    MetaSizes,             \* encoded sizes of metadata bags; 0 is "{}"
    MaxMetadataBytes,      \* limits.go
    MaxObservationValues,  \* limits.go
    MaxFingerprints,       \* Options.MaxFingerprints; 0 is unlimited
    PruneLimits,           \* arguments of PruneToLimit
    Cursors, NoCursor,     \* policy cursors; NoCursor is the absent key
    TicksPerSecond,        \* resolution of the modelled clock
    LegacyRows,            \* rows an older release may have left on disk
    MaxTime,               \* bound on the clock
    MaxCount,              \* bound on a row's sighting count
    MaxBatch               \* bound on the decisions of one batch

Statuses == {"pending", "approved", "blocked"}

Sightings == [ip : IPs, port : Ports \cup {0}, last : Nat]

\* store.Entry: one row of the fingerprints table with its history.
Entry == [status    : Statuses,
          label     : Labels \cup {NoLabel},
          first     : Nat,
          last      : Nat,
          count     : Nat,
          meta      : MetaSizes,
          scope     : Scopes \cup {NoScope},
          ips       : SUBSET IPs,
          ports     : SUBSET Ports,
          sightings : SUBSET Sightings]

\* store.Decision: as it arrives, before Validate.
Decisions == [fp     : Fingerprints,
              status : Statuses \cup {"unknown"},
              label  : Labels \cup {NoLabel},
              scope  : Scopes \cup {MalformedScope, NoScope}]

ASSUME StoreAssumption ==
    /\ IsFiniteSet(Fingerprints)
    /\ IPs \subseteq Nat \ {0} /\ Ports \subseteq Nat \ {0}
    /\ MetaSizes \subseteq Nat /\ 0 \in MetaSizes
    /\ NoScope \notin Scopes /\ MalformedScope \notin Scopes
    /\ NoScope # MalformedScope
    /\ NoCursor \notin Cursors
    /\ TicksPerSecond \in Nat \ {0}
    /\ MaxMetadataBytes \in Nat /\ MaxObservationValues \in Nat
    /\ MaxFingerprints \in Nat /\ PruneLimits \subseteq Nat
    /\ MaxTime \in Nat /\ MaxCount \in Nat /\ MaxBatch \in Nat
    /\ \A e \in LegacyRows :
           /\ e \in Entry /\ e.scope = NoScope
           /\ IsFiniteSet(e.ips) /\ IsFiniteSet(e.ports) /\ IsFiniteSet(e.sightings)

VARIABLES
    rows,     \* fingerprint -> Entry, for the fingerprints that have a row
    cursor,   \* meta row gatehub_cursor:<url, instance>
    now,      \* the wall clock, in ticks
    open      \* the store is open

vars == <<rows, cursor, now, open>>

-----------------------------------------------------------------------------
(* Helpers *)

\* A statement that inserts or overwrites the row of one fingerprint.
Put(r, fp, e) == [f \in DOMAIN r \cup {fp} |-> IF f = fp THEN e ELSE r[f]]

\* A DELETE; the history goes with the row.
Drop(r, S) == [f \in DOMAIN r \ S |-> r[f]]

\* encodeTime writes RFC3339Nano, which drops trailing zeros, and SQLite
\* compares the text: "...:05Z" sorts after "...:05.5Z".  A reading on the
\* whole second therefore sorts after every other reading of that second.
encodeTime(t) ==
    IF t % TicksPerSecond = 0 THEN t + (TicksPerSecond - 1) ELSE t - 1

\* ORDER BY last_seen DESC, ip, port.  encodeTime is injective.
OldestFirst(a, b) ==
    \/ encodeTime(a.last) < encodeTime(b.last)
    \/ /\ a.last = b.last
       /\ a.ip < b.ip \/ (a.ip = b.ip /\ a.port < b.port)
SightingBefore(a, b) ==
    \/ encodeTime(a.last) > encodeTime(b.last)
    \/ /\ a.last = b.last
       /\ a.ip < b.ip \/ (a.ip = b.ip /\ a.port < b.port)

\* The rows a LIMIT -1 OFFSET MaxObservationValues does not reach.
KeepSightings(S) ==
    {x \in S : Cardinality({y \in S : SightingBefore(y, x)}) < MaxObservationValues}

KeepLargest(S) ==
    {x \in S : Cardinality({y \in S : y > x}) < MaxObservationValues}
KeepSmallest(S) ==
    {x \in S : Cardinality({y \in S : y < x}) < MaxObservationValues}

\* What a row's history is cut down to.
TrimSetsOnly(e) == [e EXCEPT !.ips   = KeepSmallest(@),
                             !.ports = KeepSmallest(@)]
trimHistory(e) == [e EXCEPT !.sightings = KeepSightings(@),
                            !.ips       = KeepSmallest(@),
                            !.ports     = KeepSmallest(@)]

\* scanEntry fails on a scope that is not on an approval.
scanEntry(e) == e.scope # NoScope => e.status = "approved"

\* Decision.Validate
ValidateSyntaxOnly(d) ==
    /\ d.status \in Statuses
    /\ d.scope # MalformedScope
ValidatePairingOnly(d) ==
    /\ d.status \in Statuses
    /\ d.scope # NoScope => d.status = "approved"
Validate(d) ==
    /\ d.status \in Statuses
    /\ d.scope # NoScope => d.status = "approved"
    /\ d.scope # MalformedScope

Approved(r) == {f \in DOMAIN r : r[f].status = "approved"}

\* SELECT fp FROM fingerprints WHERE status != 'approved'
EveryRow(r) == DOMAIN r
PruneCandidates(r) == DOMAIN r \ Approved(r)

\* ORDER BY last_seen ASC
ByFirstSeen(e) == encodeTime(e.first)
PruneKey(e) == encodeTime(e.last)

ExcessButOne(r, max) == Cardinality(DOMAIN r) - (max + 1)
Excess(r, max) == Cardinality(DOMAIN r) - max

\* The sets of rows pruneToLimit may delete: none within the limit, otherwise
\* LIMIT excess of the candidates, in ascending order of the last_seen text.  Rows
\* seen at one instant tie.
PruneVictims(r, max) ==
    IF Excess(r, max) <= 0 THEN {{}}
    ELSE {V \in SUBSET PruneCandidates(r) :
             /\ \/ Cardinality(V) = Excess(r, max)
                \/ V = PruneCandidates(r) /\ Cardinality(V) < Excess(r, max)
             /\ \A v \in V, w \in PruneCandidates(r) \ V :
                    PruneKey(r[v]) <= PruneKey(r[w])}

-----------------------------------------------------------------------------
(* Operations *)

\* The database file was created by some release, and is not open yet.
Init ==
    /\ \E S \in SUBSET Fingerprints : rows \in [S -> LegacyRows]
    /\ cursor = NoCursor
    /\ now = 0
    /\ open = FALSE

\* time.Now is the wall clock: it advances and may be stepped back.
Clock ==
    /\ now' \in 0..MaxTime
    /\ UNCHANGED <<rows, cursor, open>>

\* Oversized metadata is discarded, oversized history trimmed.
boundExistingHistory(r) ==
    [f \in DOMAIN r |->
        trimHistory([r[f] EXCEPT !.meta = IF @ > MaxMetadataBytes THEN 0 ELSE @])]

\* Open: create or migrate the schema, then boundExistingHistory.
Open ==
    /\ ~open
    /\ open' = TRUE
    /\ rows' = boundExistingHistory(rows)
    /\ UNCHANGED <<cursor, now>>

\* Close, or the death of the process: commits are on disk already.
Close ==
    /\ open
    /\ open' = FALSE
    /\ UNCHANGED <<rows, cursor, now>>

\* The row Observe's upsert leaves for fp.
Observed(fp, ip, port, meta, blockUnknown) ==
    LET base == IF fp \in DOMAIN rows THEN rows[fp]
                ELSE [status    |-> IF blockUnknown THEN "blocked" ELSE "pending",
                      label     |-> NoLabel,
                      first     |-> now,
                      last      |-> now,
                      count     |-> 0,
                      meta      |-> 0,
                      scope     |-> NoScope,
                      ips       |-> {},
                      ports     |-> {},
                      sightings |-> {}]
    IN  [base EXCEPT
            !.last  = now,
            !.count = @ + 1,
            !.meta  = meta,
            !.ips   = @ \cup ({ip} \ {0}),
            !.ports = @ \cup ({port} \ {0}),
            !.sightings =
                IF ip = 0 THEN @
                ELSE {s \in @ : s.ip # ip \/ s.port # port}
                         \cup {[ip |-> ip, port |-> port, last |-> now]}]

\* Observe: upsert, history, trim and, for a first sighting, the row cap, in
\* one transaction.  count = 1 also holds for a placeholder's first sighting.
Observe(fp, ip, port, meta, blockUnknown) ==
    LET e == trimHistory(Observed(fp, ip, port, meta, blockUnknown))
        r == Put(rows, fp, e)
    IN  /\ open
        /\ fp \in DOMAIN rows => rows[fp].count < MaxCount
        /\ meta <= MaxMetadataBytes
        /\ scanEntry(e)
        /\ IF e.count = 1 /\ MaxFingerprints > 0
           THEN \E V \in PruneVictims(r, MaxFingerprints) : rows' = Drop(r, V)
           ELSE rows' = r
        /\ UNCHANGED <<cursor, now, open>>

\* The WHERE clause of SetStatus and UpsertStatus on an existing row.
AlwaysOverwrite(e, status) == TRUE
MayOverwrite(e, status) == e.scope = NoScope \/ status # "approved"

SetStatus(fp, status) ==
    /\ open
    /\ fp \in DOMAIN rows
    /\ MayOverwrite(rows[fp], status)
    /\ rows' = [rows EXCEPT ![fp].status = status, ![fp].scope = NoScope]
    /\ UNCHANGED <<cursor, now, open>>

\* The row an INSERT of a verdict creates for a fingerprint not seen yet.
Placeholder(status, label, scope) ==
    [status |-> status, label |-> label, first |-> now, last |-> now,
     count |-> 0, meta |-> 0, scope |-> scope,
     ips |-> {}, ports |-> {}, sightings |-> {}]

UpsertStatus(fp, status, label) ==
    /\ open
    /\ IF fp \in DOMAIN rows
       THEN /\ MayOverwrite(rows[fp], status)
            /\ rows' = [rows EXCEPT ![fp].status = status,
                                    ![fp].label  = label,
                                    ![fp].scope  = NoScope]
       ELSE rows' = Put(rows, fp, Placeholder(status, label, NoScope))
    /\ UNCHANGED <<cursor, now, open>>

SetLabel(fp, label) ==
    /\ open
    /\ fp \in DOMAIN rows
    /\ rows' = [rows EXCEPT ![fp].label = label]
    /\ UNCHANGED <<cursor, now, open>>

Delete(fp) ==
    /\ open
    /\ fp \in DOMAIN rows
    /\ rows' = Drop(rows, {fp})
    /\ UNCHANGED <<cursor, now, open>>

PruneToLimit(max) ==
    /\ open
    /\ max > 0
    /\ \E V \in PruneVictims(rows, max) : rows' = Drop(rows, V)
    /\ UNCHANGED <<cursor, now, open>>

\* The rows after a batch is applied in order: the last decision about a
\* fingerprint replaces its status, label and scope together.
Decided(batch) ==
    LET named == {batch[i].fp : i \in DOMAIN batch}
        last(f) == batch[CHOOSE i \in DOMAIN batch :
                            /\ batch[i].fp = f
                            /\ \A j \in DOMAIN batch : batch[j].fp = f => j <= i]
    IN  [f \in DOMAIN rows \cup named |->
            IF f \notin named THEN rows[f]
            ELSE IF f \in DOMAIN rows
            THEN [rows[f] EXCEPT !.status = last(f).status,
                                 !.label  = last(f).label,
                                 !.scope  = last(f).scope]
            ELSE Placeholder(last(f).status, last(f).label, last(f).scope)]

\* ApplyDecisions: the whole batch is validated before the transaction, which
\* writes the decisions and, when the hub sent one, the cursor.
ApplyDecisions(batch, c) ==
    /\ open
    /\ \A i \in DOMAIN batch : Validate(batch[i])
    /\ rows' = Decided(batch)
    /\ cursor' = IF c = NoCursor THEN cursor ELSE c
    /\ UNCHANGED <<now, open>>

\* ResetFingerprints: the rows, their history and the saved cursor go in one
\* transaction, so that the next Syncer fetches the whole policy again.
ResetKeepsCursor ==
    /\ open
    /\ rows' = Drop(rows, DOMAIN rows)
    /\ UNCHANGED <<cursor, now, open>>
ResetFingerprints ==
    /\ open
    /\ rows' = Drop(rows, DOMAIN rows)
    /\ cursor' = NoCursor
    /\ UNCHANGED <<now, open>>

-----------------------------------------------------------------------------

Batches == UNION {[1..n -> Decisions] : n \in 0..MaxBatch}

ObserveStep(fp) ==
    \E ip \in IPs \cup {0}, port \in Ports \cup {0}, meta \in MetaSizes,
       blockUnknown \in BOOLEAN : Observe(fp, ip, port, meta, blockUnknown)

ClientStep == \E fp \in Fingerprints : ObserveStep(fp)

PruneStep == \E max \in PruneLimits : PruneToLimit(max)

DecisionStep == \E batch \in Batches, c \in Cursors \cup {NoCursor} :
                    ApplyDecisions(batch, c)

OperatorStep ==
    \/ \E fp \in Fingerprints, status \in Statuses : SetStatus(fp, status)
    \/ \E fp \in Fingerprints, status \in Statuses, label \in Labels \cup {NoLabel} :
           UpsertStatus(fp, status, label)
    \/ \E fp \in Fingerprints, label \in Labels \cup {NoLabel} : SetLabel(fp, label)
    \/ \E fp \in Fingerprints : Delete(fp)
    \/ ResetFingerprints

Next ==
    \/ Clock
    \/ Open
    \/ Close
    \/ ClientStep
    \/ PruneStep
    \/ DecisionStep
    \/ OperatorStep

Spec == Init /\ [][Next]_vars
-----------------------------------------------------------------------------
(* Properties *)

\* A table of the database: some fingerprints, each with an entry.
IsTable(r) == DOMAIN r \subseteq Fingerprints /\ r \in [DOMAIN r -> Entry]

\* Every variable has its type: the only scopes stored are well-formed ones.
TypeOK ==
    /\ IsTable(rows)
    /\ cursor \in Cursors \cup {NoCursor}
    /\ now \in Nat
    /\ open \in BOOLEAN

\* Whatever sequence of decisions, status setters and sightings a row has been
\* through, scanEntry can read it back.  One row it refuses makes List and
\* ListPage fail as a whole, and observation upload stops for every fingerprint.
EveryRowReadable == \A f \in DOMAIN rows : scanEntry(rows[f])

\* While the store is open every row respects the bounds of limits.go, the rows
\* an older release left unbounded included.
HistoryBounded ==
    open => \A f \in DOMAIN rows :
                /\ Cardinality(rows[f].ips) <= MaxObservationValues
                /\ Cardinality(rows[f].ports) <= MaxObservationValues
                /\ Cardinality(rows[f].sightings) <= MaxObservationValues
                /\ rows[f].meta <= MaxMetadataBytes

Verdict(e) == <<e.status, e.label, e.scope>>

VerdictsPreserved ==
    /\ Approved(rows) \subseteq DOMAIN rows'
    /\ \A f \in DOMAIN rows \cap DOMAIN rows' :
           /\ Verdict(rows'[f]) = Verdict(rows[f])
           /\ rows'[f].first = rows[f].first

\* Sightings, the row cap, periodic pruning and reopening the database preserve
\* every verdict that survives, and every approval survives: no traffic pattern
\* turns an approval, its label or its restriction into something else.
TrafficPreservesVerdicts ==
    [][~VerdictsPreserved => ~(ClientStep \/ PruneStep \/ Open \/ Close)]_vars

ScopesPreserved ==
    \A f \in Approved(rows) \cap Approved(rows') : rows'[f].scope = rows[f].scope

\* The operations that cannot express a scope never change one on an approval
\* that stays: a restricted approval is neither broadened nor narrowed by the
\* status setters, SetLabel, Delete or ResetFingerprints.
OnlyDecisionsRescope == [][~ScopesPreserved => ~OperatorStep]_vars

\* When a client nobody decided about gets a row, the table is within the cap
\* afterwards, however far decisions had taken it beyond the cap before.
NewcomersWithinCap ==
    [][(/\ MaxFingerprints > 0
        /\ \E f \in DOMAIN rows' \ DOMAIN rows : rows'[f].count > 0)
           => Cardinality(DOMAIN rows') <= MaxFingerprints]_vars

\* The store implements Verdicts.  However a transaction evicts, upserts, trims or
\* wipes, its rows change the way one act of traffic, of whoever decides, or one
\* reset may: an approval goes only by an operator's Delete, alone, or with the
\* whole table, and then the saved cursor goes in the same step, so that the hub's
\* verdicts come again.
Promise == INSTANCE Verdicts WITH
    verdicts <- [f \in DOMAIN rows |-> [status |-> rows[f].status,
                                       label  |-> rows[f].label,
                                       scope  |-> rows[f].scope]]

KeepsPromise == Promise!Spec

Second(t) == t \div TicksPerSecond

\* No row that was evicted, seen[f] being when f was last seen, is more recent
\* than a non-approved row that stays, in the unit of time T.
EvictedInOrder(seen, T(_)) ==
    \A v \in DOMAIN seen \ DOMAIN rows', w \in DOMAIN rows' \ Approved(rows') :
        T(seen[v]) <= T(rows'[w].last)

LastSeen == [f \in DOMAIN rows |-> rows[f].last]

\* Eviction follows last_seen to the second, the row of the client being observed
\* included: it may be evicted in the transaction that recorded it, but only for
\* rows last seen in the same second or later.
EvictsOldestSecond ==
    [][/\ ~EvictedInOrder(LastSeen, Second) => ~PruneStep
       /\ \A fp \in Fingerprints :
              ~EvictedInOrder(Put(LastSeen, fp, now), Second) => ~ObserveStep(fp)]_vars

\* Trimming follows recency to the second, after a sighting and at Open: a
\* sighting that a row loses is not more recent, in whole seconds, than one the
\* row keeps.
TrimKeepsRecentSecond ==
    [][\A f \in DOMAIN rows \cap DOMAIN rows' :
          \A s \in rows[f].sightings, t \in rows'[f].sightings :
              (\A u \in rows'[f].sightings : u.ip # s.ip \/ u.port # s.port)
                  => Second(s.last) <= Second(t.last)]_vars

\* PruneToLimit's comment: it "deletes the oldest non-approved entries (by
\* last_seen)".  Fails where the last_seen texts do not sort as the times do.
EvictsOldest == [][~EvictedInOrder(LastSeen, LAMBDA t : t) => ~PruneStep]_vars
=============================================================================
