------------------------------ MODULE PushSync ------------------------------
(***************************************************************************)
(* The observation half of the control-plane Syncer: pushObservations      *)
(* walks the store page by page while other goroutines write to it, and    *)
(* uploads what the hub has not acknowledged.                              *)
(*                                                                         *)
(* An observation is what toObservation builds from one entry: a part read *)
(* from the fingerprints row and a part read from the history tables.      *)
(* ListPage reads them in separate queries on the read pool, so the two    *)
(* may come from different moments.  A content hash is the content itself  *)
(* (SHA-256 is taken as injective).  Fingerprints are numbered in the      *)
(* order of their text.                                                    *)
(*                                                                         *)
(* Faulty variants, defined next to what they are variants of and used     *)
(* only to show that the properties can fail: RemoveRowOnly, OffsetPage,   *)
(* ChangedIgnoringHistory, UnknownOnly, ReturnAlwaysDone.                  *)
(***************************************************************************)
EXTENDS Naturals, FiniteSets

CONSTANTS
    LastFp,         \* the fingerprints are 1..LastFp
    PageSize,       \* 16 in pushObservations
    Recurs,         \* a verdict may return to an earlier value
    HubFaults,      \* the hub may commit a request late, or be restored
    MaxSightings,   \* bound on sightings and placeholders
    MaxDecisions,   \* bound on verdict changes
    MaxFaults       \* bound on restarts, hub restores and lost requests

Fps == 1..LastFp

ASSUME PushAssumption ==
    /\ LastFp \in Nat /\ PageSize \in Nat \ {0}
    /\ Recurs \in BOOLEAN /\ HubFaults \in BOOLEAN
    /\ MaxSightings \in Nat /\ MaxDecisions \in Nat /\ MaxFaults \in Nat

VARIABLES
    rows,        \* store: fp -> the part of the entry in the fingerprints row
    hist,        \* store: fp -> the latest sighting that changed the history tables
    clock,       \* store: timestamps taken so far; every sighting has its own
    decisions,   \* store: verdict changes so far
    hub,         \* hub: fp -> the observation it holds
    late,        \* hub: requests given up on that it may still commit
    rewritten,   \* hub: has lost or overwritten what it acknowledged
    pc,          \* where pushObservations is
    ack,         \* Syncer.acknowledged
    fullDue,     \* lastFullSync is zero or older than FullSyncInterval
    full,        \* locals of pushObservations ...
    seen,        \* ... (seen with what was read of each entry) ...
    sent,
    after,
    through,
    page,        \* ... the entries of the current page, as far as read
    batch,       \* ... and the observations to upload
    faults,
    stable,      \* history: the rows there since this push began
    uploaded     \* history: the rows the hub accepted in this push

storeVars == <<rows, hist, clock, decisions>>
localVars == <<full, seen, sent, after, through, page, batch, stable, uploaded>>
hubVars == <<hub, late, rewritten>>
vars == <<storeVars, hubVars, pc, ack, fullDue, localVars, faults>>

Rows == [at : 1..MaxSightings, verdict : 0..MaxDecisions]
Observations == [row : Rows, hist : 0..MaxSightings]

\* t is a partial function from Fps to S.
IsTable(t, S) == DOMAIN t \subseteq Fps /\ t \in [DOMAIN t -> S]

Overwrite(t, u) == [f \in DOMAIN t \cup DOMAIN u |-> IF f \in DOMAIN u THEN u[f] ELSE t[f]]
Keep(t, D) == [f \in DOMAIN t \cap D |-> t[f]]
Empty == [f \in {} |-> 0]

Largest(S) == CHOOSE x \in S : \A y \in S : y <= x

-----------------------------------------------------------------------------
(* The store's writers *)

\* A sighting refreshes the row.  Without an IP and a port, or with just a known
\* port, it leaves the history tables as they are.
Observe(f) ==
    /\ clock < MaxSightings
    /\ clock' = clock + 1
    /\ rows' = Overwrite(rows, [g \in {f} |->
                   [at      |-> clock + 1,
                    verdict |-> IF f \in DOMAIN rows THEN rows[f].verdict ELSE 0]])
    /\ \/ hist' = Overwrite(hist, [g \in {f} |-> clock + 1])
       \/ UNCHANGED hist
    /\ UNCHANGED <<decisions, hubVars, pc, ack, fullDue, localVars, faults>>

\* A verdict for a fingerprint never seen (UpsertStatus, ApplyDecisions): a row
\* with the time of its creation and without a history.
Placeholder(f) ==
    /\ clock < MaxSightings /\ decisions < MaxDecisions
    /\ f \notin DOMAIN rows
    /\ clock' = clock + 1
    /\ decisions' = decisions + 1
    /\ rows' = Overwrite(rows, [g \in {f} |->
                   [at |-> clock + 1, verdict |-> IF Recurs THEN 1 ELSE decisions + 1]])
    /\ UNCHANGED <<hist, hubVars, pc, ack, fullDue, localVars, faults>>

\* A decision or an operator changes the verdict of a row, to a new value or,
\* where verdicts recur, back and forth between two.
Decide(f) ==
    /\ decisions < MaxDecisions
    /\ f \in DOMAIN rows
    /\ decisions' = decisions + 1
    /\ rows' = [rows EXCEPT ![f].verdict = IF Recurs THEN 1 - @ ELSE decisions + 1]
    /\ UNCHANGED <<hist, clock, hubVars, pc, ack, fullDue, localVars, faults>>

\* Delete or eviction; the history cascades.
RemoveRowOnly(f) ==
    /\ f \in DOMAIN rows
    /\ rows' = Keep(rows, Fps \ {f})
    /\ stable' = stable \ {f}
    /\ UNCHANGED <<hist, clock, decisions, hubVars, pc, ack, fullDue, faults, full, seen,
                   sent, after, through, page, batch, uploaded>>
Remove(f) ==
    /\ f \in DOMAIN rows
    /\ rows' = Keep(rows, Fps \ {f})
    /\ hist' = Keep(hist, Fps \ {f})
    /\ stable' = stable \ {f}
    /\ UNCHANGED <<clock, decisions, hubVars, pc, ack, fullDue, faults, full, seen, sent,
                   after, through, page, batch, uploaded>>

-----------------------------------------------------------------------------
(* pushObservations *)

\* The locals are gone.
Leave ==
    /\ pc' = "idle"
    /\ full' = FALSE /\ seen' = Empty /\ sent' = FALSE /\ after' = 0 /\ through' = 0
    /\ page' = Empty /\ batch' = Empty /\ stable' = {} /\ uploaded' = {}

\* pushObservations returns; complete tells whether it got to its end, where a
\* full snapshot sets lastFullSync.
ReturnAlwaysDone(complete) ==
    /\ Leave
    /\ fullDue' = (fullDue /\ ~full)
Return(complete) ==
    /\ Leave
    /\ fullDue' = (fullDue /\ ~(full /\ complete))

\* Lock, decide whether this push is a full snapshot, fix its upper bound.
Begin ==
    /\ pc = "idle"
    /\ pc' = "page"
    /\ full' = fullDue
    /\ seen' = Empty /\ sent' = FALSE
    /\ after' = 0
    /\ through' = IF rows = Empty THEN 0 ELSE Largest(DOMAIN rows)
    /\ page' = Empty /\ batch' = Empty
    /\ stable' = DOMAIN rows /\ uploaded' = {}
    /\ UNCHANGED <<storeVars, hubVars, ack, fullDue, faults>>

\* SELECT ... WHERE fp > after AND fp <= through ORDER BY fp LIMIT PageSize.
OffsetPage(a) ==
    LET left == {f \in DOMAIN rows : f <= through}
    IN  {f \in left : Cardinality({g \in left : g < f}) \in 
                       Cardinality(DOMAIN seen)..(Cardinality(DOMAIN seen) + PageSize - 1)}
NextPage(a) ==
    LET left == {f \in DOMAIN rows : a < f /\ f <= through}
    IN  {f \in left : Cardinality({g \in left : g < f}) < PageSize}

\* ListPage's first query.
ReadRows ==
    /\ pc = "page"
    /\ page' = Keep(rows, NextPage(after))
    /\ pc' = IF NextPage(after) = {} THEN "finish" ELSE "history"
    /\ UNCHANGED <<storeVars, hubVars, ack, fullDue, full, seen, sent, after, through,
                   batch, faults, stable, uploaded>>

\* What the history queries return for f; 0 when they find nothing.
History(f) == IF f \in DOMAIN hist THEN hist[f] ELSE 0

\* The observations of a page: a row deleted since has an empty history.
PageObservations == [f \in DOMAIN page |-> [row |-> page[f], hist |-> History(f)]]

\* The uploads a page calls for.
ChangedIgnoringHistory(obs) ==
    {f \in DOMAIN obs : full \/ f \notin DOMAIN ack \/ ack[f].row # obs[f].row}
UnknownOnly(obs) == {f \in DOMAIN obs : f \notin DOMAIN ack \/ ack[f] # obs[f]}
Changed(obs) ==
    {f \in DOMAIN obs : full \/ f \notin DOMAIN ack \/ ack[f] # obs[f]}

\* ListPage's other queries, and the batch built from the page.
ReadHistory ==
    /\ pc = "history"
    /\ seen' = Overwrite(seen, PageObservations)
    /\ batch' = Keep(PageObservations, Changed(PageObservations))
    /\ IF Changed(PageObservations) = {}
       THEN pc' = "page" /\ after' = Largest(DOMAIN page) /\ page' = Empty
       ELSE pc' = "send" /\ UNCHANGED <<after, page>>
    /\ UNCHANGED <<storeVars, hubVars, ack, fullDue, full, sent, through, faults,
                   stable, uploaded>>

\* pushBatch got a 2xx answer: only now does the cache learn the hashes.
Accepted ==
    /\ pc = "send"
    /\ hub' = Overwrite(hub, batch)
    /\ ack' = Overwrite(ack, batch)
    /\ sent' = TRUE
    /\ after' = Largest(DOMAIN page)
    /\ uploaded' = uploaded \cup DOMAIN batch
    /\ pc' = "page" /\ page' = Empty /\ batch' = Empty
    /\ UNCHANGED <<storeVars, late, rewritten, fullDue, full, seen, through, faults, stable>>

\* pushBatch failed and pushObservations returned the error.  The request never
\* arrived or was refused, or the hub committed it and the answer was lost, or
\* the hub will commit it after the client has given up.
Failed ==
    /\ pc = "send"
    /\ faults < MaxFaults
    /\ faults' = faults + 1
    /\ \/ UNCHANGED <<hub, late>>
       \/ hub' = Overwrite(hub, batch) /\ UNCHANGED late
       \/ HubFaults /\ late' = late \cup {batch} /\ UNCHANGED hub
    /\ Return(FALSE)
    /\ UNCHANGED <<storeVars, ack, rewritten>>

LateCommit ==
    \E b \in late :
        /\ hub' = Overwrite(hub, b)
        /\ late' = late \ {b}
        /\ rewritten' = TRUE
        /\ UNCHANGED <<storeVars, pc, ack, fullDue, localVars, faults>>

\* The last page is behind: a heartbeat unless something was sent, then the
\* cache forgets the rows that are gone, and a full snapshot counts as done.
Finish ==
    /\ pc = "finish"
    /\ ack' = Keep(ack, DOMAIN seen)
    /\ Return(TRUE)
    /\ UNCHANGED <<storeVars, hubVars, faults>>

HeartbeatFailed ==
    /\ pc = "finish"
    /\ ~sent
    /\ faults < MaxFaults
    /\ faults' = faults + 1
    /\ Return(FALSE)
    /\ UNCHANGED <<storeVars, hubVars, ack>>

\* A store error, or ctx.Err() at the head of the loop, ends the push early.
Abandon ==
    /\ pc \in {"page", "history"}
    /\ faults < MaxFaults
    /\ faults' = faults + 1
    /\ Return(FALSE)
    /\ UNCHANGED <<storeVars, hubVars, ack>>

\* FullSyncInterval has passed since the last full snapshot began.
FullSyncTimer ==
    /\ ~fullDue
    /\ fullDue' = TRUE
    /\ UNCHANGED <<storeVars, hubVars, pc, ack, localVars, faults>>

\* The gate restarts: acknowledged is nil and lastFullSync zero again.
Restart ==
    /\ faults < MaxFaults
    /\ faults' = faults + 1
    /\ Leave
    /\ ack' = Empty
    /\ fullDue' = TRUE
    /\ UNCHANGED <<storeVars, hubVars>>

\* The hub is restored from a backup taken before it knew some of the rows.
HubRestore ==
    /\ HubFaults
    /\ faults < MaxFaults
    /\ faults' = faults + 1
    /\ \E D \in SUBSET DOMAIN hub : D # DOMAIN hub /\ hub' = Keep(hub, D)
    /\ rewritten' = TRUE
    /\ UNCHANGED <<storeVars, late, pc, ack, fullDue, localVars>>

-----------------------------------------------------------------------------

Init ==
    /\ rows = Empty /\ hist = Empty /\ clock = 0 /\ decisions = 0
    /\ hub = Empty /\ late = {} /\ rewritten = FALSE
    /\ pc = "idle" /\ ack = Empty /\ fullDue = TRUE
    /\ full = FALSE /\ seen = Empty /\ sent = FALSE /\ after = 0 /\ through = 0
    /\ page = Empty /\ batch = Empty /\ stable = {} /\ uploaded = {}
    /\ faults = 0

StoreStep == \E f \in Fps : Observe(f) \/ Placeholder(f) \/ Decide(f) \/ Remove(f)

PushStep == Begin \/ ReadRows \/ ReadHistory \/ Accepted \/ Failed \/ Finish \/ HeartbeatFailed

Next == \/ StoreStep \/ PushStep \/ Abandon
        \/ FullSyncTimer \/ Restart \/ HubRestore \/ LateCommit

Spec == Init /\ [][Next]_vars

\* Run pushes at every tick and a push never blocks for ever (the client has a
\* timeout); the full-sync interval keeps elapsing.  Faults are finitely many.
LiveSpec == Spec /\ WF_vars(PushStep) /\ WF_vars(FullSyncTimer) /\ WF_vars(LateCommit)

-----------------------------------------------------------------------------
(* Properties *)

\* Every variable has its type, and no history outlives its row (the tables'
\* ON DELETE CASCADE): a row created anew never shows the addresses of the row
\* deleted before it.  A row may be without history.
TypeOK ==
    /\ IsTable(rows, Rows) /\ IsTable(hist, 1..MaxSightings)
    /\ DOMAIN hist \subseteq DOMAIN rows
    /\ IsTable(hub, Observations) /\ IsTable(ack, Observations)
    /\ pc \in {"idle", "page", "history", "send", "finish"}
    /\ IsTable(page, Rows) /\ IsTable(batch, Observations)
    /\ {fullDue, full, sent, rewritten} \subseteq BOOLEAN
    /\ IsTable(seen, Observations) /\ {after, through} \subseteq 0..LastFp

\* Every row that was in the store throughout a push has been read by it, however
\* many rows were inserted and deleted around the page boundary meanwhile.
PagesCoverStableRows == pc = "finish" => stable \subseteq DOMAIN seen

\* When a push has read its last page, the hub holds exactly what the push read
\* of every row, whether it was uploaded now or suppressed as acknowledged, as
\* long as the hub itself has not lost or rewritten data: requests that failed
\* are made up for, "even if the server committed before the response failed",
\* and torn reads of a page do no lasting harm.
SuppressedIsHeld ==
    (pc = "finish" /\ ~rewritten) =>
        \A f \in DOMAIN seen : f \in DOMAIN hub /\ hub[f] = seen[f]

\* A full snapshot counts as done only when the hub has accepted every row that
\* was there throughout, in that push: a snapshot that failed half way is due
\* again, since the hub may have lost any part of what it acknowledged before.
SnapshotComplete == [][(fullDue /\ ~fullDue') => stable \subseteq uploaded]_vars

\* Once writers and faults come to rest, the hub's observation of every stored
\* row becomes and stays the store's, whatever restores, restarts, lost answers
\* and late commits preceded.
HubCatchesUp ==
    <>[](\A f \in DOMAIN rows :
            f \in DOMAIN hub /\ hub[f] = [row |-> rows[f], hist |-> History(f)])
=============================================================================
