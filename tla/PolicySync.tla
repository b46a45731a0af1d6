----------------------------- MODULE PolicySync -----------------------------
(***************************************************************************)
(* The policy half of the control-plane Syncer (package controlplane):     *)
(* every gate process pulls the hub's decisions since its cursor and       *)
(* applies them to the shared database.                                    *)
(*                                                                         *)
(* The hub is not part of the repository.  Its policy is a log of          *)
(* decisions and a cursor is a position in it: GET /v1/policy?since=c      *)
(* answers with the decisions after c and the new cursor, which is how     *)
(* pullPolicy uses the answer.  A pull that fails before it changes        *)
(* anything (network, HTTP status, decoding) is a stuttering step.         *)
(*                                                                         *)
(* Faulty variants, defined next to what they are variants of and used     *)
(* only to show that the properties can fail: AcceptsUnsupported,          *)
(* AcceptsMalformed, CursorOnly, CommitErrorIgnored, ResetRowsOnly.        *)
(***************************************************************************)
EXTENDS Naturals, Sequences

CONSTANTS
    Fingerprints,
    Procs,                    \* gate processes that share the database file
    SupportsApprovalRanges,   \* Config.SupportsApprovalRanges
    Decidable,                \* the verdicts the hub may publish
    SendsCursor,              \* whether answers carry a cursor: a set of BOOLEANs
    Overlap,                  \* two processes may sync at once (an upgrade)
    ResetWhileSyncing,        \* ResetFingerprints may run under a Syncer
    MaxLog, MaxRanges,        \* bounds on what the hub publishes
    MaxFaults                 \* bound on crashes and power losses

\* The verdicts a decision or a row can carry.  "restricted" is an approval
\* with a scope; "malformed" is a decision Validate refuses.
HubVerdicts == {"pending", "approved", "restricted", "blocked", "malformed"}
RowVerdicts == (HubVerdicts \ {"malformed"}) \cup {"absent"}

Positions == 0..MaxLog

ASSUME PolicyAssumption ==
    /\ Decidable \subseteq HubVerdicts
    /\ SendsCursor \subseteq BOOLEAN
    /\ SupportsApprovalRanges \in BOOLEAN
    /\ Overlap \in BOOLEAN /\ ResetWhileSyncing \in BOOLEAN
    /\ MaxLog \in Nat /\ MaxRanges \in Nat \ {0} /\ MaxFaults \in Nat

VARIABLES
    log,       \* hub: the decisions it has taken, in order
    ranges,    \* hub: version of the trusted ranges it publishes
    db,        \* the database: verdict per fingerprint, and the saved cursor
    durable,   \* the database a power loss falls back to
    pc,        \* per process: where its pull is
    mem,       \* Syncer.cursor
    resp,      \* the policyResponse being applied
    trusted,   \* version the ApplyTrustedRanges callback was last given
    faults     \* faults so far

vars == <<log, ranges, db, durable, pc, mem, resp, trusted, faults>>

Databases == [verdict : [Fingerprints -> RowVerdicts], cursor : Positions]

\* cursor 0 and ranges 0 stand for fields the hub left out of the answer.
Responses == [from : Positions, to : Positions, cursor : Positions, ranges : 0..MaxRanges]

EmptyDatabase == [verdict |-> [f \in Fingerprints |-> "absent"], cursor |-> 0]
NoResponse == [from |-> 0, to |-> 0, cursor |-> 0, ranges |-> 0]

-----------------------------------------------------------------------------
(* What the log says *)

\* The log positions in i+1..j that decide about f.
DecidedAt(f, i, j) == {k \in (i + 1)..j : log[k].fp = f}

\* The verdict of the last decision about f up to position k.
Latest(f, k) ==
    LET at == DecidedAt(f, 0, k)
    IN  IF at = {} THEN "absent"
        ELSE log[CHOOSE m \in at : \A n \in at : n <= m].verdict

\* A row that agrees with a verdict.  An approval is exact.  Rows that are not
\* approvals may be evicted at the row cap and come back as pending.
Agrees(v, verdict) ==
    IF verdict \in {"approved", "restricted"} THEN v = verdict
    ELSE v \in {verdict, "pending", "absent"}

\* The checks pullPolicy makes on every decision of an answer before it
\* changes anything.
AcceptsUnsupported(r) ==
    \A k \in (r.from + 1)..r.to : log[k].verdict # "malformed"
AcceptsMalformed(r) ==
    \A k \in (r.from + 1)..r.to : log[k].verdict = "restricted" => SupportsApprovalRanges
Acceptable(r) ==
    \A k \in (r.from + 1)..r.to :
        /\ log[k].verdict # "malformed"
        /\ log[k].verdict = "restricted" => SupportsApprovalRanges

\* ApplyDecisions: the decisions in order, and the cursor if there is one, in
\* one transaction.
CursorOnly(d, r) == [d EXCEPT !.cursor = IF r.cursor = 0 THEN @ ELSE r.cursor]
ApplyDecisions(d, r) ==
    [verdict |-> [f \in Fingerprints |->
                     IF DecidedAt(f, r.from, r.to) = {} THEN d.verdict[f]
                     ELSE Latest(f, r.to)],
     cursor  |-> IF r.cursor = 0 THEN d.cursor ELSE r.cursor]

-----------------------------------------------------------------------------

Init ==
    /\ log = <<>>
    /\ ranges = 1
    /\ db = EmptyDatabase
    /\ durable = EmptyDatabase
    /\ pc = [p \in Procs |-> "down"]
    /\ mem = [p \in Procs |-> 0]
    /\ resp = [p \in Procs |-> NoResponse]
    /\ trusted = [p \in Procs |-> 0]
    /\ faults = 0

\* The operator decides in the hub.
HubDecide(f, v) ==
    /\ Len(log) < MaxLog
    /\ log' = Append(log, [fp |-> f, verdict |-> v])
    /\ UNCHANGED <<ranges, db, durable, pc, mem, resp, trusted, faults>>

HubSetRanges ==
    /\ ranges < MaxRanges
    /\ ranges' = ranges + 1
    /\ UNCHANGED <<log, db, durable, pc, mem, resp, trusted, faults>>

\* New: the Syncer starts from the cursor the database holds.
New(p) ==
    /\ pc[p] = "down"
    /\ Overlap \/ \A q \in Procs : pc[q] = "down"
    /\ pc' = [pc EXCEPT ![p] = "idle"]
    /\ mem' = [mem EXCEPT ![p] = db.cursor]
    /\ UNCHANGED <<log, ranges, db, durable, resp, trusted, faults>>

\* pullPolicy gets an answer.  An older hub leaves out the trusted ranges; the
\* cursor may be left out too.
Pull(p, withCursor, withRanges) ==
    /\ pc[p] = "idle"
    /\ resp' = [resp EXCEPT ![p] =
                   [from   |-> mem[p],
                    to     |-> Len(log),
                    cursor |-> IF withCursor THEN Len(log) ELSE 0,
                    ranges |-> IF withRanges THEN ranges ELSE 0]]
    /\ pc' = [pc EXCEPT ![p] = "answered"]
    /\ UNCHANGED <<log, ranges, db, durable, mem, trusted, faults>>

\* The pull ends in an error and leaves the rest to the next one.
GiveUp(p) ==
    /\ pc' = [pc EXCEPT ![p] = "idle"]
    /\ resp' = [resp EXCEPT ![p] = NoResponse]
    /\ UNCHANGED <<log, ranges, db, durable, mem, trusted, faults>>

\* One invalid or unsupported decision rejects the whole answer; the callback
\* is the next thing that can fail.
Reject(p) ==
    /\ pc[p] = "answered"
    /\ ~Acceptable(resp[p])
    /\ GiveUp(p)

TrustedRangesFail(p) ==
    /\ pc[p] = "answered"
    /\ Acceptable(resp[p])
    /\ resp[p].ranges # 0
    /\ GiveUp(p)

\* The callback updates the ranges in memory, before the transaction.
ApplyTrustedRanges(p) ==
    /\ pc[p] = "answered"
    /\ Acceptable(resp[p])
    /\ trusted' = [trusted EXCEPT ![p] = IF resp[p].ranges = 0 THEN @ ELSE resp[p].ranges]
    /\ pc' = [pc EXCEPT ![p] = "apply"]
    /\ UNCHANGED <<log, ranges, db, durable, mem, resp, faults>>

CommitErrorIgnored(p) ==
    /\ pc[p] = "apply"
    /\ pc' = [pc EXCEPT ![p] = "committed"]
    /\ UNCHANGED <<log, ranges, db, durable, mem, resp, trusted, faults>>
CommitFail(p) ==
    /\ pc[p] = "apply"
    /\ GiveUp(p)

Commit(p) ==
    /\ pc[p] = "apply"
    /\ db' = ApplyDecisions(db, resp[p])
    /\ pc' = [pc EXCEPT ![p] = "committed"]
    /\ UNCHANGED <<log, ranges, durable, mem, resp, trusted, faults>>

\* s.cursor follows the database, and the pull is over.
Advance(p) ==
    /\ pc[p] = "committed"
    /\ mem' = [mem EXCEPT ![p] = IF resp[p].cursor = 0 THEN @ ELSE resp[p].cursor]
    /\ pc' = [pc EXCEPT ![p] = "idle"]
    /\ resp' = [resp EXCEPT ![p] = NoResponse]
    /\ UNCHANGED <<log, ranges, db, durable, trusted, faults>>

\* A process stops or dies anywhere in a pull: the database is all that stays.
Crash(p) ==
    /\ pc[p] # "down"
    /\ faults < MaxFaults
    /\ faults' = faults + 1
    /\ pc' = [pc EXCEPT ![p] = "down"]
    /\ mem' = [mem EXCEPT ![p] = 0]
    /\ resp' = [resp EXCEPT ![p] = NoResponse]
    /\ trusted' = [trusted EXCEPT ![p] = 0]
    /\ UNCHANGED <<log, ranges, db, durable>>

\* The database is opened in WAL mode with synchronous=NORMAL: commits since
\* the last checkpoint can be lost with the machine, though never torn.
Checkpoint ==
    /\ durable # db
    /\ durable' = db
    /\ UNCHANGED <<log, ranges, db, pc, mem, resp, trusted, faults>>

PowerLoss ==
    /\ faults < MaxFaults
    /\ faults' = faults + 1
    /\ db' = durable
    /\ pc' = [p \in Procs |-> "down"]
    /\ mem' = [p \in Procs |-> 0]
    /\ resp' = [p \in Procs |-> NoResponse]
    /\ trusted' = [p \in Procs |-> 0]
    /\ UNCHANGED <<log, ranges, durable>>

\* The store's other writers: a first sighting, and eviction at the row cap.
\* "pending" is the status of an undecided row, "blocked" in a gate that blocks
\* unknown clients.
ObserveUnknown(f) ==
    /\ db.verdict[f] = "absent"
    /\ db' = [db EXCEPT !.verdict[f] = "pending"]
    /\ UNCHANGED <<log, ranges, durable, pc, mem, resp, trusted, faults>>

Evict(f) ==
    /\ db.verdict[f] \in {"pending", "blocked"}
    /\ db' = [db EXCEPT !.verdict[f] = "absent"]
    /\ UNCHANGED <<log, ranges, durable, pc, mem, resp, trusted, faults>>

\* Store.ResetFingerprints clears the rows and the cursor together.
ResetRowsOnly(d) == [d EXCEPT !.verdict = [f \in Fingerprints |-> "absent"]]
ResetDatabase(d) == EmptyDatabase

ResetFingerprints ==
    /\ ResetWhileSyncing \/ \A p \in Procs : pc[p] = "down"
    /\ db' = ResetDatabase(db)
    /\ UNCHANGED <<log, ranges, durable, pc, mem, resp, trusted, faults>>

-----------------------------------------------------------------------------

PullStep(p) ==
    \/ \E withCursor \in SendsCursor, withRanges \in BOOLEAN : Pull(p, withCursor, withRanges)
    \/ Reject(p) \/ TrustedRangesFail(p) \/ ApplyTrustedRanges(p)
    \/ CommitFail(p) \/ Commit(p) \/ Advance(p)

Next ==
    \/ \E f \in Fingerprints, v \in Decidable : HubDecide(f, v)
    \/ HubSetRanges
    \/ \E p \in Procs : New(p) \/ PullStep(p) \/ Crash(p)
    \/ Checkpoint
    \/ PowerLoss
    \/ \E f \in Fingerprints : ObserveUnknown(f) \/ Evict(f)
    \/ ResetFingerprints

Spec == Init /\ [][Next]_vars

\* A gate is restarted and its Syncer keeps pulling: Run pulls at every tick and
\* pullPolicy does not block for ever (the client has a timeout).  The callback
\* and the database may fail again and again but not every time, and the hub does
\* send its trusted ranges again and again.
Fairness ==
    \A p \in Procs :
        /\ WF_vars(New(p))
        /\ WF_vars(PullStep(p))
        /\ SF_vars(\E c \in SendsCursor : Pull(p, c, TRUE))
        /\ SF_vars(ApplyTrustedRanges(p) /\ resp[p].ranges # 0)
        /\ SF_vars(Commit(p))

LiveSpec == Spec /\ Fairness

-----------------------------------------------------------------------------
(* Properties *)

\* Every variable has its type: a malformed decision never reaches a row, and no
\* cursor, in memory or saved, points past the end of the hub's log.
TypeOK ==
    /\ log \in Seq([fp : Fingerprints, verdict : Decidable]) /\ Len(log) <= MaxLog
    /\ ranges \in 1..MaxRanges
    /\ db \in Databases /\ durable \in Databases
    /\ pc \in [Procs -> {"down", "idle", "answered", "apply", "committed"}]
    /\ mem \in [Procs -> Positions]
    /\ resp \in [Procs -> Responses]
    /\ trusted \in [Procs -> 0..MaxRanges]
    /\ faults \in 0..MaxFaults

\* The saved cursor never claims more than the rows hold: every fingerprint has
\* the verdict the log gave it at the cursor or at some later position.  A
\* decision is never skipped and never undone by an older one, whatever crashes,
\* power losses, failed transactions, evictions and resets come between.
PolicyInForce ==
    \A f \in Fingerprints : \E k \in db.cursor..Len(log) :
        Agrees(db.verdict[f], Latest(f, k))

\* A Syncer that is about to pull never asks for less than the database lacks.
MemoryNotAhead == \A p \in Procs : pc[p] # "down" => mem[p] <= db.cursor

\* A gate that does not enforce scopes never stores a restricted approval, not
\* even as part of a batch whose other decisions it understands.
NoUnsupportedScope ==
    ~SupportsApprovalRanges => \A f \in Fingerprints : db.verdict[f] # "restricted"

\* Once the hub and the faults come to rest, the gate's rows and its trusted
\* ranges agree with the hub's for ever, unless the hub has published a decision
\* that this gate refuses: such a decision holds up everything behind it.
Converges ==
    <>[](Acceptable([NoResponse EXCEPT !.to = Len(log)]) =>
            /\ \A f \in Fingerprints : Agrees(db.verdict[f], Latest(f, Len(log)))
            /\ \E p \in Procs : trusted[p] = ranges)
=============================================================================
