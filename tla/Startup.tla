------------------------------ MODULE Startup ------------------------------
(***************************************************************************)
(* What a gate does to its database before it serves: store.Open with its  *)
(* one-time fold of legacy columns into the metadata bag (migrateLegacy,   *)
(* boundExistingHistory), then ReconcileFingerprintMethod.  Two processes  *)
(* of one gate share the file, as during an upgrade: one may still record  *)
(* sightings while the other starts.                                       *)
(*                                                                         *)
(* Reads go through the read pool and writes are transactions, so every    *)
(* read and every write below is a step of its own, and a process may die  *)
(* between any two.  A database error makes the process give up, which     *)
(* leaves the same database as its death.                                  *)
(*                                                                         *)
(* A row is keyed by the fingerprint method and the client it was computed *)
(* from; rows older than the record of the method are keyed by NoMethod.   *)
(* Of its metadata bag the model keeps which sighting wrote it and whether *)
(* it has the key the legacy column maps to.                               *)
(*                                                                         *)
(* Faulty variants, defined next to what they are variants of and used     *)
(* only to show that the properties can fail: FoldOver, ReadRowsMarks,     *)
(* AdoptsAnyway, ForgetsMethod.                                            *)
(***************************************************************************)
EXTENDS Integers, FiniteSets

CONSTANTS
    Procs,
    Clients,
    Methods, NoMethod,   \* fingerprint methods; NoMethod is the absent key
    Kind,                \* how the legacy column is decoded
    MaxVersion,          \* bound on the sightings
    MaxStarts            \* bound on the starts of a process

ASSUME StartupAssumption ==
    /\ Methods # {} /\ NoMethod \notin Methods
    /\ Kind \in {"string", "bool", "json"}
    /\ MaxVersion \in Nat /\ MaxStarts \in Nat

\* The text of the legacy column: SQL NULL, "", a value, text that is no JSON,
\* or a value that takes the bag over MaxMetadataBytes.
Raw == {"null", "empty", "value", "text", "huge"}

Fps == [method : Methods \cup {NoMethod}, client : Clients]

\* A bag: the sighting that wrote it (0 when none has), and its key, which is
\* absent, folded from the column, or written by the sighting.
Bags == [at : Nat, key : {"absent", "folded", "sighted"}]
EmptyBag == [at |-> 0, key |-> "absent"]

Rows == [bag : Bags, raw : Raw]
Confs == [method : Methods, reset : BOOLEAN, legacy : BOOLEAN]

VARIABLES
    rows,       \* the fingerprints table: fp -> Rows
    columns,    \* the table has the legacy column
    migrated,   \* meta row gatekit_legacy_migrated
    method,     \* meta row fingerprint_method
    pc,         \* per process: the statement it is about to execute
    conf,       \* per process: its Options.Legacy, method and reset flag
    updates,    \* per process: the bags migrateLegacy is about to write
    version,    \* history: sightings recorded so far
    markedAt,   \* history: version when the database was first marked as migrated
    started     \* history: per process, version when it started; starts left

database == <<rows, columns, migrated, method>>
vars == <<database, pc, conf, updates, version, markedAt, started>>

Empty == [f \in {} |-> EmptyBag]

Goto(p, label) == pc' = [pc EXCEPT ![p] = label]

\* A database written by an older release, with or without the columns, and with
\* or without a recorded method.
Init ==
    /\ method \in Methods \cup {NoMethod}
    /\ columns \in BOOLEAN
    /\ migrated = FALSE
    /\ \E S \in SUBSET {f \in Fps : f.method = method} :
           rows \in [S -> [bag : {EmptyBag}, raw : IF columns THEN Raw ELSE {"null"}]]
    /\ pc = [p \in Procs |-> "down"]
    /\ conf = [p \in Procs |-> [method |-> CHOOSE m \in Methods : TRUE,
                               reset |-> FALSE, legacy |-> FALSE]]
    /\ updates = [p \in Procs |-> Empty]
    /\ version = 0 /\ markedAt = 0
    /\ started = [p \in Procs |-> [at |-> 0, left |-> MaxStarts]]

\* A process starts, alone or beside one that runs.  An upgrade re-executes the
\* binary with the same arguments, so the two agree on the method.
Start(p, c) ==
    /\ pc[p] = "down"
    /\ started[p].left > 0
    /\ \A q \in Procs : pc[q] # "down" => conf[q].method = c.method
    /\ conf' = [conf EXCEPT ![p] = c]
    /\ started' = [started EXCEPT ![p] = [at |-> version, left |-> @.left - 1]]
    /\ Goto(p, "marker")
    /\ UNCHANGED <<database, updates, version, markedAt>>

\* The process dies, or gives up on an error.
Crash(p) ==
    /\ pc[p] # "down"
    /\ Goto(p, "down")
    /\ updates' = [updates EXCEPT ![p] = Empty]
    /\ UNCHANGED <<database, conf, version, markedAt, started>>

-----------------------------------------------------------------------------
(* migrateLegacy *)

ReadMarker(p) ==
    /\ pc[p] = "marker"
    /\ Goto(p, IF conf[p].legacy /\ ~migrated THEN "columns" ELSE "bound")
    /\ UNCHANGED <<database, conf, updates, version, markedAt, started>>

\* hasColumn for every mapping; a database without any is marked at once.
ReadColumns(p) ==
    /\ pc[p] = "columns"
    /\ migrated' = (migrated \/ ~columns)
    /\ markedAt' = IF migrated \/ columns THEN markedAt ELSE version
    /\ Goto(p, IF columns THEN "read" ELSE "bound")
    /\ UNCHANGED <<rows, columns, method, conf, updates, version, started>>

\* decodeLegacy, for a column that is not NULL: a value, none, or an error.
decodeLegacy(raw) ==
    CASE raw = "empty" -> IF Kind = "bool" THEN "some" ELSE "none"
      [] raw = "text"  -> IF Kind = "json" THEN "error" ELSE "some"
      [] OTHER         -> "some"

\* The bag after the fold: a key the gate has written is not clobbered.
FoldOver(r) ==
    IF r.raw # "null" /\ decodeLegacy(r.raw) = "some"
    THEN [r.bag EXCEPT !.key = "folded"] ELSE r.bag
Fold(r) ==
    IF r.raw # "null" /\ r.bag.key = "absent" /\ decodeLegacy(r.raw) = "some"
    THEN [r.bag EXCEPT !.key = "folded"] ELSE r.bag

\* A row that cannot be decoded fails the whole Open.
Undecodable ==
    {f \in DOMAIN rows : /\ rows[f].raw # "null" /\ rows[f].bag.key = "absent"
                         /\ decodeLegacy(rows[f].raw) = "error"}

ReadRowsMarks(p) ==
    /\ pc[p] = "read"
    /\ Undecodable = {}
    /\ migrated' = TRUE
    /\ markedAt' = IF migrated THEN markedAt ELSE version
    /\ updates' = [updates EXCEPT ![p] = [f \in DOMAIN rows |-> Fold(rows[f])]]
    /\ Goto(p, "fold")
    /\ UNCHANGED <<rows, columns, method, conf, version, started>>
ReadRows(p) ==
    /\ pc[p] = "read"
    /\ Undecodable = {}
    /\ updates' = [updates EXCEPT ![p] = [f \in DOMAIN rows |-> Fold(rows[f])]]
    /\ Goto(p, "fold")
    /\ UNCHANGED <<database, conf, version, markedAt, started>>

\* The transaction: the bags computed from the earlier read, and the marker.
CommitFold(p) ==
    /\ pc[p] = "fold"
    /\ rows' = [f \in DOMAIN rows |->
                   IF f \in DOMAIN updates[p] THEN [rows[f] EXCEPT !.bag = updates[p][f]]
                   ELSE rows[f]]
    /\ migrated' = TRUE
    /\ markedAt' = IF migrated THEN markedAt ELSE version
    /\ updates' = [updates EXCEPT ![p] = Empty]
    /\ Goto(p, "bound")
    /\ UNCHANGED <<columns, method, conf, version, started>>

\* boundExistingHistory discards a bag over MaxMetadataBytes.
Bound(p) ==
    /\ pc[p] = "bound"
    /\ rows' = [f \in DOMAIN rows |->
                   IF rows[f].bag.key = "folded" /\ rows[f].raw = "huge"
                   THEN [rows[f] EXCEPT !.bag = EmptyBag] ELSE rows[f]]
    /\ Goto(p, "method")
    /\ UNCHANGED <<columns, migrated, method, conf, updates, version, markedAt, started>>

-----------------------------------------------------------------------------
(* ReconcileFingerprintMethod *)

\* The stored method decides; a mismatch without the reset flag is an error.
AdoptsAnyway(p) ==
    /\ pc[p] = "method"
    /\ Goto(p, IF method = conf[p].method THEN "serving"
               ELSE IF method # NoMethod /\ conf[p].reset THEN "reset" ELSE "record")
    /\ UNCHANGED <<database, conf, updates, version, markedAt, started>>
ReadMethod(p) ==
    /\ pc[p] = "method"
    /\ method \in {conf[p].method, NoMethod} \/ conf[p].reset
    /\ Goto(p, IF method = conf[p].method THEN "serving"
               ELSE IF method = NoMethod THEN "record" ELSE "reset")
    /\ UNCHANGED <<database, conf, updates, version, markedAt, started>>

\* ResetFingerprints, a transaction of its own.
Reset(p) ==
    /\ pc[p] = "reset"
    /\ rows' = [f \in {} |-> [bag |-> EmptyBag, raw |-> "null"]]
    /\ Goto(p, "record")
    /\ UNCHANGED <<columns, migrated, method, conf, updates, version, markedAt, started>>

\* SetMeta of the method, after the reset or to adopt the rows as they are.
ForgetsMethod(p) ==
    /\ pc[p] = "record"
    /\ Goto(p, "serving")
    /\ UNCHANGED <<database, conf, updates, version, markedAt, started>>
RecordMethod(p) ==
    /\ pc[p] = "record"
    /\ method' = conf[p].method
    /\ Goto(p, "serving")
    /\ UNCHANGED <<rows, columns, migrated, conf, updates, version, markedAt, started>>

-----------------------------------------------------------------------------

\* A sighting replaces the whole bag of its row by its own, which has the key or
\* not, or inserts a row whose legacy columns have their defaults.
Observe(p, f, key) ==
    /\ pc[p] = "serving"
    /\ version < MaxVersion
    /\ f.method = conf[p].method \/ (f.method = NoMethod /\ f \in DOMAIN rows)
    /\ version' = version + 1
    /\ rows' = [g \in DOMAIN rows \cup {f} |->
                   IF g # f THEN rows[g]
                   ELSE [bag |-> [at |-> version + 1, key |-> key],
                         raw |-> IF f \in DOMAIN rows THEN rows[f].raw
                                 ELSE IF columns THEN "empty" ELSE "null"]]
    /\ UNCHANGED <<columns, migrated, method, pc, conf, updates, markedAt, started>>

StartStep(p) ==
    \/ ReadMarker(p) \/ ReadColumns(p) \/ ReadRows(p) \/ CommitFold(p) \/ Bound(p)
    \/ ReadMethod(p) \/ Reset(p) \/ RecordMethod(p)

Next ==
    \E p \in Procs :
        \/ \E c \in Confs : Start(p, c)
        \/ Crash(p)
        \/ StartStep(p)
        \/ \E f \in Fps, key \in {"absent", "sighted"} : Observe(p, f, key)

Spec == Init /\ [][Next]_vars

-----------------------------------------------------------------------------
(* Properties *)

\* A column whose value fits into the bag.
HasValue(raw) == raw \in {"value", "text"} /\ decodeLegacy(raw) = "some"

\* Once the database is marked as migrated, no legacy value has been left behind:
\* whatever crashed in between, every row whose column has a value that fits
\* carries the key, unless a sighting since the migration has replaced the bag.
MigratedIsFolded ==
    migrated => \A f \in DOMAIN rows :
        HasValue(rows[f].raw) => rows[f].bag.key # "absent" \/ rows[f].bag.at > markedAt

\* The bag new has lost what the sighting that wrote the bag old had put there.
Reverts(old, new) ==
    \/ new.at < old.at
    \/ new.at = old.at /\ old.key = "sighted" /\ new.key # "sighted"

\* "Metadata the gate has refreshed since is never reverted on a restart": the
\* fold of a process never takes back what a sighting wrote before the process
\* started, whoever else starts or serves meanwhile.
RefreshedBeforeStartKept ==
    [][\A p \in Procs, f \in DOMAIN rows \cap DOMAIN rows' :
          Reverts(rows[f].bag, rows'[f].bag) =>
              (CommitFold(p) => rows[f].bag.at > started[p].at)]_vars

\* A gate serves only rows computed with its own method, or adopted from before
\* methods were recorded, wherever a change of method crashed and was retried.
ServesOwnMethod ==
    \A p \in Procs : pc[p] = "serving" =>
        \A f \in DOMAIN rows : f.method \in {conf[p].method, NoMethod}

\* The reset that a change of method asks for wipes no row of the new method that
\* was there when the process started: once a change is through, repeating the
\* start with the reset flag still set costs nothing.
ResetKeepsOwnRows ==
    [][\A p \in Procs, f \in DOMAIN rows \ DOMAIN rows' :
          f.method = conf[p].method =>
              (Reset(p) => rows[f].bag.at > started[p].at)]_vars
=============================================================================
