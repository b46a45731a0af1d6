# A TLA+ model of gatekit

gatekit is the shared library of protocol gates (sshgate, tlsgate): a gate
fingerprints clients, keeps a verdict per fingerprint in an SQLite file, serves
or refuses connections by it, and synchronises with a hub (gatehub, not part of
the repository). This directory models the parts of the library that carry
state, checks them with TLC on small instances, and proves the safety properties
of every part with TLAPS for all values of the constants.

## Inventory

| Component | State | Operations | What is hard | What makes it correct |
|---|---|---|---|---|
| Store (`store/store.go`, `decisions.go`, `limits.go`, `time.go`) | `fingerprints`, `fingerprint_ips/_ports/_sightings`, `meta` | `Open`, `Close`, `Observe`, `SetStatus`, `UpsertStatus`, `SetLabel`, `Delete`, `PruneToLimit`, `ApplyDecisions`, `ResetFingerprints`, `ListPage`, ... | row cap and trimming inside other writes, text-ordered timestamps, a clock that steps back, scope and status kept together over any order of writers | approvals survive traffic, rows stay readable, caps hold, scopes change only by decisions |
| Start of a gate (`store/legacy.go`, `ReconcileFingerprintMethod`) | markers in `meta`, metadata bags | `migrateLegacy`, `boundExistingHistory`, `ReconcileFingerprintMethod` | reads outside the transaction, two processes during an upgrade, a crash between any two statements | no legacy value lost, no newer metadata reverted, no row of another method served |
| Policy sync (`controlplane/controlplane.go`) | `Syncer.cursor`, saved cursor, verdict rows, trusted ranges | `New`, `pullPolicy` | crash between commit and memory, power loss, failing callback, resets, two processes during an upgrade | no decision skipped or undone, the gate converges |
| Observation sync (same file, `ListPage`) | `acknowledged`, `lastFullSync` | `pushObservations`, `pushBatch` | paging under writers, torn reads, lost answers, hub restore | suppression is sound, snapshots complete, the hub catches up |
| Connection server (`proxy`), semaphore | accept loops, connection goroutines, two WaitGroups, slots | `Serve`, `Drain`, `Acquire`, `Release` | interleaving of loops, handlers, drains and timeouts | limit holds, drained means idle, nothing leaks |
| Rate limiter (`ratelimit`) | token bucket per source | `Allow`, `Sweep`, `RunSweeper` | eviction against refill, bucket cap, IPv6 prefixes | the rate holds in every window, eviction is invisible, idle buckets go |
| Lifecycle (`lifecycle`) | signal channel, terminating flag, tableflip's upgrader | `New`, `Ready`, `Wait`, `Terminating`, `Close`, signal loop | signals during an upgrade, flag against Exit | the deadline fits the reason, a termination is carried out |
| Approval scope (`approval`) | none | `New`, `Validate`, `Ranges`, `Allows` | masking after checking | a scope means its CIDRs and can be read back |
| Sync configuration, systemd notification | none | parsing, I/O | - | - |

A gate's connection goroutines call `Observe` and `Get`; the CLI calls the
status setters, possibly in another process on the same file; the Syncer's
goroutine runs `pushObservations` then `pullPolicy` at every tick. They meet in
the store, whose writer handle has one connection, so writes are serial
transactions, while reads go through a pool and see any committed state.

## Modules

* **Store** - the database. `rows` is a partial function from fingerprints to
  `Entry` (a row with its cascading history), `cursor` the saved hub cursor,
  `now` the wall clock, which may step back, `open` whether a process has it
  open. One action per exported write. Each is one transaction; `Observe`
  includes its trim and, on a first sighting, its prune. `encodeTime` models the
  order of RFC3339Nano texts: a reading on the whole second sorts after every
  other reading of that second. With at most ten ticks per second this is exact;
  finer readings whose last digits are zero misorder within their second too,
  which no property here tells apart from the whole-second case.
  `PruneVictims` is a set because SQLite may break ties of `last_seen` any way.
* **StoreHistory** - Store with a history variable, every address and port a row
  was ever given, which says what trimming may forget.
* **MCStore**, **MCStoreHistory**, **MCStoreScope** - instances. The first bounds
  by a constraint in how many rows `first_seen` differs from `last_seen`. The last
  adds a history variable of its own: the fingerprints whose last scope-carrying
  decision restricted them.
* **PolicySync** - `pullPolicy` in steps (answer, trusted
  ranges, transaction, cursor in memory) for a set of processes on one database.
  The hub is a log of decisions, of every status `Validate` accepts and of ones it
  refuses, and a cursor is a position in it. `durable` is
  what a power loss falls back to (WAL with `synchronous=NORMAL`). Rows are
  abstracted to a verdict; the store's other writers appear as `ObserveUnknown`,
  `Evict` and `ResetFingerprints`. Local status changes are left out: the hub's
  policy is what the properties compare with.
* **PushSync** - `pushObservations` in steps (page of rows, their history, upload)
  beside the store's writers. An observation has a part from the row and a part
  from the history tables, read at different moments. A row may be without
  history: a placeholder (`UpsertStatus`, `ApplyDecisions`) has none, and a sighting
  without an address and a port adds none. The history of a page is
  read in one step; with pages of one row, as in the runs, that is one row's
  history at one moment, the finest tear between row and history that matters to
  a hash of both. The hub may commit and not answer, commit late, or be restored.
  `rewritten` records that the hub itself lost or overwrote data.
* **Proxy** - `Server` and `Semaphore`: accept loops, the goroutine of each
  connection with its defers in order, `Drain` with its waiting goroutine and
  timeout.
* **Lifecycle** - the signal loop: a channel of one signal that drops what finds
  it full, the loop's way through an upgrade or a termination statement by
  statement, `Close`. tableflip is external: `Upgrade` fails for any reason or
  hands the listeners to a child, and `Exit` is closed some time after a handoff
  or a `Stop`.
* **Gate** - composes Proxy and Lifecycle (`Life == INSTANCE Lifecycle`) under the
  main function of a gate, which is not in the repository and is modelled from
  how the packages' comments say they are called. A server step is a step of
  `Proxy!Next` that main's position allows, so every behaviour of Gate is one of
  Proxy. Process exit is not modelled: goroutines go on after main's end.
* **RateLimit** - the bucket map, with tokens counted in the ticks it takes to earn
  them, so that refilling is addition. `spent` and `since` are history: what a
  client has spent in a window that may begin at any time. `answer` keeps what
  `Allow` said at this instant, so that the refinement compares verdicts too.
* **TokenBuckets** - what the limiter promises: a bucket per client that always
  exists and is never evicted. RateLimit implements it
  (`EvictionInvisible`) under `level[k] <- Level(k)`, the tokens `Allow` would find
  now (a full bucket for a key without one), and `saturated <- Full`.
* **MCRateLimit** - an instance.
* **Startup** - what a process does to the database before it serves, one step per
  statement: `migrateLegacy` (marker, columns, rows, transaction),
  `boundExistingHistory`, `ReconcileFingerprintMethod` (compare, reset, record),
  then sightings. Processes overlap and crash anywhere. Of a row's metadata bag the
  model keeps the number of the sighting that wrote it, so that "newer" can be told,
  and one key: absent, folded from the column, or written by that sighting. A
  sighting replaces the whole bag and may leave the key out. The text of a column
  is one of five kinds that `decodeLegacy` and the size limit tell apart.
  `markedAt` is history: the sightings there were when the marker was set.
* **MCStartup** - an instance, with the processes symmetric.
* **Verdicts** - what the store promises about verdicts and the hub cursor, with
  no counts, history, clock or limits: traffic, decisions, forgetting one, reset.
  Store implements it (`KeepsPromise`) with each row mapped to its status, label
  and scope.
* **Scope** - approval scopes as sets of prefixes over addresses as bits; net/netip
  is external. There is nothing to run: its statements are theorems.
* **StoreProofs**, **PolicyProofs**, **PushProofs**, **GateProofs** (Proxy and
  Gate), **RateLimitProofs**, **StartupProofs**, **ScopeProofs** - theorems.
* **CountingTheorems** - what they share: least and greatest elements of sets of
  naturals, cardinalities one step apart, and the `n` lowest elements of a strict
  order (`Lowest`, SQL's `ORDER BY ... LIMIT n`): how many they are, that they are
  a prefix, and that a set of at most `n` is its own.

Each module lists its faulty variants at its head: operators no action uses, kept
to show for every property that a plausible slip in the code would break it.

## Runs

| Run | Question | Result |
|---|---|---|
| `store_rows` | Do verdicts, scopes, the row cap and the eviction order survive any order of writes, and is each write a step of Verdicts? | holds |
| `store_history` | Is history bounded, and is what remains what the README promises? | holds |
| `store_evicts_oldest` | Is eviction by `last_seen`, as `PruneToLimit` says? | only to the second |
| `store_scope` | Can reapproving broaden a restricted approval, against `docs/scoped-approvals.md`? | yes, by block then approve |
| `policy_sync` | Is policy complete and convergent with one Syncer at a time? | holds |
| `policy_overlap` | ... with two processes pulling, as during an upgrade? | an old answer undoes a newer decision, and the newer Syncer then saves its cursor over the loss |
| `policy_reset` | ... with `ResetFingerprints` under a running Syncer? | older policy is not fetched again |
| `push_sync` | Is suppression sound, are snapshots complete, does the hub catch up? | holds |
| `push_recurs` | ... when content returns to its acknowledged value after a lost answer? | suppressed wrongly until the next full snapshot |
| `gate` | Do the limit, Drain, the choice of the drain deadline and termination hold in every interleaving of connections, signals and main? | holds |
| `rate_limit` | Does the limiter keep the rate, behave as if it never evicted, and evict? | holds |
| `startup` | Do overlapping, crashing starts keep metadata, legacy values and the fingerprint method right? | holds |

Bounds. `store_rows`: three fingerprints and a cap of two, so that eviction
chooses and an approval-filled table is over the cap; two ticks per second and
times 0..2, so that whole-second and later readings of one second and a second
boundary all occur; one scope; one cursor, which decisions save and a reset must
drop with at least two rows, as a lone row could also have been deleted; no history
(it does not affect these properties). At most one row at a time has a `first_seen`
other than its `last_seen` (`MaxSeenLater`): no write reads `first_seen`, and without
that bound the properties hold as well, in twice the states.
`store_history`: one row, two addresses, two ports, a bound of one, so every
insert may trim; legacy rows over every bound, seen at different times, so that
`Open` has to choose. `policy_sync`: one fingerprint,
two decisions of any kind (malformed and unsupported included), two versions of
the trusted ranges, three faults; a skipped or reordered decision needs two
decisions and one fault. Three decisions with one fault hold as well, in a million
states. Fingerprints interact only through the cursor and the
acceptance of a whole answer; with two fingerprints, two
decisions and one fault the invariants hold as well, in 1.7 million states, and all of
it does for a gate that enforces scopes.
`push_sync`: two rows and pages of one, so there is a page boundary; two
sightings, with or without history, one verdict change or placeholder, and two
faults, so that an answer is lost and the hub restored in one behaviour. With
verdicts that recur and one fault the other properties hold too;
`SuppressedIsHeld` is what `push_recurs` refutes. `gate`: two
listeners that share one slot, so that a connection is refused while another is
served; two connections, a Drain and its retry, signals without bound. Proxy alone,
with three connections, two slots and a listener that may close after Drain was
called, holds as well, and so it does with `MaxConcurrent = 0` (the nil
semaphore). `rate_limit`: a burst of one and a half tokens and the shortest ttl the
code's comment allows; three clients, one with two addresses, for two buckets, so
that the map fills; six ticks are two idle periods. `startup`: two processes with
two starts each, two methods, one client, two sightings with or without the key; a
lost value or a reverted key takes one of each. The kind is JSON, the only one whose column can fail to
decode. `RefreshedBeforeStartKept` is about two processes, as an upgrade has (see the
proof). `CHECK_DEADLOCK` is off
where the system may stop: a store nobody writes to because its bounds are spent,
a gate whose main has finished, a clock at its bound.

Fairness. `PolicySync`: a stopped gate is restarted, `Run` pulls at every tick and
the HTTP client's timeout ends every pull; the callback and the transaction may
fail again and again but not always, and the hub sends its ranges infinitely
often (strong fairness). `PushSync`: weak fairness of the push (ticker and
timeout) and of the full-sync interval; faults are bounded, so they stop.
`Proxy`: weak fairness of every goroutine, which includes that handlers return:
that is the gate's side of the contract. Nothing makes an accept happen.
`Lifecycle`: the signal loop is scheduled, and `Upgrade` returns, since tableflip
gives a child a minute to become ready. `Gate`: main goes on from call to call; it
waits in `Wait` as long as nothing closes Exit. A Drain may time out or not.
`RateLimit`: the sweeper's goroutine is scheduled (weak fairness of a sweep whose
tick is there).

Convergence is stated up to eviction: `Agrees` lets a decision that is not an
approval be absent or pending, since such rows are evicted at the cap and the hub
does not send the decision again.

## Proofs

`StoreProofs` proves, for all constants that satisfy `StoreAssumption`:

* `TypeCorrect` and `RowsReadable` - from `IInv == TypeOK /\ EveryRowReadable`,
  which is inductive. Neither part is alone what it rests on: a typed row with a
  scope on a block stays so under `SetLabel`, and readability of a batch's rows
  needs their types. `ApplyDecisions` is the step with content: the last decision
  about a fingerprint must exist (a bounded set of positions has a maximum, by
  well-foundedness of `<`) and have passed `Validate`.
* `TrafficSafe` - `TrafficPreservesVerdicts`: trimming and the upsert leave the
  verdict alone (`ObserveRows`, `OpenStep`), victims are never approvals
  (`VictimsNotApproved`).
* `RescopeSafe` - `OnlyDecisionsRescope`, from the guard `MayOverwrite`.
* `RowCap` - `NewcomersWithinCap`: the victims bring the table to the cap or leave
  approvals only (`VictimsEnough`), and a newcomer is not approved, so in the
  second case it was a victim itself.
* `EvictionOrder` - `EvictsOldestSecond`: the text of a time lies within its second
  (`EncodedWithinSecond`), so texts in order are seconds in order.
* `StoreKeepsPromise` - Store implements Verdicts: a step that removes no row is a
  `Decide` because of `EveryRowReadable` in the state it leaves; sightings and
  pruning are `Traffic` by `ObserveRows` and `VictimsNotApproved`; `Delete` and
  `ResetFingerprints` are `Forget` and `Reset`.
* `HistorySafe` - `HistoryBounded`, from `HistoryInv`: a closed database may be over
  its bounds, an open one is not, and every history is finite (the assumption on
  what an older release left). The cut keeps the elements of rank below the bound,
  and ranks below `n` are taken by at most `n` elements (`LowestBounded`). For
  sightings the rank is that of a text and the pair, a strict order because
  `encodeTime` is injective (`EncodedInjective`).
* `TrimOrder` - `TrimKeepsRecentSecond`. The bound alone does not give it when the
  clock has stepped back; what does is that a pair seen again replaces its own
  sighting, so that a cut happens only when a pair is new. `Open` cuts without
  adding, and no other step takes a sighting from a row it keeps.
* `RetentionSafe` - `RetainsFirstValues`, of StoreHistory: the first `n` of what was
  kept and one more value are the first `n` of everything (`TrimmingComposes`).
  `WatchingIsStore` shows that a behaviour of StoreHistory is one of Store, so the
  invariants above hold of it.

`PolicyProofs`, for any log, any number of processes, faults and fingerprints:
`PolicyTypeSafe` and `ScopesSafe` from `PolicyInv`, which adds that no cursor is past
the log and that an answer in flight is the piece of the log from the Syncer's
cursor, checked before it gets to the transaction. `PolicyInForceSafe` and
`MemoryNotAheadSafe` from `SyncInv`: what `PolicyInForce` says of the file also holds
of the copy a power loss falls back to, and memory and file agree on the cursor
except between commit and assignment. Both have the hypotheses `~Overlap` (one
Syncer at a time) and `~ResetWhileSyncing`; `policy_overlap` and `policy_reset` show
that neither can be dropped. That the last decision of an answer is the log's
last about its fingerprint is `LatestMax` and what follows it.

`PushProofs`, for any number of rows, page size, sightings, decisions and faults:
`PushTypeSafe`; `PagingSafe` from `PagesInOrder` (everything stable up to the page
boundary has been read, since a page is the lowest rows above it); `SnapshotSafe`
from `FullUploads` as well. `PushTypeSafe` includes that no history outlives its row,
though a row may be without one. `SuppressionSafe` is from `HubFollows`: contents of a
row are ordered by age, the hub holds the last of what reached it, and the cache
that or something older; an observation with the row that is in the store has the
history that is there too (`WasRead`), since what changes the history changes the
row; so what equals the cached content equals the hub's. It has
the hypothesis `~Recurs`, without which `push_recurs` refutes it: a content that
returns breaks the order by age. After the hub lost or rewrote data
(`rewritten`) it claims nothing, as the property does.

`GateProofs`, for any finite sets of listeners and connections, any limit and any
number of drains: `ServerTypeSafe`, `InFlightSafe` and `DrainSafe` from `ServerInv`.
The properties speak of goroutines, the code of counters, and the invariant ties
them: each WaitGroup counts the loops or goroutines that have not called `Done`, and
the channel holds a token for each connection between `Acquire` and `Release`
(`CountersAgree`); a loop's connection is its own (`HandsAgree`, `SocketsAgree`); a
waiting goroutine that got past a WaitGroup saw it at zero for good
(`DrainsAgree`). `GateImplementsServer` shows that main, the signal loop and the
upgrader only choose when the server is called, so the theorems hold of a gate
(`GateServerSafe`). `HandoffSafe` follows from `ExitExplained`: an upgrader that was
stopped was stopped by the signal loop, with the flag already stored, or by main at
its end. `HandoffHasChild` alone is not inductive: it needs the reason why Exit
closed.

`RateLimitProofs`, for every rate, burst, cap and ttl with `TTL >= Burst`: `TypeOK`
is inductive (`LimiterTypes`). `RateSafe`: `RateBound` itself is the invariant, since
it speaks of `Level`, which a sweep does not change (an idle bucket has
refilled, the only use of `TTL >= Burst`), a tick raises by at most one and a
spending lowers by its cost; that one client has one key is `KeyOfClient`.
`RefinesBuckets` maps `Tick` to `Refill`, `Allow` to `Admit`, `Deny` or
`AdmitFree`, and a sweep to `Resize`.

`StartupProofs`, for any number of processes, clients and methods:
`MigrationComplete` from `FoldInv` (a process about to commit holds the key of every
row whose column has a value, a table without the columns has no values, and the
marker is no newer than the sightings, so that a sighting after it is told by its
number);
`MethodSafe` from `MethodInv` (all running processes agree on the method, rows are of
the recorded method or adopted, and a process that is about to record another
method after a reset still sees an empty table); `ResetSafe` from `ResetInv`, an
invariant about what a process between its read of the method and its reset can
find; `RefreshKept` from `KeptInv`, for two processes. Bags of one sighting agree on
whether it wrote the key (`KeysAgree`), so comparing their numbers is enough. What a process is about to
write is older than a row, or than what the other is about to write, only by
sightings after its start (`ReadsRecent`, `ReadsAgree`). That this survives a read
needs that reading later yields no less (`ReadsGrow`) as long as nobody's old fold
has been committed in between, which a third process could do: with three,
TLC refutes `RefreshedBeforeStartKept`. All but the first use that processes that
overlap have the same configured method, which is `Start`'s guard: tableflip
re-executes the binary with its arguments.

`ScopeProofs` proves `ScopeMeansRanges` and `ScopeReadsBack`. The second is what
Store takes for granted when it stores a scope and reads it back: masking is
idempotent, and makes no IPv4-mapped prefix out of one that is not
(`MaskedNotMapped`), which New would refuse on the way back.

The assumptions on the constants ask for little: natural bounds, a clock of at
least one tick per second, finitely many fingerprints, listeners and connections,
legacy rows with finite histories (`StoreAssumption`, `ProxyAssumption`), a hub with
at least one version of its trusted ranges (`PolicyAssumption`), pages of at least one
row (`PushAssumption`), and `TTL >= Burst` in the limiter, as its comment asks.

Only model-checked is liveness, since the prover does not handle fairness:
`Converges`, `HubCatchesUp`, `ConnectionsClose`, `DrainEnds`, `TermFinishes` and
`IdleSwept`. Every invariant, action property and refinement that a passing run
checks is also a theorem. What recursive definitions compute is out of the prover's
reach too; there are none here.

## What the models show about the code's limits

* A SIGTERM that arrives while an upgrade runs and another signal is queued is lost:
  the channel holds one and the runtime does not wait. `TermFinishes` is about
  signals that got in.
* The source's README says refreshed metadata "is never reverted on a restart". That
  holds for what was refreshed before the folding process started. A process that
  serves while another folds can have a sighting's bag overwritten by the older
  read, until the next sighting of that client.
* A migrated value lasts until the next sighting of its client: a sighting replaces
  the bag, and one without the key drops it. `MigratedIsFolded` is about what the
  migration did, not about what sightings leave of it. Before the marker is set the
  fold puts the value into a newer bag that lacks the key.
* A legacy value that takes the bag over `MaxMetadataBytes` is folded and discarded
  in the same start, with the rest of the bag, what a sighting wrote there included.
* While two processes pull, an older answer committed late undoes a newer decision
  and sets the saved cursor back to where it would be fetched again; but the newer
  Syncer goes on from its own cursor and saves that, and when the older process has
  ended, nothing fetches the decision again.
* A blocked row is evicted at the cap like a pending one, and the hub does not send
  the verdict again; `Agrees` admits it.
* At the bucket cap, clients without a bucket are not limited.

## Not modelled

Blocked-range alerts and the `meta` keys a gate chooses; read-only lookups other
than `ListPage`; route parsing; configuration, TLS and URL handling; the JSON text
of scopes and metadata; systemd notification (one datagram); a failing startup of
a gate's main; two processes of one gate that are configured with different
methods (`ReconcileFingerprintMethod` does not rule them out; `Start`'s guard does,
since an upgrade re-executes the gate with its arguments); a legacy value that fits
into some bags and not into others; float64 rounding in the limiter. An empty fingerprint, which `Observe` and
`Validate` refuse but `UpsertStatus` takes, is not among the fingerprints.

## Plan

1. The link between `Store!ApplyDecisions` and PolicySync, whose rows are verdicts,
   as a second refinement.
2. What holds of two overlapping Syncers: how far back an old answer can set a row,
   and that a Syncer started from the saved cursor before the newer one pulls again
   repairs it.
