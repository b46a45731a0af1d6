---------------------------- MODULE PolicyProofs ----------------------------
(***************************************************************************)
(* Proofs about PolicySync, for any hub log, any number of processes and   *)
(* any number of faults.                                                   *)
(***************************************************************************)
EXTENDS PolicySync, CountingTheorems, SequenceTheorems, TLAPS

-----------------------------------------------------------------------------
(* The invariants *)

\* No cursor points past the end of the hub's log.
CursorsInLog ==
    /\ db.cursor <= Len(log) /\ durable.cursor <= Len(log)
    /\ \A p \in Procs : mem[p] <= Len(log)

\* An answer is a piece of the log that starts where its Syncer was, and what
\* gets as far as the transaction has passed the checks.
AnswersInLog ==
    \A p \in Procs : pc[p] \in {"answered", "apply", "committed"} =>
        /\ resp[p].from = mem[p]
        /\ resp[p].from <= resp[p].to /\ resp[p].to <= Len(log)
        /\ resp[p].cursor \in {0, resp[p].to}
        /\ pc[p] # "answered" => Acceptable(resp[p])

\* The scopes in a database are ones its gate enforces.
ScopesSupported(d) ==
    ~SupportsApprovalRanges => \A f \in Fingerprints : d.verdict[f] # "restricted"

PolicyInv ==
    /\ TypeOK
    /\ CursorsInLog
    /\ AnswersInLog
    /\ ScopesSupported(db) /\ ScopesSupported(durable)

OneSyncer == \A p, q \in Procs : pc[p] # "down" /\ pc[q] # "down" => p = q

\* The Syncer's cursor is the saved one, except that the saved one is a step
\* ahead between the commit and the assignment that follows it.
CursorsMatch ==
    \A p \in Procs :
        /\ pc[p] \in {"idle", "answered", "apply"} => mem[p] = db.cursor
        /\ pc[p] = "committed" =>
               db.cursor = IF resp[p].cursor = 0 THEN mem[p] ELSE resp[p].cursor

\* What PolicyInForce says of the database, for the one on disk as well.
InForce(d) ==
    \A f \in Fingerprints : \E k \in d.cursor..Len(log) :
        Agrees(d.verdict[f], Latest(f, k))

SyncInv == OneSyncer /\ CursorsMatch /\ InForce(db) /\ InForce(durable)

-----------------------------------------------------------------------------
(* What the log says *)

LogOK == log \in Seq([fp : Fingerprints, verdict : Decidable])

LEMMA LogEntries ==
    ASSUME LogOK, NEW k \in 1..Len(log)
    PROVE  log[k].fp \in Fingerprints /\ log[k].verdict \in HubVerdicts
<1>1. log[k] \in [fp : Fingerprints, verdict : Decidable]
  BY ElementOfSeq DEF LogOK
<1>2. log[k].fp \in Fingerprints /\ log[k].verdict \in Decidable
  BY <1>1
<1>3. Decidable \subseteq HubVerdicts
  BY PolicyAssumption
<1> QED
  BY <1>2, <1>3

\* Where there is a decision about f there is a last one.
LEMMA LatestMax ==
    ASSUME LogOK, NEW f, NEW k \in 0..Len(log), DecidedAt(f, 0, k) # {},
           NEW m, m = CHOOSE x \in DecidedAt(f, 0, k) : \A n \in DecidedAt(f, 0, k) : n <= x
    PROVE  m \in DecidedAt(f, 0, k) /\ \A n \in DecidedAt(f, 0, k) : n <= m
<1> DEFINE at == DecidedAt(f, 0, k)
<1>1. k \in Nat /\ at \in SUBSET (0..k)
  BY DEF LogOK, DecidedAt
<1>2. \E x \in at : \A n \in at : n <= x
  <2> HIDE DEF at
  <2>1. at # {}
    BY DEF at
  <2> QED
    BY <1>1, <2>1, BoundedSetHasMax
<1> QED
  BY <1>2

\* Latest is the verdict of the last decision.
LEMMA LatestIsLast ==
    ASSUME LogOK, NEW f, NEW k \in 0..Len(log), DecidedAt(f, 0, k) # {}
    PROVE  \E m \in DecidedAt(f, 0, k) :
               /\ Latest(f, k) = log[m].verdict
               /\ \A n \in DecidedAt(f, 0, k) : n <= m
<1>1. PICK m : m = CHOOSE x \in DecidedAt(f, 0, k) : \A n \in DecidedAt(f, 0, k) : n <= x
  OBVIOUS
<1>2. Latest(f, k) = log[m].verdict
  BY <1>1 DEF Latest
<1> QED
  BY <1>1, <1>2, LatestMax

\* What one acceptable answer decides about f can be stored by this gate.
LEMMA LatestOfAnswer ==
    ASSUME LogOK, NEW f, NEW r \in Responses, r.to <= Len(log), Acceptable(r),
           DecidedAt(f, r.from, r.to) # {}
    PROVE  /\ Latest(f, r.to) \in HubVerdicts \ {"malformed"}
           /\ ~SupportsApprovalRanges => Latest(f, r.to) # "restricted"
<1>1. PICK i \in Nat, j \in Nat : i = r.from /\ j = r.to /\ j <= Len(log)
  BY PolicyAssumption DEF Responses, Positions
<1>2. PICK n \in (i + 1)..j : log[n].fp = f
  BY <1>1 DEF DecidedAt
<1>3. n \in DecidedAt(f, 0, j)
  BY <1>1, <1>2 DEF DecidedAt
<1>4. Len(log) \in Nat
  BY DEF LogOK
<1>5. PICK m \in DecidedAt(f, 0, j) : Latest(f, j) = log[m].verdict /\ n <= m
  BY <1>1, <1>3, <1>4, LatestIsLast
<1>6. m \in (i + 1)..j
  BY <1>1, <1>2, <1>5 DEF DecidedAt
<1>7. /\ log[m].verdict # "malformed"
      /\ log[m].verdict = "restricted" => SupportsApprovalRanges
  BY <1>1, <1>6 DEF Acceptable
<1>8. log[m].verdict \in HubVerdicts
  BY <1>1, <1>4, <1>6, LogEntries
<1> QED
  BY <1>1, <1>5, <1>7, <1>8

\* Positions with no decision about f between them say the same of f.
LEMMA LatestSkips ==
    ASSUME LogOK, NEW f, NEW i \in Nat, NEW k \in Nat, NEW j \in Nat,
           i <= k, k <= j, j <= Len(log), DecidedAt(f, i, j) = {}
    PROVE  Latest(f, k) = Latest(f, j)
<1>1. DecidedAt(f, 0, k) = DecidedAt(f, 0, j)
  <2>1. ASSUME NEW n \in DecidedAt(f, 0, j) PROVE n \in DecidedAt(f, 0, k)
    BY DEF DecidedAt
  <2>2. DecidedAt(f, 0, k) \subseteq DecidedAt(f, 0, j)
    BY DEF DecidedAt
  <2> QED
    BY <2>1, <2>2
<1>2. CASE DecidedAt(f, 0, j) = {}
  BY <1>1, <1>2 DEF Latest
<1>3. CASE DecidedAt(f, 0, j) # {}
  <2>1. Len(log) \in Nat
    BY DEF LogOK
  <2>2. PICK m \in DecidedAt(f, 0, j) : /\ Latest(f, j) = log[m].verdict
                                        /\ \A n \in DecidedAt(f, 0, j) : n <= m
    BY <1>3, <2>1, LatestIsLast
  <2>3. PICK l \in DecidedAt(f, 0, k) : /\ Latest(f, k) = log[l].verdict
                                        /\ \A n \in DecidedAt(f, 0, k) : n <= l
    BY <1>1, <1>3, <2>1, LatestIsLast
  <2>4. l = m
    BY <1>1, <2>2, <2>3 DEF DecidedAt
  <2> QED
    BY <2>2, <2>3, <2>4
<1> QED
  BY <1>2, <1>3

\* A new decision changes nothing about the positions before it.
LEMMA LogGrows ==
    ASSUME LogOK, NEW d \in [fp : Fingerprints, verdict : Decidable],
           log' = Append(log, d)
    PROVE  /\ LogOK' /\ Len(log') = Len(log) + 1 /\ Len(log) \in Nat
           /\ \A k \in 1..Len(log) : log'[k] = log[k]
           /\ \A f : \A k \in 0..Len(log) : Latest(f, k)' = Latest(f, k)
<1>1. /\ LogOK' /\ Len(log') = Len(log) + 1 /\ Len(log) \in Nat
      /\ \A k \in 1..Len(log) : log'[k] = log[k]
  BY DEF LogOK
<1>2. ASSUME NEW f, NEW k \in 0..Len(log) PROVE Latest(f, k)' = Latest(f, k)
  <2>1. DecidedAt(f, 0, k)' = DecidedAt(f, 0, k)
    BY <1>1 DEF DecidedAt
  <2>2. CASE DecidedAt(f, 0, k) = {}
    BY <2>1, <2>2 DEF Latest
  <2>3. CASE DecidedAt(f, 0, k) # {}
    <3>1. PICK m : m = CHOOSE x \in DecidedAt(f, 0, k) : \A n \in DecidedAt(f, 0, k) : n <= x
      OBVIOUS
    <3>2. m \in DecidedAt(f, 0, k)
      BY <2>3, <3>1, LatestMax
    <3>3. m \in 1..Len(log)
      BY <3>2, <1>1 DEF DecidedAt
    <3>4. Latest(f, k) = log[m].verdict /\ Latest(f, k)' = log'[m].verdict
      BY <2>1, <2>3, <3>1 DEF Latest
    <3> QED
      BY <1>1, <3>3, <3>4
  <2> QED
    BY <2>2, <2>3
<1> QED
  BY <1>1, <1>2

\* A step that leaves the log alone leaves alone what it says.
LEMMA LogStays ==
    ASSUME UNCHANGED log
    PROVE  /\ LogOK' = LogOK /\ Len(log') = Len(log)
           /\ \A r : Acceptable(r)' = Acceptable(r)
           /\ \A f, k : Latest(f, k)' = Latest(f, k)
<1>1. LogOK' = LogOK /\ Len(log') = Len(log)
  BY DEF LogOK
<1>2. \A r : Acceptable(r)' = Acceptable(r)
  BY DEF Acceptable
<1>3. ASSUME NEW f, NEW k PROVE Latest(f, k)' = Latest(f, k)
  BY DEF Latest, DecidedAt
<1> QED
  BY <1>1, <1>2, <1>3

-----------------------------------------------------------------------------
(* The first invariant, which needs nothing of how processes overlap *)

LEMMA PolicyInit == Init => PolicyInv
<1> SUFFICES ASSUME Init PROVE PolicyInv
  OBVIOUS
<1>1. EmptyDatabase \in Databases /\ NoResponse \in Responses
  BY PolicyAssumption DEF EmptyDatabase, NoResponse, Databases, Responses, Positions, RowVerdicts
<1>2. TypeOK
  <2>1. log \in Seq([fp : Fingerprints, verdict : Decidable]) /\ Len(log) = 0
    BY DEF Init
  <2> QED
    BY <1>1, <2>1, PolicyAssumption DEF Init, TypeOK, Positions
<1>3. CursorsInLog
  BY DEF Init, CursorsInLog, EmptyDatabase
<1>4. AnswersInLog
  BY DEF Init, AnswersInLog
<1>5. ScopesSupported(db) /\ ScopesSupported(durable)
  BY DEF Init, ScopesSupported, EmptyDatabase
<1> QED
  BY <1>2, <1>3, <1>4, <1>5 DEF PolicyInv

LEMMA HubDecideInv ==
    ASSUME PolicyInv, NEW f \in Fingerprints, NEW v \in Decidable, HubDecide(f, v)
    PROVE  PolicyInv'
<1>1. PICK d \in [fp : Fingerprints, verdict : Decidable] : log' = Append(log, d)
  BY DEF HubDecide
<1>2. LogOK
  BY DEF PolicyInv, TypeOK, LogOK
<1>3. /\ LogOK' /\ Len(log') = Len(log) + 1 /\ Len(log) \in Nat
      /\ \A k \in 1..Len(log) : log'[k] = log[k]
  BY <1>1, <1>2, LogGrows
<1>4. UNCHANGED <<ranges, db, durable, pc, mem, resp, trusted, faults>>
  BY DEF HubDecide
<1>5. TypeOK'
  <2>1. Len(log') <= MaxLog
    BY <1>3, PolicyAssumption DEF HubDecide
  <2> QED
    BY <1>3, <1>4, <2>1 DEF PolicyInv, TypeOK, LogOK
<1>6. CursorsInLog'
  BY <1>3, <1>4, PolicyAssumption
  DEF PolicyInv, CursorsInLog, TypeOK, Databases, Positions
<1>7. AnswersInLog'
  <2> SUFFICES ASSUME NEW p \in Procs, pc[p] \in {"answered", "apply", "committed"}
               PROVE  /\ resp[p].from = mem[p]
                      /\ resp[p].from <= resp[p].to /\ resp[p].to <= Len(log')
                      /\ resp[p].cursor \in {0, resp[p].to}
                      /\ pc[p] # "answered" => Acceptable(resp[p])'
    BY <1>4 DEF AnswersInLog
  <2>1. PICK i \in Nat, j \in Nat : /\ i = resp[p].from /\ j = resp[p].to
                                    /\ i = mem[p] /\ i <= j /\ j <= Len(log)
                                    /\ resp[p].cursor \in {0, j}
                                    /\ pc[p] # "answered" => Acceptable(resp[p])
    BY PolicyAssumption DEF PolicyInv, TypeOK, Responses, Positions, AnswersInLog
  <2>2. Acceptable(resp[p]) => Acceptable(resp[p])'
    BY <1>3, <1>4, <2>1 DEF Acceptable
  <2> QED
    BY <1>3, <2>1, <2>2
<1>8. ScopesSupported(db)' /\ ScopesSupported(durable)'
  BY <1>4 DEF PolicyInv, ScopesSupported
<1> QED
  BY <1>5, <1>6, <1>7, <1>8 DEF PolicyInv

\* A step that leaves the log and the database file alone has only to keep the
\* Syncers' state in order.
LEMMA SyncerInv ==
    ASSUME PolicyInv, UNCHANGED <<log, db, durable>>, TypeOK',
           \A p \in Procs : mem'[p] <= Len(log), AnswersInLog'
    PROVE  PolicyInv'
BY DEF PolicyInv, CursorsInLog, ScopesSupported

LEMMA NewInv ==
    ASSUME PolicyInv, NEW p \in Procs, New(p) PROVE PolicyInv'
<1>1. TypeOK'
  BY DEF PolicyInv, New, TypeOK, Databases
<1>2. \A q \in Procs : mem'[q] <= Len(log)
  BY DEF PolicyInv, New, TypeOK, CursorsInLog
<1>3. \A r : Acceptable(r)' = Acceptable(r)
  BY LogStays DEF New
<1>4. AnswersInLog'
  BY <1>3 DEF PolicyInv, New, TypeOK, AnswersInLog
<1> QED
  BY <1>1, <1>2, <1>4, SyncerInv DEF New

LEMMA PullInv ==
    ASSUME PolicyInv, NEW p \in Procs, NEW withCursor \in BOOLEAN,
           NEW withRanges \in BOOLEAN, Pull(p, withCursor, withRanges)
    PROVE  PolicyInv'
<1>1. PICK r : /\ r = [from   |-> mem[p],
                       to     |-> Len(log),
                       cursor |-> IF withCursor THEN Len(log) ELSE 0,
                       ranges |-> IF withRanges THEN ranges ELSE 0]
               /\ resp' = [resp EXCEPT ![p] = r]
  BY DEF Pull
<1>2. mem[p] \in Positions /\ Len(log) \in Positions /\ ranges \in 0..MaxRanges
  BY PolicyAssumption DEF PolicyInv, TypeOK, Positions
<1>3. /\ r \in Responses
      /\ r.from = mem[p] /\ r.to = Len(log) /\ r.cursor \in {0, Len(log)}
  BY <1>1, <1>2, PolicyAssumption DEF Responses, Positions
<1>4. TypeOK'
  BY <1>1, <1>3 DEF PolicyInv, Pull, TypeOK
<1>5. \A q \in Procs : mem'[q] <= Len(log)
  BY DEF PolicyInv, Pull, CursorsInLog
<1>6. \A x : Acceptable(x)' = Acceptable(x)
  BY LogStays DEF Pull
<1>7. mem[p] <= Len(log) /\ Len(log) <= Len(log)
  BY <1>2 DEF PolicyInv, CursorsInLog, Positions
<1>8. AnswersInLog'
  BY <1>1, <1>3, <1>6, <1>7 DEF PolicyInv, Pull, TypeOK, AnswersInLog
<1> QED
  BY <1>4, <1>5, <1>8, SyncerInv DEF Pull

\* A pull ends, whether in an error or at its end.
LEMMA GiveUpInv ==
    ASSUME PolicyInv, NEW p \in Procs, GiveUp(p) PROVE PolicyInv'
<1>1. NoResponse \in Responses
  BY PolicyAssumption DEF NoResponse, Responses, Positions
<1>2. TypeOK'
  BY <1>1 DEF PolicyInv, GiveUp, TypeOK
<1>3. \A q \in Procs : mem'[q] <= Len(log)
  BY DEF PolicyInv, GiveUp, CursorsInLog
<1>4. \A x : Acceptable(x)' = Acceptable(x)
  BY LogStays DEF GiveUp
<1>5. AnswersInLog'
  BY <1>4 DEF PolicyInv, GiveUp, TypeOK, AnswersInLog
<1> QED
  BY <1>2, <1>3, <1>5, SyncerInv DEF GiveUp

LEMMA ApplyTrustedRangesInv ==
    ASSUME PolicyInv, NEW p \in Procs, ApplyTrustedRanges(p) PROVE PolicyInv'
<1>1. resp[p].ranges \in 0..MaxRanges
  BY DEF PolicyInv, TypeOK, Responses
<1>2. TypeOK'
  BY <1>1 DEF PolicyInv, ApplyTrustedRanges, TypeOK
<1>3. \A q \in Procs : mem'[q] <= Len(log)
  BY DEF PolicyInv, ApplyTrustedRanges, CursorsInLog
<1>4. \A x : Acceptable(x)' = Acceptable(x)
  BY LogStays DEF ApplyTrustedRanges
<1>5. AnswersInLog'
  BY <1>4 DEF PolicyInv, ApplyTrustedRanges, TypeOK, AnswersInLog
<1> QED
  BY <1>2, <1>3, <1>5, SyncerInv DEF ApplyTrustedRanges

\* ApplyDecisions writes only what the checks have let through.
LEMMA AppliedDatabase ==
    ASSUME LogOK, NEW d \in Databases, NEW r \in Responses, r.to <= Len(log), Acceptable(r)
    PROVE  /\ ApplyDecisions(d, r) \in Databases
           /\ ScopesSupported(d) => ScopesSupported(ApplyDecisions(d, r))
           /\ ApplyDecisions(d, r).cursor = IF r.cursor = 0 THEN d.cursor ELSE r.cursor
           /\ \A f \in Fingerprints :
                  ApplyDecisions(d, r).verdict[f] =
                      IF DecidedAt(f, r.from, r.to) = {} THEN d.verdict[f] ELSE Latest(f, r.to)
<1>1. PICK v, c : /\ v = [f \in Fingerprints |->
                            IF DecidedAt(f, r.from, r.to) = {} THEN d.verdict[f]
                            ELSE Latest(f, r.to)]
                  /\ c = IF r.cursor = 0 THEN d.cursor ELSE r.cursor
  OBVIOUS
<1>2. ApplyDecisions(d, r) = [verdict |-> v, cursor |-> c]
  BY <1>1 DEF ApplyDecisions
<1>3. c \in Positions
  BY <1>1 DEF Databases, Responses
<1>4. ASSUME NEW f \in Fingerprints
      PROVE  /\ v[f] \in RowVerdicts
             /\ ScopesSupported(d) /\ ~SupportsApprovalRanges => v[f] # "restricted"
             /\ v[f] = IF DecidedAt(f, r.from, r.to) = {} THEN d.verdict[f]
                       ELSE Latest(f, r.to)
  <2>1. v[f] = IF DecidedAt(f, r.from, r.to) = {} THEN d.verdict[f] ELSE Latest(f, r.to)
    BY <1>1
  <2>2. d.verdict[f] \in RowVerdicts
    BY DEF Databases
  <2>3. CASE DecidedAt(f, r.from, r.to) = {}
    BY <2>1, <2>2, <2>3 DEF ScopesSupported
  <2>4. CASE DecidedAt(f, r.from, r.to) # {}
    <3>1. /\ Latest(f, r.to) \in HubVerdicts \ {"malformed"}
          /\ ~SupportsApprovalRanges => Latest(f, r.to) # "restricted"
      BY <2>4, LatestOfAnswer
    <3> QED
      BY <2>1, <2>4, <3>1 DEF RowVerdicts, HubVerdicts
  <2> QED
    BY <2>3, <2>4
<1>5. v \in [Fingerprints -> RowVerdicts]
  <2>1. v = [f \in Fingerprints |-> v[f]]
    BY <1>1
  <2> QED
    BY <1>4, <2>1
<1>6. PICK a : a = ApplyDecisions(d, r)
  OBVIOUS
<1>7. a.verdict = v /\ a.cursor = c /\ a \in Databases
  BY <1>2, <1>3, <1>5, <1>6 DEF Databases
<1>8. ScopesSupported(d) => ScopesSupported(a)
  BY <1>4, <1>7 DEF ScopesSupported
<1> QED
  BY <1>1, <1>4, <1>6, <1>7, <1>8

LEMMA CommitInv ==
    ASSUME PolicyInv, NEW p \in Procs, Commit(p) PROVE PolicyInv'
<1>1. PICK r \in Responses : r = resp[p]
  BY DEF PolicyInv, TypeOK
<1>2. /\ LogOK /\ db \in Databases
      /\ r.to <= Len(log) /\ Acceptable(r) /\ r.cursor \in {0, r.to}
  BY <1>1 DEF PolicyInv, TypeOK, LogOK, Commit, AnswersInLog
<1>3. PICK d \in Databases :
        /\ db' = d
        /\ ScopesSupported(d)
        /\ d.cursor = IF r.cursor = 0 THEN db.cursor ELSE r.cursor
  BY <1>1, <1>2, AppliedDatabase DEF PolicyInv, Commit
<1>4. TypeOK'
  BY <1>3 DEF PolicyInv, Commit, TypeOK
<1>5. CursorsInLog'
  BY <1>2, <1>3 DEF PolicyInv, Commit, CursorsInLog
<1>6. \A x : Acceptable(x)' = Acceptable(x)
  BY LogStays DEF Commit
<1>7. AnswersInLog'
  BY <1>6 DEF PolicyInv, Commit, TypeOK, AnswersInLog
<1>8. ScopesSupported(db)' /\ ScopesSupported(durable)'
  BY <1>3 DEF PolicyInv, Commit, ScopesSupported
<1> QED
  BY <1>4, <1>5, <1>7, <1>8 DEF PolicyInv

LEMMA AdvanceInv ==
    ASSUME PolicyInv, NEW p \in Procs, Advance(p) PROVE PolicyInv'
<1>1. NoResponse \in Responses
  BY PolicyAssumption DEF NoResponse, Responses, Positions
<1>2. PICK c \in Positions : c = resp[p].cursor /\ (c = 0 \/ c <= Len(log))
  BY DEF PolicyInv, TypeOK, Responses, Advance, AnswersInLog
<1>3. TypeOK'
  BY <1>1, <1>2 DEF PolicyInv, Advance, TypeOK
<1>4. \A q \in Procs : mem'[q] <= Len(log)
  BY <1>2 DEF PolicyInv, TypeOK, Advance, CursorsInLog
<1>5. \A x : Acceptable(x)' = Acceptable(x)
  BY LogStays DEF Advance
<1>6. AnswersInLog'
  BY <1>5 DEF PolicyInv, Advance, TypeOK, AnswersInLog
<1> QED
  BY <1>3, <1>4, <1>6, SyncerInv DEF Advance

\* A fault only makes processes forget.
LEMMA CrashInv ==
    ASSUME PolicyInv, NEW p \in Procs, Crash(p) PROVE PolicyInv'
<1>1. NoResponse \in Responses /\ 0 \in Positions /\ 0 \in 0..MaxRanges
  BY PolicyAssumption DEF NoResponse, Responses, Positions
<1>2. Len(log) \in Nat /\ faults' \in 0..MaxFaults
  BY PolicyAssumption DEF PolicyInv, TypeOK, Crash
<1>3. pc' \in [Procs -> {"down", "idle", "answered", "apply", "committed"}]
  BY DEF PolicyInv, TypeOK, Crash
<1>4. mem' \in [Procs -> Positions] /\ trusted' \in [Procs -> 0..MaxRanges]
  BY <1>1 DEF PolicyInv, TypeOK, Crash
<1>5. TypeOK'
  BY <1>1, <1>2, <1>3, <1>4 DEF PolicyInv, TypeOK, Crash
<1>6. \A q \in Procs : mem'[q] <= Len(log)
  BY <1>2 DEF PolicyInv, TypeOK, CursorsInLog, Crash
<1>7. \A x : Acceptable(x)' = Acceptable(x)
  BY LogStays DEF Crash
<1>8. AnswersInLog'
  BY <1>7 DEF PolicyInv, TypeOK, AnswersInLog, Crash
<1> QED
  BY <1>5, <1>6, <1>8, SyncerInv DEF Crash

LEMMA PowerLossInv ==
    ASSUME PolicyInv, PowerLoss PROVE PolicyInv'
<1>1. NoResponse \in Responses /\ 0 \in Positions /\ 0 \in 0..MaxRanges
  BY PolicyAssumption DEF NoResponse, Responses, Positions
<1>2. Len(log) \in Nat /\ faults' \in 0..MaxFaults
  BY PolicyAssumption DEF PolicyInv, TypeOK, PowerLoss
<1>3. TypeOK'
  BY <1>1, <1>2 DEF PolicyInv, TypeOK, PowerLoss
<1>4. CursorsInLog'
  BY <1>2 DEF PolicyInv, TypeOK, CursorsInLog, PowerLoss
<1>5. AnswersInLog'
  BY DEF AnswersInLog, PowerLoss
<1>6. ScopesSupported(db)' /\ ScopesSupported(durable)'
  BY DEF PolicyInv, ScopesSupported, PowerLoss
<1> QED
  BY <1>3, <1>4, <1>5, <1>6 DEF PolicyInv

\* The other writers of the database file, which leave the Syncers alone.
LEMMA WriterInv ==
    ASSUME PolicyInv, UNCHANGED <<log, ranges, pc, mem, resp, trusted, faults>>,
           db' \in Databases, durable' \in {durable, db},
           db'.cursor <= Len(log), ScopesSupported(db')
    PROVE  PolicyInv'
<1>1. TypeOK' /\ CursorsInLog'
  BY DEF PolicyInv, TypeOK, CursorsInLog
<1>2. \A x : Acceptable(x)' = Acceptable(x)
  BY LogStays
<1>3. AnswersInLog'
  BY <1>2 DEF PolicyInv, AnswersInLog
<1>4. ScopesSupported(db)' /\ ScopesSupported(durable)'
  BY DEF PolicyInv, ScopesSupported
<1> QED
  BY <1>1, <1>3, <1>4 DEF PolicyInv

LEMMA CheckpointInv ==
    ASSUME PolicyInv, Checkpoint PROVE PolicyInv'
BY WriterInv DEF Checkpoint, PolicyInv, TypeOK, CursorsInLog

LEMMA ObserveUnknownInv ==
    ASSUME PolicyInv, NEW f \in Fingerprints, ObserveUnknown(f) PROVE PolicyInv'
<1>1. /\ db \in Databases /\ "pending" \in RowVerdicts
      /\ db' = [db EXCEPT !.verdict[f] = "pending"]
  BY DEF ObserveUnknown, PolicyInv, TypeOK, RowVerdicts, HubVerdicts
<1>2. /\ db' \in Databases /\ db'.cursor = db.cursor
      /\ \A g \in Fingerprints : db'.verdict[g] = IF g = f THEN "pending" ELSE db.verdict[g]
  BY <1>1 DEF Databases
<1>3. ScopesSupported(db')
  BY <1>2 DEF PolicyInv, ScopesSupported
<1> QED
  BY <1>2, <1>3, WriterInv DEF ObserveUnknown, PolicyInv, CursorsInLog

LEMMA EvictInv ==
    ASSUME PolicyInv, NEW f \in Fingerprints, Evict(f) PROVE PolicyInv'
<1>1. /\ db \in Databases /\ "absent" \in RowVerdicts
      /\ db' = [db EXCEPT !.verdict[f] = "absent"]
  BY DEF Evict, PolicyInv, TypeOK, RowVerdicts
<1>2. /\ db' \in Databases /\ db'.cursor = db.cursor
      /\ \A g \in Fingerprints : db'.verdict[g] = IF g = f THEN "absent" ELSE db.verdict[g]
  BY <1>1 DEF Databases
<1>3. ScopesSupported(db')
  BY <1>2 DEF PolicyInv, ScopesSupported
<1> QED
  BY <1>2, <1>3, WriterInv DEF Evict, PolicyInv, CursorsInLog

LEMMA ResetFingerprintsInv ==
    ASSUME PolicyInv, ResetFingerprints PROVE PolicyInv'
<1>1. EmptyDatabase \in Databases /\ EmptyDatabase.cursor = 0
  BY PolicyAssumption DEF EmptyDatabase, Databases, Positions, RowVerdicts
<1>2. ScopesSupported(EmptyDatabase)
  BY DEF ScopesSupported, EmptyDatabase
<1>3. Len(log) \in Nat
  BY DEF PolicyInv, TypeOK
<1> QED
  BY <1>1, <1>2, <1>3, WriterInv DEF ResetFingerprints, ResetDatabase

LEMMA PolicyStep == PolicyInv /\ [Next]_vars => PolicyInv'
<1> SUFFICES ASSUME PolicyInv, [Next]_vars PROVE PolicyInv'
  OBVIOUS
<1>1. CASE UNCHANGED vars
  <2>1. UNCHANGED <<log, ranges, db, durable, pc, mem, resp, trusted, faults>>
    BY <1>1 DEF vars
  <2> QED
    BY <2>1, WriterInv DEF PolicyInv, TypeOK, CursorsInLog
<1>2. CASE HubSetRanges
  <2>1. TypeOK'
    BY <1>2, PolicyAssumption DEF HubSetRanges, PolicyInv, TypeOK
  <2>2. \A x : Acceptable(x)' = Acceptable(x)
    BY <1>2, LogStays DEF HubSetRanges
  <2>3. AnswersInLog'
    BY <1>2, <2>2 DEF HubSetRanges, PolicyInv, AnswersInLog
  <2> QED
    BY <1>2, <2>1, <2>3, SyncerInv DEF HubSetRanges, PolicyInv, CursorsInLog
<1>3. ASSUME NEW p \in Procs, New(p) \/ PullStep(p) \/ Crash(p) PROVE PolicyInv'
  <2>1. CASE \E withCursor \in SendsCursor, withRanges \in BOOLEAN :
                 Pull(p, withCursor, withRanges)
    BY <2>1, PullInv, PolicyAssumption
  <2>2. CASE Reject(p) \/ TrustedRangesFail(p) \/ CommitFail(p)
    BY <2>2, GiveUpInv DEF Reject, TrustedRangesFail, CommitFail
  <2> QED
    BY <1>3, <2>1, <2>2, NewInv, ApplyTrustedRangesInv, CommitInv, AdvanceInv, CrashInv
    DEF PullStep
<1> QED
  BY <1>1, <1>2, <1>3, HubDecideInv, CheckpointInv, PowerLossInv, ObserveUnknownInv,
     EvictInv, ResetFingerprintsInv DEF Next

\* Whatever the hub publishes, however processes overlap, and whatever faults
\* there are: cursors stay inside the log and no malformed decision gets into a row.
THEOREM PolicyTypeSafe == Spec => []TypeOK
<1>1. PolicyInv => TypeOK
  BY DEF PolicyInv
<1> QED
  BY PolicyInit, PolicyStep, <1>1, PTL DEF Spec

\* A gate that does not enforce scopes never stores a restricted approval: the
\* checks cover the whole answer, and the log they looked at only grows.
THEOREM ScopesSafe == Spec => []NoUnsupportedScope
<1>1. PolicyInv => NoUnsupportedScope
  BY DEF PolicyInv, ScopesSupported, NoUnsupportedScope
<1> QED
  BY PolicyInit, PolicyStep, <1>1, PTL DEF Spec

-----------------------------------------------------------------------------
(* The second invariant: one Syncer at a time, and no reset under it *)

\* The log grows and the database does not change.
LEMMA StaysInForce ==
    ASSUME LogOK, NEW d \in Databases, d.cursor <= Len(log), InForce(d),
           \/ UNCHANGED log
           \/ \E e \in [fp : Fingerprints, verdict : Decidable] : log' = Append(log, e)
    PROVE  \A f \in Fingerprints : \E k \in d.cursor..Len(log') :
               Agrees(d.verdict[f], Latest(f, k)')
<1>1. PICK n \in Nat, m \in Nat : n = Len(log) /\ m = Len(log') /\ n <= m
  BY LogGrows DEF LogOK
<1>2. d.cursor \in Nat
  BY PolicyAssumption DEF Databases, Positions
<1>3. \A f : \A k \in 0..n : Latest(f, k)' = Latest(f, k)
  BY <1>1, LogStays, LogGrows
<1>4. ASSUME NEW f \in Fingerprints
      PROVE  \E k \in d.cursor..m : Agrees(d.verdict[f], Latest(f, k)')
  <2>1. PICK k \in d.cursor..n : Agrees(d.verdict[f], Latest(f, k))
    BY <1>1 DEF InForce
  <2>2. k \in 0..n /\ k \in d.cursor..m
    BY <1>1, <1>2
  <2> QED
    BY <1>3, <2>1, <2>2
<1> QED
  BY <1>1, <1>4

\* An answer that starts at the saved cursor is applied: what it decides holds at
\* its end, and what it does not mention held at its end already.
LEMMA AppliedInForce ==
    ASSUME LogOK, NEW d \in Databases, NEW r \in Responses, Acceptable(r),
           r.from = d.cursor, r.from <= r.to, r.to <= Len(log), r.cursor \in {0, r.to},
           InForce(d)
    PROVE  InForce(ApplyDecisions(d, r))
<1>1. PICK i \in Nat, j \in Nat, n \in Nat :
        /\ i = r.from /\ i = d.cursor /\ j = r.to /\ n = Len(log) /\ i <= j /\ j <= n
  BY PolicyAssumption DEF LogOK, Databases, Responses, Positions
<1>2. PICK a \in Databases :
        /\ a = ApplyDecisions(d, r)
        /\ a.cursor = IF r.cursor = 0 THEN d.cursor ELSE r.cursor
        /\ \A f \in Fingerprints :
               a.verdict[f] = IF DecidedAt(f, r.from, r.to) = {} THEN d.verdict[f]
                              ELSE Latest(f, r.to)
  BY AppliedDatabase
<1>3. PICK c \in {i, j} : c = a.cursor
  BY <1>1, <1>2
<1>4. j \in c..n
  BY <1>1, <1>3
<1>5. ASSUME NEW f \in Fingerprints
      PROVE  \E k \in c..n : Agrees(a.verdict[f], Latest(f, k))
  <2>1. CASE DecidedAt(f, i, j) # {}
    <3>1. a.verdict[f] = Latest(f, j)
      BY <1>1, <1>2, <2>1
    <3>2. Agrees(a.verdict[f], Latest(f, j))
      BY <3>1 DEF Agrees
    <3> QED
      BY <1>4, <3>2
  <2>2. CASE DecidedAt(f, i, j) = {}
    <3>1. a.verdict[f] = d.verdict[f]
      BY <1>1, <1>2, <2>2
    <3>2. PICK k \in i..n : Agrees(d.verdict[f], Latest(f, k))
      BY <1>1 DEF InForce
    <3>3. CASE k <= j
      <4>1. Latest(f, k) = Latest(f, j)
        BY <1>1, <2>2, <3>3, LatestSkips
      <4> QED
        BY <1>4, <3>1, <3>2, <4>1
    <3>4. CASE ~(k <= j)
      <4>1. k \in c..n
        BY <1>1, <1>3, <3>4
      <4> QED
        BY <3>1, <3>2, <4>1
    <3> QED
      BY <3>3, <3>4
  <2> QED
    BY <2>1, <2>2
<1> QED
  BY <1>1, <1>2, <1>3, <1>5 DEF InForce

\* A row that is no approval may come and go.
LEMMA UndecidedMayChange ==
    ASSUME NEW v \in {"absent", "pending", "blocked"}, NEW w \in {"absent", "pending"},
           NEW verdict, Agrees(v, verdict)
    PROVE  Agrees(w, verdict)
BY DEF Agrees

\* Nothing is claimed at position 0.
LEMMA EmptyInForce ==
    ASSUME Len(log) \in Nat PROVE InForce(EmptyDatabase)
<1>1. EmptyDatabase.cursor = 0 /\ \A f \in Fingerprints : EmptyDatabase.verdict[f] = "absent"
  BY DEF EmptyDatabase
<1>2. \A f : DecidedAt(f, 0, 0) = {}
  BY DEF DecidedAt
<1>3. \A f : Latest(f, 0) = "absent"
  BY <1>2 DEF Latest
<1>4. Agrees("absent", "absent") /\ 0 \in 0..Len(log)
  BY DEF Agrees
<1> QED
  BY <1>1, <1>3, <1>4 DEF InForce

LEMMA SyncInit == Init => SyncInv
<1> SUFFICES ASSUME Init PROVE SyncInv
  OBVIOUS
<1>1. Len(log) = 0 /\ EmptyDatabase.cursor = 0
  BY DEF Init, EmptyDatabase
<1>2. InForce(EmptyDatabase)
  BY <1>1, EmptyInForce
<1>3. OneSyncer /\ CursorsMatch
  BY DEF Init, OneSyncer, CursorsMatch
<1> QED
  BY <1>2, <1>3 DEF Init, SyncInv

\* A step that leaves the database alone.
LEMMA SyncersOnly ==
    ASSUME PolicyInv, SyncInv, UNCHANGED <<db, durable>>,
           \/ UNCHANGED log
           \/ \E e \in [fp : Fingerprints, verdict : Decidable] : log' = Append(log, e)
    PROVE  InForce(db)' /\ InForce(durable)'
<1>1. LogOK /\ db \in Databases /\ durable \in Databases
  BY DEF PolicyInv, TypeOK, LogOK
<1>2. db.cursor <= Len(log) /\ durable.cursor <= Len(log)
  BY DEF PolicyInv, CursorsInLog
<1>3. /\ \A f \in Fingerprints : \E k \in db.cursor..Len(log') :
             Agrees(db.verdict[f], Latest(f, k)')
      /\ \A f \in Fingerprints : \E k \in durable.cursor..Len(log') :
             Agrees(durable.verdict[f], Latest(f, k)')
  BY <1>1, <1>2, StaysInForce DEF SyncInv
<1> QED
  BY <1>3 DEF InForce, Agrees

\* A step that leaves the log alone.
LEMMA DatabaseOnly ==
    ASSUME UNCHANGED log, InForce(db'), InForce(durable')
    PROVE  InForce(db)' /\ InForce(durable)'
<1>1. Len(log') = Len(log) /\ \A f, k : Latest(f, k)' = Latest(f, k)
  BY LogStays
<1> QED
  BY <1>1 DEF InForce, Agrees

\* A Syncer that starts is alone, and starts from the saved cursor.
LEMMA NewSync ==
    ASSUME ~Overlap, PolicyInv, SyncInv, NEW p \in Procs, New(p) PROVE SyncInv'
<1>1. OneSyncer' /\ CursorsMatch'
  BY DEF PolicyInv, TypeOK, SyncInv, OneSyncer, CursorsMatch, New
<1> QED
  BY <1>1, SyncersOnly DEF New, SyncInv

LEMMA PullSync ==
    ASSUME PolicyInv, SyncInv, NEW p \in Procs, NEW withCursor, NEW withRanges,
           Pull(p, withCursor, withRanges)
    PROVE  SyncInv'
<1>1. OneSyncer' /\ CursorsMatch'
  BY DEF PolicyInv, TypeOK, SyncInv, OneSyncer, CursorsMatch, Pull
<1> QED
  BY <1>1, SyncersOnly DEF Pull, SyncInv

\* A pull that gives up before the commit leaves both cursors as they were.
LEMMA GiveUpSync ==
    ASSUME PolicyInv, SyncInv, NEW p \in Procs, pc[p] \in {"answered", "apply"}, GiveUp(p)
    PROVE  SyncInv'
<1>1. OneSyncer' /\ CursorsMatch'
  BY DEF PolicyInv, TypeOK, SyncInv, OneSyncer, CursorsMatch, GiveUp
<1> QED
  BY <1>1, SyncersOnly DEF GiveUp, SyncInv

LEMMA ApplyTrustedRangesSync ==
    ASSUME PolicyInv, SyncInv, NEW p \in Procs, ApplyTrustedRanges(p) PROVE SyncInv'
<1>1. OneSyncer' /\ CursorsMatch'
  BY DEF PolicyInv, TypeOK, SyncInv, OneSyncer, CursorsMatch, ApplyTrustedRanges
<1> QED
  BY <1>1, SyncersOnly DEF ApplyTrustedRanges, SyncInv

LEMMA CommitSync ==
    ASSUME PolicyInv, SyncInv, NEW p \in Procs, Commit(p) PROVE SyncInv'
<1>1. PICK r \in Responses : r = resp[p]
  BY DEF PolicyInv, TypeOK
<1>2. /\ LogOK /\ db \in Databases /\ Acceptable(r)
      /\ r.from = mem[p] /\ r.from <= r.to /\ r.to <= Len(log) /\ r.cursor \in {0, r.to}
  BY <1>1 DEF PolicyInv, TypeOK, LogOK, Commit, AnswersInLog
<1>3. mem[p] = db.cursor
  BY DEF SyncInv, CursorsMatch, Commit
<1>4. InForce(db')
  BY <1>1, <1>2, <1>3, AppliedInForce DEF SyncInv, Commit
<1>5. db'.cursor = IF r.cursor = 0 THEN db.cursor ELSE r.cursor
  BY <1>1, <1>2, AppliedDatabase DEF Commit
<1>6. OneSyncer'
  BY DEF PolicyInv, TypeOK, SyncInv, OneSyncer, Commit
<1>7. CursorsMatch'
  <2>1. \A q \in Procs : pc[q] # "down" => q = p
    BY DEF SyncInv, OneSyncer, Commit
  <2> QED
    BY <1>1, <1>3, <1>5, <2>1 DEF PolicyInv, TypeOK, CursorsMatch, Commit
<1> QED
  BY <1>4, <1>6, <1>7, DatabaseOnly DEF SyncInv, Commit

LEMMA AdvanceSync ==
    ASSUME PolicyInv, SyncInv, NEW p \in Procs, Advance(p) PROVE SyncInv'
<1>1. OneSyncer' /\ CursorsMatch'
  BY DEF PolicyInv, TypeOK, SyncInv, OneSyncer, CursorsMatch, Advance
<1> QED
  BY <1>1, SyncersOnly DEF Advance, SyncInv

LEMMA CrashSync ==
    ASSUME PolicyInv, SyncInv, NEW p \in Procs, Crash(p) PROVE SyncInv'
<1>1. OneSyncer' /\ CursorsMatch'
  BY DEF PolicyInv, TypeOK, SyncInv, OneSyncer, CursorsMatch, Crash
<1> QED
  BY <1>1, SyncersOnly DEF Crash, SyncInv

\* The rows a power loss brings back are older, and so is the cursor with them.
LEMMA PowerLossSync ==
    ASSUME PolicyInv, SyncInv, PowerLoss PROVE SyncInv'
<1>1. OneSyncer' /\ CursorsMatch'
  BY DEF OneSyncer, CursorsMatch, PowerLoss
<1> QED
  BY <1>1, DatabaseOnly DEF PowerLoss, SyncInv

LEMMA ObserveUnknownSync ==
    ASSUME PolicyInv, SyncInv, NEW f \in Fingerprints, ObserveUnknown(f) PROVE SyncInv'
<1>1. /\ db'.cursor = db.cursor
      /\ \A g \in Fingerprints : db'.verdict[g] = IF g = f THEN "pending" ELSE db.verdict[g]
  BY DEF ObserveUnknown, PolicyInv, TypeOK, Databases
<1>2. ASSUME NEW g \in Fingerprints, NEW w, Agrees(db.verdict[g], w)
      PROVE  Agrees(db'.verdict[g], w)
  BY <1>1, <1>2, UndecidedMayChange DEF ObserveUnknown
<1>3. InForce(db')
  BY <1>1, <1>2 DEF SyncInv, InForce
<1>4. OneSyncer' /\ CursorsMatch'
  BY <1>1 DEF ObserveUnknown, SyncInv, OneSyncer, CursorsMatch
<1> QED
  BY <1>3, <1>4, DatabaseOnly DEF ObserveUnknown, SyncInv

LEMMA EvictSync ==
    ASSUME PolicyInv, SyncInv, NEW f \in Fingerprints, Evict(f) PROVE SyncInv'
<1>1. /\ db'.cursor = db.cursor
      /\ \A g \in Fingerprints : db'.verdict[g] = IF g = f THEN "absent" ELSE db.verdict[g]
  BY DEF Evict, PolicyInv, TypeOK, Databases
<1>2. ASSUME NEW g \in Fingerprints, NEW w, Agrees(db.verdict[g], w)
      PROVE  Agrees(db'.verdict[g], w)
  BY <1>1, <1>2, UndecidedMayChange DEF Evict
<1>3. InForce(db')
  BY <1>1, <1>2 DEF SyncInv, InForce
<1>4. OneSyncer' /\ CursorsMatch'
  BY <1>1 DEF Evict, SyncInv, OneSyncer, CursorsMatch
<1> QED
  BY <1>3, <1>4, DatabaseOnly DEF Evict, SyncInv

\* Rows and cursor go together, while nobody has an older cursor in memory.
LEMMA ResetSync ==
    ASSUME ~ResetWhileSyncing, PolicyInv, SyncInv, ResetFingerprints PROVE SyncInv'
<1>1. \A p \in Procs : pc[p] = "down" /\ pc'[p] = "down"
  BY DEF ResetFingerprints
<1>2. InForce(db')
  BY EmptyInForce DEF PolicyInv, TypeOK, ResetFingerprints, ResetDatabase
<1>3. OneSyncer' /\ CursorsMatch'
  BY <1>1 DEF OneSyncer, CursorsMatch
<1> QED
  BY <1>2, <1>3, DatabaseOnly DEF ResetFingerprints, SyncInv

LEMMA SyncStep ==
    ASSUME ~Overlap, ~ResetWhileSyncing
    PROVE  PolicyInv /\ SyncInv /\ [Next]_vars => SyncInv'
<1> SUFFICES ASSUME PolicyInv, SyncInv, [Next]_vars PROVE SyncInv'
  OBVIOUS
<1>1. CASE UNCHANGED vars
  BY <1>1, SyncersOnly DEF vars, SyncInv, OneSyncer, CursorsMatch
<1>2. ASSUME NEW f \in Fingerprints, NEW v \in Decidable, HubDecide(f, v) PROVE SyncInv'
  <2>1. \E e \in [fp : Fingerprints, verdict : Decidable] : log' = Append(log, e)
    BY <1>2 DEF HubDecide
  <2> QED
    BY <1>2, <2>1, SyncersOnly DEF HubDecide, SyncInv, OneSyncer, CursorsMatch
<1>3. CASE HubSetRanges
  BY <1>3, SyncersOnly DEF HubSetRanges, SyncInv, OneSyncer, CursorsMatch
<1>4. ASSUME NEW p \in Procs, New(p) \/ PullStep(p) \/ Crash(p) PROVE SyncInv'
  <2>1. CASE Reject(p) \/ TrustedRangesFail(p) \/ CommitFail(p)
    BY <2>1, GiveUpSync DEF Reject, TrustedRangesFail, CommitFail
  <2> QED
    BY <1>4, <2>1, NewSync, PullSync, ApplyTrustedRangesSync, CommitSync, AdvanceSync,
       CrashSync DEF PullStep
<1>5. CASE Checkpoint
  BY <1>5, DatabaseOnly DEF Checkpoint, SyncInv, OneSyncer, CursorsMatch
<1> QED
  BY <1>1, <1>2, <1>3, <1>4, <1>5, PowerLossSync, ObserveUnknownSync, EvictSync, ResetSync
  DEF Next

LEMMA SyncInvariant ==
    ASSUME ~Overlap, ~ResetWhileSyncing
    PROVE  Spec => [](PolicyInv /\ SyncInv)
BY PolicyInit, PolicyStep, SyncInit, SyncStep, PTL DEF Spec

\* With one Syncer at a time, and no reset under it, the saved cursor never claims
\* more than the rows hold, whatever crashes, power losses, failed transactions,
\* refused answers, evictions and resets come between.  The runs in which two
\* processes overlap, or a reset comes under a running Syncer, show that neither
\* hypothesis can be left out.
THEOREM PolicyInForceSafe ==
    ASSUME ~Overlap, ~ResetWhileSyncing
    PROVE  Spec => []PolicyInForce
<1>1. SyncInv => PolicyInForce
  BY DEF SyncInv, InForce, PolicyInForce
<1> QED
  BY SyncInvariant, <1>1, PTL

\* Under the same hypotheses no Syncer is ahead of its database, so none asks the
\* hub for less than the database lacks.
THEOREM MemoryNotAheadSafe ==
    ASSUME ~Overlap, ~ResetWhileSyncing
    PROVE  Spec => []MemoryNotAhead
<1>1. PolicyInv /\ SyncInv => MemoryNotAhead
  <2> SUFFICES ASSUME PolicyInv, SyncInv, NEW p \in Procs, pc[p] # "down"
               PROVE  mem[p] <= db.cursor
    BY DEF MemoryNotAhead
  <2>1. mem[p] \in Nat /\ db.cursor \in Nat
    BY PolicyAssumption DEF PolicyInv, TypeOK, Databases, Positions
  <2>2. mem[p] = db.cursor \/ (pc[p] = "committed" /\ resp[p].cursor = db.cursor
                                  /\ db.cursor # 0)
    BY DEF PolicyInv, TypeOK, SyncInv, CursorsMatch
  <2> QED
    BY <2>1, <2>2 DEF PolicyInv, AnswersInLog
<1> QED
  BY SyncInvariant, <1>1, PTL
=============================================================================
