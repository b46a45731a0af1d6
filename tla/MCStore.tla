------------------------------- MODULE MCStore -------------------------------
(* Instances of Store for TLC, and the history the ghost properties need. *)
EXTENDS Store, TLC

\* No earlier release: every run starts from an empty file.
EmptyDatabase == {}

\* Rows an older release left: more addresses, ports and sightings than the
\* bounds allow, seen at different times, and a metadata bag over the limit.
OversizedRows ==
    {[status |-> st, label |-> NoLabel, first |-> 0, last |-> 0,
      count |-> 1, meta |-> MaxMetadataBytes + 1, scope |-> NoScope,
      ips |-> IPs, ports |-> Ports,
      sightings |-> {s \in [ip : IPs, port : Ports \cup {0}, last : 0..MaxTime] :
                        s.last = IF s.port = 0 THEN 0 ELSE late[s.ip]}]
        : st \in {"approved", "blocked"}, late \in [IPs -> {1, MaxTime}]}

\* first_seen differs from last_seen in at most one row.  No write reads
\* first_seen, so what other rows have there makes no difference.
MaxSeenLater == 1
SeenLaterBound ==
    Cardinality({f \in DOMAIN rows : rows[f].first # rows[f].last}) <= MaxSeenLater

FingerprintSymmetry == Permutations(Fingerprints)
=============================================================================
