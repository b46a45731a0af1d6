---------------------------- MODULE StoreHistory ----------------------------
(***************************************************************************)
(* Store with a history variable: every address and port a row has ever    *)
(* been given, whatever trimming forgot.                                   *)
(***************************************************************************)
EXTENDS Store

VARIABLES everIPs, everPorts

hvars == <<vars, everIPs, everPorts>>

HInit ==
    /\ Init
    /\ everIPs = [f \in DOMAIN rows |-> rows[f].ips]
    /\ everPorts = [f \in DOMAIN rows |-> rows[f].ports]

\* What is remembered of the rows that are left, with x added to fp's.
Remember(ever, fp, x) ==
    [f \in DOMAIN rows' |->
        (IF f \in DOMAIN rows THEN ever[f] ELSE {})
            \cup (IF f = fp THEN {x} \ {0} ELSE {})]

HObserve ==
    \E fp \in Fingerprints, ip \in IPs \cup {0}, port \in Ports \cup {0},
       meta \in MetaSizes, blockUnknown \in BOOLEAN :
        /\ Observe(fp, ip, port, meta, blockUnknown)
        /\ everIPs' = Remember(everIPs, fp, ip)
        /\ everPorts' = Remember(everPorts, fp, port)

HOther ==
    /\ Clock \/ Open \/ Close \/ PruneStep \/ DecisionStep \/ OperatorStep
    /\ everIPs' = [f \in DOMAIN rows' |->
                      IF f \in DOMAIN rows THEN everIPs[f] ELSE {}]
    /\ everPorts' = [f \in DOMAIN rows' |->
                      IF f \in DOMAIN rows THEN everPorts[f] ELSE {}]

HSpec == HInit /\ [][HObserve \/ HOther]_hvars

\* kept is the first MaxObservationValues members of ever, or all of them.
FirstOf(kept, ever) ==
    /\ kept \subseteq ever
    /\ \A x \in kept, y \in ever \ kept : x < y
    /\ Cardinality(kept) = MaxObservationValues \/ kept = ever

\* README: the compatibility sets "retain the first 128 values in sorted order".
\* Trimming after every sighting, across restarts and from an oversized legacy
\* row, leaves what trimming everything ever seen once would have left.
RetainsFirstValues ==
    open => \A f \in DOMAIN rows :
                /\ FirstOf(rows[f].ips, everIPs[f])
                /\ FirstOf(rows[f].ports, everPorts[f])
=============================================================================
