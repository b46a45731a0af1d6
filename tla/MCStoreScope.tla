---------------------------- MODULE MCStoreScope ----------------------------
(***************************************************************************)
(* Store with a history variable: the fingerprints whose latest decision   *)
(* that could express a scope restricted them.                             *)
(***************************************************************************)
EXTENDS MCStore

VARIABLE restricted

SInit == Init /\ restricted = {}

SDecide ==
    \E batch \in Batches, c \in Cursors \cup {NoCursor} :
        /\ ApplyDecisions(batch, c)
        /\ restricted' = {f \in DOMAIN rows' :
               IF \E i \in DOMAIN batch : batch[i].fp = f
               THEN rows'[f].scope # NoScope
               ELSE f \in restricted}

SOther ==
    /\ Clock \/ Open \/ Close \/ ClientStep \/ PruneStep \/ OperatorStep
    /\ restricted' = restricted \cap DOMAIN rows'

SSpec == SInit /\ [][SDecide \/ SOther]_<<vars, restricted>>

\* docs/scoped-approvals.md: "Reapproving without an explicit scope choice must
\* not revive or silently broaden the former approval."  Fails when the status
\* setters block a restricted approval, which clears its scope, and approve it
\* again: MayOverwrite sees only the current row.
NoSilentBroadening ==
    \A f \in restricted \cap Approved(rows) : rows[f].scope # NoScope
=============================================================================
