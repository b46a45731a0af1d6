---------------------------- MODULE MCRateLimit ----------------------------
(***************************************************************************)
(* Two hosts of one IPv6 network and two IPv4 clients, for a limiter that  *)
(* tracks two of these three at a time.                                    *)
(***************************************************************************)
EXTENDS RateLimit

MCAddrs == {[family |-> "v6", net |-> 1, host |-> 1],
            [family |-> "v6", net |-> 1, host |-> 2],
            [family |-> "v4", net |-> 2, host |-> 1],
            [family |-> "v4", net |-> 2, host |-> 2]}
=============================================================================
