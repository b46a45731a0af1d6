------------------------------- MODULE Scope -------------------------------
(***************************************************************************)
(* Client-address restrictions on approvals (package approval).            *)
(*                                                                         *)
(* An address is its family and its bits, the most significant first, as   *)
(* net/netip has them; a zone belongs to an IPv6 address of a peer.  A     *)
(* scope is its set of prefixes: New sorts them, so that the set fixes the *)
(* list.                                                                   *)
(***************************************************************************)
EXTENDS Integers, Sequences, FiniteSets

MaxRanges == 128

Width(fam) == IF fam = "v4" THEN 32 ELSE 128

Addrs == UNION {[fam : {f}, bit : [1..Width(f) -> {0, 1}]] : f \in {"v4", "v6"}}

\* netip.ParsePrefix of the texts that are CIDRs.
Prefixes == UNION {[addr : {a}, len : 0..Width(a.fam)] : a \in Addrs}

\* Addr.Is4In6: ::ffff:0:0/96
Is4In6(a) ==
    /\ a.fam = "v6"
    /\ \A i \in 1..80 : a.bit[i] = 0
    /\ \A i \in 81..96 : a.bit[i] = 1

\* Addr.Unmap
Unmap(a) ==
    IF Is4In6(a) THEN [fam |-> "v4", bit |-> [i \in 1..32 |-> a.bit[96 + i]]] ELSE a

\* Prefix.Masked
Masked(p) ==
    [addr |-> [fam |-> p.addr.fam,
               bit |-> [i \in 1..Width(p.addr.fam) |-> IF i <= p.len THEN p.addr.bit[i] ELSE 0]],
     len  |-> p.len]

\* Prefix.Contains: never across families.
Contains(p, a) ==
    /\ p.addr.fam = a.fam
    /\ \A i \in 1..p.len : p.addr.bit[i] = a.bit[i]

\* New accepts the list; what it returns then.
Accepts(ranges) ==
    /\ Len(ranges) \in 1..MaxRanges
    /\ \A i \in DOMAIN ranges : ranges[i] \in Prefixes /\ ~Is4In6(ranges[i].addr)
New(ranges) == {Masked(ranges[i]) : i \in DOMAIN ranges}

\* Validate, for a scope that is there; an absent one is unrestricted.
Validate(s) == Cardinality(s) \in 1..MaxRanges

\* Ranges, and what MarshalJSON writes: each prefix once.
IsRanges(q, s) ==
    /\ Len(q) = Cardinality(s)
    /\ {q[i] : i \in DOMAIN q} = s

\* Allows, for a scope that is there and a valid peer address.
Allows(s, a, zone) == ~zone /\ \E p \in s : Contains(p, Unmap(a))
=============================================================================
