---------------------------- MODULE ScopeProofs ----------------------------
(***************************************************************************)
(* What approval.New keeps of the list it is given.                        *)
(***************************************************************************)
EXTENDS Scope, TLAPS, FiniteSetTheorems

\* The parts of a parsed prefix.
LEMMA PrefixParts ==
    ASSUME NEW p \in Prefixes
    PROVE  /\ p = [addr |-> p.addr, len |-> p.len]
           /\ p.addr = [fam |-> p.addr.fam, bit |-> p.addr.bit]
           /\ p.addr \in Addrs
           /\ p.addr.fam \in {"v4", "v6"}
           /\ p.addr.bit \in [1..Width(p.addr.fam) -> {0, 1}]
           /\ p.len \in 0..Width(p.addr.fam)
<1>1. PICK a \in Addrs : p \in [addr : {a}, len : 0..Width(a.fam)]
  BY DEF Prefixes
<1>2. PICK f \in {"v4", "v6"} : a \in [fam : {f}, bit : [1..Width(f) -> {0, 1}]]
  BY DEF Addrs
<1> QED
  BY <1>1, <1>2

\* Masking keeps a prefix a prefix of the same length, family and leading bits.
LEMMA MaskedPrefix ==
    ASSUME NEW p \in Prefixes
    PROVE  /\ Masked(p) \in Prefixes
           /\ Masked(p).len = p.len
           /\ Masked(p).addr.fam = p.addr.fam
           /\ \A i \in 1..Width(p.addr.fam) :
                  Masked(p).addr.bit[i] = IF i <= p.len THEN p.addr.bit[i] ELSE 0
<1> DEFINE f == p.addr.fam
           b == [i \in 1..Width(f) |-> IF i <= p.len THEN p.addr.bit[i] ELSE 0]
           a == [fam |-> f, bit |-> b]
<1>1. f \in {"v4", "v6"} /\ p.len \in 0..Width(f) /\ Width(f) \in Nat
  BY PrefixParts DEF Width
<1>2. b \in [1..Width(f) -> {0, 1}]
  BY PrefixParts
<1>3. a \in Addrs
  <2>1. a \in [fam : {f}, bit : [1..Width(f) -> {0, 1}]]
    BY <1>2
  <2> QED
    BY <1>1, <2>1 DEF Addrs
<1>4. Masked(p) = [addr |-> a, len |-> p.len]
  BY DEF Masked
<1>5. Masked(p) \in [addr : {a}, len : 0..Width(a.fam)]
  BY <1>1, <1>4
<1>6. Masked(p) \in Prefixes
  BY <1>3, <1>5 DEF Prefixes
<1>7. Masked(p).len = p.len /\ Masked(p).addr.fam = f /\ Masked(p).addr.bit = b
  <2> HIDE DEF b, f
  <2>1. a.fam = f /\ a.bit = b
    OBVIOUS
  <2> HIDE DEF a
  <2>2. Masked(p).len = p.len /\ Masked(p).addr = a
    BY <1>4
  <2> QED
    BY <2>1, <2>2
<1>8. \A i \in 1..Width(f) : b[i] = IF i <= p.len THEN p.addr.bit[i] ELSE 0
  OBVIOUS
<1> HIDE DEF b
<1> QED
  BY <1>6, <1>7, <1>8

\* Unmapping gives an address.
LEMMA UnmapAddr ==
    ASSUME NEW a \in Addrs
    PROVE  Unmap(a) \in Addrs
<1> SUFFICES ASSUME Is4In6(a) PROVE Unmap(a) \in Addrs
  BY DEF Unmap
<1> DEFINE b == [i \in 1..32 |-> a.bit[96 + i]]
<1>1. a.bit \in [1..128 -> {0, 1}]
  <2>1. PICK f \in {"v4", "v6"} : a \in [fam : {f}, bit : [1..Width(f) -> {0, 1}]]
    BY DEF Addrs
  <2> QED
    BY <2>1 DEF Is4In6, Width
<1>2. b \in [1..32 -> {0, 1}]
  BY <1>1
<1>3. [fam |-> "v4", bit |-> b] \in [fam : {"v4"}, bit : [1..Width("v4") -> {0, 1}]]
  BY <1>2 DEF Width
<1> QED
  BY <1>3 DEF Unmap, Addrs

\* A masked prefix contains the addresses the prefix contains.
LEMMA MaskedContains ==
    ASSUME NEW p \in Prefixes, NEW a \in Addrs
    PROVE  Contains(Masked(p), a) <=> Contains(p, a)
<1>1. \A i \in 1..p.len : i \in 1..Width(p.addr.fam) /\ i <= p.len
  <2>1. PICK w \in Nat, n \in Nat : w = Width(p.addr.fam) /\ n = p.len /\ n <= w
    <3>1. Width(p.addr.fam) \in Nat
      BY DEF Width
    <3>2. p.len \in 0..Width(p.addr.fam)
      BY PrefixParts
    <3> QED
      BY <3>1, <3>2
  <2>2. \A i \in 1..n : i \in 1..w /\ i <= n
    BY <2>1
  <2> QED
    BY <2>1, <2>2
<1>2. \A i \in 1..p.len : Masked(p).addr.bit[i] = p.addr.bit[i]
  BY <1>1, MaskedPrefix
<1> QED
  BY <1>2, MaskedPrefix DEF Contains

\* Masking again changes nothing.
LEMMA MaskedIdempotent ==
    ASSUME NEW p \in Prefixes
    PROVE  Masked(Masked(p)) = Masked(p)
<1> DEFINE q == Masked(p)
<1>1. /\ q \in Prefixes
      /\ q.len = p.len
      /\ q.addr.fam = p.addr.fam
      /\ \A i \in 1..Width(q.addr.fam) :
             q.addr.bit[i] = IF i <= q.len THEN p.addr.bit[i] ELSE 0
  BY MaskedPrefix
<1> HIDE DEF q
<1>2. q.addr.bit \in [1..Width(q.addr.fam) -> {0, 1}]
  BY <1>1, PrefixParts
<1>3. [i \in 1..Width(q.addr.fam) |-> IF i <= q.len THEN q.addr.bit[i] ELSE 0] = q.addr.bit
  BY <1>1, <1>2
<1>4. Masked(q) = [addr |-> [fam |-> q.addr.fam, bit |-> q.addr.bit], len |-> q.len]
  BY <1>3 DEF Masked
<1>5. Masked(q) = q
  BY <1>1, <1>4, PrefixParts
<1> QED
  BY <1>5 DEF q

\* Masking never makes an IPv4-mapped prefix of one that is not: the bits it
\* clears are all zero in no mapped prefix shorter than 96, and a longer one keeps
\* the 96 bits that tell.
LEMMA MaskedNotMapped ==
    ASSUME NEW p \in Prefixes, ~Is4In6(p.addr)
    PROVE  ~Is4In6(Masked(p).addr)
<1> SUFFICES ASSUME Is4In6(Masked(p).addr) PROVE FALSE
  OBVIOUS
<1>1. p.addr.fam = "v6" /\ Width(p.addr.fam) = 128 /\ p.len \in 0..128
  BY MaskedPrefix, PrefixParts DEF Is4In6, Width
<1>2. \A i \in 1..96 :
        Masked(p).addr.bit[i] = IF i <= p.len THEN p.addr.bit[i] ELSE 0
  BY <1>1, MaskedPrefix
<1>3. 96 <= p.len
  <2>1. Masked(p).addr.bit[96] = 1
    BY DEF Is4In6
  <2> QED
    BY <1>1, <1>2, <2>1
<1>4. \A i \in 1..96 : Masked(p).addr.bit[i] = p.addr.bit[i]
  <2>1. PICK n \in Nat : n = p.len /\ 96 <= n
    BY <1>1, <1>3
  <2>2. \A i \in 1..96 : i <= n
    BY <2>1
  <2> QED
    BY <1>2, <2>1, <2>2
<1>5. Is4In6(p.addr)
  <2>1. (\A i \in 1..80 : i \in 1..96) /\ (\A i \in 81..96 : i \in 1..96)
    OBVIOUS
  <2>2. /\ \A i \in 1..80 : Masked(p).addr.bit[i] = 0
        /\ \A i \in 81..96 : Masked(p).addr.bit[i] = 1
    BY DEF Is4In6
  <2>3. \A i \in 1..80 : p.addr.bit[i] = 0
    BY <1>4, <2>1, <2>2
  <2>4. \A i \in 81..96 : p.addr.bit[i] = 1
    BY <1>4, <2>1, <2>2
  <2> QED
    BY <1>1, <2>3, <2>4 DEF Is4In6
<1> QED
  BY <1>5

\* A list New accepts has at most MaxRanges different prefixes, and at least one.
LEMMA NewIsSmall ==
    ASSUME NEW r \in Seq(Prefixes), Accepts(r)
    PROVE  Validate(New(r))
<1> DEFINE f == [i \in 1..Len(r) |-> Masked(r[i])]
<1>1. Len(r) \in 1..MaxRanges /\ DOMAIN r = 1..Len(r)
  BY DEF Accepts
<1>2. f \in Surjection(1..Len(r), New(r))
  BY <1>1 DEF Surjection, New
<1>3. IsFiniteSet(1..Len(r)) /\ Cardinality(1..Len(r)) = Len(r)
  BY <1>1, FS_Interval DEF MaxRanges
<1> HIDE DEF f
<1>4. IsFiniteSet(New(r)) /\ Cardinality(New(r)) <= Len(r)
  BY <1>2, <1>3, FS_Surjection
<1>5. Masked(r[1]) \in New(r)
  BY <1>1 DEF New, MaxRanges
<1>6. Cardinality(New(r)) \in Nat /\ Cardinality(New(r)) # 0
  BY <1>4, <1>5, FS_CardinalityType, FS_EmptySet
<1>7. PICK n \in Nat, m \in 1..128 : n = Cardinality(New(r)) /\ m = Len(r)
  BY <1>1, <1>6 DEF MaxRanges
<1>8. n \in 1..128
  <2>1. n <= m /\ n # 0
    BY <1>4, <1>6, <1>7
  <2> QED
    BY <2>1
<1> QED
  BY <1>7, <1>8 DEF Validate, MaxRanges

\* Normalising a list of CIDRs (masking, removing duplicates, sorting) changes no
\* verdict: the scope New returns allows a peer exactly when one of the CIDRs as
\* the hub sent them contains its unmapped address.
THEOREM ScopeMeansRanges ==
    ASSUME NEW r \in Seq(Prefixes), Accepts(r), NEW a \in Addrs
    PROVE  Allows(New(r), a, FALSE) <=> \E i \in DOMAIN r : Contains(r[i], Unmap(a))
<1>1. \A i \in DOMAIN r : r[i] \in Prefixes
  OBVIOUS
<1> Unmap(a) \in Addrs
  BY UnmapAddr
<1>2. \A i \in DOMAIN r : Contains(Masked(r[i]), Unmap(a)) <=> Contains(r[i], Unmap(a))
  BY <1>1, MaskedContains
<1> QED
  BY <1>2 DEF Allows, New

\* A scope that was accepted can be written as JSON and read back: New accepts
\* what Ranges returns and gives the same scope.  Were there a scope that cannot,
\* scanEntry would refuse its row and List and ListPage would fail.
THEOREM ScopeReadsBack ==
    ASSUME NEW r \in Seq(Prefixes), Accepts(r), NEW q \in Seq(Prefixes), IsRanges(q, New(r))
    PROVE  Accepts(q) /\ New(q) = New(r)
<1>1. \A i \in DOMAIN q : \E j \in DOMAIN r : q[i] = Masked(r[j])
  BY DEF IsRanges, New
<1>2. \A j \in DOMAIN r : r[j] \in Prefixes /\ ~Is4In6(r[j].addr)
  BY DEF Accepts
<1>3. \A i \in DOMAIN q : ~Is4In6(q[i].addr) /\ Masked(q[i]) = q[i]
  BY <1>1, <1>2, MaskedNotMapped, MaskedIdempotent
<1>4. \A i \in DOMAIN q : q[i] \in Prefixes
  OBVIOUS
<1>5. Len(q) \in 1..MaxRanges
  BY NewIsSmall DEF IsRanges, Validate
<1>6. New(q) = {q[i] : i \in DOMAIN q}
  BY <1>3 DEF New
<1> QED
  BY <1>3, <1>4, <1>5, <1>6 DEF Accepts, IsRanges
=============================================================================
