-------------------------------- MODULE Cidr --------------------------------
(***************************************************************************)
(* The IPv6 allowlist (src/cidr.rs): prefixes, merged ranges, lookups.     *)
(* Addresses have Width bits, u128 has 128.                                *)
(***************************************************************************)
EXTENDS Integers, Sequences, FiniteSets

CONSTANT Width
ASSUME WidthAssumption == Width \in Nat \ {0}

\* What the proofs use of powers; the provers know nothing of them.
ASSUME PowerAssumption ==
    /\ \A k \in 0 .. Width : 2 ^ k \in Nat \ {0}
    /\ \A k \in 0 .. Width - 1 : 2 ^ (k + 1) = 2 * 2 ^ k

AddrMax == 2 ^ Width - 1
Addresses == 0 .. AddrMax

\* "address/bits" as written; nothing makes the address the base of its prefix,
\* and the width is checked by whoever reads it.
Prefix == [addr : Addresses, bits : Nat]
Ranges == [start : Addresses, end : Addresses]

\* parse_cidr and range_of, for bits up to Width: the host bits cleared, and
\* set.  bits = 0 is handled apart in the code, where a shift by 128 has no
\* meaning; a power of two has none of that.
RangeOf(p) ==
    LET size == 2 ^ (Width - p.bits)
        base == p.addr - (p.addr % size)
    IN [start |-> base, end |-> base + size - 1]

\* The tokens parse_cidr rejects: the list they are in is then no set at all.
BadWidth(p) == p.bits > Width

Covers(r, a) == r.start <= a /\ a <= r.end

\* A variant with one mistake, to show that it is noticed: a nested range cuts
\* off the one around it.
MergeIntoShrinking(ranges, r) ==
    LET n == Len(ranges) IN
    IF n > 0 /\ r.start <= ranges[n].end
    THEN [ranges EXCEPT ![n].end = r.end]
    ELSE Append(ranges, r)

\* One round of the merge loop: r is the next range by start.
MergeInto(ranges, r) ==
    LET n == Len(ranges) IN
    IF n > 0 /\ r.start <= ranges[n].end
    THEN IF r.end > ranges[n].end THEN [ranges EXCEPT ![n].end = r.end] ELSE ranges
    ELSE Append(ranges, r)

\* The set build_from returns: the ranges, and the span they lie in.
SetOf(ranges) ==
    [ranges |-> ranges,
     span |-> IF ranges = <<>> THEN [start |-> AddrMax, end |-> 0]
              ELSE [start |-> ranges[1].start, end |-> ranges[Len(ranges)].end]]

\* Set::default(), whose span is not the one of an empty build_from.
DefaultSet == [ranges |-> <<>>, span |-> [start |-> 0, end |-> 0]]

\* Set::contains: the span, then the last range that starts at or before a.
SetContains(set, a) ==
    LET i == Cardinality({j \in DOMAIN set.ranges : set.ranges[j].start <= a}) IN
    /\ Covers(set.span, a)
    /\ i > 0
    /\ a <= set.ranges[i].end

=============================================================================
