---------------------------- MODULE SchemeProofs ----------------------------
(***************************************************************************)
(* For every list of sites, every width of addresses and every set of      *)
(* labels: Scheme::new finds the owner of every address and of every label.*)
(***************************************************************************)
EXTENDS Scheme, FiniteSetTheorems, SequenceTheorems, WellFoundedInduction, TLAPS

-----------------------------------------------------------------------------
(* Least and greatest numbers.                                             *)

LEMMA LeastNatural ==
    ASSUME NEW T \in SUBSET Nat, T # {}
    PROVE  \E x \in T : \A y \in T : x <= y
<1>1. PICK R : R = OpToRel(<, Nat)
  OBVIOUS
<1>2. PICK x \in T : \A y \in T : ~(<<y, x>> \in R)
  BY <1>1, NatLessThanWellFounded, WFMin
<1>3. \A y \in Nat : <<y, x>> \in R <=> y < x
  BY <1>1 DEF OpToRel
<1>4. \A y \in T : x \in Nat /\ y \in Nat /\ ~(y < x)
  BY <1>2, <1>3
<1>5. \A y \in T : x <= y
  BY <1>4
<1> QED
  BY <1>5

LEMMA MinIsLeast ==
    ASSUME NEW T \in SUBSET Nat, T # {}
    PROVE  Sets!Min(T) \in T /\ \A y \in T : Sets!Min(T) <= y
BY LeastNatural DEF Sets!Min

\* A set of numbers from 1 to n that holds, with each number, all before it is
\* as many numbers as its last.
LEMMA FirstNumbers ==
    ASSUME NEW n \in Nat, NEW S \in SUBSET (1 .. n),
           \A x \in S : \A y \in 1 .. n : y < x => y \in S
    PROVE  Cardinality(S) \in 0 .. n /\ \A x \in 1 .. n : x \in S <=> x <= Cardinality(S)
<1>1. PICK T : T = {x \in Nat : x <= n /\ x + 1 \notin S}
  OBVIOUS
<1>2. n \in T /\ T \in SUBSET Nat
  BY <1>1
<1>3. PICK m \in T : \A y \in T : m <= y
  BY <1>2, LeastNatural
<1>4. m \in Nat /\ m <= n /\ m + 1 \notin S
  BY <1>1
<1>5. ASSUME NEW x \in 1 .. n PROVE x \in S <=> x <= m
  <2>1. CASE x <= m
    <3>1. x - 1 \in Nat /\ x - 1 <= n /\ x - 1 \notin T
      BY <1>3, <1>4, <2>1
    <3>2. (x - 1) + 1 = x
      OBVIOUS
    <3> QED
      BY <1>1, <2>1, <3>1, <3>2
  <2>2. CASE ~(x <= m)
    <3>1. m + 1 \in 1 .. n /\ (m + 1 = x \/ m + 1 < x)
      BY <1>4, <2>2
    <3> QED
      BY <1>4, <2>2, <3>1
  <2> QED
    BY <2>1, <2>2
<1>6. /\ \A x \in 1 .. m : x \in 1 .. n /\ x <= m
      /\ \A x \in 1 .. n : x <= m => x \in 1 .. m
  BY <1>4
<1>7. S = 1 .. m
  BY <1>5, <1>6
<1>8. Cardinality(S) = m
  BY <1>4, <1>7, FS_Interval
<1> QED
  BY <1>4, <1>5, <1>8

-----------------------------------------------------------------------------
(* Segments.                                                               *)

\* Sorted, disjoint, none empty.
Disjoint(s) ==
    /\ \A i \in DOMAIN s : s[i].start <= s[i].end
    /\ \A i, j \in DOMAIN s : i < j => s[i].end < s[j].start

CoveredIn(s, a) == \E i \in DOMAIN s : Covers(s[i], a)

LEMMA AddressesAreNumbers == AddrMax \in Nat /\ Addresses = 0 .. AddrMax
<1>1. Width \in 0 .. Width
  BY WidthAssumption
<1>2. 2 ^ Width \in Nat \ {0}
  BY <1>1, PowerAssumption
<1> QED
  BY <1>2 DEF AddrMax, Addresses

LEMMA SegmentFields ==
    ASSUME NEW s \in Seq(Segment), NEW i \in DOMAIN s
    PROVE  /\ s[i] \in Segment /\ s[i].id \in SiteIds
           /\ s[i].start \in Addresses /\ s[i].end \in Addresses
           /\ s[i].start \in Nat /\ s[i].end \in Nat
<1>1. s[i] \in Segment
  BY ElementOfSeq
<1>2. s[i].id \in SiteIds /\ s[i].start \in Addresses /\ s[i].end \in Addresses
  BY <1>1 DEF Segment
<1> QED
  BY <1>1, <1>2, AddressesAreNumbers

\* partition_point: the segments that start at or before a are the first of them,
\* as many as there are, and only the last of these can cover a
\* (identity.rs 174-178).
LEMMA SearchFinds ==
    ASSUME NEW s \in Seq(Segment), Disjoint(s), NEW a \in Nat, NEW k,
           k = Cardinality({i \in DOMAIN s : s[i].start <= a})
    PROVE  /\ k \in 0 .. Len(s)
           /\ \A i \in DOMAIN s : s[i].start <= a <=> i <= k
           /\ \A i \in DOMAIN s : Covers(s[i], a) => i = k
<1>1. PICK n : n = Len(s)
  OBVIOUS
<1>2. n \in Nat /\ DOMAIN s = 1 .. n
  BY <1>1
<1>3. \A i \in 1 .. n : s[i].start \in Nat /\ s[i].end \in Nat /\ s[i].start <= s[i].end
  BY <1>2, SegmentFields DEF Disjoint
<1>4. \A i, j \in 1 .. n : i < j => s[i].end < s[j].start
  BY <1>2 DEF Disjoint
<1>5. PICK S : S = {i \in 1 .. n : s[i].start <= a}
  OBVIOUS
<1>6. ASSUME NEW x \in S, NEW y \in 1 .. n, y < x PROVE y \in S
  <2>1. x \in 1 .. n /\ s[x].start <= a
    BY <1>5
  <2>2. s[y].end < s[x].start
    BY <1>4, <1>6, <2>1
  <2>3. s[y].start <= a
    BY <1>3, <2>1, <2>2
  <2> QED
    BY <1>5, <2>3
<1>7. k = Cardinality(S)
  BY <1>2, <1>5
<1>8. S \in SUBSET (1 .. n)
  BY <1>5
<1>9. k \in 0 .. n /\ \A x \in 1 .. n : x \in S <=> x <= k
  BY <1>2, <1>6, <1>7, <1>8, FirstNumbers
<1>10. \A i \in 1 .. n : s[i].start <= a <=> i <= k
  BY <1>5, <1>9
<1>11. ASSUME NEW i \in 1 .. n, Covers(s[i], a) PROVE i = k
  <2>1. s[i].start <= a /\ a <= s[i].end
    BY <1>11 DEF Covers
  <2>2. i <= k /\ k \in 1 .. n
    BY <1>9, <1>10, <2>1
  <2>3. ASSUME i < k PROVE FALSE
    <3>1. s[i].end < s[k].start
      BY <1>4, <2>2, <2>3
    <3>2. k <= k
      BY <2>2
    <3>3. s[k].start <= a
      BY <1>10, <2>2, <3>2
    <3> QED
      BY <1>3, <2>1, <2>2, <3>1, <3>3
  <2> QED
    BY <2>2, <2>3
<1> QED
  BY <1>1, <1>2, <1>9, <1>10, <1>11

-----------------------------------------------------------------------------
(* Who claims what.                                                        *)

\* A set with two members has no single owner.
LEMMA OwnerIs ==
    ASSUME NEW ids \in SUBSET (SiteIds \ {SITE_CONTESTED})
    PROVE  /\ ids = {} => OwnerAmong(ids) = None
           /\ \A x : ids = {x} => OwnerAmong(ids) = x
           /\ (\E x, y \in ids : x # y) => OwnerAmong(ids) = SITE_CONTESTED
           /\ OwnerAmong(ids) \in SiteIds \union {None}
           /\ OwnerAmong(ids) = None => ids = {}
<1>1. SiteCount \in Nat \ {0}
  BY LayoutAssumption
<1>2. IsFiniteSet(SiteIds) /\ SITE_CONTESTED \in SiteIds
  BY <1>1, FS_Interval DEF SiteIds, SITE_CONTESTED
<1>3. IsFiniteSet(ids)
  BY <1>2, FS_Subset
<1>4. None \notin SiteIds
  BY NoneAssumption
<1>5. CASE ids = {}
  BY <1>5 DEF OwnerAmong
<1>6. ASSUME NEW x, ids = {x} PROVE OwnerAmong(ids) = x
  <2>1. Cardinality(ids) = 1 /\ ids # {}
    BY <1>6, FS_Singleton
  <2>2. (CHOOSE id \in ids : TRUE) = x
    BY <1>6
  <2> QED
    BY <2>1, <2>2 DEF OwnerAmong
<1>7. ASSUME \E x, y \in ids : x # y PROVE OwnerAmong(ids) = SITE_CONTESTED
  <2>1. Cardinality(ids) # 1 /\ ids # {}
    BY <1>3, <1>7, FS_Singleton
  <2> QED
    BY <2>1 DEF OwnerAmong
<1>8. ids = {} \/ (\E x \in ids : ids = {x}) \/ \E x, y \in ids : x # y
  OBVIOUS
<1> QED
  BY <1>2, <1>4, <1>5, <1>6, <1>7, <1>8

SitesOK == sites \in SiteLists

LEMMA SiteFields ==
    ASSUME SitesOK, NEW n \in DOMAIN sites
    PROVE  /\ n \in Nat /\ sites[n] \in Site /\ sites[n].id \in SiteIds \ {SITE_CONTESTED}
           /\ sites[n].vpce \in Seq(Labels) /\ sites[n].ranges \in Seq(Ranges)
<1>1. sites \in Seq(Site)
  BY SitesAssumption DEF SitesOK
<1>2. n \in 1 .. Len(sites)
  BY <1>1
<1>3. sites[n] \in Site
  BY <1>1, <1>2, ElementOfSeq
<1>4. n \in Nat
  BY <1>2
<1> QED
  BY <1>3, <1>4 DEF Site

\* One claim and its two boundaries (identity.rs 101-110).
LEMMA ClaimFields ==
    ASSUME SitesOK, NEW k \in Claims(sites), NEW c, c = ClaimOf(sites, k)
    PROVE  /\ c.id \in SiteIds \ {SITE_CONTESTED}
           /\ c.start \in Addresses /\ c.end \in Addresses /\ c.start <= c.end
           /\ c.start \in Nat /\ c.end \in Nat /\ c.end <= AddrMax
           /\ c.start \in Boundaries(sites)
           /\ c.end < AddrMax => c.end + 1 \in Boundaries(sites)
<1>1. PICK n \in DOMAIN sites : \E j \in DOMAIN sites[n].ranges : k = <<n, j>>
  BY DEF Claims
<1>2. PICK j \in DOMAIN sites[n].ranges : k = <<n, j>>
  BY <1>1
<1>3. PICK r : r = sites[n].ranges[j]
  OBVIOUS
<1>4. c.id = sites[n].id /\ c.start = r.start /\ c.end = r.end
  BY <1>2, <1>3 DEF ClaimOf
<1>5. r \in Ranges
  <2>1. sites[n].ranges \in Seq(Ranges)
    BY SiteFields
  <2> QED
    BY <1>3, <2>1, ElementOfSeq
<1>6. r.start <= r.end
  BY <1>3, SitesAssumption DEF SitesOK
<1>7. r.start \in Addresses /\ r.end \in Addresses
  BY <1>5 DEF Ranges
<1>8. c.id \in SiteIds \ {SITE_CONTESTED}
  BY <1>4, SiteFields
<1>9. c.start \in Nat /\ c.end \in Nat /\ c.end <= AddrMax
  BY <1>4, <1>7, AddressesAreNumbers
<1>10. c.start \in Boundaries(sites)
  <2>1. k \in Opens(sites, c.start, c.id)
    BY DEF Opens
  <2> QED
    BY <1>4, <1>7, <1>8, <2>1 DEF Boundaries
<1>11. ASSUME c.end < AddrMax PROVE c.end + 1 \in Boundaries(sites)
  <2>1. k \in Closes(sites, c.end + 1, c.id)
    BY <1>11 DEF Closes
  <2>2. c.end + 1 \in Addresses
    BY <1>9, <1>11, AddressesAreNumbers
  <2> QED
    BY <1>8, <2>1, <2>2 DEF Boundaries
<1> QED
  BY <1>4, <1>6, <1>7, <1>8, <1>9, <1>10, <1>11

LEMMA ClaimsAreFinite == ASSUME SitesOK PROVE IsFiniteSet(Claims(sites))
<1>1. sites \in Seq(Site)
  BY SitesAssumption DEF SitesOK
<1>2. IsFiniteSet(DOMAIN sites)
  BY <1>1, FS_Interval
<1>3. PICK f : f = [n \in DOMAIN sites |-> {<<n, j>> : j \in DOMAIN sites[n].ranges}]
  OBVIOUS
<1>4. PICK T : T = {f[n] : n \in DOMAIN sites}
  OBVIOUS
<1>5. ASSUME NEW n \in DOMAIN sites PROVE IsFiniteSet(f[n])
  <2>1. sites[n].ranges \in Seq(Ranges)
    BY SiteFields
  <2>2. PICK D : D = DOMAIN sites[n].ranges
    OBVIOUS
  <2>3. IsFiniteSet(D)
    BY <2>1, <2>2, FS_Interval
  <2>4. IsFiniteSet({n} \X D)
    BY <2>3, FS_Singleton, FS_Product
  <2>5. f[n] \in SUBSET ({n} \X D)
    BY <1>3, <2>2
  <2> QED
    BY <2>4, <2>5, FS_Subset
<1>6. IsFiniteSet(T)
  <2>1. f \in Surjection(DOMAIN sites, T)
    BY <1>3, <1>4 DEF Surjection
  <2> QED
    BY <1>2, <2>1, FS_Surjection
<1>7. \A S \in T : IsFiniteSet(S)
  BY <1>4, <1>5
<1>8. IsFiniteSet(UNION T)
  BY <1>6, <1>7, FS_UNION
<1>9. Claims(sites) = UNION T
  BY <1>3, <1>4 DEF Claims
<1> QED
  BY <1>8, <1>9

-----------------------------------------------------------------------------
(* The sweep.  Where it stands is told by the boundaries still to come: a  *)
(* range is open if its start has been swept and its end has not.          *)

Open(id) ==
    {k \in Claims(sites) :
        /\ ClaimOf(sites, k).id = id
        /\ ClaimOf(sites, k).start \notin todo
        /\ ClaimOf(sites, k).end < AddrMax => ClaimOf(sites, k).end + 1 \in todo}

\* Boundaries come in order; cur starts at the last one swept.
InOrder ==
    /\ todo \subseteq Boundaries(sites)
    /\ cur.start \in Addresses
    /\ \A b \in Boundaries(sites) \ todo : b <= cur.start /\ \A t \in todo : b < t
    /\ \A t \in todo : cur.start <= t

Counted ==
    /\ active \in [SiteIds -> Nat]
    /\ \A id \in SiteIds : active[id] = Cardinality(Open(id))
    /\ cur.id = Winner(active)

LEMMA OpenIsFinite ==
    ASSUME SitesOK, NEW id
    PROVE  IsFiniteSet(Open(id)) /\ Cardinality(Open(id)) \in Nat
<1>1. Open(id) \in SUBSET Claims(sites)
  BY DEF Open
<1>2. IsFiniteSet(Open(id))
  BY <1>1, ClaimsAreFinite, FS_Subset
<1> QED
  BY <1>2, FS_CardinalityType

LEMMA ClaimantsAreSites ==
    ASSUME SitesOK, NEW a
    PROVE  Claimants(a) \in SUBSET (SiteIds \ {SITE_CONTESTED})
BY ClaimFields DEF Claimants

\* From the last boundary swept up to the next, those who have a range open are
\* those who claim.
LEMMA StretchIsOwned ==
    ASSUME SitesOK, InOrder, Counted,
           NEW a \in Addresses, cur.start <= a, \A t \in todo : a < t
    PROVE  Owner(a) = cur.id
<1>1. a \in Nat /\ a <= AddrMax /\ AddrMax \in Nat /\ cur.start \in Nat
  BY AddressesAreNumbers DEF InOrder
<1>2. ASSUME NEW k \in Claims(sites), NEW c, c = ClaimOf(sites, k)
      PROVE  (c.start <= a /\ a <= c.end) <=> k \in Open(c.id)
  <2>1. /\ c.start \in Nat /\ c.end \in Nat /\ c.end <= AddrMax
        /\ c.start \in Boundaries(sites)
        /\ c.end < AddrMax => c.end + 1 \in Boundaries(sites)
    BY <1>2, ClaimFields
  <2>2. todo \subseteq Nat
    BY AddressesAreNumbers DEF InOrder, Boundaries
  <2>3. ASSUME c.start <= a, a <= c.end PROVE k \in Open(c.id)
    <3>1. c.start \notin todo
      BY <1>1, <2>1, <2>3
    <3>2. ASSUME c.end < AddrMax, c.end + 1 \notin todo PROVE FALSE
      <4>1. c.end + 1 <= cur.start
        BY <2>1, <3>2 DEF InOrder
      <4> QED
        BY <1>1, <2>1, <2>3, <4>1
    <3> QED
      BY <1>2, <3>1, <3>2 DEF Open
  <2>4. ASSUME k \in Open(c.id) PROVE c.start <= a /\ a <= c.end
    <3>1. c.start \notin todo /\ (c.end < AddrMax => c.end + 1 \in todo)
      BY <1>2, <2>4 DEF Open
    <3>2. c.start <= cur.start
      BY <2>1, <3>1 DEF InOrder
    <3>3. CASE c.end < AddrMax
      <4>1. a < c.end + 1
        BY <3>1, <3>3
      <4> QED
        BY <1>1, <2>1, <3>2, <4>1
    <3>4. CASE ~(c.end < AddrMax)
      BY <1>1, <2>1, <3>2, <3>4
    <3> QED
      BY <3>3, <3>4
  <2> QED
    BY <2>3, <2>4
<1>3. ASSUME NEW id \in SiteIds PROVE id \in Claimants(a) <=> active[id] > 0
  <2>1. id \in Claimants(a) <=> \E k \in Claims(sites) :
           ClaimOf(sites, k).id = id /\ ClaimOf(sites, k).start <= a /\ a <= ClaimOf(sites, k).end
    BY DEF Claimants
  <2>2. id \in Claimants(a) <=> Open(id) # {}
    <3>1. \A k \in Claims(sites) :
             (ClaimOf(sites, k).start <= a /\ a <= ClaimOf(sites, k).end)
             <=> k \in Open(ClaimOf(sites, k).id)
      BY <1>2
    <3>2. \A k \in Open(id) : k \in Claims(sites) /\ ClaimOf(sites, k).id = id
      BY DEF Open
    <3> QED
      BY <2>1, <3>1, <3>2
  <2>3. active[id] = Cardinality(Open(id)) /\ active[id] \in Nat
    BY DEF Counted
  <2>4. active[id] = 0 <=> Open(id) = {}
    BY <2>3, OpenIsFinite, FS_EmptySet
  <2> QED
    BY <2>2, <2>3, <2>4
<1>4. Claimants(a) \subseteq SiteIds
  BY ClaimantsAreSites
<1>5. Claimants(a) = {id \in SiteIds : active[id] > 0}
  BY <1>3, <1>4
<1>6. Winner(active) = OwnerAmong({id \in SiteIds : active[id] > 0})
  BY DEF Winner, OwnerAmong
<1> QED
  BY <1>5, <1>6 DEF Counted, Owner

\* The counts after a round: what was open and does not close here, and what
\* opens here.  No count ever falls below zero.
LEMMA RoundCounts ==
    ASSUME SitesOK, InOrder, NEW id \in SiteIds, NEW pos \in todo,
           \A t \in todo : pos <= t, todo' = todo \ {pos}, sites' = sites
    PROVE  /\ Cardinality(Open(id))' = Cardinality(Open(id))
                 - Cardinality(Closes(sites, pos, id)) + Cardinality(Opens(sites, pos, id))
           /\ Cardinality(Open(id))' \in Nat
<1>1. PICK A, B, C, D : /\ A = Open(id) /\ B = Closes(sites, pos, id)
                        /\ C = Opens(sites, pos, id) /\ D = Open(id)'
  OBVIOUS
<1>2. todo \subseteq Nat /\ pos \in Nat /\ AddrMax \in Nat
  BY AddressesAreNumbers DEF InOrder, Boundaries
<1>3. ASSUME NEW k \in Claims(sites)
      PROVE  /\ k \in B => k \in A
             /\ ~(k \in A /\ k \in C)
             /\ k \in D <=> (k \in A /\ k \notin B) \/ k \in C
  <2>1. PICK c : c = ClaimOf(sites, k)
    OBVIOUS
  <2>2. /\ c.start \in Nat /\ c.end \in Nat /\ c.start <= c.end /\ c.end <= AddrMax
        /\ c.start \in Boundaries(sites)
        /\ c.end < AddrMax => c.end + 1 \in Boundaries(sites)
    BY <2>1, ClaimFields
  <2>3. /\ k \in A <=> c.id = id /\ c.start \notin todo /\ (c.end < AddrMax => c.end + 1 \in todo)
        /\ k \in D <=> /\ c.id = id /\ c.start \notin todo \ {pos}
                       /\ c.end < AddrMax => c.end + 1 \in todo \ {pos}
    BY <1>1, <2>1 DEF Open
  <2>4. /\ k \in B <=> c.id = id /\ c.end < AddrMax /\ c.end + 1 = pos
        /\ k \in C <=> c.id = id /\ c.start = pos
    BY <1>1, <2>1 DEF Opens, Closes
  <2>5. c.start \in todo => pos <= c.start
    OBVIOUS
  <2>6. ASSUME c.end < AddrMax, c.end + 1 \notin todo PROVE c.end + 1 < pos
    BY <2>2, <2>6 DEF InOrder
  <2>7. k \in B => k \in A
    <3>1. c.end + 1 = pos => c.start \notin todo
      BY <1>2, <2>2, <2>5
    <3> QED
      BY <2>3, <2>4, <3>1
  <2>8. c.start = pos /\ c.end < AddrMax => c.end + 1 \in todo \ {pos}
    BY <1>2, <2>2, <2>6
  <2> QED
    BY <2>3, <2>4, <2>7, <2>8
<1>4. A \subseteq Claims(sites) /\ B \subseteq Claims(sites) /\ C \subseteq Claims(sites)
      /\ D \subseteq Claims(sites)
  BY <1>1 DEF Open, Opens, Closes
<1>5. B \subseteq A /\ (A \ B) \cap C = {} /\ D = (A \ B) \union C /\ A \cap B = B
  BY <1>3, <1>4
<1>6. IsFiniteSet(A) /\ IsFiniteSet(B) /\ IsFiniteSet(C)
  BY <1>4, ClaimsAreFinite, FS_Subset
<1>7. IsFiniteSet(A \ B) /\ Cardinality(A \ B) = Cardinality(A) - Cardinality(B)
  BY <1>5, <1>6, FS_Difference
<1>8. Cardinality(D) = Cardinality(A \ B) + Cardinality(C) - Cardinality((A \ B) \cap C)
  BY <1>5, <1>6, <1>7, FS_Union
<1>9. Cardinality((A \ B) \cap C) = 0
  BY <1>5, FS_EmptySet
<1>10. Cardinality(A) \in Nat /\ Cardinality(B) \in Nat /\ Cardinality(C) \in Nat
  BY <1>6, FS_CardinalityType
<1>11. Cardinality(D) = Cardinality(A) - Cardinality(B) + Cardinality(C)
  BY <1>7, <1>8, <1>9, <1>10
<1>12. Cardinality(Open(id))' = Cardinality(D)
  BY <1>1
<1>13. Cardinality(D) \in Nat
  BY <1>5, <1>6, <1>7, FS_Union, FS_CardinalityType
<1> QED
  BY <1>1, <1>11, <1>12, <1>13

-----------------------------------------------------------------------------
(* The invariant of the sweep.                                             *)

OwnedBy(seg) == \A a \in Addresses : Covers(seg, a) => Owner(a) = seg.id

\* Segments that say the truth.
Segs(s) ==
    /\ s \in Seq(Segment)
    /\ Disjoint(s)
    /\ \A i \in DOMAIN s : OwnedBy(s[i])

\* Everything before cur is settled.
Sweeping ==
    /\ InOrder
    /\ Counted
    /\ \A i \in DOMAIN segments : segments[i].end < cur.start
    /\ \A a \in Addresses : a < cur.start /\ Owner(a) # None => CoveredIn(segments, a)

LEMMA OwnerStays ==
    ASSUME sites' = sites
    PROVE  /\ \A a : Owner(a)' = Owner(a)
           /\ \A s : Segs(s)' <=> Segs(s)
<1>1. \A a : Owner(a)' = Owner(a)
  BY DEF Owner, Claimants
<1>2. \A seg : OwnedBy(seg)' <=> OwnedBy(seg)
  BY <1>1 DEF OwnedBy
<1> QED
  BY <1>1, <1>2 DEF Segs

\* A segment put behind the others.
Behind(s, seg) == \A i \in DOMAIN s : s[i].end < seg.start

Longer(q, s, seg, n) ==
    /\ Segs(q)
    /\ DOMAIN q = 1 .. n + 1 /\ q[n + 1] = seg
    /\ \A i \in 1 .. n : q[i] = s[i]
    /\ \A a : CoveredIn(q, a) <=> CoveredIn(s, a) \/ Covers(seg, a)

LEMMA AppendSegment ==
    ASSUME NEW s, Segs(s), NEW seg \in Segment, seg.start <= seg.end, OwnedBy(seg),
           Behind(s, seg), NEW q, q = Append(s, seg), NEW n, n = Len(s)
    PROVE  Longer(q, s, seg, n)
<1>1. \A i \in DOMAIN s : s[i].end < seg.start
  BY DEF Behind
<1>2. s \in Seq(Segment) /\ n \in Nat /\ DOMAIN s = 1 .. n
  BY DEF Segs
<1>3. /\ q \in Seq(Segment) /\ DOMAIN q = 1 .. n + 1 /\ q[n + 1] = seg
      /\ \A i \in 1 .. n : q[i] = s[i]
  BY <1>2
<1>4. /\ \A i \in 1 .. n + 1 : i \in 1 .. n \/ i = n + 1
      /\ \A i \in 1 .. n : i \in 1 .. n + 1
      /\ n + 1 \in 1 .. n + 1
      /\ \A i \in 1 .. n + 1 : ~(n + 1 < i)
  BY <1>2
<1>5. Disjoint(q)
  <2>1. \A i \in 1 .. n + 1 : q[i].start <= q[i].end
    BY <1>2, <1>3, <1>4 DEF Segs, Disjoint
  <2>2. ASSUME NEW i \in 1 .. n + 1, NEW j \in 1 .. n + 1, i < j
        PROVE  q[i].end < q[j].start
    <3>1. i \in 1 .. n /\ q[i] = s[i]
      BY <1>3, <1>4, <2>2
    <3>2. CASE j = n + 1
      BY <1>1, <1>2, <1>3, <3>1, <3>2
    <3>3. CASE j \in 1 .. n
      BY <1>2, <1>3, <2>2, <3>1, <3>3 DEF Segs, Disjoint
    <3> QED
      BY <1>4, <3>2, <3>3
  <2> QED
    BY <1>3, <2>1, <2>2 DEF Disjoint
<1>6. \A i \in 1 .. n + 1 : OwnedBy(q[i])
  BY <1>2, <1>3, <1>4 DEF Segs
<1>7. \A a : CoveredIn(q, a) <=> CoveredIn(s, a) \/ Covers(seg, a)
  BY <1>2, <1>3, <1>4 DEF CoveredIn
<1> QED
  BY <1>3, <1>5, <1>6, <1>7 DEF Segs, Longer

\* Closing the stretch that ends at last (identity.rs 119-123, 154-156).
LEMMA StretchEmitted ==
    ASSUME SitesOK, Sweeping, Segs(segments), cur.id \in SiteIds \union {None},
           NEW last \in Addresses, cur.start <= last, \A t \in todo : last < t,
           NEW q, q = IF cur.id # None
                      THEN Append(segments, [start |-> cur.start, end |-> last, id |-> cur.id])
                      ELSE segments
    PROVE  /\ Segs(q)
           /\ \A i \in DOMAIN q : q[i].end <= last
           /\ \A a \in Addresses : a <= last /\ Owner(a) # None => CoveredIn(q, a)
<1>1. cur.start \in Addresses /\ cur.start \in Nat /\ last \in Nat /\ Addresses \subseteq Nat
  BY AddressesAreNumbers DEF Sweeping, InOrder
<1>2. ASSUME NEW a \in Addresses, cur.start <= a, a <= last PROVE Owner(a) = cur.id
  <2>1. \A t \in todo : a < t
    <3>1. todo \subseteq Nat
      BY <1>1 DEF Sweeping, InOrder, Boundaries
    <3> QED
      BY <1>1, <1>2, <3>1
  <2> QED
    BY <1>2, <2>1, StretchIsOwned DEF Sweeping
<1>3. ASSUME NEW a \in Addresses, a <= last, Owner(a) # None
      PROVE  CoveredIn(segments, a) \/ (cur.id # None /\ cur.start <= a)
  <2>1. CASE a < cur.start
    BY <1>3, <2>1 DEF Sweeping
  <2>2. CASE ~(a < cur.start)
    <3>1. cur.start <= a
      BY <1>1, <2>2
    <3> QED
      BY <1>2, <1>3, <3>1
  <2> QED
    BY <2>1, <2>2
<1>4. \A i \in DOMAIN segments : segments[i].end <= last /\ segments[i].end < cur.start
  <2>1. \A i \in DOMAIN segments : segments[i].end \in Nat
    BY SegmentFields DEF Segs
  <2> QED
    BY <1>1, <2>1 DEF Sweeping
<1>5. CASE cur.id = None
  BY <1>3, <1>4, <1>5
<1>6. CASE cur.id # None
  <2>1. PICK seg : seg = [start |-> cur.start, end |-> last, id |-> cur.id]
    OBVIOUS
  <2>2. /\ seg \in Segment /\ seg.start = cur.start /\ seg.end = last /\ seg.id = cur.id
        /\ seg.start <= seg.end
    BY <1>1, <1>6, <2>1 DEF Segment
  <2>3. OwnedBy(seg)
    BY <1>2, <2>2 DEF OwnedBy, Covers
  <2>4. q = Append(segments, seg)
    BY <1>6, <2>1
  <2>5. Behind(segments, seg)
    BY <1>4, <2>2 DEF Behind
  <2>6. /\ Segs(q)
        /\ DOMAIN q = 1 .. Len(segments) + 1 /\ q[Len(segments) + 1] = seg
        /\ \A i \in 1 .. Len(segments) : q[i] = segments[i]
        /\ \A a : CoveredIn(q, a) <=> CoveredIn(segments, a) \/ Covers(seg, a)
    BY <2>2, <2>3, <2>4, <2>5, AppendSegment DEF Longer
  <2>7. Len(segments) \in Nat /\ DOMAIN segments = 1 .. Len(segments)
    BY DEF Segs
  <2>8. \A i \in DOMAIN q : i \in 1 .. Len(segments) \/ i = Len(segments) + 1
    BY <2>6, <2>7
  <2>9. \A i \in DOMAIN q : q[i].end <= last
    BY <1>1, <1>4, <2>2, <2>6, <2>7, <2>8
  <2>10. \A a \in Addresses : a <= last /\ Owner(a) # None => CoveredIn(q, a)
    BY <1>3, <2>2, <2>6 DEF Covers
  <2> QED
    BY <2>6, <2>9, <2>10
<1> QED
  BY <1>5, <1>6

LEMMA WinnerIsSite == ASSUME NEW count PROVE Winner(count) \in SiteIds \union {None}
<1>1. SITE_CONTESTED \in SiteIds
  BY LayoutAssumption DEF SiteIds, SITE_CONTESTED
<1>2. PICK ids : ids = {id \in SiteIds : count[id] > 0}
  OBVIOUS
<1>3. ids # {} => (CHOOSE id \in ids : TRUE) \in SiteIds
  BY <1>2
<1> QED
  BY <1>1, <1>2, <1>3 DEF Winner

LEMMA SweepKeeps ==
    ASSUME TypeOK, Sweeping, Segs(segments), Sweep
    PROVE  Sweeping' /\ Segs(segments)' /\ active' \in [SiteIds -> Nat]
           /\ cur' \in [start : Addresses, id : SiteIds \union {None}]
<1>1. SitesOK /\ sites' = sites /\ todo # {}
  BY DEF TypeOK, SitesOK, Sweep
<1>2. PICK pos : pos = Sets!Min(todo)
  OBVIOUS
<1>3. todo \subseteq Nat /\ todo \subseteq Addresses /\ AddrMax \in Nat
      /\ Addresses = 0 .. AddrMax
  BY AddressesAreNumbers DEF TypeOK
<1>4. pos \in todo /\ pos \in Nat /\ pos \in Addresses /\ \A t \in todo : pos <= t
  BY <1>1, <1>2, <1>3, MinIsLeast
<1>5. PICK count : count = [id \in SiteIds |-> active[id]
                              - Cardinality(Closes(sites, pos, id))
                              + Cardinality(Opens(sites, pos, id))]
  OBVIOUS
<1>6. /\ active' = count /\ cur' = [start |-> pos, id |-> Winner(count)]
      /\ todo' = todo \ {pos}
      /\ segments' = IF cur.id # None /\ pos > cur.start
                     THEN Append(segments, [start |-> cur.start, end |-> pos - 1,
                                            id |-> cur.id])
                     ELSE segments
  BY <1>2, <1>5 DEF Sweep
<1>7. cur.start \in Nat /\ cur.start <= pos /\ cur.id \in SiteIds \union {None}
  BY <1>3, <1>4 DEF Sweeping, InOrder, TypeOK
<1>8. cur'.start = pos /\ cur'.id = Winner(count)
  BY <1>6
<1>9. Boundaries(sites)' = Boundaries(sites) /\ \A a : Owner(a)' = Owner(a)
  BY <1>1, OwnerStays DEF Boundaries, Opens, Closes
<1>10. InOrder'
  <2>1. Boundaries(sites) \subseteq Nat
    BY <1>3 DEF Boundaries
  <2>2. \A b \in Boundaries(sites) \ (todo \ {pos}) : b = pos \/ b \in Boundaries(sites) \ todo
    OBVIOUS
  <2>3. \A b \in Boundaries(sites) \ (todo \ {pos}) : b <= pos
    BY <1>4, <2>1, <2>2 DEF Sweeping, InOrder
  <2>4. ASSUME NEW b \in Boundaries(sites) \ (todo \ {pos}), NEW t \in todo \ {pos}
        PROVE  b < t
    <3>1. pos <= t /\ t # pos /\ t \in Nat
      BY <1>3, <1>4
    <3> QED
      BY <1>4, <2>1, <2>3, <3>1
  <2> QED
    BY <1>4, <1>6, <1>8, <1>9, <2>3, <2>4 DEF Sweeping, InOrder
<1>11. ASSUME NEW id \in SiteIds
       PROVE  count[id] \in Nat /\ count[id] = Cardinality(Open(id))'
  <2>1. active[id] = Cardinality(Open(id))
    BY DEF Sweeping, Counted
  <2> QED
    BY <1>1, <1>4, <1>5, <1>6, <2>1, RoundCounts DEF Sweeping
<1>12. count \in [SiteIds -> Nat]
  BY <1>5, <1>11
<1>13. Counted'
  <2>1. \A id \in SiteIds : active'[id] = Cardinality(Open(id))'
    BY <1>6, <1>11
  <2>2. cur'.id = Winner(active)'
    BY <1>6, <1>8 DEF Winner
  <2> QED
    BY <1>6, <1>12, <2>1, <2>2 DEF Counted
<1>14. /\ Segs(segments')
       /\ \A i \in DOMAIN segments' : segments'[i].end < pos
       /\ \A a \in Addresses : a < pos /\ Owner(a) # None => CoveredIn(segments', a)
  <2>1. CASE pos > cur.start
    <3>1. PICK last : last = pos - 1
      OBVIOUS
    <3>2. last \in Addresses /\ last \in Nat /\ cur.start <= last
      BY <1>3, <1>4, <1>7, <2>1, <3>1
    <3>3. \A t \in todo : last < t
      BY <1>3, <1>4, <3>1
    <3>4. segments' = IF cur.id # None
                      THEN Append(segments, [start |-> cur.start, end |-> last, id |-> cur.id])
                      ELSE segments
      BY <1>6, <2>1, <3>1
    <3>5. PICK q : q = segments'
      OBVIOUS
    <3>6. /\ Segs(q) /\ \A i \in DOMAIN q : q[i].end <= last
          /\ \A a \in Addresses : a <= last /\ Owner(a) # None => CoveredIn(q, a)
      BY <1>1, <1>7, <3>2, <3>3, <3>4, <3>5, StretchEmitted
    <3>7. \A i \in DOMAIN q : q[i].end \in Nat
      BY <3>6, SegmentFields DEF Segs
    <3>8. \A i \in DOMAIN q : q[i].end < pos
      BY <1>4, <3>1, <3>6, <3>7
    <3>9. \A a \in Addresses : a < pos => a <= last
      BY <1>3, <1>4, <3>1
    <3> QED
      BY <3>5, <3>6, <3>8, <3>9
  <2>2. CASE ~(pos > cur.start)
    <3>1. pos = cur.start /\ segments' = segments
      BY <1>4, <1>6, <1>7, <2>2
    <3> QED
      BY <3>1 DEF Sweeping
  <2> QED
    BY <2>1, <2>2
<1>15. Segs(segments)'
  BY <1>1, <1>14, OwnerStays DEF Segs, OwnedBy
<1>16. Sweeping'
  BY <1>8, <1>9, <1>10, <1>13, <1>14 DEF Sweeping
<1>17. cur' \in [start : Addresses, id : SiteIds \union {None}]
  BY <1>4, <1>6, WinnerIsSite
<1> QED
  BY <1>6, <1>12, <1>15, <1>16, <1>17

-----------------------------------------------------------------------------
(* Merging.  Two neighbours of one site leave a gap between them.          *)

Glued(s) ==
    \A i \in DOMAIN s : i + 1 \in DOMAIN s =>
        s[i].id # s[i + 1].id \/ s[i].end + 1 < s[i + 1].start

Before(s, t) == \A i \in DOMAIN s, j \in DOMAIN t : s[i].end < t[j].start

Merging ==
    /\ Before(merged, segments)
    /\ Glued(merged)
    /\ \A a \in Addresses :
          Owner(a) # None => CoveredIn(merged, a) \/ CoveredIn(segments, a)

LEMMA FinishKeeps ==
    ASSUME TypeOK, Sweeping, Segs(segments), merged = <<>>, Finish
    PROVE  Merging' /\ Segs(segments)'
<1>1. /\ SitesOK /\ sites' = sites /\ todo = {} /\ merged' = merged
      /\ cur.id \in SiteIds \union {None}
  BY DEF TypeOK, SitesOK, Finish
<1>2. PICK last : last = AddrMax
  OBVIOUS
<1>3. last \in Addresses /\ Addresses = 0 .. last /\ last \in Nat /\ cur.start <= last
  BY <1>2, AddressesAreNumbers DEF Sweeping, InOrder
<1>4. segments' = IF cur.id # None
                  THEN Append(segments, [start |-> cur.start, end |-> last, id |-> cur.id])
                  ELSE segments
  BY <1>2 DEF Finish
<1>5. PICK q : q = segments'
  OBVIOUS
<1>6. /\ Segs(q)
      /\ \A a \in Addresses : a <= last /\ Owner(a) # None => CoveredIn(q, a)
  BY <1>1, <1>3, <1>4, <1>5, StretchEmitted
<1>7. Segs(segments)'
  BY <1>1, <1>5, <1>6, OwnerStays DEF Segs, OwnedBy
<1>8. \A a \in Addresses : a <= last
  BY <1>3
<1>9. DOMAIN merged' = {}
  BY <1>1
<1>10. Before(merged, segments)' /\ Glued(merged)'
  BY <1>9 DEF Before, Glued
<1> QED
  BY <1>1, <1>5, <1>6, <1>7, <1>8, <1>10, OwnerStays DEF Merging

\* One round of the loop (identity.rs 158-164).
LEMMA GlueKeeps ==
    ASSUME NEW s, Segs(s), Glued(s), NEW seg \in Segment, seg.start <= seg.end, OwnedBy(seg),
           \A i \in DOMAIN s : s[i].end < seg.start,
           NEW q, q = Glue(s, seg)
    PROVE  /\ Segs(q) /\ Glued(q)
           /\ \A i \in DOMAIN q : q[i].end <= seg.end
           /\ \A a \in Addresses : CoveredIn(q, a) <=> CoveredIn(s, a) \/ Covers(seg, a)
<1>1. PICK n : n = Len(s)
  OBVIOUS
<1>2. s \in Seq(Segment) /\ n \in Nat /\ DOMAIN s = 1 .. n
  BY <1>1 DEF Segs
<1>3. \A i \in 1 .. n : /\ s[i].start \in Nat /\ s[i].end \in Nat /\ s[i] \in Segment
                        /\ s[i].start <= s[i].end /\ s[i].end < seg.start
  BY <1>2, SegmentFields DEF Segs, Disjoint
<1>4. /\ seg.start \in Nat /\ seg.end \in Nat /\ seg.start <= AddrMax /\ AddrMax \in Nat
      /\ seg.end \in Addresses /\ seg.start \in Addresses /\ seg.id \in SiteIds
      /\ Addresses \subseteq Nat
  BY AddressesAreNumbers DEF Segment
<1>5. n > 0 => n \in 1 .. n /\ (s[n].end + 1) % (AddrMax + 1) = s[n].end + 1
  <2>1. ASSUME n > 0 PROVE (s[n].end + 1) % (AddrMax + 1) = s[n].end + 1
    <3>1. n \in 1 .. n
      BY <1>2, <2>1
    <3>2. PICK e : e = s[n].end + 1
      OBVIOUS
    <3>3. e \in Nat /\ e < AddrMax + 1
      BY <1>3, <1>4, <3>1, <3>2
    <3>4. PICK m : m = AddrMax + 1
      OBVIOUS
    <3>5. e % m = e
      BY <1>4, <3>3, <3>4
    <3> QED
      BY <3>2, <3>4, <3>5
  <2> QED
    BY <1>2, <2>1
<1>6. CASE n > 0 /\ s[n].id = seg.id /\ s[n].end + 1 = seg.start
  <2>1. PICK e : e = [start |-> s[n].start, end |-> seg.end, id |-> s[n].id]
    OBVIOUS
  <2>2. n \in 1 .. n
    BY <1>5, <1>6
  <2>3. /\ e \in Segment /\ e.start = s[n].start /\ e.end = seg.end /\ e.id = s[n].id
        /\ e.start <= e.end
    <3>1. s[n].start \in Addresses /\ s[n].id \in SiteIds
      BY <1>2, <2>2, SegmentFields
    <3>2. s[n].start <= seg.end
      BY <1>3, <1>4, <2>2
    <3> QED
      BY <1>4, <2>1, <3>1, <3>2 DEF Segment
  <2>4. [s[n] EXCEPT !.end = seg.end] = e
    BY <1>3, <2>1, <2>2 DEF Segment
  <2>5. q = [s EXCEPT ![n] = e]
    BY <1>1, <1>5, <1>6, <2>4 DEF Glue
  <2>6. q \in Seq(Segment) /\ DOMAIN q = 1 .. n
    <3>1. q \in Seq(Segment) /\ Len(q) = n
      BY <1>1, <1>2, <2>2, <2>3, <2>5, ExceptSeq
    <3> QED
      BY <3>1
  <2>7. q[n] = e /\ \A i \in 1 .. n : i # n => q[i] = s[i]
    BY <1>2, <2>2, <2>5
  <2>8. \A i \in 1 .. n : q[i].start = s[i].start /\ q[i].id = s[i].id
    BY <2>3, <2>7
  <2>9. Disjoint(q)
    <3>1. \A i \in 1 .. n : q[i].start <= q[i].end
      BY <1>3, <2>3, <2>7
    <3>2. ASSUME NEW i \in 1 .. n, NEW j \in 1 .. n, i < j PROVE q[i].end < q[j].start
      <4>1. i # n /\ q[i] = s[i]
        BY <1>2, <2>7, <3>2
      <4> QED
        BY <1>2, <2>8, <3>2, <4>1 DEF Segs, Disjoint
    <3> QED
      BY <2>6, <3>1, <3>2 DEF Disjoint
  <2>10. \A a \in Addresses : Covers(e, a) <=> Covers(s[n], a) \/ Covers(seg, a)
    BY <1>3, <1>4, <1>6, <2>2, <2>3 DEF Covers
  <2>11. OwnedBy(e)
    BY <1>2, <1>6, <2>2, <2>3, <2>10 DEF OwnedBy, Segs
  <2>12. \A i \in 1 .. n : OwnedBy(q[i])
    BY <1>2, <2>7, <2>11 DEF Segs
  <2>13. Glued(q)
    <3>1. ASSUME NEW i \in 1 .. n, i + 1 \in 1 .. n
          PROVE  q[i].id # q[i + 1].id \/ q[i].end + 1 < q[i + 1].start
      <4>1. i # n /\ q[i] = s[i]
        BY <1>2, <2>7, <3>1
      <4> QED
        BY <1>2, <2>8, <3>1, <4>1 DEF Glued
    <3> QED
      BY <2>6, <3>1 DEF Glued
  <2>14. \A i \in DOMAIN q : q[i].end <= seg.end
    BY <1>3, <1>4, <2>3, <2>6, <2>7
  <2>15. \A a \in Addresses : CoveredIn(q, a) <=> CoveredIn(s, a) \/ Covers(seg, a)
    BY <1>2, <2>2, <2>6, <2>7, <2>10 DEF CoveredIn
  <2> QED
    BY <2>6, <2>9, <2>12, <2>13, <2>14, <2>15 DEF Segs
<1>7. CASE ~(n > 0 /\ s[n].id = seg.id /\ s[n].end + 1 = seg.start)
  <2>1. q = Append(s, seg)
    BY <1>1, <1>5, <1>7 DEF Glue
  <2>2. /\ Segs(q) /\ DOMAIN q = 1 .. n + 1 /\ q[n + 1] = seg
        /\ \A i \in 1 .. n : q[i] = s[i]
        /\ \A a : CoveredIn(q, a) <=> CoveredIn(s, a) \/ Covers(seg, a)
    <3>1. Behind(s, seg)
      BY DEF Behind
    <3>2. Longer(q, s, seg, n)
      BY <1>1, <2>1, <3>1, AppendSegment
    <3> QED
      BY <3>2 DEF Longer
  <2>3. Glued(q)
    <3>1. ASSUME NEW i \in 1 .. n + 1, i + 1 \in 1 .. n + 1
          PROVE  q[i].id # q[i + 1].id \/ q[i].end + 1 < q[i + 1].start
      <4>1. i \in 1 .. n /\ q[i] = s[i]
        BY <1>2, <2>2, <3>1
      <4>2. CASE i = n
        <5>1. q[i + 1] = seg /\ n > 0
          BY <1>2, <2>2, <4>1, <4>2
        <5> QED
          BY <1>3, <1>4, <1>7, <4>1, <4>2, <5>1
      <4>3. CASE i # n
        <5>1. i + 1 \in 1 .. n
          BY <1>2, <4>1, <4>3
        <5> QED
          BY <1>2, <2>2, <4>1, <5>1 DEF Glued
      <4> QED
        BY <4>2, <4>3
    <3> QED
      BY <2>2, <3>1 DEF Glued
  <2>4. \A i \in 1 .. n + 1 : q[i].end <= seg.end
    <3>1. \A i \in 1 .. n + 1 : i \in 1 .. n \/ i = n + 1
      BY <1>2
    <3> QED
      BY <1>3, <1>4, <2>2, <3>1
  <2> QED
    BY <2>2, <2>3, <2>4
<1> QED
  BY <1>6, <1>7

LEMMA MergeKeeps ==
    ASSUME TypeOK, Merging, Segs(segments), Segs(merged), Merge
    PROVE  Merging' /\ Segs(segments)' /\ Segs(merged)'
<1>1. sites' = sites /\ segments # <<>>
  BY DEF Merge
<1>2. PICK seg, t, q : seg = Head(segments) /\ t = segments' /\ q = merged'
  OBVIOUS
<1>3. PICK n : n = Len(segments)
  OBVIOUS
<1>4. segments \in Seq(Segment) /\ n \in Nat /\ n > 0 /\ DOMAIN segments = 1 .. n
      /\ 1 \in 1 .. n /\ seg = segments[1]
  BY <1>1, <1>2, <1>3 DEF Segs
<1>5. /\ t = Tail(segments) /\ t \in Seq(Segment) /\ DOMAIN t = 1 .. n - 1
      /\ \A i \in 1 .. n - 1 : t[i] = segments[i + 1]
  BY <1>1, <1>2, <1>3, <1>4 DEF Merge
<1>6. \A i \in 1 .. n - 1 : i + 1 \in 1 .. n /\ 1 < i + 1
  BY <1>4
<1>7. /\ seg \in Segment /\ seg.start <= seg.end /\ OwnedBy(seg)
      /\ \A i \in DOMAIN merged : merged[i].end < seg.start
  BY <1>4, SegmentFields DEF Segs, Disjoint, Merging, Before
<1>8. q = Glue(merged, seg)
  BY <1>2 DEF Merge
<1>9. /\ Segs(q) /\ Glued(q)
      /\ \A i \in DOMAIN q : q[i].end <= seg.end
      /\ \A a \in Addresses : CoveredIn(q, a) <=> CoveredIn(merged, a) \/ Covers(seg, a)
  BY <1>7, <1>8, GlueKeeps DEF Merging
<1>10. Segs(t)
  <2>1. \A i \in 1 .. n - 1 : t[i].start <= t[i].end /\ OwnedBy(t[i])
    BY <1>4, <1>5, <1>6 DEF Segs, Disjoint
  <2>2. ASSUME NEW i \in 1 .. n - 1, NEW j \in 1 .. n - 1, i < j PROVE t[i].end < t[j].start
    <3>1. i + 1 < j + 1
      BY <2>2
    <3> QED
      BY <1>4, <1>5, <1>6, <3>1 DEF Segs, Disjoint
  <2> QED
    BY <1>5, <2>1, <2>2 DEF Segs, Disjoint
<1>11. Before(q, t)
  <2>1. ASSUME NEW i \in DOMAIN q, NEW j \in 1 .. n - 1 PROVE q[i].end < t[j].start
    <3>1. seg.end < t[j].start
      BY <1>4, <1>5, <1>6 DEF Segs, Disjoint
    <3>2. q[i].end \in Nat /\ t[j].start \in Nat /\ seg.end \in Nat
      BY <1>4, <1>5, <1>9, <1>10, SegmentFields DEF Segs
    <3> QED
      BY <1>9, <3>1, <3>2
  <2> QED
    BY <1>5, <2>1 DEF Before
<1>12. \A a \in Addresses : CoveredIn(segments, a) => Covers(seg, a) \/ CoveredIn(t, a)
  <2>1. \A i \in 1 .. n : i = 1 \/ (i - 1 \in 1 .. n - 1 /\ (i - 1) + 1 = i)
    BY <1>4
  <2>2. \A i \in 1 .. n : i = 1 \/ \E j \in 1 .. n - 1 : segments[i] = t[j]
    BY <1>5, <2>1
  <2> QED
    BY <1>4, <1>5, <2>2 DEF CoveredIn
<1>13. \A a \in Addresses : Owner(a) # None => CoveredIn(q, a) \/ CoveredIn(t, a)
  BY <1>9, <1>12 DEF Merging
<1>14. Segs(segments)' /\ Segs(merged)'
  BY <1>1, <1>2, <1>9, <1>10, OwnerStays DEF Segs, OwnedBy
<1> QED
  BY <1>1, <1>2, <1>9, <1>11, <1>13, <1>14, OwnerStays DEF Merging, Before, Glued

-----------------------------------------------------------------------------
(* The index.  A label belongs to whoever has listed it so far.            *)

Passed(n, j) == n < at.site \/ (n = at.site /\ j < at.vpce)

Listed(l) == {sites[n].id : n \in {n \in DOMAIN sites :
                 \E j \in DOMAIN sites[n].vpce : sites[n].vpce[j] = l /\ Passed(n, j)}}

Indexing ==
    /\ index \in [Labels -> SiteIds \union {None}]
    /\ at \in [site : Nat \ {0}, vpce : Nat \ {0}]
    /\ phase # "index" => at.site \notin DOMAIN sites
    /\ \A l \in Labels : index[l] = OwnerAmong(Listed(l))

\* One more site among those that list a label (identity.rs 79-96).
LEMMA ContestIs ==
    ASSUME NEW ids \in SUBSET (SiteIds \ {SITE_CONTESTED}),
           NEW id \in SiteIds \ {SITE_CONTESTED}
    PROVE  Contest(OwnerAmong(ids), id) = OwnerAmong(ids \union {id})
<1>1. None \notin SiteIds
  BY NoneAssumption
<1>2. ids \union {id} \in SUBSET (SiteIds \ {SITE_CONTESTED})
  OBVIOUS
<1>3. CASE ids = {}
  <2>1. OwnerAmong(ids) = None /\ ids \union {id} = {id}
    BY <1>3, OwnerIs
  <2>2. OwnerAmong(ids \union {id}) = id
    BY <1>2, <2>1, OwnerIs
  <2> QED
    BY <2>1, <2>2 DEF Contest
<1>4. ASSUME NEW x \in ids, ids = {x} PROVE Contest(OwnerAmong(ids), id) = OwnerAmong(ids \union {id})
  <2>1. OwnerAmong(ids) = x /\ x # None /\ x # SITE_CONTESTED
    BY <1>1, <1>4, OwnerIs
  <2>2. CASE x = id
    <3>1. ids \union {id} = {x}
      BY <1>4, <2>2
    <3>2. OwnerAmong(ids \union {id}) = x
      BY <1>2, <3>1, OwnerIs
    <3> QED
      BY <2>1, <2>2, <3>2 DEF Contest
  <2>3. CASE x # id
    <3>1. OwnerAmong(ids \union {id}) = SITE_CONTESTED
      BY <1>2, <2>3, OwnerIs
    <3> QED
      BY <2>1, <2>3, <3>1 DEF Contest
  <2> QED
    BY <2>2, <2>3
<1>5. ASSUME \E x, y \in ids : x # y PROVE Contest(OwnerAmong(ids), id) = OwnerAmong(ids \union {id})
  <2>1. OwnerAmong(ids) = SITE_CONTESTED
    BY <1>5, OwnerIs
  <2>2. OwnerAmong(ids \union {id}) = SITE_CONTESTED
    BY <1>2, <1>5, OwnerIs
  <2>3. SITE_CONTESTED # None
    BY <1>1, LayoutAssumption DEF SiteIds, SITE_CONTESTED
  <2> QED
    BY <2>1, <2>2, <2>3 DEF Contest
<1>6. ids = {} \/ (\E x \in ids : ids = {x}) \/ \E x, y \in ids : x # y
  OBVIOUS
<1> QED
  BY <1>3, <1>4, <1>5, <1>6

LEMMA ListedAreSites ==
    ASSUME SitesOK, NEW l
    PROVE  Listed(l) \in SUBSET (SiteIds \ {SITE_CONTESTED})
BY SiteFields DEF Listed

LEMMA IndexLabelKeeps == SitesOK /\ Indexing /\ IndexLabel => Indexing'
<1> SUFFICES ASSUME SitesOK, Indexing, IndexLabel PROVE Indexing'
  OBVIOUS
<1>1. PICK n, j : n = at.site /\ j = at.vpce
  OBVIOUS
<1>2. PICK lab, id : lab = sites[n].vpce[j] /\ id = sites[n].id
  OBVIOUS
<1>3. /\ n \in DOMAIN sites /\ j \in DOMAIN sites[n].vpce /\ phase = "index" /\ phase' = phase
      /\ sites' = sites /\ index' = [index EXCEPT ![lab] = Contest(index[lab], id)]
      /\ at' = [at EXCEPT !.vpce = j + 1]
  BY <1>1, <1>2 DEF IndexLabel, Indexing
<1>4. n \in Nat /\ j \in Nat /\ lab \in Labels /\ id \in SiteIds \ {SITE_CONTESTED}
  <2>1. sites[n].vpce \in Seq(Labels) /\ n \in Nat /\ id \in SiteIds \ {SITE_CONTESTED}
    BY <1>2, <1>3, SiteFields
  <2>2. lab \in Labels
    BY <1>2, <1>3, <2>1, ElementOfSeq
  <2>3. j \in Nat
    BY <1>1 DEF Indexing
  <2> QED
    BY <2>1, <2>2, <2>3
<1>5. at' \in [site : Nat \ {0}, vpce : Nat \ {0}] /\ at'.site = n /\ at'.vpce = j + 1
  BY <1>1, <1>3, <1>4 DEF Indexing
<1>6. ASSUME NEW m \in DOMAIN sites, NEW i \in DOMAIN sites[m].vpce
      PROVE  Passed(m, i)' <=> Passed(m, i) \/ (m = n /\ i = j)
  <2>1. i \in Nat
    <3>1. sites[m].vpce \in Seq(Labels)
      BY SiteFields
    <3> QED
      BY <3>1
  <2>2. Passed(m, i)' <=> m < n \/ (m = n /\ i < j + 1)
    BY <1>5 DEF Passed
  <2>3. Passed(m, i) <=> m < n \/ (m = n /\ i < j)
    BY <1>1 DEF Passed
  <2> QED
    BY <1>4, <2>1, <2>2, <2>3
<1>7. ASSUME NEW l \in Labels
      PROVE  Listed(l)' = IF l = lab THEN Listed(l) \union {id} ELSE Listed(l)
  <2>1. \A x : x \in Listed(l)' <=> \E m \in DOMAIN sites : \E i \in DOMAIN sites[m].vpce :
                  x = sites[m].id /\ sites[m].vpce[i] = l /\ Passed(m, i)'
    BY <1>3 DEF Listed
  <2>2. \A x : x \in Listed(l) <=> \E m \in DOMAIN sites : \E i \in DOMAIN sites[m].vpce :
                  x = sites[m].id /\ sites[m].vpce[i] = l /\ Passed(m, i)
    BY DEF Listed
  <2>3. \A x : x \in Listed(l)' <=> x \in Listed(l) \/ (x = id /\ l = lab)
    BY <1>2, <1>3, <1>6, <2>1, <2>2
  <2> QED
    BY <2>3
<1>8. ASSUME NEW l \in Labels PROVE index'[l] = OwnerAmong(Listed(l)')
  <2>1. index[l] = OwnerAmong(Listed(l))
    BY DEF Indexing
  <2>2. CASE l = lab
    <3>1. index'[l] = Contest(OwnerAmong(Listed(l)), id)
      BY <1>3, <1>4, <2>1, <2>2 DEF Indexing
    <3> QED
      BY <1>4, <1>7, <2>2, <3>1, ContestIs, ListedAreSites
  <2>3. CASE l # lab
    BY <1>3, <1>7, <2>1, <2>3 DEF Indexing
  <2> QED
    BY <2>2, <2>3
<1>9. ASSUME NEW l \in Labels PROVE OwnerAmong(Listed(l)') \in SiteIds \union {None}
  <2>1. Listed(l)' \in SUBSET (SiteIds \ {SITE_CONTESTED})
    BY <1>4, <1>7, ListedAreSites
  <2> QED
    BY <2>1, OwnerIs
<1>10. index' \in [Labels -> SiteIds \union {None}]
  <2>1. DOMAIN index' = Labels /\ index' = [l \in Labels |-> index'[l]]
    BY <1>3 DEF Indexing
  <2> QED
    BY <1>8, <1>9, <2>1
<1> QED
  BY <1>3, <1>5, <1>8, <1>10 DEF Indexing, OwnerAmong

LEMMA IndexSiteKeeps == SitesOK /\ Indexing /\ IndexSite => Indexing'
<1> SUFFICES ASSUME SitesOK, Indexing, IndexSite PROVE Indexing'
  OBVIOUS
<1>1. sites' = sites /\ index' = index /\ phase = "index"
  BY DEF IndexSite
<1>2. CASE at.site \in DOMAIN sites
  <2>1. PICK n, j : n = at.site /\ j = at.vpce
    OBVIOUS
  <2>2. /\ at' = [site |-> n + 1, vpce |-> 1] /\ phase' = phase /\ j \notin DOMAIN sites[n].vpce
        /\ n \in Nat \ {0} /\ j \in Nat \ {0}
    BY <1>2, <2>1 DEF IndexSite, Indexing
  <2>3. at' \in [site : Nat \ {0}, vpce : Nat \ {0}] /\ at'.site = n + 1 /\ at'.vpce = 1
    BY <2>2
  <2>4. ASSUME NEW m \in DOMAIN sites, NEW i \in DOMAIN sites[m].vpce
        PROVE  Passed(m, i)' <=> Passed(m, i)
    <3>1. sites[m].vpce \in Seq(Labels) /\ m \in Nat
      BY SiteFields
    <3>2. i \in 1 .. Len(sites[m].vpce) /\ Len(sites[m].vpce) \in Nat
      BY <3>1
    <3>3. Passed(m, i)' <=> m < n + 1 \/ (m = n + 1 /\ i < 1)
      BY <2>3 DEF Passed
    <3>4. Passed(m, i) <=> m < n \/ (m = n /\ i < j)
      BY <2>1 DEF Passed
    <3>5. m = n => i < j
      BY <2>2, <3>1, <3>2
    <3> QED
      BY <2>2, <3>1, <3>2, <3>3, <3>4, <3>5
  <2>5. \A l : Listed(l)' = Listed(l)
    BY <1>1, <2>4 DEF Listed
  <2> QED
    BY <1>1, <2>2, <2>3, <2>5 DEF Indexing, OwnerAmong
<1>3. CASE at.site \notin DOMAIN sites
  <2>1. at' = at
    BY <1>3 DEF IndexSite
  <2>2. \A l : Listed(l)' = Listed(l)
    BY <1>1, <2>1 DEF Listed, Passed
  <2> QED
    BY <1>1, <1>3, <2>1, <2>2 DEF Indexing, OwnerAmong
<1> QED
  BY <1>2, <1>3

LEMMA IndexStays ==
    ASSUME Indexing, UNCHANGED <<sites, at, index>>, phase # "index"
    PROVE  Indexing'
<1>1. \A l : Listed(l)' = Listed(l)
  BY DEF Listed, Passed
<1> QED
  BY <1>1 DEF Indexing, OwnerAmong

-----------------------------------------------------------------------------
(* Scheme::new as a whole.                                                 *)

SchemeInv ==
    /\ TypeOK
    /\ Indexing
    /\ Segs(segments) /\ Segs(merged)
    /\ phase \in {"index", "sweep"} => Sweeping /\ merged = <<>>
    /\ phase \in {"merge", "built"} => Merging
    /\ phase = "built" => segments = <<>>

LEMMA NothingCounted ==
    ASSUME SitesOK, NEW id, todo = Boundaries(sites) PROVE Open(id) = {}
<1>1. ASSUME NEW k \in Open(id) PROVE FALSE
  <2>1. k \in Claims(sites) /\ ClaimOf(sites, k).start \notin Boundaries(sites)
    BY <1>1 DEF Open
  <2> QED
    BY <2>1, ClaimFields
<1> QED
  BY <1>1

LEMMA SchemeInvInit == Init => SchemeInv
<1> SUFFICES ASSUME Init PROVE SchemeInv
  OBVIOUS
<1>1. SitesOK /\ phase = "index" /\ todo = Boundaries(sites) /\ segments = <<>> /\ merged = <<>>
      /\ active = [id \in SiteIds |-> 0] /\ cur = [start |-> 0, id |-> None]
      /\ at = [site |-> 1, vpce |-> 1] /\ index = [l \in Labels |-> None]
  BY DEF Init, SitesOK
<1>2. 0 \in Addresses /\ Addresses \subseteq Nat
  BY AddressesAreNumbers
<1>3. todo \in SUBSET Addresses
  BY <1>1 DEF Boundaries
<1>4. <<>> \in Seq(Segment) /\ DOMAIN <<>> = {}
  OBVIOUS
<1>5. TypeOK
  BY <1>1, <1>2, <1>3, <1>4 DEF TypeOK, SitesOK
<1>6. Segs(segments) /\ Segs(merged)
  BY <1>1, <1>4 DEF Segs, Disjoint
<1>7. Indexing
  <2>1. ASSUME NEW l PROVE Listed(l) = {}
    <3>1. \A n \in DOMAIN sites : \A j \in DOMAIN sites[n].vpce : ~Passed(n, j)
      <4> SUFFICES ASSUME NEW n \in DOMAIN sites, NEW j \in DOMAIN sites[n].vpce
                   PROVE  ~Passed(n, j)
        OBVIOUS
      <4>1. sites[n].vpce \in Seq(Labels) /\ sites \in Seq(Site)
        BY <1>1, SiteFields, SitesAssumption DEF SitesOK
      <4>2. j \in Nat /\ j >= 1 /\ n \in Nat /\ n >= 1
        BY <4>1
      <4> QED
        BY <1>1, <4>2 DEF Passed
    <3> QED
      BY <3>1 DEF Listed
  <2>2. OwnerAmong({}) = None
    BY DEF OwnerAmong
  <2>3. index \in [Labels -> SiteIds \union {None}] /\ (\A l \in Labels : index[l] = None)
    BY <1>1
  <2>4. at \in [site : Nat \ {0}, vpce : Nat \ {0}]
    BY <1>1
  <2>5. \A l \in Labels : index[l] = OwnerAmong(Listed(l))
    <3> SUFFICES ASSUME NEW l \in Labels PROVE index[l] = OwnerAmong(Listed(l))
      OBVIOUS
    <3>1. Listed(l) = {}
      BY <2>1
    <3> QED
      BY <2>2, <2>3, <3>1
  <2> QED
    BY <1>1, <2>3, <2>4, <2>5 DEF Indexing
<1>8. InOrder
  BY <1>1, <1>2, <1>3 DEF InOrder
<1>9. Counted
  <2>1. \A id \in SiteIds : active[id] = 0 /\ Cardinality(Open(id)) = 0
    BY <1>1, NothingCounted, FS_EmptySet
  <2>2. {id \in SiteIds : active[id] > 0} = {}
    BY <2>1
  <2>3. Winner(active) = None
    BY <2>2 DEF Winner
  <2> QED
    BY <1>1, <2>1, <2>3 DEF Counted
<1>10. Sweeping
  <2>1. \A a \in Addresses : ~(a < cur.start)
    BY <1>1, <1>2
  <2> QED
    BY <1>1, <1>4, <1>8, <1>9, <2>1 DEF Sweeping
<1> QED
  BY <1>1, <1>5, <1>6, <1>7, <1>10 DEF SchemeInv

\* Steps that leave the sweep alone, or the merge.
LEMMA SweepStays ==
    ASSUME UNCHANGED <<sites, sweepVars, segments>>
    PROVE  Sweeping' <=> Sweeping
<1>1. Boundaries(sites)' = Boundaries(sites) /\ (\A a : Owner(a)' = Owner(a))
      /\ todo' = todo /\ active' = active /\ cur' = cur
  BY OwnerStays DEF Boundaries, Opens, Closes, sweepVars
<1>2. InOrder' <=> InOrder
  BY <1>1 DEF InOrder
<1>3. \A id : Open(id)' = Open(id)
  BY <1>1 DEF Open
<1>4. Counted' <=> Counted
  BY <1>1, <1>3 DEF Counted, Winner
<1> QED
  BY <1>1, <1>2, <1>4 DEF Sweeping

LEMMA MergeStays ==
    ASSUME UNCHANGED <<sites, segments, merged>>
    PROVE  /\ Merging' <=> Merging
           /\ Segs(segments)' <=> Segs(segments)
           /\ Segs(merged)' <=> Segs(merged)
<1>1. \A a : Owner(a)' = Owner(a)
  BY OwnerStays
<1> QED
  BY <1>1 DEF Merging, Segs, OwnedBy

LEMMA SchemeInvNext == SchemeInv /\ [Next]_vars => SchemeInv'
<1> SUFFICES ASSUME SchemeInv, [Next]_vars PROVE SchemeInv'
  OBVIOUS
<1>1. SitesOK /\ TypeOK /\ Indexing /\ Segs(segments) /\ Segs(merged)
  BY DEF SchemeInv, TypeOK, SitesOK
<1>2. CASE IndexLabel \/ IndexSite
  <2>1. /\ UNCHANGED <<sites, sweepVars, segments, merged>>
        /\ phase = "index" /\ phase' \in {"index", "sweep"}
    BY <1>2 DEF IndexLabel, IndexSite
  <2>2. Indexing'
    BY <1>1, <1>2, IndexLabelKeeps, IndexSiteKeeps
  <2>3. Sweeping' /\ merged' = <<>>
    BY <2>1, SweepStays DEF SchemeInv
  <2>4. Segs(segments)' /\ Segs(merged)'
    BY <1>1, <2>1, MergeStays
  <2>5. TypeOK'
    <3>1. index' \in [Labels -> SiteIds \union {None}] /\ at' \in [site : Nat, vpce : Nat]
      BY <2>2 DEF Indexing
    <3> QED
      BY <1>1, <2>1, <3>1 DEF TypeOK, sweepVars
  <2> QED
    BY <2>1, <2>2, <2>3, <2>4, <2>5 DEF SchemeInv
<1>3. CASE Sweep
  <2>1. /\ phase = "sweep" /\ phase' = "sweep" /\ sites' = sites /\ merged' = merged
        /\ at' = at /\ index' = index
    BY <1>3 DEF Sweep, indexVars
  <2>2. Sweeping /\ merged = <<>>
    BY <2>1 DEF SchemeInv
  <2>3. /\ Sweeping' /\ Segs(segments)' /\ active' \in [SiteIds -> Nat]
        /\ cur' \in [start : Addresses, id : SiteIds \union {None}]
    BY <1>1, <1>3, <2>2, SweepKeeps
  <2>4. Segs(merged)'
    BY <1>1, <2>1, OwnerStays DEF Segs, OwnedBy
  <2>5. Indexing'
    BY <1>1, <2>1, IndexStays
  <2>6. todo' \in SUBSET Addresses
    BY <1>1, <1>3 DEF TypeOK, Sweep
  <2>7. TypeOK'
    BY <1>1, <2>1, <2>3, <2>6 DEF TypeOK, Segs
  <2> QED
    BY <2>1, <2>2, <2>3, <2>4, <2>5, <2>7 DEF SchemeInv
<1>4. CASE Finish
  <2>1. /\ phase = "sweep" /\ phase' = "merge" /\ sites' = sites /\ merged' = merged
        /\ at' = at /\ index' = index /\ UNCHANGED sweepVars
    BY <1>4 DEF Finish, indexVars
  <2>2. Sweeping /\ merged = <<>>
    BY <2>1 DEF SchemeInv
  <2>3. Merging' /\ Segs(segments)'
    BY <1>1, <1>4, <2>2, FinishKeeps
  <2>4. Segs(merged)'
    BY <1>1, <2>1, OwnerStays DEF Segs, OwnedBy
  <2>5. Indexing'
    BY <1>1, <2>1, IndexStays
  <2>6. TypeOK'
    BY <1>1, <2>1, <2>3 DEF TypeOK, Segs, sweepVars
  <2> QED
    BY <2>1, <2>3, <2>4, <2>5, <2>6 DEF SchemeInv
<1>5. CASE Merge
  <2>1. /\ phase = "merge" /\ phase' = "merge" /\ sites' = sites
        /\ at' = at /\ index' = index /\ UNCHANGED sweepVars
    BY <1>5 DEF Merge, indexVars
  <2>2. Merging' /\ Segs(segments)' /\ Segs(merged)'
    BY <1>1, <1>5, <2>1, MergeKeeps DEF SchemeInv
  <2>3. Indexing'
    BY <1>1, <2>1, IndexStays
  <2>4. TypeOK'
    BY <1>1, <2>1, <2>2 DEF TypeOK, Segs, sweepVars
  <2> QED
    BY <2>1, <2>2, <2>3, <2>4 DEF SchemeInv
<1>6. CASE Build
  <2>1. /\ phase = "merge" /\ phase' = "built" /\ UNCHANGED <<sites, segments, merged>>
        /\ at' = at /\ index' = index /\ UNCHANGED sweepVars /\ segments = <<>>
    BY <1>6 DEF Build, indexVars
  <2>2. Merging' /\ Segs(segments)' /\ Segs(merged)'
    BY <1>1, <2>1, MergeStays DEF SchemeInv
  <2>3. Indexing'
    BY <1>1, <2>1, IndexStays
  <2>4. TypeOK'
    BY <1>1, <2>1 DEF TypeOK, sweepVars
  <2> QED
    BY <2>1, <2>2, <2>3, <2>4 DEF SchemeInv
<1>7. CASE UNCHANGED vars
  <2>1. /\ UNCHANGED <<sites, sweepVars, segments>> /\ UNCHANGED <<sites, segments, merged>>
        /\ phase' = phase /\ at' = at /\ index' = index
    BY <1>7 DEF vars, indexVars
  <2>2. Indexing'
    <3>1. \A l : Listed(l)' = Listed(l)
      BY <2>1 DEF Listed, Passed
    <3> QED
      BY <1>1, <2>1, <3>1 DEF Indexing, OwnerAmong
  <2>3. TypeOK'
    BY <1>1, <2>1 DEF TypeOK, sweepVars
  <2>4. Segs(segments)' /\ Segs(merged)' /\ (Merging' <=> Merging) /\ (Sweeping' <=> Sweeping)
    BY <1>1, <2>1, SweepStays, MergeStays
  <2> QED
    BY <2>1, <2>2, <2>3, <2>4 DEF SchemeInv
<1> QED
  BY <1>2, <1>3, <1>4, <1>5, <1>6, <1>7 DEF Next

LEMMA SchemeInvariance == Spec => []SchemeInv
BY SchemeInvInit, SchemeInvNext, PTL DEF Spec

-----------------------------------------------------------------------------
(* What the scheme finds.                                                  *)

\* The segments of a scheme that is built.
LEMMA BuiltSegments ==
    ASSUME SchemeInv, Built
    PROVE  /\ SitesOK /\ Segs(merged) /\ Glued(merged)
           /\ \A a \in Addresses : Owner(a) # None => CoveredIn(merged, a)
<1>1. segments = <<>> /\ Merging /\ Segs(merged) /\ SitesOK
  BY DEF SchemeInv, Built, TypeOK, SitesOK
<1>2. \A a : ~CoveredIn(segments, a)
  BY <1>1 DEF CoveredIn
<1> QED
  BY <1>1, <1>2 DEF Merging

\* A range belongs to the segment that covers it all, if there is one.
LEMMA RangeSiteIs ==
    ASSUME SchemeInv, Built, NEW a \in Addresses, NEW b \in Addresses, a <= b
    PROVE  \/ RangeSite(a, b) = None /\ \A i \in DOMAIN merged :
                                           ~(merged[i].start <= a /\ b <= merged[i].end)
           \/ \E i \in DOMAIN merged : /\ RangeSite(a, b) = merged[i].id
                                       /\ merged[i].start <= a /\ b <= merged[i].end
<1>1. merged \in Seq(Segment) /\ Disjoint(merged)
  BY BuiltSegments DEF Segs
<1>2. a \in Nat /\ b \in Nat
  BY AddressesAreNumbers
<1>3. PICK k : k = StartedBy(a)
  OBVIOUS
<1>4. /\ k \in 0 .. Len(merged)
      /\ \A i \in DOMAIN merged : merged[i].start <= a <=> i <= k
      /\ \A i \in DOMAIN merged : Covers(merged[i], a) => i = k
  BY <1>1, <1>2, <1>3, SearchFinds DEF StartedBy
<1>5. RangeSite(a, b) = IF k > 0 /\ b <= merged[k].end THEN merged[k].id ELSE None
  BY <1>3 DEF RangeSite
<1>6. \A i \in DOMAIN merged : merged[i].start \in Nat /\ merged[i].end \in Nat /\ i \in Nat /\ i > 0
  BY <1>1, SegmentFields
<1>7. CASE k > 0 /\ b <= merged[k].end
  <2>1. k \in DOMAIN merged /\ k <= k
    BY <1>1, <1>4, <1>7
  <2> QED
    BY <1>4, <1>5, <1>7, <2>1
<1>8. CASE ~(k > 0 /\ b <= merged[k].end)
  <2>1. ASSUME NEW i \in DOMAIN merged, merged[i].start <= a, b <= merged[i].end PROVE FALSE
    <3>1. Covers(merged[i], a)
      BY <1>2, <1>6, <2>1 DEF Covers
    <3>2. i = k
      BY <1>4, <3>1
    <3> QED
      BY <1>6, <1>8, <2>1, <3>2
  <2> QED
    BY <1>5, <1>8, <2>1
<1> QED
  BY <1>7, <1>8

LEMMA AddrSiteIsOwner == SchemeInv => SweepFindsOwner
<1> SUFFICES ASSUME SchemeInv, Built, NEW a \in Addresses PROVE AddrSite(a) = Owner(a)
  BY DEF SweepFindsOwner
<1>1. a \in Nat /\ a <= a
  BY AddressesAreNumbers
<1>2. CASE \E i \in DOMAIN merged : /\ RangeSite(a, a) = merged[i].id
                                    /\ merged[i].start <= a /\ a <= merged[i].end
  BY <1>2, BuiltSegments DEF AddrSite, Segs, OwnedBy, Covers
<1>3. CASE RangeSite(a, a) = None /\ \A i \in DOMAIN merged :
                                        ~(merged[i].start <= a /\ a <= merged[i].end)
  <2>1. ~CoveredIn(merged, a)
    BY <1>3 DEF CoveredIn, Covers
  <2> QED
    BY <1>3, <2>1, BuiltSegments DEF AddrSite
<1> QED
  BY <1>1, <1>2, <1>3, RangeSiteIs

LEMMA RangeSiteIsOwner == SchemeInv => RangeOwnedWhole
<1> SUFFICES ASSUME SchemeInv, Built, NEW a \in Addresses, NEW b \in Addresses, a <= b,
                    NEW id \in SiteIds
             PROVE  RangeSite(a, b) = id <=> \A x \in a .. b : Owner(x) = id
  BY DEF RangeOwnedWhole
<1>1. /\ a \in Nat /\ b \in Nat /\ AddrMax \in Nat /\ a .. b \subseteq Addresses
      /\ Addresses = 0 .. AddrMax /\ None # id
  BY AddressesAreNumbers, NoneAssumption
<1>2. merged \in Seq(Segment) /\ Disjoint(merged) /\ Glued(merged)
      /\ \A i \in DOMAIN merged : OwnedBy(merged[i])
  BY BuiltSegments DEF Segs
<1>3. \A i \in DOMAIN merged : /\ merged[i].start \in Nat /\ merged[i].end \in Nat
                               /\ merged[i].end <= AddrMax /\ i \in Nat
                               /\ merged[i].start <= merged[i].end
  BY <1>1, <1>2, SegmentFields DEF Disjoint
<1>4. ASSUME RangeSite(a, b) = id PROVE \A x \in a .. b : Owner(x) = id
  <2>1. PICK i \in DOMAIN merged : /\ id = merged[i].id
                                   /\ merged[i].start <= a /\ b <= merged[i].end
    BY <1>1, <1>4, RangeSiteIs
  <2>2. \A x \in a .. b : x \in Addresses /\ Covers(merged[i], x)
    BY <1>1, <1>3, <2>1 DEF Covers
  <2> QED
    BY <1>2, <2>1, <2>2 DEF OwnedBy
<1>5. ASSUME \A x \in a .. b : Owner(x) = id PROVE RangeSite(a, b) = id
  <2>1. \A x \in a .. b : x \in Addresses /\ Owner(x) # None
    BY <1>1, <1>5
  <2>2. a \in a .. b
    BY <1>1
  <2>3. PICK i \in DOMAIN merged : merged[i].start <= a /\ a <= merged[i].end
    BY <2>1, <2>2, BuiltSegments DEF CoveredIn, Covers
  <2>4. merged[i].id = id
    BY <1>2, <1>5, <2>2, <2>3 DEF OwnedBy, Covers
  \* A segment of the site that ended within the range would have been glued to
  \* the one that goes on behind it.
  <2>5. ASSUME ~(b <= merged[i].end) PROVE FALSE
    <3>1. PICK x : x = merged[i].end + 1
      OBVIOUS
    <3>2. x \in a .. b /\ x \in Nat
      BY <1>1, <1>3, <2>3, <2>5, <3>1
    <3>3. PICK j \in DOMAIN merged : merged[j].start <= x /\ x <= merged[j].end
      BY <2>1, <3>2, BuiltSegments DEF CoveredIn, Covers
    <3>4. merged[j].id = id
      BY <1>1, <1>2, <1>5, <3>2, <3>3 DEF OwnedBy, Covers
    <3>5. i < j
      <4>1. ASSUME j < i PROVE FALSE
        <5>1. merged[j].end < merged[i].start
          BY <1>2, <4>1 DEF Disjoint
        <5> QED
          BY <1>3, <3>1, <3>3, <5>1
      <4>2. i # j
        BY <1>3, <3>1, <3>3
      <4> QED
        BY <1>3, <4>1, <4>2
    <3>6. PICK n : n = Len(merged)
      OBVIOUS
    <3>7. n \in Nat /\ DOMAIN merged = 1 .. n
      BY <1>2, <3>6
    <3>8. i + 1 \in DOMAIN merged /\ i < i + 1
      BY <3>5, <3>7
    <3>9. merged[i].end < merged[i + 1].start
      BY <1>2, <3>8 DEF Disjoint
    <3>10. i + 1 = j
      <4>1. ASSUME i + 1 < j PROVE FALSE
        <5>1. merged[i + 1].end < merged[j].start
          BY <1>2, <3>8, <4>1 DEF Disjoint
        <5> QED
          BY <1>3, <3>1, <3>3, <3>8, <3>9, <5>1
      <4> QED
        BY <1>3, <3>5, <4>1
    <3>11. merged[i].end + 1 < merged[i + 1].start
      BY <1>2, <2>4, <3>4, <3>8, <3>10 DEF Glued
    <3> QED
      BY <1>3, <3>1, <3>3, <3>8, <3>10, <3>11
  <2>6. PICK m \in DOMAIN merged : /\ RangeSite(a, b) = merged[m].id
                                   /\ merged[m].start <= a /\ b <= merged[m].end
    BY <2>3, <2>5, RangeSiteIs
  <2>7. Covers(merged[m], a)
    BY <1>1, <1>3, <2>6 DEF Covers
  <2> QED
    BY <1>2, <1>5, <2>2, <2>6, <2>7 DEF OwnedBy
<1> QED
  BY <1>4, <1>5

-----------------------------------------------------------------------------
(* Blocks.  A prefix is a block of a power of two, and so are the machines *)
(* of a site; a block that starts at a multiple of a larger one stays in it*)
(* (identity.rs 188-209, 396-417).                                         *)

LEMMA TimesGrows ==
    ASSUME NEW s \in Nat, NEW m \in Nat, NEW n \in Nat, m <= n
    PROVE  m * s \in Nat /\ m * s <= n * s
OBVIOUS

LEMMA TimesNext ==
    ASSUME NEW s \in Nat, NEW m \in Nat, NEW n \in Nat
    PROVE  (m + n) * s = m * s + n * s /\ 1 * s = s
OBVIOUS

\* Two blocks of one size are one, or one is behind the other.
LEMMA BlocksApart ==
    ASSUME NEW s \in Nat \ {0}, NEW m \in Nat, NEW n \in Nat, NEW a \in 0 .. s - 1,
           m * s <= n * s + a, n * s + a <= m * s + s - 1
    PROVE  m = n
<1>1. CASE m < n
  <2>1. (m + 1) * s <= n * s /\ (m + 1) * s = m * s + s
    BY <1>1, TimesGrows, TimesNext
  <2>2. m * s \in Nat /\ n * s \in Nat
    BY TimesGrows
  <2> QED
    BY <2>1, <2>2
<1>2. CASE n < m
  <2>1. (n + 1) * s <= m * s /\ (n + 1) * s = n * s + s
    BY <1>2, TimesGrows, TimesNext
  <2>2. m * s \in Nat /\ n * s \in Nat
    BY TimesGrows
  <2> QED
    BY <2>1, <2>2
<1> QED
  BY <1>1, <1>2

LEMMA Division ==
    ASSUME NEW s \in Nat \ {0}, NEW a \in Nat
    PROVE  \E r \in 0 .. s - 1, d \in Nat : r = a % s /\ a = d * s + r
<1>1. a % s \in 0 .. s - 1
  OBVIOUS
<1>2. a \div s \in Nat
  OBVIOUS
<1>3. a % s = a - s * (a \div s)
  OBVIOUS
<1>4. PICK d \in Nat, r \in Nat : d = a \div s /\ r = a % s
  BY <1>1, <1>2
<1>5. r = a - s * d
  BY <1>3, <1>4
<1>6. PICK D : D = s * d
  OBVIOUS
<1>7. D \in Int /\ d * s = D
  BY <1>6
<1>8. a = D + r
  BY <1>5, <1>6, <1>7
<1>9. a = d * s + r
  BY <1>7, <1>8
<1> QED
  BY <1>1, <1>4, <1>9

\* What is left of a number does not depend on the block it is in.
LEMMA RemainderIs ==
    ASSUME NEW s \in Nat \ {0}, NEW q \in Nat, NEW a \in Nat
    PROVE  (q * s + a) % s = a % s
<1>1. PICK u \in 0 .. s - 1, d \in Nat : u = a % s /\ a = d * s + u
  BY Division
<1>2. PICK x : x = q * s + a
  OBVIOUS
<1>3. q * s \in Nat /\ x \in Nat
  BY <1>2, TimesGrows
<1>4. PICK w \in 0 .. s - 1, e \in Nat : w = x % s /\ x = e * s + w
  BY <1>3, Division
<1>5. PICK f \in Nat : f = q + d
  OBVIOUS
<1>6. f * s = q * s + d * s /\ f * s \in Nat /\ d * s \in Nat /\ e * s \in Nat
  BY <1>5, TimesNext, TimesGrows
<1>7. PICK F \in Nat, E \in Nat : F = f * s /\ E = e * s
  BY <1>6
<1>8. F + u = E + w
  BY <1>1, <1>2, <1>3, <1>4, <1>6, <1>7
<1>9. E <= F + u /\ F + u <= E + s - 1
  BY <1>8
<1>10. e = f
  BY <1>7, <1>9, BlocksApart
<1>11. u = w
  BY <1>7, <1>8, <1>10
<1> QED
  BY <1>1, <1>2, <1>4, <1>11

LEMMA PowersDivide ==
    ASSUME NEW i \in 0 .. Width, NEW j \in 0 .. Width, i <= j
    PROVE  \E q \in Nat \ {0} : 2 ^ j = q * 2 ^ i
<1>1. PICK T : T = {k \in Nat : i <= k /\ k <= Width /\ ~\E q \in Nat \ {0} : 2 ^ k = q * 2 ^ i}
  OBVIOUS
<1>2. Width \in Nat
  BY WidthAssumption
<1> SUFFICES ASSUME j \in T PROVE FALSE
  BY <1>1, <1>2
<1>3. PICK k \in T : \A y \in T : k <= y
  BY <1>1, LeastNatural
<1>4. k \in Nat /\ i <= k /\ k <= Width /\ ~\E q \in Nat \ {0} : 2 ^ k = q * 2 ^ i
  BY <1>1
<1>5. 2 ^ i \in Nat
  BY PowerAssumption
<1>6. k # i
  <2>1. 2 ^ i = 1 * 2 ^ i
    BY <1>5
  <2> QED
    BY <1>4, <2>1
<1>7. k - 1 \in Nat /\ i <= k - 1 /\ k - 1 \in 0 .. Width - 1 /\ (k - 1) + 1 = k
      /\ k - 1 <= Width /\ ~(k <= k - 1)
  BY <1>2, <1>4, <1>6
<1>8. PICK q \in Nat \ {0} : 2 ^ (k - 1) = q * 2 ^ i
  BY <1>1, <1>3, <1>7
<1>9. 2 ^ k = 2 * 2 ^ (k - 1)
  BY <1>7, PowerAssumption
<1>10. 2 * (q * 2 ^ i) = (2 * q) * 2 ^ i /\ 2 * q \in Nat \ {0}
  BY <1>5
<1> QED
  BY <1>4, <1>8, <1>9, <1>10

\* RangeOf(p) is the block of its size that holds the address.
LEMMA RangeOfIs ==
    ASSUME NEW p, p.addr \in Nat, p.bits \in 0 .. Width
    PROVE  \E s \in Nat \ {0}, d \in Nat, r \in Nat :
              /\ s = 2 ^ (Width - p.bits) /\ d * s \in Nat /\ r < s
              /\ r = p.addr % s /\ p.addr = d * s + r
              /\ RangeOf(p).start = d * s /\ RangeOf(p).end = d * s + s - 1
<1>1. Width \in Nat /\ Width - p.bits \in 0 .. Width
  BY WidthAssumption
<1>2. PICK s \in Nat \ {0} : s = 2 ^ (Width - p.bits)
  BY <1>1, PowerAssumption
<1>3. PICK r \in 0 .. s - 1, d \in Nat : r = p.addr % s /\ p.addr = d * s + r
  BY Division
<1>4. PICK D \in Nat : D = d * s
  BY TimesGrows
<1>5. p.addr - (p.addr % s) = D
  BY <1>3, <1>4
<1>6. RangeOf(p).start = D /\ RangeOf(p).end = D + s - 1
  BY <1>2, <1>5 DEF RangeOf
<1>7. r \in Nat /\ r < s
  BY <1>3
<1> QED
  BY <1>2, <1>3, <1>4, <1>6, <1>7

\* No prefix leaves the space, and each holds its address.
LEMMA PrefixInSpace ==
    ASSUME NEW p, p.addr \in Addresses, p.bits \in 0 .. Width
    PROVE  /\ RangeOf(p).start \in Addresses /\ RangeOf(p).end \in Addresses
           /\ RangeOf(p).start <= RangeOf(p).end
           /\ RangeOf(p).start <= p.addr /\ p.addr <= RangeOf(p).end
<1>1. p.addr \in Nat /\ p.addr <= AddrMax /\ AddrMax \in Nat
  BY AddressesAreNumbers
<1>2. PICK s \in Nat \ {0}, d \in Nat, r \in Nat :
              /\ s = 2 ^ (Width - p.bits) /\ d * s \in Nat /\ r < s
              /\ p.addr = d * s + r
              /\ RangeOf(p).start = d * s /\ RangeOf(p).end = d * s + s - 1
  BY <1>1, RangeOfIs
<1>3. Width \in Nat /\ Width \in 0 .. Width /\ Width - p.bits \in 0 .. Width
      /\ Width - p.bits <= Width
  BY WidthAssumption
<1>4. PICK q \in Nat \ {0} : 2 ^ Width = q * s
  BY <1>2, <1>3, PowersDivide
<1>5. PICK D \in Nat, Q \in Nat : D = d * s /\ Q = q * s
  BY TimesGrows
<1>6. AddrMax = Q - 1
  BY <1>4, <1>5 DEF AddrMax
<1>7. D + s <= Q
  <2>1. CASE d < q
    <3>1. (d + 1) * s <= q * s /\ (d + 1) * s = d * s + s
      BY <2>1, TimesGrows, TimesNext
    <3> QED
      BY <1>5, <3>1
  <2>2. CASE q <= d
    <3>1. q * s <= d * s
      BY <2>2, TimesGrows
    <3> QED
      BY <1>1, <1>2, <1>5, <1>6, <3>1
  <2> QED
    BY <2>1, <2>2
<1>8. /\ RangeOf(p).start = D /\ RangeOf(p).end = D + s - 1 /\ p.addr = D + r
  BY <1>2, <1>5
<1>9. r < s
  BY <1>2
<1>10. D + r <= D + s - 1 /\ D \in 0 .. AddrMax /\ D + s - 1 \in 0 .. AddrMax
       /\ D <= D + s - 1 /\ D <= D + r
  BY <1>1, <1>6, <1>7, <1>9
<1> QED
  BY <1>8, <1>10, AddressesAreNumbers

-----------------------------------------------------------------------------
(* The rows of the ULA: a site's, a digest's and the address kind's, each  *)
(* a block of V4Size machines.                                             *)

Row(n) == UlaBase + n * V4Size
Rows == SiteCount + HashCount

LEMMA Layout ==
    /\ V4Size \in Nat \ {0} /\ V4Size = 2 ^ V4Bits /\ V4Bits \in Nat /\ Width - V4Bits \in 0 .. Width
    /\ Width - (Width - V4Bits) = V4Bits
    /\ UlaBase \in Nat /\ V4Base \in Nat /\ UlaBase % V4Size = 0 /\ V4Base % V4Size = 0
    /\ SiteCount \in Nat /\ SiteCount > 0 /\ HashCount \in Nat /\ Rows \in Nat
    /\ V4Base + V4Size <= UlaBase
<1>1. V4Bits \in 0 .. Width /\ Width \in Nat
  BY LayoutAssumption, WidthAssumption
<1>2. V4Size \in Nat \ {0}
  BY <1>1, PowerAssumption DEF V4Size
<1>3. SiteCount \in Nat \ {0} /\ HashCount \in Nat \ {0}
  BY LayoutAssumption
<1>4. UlaBase \in Nat /\ V4Base \in Nat /\ UlaBase % V4Size = 0 /\ V4Base % V4Size = 0
  BY LayoutAssumption
<1>5. Width - V4Bits \in 0 .. Width /\ Width - (Width - V4Bits) = V4Bits
  BY <1>1
<1>6. Rows \in Nat
  BY <1>3 DEF Rows
<1> QED
  BY <1>1, <1>2, <1>3, <1>4, <1>5, <1>6, LayoutAssumption DEF V4Size

\* The bases are multiples of every block of at most V4Size.
LEMMA BasesAligned ==
    ASSUME NEW b \in {V4Base, UlaBase}
    PROVE  \E q \in Nat : b = q * V4Size
<1>1. b \in Nat /\ b % V4Size = 0 /\ V4Size \in Nat \ {0}
  BY Layout
<1>2. PICK r \in 0 .. V4Size - 1, d \in Nat : r = b % V4Size /\ b = d * V4Size + r
  BY <1>1, Division
<1>3. d * V4Size \in Nat
  BY <1>1, TimesGrows
<1> QED
  BY <1>1, <1>2, <1>3

\* Every row lies in the ULA, a row after the one before it.
LEMMA RowsInUla ==
    ASSUME NEW n \in 0 .. Rows, NEW low \in 0 .. V4Size - 1
    PROVE  /\ Row(n) \in Nat /\ Row(n) + low \in Addresses /\ Row(n) \in Addresses
           /\ UlaBase <= Row(n) /\ Row(n) + V4Size - 1 <= UlaEnd
<1>1. PICK s \in Nat \ {0} : s = V4Size
  BY Layout
<1>2. PICK k \in Nat : k = Rows
  BY Layout
<1>3. n \in Nat /\ n <= k /\ n * s <= k * s /\ n * s \in Nat /\ k * s \in Nat
  BY <1>2, TimesGrows
<1>4. (k + 1) * s = k * s + s
  BY TimesNext
<1>5. UlaEnd = UlaBase + (k + 1) * s - 1
  BY <1>1, <1>2 DEF UlaEnd, Rows
<1>6. UlaEnd <= AddrMax /\ AddrMax \in Nat /\ UlaBase \in Nat
  BY LayoutAssumption, AddressesAreNumbers, Layout
<1>7. Row(n) = UlaBase + n * s
  BY <1>1 DEF Row
<1>8. PICK N \in Nat, K \in Nat : N = n * s /\ K = k * s
  BY <1>3
<1>9. Row(n) = UlaBase + N /\ UlaEnd = UlaBase + K + s - 1 /\ N <= K /\ low \in 0 .. s - 1
  BY <1>1, <1>3, <1>4, <1>5, <1>6, <1>7, <1>8
<1>10. /\ Row(n) \in Nat /\ Row(n) + low \in 0 .. AddrMax /\ Row(n) \in 0 .. AddrMax
       /\ UlaBase <= Row(n) /\ Row(n) + s - 1 <= UlaEnd
  BY <1>6, <1>9
<1> QED
  BY <1>1, <1>10, AddressesAreNumbers

\* A row written as a prefix is that row.
LEMMA BlockRange ==
    ASSUME NEW n \in 0 .. Rows
    PROVE  RangeOf(Block(Row(n))).start = Row(n) /\ RangeOf(Block(Row(n))).end = Row(n) + V4Size - 1
<1>1. PICK p : p = Block(Row(n))
  OBVIOUS
<1>2. p.addr = Row(n) /\ p.bits = Width - V4Bits /\ Row(n) \in Nat
  <2>1. 0 \in 0 .. V4Size - 1
    BY Layout
  <2> QED
    BY <1>1, <2>1, RowsInUla DEF Block
<1>3. PICK s \in Nat \ {0} : s = V4Size
  BY Layout
<1>4. 2 ^ (Width - p.bits) = s
  BY <1>2, <1>3, Layout
<1>5. PICK u \in Nat : UlaBase = u * s
  BY <1>3, BasesAligned
<1>6. n \in Nat
  BY Layout
<1>7. Row(n) = u * s + n * s /\ (u + n) * s = u * s + n * s /\ u + n \in Nat
  BY <1>3, <1>5, <1>6, TimesNext DEF Row
<1>8. PICK k \in Nat : k = u + n /\ Row(n) = k * s + 0
  BY <1>7, TimesGrows
<1>9. Row(n) % s = 0 % s /\ 0 % s = 0
  BY <1>8, RemainderIs
<1>10. p.addr - (p.addr % s) = Row(n)
  BY <1>2, <1>9
<1>11. RangeOf(p).start = Row(n) /\ RangeOf(p).end = Row(n) + s - 1
  BY <1>4, <1>10 DEF RangeOf
<1> QED
  BY <1>1, <1>3, <1>11

\* No row holds an address of another.
LEMMA RowsApart ==
    ASSUME NEW m \in 0 .. Rows, NEW n \in 0 .. Rows, NEW low \in 0 .. V4Size - 1
    PROVE  Covers(RangeOf(Block(Row(m))), Row(n) + low) <=> m = n
<1>1. PICK s \in Nat \ {0} : s = V4Size
  BY Layout
<1>2. m \in Nat /\ n \in Nat /\ UlaBase \in Nat /\ low \in Nat /\ low \in 0 .. s - 1 /\ low < s
  BY <1>1, Layout
<1>3. PICK M \in Nat, N \in Nat : M = m * s /\ N = n * s
  BY <1>2, TimesGrows
<1>4. Row(m) = UlaBase + M /\ Row(n) = UlaBase + N
  BY <1>1, <1>3 DEF Row
<1>5. Covers(RangeOf(Block(Row(m))), Row(n) + low)
        <=> UlaBase + M <= UlaBase + N + low /\ UlaBase + N + low <= UlaBase + M + s - 1
  BY <1>1, <1>4, BlockRange DEF Covers
<1>6. Covers(RangeOf(Block(Row(m))), Row(n) + low) <=> M <= N + low /\ N + low <= M + s - 1
  BY <1>2, <1>5
<1>7. ASSUME M <= N + low, N + low <= M + s - 1 PROVE m = n
  BY <1>2, <1>3, <1>7, BlocksApart
<1>8. ASSUME m = n PROVE M <= N + low /\ N + low <= M + s - 1
  BY <1>2, <1>3, <1>8
<1> QED
  BY <1>6, <1>7, <1>8

-----------------------------------------------------------------------------
(* The wire.                                                               *)

\* Once built, the index knows every site that lists a label (identity.rs 76-97).
LEMMA LabelSiteIs ==
    ASSUME SchemeInv, Built, NEW l \in Labels
    PROVE  /\ LabelClaimants(l) \in SUBSET (SiteIds \ {SITE_CONTESTED})
           /\ LabelSite(l) = OwnerAmong(LabelClaimants(l))
           /\ LabelSite(l) \in SiteIds \union {None}
           /\ LabelSite(l) = None <=> LabelClaimants(l) = {}
<1>1. SitesOK /\ Indexing /\ phase = "built"
  BY DEF SchemeInv, Built, TypeOK, SitesOK
<1>2. at.site \in Nat /\ at.site > 0 /\ at.site \notin DOMAIN sites
  BY <1>1 DEF Indexing
<1>3. ASSUME NEW n \in DOMAIN sites PROVE n < at.site
  <2>1. sites \in Seq(Site)
    BY <1>1, SitesAssumption DEF SitesOK
  <2> QED
    BY <1>2, <2>1
<1>4. Listed(l) = LabelClaimants(l)
  BY <1>3 DEF Listed, LabelClaimants, Passed
<1>5. LabelSite(l) = OwnerAmong(LabelClaimants(l))
  BY <1>1, <1>4 DEF Indexing, LabelSite
<1>6. LabelClaimants(l) \in SUBSET (SiteIds \ {SITE_CONTESTED})
  BY <1>1, SiteFields DEF LabelClaimants
<1> QED
  BY <1>5, <1>6, OwnerIs

LEMMA HeaderFields ==
    ASSUME NEW h \in Header
    PROVE  /\ h.v6 \in BOOLEAN /\ h.src \in Nat /\ h.vpce \in Labels \union {NoLabel}
           /\ h.v6 => h.src \in Addresses
           /\ ~h.v6 => h.src \in 0 .. V4Size - 1
           /\ Mapped(h) \in Addresses
           /\ Machine(h) \in 0 .. V4Size - 1 /\ 0 \in 0 .. V4Size - 1
<1>1. PICK s \in Nat \ {0} : s = V4Size
  BY Layout
<1>2. /\ h.v6 \in BOOLEAN /\ h.vpce \in Labels \union {NoLabel}
      /\ h.v6 => h.src \in Addresses
      /\ ~h.v6 => h.src \in 0 .. s - 1
  BY <1>1 DEF Header
<1>3. V4Base \in Nat /\ UlaBase \in Nat /\ V4Base + s <= UlaBase
  BY <1>1, Layout
<1>4. UlaBase <= AddrMax
  <2>1. 0 \in 0 .. Rows /\ 0 \in 0 .. V4Size - 1
    BY Layout
  <2>2. UlaBase <= Row(0) /\ Row(0) \in Addresses
    BY <2>1, RowsInUla
  <2> QED
    BY <1>3, <2>2, AddressesAreNumbers
<1>5. h.src \in Nat
  BY <1>2, AddressesAreNumbers
<1>6. CASE h.v6
  BY <1>1, <1>2, <1>5, <1>6 DEF Mapped, Machine
<1>7. CASE ~h.v6
  <2>1. h.src \in 0 .. s - 1 /\ Mapped(h) = V4Base + h.src /\ Machine(h) = h.src
    BY <1>2, <1>7 DEF Mapped, Machine
  <2>2. V4Base + h.src \in 0 .. AddrMax /\ 0 \in 0 .. s - 1
    BY <1>3, <1>4, <2>1, AddressesAreNumbers
  <2> QED
    BY <1>1, <1>2, <1>5, <1>7, <2>1, <2>2, AddressesAreNumbers
<1> QED
  BY <1>2, <1>6, <1>7

\* Whom a header is from: the claimants of its endpoint id, and only where there
\* is none those of its source (identity.rs 231-248).
Bidders(h) == IF h.vpce # NoLabel /\ LabelClaimants(h.vpce) # {}
              THEN LabelClaimants(h.vpce) ELSE Claimants(Mapped(h))

LEMMA SiteOfIs ==
    ASSUME SchemeInv, Built, NEW h \in Header
    PROVE  /\ Bidders(h) \in SUBSET (SiteIds \ {SITE_CONTESTED})
           /\ SiteOf(h).id = OwnerAmong(Bidders(h))
           /\ SiteOf(h).id \in SiteIds \union {None}
<1>1. h.vpce \in Labels \union {NoLabel} /\ Mapped(h) \in Addresses
  BY HeaderFields
<1>2. AddrSite(Mapped(h)) = OwnerAmong(Claimants(Mapped(h)))
  BY <1>1, AddrSiteIsOwner DEF SweepFindsOwner, Owner
<1>3. Claimants(Mapped(h)) \in SUBSET (SiteIds \ {SITE_CONTESTED})
  BY BuiltSegments, ClaimantsAreSites
<1>4. CASE h.vpce # NoLabel /\ LabelClaimants(h.vpce) # {}
  <2>1. h.vpce \in Labels
    BY <1>1, <1>4
  <2>2. SiteOf(h).id = LabelSite(h.vpce)
    BY <1>4, <2>1, LabelSiteIs DEF SiteOf
  <2> QED
    BY <1>4, <2>1, <2>2, LabelSiteIs DEF Bidders
<1>5. CASE ~(h.vpce # NoLabel /\ LabelClaimants(h.vpce) # {})
  <2>1. SiteOf(h).id = AddrSite(Mapped(h))
    BY <1>1, <1>5, LabelSiteIs DEF SiteOf
  <2>2. Bidders(h) = Claimants(Mapped(h))
    BY <1>5 DEF Bidders
  <2> QED
    BY <1>2, <1>3, <2>1, <2>2, OwnerIs
<1> QED
  BY <1>4, <1>5

\* The four shapes of a synthesized address (identity.rs 211-270).
LEMMA WireIs ==
    ASSUME SchemeInv, Built, NEW h \in Header, NEW id, id = SiteOf(h).id
    PROVE  /\ id # None => id \in SiteIds /\ \E low \in 0 .. V4Size - 1 : Synthesize(h) = Row(id) + low
           /\ id = None /\ h.vpce # NoLabel =>
                 \E n \in SiteCount .. Rows - 1, low \in 0 .. V4Size - 1 : Synthesize(h) = Row(n) + low
           /\ id = None /\ h.vpce = NoLabel /\ h.v6 => Synthesize(h) = h.src
           /\ id = None /\ h.vpce = NoLabel /\ ~h.v6 => Synthesize(h) = Row(Rows) + h.src
<1>1. /\ h.vpce \in Labels \union {NoLabel} /\ Machine(h) \in 0 .. V4Size - 1
      /\ 0 \in 0 .. V4Size - 1 /\ h.v6 \in BOOLEAN
  BY HeaderFields
<1>2. id \in SiteIds \union {None}
  BY SiteOfIs
<1>3. CASE id # None
  <2>1. Synthesize(h) = SiteKind(id, IF SiteOf(h).inner THEN Machine(h) ELSE 0)
    BY <1>3 DEF Synthesize
  <2>2. \A low : SiteKind(id, low) = Row(id) + low
    BY DEF SiteKind, Row
  <2> QED
    BY <1>1, <1>2, <1>3, <2>1, <2>2
<1>4. CASE id = None /\ h.vpce # NoLabel
  <2>1. Synthesize(h) = VpceKind(Hash(h.vpce), Machine(h))
    BY <1>4 DEF Synthesize
  <2>2. PICK x : x = Hash(h.vpce)
    OBVIOUS
  <2>3. x \in 0 .. HashCount - 1
    BY <1>1, <1>4, <2>2, HashAssumption
  <2>4. SiteCount + x \in SiteCount .. Rows - 1
    BY <2>3, Layout DEF Rows
  <2>5. VpceKind(x, Machine(h)) = Row(SiteCount + x) + Machine(h)
    BY DEF VpceKind, Row
  <2> QED
    BY <1>1, <1>4, <2>1, <2>2, <2>4, <2>5
<1>5. CASE id = None /\ h.vpce = NoLabel
  <2>1. h.v6 => Synthesize(h) = h.src
    BY <1>5 DEF Synthesize
  <2>2. ~h.v6 => Synthesize(h) = AddrKind(h.src)
    BY <1>5 DEF Synthesize
  <2>3. AddrKind(h.src) = Row(Rows) + h.src
    BY DEF AddrKind, Row, Rows
  <2> QED
    BY <1>5, <2>1, <2>2, <2>3
<1> QED
  BY <1>3, <1>4, <1>5

-----------------------------------------------------------------------------
(* The config.                                                             *)

\* A member that is read as a prefix.
Prefixed(m) == \/ m.reads = "v4" /\ WidthFits(m, V4Bits)
               \/ m.reads = "v6" /\ WidthFits(m, Width)

LEMMA SourceIs ==
    ASSUME NEW m \in Member, Prefixed(m)
    PROVE  /\ m.addr \in Nat /\ m.bits \in Nat
           /\ Source(m).addr \in Addresses /\ Source(m).bits \in 0 .. Width
           /\ m.reads = "v4" => /\ m.addr \in 0 .. V4Size - 1 /\ m.bits \in 0 .. V4Bits
                                /\ Source(m) = [addr |-> V4Base + m.addr,
                                                bits |-> Width - V4Bits + m.bits]
           /\ m.reads = "v6" => Source(m) = [addr |-> m.addr, bits |-> m.bits]
<1>1. PICK s \in Nat \ {0} : s = V4Size
  BY Layout
<1>2. V4Bits \in Nat /\ Width \in Nat /\ V4Bits <= Width
  BY LayoutAssumption, WidthAssumption
<1>3. CASE m.reads = "v4" /\ WidthFits(m, V4Bits)
  <2>1. m.addr \in 0 .. s - 1 /\ m.bits \in 0 .. V4Bits
    BY <1>1, <1>2, <1>3 DEF Member, WidthFits
  <2>2. Source(m) = [addr |-> V4Base + m.addr, bits |-> Width - V4Bits + m.bits]
    BY <1>3 DEF Source
  <2>3. PICK h : h = [v6 |-> FALSE, src |-> m.addr, vpce |-> NoLabel]
    OBVIOUS
  <2>4. h \in Header /\ Mapped(h) = V4Base + m.addr
    BY <1>1, <2>1, <2>3 DEF Header, Mapped
  <2>5. V4Base + m.addr \in Addresses
    BY <2>4, HeaderFields
  <2>6. Width - V4Bits + m.bits \in 0 .. Width /\ m.addr \in Nat /\ m.bits \in Nat
    BY <1>2, <2>1
  <2> QED
    BY <1>1, <1>3, <2>1, <2>2, <2>5, <2>6
<1>4. CASE m.reads = "v6" /\ WidthFits(m, Width)
  <2>1. m.addr \in Addresses /\ m.bits \in 0 .. Width
    BY <1>2, <1>4 DEF Member, WidthFits
  <2>2. Source(m) = [addr |-> m.addr, bits |-> m.bits]
    BY <1>4 DEF Source
  <2> QED
    BY <1>4, <2>1, <2>2, AddressesAreNumbers
<1> QED
  BY <1>3, <1>4 DEF Prefixed

\* Whose a prefix is (identity.rs 180-186).
LEMMA SourceSiteIs ==
    ASSUME SchemeInv, Built, NEW m \in Member, Prefixed(m), NEW r, r = RangeOf(Source(m))
    PROVE  /\ r.start \in Addresses /\ r.end \in Addresses /\ r.start <= r.end
           /\ SourceSite(m) \in SiteIds \union {None}
           /\ \A id \in SiteIds :
                 SourceSite(m) = id <=> \A x \in r.start .. r.end : Owner(x) = id
<1>1. r.start \in Addresses /\ r.end \in Addresses /\ r.start <= r.end
  BY SourceIs, PrefixInSpace
<1>2. SourceSite(m) = RangeSite(r.start, r.end)
  BY DEF SourceSite
<1>3. RangeSite(r.start, r.end) \in SiteIds \union {None}
  <2>1. merged \in Seq(Segment)
    BY BuiltSegments DEF Segs
  <2> QED
    BY <1>1, <2>1, RangeSiteIs, SegmentFields
<1> QED
  BY <1>1, <1>2, <1>3, RangeSiteIsOwner DEF RangeOwnedWhole

Declared(id) == \E n \in DOMAIN sites : sites[n].id = id

\* What a member becomes: its site's row, a prefix of the address kind, itself,
\* or the row of a label (identity.rs 352-440).
LEMMA SitesAreRows ==
    ASSUME NEW id \in SiteIds
    PROVE  SiteSpace(id) = Block(Row(id)) /\ id \in 0 .. Rows
<1>1. SiteCount \in Nat /\ HashCount \in Nat
  BY Layout
<1>2. id \in Nat /\ id <= SiteCount + HashCount
  BY <1>1 DEF SiteIds
<1>3. SiteKind(id, 0) = Row(id)
  <2>1. id * V4Size \in Nat /\ UlaBase \in Nat
    BY <1>2, Layout, TimesGrows
  <2> QED
    BY <2>1 DEF SiteKind, Row
<1> QED
  BY <1>1, <1>2, <1>3 DEF SiteSpace, Rows

LEMMA MemberIs ==
    ASSUME SchemeInv, Built, NEW m \in Member, NEW o, o = SourceSite(m)
    PROVE  /\ Prefixed(m) /\ o # None => o \in SiteIds /\ EncodeMember(m) = Block(Row(o))
           /\ Prefixed(m) /\ o = None /\ m.reads = "v4" =>
                 EncodeMember(m) = [addr |-> Row(Rows) + m.addr, bits |-> Source(m).bits]
           /\ Prefixed(m) /\ o = None /\ m.reads = "v6" => EncodeMember(m) = Source(m)
           /\ m.reads = "site" /\ (m.id = SITE_CONTESTED \/ Declared(m.id)) =>
                 m.id \in SiteIds /\ EncodeMember(m) = Block(Row(m.id))
           /\ ~Prefixed(m) => \E n \in 0 .. Rows : EncodeMember(m) = Block(Row(n))
<1>1. ASSUME Prefixed(m) PROVE o \in SiteIds \union {None}
  BY <1>1, SourceSiteIs
<1>2. ASSUME Prefixed(m), o # None PROVE o \in SiteIds /\ EncodeMember(m) = Block(Row(o))
  <2>1. o \in SiteIds
    BY <1>1, <1>2
  <2>2. EncodeMember(m) = SiteSpace(o)
    BY <1>2 DEF Prefixed, EncodeMember, EncodeV4, EncodeV6
  <2> QED
    BY <2>1, <2>2, SitesAreRows
<1>3. ASSUME Prefixed(m), o = None, m.reads = "v4"
      PROVE  EncodeMember(m) = [addr |-> Row(Rows) + m.addr, bits |-> Source(m).bits]
  <2>1. EncodeMember(m) = [addr |-> AddrKind(m.addr), bits |-> Source(m).bits]
    BY <1>3 DEF Prefixed, EncodeMember, EncodeV4
  <2> QED
    BY <2>1 DEF AddrKind, Row, Rows
<1>4. ASSUME Prefixed(m), o = None, m.reads = "v6" PROVE EncodeMember(m) = Source(m)
  BY <1>4 DEF Prefixed, EncodeMember, EncodeV6
<1>5. ASSUME m.reads = "site", m.id = SITE_CONTESTED \/ Declared(m.id)
      PROVE  m.id \in SiteIds /\ EncodeMember(m) = Block(Row(m.id))
  <2>1. m.id \in SiteIds
    BY <1>5 DEF Member
  <2>2. EncodeMember(m) = SiteSpace(m.id)
    BY <1>5 DEF EncodeMember, Declared
  <2> QED
    BY <2>1, <2>2, SitesAreRows
<1>6. ASSUME ~Prefixed(m) PROVE \E n \in 0 .. Rows : EncodeMember(m) = Block(Row(n))
  <2>1. CASE m.reads = "site" /\ (m.id = SITE_CONTESTED \/ Declared(m.id))
    BY <1>5, <2>1, SitesAreRows
  <2>2. CASE ~(m.reads = "site" /\ (m.id = SITE_CONTESTED \/ Declared(m.id)))
    <3>1. EncodeMember(m) = EncodeLabel(m.text)
      BY <1>6, <2>2 DEF Prefixed, EncodeMember, Declared
    <3>2. PICK l : l = m.text
      OBVIOUS
    <3>3. l \in Labels
      BY <3>2 DEF Member
    <3>4. LabelSite(l) \in SiteIds \union {None}
      BY <3>3, LabelSiteIs
    <3>5. CASE LabelSite(l) # None
      BY <3>1, <3>2, <3>4, <3>5, SitesAreRows DEF EncodeLabel
    <3>6. CASE LabelSite(l) = None
      <4>1. EncodeLabel(l) = Block(VpceKind(Hash(l), 0))
        BY <3>6 DEF EncodeLabel
      <4>2. PICK x : x = Hash(l)
        OBVIOUS
      <4>3. x \in 0 .. HashCount - 1
        BY <3>3, <4>2, HashAssumption
      <4>4. SiteCount + x \in 0 .. Rows
        BY <4>3, Layout DEF Rows
      <4>5. (SiteCount + x) * V4Size \in Nat /\ UlaBase \in Nat
        <5>1. SiteCount + x \in Nat /\ V4Size \in Nat
          BY <4>3, Layout
        <5> QED
          BY <5>1, Layout, TimesGrows
      <4>6. VpceKind(x, 0) = Row(SiteCount + x)
        BY <4>5 DEF VpceKind, Row
      <4> QED
        BY <3>1, <3>2, <4>1, <4>2, <4>4, <4>6
    <3> QED
      BY <3>5, <3>6
  <2> QED
    BY <2>1, <2>2
<1> QED
  BY <1>2, <1>3, <1>4, <1>5, <1>6

-----------------------------------------------------------------------------
(* What rules and headers have to do with each other.                      *)

LEMMA MembersEncode == SchemeInv => EncodingIsTotal
<1> SUFFICES ASSUME SchemeInv, Built, NEW m \in Member
             PROVE  EncodeMember(m) \in Prefix /\ ~BadWidth(EncodeMember(m))
  BY DEF EncodingIsTotal
<1>1. PICK p : p = EncodeMember(m)
  OBVIOUS
<1>2. Width \in Nat /\ Width - V4Bits \in 0 .. Width /\ 0 \in 0 .. V4Size - 1 /\ Rows \in 0 .. Rows
  BY WidthAssumption, Layout
<1>3. ASSUME NEW n \in 0 .. Rows
      PROVE  Block(Row(n)) \in Prefix /\ ~BadWidth(Block(Row(n)))
  <2>1. Row(n) \in Addresses
    BY <1>2, RowsInUla
  <2>2. Width - V4Bits \in Nat /\ ~(Width - V4Bits > Width)
    BY <1>2
  <2> QED
    BY <2>1, <2>2 DEF Block, Prefix, BadWidth
<1>4. CASE ~Prefixed(m)
  BY <1>3, <1>4, MemberIs
<1>5. CASE Prefixed(m) /\ SourceSite(m) # None
  BY <1>3, <1>5, MemberIs, SitesAreRows
<1>6. CASE Prefixed(m) /\ SourceSite(m) = None
  <2>1. m.reads = "v4" \/ m.reads = "v6"
    BY <1>6 DEF Prefixed
  <2>2. Source(m).addr \in Addresses /\ Source(m).bits \in 0 .. Width
    BY <1>6, SourceIs
  <2>3. Source(m).bits \in Nat /\ ~(Source(m).bits > Width)
    BY <1>2, <2>2
  <2>4. CASE m.reads = "v4"
    <3>1. p = [addr |-> Row(Rows) + m.addr, bits |-> Source(m).bits]
      BY <1>1, <1>6, <2>4, MemberIs
    <3>2. Row(Rows) + m.addr \in Addresses
      BY <1>2, <1>6, <2>4, SourceIs, RowsInUla
    <3> QED
      BY <1>1, <2>3, <3>1, <3>2 DEF Prefix, BadWidth
  <2>5. CASE m.reads = "v6"
    <3>1. p = Source(m) /\ Source(m) = [addr |-> m.addr, bits |-> m.bits]
      BY <1>1, <1>6, <2>5, MemberIs, SourceIs
    <3> QED
      BY <1>1, <2>2, <2>3, <3>1 DEF Prefix, BadWidth
  <2> QED
    BY <2>1, <2>4, <2>5
<1> QED
  BY <1>4, <1>5, <1>6

LEMMA BiddersAreDeclared ==
    ASSUME SchemeInv, Built, NEW h \in Header, NEW id \in Bidders(h)
    PROVE  Declared(id)
<1>1. CASE id \in LabelClaimants(h.vpce)
  BY <1>1 DEF LabelClaimants, Declared
<1>2. CASE id \in Claimants(Mapped(h))
  <2>1. PICK k \in Claims(sites) : id = ClaimOf(sites, k).id
    BY <1>2 DEF Claimants
  <2>2. PICK n \in DOMAIN sites : \E j \in DOMAIN sites[n].ranges : k = <<n, j>>
    BY <2>1 DEF Claims
  <2>3. k[1] = n
    BY <2>2
  <2> QED
    BY <2>1, <2>3 DEF ClaimOf, Declared
<1> QED
  BY <1>1, <1>2 DEF Bidders

LEMMA ContestsGoToQuarantine == SchemeInv => ContestsQuarantined
<1> SUFFICES ASSUME SchemeInv, Built, NEW h \in Header, NEW ids, ids = Bidders(h),
                    Cardinality(ids) > 1
             PROVE  /\ \A p \in EncodeAllSites : ~Admits(p, h)
                    /\ \A m \in Member : m.reads = "site" =>
                          /\ m.id = SITE_CONTESTED => Admits(EncodeMember(m), h)
                          /\ m.id \in ids => ~Admits(EncodeMember(m), h)
  BY DEF ContestsQuarantined, Bidders
<1>1. ids \in SUBSET (SiteIds \ {SITE_CONTESTED}) /\ SiteOf(h).id = OwnerAmong(ids)
  BY SiteOfIs
<1>2. SITE_CONTESTED \in SiteIds /\ SITE_CONTESTED # None
  BY Layout, NoneAssumption DEF SiteIds, SITE_CONTESTED
<1>3. SiteOf(h).id = SITE_CONTESTED
  <2>1. ids # {}
    BY FS_EmptySet
  <2>2. ASSUME NEW x, ids = {x} PROVE FALSE
    <3>1. Cardinality(ids) = 1
      BY <2>2, FS_Singleton
    <3> QED
      BY <3>1
  <2>3. PICK x : x \in ids
    BY <2>1
  <2>4. PICK y : y \in ids /\ y # x
    BY <2>2, <2>3
  <2>5. \E u, w \in ids : u # w
    BY <2>3, <2>4
  <2> QED
    BY <1>1, <2>5, OwnerIs
<1>4. PICK low \in 0 .. V4Size - 1 : Synthesize(h) = Row(SITE_CONTESTED) + low
  BY <1>2, <1>3, WireIs
<1>5. ASSUME NEW id \in SiteIds PROVE Admits(Block(Row(id)), h) <=> id = SITE_CONTESTED
  BY <1>2, <1>4, SitesAreRows, RowsApart DEF Admits
<1>6. ASSUME NEW p \in EncodeAllSites PROVE ~Admits(p, h)
  <2>1. PICK n \in DOMAIN sites : p = SiteSpace(sites[n].id)
    BY DEF EncodeAllSites
  <2>2. sites[n].id \in SiteIds \ {SITE_CONTESTED}
    BY BuiltSegments, SiteFields
  <2> QED
    BY <1>5, <2>1, <2>2, SitesAreRows
<1>7. ASSUME NEW m \in Member, m.reads = "site", m.id = SITE_CONTESTED
      PROVE  Admits(EncodeMember(m), h)
  BY <1>2, <1>5, <1>7, MemberIs
<1>8. ASSUME NEW m \in Member, m.reads = "site", m.id \in ids
      PROVE  ~Admits(EncodeMember(m), h)
  <2>1. Declared(m.id) /\ m.id \in SiteIds /\ m.id # SITE_CONTESTED
    BY <1>1, <1>8, BiddersAreDeclared
  <2>2. EncodeMember(m) = Block(Row(m.id))
    BY <1>8, <2>1, MemberIs
  <2> QED
    BY <1>5, <2>1, <2>2
<1> QED
  BY <1>6, <1>7, <1>8

\* The addresses that share the first bits of a, among V4Size of them.
Near(a, bits, b) ==
    LET s == 2 ^ (V4Bits - bits) IN a - (a % s) <= b /\ b <= a - (a % s) + s - 1

\* An IPv4 prefix is the same set of machines wherever its V4Size addresses are
\* put, and stays among them (identity.rs 396-405 against 265-268).
LEMMA ShiftedPrefix ==
    ASSUME NEW q \in Nat, NEW c, c = q * V4Size, NEW bits \in 0 .. V4Bits,
           NEW a \in 0 .. V4Size - 1, NEW p,
           p = [addr |-> c + a, bits |-> Width - V4Bits + bits]
    PROVE  /\ \A b \in Nat : Covers(RangeOf(p), c + b) <=> Near(a, bits, b)
           /\ c <= RangeOf(p).start /\ RangeOf(p).end <= c + V4Size - 1
           /\ RangeOf(p).start \in Nat /\ RangeOf(p).end \in Nat
<1>1. PICK v \in Nat \ {0} : v = V4Size
  BY Layout
<1>2. V4Bits \in Nat /\ Width \in Nat /\ V4Bits <= Width
  BY LayoutAssumption, WidthAssumption
<1>3. PICK e \in 0 .. Width : e = V4Bits - bits
  BY <1>2
<1>4. e <= V4Bits /\ V4Bits \in 0 .. Width /\ Width - p.bits = e
  BY <1>2, <1>3
<1>5. PICK s \in Nat \ {0} : s = 2 ^ e
  BY PowerAssumption
<1>6. PICK k \in Nat \ {0} : v = k * s
  BY <1>1, <1>4, <1>5, PowersDivide DEF V4Size
<1> a \in Nat
  BY <1>1
<1>7. PICK r \in 0 .. s - 1, d \in Nat : r = a % s /\ a = d * s + r
  BY Division
<1>8. c = (q * k) * s /\ q * k \in Nat /\ c \in Nat
  <2>1. c = q * v /\ q * v \in Nat /\ q * k \in Nat
    BY <1>1, TimesGrows
  <2>2. q * (k * s) = (q * k) * s
    OBVIOUS
  <2> QED
    BY <1>6, <2>1, <2>2
<1>9. (c + a) % s = r
  <2>1. PICK f \in Nat : f = q * k
    BY <1>8
  <2>2. c = f * s
    BY <1>8, <2>1
  <2>3. (f * s + a) % s = a % s
    BY RemainderIs
  <2> QED
    BY <1>7, <2>2, <2>3
<1>10. PICK D \in Nat, K \in Nat : D = d * s /\ K = k * s
  BY TimesGrows
<1>11. D + s <= K
  <2>1. CASE d < k
    <3>1. (d + 1) * s <= k * s /\ (d + 1) * s = d * s + s
      BY <2>1, TimesGrows, TimesNext
    <3> QED
      BY <1>10, <3>1
  <2>2. CASE k <= d
    <3>1. K <= D
      BY <1>10, <2>2, TimesGrows
    <3>2. a < K /\ a = D + r
      BY <1>1, <1>6, <1>7, <1>10
    <3> QED
      BY <3>1, <3>2
  <2> QED
    BY <2>1, <2>2
<1>12. a = D + r /\ a \in Nat /\ a - (a % s) = D
  BY <1>1, <1>7, <1>10
<1>13. p.addr = c + a /\ p.addr - (p.addr % s) = c + D
  BY <1>8, <1>9, <1>12
<1>14. RangeOf(p).start = c + D /\ RangeOf(p).end = c + D + s - 1
  BY <1>4, <1>5, <1>13 DEF RangeOf
<1>15. ASSUME NEW b \in Nat PROVE Covers(RangeOf(p), c + b) <=> Near(a, bits, b)
  <2>1. Near(a, bits, b) <=> D <= b /\ b <= D + s - 1
    BY <1>3, <1>5, <1>12 DEF Near
  <2>2. Covers(RangeOf(p), c + b) <=> c + D <= c + b /\ c + b <= c + D + s - 1
    BY <1>14 DEF Covers
  <2> QED
    BY <1>8, <2>1, <2>2
<1>16. c <= c + D /\ c + D + s - 1 <= c + v - 1 /\ c + D \in Nat /\ c + D + s - 1 \in Nat
  BY <1>6, <1>8, <1>10, <1>11
<1> QED
  BY <1>1, <1>14, <1>15, <1>16

\* The address kind and the IPv4 block hold the same prefixes.
LEMMA V4Meets ==
    ASSUME NEW m \in Member, m.reads = "v4", Prefixed(m), NEW p,
           p = [addr |-> Row(Rows) + m.addr, bits |-> Source(m).bits]
    PROVE  /\ \A b \in Nat : Covers(RangeOf(p), Row(Rows) + b)
                                <=> Covers(RangeOf(Source(m)), V4Base + b)
           /\ Row(Rows) <= RangeOf(p).start /\ RangeOf(p).end <= Row(Rows) + V4Size - 1
           /\ RangeOf(p).start \in Nat /\ RangeOf(p).end \in Nat
<1>1. /\ m.addr \in 0 .. V4Size - 1 /\ m.bits \in 0 .. V4Bits
      /\ Source(m) = [addr |-> V4Base + m.addr, bits |-> Width - V4Bits + m.bits]
  BY SourceIs
<1>2. PICK q1 \in Nat : V4Base = q1 * V4Size
  BY BasesAligned
<1>3. PICK u \in Nat : UlaBase = u * V4Size
  BY BasesAligned
<1>4. PICK n \in Nat : n = Rows
  BY Layout
<1>5. Row(Rows) = (u + n) * V4Size /\ u + n \in Nat
  <2>1. V4Size \in Nat
    BY Layout
  <2>2. (u + n) * V4Size = u * V4Size + n * V4Size
    BY <2>1, TimesNext
  <2> QED
    BY <1>3, <1>4, <2>2 DEF Row
<1>6. \A b \in Nat : Covers(RangeOf(Source(m)), V4Base + b) <=> Near(m.addr, m.bits, b)
  BY <1>1, <1>2, ShiftedPrefix
<1>7. p = [addr |-> Row(Rows) + m.addr, bits |-> Width - V4Bits + m.bits]
  BY <1>1
<1>8. /\ \A b \in Nat : Covers(RangeOf(p), Row(Rows) + b) <=> Near(m.addr, m.bits, b)
      /\ Row(Rows) <= RangeOf(p).start /\ RangeOf(p).end <= Row(Rows) + V4Size - 1
      /\ RangeOf(p).start \in Nat /\ RangeOf(p).end \in Nat
  BY <1>1, <1>5, <1>7, ShiftedPrefix
<1> QED
  BY <1>6, <1>8

LEMMA RulesMeetSources == SchemeInv => RulesAdmitTheirSources
<1> SUFFICES ASSUME SchemeInv, Built, NEW h \in Header
    PROVE
        /\ h.vpce = NoLabel => \A m \in Member :
              LET r == RangeOf(Source(m))
                  even == \E o \in SiteIds \union {None} :
                             \A x \in r.start .. r.end : Owner(x) = o
              IN /\ \/ m.reads = "v4" /\ ~h.v6 /\ WidthFits(m, V4Bits)
                    \/ m.reads = "v6" /\ h.v6 /\ WidthFits(m, Width)
                 /\ Covers(r, Mapped(h))
                 /\ even
                 => Admits(EncodeMember(m), h)
        /\ h.vpce # NoLabel /\ LabelClaimants(h.vpce) # {} =>
              Admits(EncodeMember([reads |-> "label", text |-> h.vpce]), h)
  BY DEF RulesAdmitTheirSources
<1>1. ASSUME h.vpce = NoLabel, NEW m \in Member, NEW r, r = RangeOf(Source(m)),
             \/ m.reads = "v4" /\ ~h.v6 /\ WidthFits(m, V4Bits)
             \/ m.reads = "v6" /\ h.v6 /\ WidthFits(m, Width),
             Covers(r, Mapped(h)),
             NEW o \in SiteIds \union {None}, \A x \in r.start .. r.end : Owner(x) = o
      PROVE  Admits(EncodeMember(m), h)
  <2>1. Prefixed(m)
    BY <1>1 DEF Prefixed
  <2>2. r.start \in Nat /\ r.end \in Nat /\ Mapped(h) \in Nat /\ r.start <= r.end
    BY <1>1, <2>1, SourceSiteIs, HeaderFields, AddressesAreNumbers
  <2>3. Mapped(h) \in r.start .. r.end
    BY <1>1, <2>2 DEF Covers
  <2>4. SiteOf(h).id = o
    <3>1. Bidders(h) = Claimants(Mapped(h))
      BY <1>1 DEF Bidders
    <3> QED
      BY <1>1, <2>3, <3>1, SiteOfIs DEF Owner
  <2>5. SourceSite(m) = o
    <3>1. CASE o \in SiteIds
      BY <1>1, <2>1, <3>1, SourceSiteIs
    <3>2. CASE o = None
      <4>1. ASSUME NEW id \in SiteIds, SourceSite(m) = id PROVE FALSE
        <5>1. Owner(Mapped(h)) = id
          BY <1>1, <2>1, <2>3, <4>1, SourceSiteIs
        <5> QED
          BY <1>1, <2>3, <3>2, <5>1, NoneAssumption
      <4> QED
        BY <1>1, <2>1, <3>2, <4>1, SourceSiteIs
    <3> QED
      BY <1>1, <3>1, <3>2
  <2>6. CASE o # None
    <3>1. EncodeMember(m) = Block(Row(o)) /\ o \in SiteIds
      BY <2>1, <2>5, <2>6, MemberIs
    <3>2. PICK low \in 0 .. V4Size - 1 : Synthesize(h) = Row(o) + low
      BY <2>4, <2>6, WireIs
    <3> QED
      BY <3>1, <3>2, SitesAreRows, RowsApart DEF Admits
  <2>7. CASE o = None /\ h.v6
    <3>1. m.reads = "v6" /\ Synthesize(h) = h.src /\ Mapped(h) = h.src
      BY <1>1, <2>4, <2>7, WireIs DEF Mapped
    <3>2. EncodeMember(m) = Source(m)
      BY <2>1, <2>5, <2>7, <3>1, MemberIs
    <3> QED
      BY <1>1, <3>1, <3>2 DEF Admits
  <2>8. CASE o = None /\ ~h.v6
    <3>1. m.reads = "v4" /\ Synthesize(h) = Row(Rows) + h.src /\ Mapped(h) = V4Base + h.src
      BY <1>1, <2>4, <2>8, WireIs DEF Mapped
    <3>2. PICK p : p = EncodeMember(m)
      OBVIOUS
    <3>3. p = [addr |-> Row(Rows) + m.addr, bits |-> Source(m).bits]
      BY <2>1, <2>5, <2>8, <3>1, <3>2, MemberIs
    <3>4. h.src \in Nat
      BY HeaderFields
    <3>5. Covers(RangeOf(p), Row(Rows) + h.src)
      BY <1>1, <2>1, <3>1, <3>3, <3>4, V4Meets
    <3> QED
      BY <3>1, <3>2, <3>5 DEF Admits
  <2> QED
    BY <2>6, <2>7, <2>8
<1>2. ASSUME h.vpce # NoLabel, LabelClaimants(h.vpce) # {}
      PROVE  Admits(EncodeMember([reads |-> "label", text |-> h.vpce]), h)
  <2>1. h.vpce \in Labels
    BY <1>2, HeaderFields
  <2>2. PICK o : o = LabelSite(h.vpce)
    OBVIOUS
  <2>3. o \in SiteIds /\ o # None
    BY <1>2, <2>1, <2>2, LabelSiteIs
  <2>4. SiteOf(h).id = o
    BY <1>2, <2>2, <2>3 DEF SiteOf
  <2>5. EncodeMember([reads |-> "label", text |-> h.vpce]) = Block(Row(o))
    <3>1. EncodeMember([reads |-> "label", text |-> h.vpce]) = EncodeLabel(h.vpce)
      BY DEF EncodeMember
    <3> QED
      BY <2>2, <2>3, <3>1, SitesAreRows DEF EncodeLabel
  <2>6. PICK low \in 0 .. V4Size - 1 : Synthesize(h) = Row(o) + low
    BY <2>3, <2>4, WireIs
  <2> QED
    BY <2>3, <2>5, <2>6, SitesAreRows, RowsApart DEF Admits
<1> QED
  BY <1>1, <1>2

\* A synthesized address is a row's or the header's own.
LEMMA WireRows ==
    ASSUME SchemeInv, Built, NEW h \in Header
    PROVE  \/ \E n \in 0 .. Rows, low \in 0 .. V4Size - 1 :
                 /\ Synthesize(h) = Row(n) + low
                 /\ n < SiteCount => SiteOf(h).id = n
                 /\ n = Rows => h.vpce = NoLabel /\ ~h.v6 /\ low = h.src
           \/ h.vpce = NoLabel /\ h.v6 /\ Synthesize(h) = h.src
<1>1. PICK id : id = SiteOf(h).id
  OBVIOUS
<1>2. SiteCount \in Nat /\ HashCount \in Nat /\ Rows = SiteCount + HashCount /\ HashCount > 0
  BY Layout, LayoutAssumption DEF Rows
<1>3. CASE id # None
  <2>1. id \in SiteIds
    BY <1>1, <1>3, WireIs
  <2>2. PICK low \in 0 .. V4Size - 1 : Synthesize(h) = Row(id) + low
    BY <1>1, <1>3, WireIs
  <2>3. id \in 0 .. Rows /\ id # Rows
    BY <1>2, <2>1 DEF SiteIds
  <2> QED
    BY <1>1, <2>2, <2>3
<1>4. CASE id = None /\ h.vpce # NoLabel
  <2>1. PICK n \in SiteCount .. Rows - 1, low \in 0 .. V4Size - 1 : Synthesize(h) = Row(n) + low
    BY <1>1, <1>4, WireIs
  <2>2. n \in 0 .. Rows /\ n # Rows /\ ~(n < SiteCount)
    BY <1>2
  <2> QED
    BY <2>1, <2>2
<1>5. CASE id = None /\ h.vpce = NoLabel /\ h.v6
  BY <1>1, <1>5, WireIs
<1>6. CASE id = None /\ h.vpce = NoLabel /\ ~h.v6
  <2>1. Synthesize(h) = Row(Rows) + h.src
    BY <1>1, <1>6, WireIs
  <2>2. h.src \in 0 .. V4Size - 1
    BY <1>6, HeaderFields
  <2>3. Rows \in 0 .. Rows /\ ~(Rows < SiteCount)
    BY <1>2
  <2> QED
    BY <1>6, <2>1, <2>2, <2>3
<1> QED
  BY <1>3, <1>4, <1>5, <1>6

LEMMA RulesMeetNobodyElse == SchemeInv => RulesAdmitNobodyElse
<1> SUFFICES ASSUME SchemeInv, Built, NEW h \in Header, NEW m \in Member, NEW r,
                    r = RangeOf(Source(m)),
                    h.v6 => h.src \notin UlaBase .. UlaEnd,
                    \/ m.reads = "v4" /\ WidthFits(m, V4Bits)
                    \/ m.reads = "v6" /\ WidthFits(m, Width) /\ r.end < UlaBase,
                    Admits(EncodeMember(m), h)
             PROVE  \/ h.v6 = (m.reads = "v6") /\ h.vpce = NoLabel /\ Covers(r, Mapped(h))
                    \/ SourceSite(m) # None /\ SiteOf(h).id = SourceSite(m)
  BY DEF RulesAdmitNobodyElse
<1>1. Prefixed(m) /\ h.v6 \in BOOLEAN /\ h.src \in Nat
  BY HeaderFields DEF Prefixed
<1>2. PICK w : w = Synthesize(h)
  OBVIOUS
<1>3. PICK o : o = SourceSite(m)
  OBVIOUS
<1>4. PICK p : p = EncodeMember(m)
  OBVIOUS
<1>5. Covers(RangeOf(p), w)
  BY <1>2, <1>4 DEF Admits
<1>6. 0 \in 0 .. V4Size - 1 /\ Rows \in 0 .. Rows /\ V4Size \in Nat \ {0} /\ UlaBase \in Nat
  BY Layout
<1>7. UlaEnd \in Int
  <2>1. (SiteCount + HashCount + 1) * V4Size \in Int
    BY Layout
  <2> QED
    BY <1>6, <2>1 DEF UlaEnd
<1>8. \* No source of its own is in a row.
      ASSUME NEW n \in 0 .. Rows, Covers(RangeOf(Block(Row(n))), w), h.v6 PROVE w # h.src
  <2>1. RangeOf(Block(Row(n))).start = Row(n) /\ RangeOf(Block(Row(n))).end = Row(n) + V4Size - 1
    BY BlockRange
  <2>2. Row(n) \in Nat /\ UlaBase <= Row(n) /\ Row(n) + V4Size - 1 <= UlaEnd
    BY <1>6, RowsInUla
  <2>3. ASSUME w = h.src PROVE FALSE
    <3>1. h.src \in UlaBase .. UlaEnd
      BY <1>1, <1>6, <1>7, <1>8, <2>1, <2>2, <2>3 DEF Covers
    <3> QED
      BY <1>8, <3>1
  <2> QED
    BY <2>3
<1>9. \* A row that covers it is its row.
      ASSUME NEW n \in 0 .. Rows, Covers(RangeOf(Block(Row(n))), w)
      PROVE  \E low \in 0 .. V4Size - 1 :
                /\ w = Row(n) + low
                /\ n < SiteCount => SiteOf(h).id = n
                /\ n = Rows => h.vpce = NoLabel /\ ~h.v6 /\ low = h.src
  BY <1>2, <1>8, <1>9, WireRows, RowsApart
<1>10. CASE o # None
  <2>1. o \in SiteIds /\ p = Block(Row(o))
    BY <1>1, <1>3, <1>4, <1>10, MemberIs
  <2>2. o \in 0 .. Rows /\ o < SiteCount
    BY <2>1, SitesAreRows, Layout DEF SiteIds
  <2>3. SiteOf(h).id = o
    BY <1>5, <1>9, <2>1, <2>2
  <2> QED
    BY <1>3, <1>10, <2>3
<1>11. CASE o = None /\ m.reads = "v4"
  <2>1. p = [addr |-> Row(Rows) + m.addr, bits |-> Source(m).bits]
    BY <1>1, <1>3, <1>4, <1>11, MemberIs
  <2>2. /\ \A b \in Nat : Covers(RangeOf(p), Row(Rows) + b) <=> Covers(r, V4Base + b)
        /\ Row(Rows) <= RangeOf(p).start /\ RangeOf(p).end <= Row(Rows) + V4Size - 1
        /\ RangeOf(p).start \in Nat /\ RangeOf(p).end \in Nat
    BY <1>1, <1>11, <2>1, V4Meets
  <2>3. w \in Nat /\ Row(Rows) \in Nat
    <3>1. \A n \in 0 .. Rows, low \in 0 .. V4Size - 1 : Row(n) + low \in Nat
      BY RowsInUla, AddressesAreNumbers
    <3> QED
      BY <1>1, <1>2, <1>6, <3>1, WireRows, RowsInUla
  <2>4. Covers(RangeOf(Block(Row(Rows))), w)
    <3>1. RangeOf(Block(Row(Rows))).start = Row(Rows)
          /\ RangeOf(Block(Row(Rows))).end = Row(Rows) + V4Size - 1
      BY <1>6, BlockRange
    <3> QED
      BY <1>5, <1>6, <2>2, <2>3, <3>1 DEF Covers
  <2>5. w = Row(Rows) + h.src /\ h.vpce = NoLabel /\ ~h.v6
    BY <1>6, <1>9, <2>4
  <2>6. Covers(r, V4Base + h.src)
    BY <1>1, <1>5, <2>2, <2>5
  <2>7. Covers(r, Mapped(h)) /\ m.reads # "v6"
    BY <1>11, <2>5, <2>6 DEF Mapped
  <2>8. h.v6 = (m.reads = "v6")
    BY <1>1, <2>5, <2>7, Zenon
  <2> QED
    BY <2>5, <2>7, <2>8
<1>12. CASE o = None /\ m.reads = "v6"
  <2>1. p = Source(m) /\ r.end < UlaBase
    BY <1>1, <1>3, <1>4, <1>12, MemberIs
  <2>2. r.end \in Nat
    BY <1>1, SourceSiteIs, AddressesAreNumbers
  <2>3. ASSUME NEW n \in 0 .. Rows, NEW low \in 0 .. V4Size - 1, w = Row(n) + low PROVE FALSE
    <3>1. Row(n) \in Nat /\ UlaBase <= Row(n)
      BY RowsInUla
    <3>2. Row(n) + low <= r.end /\ low \in Nat
      BY <1>5, <1>6, <2>1, <2>3 DEF Covers
    <3> QED
      BY <1>6, <2>1, <2>2, <3>1, <3>2
  <2>4. h.vpce = NoLabel /\ h.v6 /\ w = h.src
    BY <1>2, <2>3, WireRows
  <2>5. Covers(r, Mapped(h))
    BY <1>5, <2>1, <2>4 DEF Mapped
  <2>6. h.v6 = (m.reads = "v6")
    BY <1>1, <1>12, <2>4, Zenon
  <2> QED
    BY <2>4, <2>5, <2>6
<1>13. m.reads = "v4" \/ m.reads = "v6"
  OBVIOUS
<1> QED
  BY <1>10, <1>11, <1>12, <1>13

\* No count of open ranges falls below zero, no position leaves the space, and
\* whatever is emitted is a segment of a site, for every list of sites
\* (identity.rs 72-172).
THEOREM SchemeTypeCorrect == Spec => []TypeOK
<1>1. SchemeInv => TypeOK
  BY DEF SchemeInv
<1> QED
  BY <1>1, SchemeInvariance, PTL

\* For every list of sites and every address: one binary search finds the single
\* claimant, the quarantine site where there are several, nothing where there is
\* none (identity.rs 99-178).
THEOREM SweepAlwaysFindsOwner == Spec => []SweepFindsOwner
BY AddrSiteIsOwner, SchemeInvariance, PTL

\* For every list of sites and every range: range_site names a site exactly when
\* that site owns all of it (identity.rs 157-164, 180-186).
THEOREM RangesAreOwnedWhole == Spec => []RangeOwnedWhole
BY RangeSiteIsOwner, SchemeInvariance, PTL

\* Whatever the members of a rule are, the scheme makes of each a prefix that
\* cidr::build_from accepts (identity.rs 352-440).
THEOREM EncodingIsAlwaysTotal == Spec => []EncodingIsTotal
BY MembersEncode, SchemeInvariance, PTL

\* For every list of sites and every header: what several sites claim is admitted
\* by "!0" and by none of them (identity.rs 33-37, 83-96, 136-151).
THEOREM ContestsAreQuarantined == Spec => []ContestsQuarantined
BY ContestsGoToQuarantine, SchemeInvariance, PTL

\* For every list of sites, header and rule: a prefix that belongs to one site, or
\* to none, admits every source in it, and a listed endpoint id whoever carries it
\* (identity.rs 352-428 against 211-270).
THEOREM RulesAlwaysAdmitTheirSources == Spec => []RulesAdmitTheirSources
BY RulesMeetSources, SchemeInvariance, PTL

\* For every list of sites, header and rule: a prefix admits its own sources and
\* the site that owns all of it, and nobody else (identity.rs 261-264, 396-417).
THEOREM RulesNeverAdmitOthers == Spec => []RulesAdmitNobodyElse
BY RulesMeetNobodyElse, SchemeInvariance, PTL

=============================================================================
