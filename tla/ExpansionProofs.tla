-------------------------- MODULE ExpansionProofs ---------------------------
(***************************************************************************)
(* For every group graph, every rule list and every order the sort can     *)
(* leave: the walk collects the closure of the list, and merging keeps     *)
(* what it covers.                                                         *)
(***************************************************************************)
EXTENDS Expansion, SequenceTheorems, FiniteSetTheorems, WellFoundedInduction, TLAPS

-----------------------------------------------------------------------------
(* Least and greatest elements.  A least counterexample is how the proofs   *)
(* below reason by induction.                                              *)

LEMMA LeastNatural ==
    ASSUME NEW T \in SUBSET Nat, T # {}
    PROVE  \E x \in T : \A y \in T : x <= y
<1>1. PICK R : R = OpToRel(<, Nat)
  OBVIOUS
<1>2. PICK x \in T : \A y \in T : ~(<<y, x>> \in R)
  BY <1>1, NatLessThanWellFounded, WFMin
<1>3. \A y \in Nat : <<y, x>> \in R <=> y < x
  BY <1>1 DEF OpToRel
<1>4. \A y \in T : x \in Nat /\ y \in Nat /\ ~(y < x)
  BY <1>2, <1>3
<1>5. \A y \in T : x <= y
  BY <1>4
<1> QED
  BY <1>5

LEMMA GreatestNatural ==
    ASSUME NEW n \in Nat, NEW T \in SUBSET (0 .. n), T # {}
    PROVE  \E x \in T : \A y \in T : y <= x
<1>1. PICK U : U = {n - y : y \in T}
  OBVIOUS
<1>2. \A y \in T : y \in Nat /\ y <= n /\ n - y \in Nat
  OBVIOUS
<1>3. U \in SUBSET Nat
  BY <1>1, <1>2
<1>4. U # {}
  BY <1>1
<1>5. PICK u \in U : \A v \in U : u <= v
  BY <1>3, <1>4, LeastNatural
<1>6. PICK x \in T : u = n - x
  BY <1>1
<1>7. \A y \in T : n - x <= n - y
  BY <1>1, <1>5, <1>6
<1>8. \A y \in T : y <= x
  BY <1>2, <1>7
<1> QED
  BY <1>8

-----------------------------------------------------------------------------
(* Membership in sequences.                                                *)

LEMMA InHeadTail ==
    ASSUME NEW S, NEW s \in Seq(S), s # <<>>, NEW m
    PROVE  In(m, s) <=> m = Head(s) \/ In(m, Tail(s))
<1>1. Len(s) \in Nat /\ Len(s) > 0 /\ DOMAIN s = 1 .. Len(s) /\ Head(s) = s[1]
  OBVIOUS
<1>2. DOMAIN Tail(s) = 1 .. Len(s) - 1 /\ \A i \in DOMAIN Tail(s) : Tail(s)[i] = s[i + 1]
  OBVIOUS
<1>3. ASSUME In(m, s) PROVE m = Head(s) \/ In(m, Tail(s))
  <2>1. PICK i \in 1 .. Len(s) : s[i] = m
    BY <1>1, <1>3 DEF In
  <2>2. CASE i = 1
    BY <1>1, <2>1, <2>2
  <2>3. CASE i # 1
    <3>1. i - 1 \in DOMAIN Tail(s) /\ Tail(s)[i - 1] = m
      BY <1>1, <1>2, <2>1, <2>3
    <3> QED
      BY <3>1 DEF In
  <2> QED
    BY <2>2, <2>3
<1>4. ASSUME m = Head(s) \/ In(m, Tail(s)) PROVE In(m, s)
  <2>1. CASE m = Head(s)
    BY <1>1, <2>1 DEF In
  <2>2. CASE In(m, Tail(s))
    <3>1. PICK i \in DOMAIN Tail(s) : Tail(s)[i] = m
      BY <2>2 DEF In
    <3>2. i + 1 \in DOMAIN s /\ s[i + 1] = m
      BY <1>1, <1>2, <3>1
    <3> QED
      BY <3>2 DEF In
  <2> QED
    BY <1>4, <2>1, <2>2
<1> QED
  BY <1>3, <1>4

LEMMA InConcat ==
    ASSUME NEW S, NEW s \in Seq(S), NEW t \in Seq(S), NEW m
    PROVE  In(m, s \o t) <=> In(m, s) \/ In(m, t)
<1>1. /\ Len(s) \in Nat /\ Len(t) \in Nat
      /\ DOMAIN s = 1 .. Len(s) /\ DOMAIN t = 1 .. Len(t)
      /\ DOMAIN (s \o t) = 1 .. Len(s) + Len(t)
  OBVIOUS
<1>2. \A i \in DOMAIN (s \o t) : (s \o t)[i] = IF i <= Len(s) THEN s[i] ELSE t[i - Len(s)]
  OBVIOUS
<1>3. ASSUME In(m, s \o t) PROVE In(m, s) \/ In(m, t)
  <2>1. PICK i \in DOMAIN (s \o t) : (s \o t)[i] = m
    BY <1>3 DEF In
  <2>2. CASE i <= Len(s)
    <3>1. i \in DOMAIN s /\ s[i] = m
      BY <1>1, <1>2, <2>1, <2>2
    <3> QED
      BY <3>1 DEF In
  <2>3. CASE ~(i <= Len(s))
    <3>1. i - Len(s) \in DOMAIN t /\ t[i - Len(s)] = m
      BY <1>1, <1>2, <2>1, <2>3
    <3> QED
      BY <3>1 DEF In
  <2> QED
    BY <2>2, <2>3
<1>4. ASSUME In(m, s) PROVE In(m, s \o t)
  <2>1. PICK i \in DOMAIN s : s[i] = m
    BY <1>4 DEF In
  <2>2. i \in DOMAIN (s \o t) /\ (s \o t)[i] = m
    BY <1>1, <1>2, <2>1
  <2> QED
    BY <2>2 DEF In
<1>5. ASSUME In(m, t) PROVE In(m, s \o t)
  <2>1. PICK i \in DOMAIN t : t[i] = m
    BY <1>5 DEF In
  <2>2. i + Len(s) \in DOMAIN (s \o t) /\ (s \o t)[i + Len(s)] = m
    BY <1>1, <1>2, <2>1
  <2> QED
    BY <2>2 DEF In
<1> QED
  BY <1>3, <1>4, <1>5

LEMMA InAppend ==
    ASSUME NEW S, NEW s \in Seq(S), NEW e \in S, NEW m
    PROVE  In(m, Append(s, e)) <=> In(m, s) \/ m = e
<1>1. /\ Len(s) \in Nat /\ DOMAIN s = 1 .. Len(s)
      /\ DOMAIN Append(s, e) = 1 .. Len(s) + 1
      /\ Append(s, e)[Len(s) + 1] = e
      /\ \A i \in 1 .. Len(s) : Append(s, e)[i] = s[i]
  OBVIOUS
<1>2. \A i \in 1 .. Len(s) + 1 : i \in 1 .. Len(s) \/ i = Len(s) + 1
  BY <1>1
<1>3. \A i \in 1 .. Len(s) : i \in 1 .. Len(s) + 1
  BY <1>1
<1>4. Len(s) + 1 \in 1 .. Len(s) + 1
  BY <1>1
<1> QED
  BY <1>1, <1>2, <1>3, <1>4 DEF In

-----------------------------------------------------------------------------
(* Reachability.                                                           *)

LEMMA ReachedIsClosed ==
    ASSUME NEW list PROVE ClosedUnder(list, Reached(list))
BY DEF ClosedUnder, Reached

LEMMA ReachedIsLeast ==
    ASSUME NEW list, NEW S \in SUBSET DOMAIN groups, ClosedUnder(list, S)
    PROVE  Reached(list) \subseteq S
BY DEF Reached

LEMMA InMembers ==
    ASSUME NEW S, NEW s \in Seq(S), NEW m, In(m, s)
    PROVE  m \in S
BY DEF In

\* What a list or a group it reaches contains is a group it reaches, or a leaf.
LEMMA ContentIsReached ==
    ASSUME NEW list, NEW m \in Members,
           In(m, list) \/ \E g \in Reached(list) : In(m, groups[g])
    PROVE  m \in Reached(list) \union Leaves(list)
<1>1. CASE m \in DOMAIN groups
  BY <1>1, ReachedIsClosed DEF ClosedUnder
<1>2. CASE m \notin DOMAIN groups
  BY <1>2 DEF Leaves
<1> QED
  BY <1>1, <1>2

-----------------------------------------------------------------------------
(* The walk.  WalkIsClosure says nothing of the stack, so it is not        *)
(* inductive: everything on the stack must be reached or a leaf, and every *)
(* member of the list and of an expanded group must be accounted for.      *)

Wanted(m) == In(m, entry) \/ \E g \in seen : In(m, groups[g])

WalkInv ==
    /\ WalkTypeOK
    /\ seen \subseteq Reached(entry)
    /\ \A m \in Members : In(m, stack) => m \in Reached(entry) \union Leaves(entry)
    /\ \A m \in Members : In(m, out) => m \in Leaves(entry)
    /\ \A m \in Members : Wanted(m) => m \in seen \/ In(m, out) \/ In(m, stack)

LEMMA WalkInvIsEnough == WalkInv => WalkIsClosure
<1> SUFFICES ASSUME WalkInv PROVE WalkIsClosure
  OBVIOUS
<1>1. ASSUME NEW m \in Leaves(entry)
      PROVE  \/ In(m, out) \/ In(m, stack)
             \/ \E n \in DOMAIN groups \ seen : In(m, groups[n])
  <2>1. m \in Members \ DOMAIN groups
    BY <1>1 DEF Leaves
  <2>2. seen \subseteq DOMAIN groups
    BY DEF WalkInv, WalkTypeOK
  <2>3. CASE Wanted(m)
    BY <2>1, <2>2, <2>3 DEF WalkInv
  <2>4. CASE ~Wanted(m)
    <3>1. PICK g \in Reached(entry) : In(m, groups[g])
      BY <1>1, <2>4 DEF Leaves, Wanted
    <3>2. g \in DOMAIN groups \ seen
      BY <3>1, <2>4 DEF Reached, Wanted
    <3> QED
      BY <3>1, <3>2
  <2> QED
    BY <2>3, <2>4
<1>2. ASSUME stack = <<>>
      PROVE  {out[i] : i \in DOMAIN out} = Leaves(entry) /\ seen = Reached(entry)
  <2>1. \A m : ~In(m, stack)
    BY <1>2 DEF In
  <2>2. \A m \in Members : In(m, out) => m \notin DOMAIN groups
    BY DEF WalkInv, Leaves
  <2>3. DOMAIN groups \subseteq Members /\ seen \in SUBSET DOMAIN groups
    BY DEF WalkInv, WalkTypeOK, IsGraph, Members
  <2>4. ClosedUnder(entry, seen)
    BY <2>1, <2>2, <2>3 DEF WalkInv, Wanted, ClosedUnder
  <2>5. seen = Reached(entry)
    BY <2>3, <2>4, ReachedIsLeast DEF WalkInv
  <2>6. ASSUME NEW m PROVE In(m, out) <=> m \in Leaves(entry)
    <3>1. In(m, out) => m \in Members
      BY InMembers DEF WalkInv, WalkTypeOK
    <3>2. m \in Leaves(entry) => In(m, out)
      BY <2>1, <2>3, <2>5 DEF WalkInv, Wanted, Leaves
    <3> QED
      BY <3>1, <3>2 DEF WalkInv
  <2>7. \A m : m \in {out[i] : i \in DOMAIN out} <=> In(m, out)
    BY DEF In
  <2> QED
    BY <2>5, <2>6, <2>7
<1> QED
  BY <1>1, <1>2 DEF WalkInv, WalkIsClosure

\* The walk of a list begins with the list itself on the stack.
Begun == /\ IsGraph(groups) /\ entry \in Seq(Members)
         /\ stack = entry /\ out = <<>> /\ seen = {}

LEMMA WalkInvAtStart == Begun => WalkInv
<1> SUFFICES ASSUME Begun PROVE WalkInv
  OBVIOUS
<1> USE DEF Begun
<1>1. WalkTypeOK
  BY DEF WalkTypeOK
<1>2. \A m \in Members : In(m, stack) => m \in Reached(entry) \union Leaves(entry)
  BY ContentIsReached
<1>3. \A m : ~In(m, out)
  BY DEF In
<1> QED
  BY <1>1, <1>2, <1>3 DEF WalkInv, Wanted

\* While the graph and the list stay, so does what the list stands for.
LEMMA ClosureStays ==
    ASSUME groups' = groups, entry' = entry
    PROVE  Reached(entry)' = Reached(entry) /\ Leaves(entry)' = Leaves(entry)
<1>1. Reached(entry)' = Reached(entry)
  BY DEF Reached, ClosedUnder
<1> QED
  BY <1>1 DEF Leaves

\* One step of walk.
LEMMA WalkInvStep ==
    ASSUME WalkInv, Visit
    PROVE  WalkInv'
<1> DEFINE h == Head(stack)
           t == Tail(stack)
<1>1. /\ IsGraph(groups) /\ entry \in Seq(Members) /\ stack \in Seq(Members)
      /\ out \in Seq(Members) /\ seen \in SUBSET DOMAIN groups /\ stack # <<>>
  BY DEF WalkInv, WalkTypeOK, Visit
<1>2. h \in Members /\ t \in Seq(Members)
  BY <1>1
<1>3. \A m : In(m, stack) <=> m = h \/ In(m, t)
  BY <1>1, InHeadTail
<1>4. groups' = groups /\ entry' = entry
  BY DEF Visit, Expand, Skip, Collect
<1>5. Reached(entry)' = Reached(entry) /\ Leaves(entry)' = Leaves(entry)
  BY <1>4, ClosureStays
<1>6. h \in Reached(entry) \union Leaves(entry)
  BY <1>2, <1>3 DEF WalkInv
<1>7. CASE Expand(h)
  <2>1. /\ h \in DOMAIN groups /\ seen' = seen \union {h} /\ out' = out
        /\ stack' = groups[h] \o t
    BY <1>7 DEF Expand
  <2>2. groups[h] \in Seq(Members)
    BY <1>1, <2>1 DEF IsGraph
  <2>3. \A m : In(m, groups[h] \o t) <=> In(m, groups[h]) \/ In(m, t)
    BY <1>2, <2>2, InConcat
  <2>4. h \in Reached(entry)
    BY <1>6, <2>1 DEF Leaves
  <2>5. WalkTypeOK'
    <3>1. groups[h] \o t \in Seq(Members)
      BY <1>2, <2>2
    <3> QED
      BY <1>1, <1>4, <2>1, <3>1 DEF WalkTypeOK
  <2>6. \A m \in Members : In(m, stack)' => m \in Reached(entry) \union Leaves(entry)
    <3> SUFFICES ASSUME NEW m \in Members, In(m, stack)'
                 PROVE  m \in Reached(entry) \union Leaves(entry)
      OBVIOUS
    <3>1. In(m, groups[h]) \/ In(m, t)
      BY <2>1, <2>3 DEF In
    <3>2. CASE In(m, groups[h])
      BY <2>4, <3>2, ContentIsReached
    <3>3. CASE In(m, t)
      BY <1>3, <3>3 DEF WalkInv
    <3> QED
      BY <3>1, <3>2, <3>3
  <2>7. \A m \in Members : Wanted(m)' => (m \in seen \/ In(m, out) \/ In(m, stack))'
    <3> SUFFICES ASSUME NEW m \in Members, Wanted(m)'
                 PROVE  m \in seen' \/ In(m, out)' \/ In(m, stack)'
      OBVIOUS
    <3>1. Wanted(m) \/ In(m, groups[h])
      BY <1>4, <2>1 DEF Wanted, In
    <3>2. In(m, stack)' <=> In(m, groups[h]) \/ In(m, t)
      BY <2>1, <2>3 DEF In
    <3>3. In(m, out)' <=> In(m, out)
      BY <2>1 DEF In
    <3>4. Wanted(m) => m \in seen \/ In(m, out) \/ m = h \/ In(m, t)
      BY <1>3 DEF WalkInv
    <3> QED
      BY <2>1, <3>1, <3>2, <3>3, <3>4
  <2>8. \A m \in Members : In(m, out)' => m \in Leaves(entry)
    BY <2>1 DEF WalkInv, In
  <2> QED
    BY <1>5, <2>1, <2>4, <2>5, <2>6, <2>7, <2>8 DEF WalkInv
<1>8. CASE Skip(h)
  <2>1. h \in seen /\ seen' = seen /\ out' = out /\ stack' = t
    BY <1>8 DEF Skip
  <2>2. WalkTypeOK'
    BY <1>1, <1>2, <1>4, <2>1 DEF WalkTypeOK
  <2>3. \A m : /\ In(m, stack)' <=> In(m, t)
               /\ In(m, out)' <=> In(m, out)
               /\ Wanted(m)' <=> Wanted(m)
    BY <1>4, <2>1 DEF Wanted, In
  <2> QED
    BY <1>3, <1>5, <2>1, <2>2, <2>3 DEF WalkInv
<1>9. CASE Collect(h)
  <2>1. h \notin DOMAIN groups /\ seen' = seen /\ out' = Append(out, h) /\ stack' = t
    BY <1>9 DEF Collect
  <2>2. WalkTypeOK'
    <3>1. Append(out, h) \in Seq(Members)
      BY <1>1, <1>2
    <3> QED
      BY <1>1, <1>2, <1>4, <2>1, <3>1 DEF WalkTypeOK
  <2>3. \A m : In(m, Append(out, h)) <=> In(m, out) \/ m = h
    BY <1>1, <1>2, InAppend
  <2>4. \A m : /\ In(m, stack)' <=> In(m, t)
               /\ In(m, out)' <=> In(m, out) \/ m = h
               /\ Wanted(m)' <=> Wanted(m)
    BY <1>4, <2>1, <2>3 DEF Wanted, In
  <2>5. h \in Leaves(entry)
    BY <1>6, <2>1 DEF Reached
  <2> QED
    BY <1>3, <1>5, <2>1, <2>2, <2>4, <2>5 DEF WalkInv
<1> QED
  BY <1>7, <1>8, <1>9 DEF Visit

\* A new list, as Resolve leaves the walk.
LEMMA WalkInvResolved ==
    ASSUME WalkInv, NEW list \in Seq(Members), Resolve(list)
    PROVE  WalkInv'
<1>1. Begun'
  BY DEF WalkInv, WalkTypeOK, Resolve, Begun, IsGraph
<1> QED
  BY <1>1, WalkInvAtStart, PTL

\* Steps that leave the walk alone.
LEMMA WalkInvStays == WalkInv /\ UNCHANGED walkVars => WalkInv'
<1> SUFFICES ASSUME WalkInv, UNCHANGED walkVars PROVE WalkInv'
  OBVIOUS
<1>1. /\ groups' = groups /\ entry' = entry /\ stack' = stack
      /\ out' = out /\ seen' = seen
  BY DEF walkVars
<1>2. Reached(entry)' = Reached(entry) /\ Leaves(entry)' = Leaves(entry)
  BY <1>1, ClosureStays
<1> QED
  BY <1>1, <1>2 DEF WalkInv, WalkTypeOK, IsGraph, Wanted, In

-----------------------------------------------------------------------------
(* The merge loop.                                                         *)

Span == [start : Int, end : Int]

\* The range of a prefix whose width fits is a range (cidr.rs 66-78).
LEMMA RangeIsSpan ==
    ASSUME NEW p \in Prefix, ~BadWidth(p)
    PROVE  RangeOf(p) \in Span /\ RangeOf(p).start <= RangeOf(p).end
<1> DEFINE size == 2 ^ (Width - p.bits)
           base == p.addr - (p.addr % size)
<1>1. Width \in Nat /\ p.bits \in Nat /\ p.bits <= Width
  BY WidthAssumption DEF Prefix, BadWidth
<1>2. size \in Nat \ {0}
  <2>1. Width - p.bits \in 0 .. Width
    BY <1>1
  <2> QED
    BY <2>1, PowerAssumption
<1>3. p.addr \in Int
  BY DEF Prefix, Addresses
<1>4. p.addr % size \in Int
  <2> HIDE DEF size
  <2> QED
    BY <1>2, <1>3
<1>5. base \in Int /\ base + size - 1 \in Int /\ base <= base + size - 1
  <2> HIDE DEF size
  <2> QED
    BY <1>2, <1>3, <1>4
<1>6. RangeOf(p) = [start |-> base, end |-> base + size - 1]
  BY DEF RangeOf
<1> HIDE DEF base, size
<1> QED
  BY <1>5, <1>6 DEF Span

\* Sorted, disjoint, none empty.
Ordered(rs) ==
    /\ \A i \in DOMAIN rs : rs[i].start <= rs[i].end
    /\ \A i \in 1 .. Len(rs) - 1 : rs[i].end < rs[i + 1].start

CoveredIn(rs, a) == \E i \in DOMAIN rs : Covers(rs[i], a)

\* One round of the loop, for a range that starts no earlier than the last one
\* merged (cidr.rs 98-109).
LEMMA MergeIntoKeeps ==
    ASSUME NEW rs \in Seq(Span), NEW r \in Span, Ordered(rs), r.start <= r.end,
           rs # <<>> => rs[Len(rs)].start <= r.start,
           NEW q, q = MergeInto(rs, r)
    PROVE  /\ q \in Seq(Span) /\ q # <<>> /\ Ordered(q)
           /\ q[Len(q)].start <= r.start
           /\ \A a \in Int : CoveredIn(q, a) <=> CoveredIn(rs, a) \/ Covers(r, a)
<1>1. PICK n : n = Len(rs)
  OBVIOUS
<1>2. n \in Nat /\ DOMAIN rs = 1 .. n /\ (n > 0 => rs # <<>> /\ n \in 1 .. n)
  BY <1>1
<1>3. \A i \in 1 .. n : rs[i] \in Span
  BY <1>1, <1>2
<1>4. \A i \in 1 .. n : rs[i].start \in Int /\ rs[i].end \in Int
  BY <1>3 DEF Span
<1>5. r.start \in Int /\ r.end \in Int
  BY DEF Span
<1>6. n > 0 => rs[n].start <= r.start
  BY <1>1, <1>2
<1>7. /\ \A i \in 1 .. n : rs[i].start <= rs[i].end
      /\ \A i \in 1 .. n - 1 : rs[i].end < rs[i + 1].start
  BY <1>1, <1>2 DEF Ordered
<1>8. \A i \in 1 .. n - 1 : i \in 1 .. n /\ i # n /\ i + 1 \in 1 .. n
  BY <1>2
<1>9. CASE n > 0 /\ r.start <= rs[n].end /\ r.end > rs[n].end
  <2>1. PICK e : e = [start |-> rs[n].start, end |-> r.end]
    OBVIOUS
  <2>2. e \in Span /\ e.start = rs[n].start /\ e.end = r.end
    BY <1>2, <1>4, <1>5, <1>9, <2>1 DEF Span
  <2>3. [rs[n] EXCEPT !.end = r.end] = e
    BY <1>2, <1>3, <1>9, <2>1 DEF Span
  <2>4. q = [rs EXCEPT ![n] = e]
    BY <1>1, <1>9, <2>3 DEF MergeInto
  <2>5. q \in Seq(Span) /\ Len(q) = n /\ DOMAIN q = 1 .. n
    <3>1. q \in Seq(Span) /\ Len(q) = n
      BY <1>1, <1>2, <1>9, <2>2, <2>4, ExceptSeq
    <3> QED
      BY <3>1
  <2>6. q[n] = e /\ \A i \in 1 .. n : i # n => q[i] = rs[i]
    BY <1>2, <1>9, <2>4
  <2>7. q[n].start <= r.start
    BY <1>6, <1>9, <2>2, <2>6
  <2>8. Ordered(q)
    <3>1. e.start <= e.end
      BY <1>2, <1>4, <1>5, <1>6, <1>9, <2>2
    <3>2. \A i \in 1 .. n : q[i].start <= q[i].end
      BY <1>7, <2>6, <3>1
    <3>3. ASSUME NEW i \in 1 .. n - 1 PROVE q[i].end < q[i + 1].start
      <4>1. q[i].end = rs[i].end
        BY <1>8, <2>6
      <4>2. q[i + 1].start = rs[i + 1].start
        BY <1>8, <2>2, <2>6
      <4> QED
        BY <1>7, <4>1, <4>2
    <3> QED
      BY <2>5, <3>2, <3>3 DEF Ordered
  <2>9. ASSUME NEW a \in Int PROVE CoveredIn(q, a) <=> CoveredIn(rs, a) \/ Covers(r, a)
    <3>1. Covers(q[n], a) <=> Covers(rs[n], a) \/ Covers(r, a)
      BY <1>2, <1>4, <1>5, <1>6, <1>9, <2>2, <2>6 DEF Covers
    <3> QED
      BY <1>2, <1>9, <2>5, <2>6, <3>1 DEF CoveredIn
  <2>10. q # <<>>
    BY <1>9, <2>5
  <2> QED
    BY <2>5, <2>7, <2>8, <2>9, <2>10
<1>10. CASE n > 0 /\ r.start <= rs[n].end /\ ~(r.end > rs[n].end)
  <2>1. q = rs
    BY <1>1, <1>10 DEF MergeInto
  <2>2. ASSUME NEW a \in Int PROVE Covers(r, a) => CoveredIn(rs, a)
    <3>1. Covers(r, a) => Covers(rs[n], a)
      BY <1>2, <1>4, <1>5, <1>6, <1>10 DEF Covers
    <3> QED
      BY <1>2, <1>10, <3>1 DEF CoveredIn
  <2> QED
    BY <1>1, <1>2, <1>6, <1>10, <2>1, <2>2
<1>11. CASE ~(n > 0 /\ r.start <= rs[n].end)
  <2>1. q = Append(rs, r)
    BY <1>1, <1>11 DEF MergeInto
  <2>2. /\ q \in Seq(Span) /\ Len(q) = n + 1 /\ DOMAIN q = 1 .. n + 1 /\ q[n + 1] = r
        /\ \A i \in 1 .. n : q[i] = rs[i]
    BY <1>1, <1>2, <2>1
  <2>3. /\ \A i \in 1 .. n + 1 : i \in 1 .. n \/ i = n + 1
        /\ \A i \in 1 .. n : i \in 1 .. n + 1
        /\ n + 1 \in 1 .. n + 1
    BY <1>2
  <2>4. Ordered(q)
    <3>1. \A i \in 1 .. n + 1 : q[i].start <= q[i].end
      BY <1>7, <2>2, <2>3
    <3>2. ASSUME NEW i \in 1 .. n PROVE q[i].end < q[i + 1].start
      <4>1. CASE i = n
        BY <1>2, <1>4, <1>5, <1>11, <2>2, <4>1
      <4>2. CASE i # n
        <5>1. i \in 1 .. n - 1
          BY <1>2, <4>2
        <5>2. q[i] = rs[i] /\ q[i + 1] = rs[i + 1]
          BY <1>8, <2>2, <5>1
        <5> QED
          BY <1>7, <5>1, <5>2
      <4> QED
        BY <4>1, <4>2
    <3>3. 1 .. Len(q) - 1 = 1 .. n
      BY <1>2, <2>2
    <3> QED
      BY <2>2, <3>1, <3>2, <3>3 DEF Ordered
  <2>5. ASSUME NEW a \in Int PROVE CoveredIn(q, a) <=> CoveredIn(rs, a) \/ Covers(r, a)
    BY <1>2, <2>2, <2>3 DEF CoveredIn
  <2>6. q # <<>>
    BY <1>2, <2>2
  <2>7. q[Len(q)].start <= r.start
    BY <1>5, <2>2
  <2> QED
    BY <2>2, <2>4, <2>5, <2>6, <2>7
<1> QED
  BY <1>9, <1>10, <1>11

-----------------------------------------------------------------------------
(* The binary search.                                                      *)

\* Ranges that are each before the next are each before all that follow.
LEMMA OrderedThroughout ==
    ASSUME NEW rs \in Seq(Span), Ordered(rs), NEW i \in DOMAIN rs, NEW j \in DOMAIN rs, i < j
    PROVE  rs[i].end < rs[j].start
<1>1. PICK n : n = Len(rs)
  OBVIOUS
<1>2. n \in Nat /\ DOMAIN rs = 1 .. n /\ i \in Nat /\ i >= 1
  BY <1>1
<1>3. \A k \in 1 .. n : rs[k] \in Span
  BY <1>1, <1>2
<1>4. \A k \in 1 .. n : rs[k].start \in Int /\ rs[k].end \in Int
  BY <1>3 DEF Span
<1>5. PICK T : T = {k \in i + 1 .. n : ~(rs[i].end < rs[k].start)}
  OBVIOUS
<1>6. ASSUME T # {} PROVE FALSE
  <2>1. T \in SUBSET Nat
    BY <1>2, <1>5
  <2>2. PICK k \in T : \A y \in T : k <= y
    BY <1>6, <2>1, LeastNatural
  <2>3. k \in i + 1 .. n /\ ~(rs[i].end < rs[k].start)
    BY <1>5
  <2>4. k - 1 \in 1 .. n - 1 /\ k - 1 \in 1 .. n /\ (k - 1) + 1 = k /\ k - 1 >= i
    BY <1>2, <2>3
  <2>5. rs[k - 1].end < rs[k].start /\ rs[k - 1].start <= rs[k - 1].end
    BY <1>1, <1>2, <2>4 DEF Ordered
  <2>6. CASE k - 1 = i
    BY <2>3, <2>5, <2>6
  <2>7. CASE k - 1 # i
    <3>1. k - 1 \in i + 1 .. n /\ k - 1 \notin T
      BY <1>2, <2>2, <2>3, <2>4, <2>7
    <3>2. rs[i].end < rs[k - 1].start
      BY <1>5, <3>1
    <3>3. k \in 1 .. n
      BY <1>2, <2>3
    <3> QED
      BY <1>2, <1>4, <2>3, <2>4, <2>5, <3>2, <3>3
  <2> QED
    BY <2>6, <2>7
<1>7. j \in i + 1 .. n
  BY <1>2
<1> QED
  BY <1>5, <1>6, <1>7

\* partition_point: the ranges that start at or before a are the first of them,
\* as many as there are (cidr.rs 53-64).
LEMMA StartedAreFirst ==
    ASSUME NEW rs \in Seq(Span), Ordered(rs), NEW a \in Int, NEW k,
           k = Cardinality({j \in DOMAIN rs : rs[j].start <= a})
    PROVE  k \in 0 .. Len(rs) /\ \A j \in DOMAIN rs : rs[j].start <= a <=> j <= k
<1>1. PICK n : n = Len(rs)
  OBVIOUS
<1>2. n \in Nat /\ DOMAIN rs = 1 .. n
  BY <1>1
<1>3. \A j \in 1 .. n : rs[j] \in Span
  BY <1>1, <1>2
<1>4. \A j \in 1 .. n : rs[j].start \in Int /\ rs[j].end \in Int /\ rs[j].start <= rs[j].end
  BY <1>2, <1>3 DEF Span, Ordered
<1>5. PICK S : S = {j \in 1 .. n : rs[j].start <= a}
  OBVIOUS
<1>6. k = Cardinality(S)
  BY <1>2, <1>5
<1>7. CASE S = {}
  <2>1. k = 0
    BY <1>6, <1>7, FS_EmptySet
  <2>2. \A j \in 1 .. n : j \notin S /\ ~(j <= 0)
    BY <1>7
  <2>3. \A j \in 1 .. n : rs[j].start <= a <=> j <= k
    BY <1>5, <2>1, <2>2
  <2> QED
    BY <1>1, <1>2, <2>1, <2>3
<1>8. CASE S # {}
  <2>1. S \in SUBSET (0 .. n)
    BY <1>2, <1>5
  <2>2. PICK x \in S : \A y \in S : y <= x
    BY <1>2, <1>8, <2>1, GreatestNatural
  <2>3. x \in 1 .. n /\ rs[x].start <= a
    BY <1>5
  <2>4. ASSUME NEW j \in 1 .. n, j < x PROVE rs[j].start <= a
    <3>1. rs[j].end < rs[x].start
      BY <1>2, <2>3, <2>4, OrderedThroughout
    <3> QED
      BY <1>4, <2>3, <3>1
  <2>5. ASSUME NEW j \in 1 .. n PROVE j \in S <=> j <= x
    BY <1>5, <2>2, <2>3, <2>4
  <2>6. S = 1 .. x
    BY <1>2, <1>5, <2>3, <2>5
  <2>7. k = x
    BY <1>6, <2>3, <2>6, FS_Interval
  <2>8. \A j \in 1 .. n : rs[j].start <= a <=> j <= k
    BY <1>5, <2>5, <2>7
  <2>9. k \in 0 .. n
    BY <1>2, <2>3, <2>7
  <2> QED
    BY <1>1, <1>2, <2>8, <2>9
<1> QED
  BY <1>7, <1>8

\* Looking an address up in the set of sorted, disjoint ranges is asking whether
\* one of them covers it; the span rules nothing out (cidr.rs 48-64, 111-116).
LEMMA ContainsIsCovered ==
    ASSUME NEW rs \in Seq(Span), Ordered(rs), NEW a \in Int
    PROVE  SetContains(SetOf(rs), a) <=> CoveredIn(rs, a)
<1>1. PICK n : n = Len(rs)
  OBVIOUS
<1>2. n \in Nat /\ DOMAIN rs = 1 .. n
  BY <1>1
<1>3. \A j \in 1 .. n : rs[j] \in Span
  BY <1>1, <1>2
<1>4. \A j \in 1 .. n : rs[j].start \in Int /\ rs[j].end \in Int /\ rs[j].start <= rs[j].end
  BY <1>2, <1>3 DEF Span, Ordered
<1>5. PICK k : k = Cardinality({j \in DOMAIN rs : rs[j].start <= a})
  OBVIOUS
<1>6. k \in 0 .. n /\ \A j \in 1 .. n : rs[j].start <= a <=> j <= k
  BY <1>1, <1>2, <1>5, StartedAreFirst
<1>7. /\ SetOf(rs).ranges = rs
      /\ n > 0 => SetOf(rs).span = [start |-> rs[1].start, end |-> rs[n].end]
  BY <1>1, <1>2 DEF SetOf
<1>8. SetContains(SetOf(rs), a) <=> Covers(SetOf(rs).span, a) /\ k > 0 /\ a <= rs[k].end
  BY <1>5, <1>7 DEF SetContains
<1>9. ASSUME SetContains(SetOf(rs), a) PROVE CoveredIn(rs, a)
  <2>1. k \in 1 .. n /\ a <= rs[k].end
    BY <1>2, <1>6, <1>8, <1>9
  <2>2. Covers(rs[k], a)
    BY <1>6, <2>1 DEF Covers
  <2> QED
    BY <1>2, <2>1, <2>2 DEF CoveredIn
<1>10. ASSUME CoveredIn(rs, a) PROVE SetContains(SetOf(rs), a)
  <2>1. PICK i \in 1 .. n : rs[i].start <= a /\ a <= rs[i].end
    BY <1>2, <1>10 DEF CoveredIn, Covers
  <2>2. i <= k /\ k \in 1 .. n
    BY <1>2, <1>6, <2>1
  <2>3. i = k
    <3>1. ASSUME i < k PROVE FALSE
      <4>1. rs[i].end < rs[k].start
        BY <1>2, <2>2, <3>1, OrderedThroughout
      <4>2. rs[k].start <= a
        BY <1>6, <2>2
      <4> QED
        BY <1>4, <2>1, <2>2, <4>1, <4>2
    <3> QED
      BY <2>1, <2>2, <3>1
  <2>4. rs[1].start <= a
    <3>1. 1 \in 1 .. n /\ 1 <= k
      BY <1>2, <2>2
    <3> QED
      BY <1>6, <3>1
  <2>5. a <= rs[n].end
    <3>1. n \in 1 .. n
      BY <1>2, <2>2
    <3>2. CASE k = n
      BY <2>1, <2>3, <3>2
    <3>3. CASE k # n
      <4>1. k < n
        BY <1>2, <2>2, <3>3
      <4>2. rs[k].end < rs[n].start
        BY <1>2, <2>2, <3>1, <4>1, OrderedThroughout
      <4> QED
        BY <1>4, <2>1, <2>2, <2>3, <3>1, <4>2
    <3> QED
      BY <3>2, <3>3
  <2>6. Covers(SetOf(rs).span, a)
    BY <1>2, <1>7, <2>2, <2>4, <2>5 DEF Covers
  <2> QED
    BY <1>8, <2>1, <2>2, <2>3, <2>6
<1> QED
  BY <1>9, <1>10

\* Set::default() holds nothing, although its span is (0, 0).
LEMMA DefaultContainsNothing ==
    ASSUME NEW a PROVE ~SetContains(DefaultSet, a)
<1>1. DefaultSet.ranges = <<>>
  BY DEF DefaultSet
<1>2. {j \in DOMAIN <<>> : <<>>[j].start <= a} = {}
  OBVIOUS
<1>3. Cardinality({j \in DOMAIN DefaultSet.ranges : DefaultSet.ranges[j].start <= a}) = 0
  BY <1>1, <1>2, FS_EmptySet
<1> QED
  BY <1>3 DEF SetContains

-----------------------------------------------------------------------------
(* Server names.  A round of match_scopes and a way of fitting a name are  *)
(* two counts of one thing: round 1 is the exact fit, a later round the    *)
(* wildcard that spells out what is left of the name.                      *)

Name == Seq(DOMAIN LowerOf)

Wild(text) == Len(text) > 1 /\ text[1] = Star /\ Tail(text) # <<Empty>>

\* How a name fits that claims in round i.
Score(sni, i) == IF i = 1 THEN Len(sni) + 1 ELSE Len(sni) - i + 1

LEMMA FromIsRest ==
    ASSUME NEW S, NEW name \in Seq(S), NEW i \in DOMAIN name
    PROVE  From(name, i) \in Seq(S) /\ Len(From(name, i)) = Len(name) - i + 1
<1>1. Len(name) \in Nat /\ i \in 1 .. Len(name)
  OBVIOUS
<1> QED
  BY <1>1, SubSeqProperties DEF From

LEMMA FromTwoIsTail ==
    ASSUME NEW S, NEW name \in Seq(S), Len(name) > 1
    PROVE  From(name, 2) = Tail(name) /\ Tail(name) \in Seq(S) /\ Len(Tail(name)) = Len(name) - 1
<1>1. Tail(name) \in Seq(S) /\ Len(Tail(name)) = Len(name) - 1
  OBVIOUS
<1> QED
  BY <1>1 DEF From

LEMMA LowerKeepsLength ==
    ASSUME NEW S, NEW s \in Seq(S), NEW t \in Seq(S), Lower(s) = Lower(t)
    PROVE  Len(s) = Len(t)
<1>1. DOMAIN Lower(s) = 1 .. Len(s) /\ DOMAIN Lower(t) = 1 .. Len(t)
  BY DEF Lower
<1>2. Len(s) \in Nat /\ Len(t) \in Nat /\ 1 .. Len(s) = 1 .. Len(t)
  BY <1>1
<1> QED
  BY <1>2

\* The two kinds of pattern (config.rs 112-128).
LEMMA PatternIs ==
    ASSUME NEW text \in Name
    PROVE  PatternOf(text) = IF Wild(text) THEN Suffix(Lower(Tail(text)))
                             ELSE Exact(Lower(text))
<1>1. CASE Len(text) > 1
  <2>1. From(text, 2) = Tail(text)
    BY <1>1, FromTwoIsTail DEF Name
  <2> QED
    BY <1>1, <2>1 DEF PatternOf, Wild
<1>2. CASE ~(Len(text) > 1)
  BY <1>2 DEF PatternOf, Wild
<1> QED
  BY <1>1, <1>2

LEMMA KindsDiffer ==
    ASSUME NEW s, NEW t
    PROVE  /\ Exact(s) # Suffix(t)
           /\ Exact(s) = Exact(t) <=> s = t
           /\ Suffix(s) = Suffix(t) <=> s = t
<1>1. Exact(s).kind # Suffix(t).kind
  BY DEF Exact, Suffix
<1>2. Exact(s).name = s /\ Suffix(s).name = s /\ Exact(t).name = t /\ Suffix(t).name = t
  BY DEF Exact, Suffix
<1> QED
  BY <1>1, <1>2

\* What Fit comes to for each kind.
LEMMA FitIs ==
    ASSUME NEW text \in Name, NEW sni \in Name, NEW k, k = Len(text) - 1
    PROVE  Fit(text, sni) =
              IF Wild(text)
              THEN IF Len(sni) > k /\ Lower(Tail(text)) = Lower(From(sni, Len(sni) - k + 1))
                   THEN k ELSE 0
              ELSE IF Lower(text) = Lower(sni) THEN Len(sni) + 1 ELSE 0
BY DEF Fit, Wild

LEMMA ScoresFall ==
    ASSUME NEW sni \in Name, NEW i \in DOMAIN sni
    PROVE  /\ Score(sni, i) \in Nat \ {0}
           /\ \A j \in DOMAIN sni : /\ i < j <=> Score(sni, j) < Score(sni, i)
                                    /\ i = j <=> Score(sni, j) = Score(sni, i)
<1>1. PICK n : n = Len(sni)
  OBVIOUS
<1>2. n \in Nat /\ DOMAIN sni = 1 .. n
  BY <1>1 DEF Name
<1> QED
  BY <1>1, <1>2 DEF Score

\* A name claims in round i exactly if it fits by the score of that round.
LEMMA RoundIsFit ==
    ASSUME NEW text \in Name, NEW sni \in Name, NEW i \in DOMAIN sni
    PROVE  Claimed(sni, i) = PatternOf(text) <=> Fit(text, sni) = Score(sni, i)
<1>1. PICK n : n = Len(sni)
  OBVIOUS
<1>2. PICK k : k = Len(text) - 1
  OBVIOUS
<1>3. n \in Nat /\ k \in Int /\ Len(text) \in Nat /\ i \in 1 .. n
  BY <1>1, <1>2 DEF Name
<1>4. CASE i = 1
  <2>1. Claimed(sni, i) = Exact(Lower(sni)) /\ Score(sni, i) = n + 1
    BY <1>1, <1>4 DEF Claimed, Score
  <2>2. CASE Wild(text)
    <3>1. Claimed(sni, i) # PatternOf(text)
      BY <2>1, <2>2, PatternIs, KindsDiffer
    <3>2. Fit(text, sni) = 0 \/ (n > k /\ Fit(text, sni) = k)
      BY <1>1, <1>2, <2>2, FitIs
    <3> QED
      BY <1>3, <2>1, <3>1, <3>2
  <2>3. CASE ~Wild(text)
    <3>1. Claimed(sni, i) = PatternOf(text) <=> Lower(text) = Lower(sni)
      BY <2>1, <2>3, PatternIs, KindsDiffer
    <3>2. Fit(text, sni) = IF Lower(text) = Lower(sni) THEN n + 1 ELSE 0
      BY <1>1, <1>2, <2>3, FitIs
    <3> QED
      BY <1>3, <2>1, <3>1, <3>2
  <2> QED
    BY <2>2, <2>3
<1>5. CASE i # 1
  <2>1. Claimed(sni, i) = Suffix(Lower(From(sni, i))) /\ Score(sni, i) = n - i + 1
    BY <1>1, <1>5 DEF Claimed, Score
  <2>2. CASE Wild(text)
    <3>1. Claimed(sni, i) = PatternOf(text) <=> Lower(Tail(text)) = Lower(From(sni, i))
      BY <2>1, <2>2, PatternIs, KindsDiffer
    <3>2. Fit(text, sni) = IF n > k /\ Lower(Tail(text)) = Lower(From(sni, n - k + 1))
                           THEN k ELSE 0
      BY <1>1, <1>2, <2>2, FitIs
    <3>3. Tail(text) \in Name /\ Len(Tail(text)) = k
      BY <1>2, <2>2, FromTwoIsTail DEF Name, Wild
    <3>4. From(sni, i) \in Name /\ Len(From(sni, i)) = n - i + 1
      BY <1>1, FromIsRest DEF Name
    <3>5. Lower(Tail(text)) = Lower(From(sni, i)) => k = n - i + 1
      BY <3>3, <3>4, LowerKeepsLength DEF Name
    <3>6. k = n - i + 1 => n - k + 1 = i /\ n > k /\ k # 0
      BY <1>3, <1>5
    <3>7. n - i + 1 # 0
      BY <1>3
    <3> QED
      BY <2>1, <3>1, <3>2, <3>5, <3>6, <3>7
  <2>3. CASE ~Wild(text)
    <3>1. Claimed(sni, i) # PatternOf(text)
      BY <2>1, <2>3, PatternIs, KindsDiffer
    <3>2. Fit(text, sni) = 0 \/ Fit(text, sni) = n + 1
      BY <1>1, <1>2, <2>3, FitIs
    <3> QED
      BY <1>3, <1>5, <2>1, <3>1, <3>2
  <2> QED
    BY <2>2, <2>3
<1> QED
  BY <1>4, <1>5

\* A name that fits at all claims in some round; Fit is a number.
LEMMA FitHasRound ==
    ASSUME NEW text \in Name, NEW sni \in Name, sni # <<>>
    PROVE  Fit(text, sni) = 0 \/ \E i \in DOMAIN sni : Fit(text, sni) = Score(sni, i)
<1>1. PICK n : n = Len(sni)
  OBVIOUS
<1>2. PICK k : k = Len(text) - 1
  OBVIOUS
<1>3. n \in Nat /\ n > 0 /\ DOMAIN sni = 1 .. n /\ k \in Int /\ Len(text) \in Nat
  BY <1>1, <1>2 DEF Name
<1>4. CASE Wild(text)
  <2>1. Fit(text, sni) = 0 \/ (n > k /\ Fit(text, sni) = k)
    BY <1>1, <1>2, <1>4, FitIs
  <2>2. k >= 1
    BY <1>2, <1>3, <1>4 DEF Wild
  <2>3. n > k => n - k + 1 \in DOMAIN sni /\ n - k + 1 # 1 /\ n - (n - k + 1) + 1 = k
    BY <1>3, <2>2
  <2> QED
    BY <1>1, <2>1, <2>3 DEF Score
<1>5. CASE ~Wild(text)
  <2>1. Fit(text, sni) = 0 \/ Fit(text, sni) = n + 1
    BY <1>1, <1>2, <1>5, FitIs
  <2> QED
    BY <1>1, <1>3, <2>1 DEF Score
<1> QED
  BY <1>4, <1>5

\* The ways the names of scope n fit sni.
Fits(n, sni) == {Fit(config.scopes[n].sni[j], sni) : j \in DOMAIN config.scopes[n].sni}

ClaimedBy(sni, i) == {n \in DOMAIN Scopes : Claimed(sni, i) \in Scopes[n].names}

LEMMA NamesFit ==
    ASSUME config \in RawConfig, NEW sni \in Name, sni # <<>>, NEW n \in DOMAIN config.scopes
    PROVE  /\ n \in Nat
           /\ \A i \in DOMAIN sni : n \in ClaimedBy(sni, i) <=> Score(sni, i) \in Fits(n, sni)
           /\ \A g \in Fits(n, sni) : g = 0 \/ \E i \in DOMAIN sni : g = Score(sni, i)
<1>1. /\ config.scopes \in Seq([sni : Seq(Name), allow : Seq(Members)])
  BY DEF RawConfig, Name
<1>2. n \in Nat /\ config.scopes[n] \in [sni : Seq(Name), allow : Seq(Members)]
  <2>1. n \in 1 .. Len(config.scopes)
    BY <1>1
  <2>2. n \in Nat
    BY <2>1
  <2>3. config.scopes[n] \in [sni : Seq(Name), allow : Seq(Members)]
    BY <1>1, <2>1, ElementOfSeq
  <2> QED
    BY <2>2, <2>3
<1>3. PICK texts : texts = config.scopes[n].sni
  OBVIOUS
<1>4. texts \in Seq(Name)
  BY <1>2, <1>3
<1>5. \A j \in DOMAIN texts : texts[j] \in Name
  BY <1>4
<1>6. n \in DOMAIN Scopes /\ Scopes[n].names = {PatternOf(texts[j]) : j \in DOMAIN texts}
  BY <1>3 DEF Scopes
<1>7. Fits(n, sni) = {Fit(texts[j], sni) : j \in DOMAIN texts}
  BY <1>3 DEF Fits
<1>8. ASSUME NEW i \in DOMAIN sni
      PROVE  n \in ClaimedBy(sni, i) <=> Score(sni, i) \in Fits(n, sni)
  <2>1. \A j \in DOMAIN texts : Claimed(sni, i) = PatternOf(texts[j])
                                <=> Fit(texts[j], sni) = Score(sni, i)
    BY <1>5, RoundIsFit
  <2>2. n \in ClaimedBy(sni, i) <=> \E j \in DOMAIN texts : Claimed(sni, i) = PatternOf(texts[j])
    BY <1>6 DEF ClaimedBy
  <2> QED
    BY <1>7, <2>1, <2>2
<1>9. \A g \in Fits(n, sni) : g = 0 \/ \E i \in DOMAIN sni : g = Score(sni, i)
  BY <1>5, <1>7, FitHasRound
<1> QED
  BY <1>2, <1>8, <1>9

LEMMA MinIsLeast ==
    ASSUME NEW T \in SUBSET Nat, NEW m \in T, \A y \in T : m <= y
    PROVE  Sets!Min(T) = m
<1>1. \A x \in T : (\A y \in T : x <= y) => x = m
  OBVIOUS
<1>2. \E x \in T : \A y \in T : x <= y
  OBVIOUS
<1> QED
  BY <1>1, <1>2 DEF Sets!Min

\* match_scopes picks the scope that claims the name: none if there is none, and
\* there is never more than one (config.rs 159-201).
LEMMA MatchIsClaim ==
    ASSUME config \in RawConfig, NEW sni \in Name, sni # <<>>,
           NEW m, m = MatchScopes(Scopes, sni)
    PROVE  \/ m = NoScope /\ \A n \in DOMAIN config.scopes : ~Claims(n, sni)
           \/ /\ m \in DOMAIN config.scopes
              /\ \A n \in DOMAIN config.scopes : Claims(n, sni) <=> n = m
<1>1. PICK D : D = DOMAIN config.scopes
  OBVIOUS
<1>2. DOMAIN Scopes = D /\ \A i : ClaimedBy(sni, i) \subseteq D
  BY <1>1 DEF Scopes, ClaimedBy
<1>3. PICK rounds : rounds = {i \in DOMAIN sni : ClaimedBy(sni, i) # {}}
  OBVIOUS
<1>4. m = IF rounds = {} THEN NoScope ELSE Sets!Min(ClaimedBy(sni, Sets!Min(rounds)))
  BY <1>3 DEF MatchScopes, ClaimedBy
<1>5. \A n \in D : /\ n \in Nat
                   /\ \A i \in DOMAIN sni : n \in ClaimedBy(sni, i) <=> Score(sni, i) \in Fits(n, sni)
                   /\ \A g \in Fits(n, sni) : g = 0 \/ \E i \in DOMAIN sni : g = Score(sni, i)
  BY <1>1, NamesFit
<1>6. \A n : Claims(n, sni) <=> \E f \in Fits(n, sni) \ {0} : \A i \in D :
                                   \A g \in Fits(i, sni) : g < f \/ (g = f /\ i >= n)
  BY <1>1 DEF Claims, Fits
<1>7. rounds \in SUBSET Nat /\ rounds \subseteq DOMAIN sni
  BY <1>3 DEF Name
\* A scope that claims is the first in the first round that finds any.
<1>8. ASSUME NEW n \in D, Claims(n, sni) PROVE rounds # {} /\ m = n
  <2>1. PICK f \in Fits(n, sni) \ {0} : \A i \in D : \A g \in Fits(i, sni) :
                                           g < f \/ (g = f /\ i >= n)
    BY <1>6, <1>8
  <2>2. PICK r \in DOMAIN sni : f = Score(sni, r)
    BY <1>5, <2>1
  <2>3. n \in ClaimedBy(sni, r) /\ r \in rounds
    BY <1>3, <1>5, <2>1, <2>2
  <2>4. ASSUME NEW s \in rounds PROVE r <= s
    <3>1. PICK i \in D : i \in ClaimedBy(sni, s)
      BY <1>2, <1>3
    <3>2. s \in DOMAIN sni /\ Score(sni, s) \in Fits(i, sni)
      BY <1>5, <1>7, <3>1
    <3>3. Score(sni, s) < Score(sni, r) \/ Score(sni, s) = Score(sni, r)
      BY <2>1, <2>2, <3>2
    <3>4. r < s \/ r = s
      BY <3>2, <3>3, ScoresFall
    <3>5. r \in Nat /\ s \in Nat
      BY <1>7, <2>3
    <3> QED
      BY <3>4, <3>5
  <2>5. Sets!Min(rounds) = r
    BY <1>7, <2>3, <2>4, MinIsLeast
  <2>6. ASSUME NEW i \in ClaimedBy(sni, r) PROVE n <= i
    <3>1. i \in D /\ i \in Nat /\ n \in Nat
      BY <1>2, <1>5
    <3>2. f \in Fits(i, sni)
      BY <1>5, <2>2, <3>1
    <3>3. f \in Nat
      BY <2>2, ScoresFall
    <3>4. i >= n
      BY <2>1, <3>1, <3>2, <3>3
    <3> QED
      BY <3>1, <3>4
  <2>7. ClaimedBy(sni, r) \in SUBSET Nat
    BY <1>2, <1>5
  <2>8. Sets!Min(ClaimedBy(sni, r)) = n
    BY <2>3, <2>6, <2>7, MinIsLeast
  <2> QED
    BY <1>4, <2>3, <2>5, <2>8
\* What the first round that finds any scope picks, claims.
<1>9. ASSUME rounds # {} PROVE m \in D /\ Claims(m, sni)
  <2>1. PICK r \in rounds : \A s \in rounds : r <= s
    BY <1>7, <1>9, LeastNatural
  <2>2. ClaimedBy(sni, r) \in SUBSET Nat /\ ClaimedBy(sni, r) # {}
    BY <1>2, <1>3, <1>5
  <2>3. PICK n \in ClaimedBy(sni, r) : \A i \in ClaimedBy(sni, r) : n <= i
    BY <2>2, LeastNatural
  <2>4. Sets!Min(rounds) = r
    BY <1>7, <2>1, MinIsLeast
  <2>5. Sets!Min(ClaimedBy(sni, r)) = n
    BY <2>2, <2>3, MinIsLeast
  <2>6. m = n /\ n \in D /\ n \in Nat
    BY <1>2, <1>4, <1>5, <1>9, <2>4, <2>5
  <2>7. PICK f : f = Score(sni, r)
    OBVIOUS
  <2>8. r \in DOMAIN sni /\ f \in Nat \ {0} /\ f \in Fits(n, sni)
    BY <1>5, <1>7, <2>6, <2>7, ScoresFall
  <2>9. ASSUME NEW i \in D, NEW g \in Fits(i, sni) PROVE g < f \/ (g = f /\ i >= n)
    <3>1. CASE g = 0
      BY <2>8, <3>1
    <3>2. CASE g # 0
      <4>1. PICK s \in DOMAIN sni : g = Score(sni, s)
        BY <1>5, <3>2
      <4>2. i \in ClaimedBy(sni, s) /\ s \in rounds
        BY <1>3, <1>5, <4>1
      <4>3. r <= s /\ r \in Nat /\ s \in Nat
        BY <1>7, <2>1, <4>2
      <4>4. CASE r < s
        BY <2>7, <2>8, <4>1, <4>4, ScoresFall
      <4>5. CASE r = s
        <5>1. n <= i /\ i \in Nat
          BY <1>5, <2>3, <4>2, <4>5
        <5> QED
          BY <2>6, <2>7, <4>1, <4>5, <5>1
      <4> QED
        BY <4>3, <4>4, <4>5
    <3> QED
      BY <3>1, <3>2
  <2> QED
    BY <1>6, <2>6, <2>8, <2>9
<1>10. CASE rounds = {}
  BY <1>1, <1>4, <1>8, <1>10
<1>11. CASE rounds # {}
  BY <1>1, <1>8, <1>9, <1>11
<1> QED
  BY <1>10, <1>11

-----------------------------------------------------------------------------
(* The expansion: the walk, the lists and the merge loop together.  While  *)
(* a list is merged its walk is over, so that what was collected -- and    *)
(* then encoded into raw -- is what the list stands for.                   *)

ListsOK ==
    /\ config \in RawConfig
    /\ sets \in Seq({SetOf(rs) : rs \in Seq(Span)})
    /\ ranges \in Seq(Span)
    /\ \A r \in raw : r \in Span /\ r.start <= r.end

ExpInv ==
    /\ WalkInv
    /\ ListsOK
    /\ phase = "merge" => stack = <<>>
    /\ MergeKeepsCover

LEMMA ExpInvInit == Init => ExpInv
<1> SUFFICES ASSUME Init PROVE ExpInv
  OBVIOUS
<1>1. config \in RawConfig /\ IsGraph(groups)
  BY InputAssumption DEF Init
<1>2. config.allow \in Seq(Members)
  BY <1>1 DEF RawConfig
<1>3. WalkInv
  BY <1>1, <1>2, WalkInvAtStart DEF Init, Begun
<1>4. ListsOK
  BY <1>1 DEF Init, ListsOK
<1> QED
  BY <1>3, <1>4 DEF Init, ExpInv, MergeKeepsCover

\* The encodings of a member are prefixes whose width fits.
LEMMA EncodedFits ==
    ASSUME NEW m \in Members, NEW p \in Encoded(m)
    PROVE  p \in Prefix /\ ~BadWidth(p)
<1>1. CASE m = AllSites
  BY <1>1, EncodeAssumption DEF Encoded
<1>2. CASE m # AllSites
  BY <1>2, EncodeAssumption DEF Encoded
<1> QED
  BY <1>1, <1>2

LEMMA EncodeListKeeps == ExpInv /\ EncodeList => ExpInv'
<1> SUFFICES ASSUME ExpInv, EncodeList PROVE ExpInv'
  OBVIOUS
<1> DEFINE got == {out[i] : i \in DOMAIN out}
<1>1. /\ stack = <<>> /\ phase' = "merge" /\ ranges' = <<>>
      /\ raw' = {RangeOf(p) : p \in UNION {Encoded(out[i]) : i \in DOMAIN out}}
      /\ UNCHANGED walkVars /\ config' = config /\ sets' = sets
  BY DEF EncodeList
<1>2. got = Leaves(entry)
  BY <1>1, WalkInvIsEnough DEF ExpInv, WalkIsClosure
<1>3. WalkInv' /\ stack' = <<>> /\ groups' = groups /\ entry' = entry
  BY <1>1, WalkInvStays DEF ExpInv, walkVars
<1>4. Leaves(entry)' = Leaves(entry)
  BY <1>3, ClosureStays
<1>5. \A x : x \in raw' <=> \E m \in got : \E p \in Encoded(m) : x = RangeOf(p)
  BY <1>1
<1>6. got \subseteq Members
  BY <1>2 DEF Leaves
<1>7. \A x \in raw' : x \in Span /\ x.start <= x.end
  BY <1>5, <1>6, EncodedFits, RangeIsSpan
<1>8. ListsOK'
  BY <1>1, <1>7 DEF ExpInv, ListsOK
<1>9. \A a : CoveredBy(Leaves(entry), a)' <=> \E x \in raw' : Covers(x, a)
  BY <1>2, <1>4, <1>5 DEF CoveredBy, Encoded
<1>10. DOMAIN ranges' = {} /\ 1 .. Len(ranges') - 1 = {}
  BY <1>1
<1>11. MergeKeepsCover'
  BY <1>1, <1>9, <1>10 DEF MergeKeepsCover
<1> QED
  BY <1>3, <1>8, <1>11 DEF ExpInv

LEMMA MergeNextKeeps == ExpInv /\ MergeNext => ExpInv'
<1> SUFFICES ASSUME ExpInv, MergeNext PROVE ExpInv'
  OBVIOUS
<1>1. /\ phase = "merge" /\ phase' = phase /\ stack = <<>>
      /\ UNCHANGED walkVars /\ config' = config /\ sets' = sets
  BY DEF MergeNext, ExpInv
<1>2. PICK r \in raw : /\ \A x \in raw : r.start <= x.start
                       /\ ranges' = MergeInto(ranges, r)
                       /\ raw' = raw \ {r}
  BY DEF MergeNext
<1>3. /\ ranges \in Seq(Span) /\ r \in Span /\ r.start <= r.end
      /\ \A x \in raw : x \in Span /\ x.start <= x.end
  BY DEF ExpInv, ListsOK
<1>4. /\ Ordered(ranges)
      /\ ranges # <<>> => ranges[Len(ranges)].start <= r.start
      /\ \A a \in Addresses : CoveredBy(Leaves(entry), a) <=>
            (\E x \in raw : Covers(x, a)) \/ CoveredIn(ranges, a)
  BY <1>1 DEF ExpInv, MergeKeepsCover, Ordered, CoveredIn
<1>5. PICK q : q = ranges'
  OBVIOUS
<1>6. /\ q \in Seq(Span) /\ q # <<>> /\ Ordered(q) /\ q[Len(q)].start <= r.start
      /\ \A a \in Int : CoveredIn(q, a) <=> CoveredIn(ranges, a) \/ Covers(r, a)
  BY <1>2, <1>3, <1>4, <1>5, MergeIntoKeeps
<1>7. WalkInv' /\ stack' = <<>> /\ groups' = groups /\ entry' = entry
  BY <1>1, WalkInvStays DEF ExpInv, walkVars
<1>8. Leaves(entry)' = Leaves(entry)
  BY <1>7, ClosureStays
<1>9. ListsOK'
  BY <1>1, <1>2, <1>3, <1>5, <1>6 DEF ExpInv, ListsOK
<1>10. ASSUME NEW x \in raw' PROVE q[Len(q)].start <= x.start
  <2>1. x \in Span /\ r.start <= x.start
    BY <1>2, <1>3
  <2>2. q[Len(q)] \in Span
    BY <1>6
  <2> QED
    BY <1>3, <1>6, <2>1, <2>2 DEF Span
<1>11. ASSUME NEW a \in Addresses
       PROVE  CoveredBy(Leaves(entry), a)' <=>
                  (\E x \in raw' : Covers(x, a)) \/ CoveredIn(q, a)
  <2>1. CoveredBy(Leaves(entry), a)' <=> CoveredBy(Leaves(entry), a)
    BY <1>8 DEF CoveredBy, Encoded
  <2>2. a \in Int
    BY DEF Addresses
  <2>3. (\E x \in raw : Covers(x, a)) <=> (\E x \in raw' : Covers(x, a)) \/ Covers(r, a)
    BY <1>2
  <2> QED
    BY <1>4, <1>6, <2>1, <2>2, <2>3
<1>12. MergeKeepsCover'
  BY <1>5, <1>6, <1>10, <1>11 DEF MergeKeepsCover, Ordered, CoveredIn
<1> QED
  BY <1>7, <1>9, <1>12 DEF ExpInv

LEMMA FinishListKeeps == ExpInv /\ FinishList => ExpInv'
<1> SUFFICES ASSUME ExpInv, FinishList PROVE ExpInv'
  OBVIOUS
<1>1. /\ sets' = Append(sets, SetOf(ranges)) /\ config' = config
      /\ raw' = raw /\ ranges' = ranges /\ phase' # "merge"
  BY DEF FinishList
<1>2. config \in RawConfig /\ ranges \in Seq(Span)
      /\ sets \in Seq({SetOf(rs) : rs \in Seq(Span)})
  BY DEF ExpInv, ListsOK
<1>3. Append(sets, SetOf(ranges)) \in Seq({SetOf(rs) : rs \in Seq(Span)})
  BY <1>2
<1>4. ListsOK'
  BY <1>1, <1>2, <1>3 DEF ExpInv, ListsOK
<1>5. CASE Len(sets) < Len(config.scopes)
  <2>1. Resolve(ListOf(Len(sets) + 1))
    BY <1>5 DEF FinishList
  <2>2. ListOf(Len(sets) + 1) \in Seq(Members)
    <3>1. PICK k : k = Len(sets) + 1
      OBVIOUS
    <3>2. config.scopes \in Seq([sni : Seq(Seq(DOMAIN LowerOf)), allow : Seq(Members)])
      BY <1>2 DEF RawConfig
    <3>3. Len(sets) \in Nat /\ Len(config.scopes) \in Nat
      BY <1>2, <3>2
    <3>4. k # 0 /\ k \in 1 .. Len(config.scopes)
      BY <1>5, <3>1, <3>3
    <3>5. config.scopes[k] \in [sni : Seq(Seq(DOMAIN LowerOf)), allow : Seq(Members)]
      BY <3>2, <3>4, ElementOfSeq
    <3> QED
      BY <3>1, <3>4, <3>5 DEF ListOf
  <2>3. WalkInv'
    BY <2>1, <2>2, WalkInvResolved DEF ExpInv
  <2> QED
    BY <1>1, <1>4, <2>3 DEF ExpInv, MergeKeepsCover
<1>6. CASE ~(Len(sets) < Len(config.scopes))
  <2>1. WalkInv'
    BY <1>6, WalkInvStays DEF ExpInv, FinishList
  <2> QED
    BY <1>1, <1>4, <2>1 DEF ExpInv, MergeKeepsCover
<1> QED
  BY <1>5, <1>6

LEMMA ExpInvNext == ExpInv /\ [Next]_vars => ExpInv'
<1>1. ASSUME ExpInv, Walk PROVE ExpInv'
  <2>1. WalkInv'
    BY <1>1, WalkInvStep DEF ExpInv, Walk
  <2> QED
    BY <1>1, <2>1 DEF ExpInv, ListsOK, MergeKeepsCover, Walk, listVars
<1>2. ASSUME ExpInv, UNCHANGED vars PROVE ExpInv'
  <2>1. /\ groups' = groups /\ entry' = entry /\ stack' = stack /\ phase' = phase
        /\ raw' = raw /\ ranges' = ranges /\ UNCHANGED walkVars /\ UNCHANGED listVars
    BY <1>2 DEF vars, walkVars, listVars
  <2>2. WalkInv'
    BY <1>2, <2>1, WalkInvStays DEF ExpInv
  <2>3. Leaves(entry)' = Leaves(entry)
    BY <2>1, ClosureStays
  <2>4. \A a : CoveredBy(Leaves(entry), a)' <=> CoveredBy(Leaves(entry), a)
    BY <2>3 DEF CoveredBy, Encoded
  <2>5. MergeKeepsCover'
    BY <1>2, <2>1, <2>4 DEF ExpInv, MergeKeepsCover
  <2> QED
    BY <1>2, <2>1, <2>2, <2>5 DEF ExpInv, ListsOK, listVars
<1> QED
  BY <1>1, <1>2, EncodeListKeeps, MergeNextKeeps, FinishListKeeps DEF Next

LEMMA ExpInvariance == Spec => []ExpInv
BY ExpInvInit, ExpInvNext, PTL DEF Spec

\* For every group graph and every list: the walk never strays from the closure of
\* the list nor loses a leaf of it, and at its end has collected exactly its leaves
\* (graph.rs 29-51).
THEOREM WalkAlwaysClosure == Spec => []WalkIsClosure
<1>1. ExpInv => WalkIsClosure
  BY WalkInvIsEnough DEF ExpInv
<1> QED
  BY <1>1, ExpInvariance, PTL

\* For every address width, every list and every order of ranges of equal start:
\* the ranges merged so far are sorted and disjoint, and with those not merged yet
\* cover exactly what the list covers (cidr.rs 86-116).
THEOREM MergeAlwaysKeepsCover == Spec => []MergeKeepsCover
<1>1. ExpInv => MergeKeepsCover
  BY DEF ExpInv
<1> QED
  BY <1>1, ExpInvariance, PTL

-----------------------------------------------------------------------------
(* From list to list.  The list being walked or merged is the next one,    *)
(* and the set of every list done is sorted and covers what the list does. *)

ListDone(n) ==
    LET rs == sets[n + 1].ranges IN
    /\ sets[n + 1] = SetOf(rs)
    /\ rs \in Seq(Span) /\ Ordered(rs)
    /\ \A a \in Addresses : CoveredIn(rs, a) <=> CoveredBy(Leaves(ListOf(n)), a)

ListsDone ==
    /\ phase \in {"walk", "merge", "judged"}
    /\ IF phase = "judged" THEN Len(sets) = Len(config.scopes) + 1
       ELSE Len(sets) <= Len(config.scopes) /\ entry = ListOf(Len(sets))
    /\ \A n \in 0 .. Len(sets) - 1 : ListDone(n)

LEMMA LeavesStay ==
    ASSUME groups' = groups, config' = config, NEW n
    PROVE  Leaves(ListOf(n))' = Leaves(ListOf(n))
<1>1. ListOf(n)' = ListOf(n)
  BY DEF ListOf
<1>2. Reached(ListOf(n))' = Reached(ListOf(n))
  BY <1>1 DEF Reached, ClosedUnder
<1> QED
  BY <1>1, <1>2 DEF Leaves

LEMMA ListDoneStays ==
    ASSUME groups' = groups, config' = config, NEW n, ListDone(n),
           sets'[n + 1] = sets[n + 1]
    PROVE  ListDone(n)'
<1>1. Leaves(ListOf(n))' = Leaves(ListOf(n))
  BY LeavesStay
<1>2. \A a : CoveredBy(Leaves(ListOf(n)), a)' <=> CoveredBy(Leaves(ListOf(n)), a)
  BY <1>1 DEF CoveredBy, Encoded
<1> QED
  BY <1>2 DEF ListDone

\* Steps that leave the lists done alone.
LEMMA ListsDoneStay ==
    ASSUME ListsDone, groups' = groups, config' = config, sets' = sets, entry' = entry,
           phase' \in {"walk", "merge", "judged"}, phase' = "judged" <=> phase = "judged"
    PROVE  ListsDone'
<1>1. \A n \in 0 .. Len(sets) - 1 : ListDone(n)'
  BY ListDoneStays DEF ListsDone
<1> QED
  BY <1>1 DEF ListsDone, ListOf

LEMMA FinishListIsDone == ExpInv /\ ListsDone /\ FinishList => ListsDone'
<1> SUFFICES ASSUME ExpInv, ListsDone, FinishList PROVE ListsDone'
  OBVIOUS
<1>1. PICK k : k = Len(sets)
  OBVIOUS
<1>2. /\ phase = "merge" /\ raw = {} /\ sets' = Append(sets, SetOf(ranges))
      /\ config' = config /\ groups' = groups
  BY DEF FinishList, Resolve, walkVars
<1>3. sets \in Seq({SetOf(rs) : rs \in Seq(Span)}) /\ ranges \in Seq(Span) /\ config \in RawConfig
  BY DEF ExpInv, ListsOK
<1>4. k \in Nat /\ Len(sets') = k + 1 /\ sets'[k + 1] = SetOf(ranges)
      /\ \A n \in 0 .. k - 1 : sets'[n + 1] = sets[n + 1]
  BY <1>1, <1>2, <1>3
<1>5. entry = ListOf(k) /\ k <= Len(config.scopes) /\ Len(config.scopes) \in Nat
  BY <1>1, <1>2, <1>3 DEF ListsDone, RawConfig
<1>6. ListDone(k)'
  <2>1. Ordered(ranges)
    BY <1>2 DEF ExpInv, MergeKeepsCover, Ordered
  <2>2. \A a \in Addresses : CoveredIn(ranges, a) <=> CoveredBy(Leaves(entry), a)
    BY <1>2 DEF ExpInv, MergeKeepsCover, CoveredIn
  <2>3. Leaves(ListOf(k))' = Leaves(entry)
    BY <1>2, <1>5, LeavesStay
  <2>4. \A a \in Addresses : CoveredBy(Leaves(ListOf(k)), a)' <=> CoveredBy(Leaves(entry), a)
    BY <2>3 DEF CoveredBy, Encoded
  <2>5. SetOf(ranges).ranges = ranges
    BY DEF SetOf
  <2>6. sets[k + 1]' = SetOf(ranges)
    BY <1>4
  <2> QED
    BY <1>3, <2>1, <2>2, <2>4, <2>5, <2>6 DEF ListDone
<1>7. \A n \in 0 .. k - 1 : ListDone(n)'
  <2>1. \A n \in 0 .. k - 1 : ListDone(n)
    BY <1>1 DEF ListsDone
  <2> QED
    BY <1>2, <1>4, <2>1, ListDoneStays
<1>8. \A n \in 0 .. Len(sets') - 1 : ListDone(n)'
  <2>1. \A n \in 0 .. Len(sets') - 1 : n \in 0 .. k - 1 \/ n = k
    BY <1>4
  <2> QED
    BY <1>6, <1>7, <2>1
<1>9. CASE k < Len(config.scopes)
  <2>1. phase' = "walk" /\ entry' = ListOf(k + 1)
    BY <1>1, <1>9 DEF FinishList, Resolve
  <2>2. ListOf(k + 1)' = ListOf(k + 1)
    BY <1>2 DEF ListOf
  <2> QED
    BY <1>2, <1>4, <1>5, <1>8, <1>9, <2>1, <2>2 DEF ListsDone, ListOf
<1>10. CASE ~(k < Len(config.scopes))
  <2>1. phase' = "judged"
    BY <1>1, <1>10 DEF FinishList
  <2> QED
    BY <1>2, <1>4, <1>5, <1>8, <1>10, <2>1 DEF ListsDone
<1> QED
  BY <1>9, <1>10

LEMMA ListsDoneNext == ExpInv /\ ListsDone /\ [Next]_vars => ListsDone'
<1> SUFFICES ASSUME ExpInv, ListsDone, [Next]_vars PROVE ListsDone'
  OBVIOUS
<1>1. CASE Walk
  <2>1. groups' = groups /\ entry' = entry
    BY <1>1 DEF Walk, Visit, Expand, Skip, Collect
  <2> QED
    BY <1>1, <2>1, ListsDoneStay DEF Walk, listVars
<1>2. CASE EncodeList
  BY <1>2, ListsDoneStay DEF EncodeList, walkVars
<1>3. CASE MergeNext
  BY <1>3, ListsDoneStay DEF MergeNext, walkVars
<1>4. CASE FinishList
  BY <1>4, FinishListIsDone
<1>5. CASE UNCHANGED vars
  BY <1>5, ListsDoneStay DEF vars, walkVars, listVars, ListsDone
<1> QED
  BY <1>1, <1>2, <1>3, <1>4, <1>5 DEF Next

LEMMA ListsDoneInit == Init => ListsDone
<1> SUFFICES ASSUME Init PROVE ListsDone
  OBVIOUS
<1>1. config \in RawConfig /\ sets = <<>> /\ entry = config.allow /\ phase = "walk"
  BY InputAssumption DEF Init
<1>2. Len(sets) = 0 /\ Len(config.scopes) \in Nat
  BY <1>1 DEF RawConfig
<1>3. 0 .. Len(sets) - 1 = {}
  BY <1>2
<1> QED
  BY <1>1, <1>2, <1>3 DEF ListsDone, ListOf

\* What the lists done come to is what the rules mean.
LEMMA DoneIsMeant == ExpInv /\ ListsDone => RulesMeanWhatTheySay
<1> SUFFICES ASSUME ExpInv, ListsDone, NEW sni \in ServerNames, NEW a \in Addresses
             PROVE  Permits(sni, a) <=>
                      /\ phase = "judged"
                      /\ IF config.scoped
                         THEN \E n \in DOMAIN config.scopes :
                                 Claims(n, sni) /\ CoveredBy(Leaves(ListOf(n)), a)
                         ELSE CoveredBy(Leaves(config.allow), a)
  BY DEF RulesMeanWhatTheySay
<1>1. config \in RawConfig /\ a \in Int
  BY DEF ExpInv, ListsOK, Addresses
<1>2. sni \in Name /\ sni # <<>>
  BY InputAssumption DEF Name
<1>3. CASE phase = "judged"
  <2>1. Judged.scopes = Scopes /\ Judged.sets = sets
    BY <1>3 DEF Judged
  <2>2. PICK k : k = Len(config.scopes)
    OBVIOUS
  <2>3. k \in Nat /\ DOMAIN config.scopes = 1 .. k /\ Len(sets) = k + 1
    BY <1>1, <1>3, <2>2 DEF RawConfig, ListsDone
  <2>4. ASSUME NEW n \in 0 .. k
        PROVE  SetContains(sets[n + 1], a) <=> CoveredBy(Leaves(ListOf(n)), a)
    <3>1. ListDone(n)
      BY <2>3 DEF ListsDone
    <3>2. PICK rs : rs = sets[n + 1].ranges
      OBVIOUS
    <3>3. /\ sets[n + 1] = SetOf(rs) /\ rs \in Seq(Span) /\ Ordered(rs)
          /\ CoveredIn(rs, a) <=> CoveredBy(Leaves(ListOf(n)), a)
      BY <3>1, <3>2 DEF ListDone
    <3> QED
      BY <1>1, <3>3, ContainsIsCovered
  <2>5. CASE config.scoped
    <3>1. PICK m : m = MatchScopes(Scopes, sni)
      OBVIOUS
    <3>2. Permits(sni, a) <=> m # NoScope /\ SetContains(sets[m + 1], a)
      BY <2>1, <2>5, <3>1 DEF Permits
    <3>3. CASE m = NoScope
      <4>1. m \notin DOMAIN config.scopes
        BY <2>3, <3>3, NoScopeAssumption
      <4>2. \A n \in DOMAIN config.scopes : ~Claims(n, sni)
        BY <1>1, <1>2, <3>1, <4>1, MatchIsClaim
      <4> QED
        BY <1>3, <2>5, <3>2, <3>3, <4>2
    <3>4. CASE m # NoScope
      <4>1. /\ m \in DOMAIN config.scopes
            /\ \A n \in DOMAIN config.scopes : Claims(n, sni) <=> n = m
        BY <1>1, <1>2, <3>1, <3>4, MatchIsClaim
      <4>2. m \in 0 .. k
        BY <2>3, <4>1
      <4>3. SetContains(sets[m + 1], a) <=> CoveredBy(Leaves(ListOf(m)), a)
        BY <2>4, <4>2
      <4> QED
        BY <1>3, <2>5, <3>2, <3>4, <4>1, <4>3
    <3> QED
      BY <3>3, <3>4
  <2>6. CASE ~config.scoped
    <3>1. 0 # NoScope /\ 0 \in 0 .. k
      BY <2>3, NoScopeAssumption
    <3>2. Permits(sni, a) <=> SetContains(sets[0 + 1], a)
      BY <2>1, <2>6, <3>1 DEF Permits
    <3>3. ListOf(0) = config.allow
      BY DEF ListOf
    <3> QED
      BY <1>3, <2>4, <2>6, <3>1, <3>2, <3>3
  <2> QED
    BY <2>5, <2>6
<1>4. CASE phase # "judged"
  <2>1. Judged.scopes = <<>> /\ Judged.sets = <<DefaultSet>>
    BY <1>4 DEF Judged
  <2>2. MatchScopes(<<>>, sni) = NoScope
    <3>1. \A i : {n \in DOMAIN <<>> : Claimed(sni, i) \in <<>>[n].names} = {}
      OBVIOUS
    <3> QED
      BY <3>1 DEF MatchScopes
  <2>3. CASE config.scoped
    BY <1>4, <2>1, <2>2, <2>3 DEF Permits
  <2>4. CASE ~config.scoped
    <3>1. Permits(sni, a) => SetContains(<<DefaultSet>>[0 + 1], a)
      BY <2>1, <2>4 DEF Permits
    <3>2. <<DefaultSet>>[0 + 1] = DefaultSet
      OBVIOUS
    <3> QED
      BY <1>4, <3>1, <3>2, DefaultContainsNothing
  <2> QED
    BY <2>3, <2>4
<1> QED
  BY <1>3, <1>4

\* For every group graph, every Config, every address width, every encoding of
\* members, every server name: once expanded, the rules permit exactly what the
\* list that governs the name leads to; before, nothing (config.rs 54-70, 112-201,
\* 230-249, cidr.rs 48-116).
THEOREM RulesAlwaysMeanWhatTheySay == Spec => []RulesMeanWhatTheySay
<1>1. Spec => [](ExpInv /\ ListsDone)
  BY ExpInvInit, ExpInvNext, ListsDoneInit, ListsDoneNext, PTL DEF Spec
<1> QED
  BY <1>1, DoneIsMeant, PTL

=============================================================================
