------------------------------- MODULE Groups -------------------------------
(***************************************************************************)
(* The group graph behind @refs (src/graph.rs).                            *)
(*                                                                         *)
(* A member is a literal, or the name of a group, which stands for "@name".*)
(* The recursion of walk is kept as the stack of members it still has to   *)
(* visit, the next one first.  One seen-set serves all entries of a list.  *)
(***************************************************************************)
EXTENDS Integers, Sequences

CONSTANTS
    Literals,       \* sources as authored: addresses, labels, "!N", "!*"
    Names           \* names an @ref can carry, of groups that exist or not

ASSUME NamesAssumption == Names \intersect Literals = {}

Members == Literals \union Names

VARIABLES
    groups,     \* the groups there are, with their member lists
    entry,      \* the list being resolved
    stack,      \* members still to be walked
    out,        \* literals collected
    seen        \* groups expanded on this walk

walkVars == <<groups, entry, stack, out, seen>>

\* Any member list is accepted: cycles, repetitions, names of no group.
IsGraph(g) == DOMAIN g \subseteq Names /\ g \in [DOMAIN g -> Seq(Members)]

WalkTypeOK ==
    /\ IsGraph(groups)
    /\ entry \in Seq(Members)
    /\ stack \in Seq(Members)
    /\ out \in Seq(Members)
    /\ seen \in SUBSET DOMAIN groups

-----------------------------------------------------------------------------

\* Graph::resolve begins: a fresh seen-set for the list.
Resolve(list) ==
    /\ entry' = list
    /\ stack' = list
    /\ out' = <<>>
    /\ seen' = {}
    /\ UNCHANGED groups

\* A known group not seen yet: its members come next.
Expand(m) ==
    /\ m \in DOMAIN groups \ seen
    /\ seen' = seen \union {m}
    /\ stack' = groups[m] \o Tail(stack)
    /\ UNCHANGED <<groups, entry, out>>

\* A variant with one mistake, to show that it is noticed: a reference
\* met again waits for its group.
SkipWaits(m) ==
    /\ m \in seen
    /\ UNCHANGED walkVars

\* A group already expanded on this walk: how a cycle ends.
Skip(m) ==
    /\ m \in seen
    /\ stack' = Tail(stack)
    /\ UNCHANGED <<groups, entry, out, seen>>

\* A variant with one mistake: a reference to no group is dropped.
CollectKnown(m) ==
    /\ m \notin DOMAIN groups
    /\ out' = IF m \in Names THEN out ELSE Append(out, m)
    /\ stack' = Tail(stack)
    /\ UNCHANGED <<groups, entry, seen>>

\* A literal, or a reference to no group, which is a label like any other.
Collect(m) ==
    /\ m \notin DOMAIN groups
    /\ out' = Append(out, m)
    /\ stack' = Tail(stack)
    /\ UNCHANGED <<groups, entry, seen>>

Visit ==
    /\ stack # <<>>
    /\ Expand(Head(stack)) \/ Skip(Head(stack)) \/ Collect(Head(stack))

-----------------------------------------------------------------------------

In(m, s) == \E i \in DOMAIN s : s[i] = m

\* Groups S hold every group that list, or a group of S, refers to.
ClosedUnder(list, S) ==
    \A n \in DOMAIN groups :
        (In(n, list) \/ \E g \in S : In(n, groups[g])) => n \in S

\* The groups a list reaches: the least closed set of them.
Reached(list) ==
    {n \in DOMAIN groups :
        \A S \in SUBSET DOMAIN groups : ClosedUnder(list, S) => n \in S}

\* What a list stands for: the members of it and of the groups it reaches that
\* are no group.
Leaves(list) ==
    {m \in Members \ DOMAIN groups :
        In(m, list) \/ \E g \in Reached(list) : In(m, groups[g])}

\* THE WALK IS THE CLOSURE.  Whatever the shape of the graph -- cycles, shared
\* groups, names of no group -- the walk keeps nothing it should not, drops
\* nothing still wanted, and at its end has collected exactly the leaves of the
\* list and expanded exactly the groups it reaches (graph.rs 29-51).
WalkIsClosure ==
    /\ seen \subseteq Reached(entry)
    /\ \A m \in Leaves(entry) :
          In(m, out) \/ In(m, stack)
          \/ \E n \in DOMAIN groups \ seen : In(m, groups[n])
    /\ stack = <<>> =>
          /\ {out[i] : i \in DOMAIN out} = Leaves(entry)
          /\ seen = Reached(entry)

=============================================================================
