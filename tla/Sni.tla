-------------------------------- MODULE Sni ---------------------------------
(***************************************************************************)
(* Server names and the scopes that claim them (src/config.rs).  A name is *)
(* the sequence of its labels, split at the dots; the empty name is one    *)
(* empty label.                                                            *)
(***************************************************************************)
EXTENDS Integers, Sequences
Sets == INSTANCE FiniteSetsExt

CONSTANTS
    LowerOf,        \* LowerOf[l]: label l in lower case
    Star,           \* the label "*"
    Empty,          \* the empty label
    NoScope         \* None

ASSUME NoScopeAssumption == NoScope \notin Nat

Lower(name) == [i \in DOMAIN name |-> LowerOf[name[i]]]
From(name, i) == SubSeq(name, i, Len(name))

Exact(name) == [kind |-> "exact", name |-> name]
Suffix(name) == [kind |-> "suffix", name |-> name]

\* Pattern::parse: only a whole leading "*." with something behind it is a
\* wildcard.
PatternOf(text) ==
    IF Len(text) > 1 /\ text[1] = Star /\ From(text, 2) # <<Empty>>
    THEN Suffix(Lower(From(text, 2)))
    ELSE Exact(Lower(text))

\* What a pattern must be to claim sni in round i of match_scopes: the whole
\* name, then what follows its first dot, its second, ...
Claimed(sni, i) ==
    IF i = 1 THEN Exact(Lower(sni)) ELSE Suffix(Lower(From(sni, i)))

\* A variant with one mistake, to show that it is noticed: the first scope with
\* any pattern that fits.
MatchScopesInOrder(scopes, sni) ==
    LET fit == {n \in DOMAIN scopes : \E i \in DOMAIN sni :
                   Claimed(sni, i) \in scopes[n].names} IN
    IF fit = {} THEN NoScope ELSE Sets!Min(fit)

\* match_scopes: exact first, then wildcards longest suffix first; among equals
\* the first scope.
MatchScopes(scopes, sni) ==
    LET Fit(i) == {n \in DOMAIN scopes : Claimed(sni, i) \in scopes[n].names}
        rounds == {i \in DOMAIN sni : Fit(i) # {}}
    IN IF rounds = {} THEN NoScope ELSE Sets!Min(Fit(Sets!Min(rounds)))

=============================================================================
