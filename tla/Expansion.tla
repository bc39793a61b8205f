----------------------------- MODULE Expansion ------------------------------
(***************************************************************************)
(* Expanding a Config against a table: Config::judge_against, and          *)
(* Judged::permits on the result (src/config.rs, over graph.rs, cidr.rs).  *)
(*                                                                         *)
(* One list after the other -- the flat allow list, then each scope's --   *)
(* is walked through the groups, encoded, and merged into a set of ranges. *)
(* sort_unstable leaves ranges of equal start in any order: the merge loop *)
(* takes any range with the least start.  How a literal is encoded under   *)
(* the table's scheme is Encode, the subject of Scheme; it always succeeds,*)
(* so the Err of judge_against never comes from here.                      *)
(***************************************************************************)
EXTENDS Groups, Cidr, Sni

CONSTANTS
    AllSites,       \* the literal "!*"
    SiteSpaces,     \* encode_all_sites: the prefixes of the declared sites
    Encode(_),      \* encode_member: the prefix of any other literal
    GroupGraphs,    \* inputs: the groups of a table
    RawConfigs,     \* inputs: the rules of a Config
    ServerNames     \* server names a client can ask for

ASSUME EncodeAssumption ==
    /\ AllSites \in Literals
    /\ \A p \in SiteSpaces \union {Encode(m) : m \in Members \ {AllSites}} :
          p \in Prefix /\ ~BadWidth(p)

\* A Config as authored: a flat list, or scopes with their names and lists.
RawConfig == [scoped : BOOLEAN, allow : Seq(Members),
              scopes : Seq([sni : Seq(Seq(DOMAIN LowerOf)), allow : Seq(Members)])]

ASSUME InputAssumption ==
    /\ \A g \in GroupGraphs : IsGraph(g)
    /\ RawConfigs \subseteq RawConfig
    /\ ServerNames \subseteq Seq(DOMAIN LowerOf) \ {<<>>}

VARIABLES
    config,     \* the Config
    phase,      \* "walk", "merge" or "judged"
    raw,        \* ranges of this list not yet merged; equal ones count once
    ranges,     \* ranges merged so far
    sets        \* the sets of the lists done: allow, then one per scope

listVars == <<config, phase, raw, ranges, sets>>
vars == <<walkVars, listVars>>

\* List n of the Config: 0 is the flat list.
ListOf(n) == IF n = 0 THEN config.allow ELSE config.scopes[n].allow

\* A member's encodings: "!*" is the one that has many.
Encoded(m) == IF m = AllSites THEN SiteSpaces ELSE {Encode(m)}

-----------------------------------------------------------------------------

Init ==
    /\ groups \in GroupGraphs
    /\ config \in RawConfigs
    /\ entry = config.allow /\ stack = entry /\ out = <<>> /\ seen = {}
    /\ phase = "walk"
    /\ raw = {} /\ ranges = <<>> /\ sets = <<>>

Walk == phase = "walk" /\ Visit /\ UNCHANGED listVars

\* The list is walked: encode what was collected.
EncodeList ==
    /\ phase = "walk"
    /\ stack = <<>>
    /\ phase' = "merge"
    /\ raw' = {RangeOf(p) : p \in UNION {Encoded(out[i]) : i \in DOMAIN out}}
    /\ ranges' = <<>>
    /\ UNCHANGED <<walkVars, config, sets>>

MergeNext ==
    /\ phase = "merge"
    /\ \E r \in raw :
          /\ \A x \in raw : r.start <= x.start
          /\ ranges' = MergeInto(ranges, r)
          /\ raw' = raw \ {r}
    /\ UNCHANGED <<walkVars, config, phase, sets>>

\* The set is built: on to the next scope, or to judging.
FinishList ==
    /\ phase = "merge"
    /\ raw = {}
    /\ sets' = Append(sets, SetOf(ranges))
    /\ IF Len(sets) < Len(config.scopes)
       THEN phase' = "walk" /\ Resolve(ListOf(Len(sets) + 1))
       ELSE phase' = "judged" /\ UNCHANGED walkVars
    /\ UNCHANGED <<config, raw, ranges>>

Next == Walk \/ EncodeList \/ MergeNext \/ FinishList

Spec == Init /\ [][Next]_vars

\* The expansion runs in one call, on one thread, to its end.
FairSpec == Spec /\ WF_vars(Next)

-----------------------------------------------------------------------------

\* The scopes as parse leaves them, each with the patterns of its names.
Scopes == [n \in DOMAIN config.scopes |->
              [names |-> {PatternOf(config.scopes[n].sni[j]) :
                             j \in DOMAIN config.scopes[n].sni}]]

\* What the cache holds: Judged::deny_all(scoped) until the expansion is done.
Judged == IF phase = "judged" THEN [scopes |-> Scopes, sets |-> sets]
          ELSE [scopes |-> <<>>, sets |-> <<DefaultSet>>]

\* Judged::permits.
Permits(sni, a) ==
    LET n == IF config.scoped THEN MatchScopes(Judged.scopes, sni) ELSE 0 IN
    n # NoScope /\ SetContains(Judged.sets[n + 1], a)

-----------------------------------------------------------------------------
(* What rules mean, with no walk, no merging and no search.                *)

CoveredBy(members, a) ==
    \E m \in members : \E p \in Encoded(m) : Covers(RangeOf(p), a)

\* How specifically a name, as authored, fits a server name: not at all (0), as a
\* wildcard by the labels it spells out, exactly.
Fit(text, sni) ==
    LET wild == Len(text) > 1 /\ text[1] = Star /\ Tail(text) # <<Empty>>
        k == Len(text) - 1
    IN CASE ~wild /\ Lower(text) = Lower(sni) -> Len(sni) + 1
         [] wild /\ Len(sni) > k /\ Lower(Tail(text)) =
               Lower(From(sni, Len(sni) - k + 1)) -> k
         [] OTHER -> 0

\* Scope n claims sni: no scope has a name that fits better, no earlier one has
\* one that fits as well.
Claims(n, sni) ==
    LET Best(i) == {Fit(config.scopes[i].sni[j], sni) :
                       j \in DOMAIN config.scopes[i].sni}
    IN \E f \in Best(n) \ {0} : \A i \in DOMAIN config.scopes :
          \A g \in Best(i) : g < f \/ (g = f /\ i >= n)

\* MERGING KEEPS THE COVER.  At every round of the merge loop, for every order
\* the sort can leave, the merged ranges are sorted and disjoint, nothing still
\* to be merged starts before the last of them, and merged and unmerged ranges
\* together cover exactly what the list does (cidr.rs 86-116).
MergeKeepsCover ==
    phase = "merge" =>
        /\ \A i \in DOMAIN ranges : ranges[i].start <= ranges[i].end
        /\ \A i \in 1 .. Len(ranges) - 1 : ranges[i].end < ranges[i + 1].start
        /\ \A r \in raw : ranges # <<>> => ranges[Len(ranges)].start <= r.start
        /\ \A a \in Addresses :
              CoveredBy(Leaves(entry), a) <=>
                  \/ \E r \in raw : Covers(r, a)
                  \/ \E i \in DOMAIN ranges : Covers(ranges[i], a)

\* RULES MEAN WHAT THEY SAY.  Once expanded, an address is permitted for a server
\* name exactly if the list that governs the name -- the flat one, or the one of
\* the scope that names it most specifically, the first of equals, names compared
\* without case, the empty name only by an empty one -- leads through its groups
\* to a source whose encoding covers the address.  Until then nothing is
\* permitted (config.rs 54-70, 112-201, 230-249; README.md 286-300).
RulesMeanWhatTheySay ==
    \A sni \in ServerNames, a \in Addresses :
        Permits(sni, a) <=>
            /\ phase = "judged"
            /\ IF config.scoped
               THEN \E n \in DOMAIN config.scopes :
                       Claims(n, sni) /\ CoveredBy(Leaves(ListOf(n)), a)
               ELSE CoveredBy(Leaves(config.allow), a)

\* EVERY EXPANSION ENDS, on every graph: a cycle of groups neither loops nor
\* blocks the permits() call that holds the cache's lock (graph.rs 38-51,
\* config.rs 210-221).
EveryExpansionEnds == <>(phase = "judged")

=============================================================================
