------------------------------ MODULE Judging ------------------------------
(***************************************************************************)
(* What a set of rules means against an identity table (src/config.rs).    *)
(*                                                                         *)
(* A Judged value -- the flat allow set plus the SNI scopes of one Config, *)
(* expanded against one Table -- is kept as the set of queries it permits; *)
(* a query is the (sni, address) pair that Judged::permits is asked about. *)
(* How the expansion is computed (groups, sites, CIDR merging, SNI         *)
(* precedence) is the subject of other modules: here it is a parameter.    *)
(***************************************************************************)
EXTENDS Integers, Sequences

CONSTANTS
    Rules,          \* raw rule lists a filter_config can carry
    Tables,         \* identity tables a carrier can publish
    Queries,        \* (sni, address) pairs a filter can ask about
    NoTable,        \* None: no carrier has landed yet
    Expand(_, _)    \* Expand(r, t): what rules r permit against table t

ASSUME TableAssumption == NoTable \notin Tables
ASSUME ExpandAssumption ==
    \A r \in Rules, t \in Tables : Expand(r, t) \in SUBSET Queries

\* Judged::deny_all: an empty flat list, or SNI mode with no scope claimed.
DenyAll == {}

\* The match of Config::permits that fills the cache: no table leaves deny-all.
\* Its other fallback, for rules that do not expand, is never taken: every member
\* encodes to a prefix that build_from accepts (EncodingIsTotal).
JudgeAgainst(r, t) == IF t = NoTable THEN DenyAll ELSE Expand(r, t)

\* The table of generation g, in a history of the tables published so far.
TableAt(history, g) == IF g = 0 THEN NoTable ELSE history[g]

=============================================================================
