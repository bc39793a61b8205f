------------------------------- MODULE Scheme -------------------------------
(***************************************************************************)
(* The identity scheme (src/identity.rs): which site owns a source, what   *)
(* address a header is given, and what range an authored rule becomes.     *)
(*                                                                         *)
(* Scheme::new is three loops: over the endpoint ids, over the boundaries  *)
(* of all the sites' ranges, and over the segments this sweep emits.  They *)
(* are the state machine here, one step per round.  Once built, the scheme *)
(* never changes, and synthesize and encode_member are operators on it.    *)
(* The u128 space has the blocks of the real one: the IPv4-mapped block,   *)
(* and the ULA split into the site, endpoint and address kinds, each a row *)
(* of blocks of V4Size machines.                                           *)
(***************************************************************************)
EXTENDS Cidr
Sets == INSTANCE FiniteSetsExt

CONSTANTS
    V4Bits,         \* 32
    V4Base,         \* ::ffff:0:0, where IPv4 sources are mapped to
    UlaBase,        \* the /48 the table declares
    SiteCount,      \* site ids, 0 included: 2^16
    HashCount,      \* 32-bit digests: 2^32
    Labels,         \* vpce-ids and other strings that are not addresses
    NoLabel,        \* no vpce-id in the header
    Hash(_),        \* the first 32 bits of SHA-256
    SiteLists,      \* inputs: the sites of a table, as build_sites leaves them
    None            \* Option::None

SITE_CONTESTED == 0
SiteIds == 0 .. SiteCount - 1
V4Size == 2 ^ V4Bits

\* id and vpce as declared; ranges sorted and disjoint, as cidr::Set keeps them.
Site == [id : SiteIds \ {SITE_CONTESTED}, vpce : Seq(Labels), ranges : Seq(Ranges)]

UlaEnd == UlaBase + (SiteCount + HashCount + 1) * V4Size - 1

ASSUME LayoutAssumption ==
    /\ V4Bits \in 0 .. Width
    /\ \A n \in {SiteCount, HashCount} : n \in Nat \ {0}
    /\ \A b \in {V4Base, UlaBase} : b \in Nat /\ b % V4Size = 0
    /\ V4Base + V4Size <= UlaBase /\ UlaEnd <= AddrMax
ASSUME HashAssumption == \A l \in Labels : Hash(l) \in 0 .. HashCount - 1
ASSUME SitesAssumption ==
    /\ SiteLists \subseteq Seq(Site)
    /\ \A s \in SiteLists : \A n \in DOMAIN s : \A j \in DOMAIN s[n].ranges :
          s[n].ranges[j].start <= s[n].ranges[j].end
ASSUME NoneAssumption == None \notin SiteIds /\ NoLabel \notin Labels

VARIABLES
    sites,      \* the parsed sites
    phase,      \* "index", "sweep", "merge", "built"
    at,         \* the label to be indexed next: its site and its place there
    index,      \* vpce_index
    todo,       \* boundaries not yet swept
    active,     \* active[id]: open ranges of site id at the sweep position
    cur,        \* cur_start and cur_id
    segments,   \* what has been emitted and not merged yet: start, end, site id
    merged      \* the segments of the scheme

indexVars == <<at, index>>
sweepVars == <<todo, active, cur>>
vars == <<sites, phase, indexVars, sweepVars, segments, merged>>

Segment == [start : Addresses, end : Addresses, id : SiteIds]

TypeOK ==
    /\ sites \in SiteLists
    /\ phase \in {"index", "sweep", "merge", "built"}
    /\ at \in [site : Nat, vpce : Nat]
    /\ index \in [Labels -> SiteIds \union {None}]
    /\ todo \in SUBSET Addresses
    /\ active \in [SiteIds -> Nat]
    /\ cur \in [start : Addresses, id : SiteIds \union {None}]
    /\ segments \in Seq(Segment)
    /\ merged \in Seq(Segment)

-----------------------------------------------------------------------------
(* The events of the sweep.                                                *)

\* Every range of every site, as a pair of indices into sites.
Claims(s) == UNION { {<<n, j>> : j \in DOMAIN s[n].ranges} : n \in DOMAIN s }

ClaimOf(s, k) == [id |-> s[k[1]].id, start |-> s[k[1]].ranges[k[2]].start,
                  end |-> s[k[1]].ranges[k[2]].end]

Opens(s, pos, id) ==
    {k \in Claims(s) : ClaimOf(s, k).id = id /\ ClaimOf(s, k).start = pos}

\* A variant with one mistake, to show that it is noticed: the end + 1 of a range
\* that reaches u128::MAX wraps.
ClosesWrapping(s, pos, id) ==
    {k \in Claims(s) : /\ ClaimOf(s, k).id = id
                       /\ (ClaimOf(s, k).end + 1) % (AddrMax + 1) = pos}

\* A range ending at u128::MAX never closes: there is no position after it.
Closes(s, pos, id) ==
    {k \in Claims(s) : /\ ClaimOf(s, k).id = id
                       /\ ClaimOf(s, k).end < AddrMax
                       /\ ClaimOf(s, k).end + 1 = pos}

Boundaries(s) == {p \in Addresses :
                     \E id \in SiteIds : Opens(s, p, id) # {} \/ Closes(s, p, id) # {}}

\* A variant with one mistake: the lowest active id wins a contest.
LowestWins(count) ==
    LET claimants == {id \in SiteIds : count[id] > 0} IN
    IF claimants = {} THEN None ELSE Sets!Min(claimants)

\* One claimant is a site, two or more are a contest.
Winner(count) ==
    LET claimants == {id \in SiteIds : count[id] > 0} IN
    CASE claimants = {} -> None
      [] Cardinality(claimants) = 1 -> CHOOSE id \in claimants : TRUE
      [] OTHER -> SITE_CONTESTED

-----------------------------------------------------------------------------
(* Scheme::new.                                                            *)

Init ==
    /\ sites \in SiteLists
    /\ phase = "index"
    /\ at = [site |-> 1, vpce |-> 1]
    /\ index = [l \in Labels |-> None]
    /\ todo = Boundaries(sites)
    /\ active = [id \in SiteIds |-> 0]
    /\ cur = [start |-> 0, id |-> None]
    /\ segments = <<>>
    /\ merged = <<>>

\* A variant with one mistake: the first site to list a label keeps it.
ContestFirstWins(owner, id) == IF owner = None THEN id ELSE owner

\* First come, and a second site makes it a contest for good.
Contest(owner, id) ==
    CASE owner = None -> id
      [] owner \notin {None, id, SITE_CONTESTED} -> SITE_CONTESTED
      [] OTHER -> owner

IndexLabel ==
    /\ phase = "index"
    /\ at.site \in DOMAIN sites
    /\ at.vpce \in DOMAIN sites[at.site].vpce
    /\ index' = [index EXCEPT ![sites[at.site].vpce[at.vpce]] = Contest(@, sites[at.site].id)]
    /\ at' = [at EXCEPT !.vpce = @ + 1]
    /\ UNCHANGED <<sites, phase, sweepVars, segments, merged>>

\* On to the next site, and after the last to the sweep.
IndexSite ==
    /\ phase = "index"
    /\ IF at.site \in DOMAIN sites
       THEN /\ at.vpce \notin DOMAIN sites[at.site].vpce
            /\ at' = [site |-> at.site + 1, vpce |-> 1]
            /\ UNCHANGED phase
       ELSE phase' = "sweep" /\ UNCHANGED at
    /\ UNCHANGED <<sites, index, sweepVars, segments, merged>>

\* One round of the outer loop: close the stretch that ends here, take all the
\* events at this position, see who owns what follows.
Sweep ==
    LET pos == Sets!Min(todo)
        count == [id \in SiteIds |-> active[id]
                     - Cardinality(Closes(sites, pos, id))
                     + Cardinality(Opens(sites, pos, id))]
    IN
    /\ phase = "sweep"
    /\ todo # {}
    /\ segments' = IF cur.id # None /\ pos > cur.start
                   THEN Append(segments, [start |-> cur.start, end |-> pos - 1,
                                          id |-> cur.id])
                   ELSE segments
    /\ active' = count
    /\ cur' = [start |-> pos, id |-> Winner(count)]
    /\ todo' = todo \ {pos}
    /\ UNCHANGED <<sites, phase, indexVars, merged>>

\* After the loop: a stretch still open runs to u128::MAX.
Finish ==
    /\ phase = "sweep"
    /\ todo = {}
    /\ phase' = "merge"
    /\ segments' = IF cur.id # None
                   THEN Append(segments, [start |-> cur.start, end |-> AddrMax,
                                          id |-> cur.id])
                   ELSE segments
    /\ UNCHANGED <<sites, indexVars, sweepVars, merged>>

\* A variant with one mistake: neighbours left apart.
GlueNothing(done, seg) == Append(done, seg)

\* Neighbours of one site become one segment; the + 1 wraps.
Glue(done, seg) ==
    LET n == Len(done) IN
    IF n > 0 /\ done[n].id = seg.id /\ (done[n].end + 1) % (AddrMax + 1) = seg.start
    THEN [done EXCEPT ![n].end = seg.end]
    ELSE Append(done, seg)

Merge ==
    /\ phase = "merge"
    /\ segments # <<>>
    /\ merged' = Glue(merged, Head(segments))
    /\ segments' = Tail(segments)
    /\ UNCHANGED <<sites, phase, indexVars, sweepVars>>

Build ==
    /\ phase = "merge"
    /\ segments = <<>>
    /\ phase' = "built"
    /\ UNCHANGED <<sites, indexVars, sweepVars, segments, merged>>

Next == IndexLabel \/ IndexSite \/ Sweep \/ Finish \/ Merge \/ Build

Spec == Init /\ [][Next]_vars

Built == phase = "built"

-----------------------------------------------------------------------------
(* Lookups.                                                                *)

LabelSite(l) == index[l]

\* partition_point: how many segments start at or before a.
StartedBy(a) == Cardinality({i \in DOMAIN merged : merged[i].start <= a})

\* The site owning every address from a to b, by one binary search.
RangeSite(a, b) ==
    LET i == StartedBy(a) IN
    IF i > 0 /\ b <= merged[i].end THEN merged[i].id ELSE None

AddrSite(a) == RangeSite(a, a)

-----------------------------------------------------------------------------
(* The wire: synthesize.  A header is [v6, src, vpce]; src is an address   *)
(* for IPv6, an IPv4 number otherwise.                                     *)

Header == [v6 : {TRUE}, src : Addresses, vpce : Labels \union {NoLabel}]
          \union
          [v6 : {FALSE}, src : 0 .. V4Size - 1, vpce : Labels \union {NoLabel}]

Mapped(h) == IF h.v6 THEN h.src ELSE V4Base + h.src

\* The addresses of each kind inside the ULA.
SiteKind(id, low) == UlaBase + id * V4Size + low
VpceKind(hash, low) == UlaBase + (SiteCount + hash) * V4Size + low
AddrKind(low) == UlaBase + (SiteCount + HashCount) * V4Size + low

\* The machine part: the source where it is the tenant's own IPv4 address.
Machine(h) == IF h.v6 THEN 0 ELSE h.src

\* The endpoint id outranks the source; a source match is a NAT, whose address
\* is not the machine's.
SiteOf(h) ==
    IF h.vpce # NoLabel /\ LabelSite(h.vpce) # None
    THEN [id |-> LabelSite(h.vpce), inner |-> TRUE]
    ELSE [id |-> AddrSite(Mapped(h)), inner |-> FALSE]

\* A variant with one mistake: an IPv6 source read as an IPv4 one.
SynthesizeV6AsV4(h) ==
    LET m == SiteOf(h) IN
    CASE m.id # None -> SiteKind(m.id, IF m.inner THEN Machine(h) ELSE 0)
      [] m.id = None /\ h.vpce # NoLabel -> VpceKind(Hash(h.vpce), Machine(h))
      [] OTHER -> AddrKind(h.src % V4Size)

Synthesize(h) ==
    LET m == SiteOf(h) IN
    CASE m.id # None -> SiteKind(m.id, IF m.inner THEN Machine(h) ELSE 0)
      [] m.id = None /\ h.vpce # NoLabel -> VpceKind(Hash(h.vpce), Machine(h))
      [] m.id = None /\ h.vpce = NoLabel /\ h.v6 -> h.src
      [] OTHER -> AddrKind(h.src)

-----------------------------------------------------------------------------
(* The config: encode_member.  A member reads as a site reference "!N", as *)
(* an IPv4 or IPv6 prefix, or as neither; where that leads nowhere -- the  *)
(* site is not declared, the width does not fit the family -- its text is a*)
(* label like any other.  What comes out is a prefix for cidr::build_from. *)

Member == [reads : {"site"}, id : SiteIds, text : Labels]
          \union [reads : {"v4"}, addr : 0 .. V4Size - 1, bits : 0 .. V4Bits + 1,
                  text : Labels]
          \union [reads : {"v6"}, addr : Addresses, bits : 0 .. Width + 1, text : Labels]
          \union [reads : {"label"}, text : Labels]

\* A /96: every machine of one block.
Block(first) == [addr |-> first, bits |-> Width - V4Bits]
SiteSpace(id) == Block(SiteKind(id, 0))

EncodeLabel(l) ==
    IF LabelSite(l) # None THEN SiteSpace(LabelSite(l))
    ELSE Block(VpceKind(Hash(l), 0))

\* The prefix of addresses a member names, IPv4 in mapped form.
Source(m) == IF m.reads = "v4"
             THEN [addr |-> V4Base + m.addr, bits |-> Width - V4Bits + m.bits]
             ELSE [addr |-> m.addr, bits |-> m.bits]

\* The site that owns all of it.
SourceSite(m) == RangeSite(RangeOf(Source(m)).start, RangeOf(Source(m)).end)

EncodeV4(m) ==
    IF SourceSite(m) # None THEN SiteSpace(SourceSite(m))
    ELSE [addr |-> AddrKind(m.addr), bits |-> Source(m).bits]

\* A variant with one mistake: the site table not asked about IPv6.
EncodeV6AsIs(m) == Source(m)

EncodeV6(m) ==
    IF SourceSite(m) # None THEN SiteSpace(SourceSite(m)) ELSE Source(m)

\* A variant with one mistake: any width taken as it is.
AnyWidth(m, max) == TRUE

\* The closure bits(max): a width beyond the family demotes the member.
WidthFits(m, max) == m.bits <= max

EncodeMember(m) ==
    CASE m.reads = "site" /\ (m.id = SITE_CONTESTED
                               \/ \E n \in DOMAIN sites : sites[n].id = m.id)
            -> SiteSpace(m.id)
      [] m.reads = "v4" /\ WidthFits(m, V4Bits) -> EncodeV4(m)
      [] m.reads = "v6" /\ WidthFits(m, Width) -> EncodeV6(m)
      [] OTHER -> EncodeLabel(m.text)

\* "!*": the spaces of the declared sites.
EncodeAllSites == {SiteSpace(sites[n].id) : n \in DOMAIN sites}

\* A rule admits a header: its prefix covers the address the header is given.
Admits(p, h) == Covers(RangeOf(p), Synthesize(h))

-----------------------------------------------------------------------------
(* What the scheme is for, read off the sites with no sweep and no index.  *)

\* Who claims an address or a label, and who therefore owns it.
Claimants(a) == {ClaimOf(sites, k).id : k \in
                    {k \in Claims(sites) : /\ ClaimOf(sites, k).start <= a
                                           /\ a <= ClaimOf(sites, k).end}}
LabelClaimants(l) == {sites[n].id : n \in
                         {n \in DOMAIN sites : \E j \in DOMAIN sites[n].vpce :
                                                  sites[n].vpce[j] = l}}
OwnerAmong(ids) == CASE ids = {} -> None
                     [] Cardinality(ids) = 1 -> CHOOSE id \in ids : TRUE
                     [] OTHER -> SITE_CONTESTED
Owner(a) == OwnerAmong(Claimants(a))

\* THE SWEEP IS RIGHT.  For every list of sites, overlapping, nested, adjacent,
\* repeated or reaching u128::MAX, one binary search in the segments finds
\* exactly the single claimant of an address, the quarantine site where there
\* are several, nothing where there is none (identity.rs 99-178).
SweepFindsOwner == Built => \A a \in Addresses : AddrSite(a) = Owner(a)

\* RANGES ARE OWNED WHOLE.  range_site names a site exactly when that site owns
\* every address of the range, although cidr::Set leaves adjacent ranges apart
\* and the sweep cuts at every boundary (identity.rs 157-164, 180-186).
RangeOwnedWhole ==
    Built => \A a, b \in Addresses : a <= b =>
        \A id \in SiteIds :
            RangeSite(a, b) = id <=> \A x \in a .. b : Owner(x) = id

\* CONTESTED SOURCES GO TO QUARANTINE.  A header whose endpoint id two sites
\* list, or whose source two sites claim while no site lists its endpoint id,
\* is given an address that "!0" covers and neither a claimant's "!N" nor "!*"
\* does (identity.rs 33-37, 83-96, 136-151, 378-382, 430-440).
ContestsQuarantined ==
    Built => \A h \in Header :
        LET ids == IF h.vpce # NoLabel /\ LabelClaimants(h.vpce) # {}
                   THEN LabelClaimants(h.vpce) ELSE Claimants(Mapped(h))
        IN Cardinality(ids) > 1 =>
              /\ \A p \in EncodeAllSites : ~Admits(p, h)
              /\ \A m \in Member : m.reads = "site" =>
                    /\ m.id = SITE_CONTESTED => Admits(EncodeMember(m), h)
                    /\ m.id \in ids => ~Admits(EncodeMember(m), h)

\* ENCODING IS TOTAL.  Whatever a member reads as -- an undeclared site, a width
\* beyond its family -- it becomes a prefix that cidr::build_from accepts: no
\* authored rule can make an expansion fail, and with it a whole Config deny
\* (identity.rs 366-370, config.rs 214-217).
EncodingIsTotal ==
    Built => \A m \in Member :
        EncodeMember(m) \in Prefix /\ ~BadWidth(EncodeMember(m))

\* A RULE ADMITS WHAT IT NAMES.  A prefix whose addresses all belong to one site,
\* or all to none, admits every header without endpoint id of its family from
\* them; a listed endpoint id written as a rule admits every header carrying it
\* (identity.rs 352-428 against 211-270).
RulesAdmitTheirSources ==
    Built => \A h \in Header :
        /\ h.vpce = NoLabel => \A m \in Member :
              LET r == RangeOf(Source(m))
                  even == \E o \in SiteIds \union {None} :
                             \A x \in r.start .. r.end : Owner(x) = o
              IN /\ \/ m.reads = "v4" /\ ~h.v6 /\ WidthFits(m, V4Bits)
                    \/ m.reads = "v6" /\ h.v6 /\ WidthFits(m, Width)
                 /\ Covers(r, Mapped(h))
                 /\ even
                 => Admits(EncodeMember(m), h)
        /\ h.vpce # NoLabel /\ LabelClaimants(h.vpce) # {} =>
              Admits(EncodeMember([reads |-> "label", text |-> h.vpce]), h)

\* A RULE ADMITS NOBODY ELSE.  Whom a prefix admits has its own source there and
\* no endpoint id, or is of the site that owns the whole prefix; real IPv6
\* sources come from outside the ULA, and so do the rules that name them
\* (identity.rs 261-264, 396-417).
RulesAdmitNobodyElse ==
    Built => \A h \in Header, m \in Member :
        LET r == RangeOf(Source(m))
            real == h.v6 => h.src \notin UlaBase .. UlaEnd
            rule == \/ m.reads = "v4" /\ WidthFits(m, V4Bits)
                    \/ m.reads = "v6" /\ WidthFits(m, Width) /\ r.end < UlaBase
        IN real /\ rule /\ Admits(EncodeMember(m), h) =>
              \/ h.v6 = (m.reads = "v6") /\ h.vpce = NoLabel /\ Covers(r, Mapped(h))
              \/ SourceSite(m) # None /\ SiteOf(h).id = SourceSite(m)

\* What identity.rs 352-353 says: "encode one authored source exactly the way
\* the packet path encodes a header carrying it, so the two meet by
\* construction".  A label written as a rule covers every header carrying it.
LabelMeetsWire ==
    Built => \A h \in Header :
        h.vpce # NoLabel =>
            Admits(EncodeMember([reads |-> "label", text |-> h.vpce]), h)

=============================================================================
