# Verification of aws-ppv2-auth

TLA+ models of the Envoy dynamic module in `src/src/`, checked with TLC on small
instances. Every component of the program is modelled, and every safety property the
runs check is also proved with TLAPS for every instance; liveness is only
model-checked.

## 1. The system

The module sits behind an AWS Network Load Balancer. Every connection or
datagram starts with a PROXY protocol v2 header. A filter parses it, turns it
into an IPv6 address (the *identity*), and judges that address against an
allowlist. What identities mean is in one *table* per process, published by a
carrier filter and replaced at any time.

| component | source | state | operations | interacts with |
|---|---|---|---|---|
| published table | `config.rs` | `PUBLISHED`: generation and table under one `RwLock` | `publish`, `published` | written at config load (main thread), read by every worker |
| rules cache | `config.rs` | per `Config`: raw rules; `cache`: generation and expansion under a `RwLock` | `parse`, `permits`, `judge_against` | shared by all workers; reads the published table |
| SNI scopes | `config.rs` | none | `Pattern::parse`, `eq_fold`, `match_scopes` | called by `Judged::permits` |
| header parser | `ppv2.rs` | none | `parse`, `find_vpce` | called on each peek and each datagram |
| TCP filters | `tcp.rs` | per connection: `want`, `done`, `refused`, `settled`; the socket's remote address and peek buffer | `on_accept`, `on_data`, `refuse` | Envoy's callbacks; parser, scheme, cache, counters |
| UDP filter | `udp.rs` | per worker: the reused `payload` buffer | `on_data` | parser, scheme, cache, counters |
| identity scheme | `identity.rs` | built once per table: `vpce_index`, `segments` | `Scheme::new`, `synthesize`, `encode_member` | wire side and rule side must agree |
| CIDR set | `cidr.rs` | sorted disjoint ranges | `build_from`, `contains` | holds site sources and expanded rules |
| group graph | `graph.rs` | groups by name | `upsert`, `resolve` | expands `@refs` of rules |
| config loading | `lib.rs`, `config.rs` | none of its own; Envoy keeps the listeners, `publish` the table | `load`, `load_table`, `parse_table`, validators, deny-all | Envoy's LDS, on the main thread |
| counters | `stats.rs` | three counters per filter_name | `register` | bumped by the filters |

**What is hard here.** Several workers rebuild one cache while the table moves;
a call reads the table, the cache and the cache again under separate locks; a
filter reads the table twice in one callback; Envoy calls `on_data` again after a
refusal and hands the header over in pieces; TLS puts a wait between label and
judgement; the sweep that finds site owners has boundaries that coincide and a
space that ends; rules and traffic are encoded by two separate functions; groups
form cycles under a held lock; updates are half built, rejected or late while
datagrams are judged by the instances they replace. Each is a hazard in `PROJECT.json`, at its line, with the properties that catch it.

**What makes each part correct.** The cache never mixes two tables and an answer
is never older than the calls in flight. The parser's verdict does not depend on
how bytes arrive, and it never waits in vain. A filter admits only a whole
header, stripped exactly, labelled and allowed by tables of the connection's
lifetime; a refusal is final; counters count. The sweep finds the owner of every
address, contests go to quarantine, every member encodes, and a rule covers its
own sources and nobody else's. Expanding a rule list ends, and permits exactly
what the list says through its groups and scopes. An update that is not lawful
never loosens a listener; no datagram passes before a table is there, and one that
does is forwarded as its own bytes behind the header.

## 2. Modules

```
Judging ─┬─ Permits ── MCPermits, PermitsProofs
         └─ Enforcement ─┬──────────── TcpFilters ── MCTcpFilters, TcpProofs
            (promise of  └─ Loading ───┐   │
             Permits)                  │   │
Ppv2 ────┬─────────────────────────────┴── Udp ── MCUdp, UdpProofs
         └─ Ppv2Peek ── MCPpv2Peek, Ppv2Proofs
Cidr ────┬─ Scheme ── MCScheme, SchemeProofs
Groups ──┼─ Expansion ── MCExpansion, ExpansionProofs
Sni ─────┘
```
TcpFilters and Udp both extend Enforcement and Ppv2 (Udp through Loading); their proofs
share EnforcementProofs and Ppv2Lemmas.

* **Judging** -- what rules permit against a table, as a set of
  (SNI, address) pairs; the expansion is the parameter `Expand`. `JudgeAgainst`
  is the `match` in `Config::permits` with its deny-all while there is no table. The other
  arm that denies, for rules that do not expand, is never taken: every member encodes to
  a prefix that `build_from` accepts (`EncodingIsTotal`).
* **Enforcement** -- the promise of `permits`: one table answers each call, and it
  was current during the call or was read by a call of the same Config in flight
  when this one began.
* **Permits** -- the code. One action per access to shared state: `Begin`
  (`published()`), `CheckGeneration` (the condition, under a read guard) and `EndCheck`
  (that guard is dropped), `LockCache` (`write()`), `Rebuild` (under the write guard),
  `Judge` (the last read guard), `Return`; `Publish` and `Parse` from other threads. `log`,
  `overlap`, `used` and `verdict` are history variables. The cache's guards are `readers[c]`
  and `writer[c]`, each held from the step that takes it to the one that drops it; those of
  `PUBLISHED` live within one step, where nothing else is locked.
* **Ppv2**, **Ppv2Peek** -- `parse` and `find_vpce`. A stream is what parse can tell of
  it (how much of the signature agrees, the declared length, the family, the
  TLVs); a prefix is its length. The loop of `find_vpce` is a recursive function
  (`VpceWalk`), one value of `WalkTlv` per round. Sizes are the real ones, up to 65535 + 16.
  `Ppv2Peek` receives the bytes in arbitrary pieces.
* **TcpFilters** -- the filters in their chains. `Ppv2Filter::on_data` is `OnData`, one
  disjunct per outcome; `ppv2_auth` then calls `permits`, a second read of the
  table (`CallPermits`), which answers as Enforcement promises
  (`PermitsAnswers`), and `Settle` carries the answer out. `AuthAccept` is the
  whole `on_accept` of `auth` up to its call of `permits`. `Accept`, `Deliver`, `TlsInspect`
  and `Close` are Envoy, modelled from how the filters use it. The header's
  source port, the metadata for the log and the texts are left out.
* **Scheme** -- `Scheme::new` as a state machine, its three loops one round per step:
  `IndexLabel` and `IndexSite` fill `vpce_index`, one `Sweep` per boundary and `Finish`
  emit the segments, `Merge` glues them one by one until `Build`; and the lookups, `synthesize` and `encode_member` as operators over
  the scheme built. A member is what the parsers make of it (a site reference, an
  IPv4 or IPv6 prefix with its width, neither); the sites' ranges are built with
  Cidr's own `MergeInto`. The u128 space is scaled: same blocks (IPv4-mapped, and the
  ULA with its three kinds), fewer of each. Kinds appear in the order site,
  endpoint, address; nothing depends on it.

* **Cidr** -- `cidr.rs` over addresses of `Width` bits: the range of a prefix, one round
  of the merge loop, the span, `contains`, both empty sets.
* **Groups** -- `Graph::resolve`. The recursion of `walk` is the stack of members still
  to be visited; `Expand`, `Skip` and `Collect` are its three outcomes.
* **Sni** -- `Pattern::parse`, `eq_fold` and `match_scopes`; a name is the sequence of its
  labels.
* **Expansion** -- `judge_against` list by list: `Walk`, `EncodeList`, one `MergeNext` per
  round (any range of least start, since the sort is unstable), `FinishList`. `Judged` and
  `Permits` are what the cache holds and how it answers. This is the inside of
  Judging's parameter `Expand`; the encoding of one member is Scheme's subject and
  a parameter here.
* **Loading** -- listener updates on Envoy's main thread, filter by filter: `LoadTable`
  (which publishes), `LoadRules`, `Reject` (None on TCP, deny-all on UDP), `Install`. A
  filter_config is what the parsers look at; `Accepts` is all of their conditions.
  `due` and `carried` are history: what the documentation says each listener should run and
  which table should be published.
* **Udp** -- `on_data` of the three UDP filters, on workers that each keep their own
  instance and take over a new listener between datagrams (`Adopt`). Like TcpFilters
  it reads the table, then calls `permits`, then settles; `Forward` stages the payload,
  counts, and then `set_datagram_data` succeeds or fails. Bytes are named by their
  datagram and their place in it.

Definitions marked "a variant with one mistake" are not part of the models: each is a
plausible bug that some property must notice, listed under `mutants`.

## 3. Runs

| run | instance | shows |
|---|---|---|
| `permits_safety` | 3 workers, 1 Config, 2 tables, 2 publications; worker symmetry | no guard asked for while one is held, cache coherence, bounded staleness, Permits implements Enforcement |
| `permits_liveness` | 2 workers, fair | every call returns; answers converge to the last table |
| `ppv2_peek` | lengths, signatures, families and TLVs around every boundary, 14 cut points | chunking is irrelevant, no vain wait, first vpce-id wins |
| `tcp_filters` | 2 connections, 2 workers, chains `ppv2_auth` and `ppv2`-`tls_inspector`-`auth`, with and without header, split or whole, 2 publications | lawful admission, justified denial, final refusal, exact counters |
| `tcp_liveness` | 2 connections on 1 fair worker, those chains and `auth` alone, with and without header, IPv4 peers, 1 publication | a header that has arrived is settled, and counted once |
| `scheme` | 16 addresses, 1127 site lists, every member | the sweep, contests, total encoding, rules against traffic |
| `expansion` | 8 addresses; 5 group graphs with all flat lists of up to 3 of 9 members; 82 lists of scopes | the walk is the closure, the merge keeps the cover, rules mean what they say, every expansion ends |
| `udp` | 2 workers, 2 datagrams, 1 UDP and 1 TCP listener, 3 updates out of 70 | updates never loosen, the table is the last lawful carrier's, nothing passes before a table, forwarding and dropping are justified, exact counters |

Bounds. Two publications make every pair (old table, new table) and the state
before any table. Configs share nothing but the published table, so one shows
all. Two workers suffice for
one to overtake another, three for a call to be answered from an expansion that
neither it nor its first rival wrote. One connection can interact with another only through
counters, the worker and the table, so two show all of it; the two reads
(16 and 60 bytes against a header of 40) end inside the header and in the
payload. `tcp_filters` has its peers connect over IPv6, where the socket's own address
could pass for an identity; in `tcp_liveness` they connect over IPv4, so that `auth` alone finds no label. In `scheme`, two IPv4 addresses and two below them give ranges that
nest, touch, overlap, repeat and reach the end of the space; a third list for site 2
is what two keys that parse to one id (`"2"`, `"02"`) leave. In `expansion`, three
groups make a cycle, a shared and a missing group, three list entries make one
seen-set serve several entries. In `udp`, three updates are enough for rules, a
carrier and a rejected or lawful replacement, in any order; two workers for one
to judge by the filter the other has already replaced. Counter bounds in the guards
are `MaxPublish` and `MaxUpdates`; the sets `Configs`, `Conns` and `Datagrams` bound how
many of each are created. The u64 generation is not otherwise limited.

Deadlock is checked for Permits. Elsewhere the system may rightly stop: all bytes
received, all connections settled, the scheme built, the rules expanded.

Fairness. `FairSpec` and `FairFilterSpec` are weakly fair to each worker's next
step inside the filter: a thread that can run does. Envoy calls `on_data` of a
readable connection. `FairSpec` is also strongly fair to `LockCache`: read guards come
and go, and a writer that is enabled again and again gets in, since `std::sync::RwLock`
lets no reader in past a waiting writer. That guards are not kept is no assumption: a
worker that held one while it asked for another would never return, and
`EveryCallReturns` would fail. Contention ends because a rebuild is attempted at most once
per call. Expansion's `FairSpec` is one call on one thread that runs to its end.
Nothing is assumed of clients, of carriers, or of the ClientHello.

### Where the code and its documentation disagree

Four runs are expected to fail; each checks a sentence of the repository.

* `permits_stale` -- "Deny by default, judged against the PUBLISHED table, re-expanding
  when it moves. Expansion failures log once per generation and leave deny-all -- never a
  stale allow, never a crash" (`config.rs:204-206`). The first sentence is the one that fails,
  with no expansion failing. A call that read generation 2 and rebuilt the cache can be answered from the generation-1
  expansion a slower worker put back between its two looks at the cache. The
  staleness is bounded (`AnswerWithinWindow`) and transient (`Converges`).
* `tcp_mixed_tables` -- "a rule and the wire meet on the same address by
  construction" (`config.rs:54-56`, said of one table). The identity and the rules come from two
  reads of the published table; across an update a connection is admitted
  that neither table admits.
* `tcp_auth_alone` -- "`auth` ran without a `ppv2` filter ahead of it"
  (`README.md:338`). The check is only whether the remote address is IPv6, so a
  peer that connected over IPv6 is judged by its own address.
* `scheme_label` -- "the two meet by construction" (`identity.rs:352-353`). An endpoint
  id no site lists is hashed as a rule, but as traffic it yields to the site
  that claims its source.

Met while reading, with no run: `identity.rs:3-4` says everything inside the /48 was
synthesized, but an IPv6 source inside it is passed through
(`RulesAdmitNobodyElse` therefore speaks of sources outside); `identity.rs:99-100` and `360` still say the lowest
active id wins a contested stretch, which the code, `README.md` and
`ContestsQuarantined` send to site 0; a datagram dropped for want of a table, and
one dropped by `DenyAllFilter`, bump no counter although `README.md:344-347` calls
the counters the only signal on UDP; `config.rs:303-305` says group literals are
validated eagerly and `config.rs:338-339` that they no longer are; `cidr.rs:18`
says the empty set's span is (MAX, 0), which `Default` does not give (harmless:
the search that follows finds nothing, `RulesMeanWhatTheySay`); `cidr.rs:33-35` says a
range covered by two ranges has a real gap between them, though touching ranges are
left apart (`contains_range` is called by nothing in `src/`; `range_site`, which could have met
this, joins them first, `RangeOwnedWhole`); a `ppv2` filter, which takes no rules,
still rejects a listener without any `filter_config`.

## 4. Proofs

`PermitsProofs` proves, for any sets of workers, Configs, rules, tables and queries
and any bound on publications:

* `NothingHeldWhileWaiting`, `CacheAlwaysCoherent`, `BoundedStaleness` -- the three
  invariants of `permits_safety`;
* `Refinement` -- `Spec => ImplementsEnforcement`.

`NothingHeldWhileWaiting` is by an invariant of its own, `GuardsInScope`: a worker is among the
readers of a cache, or its writer, only between the step that takes the guard and the one
that drops it. None of the others is inductive alone. `IInv` adds: the cell holds the last
table under its generation (`PublishedIsLast`); a call carries a generation with that
generation's own table, so a rebuild stamps truthfully (`CallsCoherent`); no
stamp is from the future (`StampsPublished`), so a later publication cannot make one
true by accident; whoever is in flight for the same Config has read a generation
in this call's window (`WritersInWindow`), which is what bounds the harm of a late
writer; and a call past its check finds a generation of its window in the cache
(`FreshInWindow`). One lemma per action shows that it preserves `IInv`. The refinement
adds that a call has no verdict before its last read of the cache (`Undecided`):
`Judge` maps to the abstract `Answer` with the cache's stamp as witness, and
`CheckGeneration`, `LockCache` and `Rebuild` stutter.

`Ppv2Proofs` proves `NeverStuck`, `ChunkingNeverMatters` and `FirstLabelWins` for every
stream of the format's real sizes and every set of cut points. The first two rest on two lemmas about
`Ppv2Parse` itself: a verdict on a prefix is the verdict on every longer one, and a request
is ahead of what was received, within `MAX_HEADER`. The third is about a loop: after `k` rounds
`find_vpce` stands at the end of the `k`th TLV and has found nothing if no TLV so far was a vpce-id
that fits, or it has stopped at the first such TLV or at one that overruns (`WalkGood`).

`TcpProofs` proves `TcpTypeCorrect`, `AdmissionIsLawful`, `DenialIsJustified`,
`CountersAreExact` and `RefusalsAreFinal` for any number of connections, workers, Configs and tables. What a
connection's flags, callback and place in the chain say of each other (`Shape`), what was
labelled and under which table (`History`), and what a call of `permits` in flight has
to do with it (`Asking`) is one predicate per connection, `GoodConn`, over the connection's record,
the tables and its worker's call. Since the tables are only appended to and a Config never changes,
it survives everything other connections do (`GoodGrows`); since a worker is in one
callback at a time (`Exclusive`), nobody else's call is mistaken for its own. `Counting` is the
tally, kept or moved by one with the connection that settles. `UdpProofs` has the
same shape for any number of workers and datagrams (`ForwardingIsLawful`,
`DroppingIsJustified`, `NothingPassesBeforeCarrier`, `UdpCountersAreExact`), joined to
`LoadGood` for the main thread: the filters built so far and those still to be built are together what is due
(`ListenersRunWhatWasLawful`), and the table in force becomes the due one when the carriers still to be
built have landed (`LoadCarried`, `HeadLands`), whether or not the listener gets there
(`TablesInForceAreDue`). Both stand on `EnforcementProofs`, which is all a filter needs to know of
`permits`: tables and rules only grow, and an answer is that of a table in the call's window.

`ExpansionProofs` proves `WalkAlwaysClosure`, `MergeAlwaysKeepsCover` and
`RulesAlwaysMeanWhatTheySay` for every
group graph, every Config, every encoding of members, every address width and
every order in which an unstable sort can leave ranges of equal start. `WalkIsClosure`
says little of the stack and is not inductive: `WalkInv` adds that whatever is on
the stack is a group the list reaches or a leaf of it, that whatever was collected
is a leaf, and that every member of the list and of an expanded group was
expanded, collected or is still on the stack. When the stack is empty, the expanded
groups are then closed under reference, and the least such set is what is reached.
`ExpInv` joins it to the merge loop: a list is merged only when its walk is over, so
the ranges encoded are those of its leaves; one round (`MergeIntoKeeps`) keeps
the merged ranges sorted and disjoint and loses and adds no address, because the
next range starts no earlier than the last one merged. `ListsDone` carries that to the end: the
set of every finished list covers the addresses of its leaves. In sorted, disjoint ranges the
binary search is membership (`ContainsIsCovered`: the ranges that start at or before an address
are the first so many, and only the last of them can cover it), and the rounds of `match_scopes` visit the patterns that fit a name
in order of their score, exact first and then the longest suffix (`MatchIsClaim`).

`SchemeProofs` proves all seven invariants of `scheme` for every layout, hash and list of sites. The inductive
invariant `SchemeInv` has one part per loop. While labels are indexed, the entry of a label is the owner among the
sites that listed it so far (`Indexing`). While the sweep runs, `active` counts the claims
open at the current boundary (`Counted`), the boundaries to come are those not yet passed (`InOrder`), and the segments emitted
are disjoint, owned throughout, and cover all that is owned before the current stretch
(`Segs`, `Sweeping`). While segments are merged, no two neighbours in the merged part could still be
joined (`Glued`), which is what lets one search decide whether a whole range has one owner
(`RangeSiteIs`). On the scheme built, the ULA is a stack of rows of `V4Size`
addresses, one per site, per hash and one for plain IPv4 (`RowsApart`); a prefix is a
block that holds or misses a row as a whole (`BlockRange`, `ShiftedPrefix`). `WireIs` and `MemberIs` say which row traffic and a rule
land in; that they agree is `RulesAlwaysAdmitTheirSources`, that nothing else meets them is `RulesNeverAdmitOthers`.

The prover cannot instantiate the library's induction theorems; where a loop or a search over data is
proved, the induction is by least counterexample (`LeastNatural`, from the well-foundedness of
the natural numbers), and `LoopRuns` shows that a recursive function with a typed step has the values its
equation says.

Assumptions. `NoTable` is not a table; an expansion is a set of
queries; `MaxPublish < U64Max` (the sentinel is never a generation); markers
(`Idle`, `NoWriter`, `Unparsed`, `NoLabel`, `NoConn`, `NoScope`...) are distinct from what they mark; names are
no literals; every encoding is a prefix whose width fits; a parsed header synthesizes to an
identity; connections and datagrams are finite sets, so that they can be counted; the chunks of a datagram have lengths;
server names are non-empty sequences of labels; an entry that parses has
rules and a table of the declared sets; a site's ranges start no later than they end, and its id is
not 0 (both refused or excluded by the parsers); the blocks of the layout are
aligned, apart and inside the space, as the real constants are; powers of two up to the
width are positive and double from one to the next (the provers have no theory of `^`). TLC evaluates each
of them.

Only model-checked: `EveryCallReturns`, `Converges`, `EveryHeaderSettles` and
`EveryExpansionEnds`, which are liveness under fairness, out of the prover's reach.

## 5. Not modelled, and the plan

Out of scope: JSON and UTF-8 decoding (serde, std: their verdict is part of Loading's
inputs), formatting and parsing of address text, SHA-256 (`Hash` is a parameter,
collisions included), the metadata for the access log (`Attested`, `format`,
`format_src`: nothing decides on them), the `eprintln!` texts, a counter whose
registration failed, Envoy itself beyond what the filters use, `deploy/` and
`examples/`.

What the models leave apart: Judging's `Expand` and Expansion are not composed in one
run, nor are Scheme and Expansion: the product of their inputs is out of reach, and
the interface is one function in each case (a set of permitted pairs, the prefix of a
member), whose totality `RulesMeanWhatTheySay` and `EncodingIsTotal` show.

The plan's modules are written and the invariants and action properties of its runs proved. What
could still be added: theorems that join the components the runs leave apart (Expansion's `Permits` as
an instance of Judging's `Expand`, Scheme's `EncodeMember` as Expansion's `Encode`).
