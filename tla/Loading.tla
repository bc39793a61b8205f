------------------------------ MODULE Loading -------------------------------
(***************************************************************************)
(* Loading filter configs (src/lib.rs, the parsers of src/config.rs).      *)
(*                                                                         *)
(* Envoy's main thread updates one listener at a time: it builds the       *)
(* listener's filters one after the other, and puts the listener in force  *)
(* when all are built.  On TCP a filter that cannot be built (None) rejects*)
(* the update and the running listener stays; on UDP it becomes a filter   *)
(* that drops everything, and the update goes through.  A carrier          *)
(* publishes its table while it is built, whatever becomes of the update.  *)
(*                                                                         *)
(* A filter_config is kept as what the parsers look at.                    *)
(***************************************************************************)
EXTENDS Enforcement, FiniteSets

CONSTANTS
    Listeners, Protocol,    \* Protocol[l]: "tcp" or "udp"
    Updates,                \* inputs: [of : Listeners, chain : Seq([name, body])]
    Absent,                 \* a width that is not written
    Malformed,              \* a number that does not parse
    NoLoad,                 \* the main thread is not loading
    NoConfig,               \* the filter has no Config
    MaxUpdates              \* bound: listener updates in a behaviour; the set
                            \* Configs bounds the rule configs loaded

ASSUME ProtocolAssumption == Protocol \in [Listeners -> {"tcp", "udp"}]

\* The filters the updates ask for, and the ones listeners run.
Entries == UNION {{u.chain[i] : i \in DOMAIN u.chain} : u \in Updates}
Filters == [name : {"ppv2_auth", "ppv2", "auth", "table", "deny_all"},
            cfg : Configs \union {NoConfig}]
Load == [of : Listeners, todo : Seq(Entries), built : Seq(Filters)]

ASSUME UpdatesAssumption ==
    \A u \in Updates : u.of \in Listeners /\ u.chain \in Seq(Entries)
ASSUME LoadAssumption ==
    NoLoad \notin Load /\ NoConfig \notin Configs /\ Unparsed \notin Rules

VARIABLES
    listener,   \* listener[l]: the filters in force, <<>> before the first
    loading,    \* the update being loaded: filters built and filters to go
    updates,    \* updates so far
    due,        \* history: what should be in force, per listener
    carried     \* history: the table that should be published

loadVars == <<listener, loading, updates, due, carried>>

\* The parts of a filter: which it is, and the rules it judges by.
Filter(name, c) == [name |-> name, cfg |-> c]

-----------------------------------------------------------------------------
(* The config shapes.  A body: text ("bad_utf8", "blank", "not_json" or    *)
(* "json"), the fields in it, whether its allow list has entries, for each *)
(* scope the number of its names, the ula, the sites, and the rules or the *)
(* table that all this denotes.                                            *)

\* RawRules and RawTable: the carrier's fields fail on an enforcing filter, and
\* the other way round.
RuleFields == {"allow", "scopes"}
TableFields == {"ula", "sites", "groups"}

\* text_of, and deny_unknown_fields.
Readable(b, known) == b.text = "json" /\ b.fields \subseteq known

HasAllow(b) == "allow" \in b.fields /\ b.allow
HasScopes(b) == "scopes" \in b.fields
HasNamelessScope(b) == HasScopes(b) /\ \E i \in DOMAIN b.scopes : b.scopes[i] = 0

\* validate_ppv2, validate_ppv2_auth, validate_auth.
Validates(name, b) ==
    CASE name = "ppv2" -> ~HasAllow(b) /\ ~HasScopes(b)
      [] name = "ppv2_auth" -> ~HasScopes(b)
      [] name = "auth" -> HasScopes(b) /\ ~HasAllow(b) /\ ~HasNamelessScope(b)

\* parse_prefix: an explicit width is 48, the address is a unique-local one
\* with nothing below bit 48.
ParsePrefix(u) == /\ u.width \in {Absent, 48}
                  /\ u.ip /\ u.local /\ u.clean

\* classify and cidr::build_from on one source: whatever follows a slash must be
\* a u8, and must fit the family if the rest is an address.
Classifies(s) ==
    \/ s.reads = "blank"
    \/ /\ s.width # Malformed
       /\ s.reads = "v4" => s.width \in {Absent} \union 0 .. 32
       /\ s.reads = "v6" => s.width \in {Absent} \union 0 .. 128

\* build_sites: keys are site ids, 0 is the system's.
BuildSites(sites) ==
    \A i \in DOMAIN sites :
        /\ sites[i].key \in 1 .. 65535
        /\ \A j \in DOMAIN sites[i].sources : Classifies(sites[i].sources[j])

\* parse_table.
ParseTable(b) == /\ Readable(b, TableFields)
                 /\ "ula" \in b.fields
                 /\ ParsePrefix(b.ula)
                 /\ "sites" \in b.fields => BuildSites(b.sites)

-----------------------------------------------------------------------------
(* The loaders.                                                            *)

FilterNames(l) == IF Protocol[l] = "tcp" THEN {"ppv2_auth", "ppv2", "auth", "table"}
                  ELSE {"ppv2_auth", "table"}

\* What the main thread builds next, and whether its loader returns Some.
Loaded == Head(loading.todo)
Accepts(l, f) ==
    /\ f.name \in FilterNames(l)
    /\ IF f.name = "table" THEN ParseTable(f.body)
       ELSE Readable(f.body, RuleFields) /\ Validates(f.name, f.body)

\* A config that parses denotes rules or a table; a scope counts its names.
ASSUME EntriesAssumption ==
    \A f \in Entries :
        /\ f.body.scopes \in Seq(Nat)
        /\ f.name # "table" /\ Readable(f.body, RuleFields) => f.body.rules \in Rules
        /\ f.name = "table" /\ ParseTable(f.body) => f.body.table \in Tables

Build(f) == loading' = [loading EXCEPT !.built = Append(@, f), !.todo = Tail(@)]

\* A variant with one mistake, to show that it is noticed: the table waits for
\* the filters behind its carrier.
LoadTableLast ==
    /\ Loaded.name = "table"
    /\ Accepts(loading.of, Loaded)
    /\ IF Len(loading.todo) = 1 THEN Publish(Loaded.body.table)
       ELSE UNCHANGED <<log, raw, call>>
    /\ Build(Filter("table", NoConfig))
    /\ UNCHANGED <<listener, updates, due, carried>>

\* load_table: the table is published here.
LoadTable ==
    /\ Loaded.name = "table"
    /\ Accepts(loading.of, Loaded)
    /\ Publish(Loaded.body.table)
    /\ Build(Filter("table", NoConfig))
    /\ UNCHANGED <<listener, updates, due, carried>>

\* load: a new Config, its cache stale on arrival.
LoadRules ==
    /\ Loaded.name # "table"
    /\ Accepts(loading.of, Loaded)
    /\ \E c \in Configs :
          /\ c = CHOOSE d \in Configs : raw[d] = Unparsed
          /\ Parse(c, Loaded.body.rules)
          /\ Build(Filter(Loaded.name, c))
    /\ UNCHANGED <<listener, updates, due, carried>>

\* A variant with one mistake, to show that it is noticed: a rejected UDP config
\* becomes a filter that lets everything pass.
RejectPassing ==
    /\ ~Accepts(loading.of, Loaded)
    /\ IF Protocol[loading.of] = "udp" THEN Build(Filter("table", NoConfig))
       ELSE loading' = NoLoad
    /\ UNCHANGED <<log, raw, call, listener, updates, due, carried>>

\* The loader returns None, which UDP never sees.
Reject ==
    /\ ~Accepts(loading.of, Loaded)
    /\ IF Protocol[loading.of] = "udp" THEN Build(Filter("deny_all", NoConfig))
       ELSE loading' = NoLoad
    /\ UNCHANGED <<log, raw, call, listener, updates, due, carried>>

LoadFilter == /\ loading # NoLoad
              /\ loading.todo # <<>>
              /\ LoadTable \/ LoadRules \/ Reject

\* All filters are built: the listener is replaced.
Install ==
    /\ loading # NoLoad
    /\ loading.todo = <<>>
    /\ listener' = [listener EXCEPT ![loading.of] = loading.built]
    /\ loading' = NoLoad
    /\ UNCHANGED <<log, raw, call, updates, due, carried>>

-----------------------------------------------------------------------------
(* What the documentation promises of an update (README.md 136-150,        *)
(* 222-230): the name of a filter fixes the shape of its config.           *)

\* The fields whose content filter f would act on, and the ones its config has.
Applied(name) == CASE name = "ppv2_auth" -> {"allow"}
                   [] name = "auth" -> {"scopes"}
                   [] name = "table" -> {"ula", "sites", "groups"}
                   [] OTHER -> {}
Written(b) == b.fields \ (IF b.allow THEN {} ELSE {"allow"})

Lawful(l, f) ==
    /\ f.name \in FilterNames(l)
    /\ f.body.text = "json"
    /\ Written(f.body) \subseteq Applied(f.name)
    /\ f.name = "table" => "allow" \notin f.body.fields /\ ParseTable(f.body)
    /\ f.name = "auth" => /\ "scopes" \in f.body.fields
                          /\ \A i \in DOMAIN f.body.scopes : f.body.scopes[i] > 0

Promised(f) == [name |-> f.name,
                rules |-> IF f.name = "table" THEN Unparsed ELSE f.body.rules]
Denying == [name |-> "deny_all", rules |-> Unparsed]

\* The carriers of a chain whose loader is reached and should accept them: Envoy
\* goes no further on a TCP listener than the first filter it cannot build.
Lands(l, chain) ==
    {i \in DOMAIN chain :
        /\ chain[i].name = "table"
        /\ Lawful(l, chain[i])
        /\ Protocol[l] = "tcp" => \A j \in 1 .. i : Lawful(l, chain[j])}

\* The table they leave in force, where t was: the last one's, or still t.
InForce(l, chain, t) ==
    LET I == Lands(l, chain) IN
    IF I = {} THEN t ELSE chain[CHOOSE i \in I : \A j \in I : j <= i].body.table

\* Envoy hands over an update: a TCP listener should change only if all of it is
\* lawful, a UDP listener always, to deny-all where it is not.
Update(u) ==
    /\ loading = NoLoad
    /\ updates < MaxUpdates
    /\ Len(u.chain) <= Cardinality({c \in Configs : raw[c] = Unparsed})
    /\ updates' = updates + 1
    /\ loading' = [of |-> u.of, todo |-> u.chain, built |-> <<>>]
    /\ due' = [due EXCEPT ![u.of] =
          IF Protocol[u.of] = "udp"
          THEN [i \in DOMAIN u.chain |->
                   IF Lawful(u.of, u.chain[i]) THEN Promised(u.chain[i]) ELSE Denying]
          ELSE IF \A i \in DOMAIN u.chain : Lawful(u.of, u.chain[i])
               THEN [i \in DOMAIN u.chain |-> Promised(u.chain[i])]
               ELSE @]
    /\ carried' = InForce(u.of, u.chain, carried)
    /\ UNCHANGED <<log, raw, call, listener>>

LoadInit ==
    /\ listener = [l \in Listeners |-> <<>>]
    /\ due = [l \in Listeners |-> <<>>]
    /\ loading = NoLoad
    /\ updates = 0
    /\ carried = NoTable

LoadNext == (\E u \in Updates : Update(u)) \/ LoadFilter \/ Install

\* A BAD UPDATE NEVER LOOSENS A LISTENER.  Between updates a listener runs exactly
\* what the last lawful update to it said, filter by filter with its own rules,
\* and a UDP listener whose last update was not lawful denies.  No typo, misplaced
\* rule, missing text or half-rejected chain leaves a filter whose rules would
\* read as applied and do nothing (lib.rs 49-183, config.rs 251-411,
\* identity.rs 328-350).
RunsWhatWasLawful ==
    \A l \in Listeners :
        loading = NoLoad =>
            due[l] = [i \in DOMAIN listener[l] |->
                LET f == listener[l][i] IN
                [name |-> f.name,
                 rules |-> IF f.cfg = NoConfig THEN Unparsed ELSE raw[f.cfg]]]

\* THE TABLE IN FORCE IS THE LAST LAWFUL CARRIER'S.  A carrier publishes as it is
\* built, so its table comes into force, and stays, even if a filter behind it
\* has the listener rejected; a carrier that is not lawful, or stands behind a
\* filter that has its TCP listener rejected, changes nothing; and no update,
\* with a carrier or without one, takes the table away (lib.rs 71, 94, 128-141,
\* README.md 145-150).
TableInForceIsDue == loading = NoLoad => Published = carried

=============================================================================
