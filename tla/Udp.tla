-------------------------------- MODULE Udp ---------------------------------
(***************************************************************************)
(* The UDP listener filter (src/udp.rs) on Envoy's worker threads, with    *)
(* the loading of its config and of the table (Loading) going on.          *)
(*                                                                         *)
(* Every worker has its own instance of the listener's filter, with its    *)
(* own payload buffer, and replaces it at its own time after an update.    *)
(* The instances share the Config; permits_unscoped is its promise,        *)
(* Enforcement.  A datagram is a stream for the parser, cut into the chunks*)
(* Envoy keeps it in; bytes are named by the datagram and their place.     *)
(***************************************************************************)
EXTENDS Loading, Ppv2

CONSTANTS
    UdpListener,
    Datagrams,          \* datagrams that can arrive
    NotSent,            \* not arrived yet
    Packets,            \* inputs: [stream, chunks : Seq(sizes)]
    Identities,         \* IPv6 addresses
    NoName,             \* the empty server name of permits_unscoped
    NoFilter,           \* the worker has no instance yet
    Synthesize(_, _)    \* Synthesize(t, h): identity::synthesize

ASSUME UdpAssumption ==
    /\ UdpListener \in Listeners /\ Protocol[UdpListener] = "udp"
    /\ Queries = {NoName} \X Identities

\* A worker's instance, and a datagram: the part a filter has of it ("judge":
\* between the two reads of the table), and what became of it and why.
Span == [of : Datagrams, from : Nat, to : Nat]
Instance == [name : {"ppv2_auth", "ppv2", "auth", "table", "deny_all"},
             cfg : Configs \union {NoConfig}, payload : Seq(Span)]
Stats == {"allowed", "denied", "not_ppv2"}
Datagram == [worker : Workers, packet : Packets, cfg : Configs \union {NoConfig},
             pc : {"done", "judge", "permits"}, id : Identities \union {NoName},
             labelGen : Nat, window : SUBSET Nat, born : Nat, sent : Seq(Span),
             fate : {"none", "forwarded", "dropped"},
             why : {"none", "carrier", "deny_all", "no_table", "set_failed"}
                   \union Stats]

ASSUME InstanceAssumption ==
    /\ NotSent \notin Datagram /\ NoFilter \notin Instance /\ Idle \notin Call
    /\ IsFiniteSet(Datagrams)

VARIABLES
    filter,     \* filter[w]: worker w's instance: name, cfg, payload
    dgram,      \* dgram[d]: a datagram and what became of it
    counters    \* the counters of ppv2_auth

udpVars == <<filter, dgram, counters>>
allVars == <<log, raw, call, loadVars, udpVars>>

-----------------------------------------------------------------------------

Arrived == {d \in Datagrams : dgram[d] # NotSent}
Busy(w) == \E d \in Arrived : dgram[d].worker = w /\ dgram[d].fate = "none"

\* The bytes of the first k chunks, and of a whole packet.
Sums(c) == LET sum[k \in 0 .. Len(c)] == IF k = 0 THEN 0 ELSE sum[k - 1] + c[k] IN sum
Total(p) == Sums(p.chunks)[Len(p.chunks)]

\* A variant with one mistake, to show that it is noticed: only the first chunk
\* is looked at.
BufferFirstChunk(p) == IF p.chunks = <<>> THEN 0 ELSE p.chunks[1]

\* The bytes parse sees: the one chunk, or all of them joined.
Buffer(p) == Total(p)

Parsed(p) == Ppv2Parse(p.stream, Buffer(p))

ASSUME PacketsAssumption ==
    \A p \in Packets :
        /\ p.stream \in Stream /\ p.chunks \in Seq(Nat)
        /\ \A t \in Tables :
              Parsed(p).tag = "ok" => Synthesize(t, Parsed(p).header) \in Identities

\* Bytes i+1 .. j of datagram d.
Bytes(d, i, j) == [of |-> d, from |-> i, to |-> j]

Bump(stat) == counters' = [counters EXCEPT ![stat] = @ + 1]

\* Variants with one mistake each: a short datagram left uncounted as if more of
\* it could come; the buffer not cleared.
NotPpv2Uncounted(p) ==
    IF Parsed(p).tag = "need" THEN UNCHANGED counters ELSE Bump("not_ppv2")
StagedAfter(payload, bytes) == Append(payload, bytes)

\* Datagrams are self-contained: a short one is not PPv2.
NotPpv2(p) == Bump("not_ppv2")

\* payload.clear(), then extend.
Staged(payload, bytes) == <<bytes>>

-----------------------------------------------------------------------------
(* on_data of the three filters.                                           *)

\* A datagram the filter is done with; why is for the properties.
Done(x, fate, why) == [x EXCEPT !.fate = fate, !.why = why]

\* TableFilter and DenyAllFilter.
Passes(w, d, x) ==
    /\ filter[w].name = "table"
    /\ dgram' = [dgram EXCEPT ![d] =
          [Done(x, "forwarded", "carrier") EXCEPT !.sent = <<Bytes(d, 0, Total(x.packet))>>]]
    /\ UNCHANGED counters

Denies(w, d, x) ==
    /\ filter[w].name = "deny_all"
    /\ dgram' = [dgram EXCEPT ![d] = Done(x, "dropped", "deny_all")]
    /\ UNCHANGED counters

\* A variant with one mistake: no table, nothing to enforce.
NoTablePasses(d, x) ==
    /\ Published = NoTable
    /\ dgram' = [dgram EXCEPT ![d] =
          [Done(x, "forwarded", "no_table") EXCEPT !.sent = <<Bytes(d, 0, Total(x.packet))>>]]
    /\ UNCHANGED counters

\* No table yet: dropped, and not counted.
NoTableYet(d, x) ==
    /\ Published = NoTable
    /\ dgram' = [dgram EXCEPT ![d] = Done(x, "dropped", "no_table")]
    /\ UNCHANGED counters

\* Ppv2AuthFilter: no table, no header, or an identity to be judged.
Inspects(w, d, x) ==
    /\ filter[w].name = "ppv2_auth"
    /\ \/ NoTableYet(d, x)
       \/ /\ Published # NoTable
          /\ Parsed(x.packet).tag # "ok"
          /\ NotPpv2(x.packet)
          /\ dgram' = [dgram EXCEPT ![d] = Done(x, "dropped", "not_ppv2")]
       \/ /\ Published # NoTable
          /\ Parsed(x.packet).tag = "ok"
          /\ dgram' = [dgram EXCEPT ![d] =
                [x EXCEPT !.pc = "judge", !.labelGen = Len(log),
                          !.id = Synthesize(Published, Parsed(x.packet).header)]]
          /\ UNCHANGED counters

OnData(w, d, p) ==
    /\ dgram[d] = NotSent
    /\ filter[w] # NoFilter
    /\ ~Busy(w)
    /\ LET x == [worker |-> w, packet |-> p, cfg |-> filter[w].cfg,
                 pc |-> "done", id |-> NoName, labelGen |-> 0, window |-> {},
                 born |-> Len(log), sent |-> <<>>, fate |-> "none", why |-> "none"]
       IN Passes(w, d, x) \/ Denies(w, d, x) \/ Inspects(w, d, x)
    /\ UNCHANGED <<log, raw, call, loadVars, filter>>

\* permits_unscoped begins: a second, later read of the published table.
CallPermits(d) ==
    /\ d \in Arrived
    /\ dgram[d].pc = "judge"
    /\ Begin(dgram[d].worker, dgram[d].cfg, <<NoName, dgram[d].id>>)
    /\ dgram' = [dgram EXCEPT ![d].pc = "permits"]
    /\ UNCHANGED <<loadVars, filter, counters>>

PermitsAnswers(d) ==
    /\ d \in Arrived
    /\ dgram[d].pc = "permits"
    /\ Answer(dgram[d].worker)
    /\ dgram' = [dgram EXCEPT ![d].window = Window(call[dgram[d].worker])]
    /\ UNCHANGED <<loadVars, filter, counters>>

\* Decision::Forward: stage, count, and let Envoy take the payload or fail to.
Forward(d, x) ==
    LET w == x.worker
        payload == Staged(filter[w].payload,
                          Bytes(d, Parsed(x.packet).header.len, Buffer(x.packet)))
    IN
    /\ filter' = [filter EXCEPT ![w].payload = payload]
    /\ Bump("allowed")
    /\ \/ dgram' = [dgram EXCEPT ![d] =
                       [Done(x, "forwarded", "allowed") EXCEPT !.sent = payload]]
       \/ dgram' = [dgram EXCEPT ![d] = Done(x, "dropped", "set_failed")]

Settle(d) ==
    LET x == [dgram[d] EXCEPT !.pc = "done"] IN
    /\ d \in Arrived
    /\ dgram[d].pc = "permits"
    /\ Return(x.worker)
    /\ IF call[x.worker].verdict = "allow" THEN Forward(d, x)
       ELSE /\ Bump("denied")
            /\ dgram' = [dgram EXCEPT ![d] = Done(x, "dropped", "denied")]
            /\ UNCHANGED filter
    /\ UNCHANGED loadVars

\* Envoy, between datagrams: worker w takes over the listener in force.
Adopt(w) ==
    LET f == listener[UdpListener][1] IN
    /\ ~Busy(w)
    /\ listener[UdpListener] # <<>>
    /\ ~(filter[w] # NoFilter /\ Filter(filter[w].name, filter[w].cfg) = f)
    /\ filter' = [filter EXCEPT ![w] = [name |-> f.name, cfg |-> f.cfg, payload |-> <<>>]]
    /\ UNCHANGED <<log, raw, call, loadVars, dgram, counters>>

-----------------------------------------------------------------------------

UdpInit ==
    /\ Init /\ LoadInit
    /\ filter = [w \in Workers |-> NoFilter]
    /\ dgram = [d \in Datagrams |-> NotSent]
    /\ counters = [stat \in Stats |-> 0]

UdpNext ==
    \/ LoadNext /\ UNCHANGED udpVars
    \/ \E w \in Workers : \/ Adopt(w)
                          \/ \E d \in Datagrams, p \in Packets : OnData(w, d, p)
    \/ \E d \in Datagrams : CallPermits(d) \/ PermitsAnswers(d) \/ Settle(d)

UdpSpec == UdpInit /\ [][UdpNext]_allVars

-----------------------------------------------------------------------------

Allows(x, g) == <<NoName, x.id>> \in JudgeAgainst(raw[x.cfg], TableAt(log, g))

\* FORWARDING.  A datagram that a judging filter forwards carried a whole valid
\* header, goes on as exactly the bytes behind it -- its own, all of them, nothing
\* of an earlier datagram -- and its identity, under a table current when it
\* arrived or later, is allowed by a table permits() could have read
\* (udp.rs 94-137).
ForwardedIsLawful ==
    \A d \in Arrived :
        LET x == dgram[d]
            p == Ppv2Parse(x.packet.stream, Total(x.packet))
        IN x.why = "allowed" =>
              /\ p.tag = "ok"
              /\ x.sent = <<Bytes(d, p.header.len, Total(x.packet))>>
              /\ x.labelGen # 0 /\ x.labelGen \in x.born .. Len(log)
              /\ x.id = Synthesize(TableAt(log, x.labelGen), p.header)
              /\ \E g \in x.window : Allows(x, g)

\* DROPPING.  A datagram is dropped as headerless only if the whole of it, however
\* Envoy chunked it, holds no valid header, as denied only if a table permits()
\* could have read does not allow it, for want of a table only while none is
\* published (udp.rs 94-96, 99-117, 127).
DroppedIsJustified ==
    \A d \in Arrived :
        LET x == dgram[d] IN
        /\ x.why = "not_ppv2" => Ppv2Parse(x.packet.stream, Total(x.packet)).tag # "ok"
        /\ x.why = "denied" => \E g \in x.window : ~Allows(x, g)
        /\ x.why = "no_table" => x.born = 0

\* BEFORE A CARRIER LANDS EVERYTHING DENIES, whatever was loaded first, rejected
\* or replaced: until a table has been published no datagram goes through, judged
\* or not (config.rs 12, udp.rs 92-96, lib.rs 85-102).
BeforeCarrierDenies ==
    log = <<>> => \A d \in Arrived : dgram[d].fate # "forwarded"

CountedAs(stat) == IF stat = "allowed" THEN {"allowed", "set_failed"} ELSE {stat}

\* COUNTERS TALLY.  allowed, denied and not_ppv2 are the datagrams judged so and
\* the headerless ones; a datagram allowed whose payload Envoy did not take counts
\* as allowed (udp.rs 131-149).
UdpCountersTally ==
    \A stat \in Stats :
        counters[stat] = Cardinality({d \in Arrived : dgram[d].why \in CountedAs(stat)})

=============================================================================
